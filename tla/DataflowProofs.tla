--------------------------- MODULE DataflowProofs ---------------------------
(***************************************************************************)
(* Proofs about Dataflow for every plan, graph, host and value of the      *)
(* limits.  TypeOK and Consistent are inductive together: the counter of   *)
(* terminating actors stays a natural because it is exact.                 *)
(***************************************************************************)
EXTENDS Dataflow, SequenceFacts

Inv == TypeOK /\ Consistent

-----------------------------------------------------------------------------
(* Operators on data. *)

\* The expansion of a sequence of nodes is a sequence of nodes.
LEMMA ExpandType ==
  ASSUME NEW nodes \in Seq(Node)
  PROVE  Expand(nodes) \in Seq(Node)
<1>1. [i \in 1..Len(nodes) |-> GetOutV[nodes[i]]] \in Seq(Seq(Node))
  BY PlanAssumption
<1>2. QED
  BY <1>1, FlattenType DEF Expand

\* The quotient by the payload size, and products with it.
LEMMA DivisionFacts ==
  ASSUME NEW x \in Nat, NEW m \in Nat, m > 0
  PROVE  /\ x \div m \in Nat
         /\ (x \div m) * m \in Nat
         /\ (x \div m) * m <= x
         /\ x < (x \div m) * m + m
<1>1. x \div m \in Nat
  OBVIOUS
<1>2. PICK q \in Nat : q = x \div m
  BY <1>1
<1>3. m * q <= x
  BY <1>2
<1>4. x < m * q + m
  BY <1>2
<1>5. q * m \in Nat /\ q * m = m * q
  OBVIOUS
<1>6. QED
  BY <1>2, <1>3, <1>4, <1>5

LEMMA ProductFacts ==
  ASSUME NEW k \in Nat, NEW q \in Nat, NEW m \in Nat, k >= 1, k <= q
  PROVE  /\ (k - 1) * m \in Nat /\ k * m \in Nat
         /\ k * m <= q * m
<1>1. (k - 1) * m \in Nat
  OBVIOUS
<1>2. k * m \in Nat
  OBVIOUS
<1>3. k * m <= q * m
  OBVIOUS
<1>4. QED
  BY <1>1, <1>2, <1>3

\* Every message flushed is a message of user data, and what is left after the
\* flushes is less than a payload.
LEMMA FlushType ==
  ASSUME NEW all \in Seq(Node), NEW to \in Addr
  PROVE  /\ Flushed(to, all) \in Seq(UserMessage)
         /\ Rest(all) \in Seq(Node)
         /\ Len(Rest(all)) < MaxPayload
<1> DEFINE q == Len(all) \div MaxPayload
           full == q * MaxPayload
<1>1. MaxPayload \in Nat /\ MaxPayload > 0 /\ Len(all) \in Nat
  BY NumberAssumption
<1>2. q \in Nat /\ full \in Nat /\ full <= Len(all) /\ Len(all) < full + MaxPayload
  BY <1>1, DivisionFacts
<1>3. ASSUME NEW k \in 1..q
      PROVE  DataMessage(to, SubSeq(all, (k - 1) * MaxPayload + 1, k * MaxPayload))
                \in UserMessage
  <2> DEFINE lo == (k - 1) * MaxPayload
             hi == k * MaxPayload
  <2>1. lo \in Nat /\ hi \in Nat /\ hi <= full
    <3> HIDE DEF q
    <3> QED
      BY <1>1, <1>2, ProductFacts
  <2> HIDE DEF lo, hi, q, full
  <2>2. \A i \in (lo + 1)..hi : all[i] \in Node
    BY <1>1, <1>2, <2>1
  <2>3. SubSeq(all, lo + 1, hi) \in Seq(Node)
    BY <2>1, <2>2, SubSeqProperties
  <2>4. DataMessage(to, SubSeq(all, lo + 1, hi)) \in UserMessage
    BY <2>3 DEF DataMessage, UserMessage, Kind
  <2>5. QED
    BY <2>4 DEF lo, hi
<1>4. Flushed(to, all) \in Seq(UserMessage)
  <2> DEFINE chunk(k) ==
        DataMessage(to, SubSeq(all, (k - 1) * MaxPayload + 1, k * MaxPayload))
  <2>1. Flushed(to, all) = [k \in 1..q |-> chunk(k)]
    BY DEF Flushed
  <2>2. \A k \in 1..q : chunk(k) \in UserMessage
    BY <1>3
  <2> HIDE DEF chunk, q
  <2>3. [k \in 1..q |-> chunk(k)] \in Seq(UserMessage)
    BY <1>2, <2>2
  <2>4. QED
    BY <2>1, <2>3
<1>5. Rest(all) \in Seq(Node) /\ Len(Rest(all)) < MaxPayload
  <2>1. Rest(all) = SubSeq(all, full + 1, Len(all))
    BY DEF Rest
  <2> HIDE DEF q, full
  <2>2. \A i \in (full + 1)..Len(all) : all[i] \in Node
    BY <1>1, <1>2
  <2>3. /\ SubSeq(all, full + 1, Len(all)) \in Seq(Node)
        /\ Len(SubSeq(all, full + 1, Len(all))) =
              IF full + 1 <= Len(all) THEN Len(all) - (full + 1) + 1 ELSE 0
    BY <1>1, <1>2, <2>2, SubSeqProperties
  <2>4. QED
    BY <1>1, <1>2, <2>1, <2>3
<1>6. QED
  BY <1>4, <1>5

-----------------------------------------------------------------------------
(* Operators on the state. *)

\* A message of type USER has an address and a payload, one of type
\* CANCEL_SCOPE has a prefix.
LEMMA MessageFacts ==
  ASSUME NEW m \in Message
  PROVE  /\ m.type = "USER" => m \in UserMessage
         /\ m.type = "CANCEL_SCOPE" => m.prefix \in Prefix
BY DEF Message, UserMessage, CancelMessage, OtherMessage

\* not_expired keeps the execution count below the interval.
LEMMA NotExpiredType ==
  ASSUME NEW count \in 0..(ExecInterval - 1), NEW turn \in NotExpired(count)
  PROVE  turn.ok \in BOOLEAN /\ turn.count \in 0..(ExecInterval - 1)
<1>1. CASE count + 1 < ExecInterval
  <2>1. turn = [ok |-> TRUE, count |-> count + 1]
    BY <1>1 DEF NotExpired
  <2>2. QED
    BY <1>1, <2>1, NumberAssumption
<1>2. CASE ~(count + 1 < ExecInterval)
  <2>1. PICK answer \in ClockAnswers : turn = [ok |-> answer, count |-> 0]
    BY <1>2 DEF NotExpired
  <2>2. QED
    BY <2>1, NumberAssumption
<1>3. QED
  BY <1>1, <1>2

\* Stopping a set of actors adds to the task queue those it wakes, each once.
LEMMA StopActorsFacts ==
  ASSUME TypeOK, NEW S \in SUBSET Addr, NEW box \in [Addr -> Seq(UserMessage)],
         StopActors(S, box)
  PROVE  /\ \A a \in Addr :
               /\ terminating'[a] = IF a \in S THEN TRUE ELSE terminating[a]
               /\ inbox'[a] = IF a \in S /\ ~terminating[a] THEN <<>> ELSE box[a]
               /\ isActive'[a] =
                     IF a \in S /\ ~terminating[a] THEN TRUE ELSE isActive[a]
         /\ \E order \in Seq(Addr) :
               /\ taskQueue' = taskQueue \o order
               /\ IsInjective(order)
               /\ ToSet(order) = {a \in S : ~terminating[a] /\ ~isActive[a]}
<1> DEFINE stopping == {a \in S : ~terminating[a]}
           waking   == {a \in stopping : ~isActive[a]}
<1>1. /\ terminating' = [a \in Addr |-> IF a \in S THEN TRUE ELSE terminating[a]]
      /\ inbox' = [a \in Addr |-> IF a \in stopping THEN <<>> ELSE box[a]]
      /\ isActive' = [a \in Addr |-> IF a \in waking THEN TRUE ELSE isActive[a]]
  BY DEF StopActors
<1>2. PICK order \in SetToSeqs(waking) : taskQueue' = taskQueue \o order
  BY DEF StopActors
<1>3. waking \in SUBSET Addr /\ IsFiniteSet(waking)
  BY PlanAssumption, FS_Subset
<1>4. order \in Seq(Addr) /\ IsInjective(order) /\ ToSet(order) = waking
  <2> HIDE DEF waking
  <2> QED
    BY <1>2, <1>3, EnumerationFacts
<1>5. waking = {a \in S : ~terminating[a] /\ ~isActive[a]}
  OBVIOUS
<1>6. \A a \in Addr : isActive'[a] = IF a \in stopping THEN TRUE ELSE isActive[a]
  BY <1>1 DEF TypeOK
<1>7. QED
  BY <1>1, <1>2, <1>4, <1>5, <1>6

LEMMA StopActorsType ==
  ASSUME TypeOK, NEW S \in SUBSET Addr, NEW box \in [Addr -> Seq(UserMessage)],
         StopActors(S, box)
  PROVE  /\ terminating' \in [Addr -> BOOLEAN]
         /\ inbox' \in [Addr -> Seq(UserMessage)]
         /\ isActive' \in [Addr -> BOOLEAN]
         /\ taskQueue' \in Seq(Addr)
<1>1. PICK order \in Seq(Addr) : taskQueue' = taskQueue \o order
  BY StopActorsFacts
<1>2. taskQueue' \in Seq(Addr)
  BY <1>1, ConcatProperties DEF TypeOK
<1>3. /\ \A a \in Addr : terminating[a] \in BOOLEAN /\ isActive[a] \in BOOLEAN
      /\ \A a \in Addr : box[a] \in Seq(UserMessage)
      /\ <<>> \in Seq(UserMessage)
  BY EmptySeq DEF TypeOK
<1>4. /\ \A a \in Addr : terminating'[a] \in BOOLEAN
      /\ \A a \in Addr : isActive'[a] \in BOOLEAN
      /\ \A a \in Addr : inbox'[a] \in Seq(UserMessage)
  <2> SUFFICES ASSUME NEW a \in Addr
               PROVE  /\ terminating'[a] \in BOOLEAN /\ isActive'[a] \in BOOLEAN
                      /\ inbox'[a] \in Seq(UserMessage)
    OBVIOUS
  <2>1. /\ terminating'[a] = IF a \in S THEN TRUE ELSE terminating[a]
        /\ inbox'[a] = IF a \in S /\ ~terminating[a] THEN <<>> ELSE box[a]
        /\ isActive'[a] =
              IF a \in S /\ ~terminating[a] THEN TRUE ELSE isActive[a]
    BY StopActorsFacts
  <2>2. terminating'[a] \in BOOLEAN
    <3>1. CASE a \in S
      BY <2>1, <3>1
    <3>2. CASE a \notin S
      BY <1>3, <2>1, <3>2
    <3>3. QED
      BY <3>1, <3>2
  <2>3. isActive'[a] \in BOOLEAN
    <3>1. CASE a \in S /\ ~terminating[a]
      BY <2>1, <3>1
    <3>2. CASE ~(a \in S /\ ~terminating[a])
      BY <1>3, <2>1, <3>2
    <3>3. QED
      BY <3>1, <3>2
  <2>4. inbox'[a] \in Seq(UserMessage)
    BY <1>3, <2>1
  <2>5. QED
    BY <2>2, <2>3, <2>4
<1>5. terminating' \in [Addr -> BOOLEAN]
  <2>1. terminating' = [a \in Addr |-> terminating'[a]]
    BY DEF StopActors
  <2>2. QED
    BY <1>4, <2>1
<1>6. isActive' \in [Addr -> BOOLEAN]
  <2>1. isActive' = [a \in Addr |-> isActive'[a]]
    BY DEF StopActors
  <2>2. QED
    BY <1>4, <2>1
<1>7. inbox' \in [Addr -> Seq(UserMessage)]
  <2>1. inbox' = [a \in Addr |-> inbox'[a]]
    BY DEF StopActors
  <2>2. QED
    BY <1>4, <2>1
<1>8. QED
  BY <1>2, <1>5, <1>6, <1>7

LEMMA DisableType ==
  ASSUME TypeOK, NEW S
  PROVE  Disable(S) \in [Addr -> {"absent", "live", "disabled"}]
BY DEF TypeOK, Disable

\* Cancelling a scope keeps the types.
LEMMA ScopeType ==
  ASSUME TypeOK, NEW p \in Prefix, HandleScopeCancellation(p)
  PROVE  /\ terminating' \in [Addr -> BOOLEAN]
         /\ inbox' \in [Addr -> Seq(UserMessage)]
         /\ isActive' \in [Addr -> BOOLEAN]
         /\ taskQueue' \in Seq(Addr)
         /\ tree' \in [Addr -> {"absent", "live", "disabled"}]
         /\ numTerminating' \in Nat
<1> DEFINE stopped == LiveIn(Under[p])
<1>1. stopped \in SUBSET Addr /\ IsFiniteSet(stopped)
  <2>1. Under[p] \in SUBSET Addr
    BY PlanAssumption
  <2>2. stopped \in SUBSET Addr
    BY <2>1 DEF LiveIn
  <2>3. QED
    BY <2>2, PlanAssumption, FS_Subset
<1>2. /\ StopActors(stopped, inbox) /\ tree' = Disable(Under[p])
      /\ numTerminating' = numTerminating + Cardinality(stopped)
  BY DEF HandleScopeCancellation
<1> HIDE DEF stopped
<1>3. inbox \in [Addr -> Seq(UserMessage)] /\ numTerminating \in Nat
  BY DEF TypeOK
<1>4. numTerminating' \in Nat
  BY <1>1, <1>2, <1>3, FS_CardinalityType
<1>5. tree' \in [Addr -> {"absent", "live", "disabled"}]
  BY <1>2, DisableType
<1>6. QED
  BY <1>1, <1>2, <1>3, <1>4, <1>5, StopActorsType

\* So does the end of a turn of an actor, whether it asks to be terminated or
\* goes on.
LEMMA TurnType ==
  ASSUME TypeOK, NEW a \in Addr, inbox[a] # <<>>, CancelMe(a) \/ Available(a)
  PROVE  /\ terminating' \in [Addr -> BOOLEAN]
         /\ inbox' \in [Addr -> Seq(UserMessage)]
         /\ isActive' \in [Addr -> BOOLEAN]
         /\ taskQueue' \in Seq(Addr)
         /\ tree' \in [Addr -> {"absent", "live", "disabled"}]
         /\ numTerminating' \in Nat
<1>1. Popped(a) \in [Addr -> Seq(UserMessage)]
  BY DEF TypeOK, Popped
<1>2. CASE Available(a)
  BY <1>1, <1>2 DEF TypeOK, Available, stopVars
<1>3. CASE CancelMe(a) /\ Lookup(a) = -1
  BY <1>1, <1>3 DEF TypeOK, CancelMe, HandleChildTermination, stopVars
<1>4. CASE CancelMe(a) /\ Lookup(a) # -1
  <2>1. /\ StopActors({a}, Popped(a)) /\ tree' = Disable({a})
        /\ numTerminating' = numTerminating + 1
    BY <1>4 DEF CancelMe, HandleChildTermination
  <2>2. tree' \in [Addr -> {"absent", "live", "disabled"}] /\ numTerminating' \in Nat
    BY <2>1, DisableType DEF TypeOK
  <2>3. QED
    BY <1>1, <2>1, <2>2, StopActorsType
<1>5. QED
  BY <1>2, <1>3, <1>4

-----------------------------------------------------------------------------
(* TypeOK is preserved by every step. *)

LEMMA HostType ==
  ASSUME TypeOK, Host \/ RunAndDispose
  PROVE  TypeOK'
<1>1. ASSUME NEW m \in HostMessage, HostEnqueue(m)
      PROVE  TypeOK'
  <2>1. mailbox' \in Seq(Message)
    BY <1>1, HostAssumption DEF TypeOK, HostEnqueue
  <2>2. QED
    BY <1>1, <2>1 DEF TypeOK, HostEnqueue, stopVars, dfVars, opVars
<1>2. ASSUME NEW m \in HostMessage, HostEnqueueUrgent(m)
      PROVE  TypeOK'
  <2>1. m \in Message /\ <<m>> \in Seq(Message)
    BY <1>2, HostAssumption
  <2>2. mailbox' \in Seq(Message)
    BY <1>2, <2>1, ConcatProperties DEF TypeOK, HostEnqueueUrgent
  <2>3. QED
    BY <1>2, <2>2 DEF TypeOK, HostEnqueueUrgent, stopVars, dfVars, opVars
<1>3. CASE HandleStopFromParent
  <2>1. OwnPrefix \in Prefix
    BY PlanAssumption
  <2>2. /\ HandleScopeCancellation(OwnPrefix) /\ mailbox' = <<>>
        /\ dfTerminating' = TRUE /\ dfActive' = (dfActive \/ numTerminating' = 0)
        /\ UNCHANGED <<dfExecCount, life, opVars, execCount, pc, running>>
    BY <1>3 DEF HandleStopFromParent
  <2>3. dfActive' \in BOOLEAN /\ mailbox' \in Seq(Message)
    BY <2>2, EmptySeq DEF TypeOK
  <2>4. QED
    BY <2>1, <2>2, <2>3, ScopeType DEF TypeOK, opVars
<1>4. CASE RunAndDispose
  BY <1>4 DEF TypeOK, RunAndDispose, stopVars, dfVars, opVars
<1>5. QED
  BY <1>1, <1>2, <1>3, <1>4 DEF Host

\* A delivery keeps the types.
LEMMA DeliverType ==
  ASSUME TypeOK, NEW m \in UserMessage, Deliver(m)
  PROVE  /\ inbox' \in [Addr -> Seq(UserMessage)]
         /\ isActive' \in [Addr -> BOOLEAN]
         /\ taskQueue' \in Seq(Addr)
<1>1. m.to \in Addr
  BY DEF UserMessage
<1>2. inbox' \in [Addr -> Seq(UserMessage)]
  <2>1. inbox[m.to] \in Seq(UserMessage)
    BY <1>1 DEF TypeOK
  <2>2. Append(inbox[m.to], m) \in Seq(UserMessage)
    BY <2>1
  <2>3. QED
    BY <2>2 DEF TypeOK, Deliver
<1>3. isActive' \in [Addr -> BOOLEAN]
  BY DEF TypeOK, Deliver
<1>4. taskQueue' \in Seq(Addr)
  <2>1. taskQueue \in Seq(Addr) /\ Append(taskQueue, m.to) \in Seq(Addr)
    BY <1>1 DEF TypeOK
  <2>2. QED
    BY <2>1 DEF Deliver
<1>5. QED
  BY <1>2, <1>3, <1>4

LEMMA MailboxType ==
  ASSUME TypeOK, ProcessMailbox
  PROVE  TypeOK'
<1> DEFINE m == Head(mailbox)
<1>1. ASSUME Receiving
      PROVE  mailbox' \in Seq(Message) /\ m \in Message
  BY <1>1, HeadTailProperties DEF TypeOK, Receiving
<1>2. CASE UserToLive
  <2>1. Receiving /\ m.type = "USER" /\ Deliver(m)
    BY <1>2 DEF UserToLive
  <2>2. m \in UserMessage /\ mailbox' \in Seq(Message)
    BY <1>1, <2>1, MessageFacts
  <2>3. /\ inbox' \in [Addr -> Seq(UserMessage)]
        /\ isActive' \in [Addr -> BOOLEAN]
        /\ taskQueue' \in Seq(Addr)
    BY <2>1, <2>2, DeliverType
  <2>4. QED
    BY <1>2, <2>2, <2>3 DEF UserToLive, TypeOK, dfVars, opVars
<1>3. CASE UserToAbsent
  <2>1. Receiving /\ m.type = "USER" /\ Deliver(m)
    BY <1>3 DEF UserToAbsent
  <2>2. m \in UserMessage /\ mailbox' \in Seq(Message)
    BY <1>1, <2>1, MessageFacts
  <2>3. /\ inbox' \in [Addr -> Seq(UserMessage)]
        /\ isActive' \in [Addr -> BOOLEAN]
        /\ taskQueue' \in Seq(Addr)
    BY <2>1, <2>2, DeliverType
  <2>4. /\ life' \in [Addr -> {"none", "alive", "freed"}]
        /\ tree' \in [Addr -> {"absent", "live", "disabled"}]
    BY <1>3 DEF UserToAbsent, TypeOK
  <2>5. QED
    BY <1>3, <2>2, <2>3, <2>4 DEF UserToAbsent, TypeOK, dfVars, opVars
<1>4. CASE UserToDisabled
  BY <1>1, <1>4 DEF UserToDisabled, TypeOK, stopVars, dfVars, opVars
<1>5. CASE CancelScope
  <2>1. /\ Receiving /\ m.type = "CANCEL_SCOPE"
        /\ HandleScopeCancellation(m.prefix)
        /\ UNCHANGED <<dfVars, dfExecCount, life, opVars, execCount, pc, running>>
    BY <1>5 DEF CancelScope
  <2>2. m.prefix \in Prefix /\ mailbox' \in Seq(Message)
    BY <1>1, <2>1, MessageFacts
  <2> HIDE DEF m
  <2>3. QED
    BY <2>1, <2>2, ScopeType DEF TypeOK, dfVars, opVars
<1>6. CASE DropControl
  BY <1>1, <1>6 DEF DropControl, TypeOK, stopVars, dfVars, opVars
<1>7. CASE MailboxEmpty
  BY <1>7 DEF MailboxEmpty, TypeOK, stopVars, dfVars, opVars
<1>8. QED
  BY <1>2, <1>3, <1>4, <1>5, <1>6, <1>7 DEF ProcessMailbox

LEMMA TaskLoopType ==
  ASSUME TypeOK, TaskLoop
  PROVE  TypeOK'
<1>1. dfExecCount \in 0..(ExecInterval - 1) /\ 0 \in 0..(ExecInterval - 1)
  BY NumberAssumption DEF TypeOK
<1>2. CASE RunTask
  <2>1. dfExecCount' \in 0..(ExecInterval - 1)
    BY <1>1, <1>2, NotExpiredType DEF RunTask
  <2>2. running' \in Addr /\ taskQueue' \in Seq(Addr) /\ running' # NoAddr
    BY <1>2, HeadTailProperties, PlanAssumption DEF RunTask, TypeOK
  <2>3. QED
    BY <1>1, <1>2, <2>1, <2>2 DEF RunTask, TypeOK, dfVars, actorVars, opVars
<1>3. CASE TasksExpired
  <2>1. dfExecCount' \in 0..(ExecInterval - 1)
    BY <1>1, <1>3, NotExpiredType DEF TasksExpired
  <2>2. QED
    BY <1>3, <2>1 DEF TasksExpired, AfterTasks, TypeOK, stopVars, dfVars, opVars
<1>4. CASE TasksDone
  BY <1>4 DEF TasksDone, AfterTasks, TypeOK, stopVars, dfVars, opVars
<1>5. QED
  BY <1>2, <1>3, <1>4 DEF TaskLoop

\* What every turn of the message loop of an actor gives: the loop variables
\* keep their types and the actor asks to be terminated or goes on.
LEMMA WorkingType ==
  ASSUME TypeOK, NEW a \in Addr, Working(a)
  PROVE  /\ execCount' \in 0..(ExecInterval - 1)
         /\ UNCHANGED <<dfTerminating, dfActive, dfExecCount, life, pc, running>>
         /\ inbox[a] # <<>>
         /\ Head(inbox[a]) \in UserMessage /\ Head(inbox[a]).data \in Seq(Node)
<1>1. Head(inbox[a]) \in UserMessage
  BY HeadTailProperties DEF TypeOK, Working
<1>2. Head(inbox[a]).data \in Seq(Node)
  BY <1>1 DEF UserMessage
<1>3. execCount' \in 0..(ExecInterval - 1)
  BY NotExpiredType DEF TypeOK, Working
<1>4. QED
  BY <1>1, <1>2, <1>3 DEF Working, dfVars

LEMMA DoWorkType ==
  ASSUME TypeOK, NEW a \in Addr, DoWork(a)
  PROVE  TypeOK'
<1>1. Working(a) /\ (CancelMe(a) \/ Available(a))
  BY DEF DoWork, OutData, OutLastEos, LimitDiscard, LimitData, LimitLastEos,
         EarlierEos, UndefinedData
<1>2. /\ execCount' \in 0..(ExecInterval - 1)
      /\ UNCHANGED <<dfTerminating, dfActive, dfExecCount, life, pc, running>>
      /\ inbox[a] # <<>>
      /\ Head(inbox[a]) \in UserMessage /\ Head(inbox[a]).data \in Seq(Node)
  BY <1>1, WorkingType
<1>3. /\ terminating' \in [Addr -> BOOLEAN]
      /\ inbox' \in [Addr -> Seq(UserMessage)]
      /\ isActive' \in [Addr -> BOOLEAN]
      /\ taskQueue' \in Seq(Addr)
      /\ tree' \in [Addr -> {"absent", "live", "disabled"}]
      /\ numTerminating' \in Nat
  BY <1>1, <1>2, TurnType
<1> SUFFICES /\ mailbox' \in Seq(Message)
             /\ numRcvEos' \in [Addr -> Nat] /\ curCnt' \in [Addr -> Nat]
             /\ outPayload' \in [Addr -> Seq(Node)]
             /\ \A b \in Addr : /\ Len(outPayload'[b]) < MaxPayload
                                /\ curCnt'[b] <= LimitCount[b]
             /\ output' \in Seq(Node)
  BY <1>2, <1>3 DEF TypeOK
<1> DEFINE m == Head(inbox[a])
<1>4. UserMessage \subseteq Message
  BY DEF Message
<1>5. CASE OutData(a)
  <2> DEFINE all == outPayload[a] \o Expand(m.data)
  <2>1. /\ OpCode[a] = "OUT"
        /\ mailbox' = mailbox \o Flushed(Downstream[a], all)
        /\ outPayload' = [outPayload EXCEPT ![a] = Rest(all)]
        /\ UNCHANGED <<numRcvEos, curCnt, output>>
    BY <1>5 DEF OutData
  <2>2. Downstream[a] \in Addr
    BY <2>1, PlanAssumption
  <2>3. all \in Seq(Node)
    BY <1>2, ExpandType, ConcatProperties DEF TypeOK
  <2> HIDE DEF all
  <2>4. /\ Flushed(Downstream[a], all) \in Seq(UserMessage)
        /\ Rest(all) \in Seq(Node) /\ Len(Rest(all)) < MaxPayload
    BY <2>2, <2>3, FlushType
  <2>5. Flushed(Downstream[a], all) \in Seq(Message)
    BY <1>4, <2>4
  <2>6. mailbox' \in Seq(Message)
    BY <2>1, <2>5, ConcatProperties DEF TypeOK
  <2>7. QED
    BY <2>1, <2>4, <2>6 DEF TypeOK
<1>6. CASE OutLastEos(a)
  <2>1. /\ OpCode[a] = "OUT"
        /\ mailbox' = mailbox \o Farewell(Downstream[a], outPayload[a])
        /\ outPayload' = [outPayload EXCEPT ![a] = <<>>]
        /\ numRcvEos' = [numRcvEos EXCEPT ![a] = @ + 1]
        /\ UNCHANGED <<curCnt, output>>
    BY <1>6 DEF OutLastEos
  <2>2. Downstream[a] \in Addr
    BY <2>1, PlanAssumption
  <2>3. outPayload[a] \in Seq(Node) /\ <<>> \in Seq(Node)
    BY DEF TypeOK
  <2>4. /\ DataMessage(Downstream[a], outPayload[a]) \in Message
        /\ EosMessage(Downstream[a]) \in Message
    BY <1>4, <2>2, <2>3 DEF DataMessage, EosMessage, UserMessage, Kind
  <2>5. Farewell(Downstream[a], outPayload[a]) \in Seq(Message)
    BY <2>4 DEF Farewell
  <2>6. mailbox' \in Seq(Message)
    BY <2>1, <2>5, ConcatProperties DEF TypeOK
  <2>7. Len(<<>>) < MaxPayload
    BY NumberAssumption
  <2>8. /\ outPayload' \in [Addr -> Seq(Node)] /\ outPayload'[a] = <<>>
        /\ \A b \in Addr : b # a => outPayload'[b] = outPayload[b]
    BY <2>1, <2>3 DEF TypeOK
  <2>9. \A b \in Addr : Len(outPayload'[b]) < MaxPayload
    BY <2>7, <2>8 DEF TypeOK
  <2>10. numRcvEos' \in [Addr -> Nat]
    BY <2>1 DEF TypeOK
  <2>11. /\ curCnt' \in [Addr -> Nat] /\ output' \in Seq(Node)
         /\ \A b \in Addr : curCnt'[b] <= LimitCount[b]
    BY <2>1 DEF TypeOK
  <2>12. QED
    BY <2>6, <2>8, <2>9, <2>10, <2>11
<1>7. CASE LimitDiscard(a)
  BY <1>7 DEF LimitDiscard, opVars, TypeOK
<1>8. CASE LimitData(a)
  <2> DEFINE room == LimitCount[a] - curCnt[a]
             n    == IF Len(m.data) < room THEN Len(m.data) ELSE room
  <2>1. /\ LimitOpen(a)
        /\ output' = output \o SubSeq(m.data, 1, n)
        /\ curCnt' = [curCnt EXCEPT ![a] = @ + n]
        /\ UNCHANGED <<mailbox, numRcvEos, outPayload>>
    BY <1>8 DEF LimitData
  <2>2. /\ Len(m.data) \in Nat /\ LimitCount[a] \in Nat /\ curCnt[a] \in Nat
        /\ curCnt[a] < LimitCount[a]
    BY <1>2, <2>1, NumberAssumption, LenProperties DEF TypeOK, LimitOpen
  <2>3. n \in Nat /\ n <= Len(m.data) /\ curCnt[a] + n <= LimitCount[a]
    <3>1. room \in Nat /\ curCnt[a] + room = LimitCount[a]
      BY <2>2
    <3> HIDE DEF m, room
    <3>2. CASE Len(m.data) < room
      <4>1. n = Len(m.data)
        BY <3>2
      <4> HIDE DEF n
      <4>2. QED
        BY <2>2, <3>1, <3>2, <4>1
    <3>3. CASE ~(Len(m.data) < room)
      <4>1. n = room
        BY <3>3
      <4> HIDE DEF n
      <4>2. QED
        BY <2>2, <3>1, <3>3, <4>1
    <3>4. QED
      BY <3>2, <3>3
  <2> HIDE DEF n
  <2>4. SubSeq(m.data, 1, n) \in Seq(Node)
    <3>1. \A i \in 1..n : m.data[i] \in Node
      BY <1>2, <2>2, <2>3
    <3>2. QED
      BY <2>3, <3>1, SubSeqProperties
  <2>5. output' \in Seq(Node)
    BY <2>1, <2>4, ConcatProperties DEF TypeOK
  <2> HIDE DEF m
  <2>6. curCnt[a] + n \in Nat
    BY <2>2, <2>3
  <2>7. /\ curCnt' \in [Addr -> Nat] /\ curCnt'[a] = curCnt[a] + n
        /\ \A b \in Addr : b # a => curCnt'[b] = curCnt[b]
    BY <2>1, <2>6 DEF TypeOK
  <2>8. \A b \in Addr : curCnt'[b] <= LimitCount[b]
    BY <2>3, <2>7 DEF TypeOK
  <2>9. QED
    BY <2>1, <2>5, <2>7, <2>8 DEF TypeOK
<1>9. CASE LimitLastEos(a) \/ EarlierEos(a)
  <2>1. /\ numRcvEos' = [numRcvEos EXCEPT ![a] = @ + 1]
        /\ UNCHANGED <<mailbox, curCnt, outPayload, output>>
    BY <1>9 DEF LimitLastEos, EarlierEos
  <2>2. numRcvEos' \in [Addr -> Nat]
    BY <2>1 DEF TypeOK
  <2>3. QED
    BY <2>1, <2>2 DEF TypeOK
<1>10. CASE UndefinedData(a)
  BY <1>10 DEF UndefinedData, opVars, TypeOK
<1>11. QED
  BY <1>5, <1>6, <1>7, <1>8, <1>9, <1>10 DEF DoWork

\* An actor that is deleted was counted: the counter stays a natural.
LEMMA LeaveType ==
  ASSUME TypeOK, Consistent, NEW a \in Addr, Terminated(a) \/ Yield(a)
  PROVE  TypeOK'
<1>1. LeaveLoop(a) /\ a = running
  BY DEF Terminated, Yield, LeaveLoop
<1>2. execCount' \in 0..(ExecInterval - 1)
  <2>1. CASE UNCHANGED execCount
    BY <2>1 DEF TypeOK
  <2>2. CASE \E turn \in NotExpired(execCount) : execCount' = turn.count
    BY <2>2, NotExpiredType DEF TypeOK
  <2>3. QED
    BY <1>1, <2>1, <2>2 DEF LeaveLoop
<1>3. CASE Terminated(a)
  <2>1. a \in Stopping
    BY <1>1, <1>3, PlanAssumption DEF Terminated, Stopping, Consistent, ScheduledOnce
  <2>2. IsFiniteSet(Stopping)
    BY PlanAssumption, FS_Subset DEF Stopping
  <2>3. numTerminating \in Nat /\ numTerminating # 0
    BY <2>1, <2>2, FS_EmptySet DEF TypeOK, Consistent, CountExact
  <2>4. numTerminating' \in Nat
    BY <1>3, <2>3 DEF Terminated, HandleChildTerminated
  <2>5. QED
    BY <1>1, <1>2, <1>3, <2>4
       DEF Terminated, LeaveLoop, TypeOK, dfVars, opVars
<1>4. CASE Yield(a)
  <2>1. taskQueue' \in Seq(Addr) /\ isActive' \in [Addr -> BOOLEAN]
    BY <1>4 DEF Yield, TypeOK
  <2>2. QED
    BY <1>1, <1>2, <1>4, <2>1 DEF Yield, LeaveLoop, TypeOK, dfVars, opVars
<1>5. QED
  BY <1>3, <1>4

\* One step keeps every type.
LEMMA TypeStep ==
  ASSUME TypeOK, Consistent, [Next]_vars
  PROVE  TypeOK'
<1>1. ASSUME UNCHANGED vars PROVE TypeOK'
  BY <1>1 DEF TypeOK, vars, dfVars, actorVars, opVars
<1>2. QED
  BY <1>1, HostType, MailboxType, TaskLoopType, DoWorkType, LeaveType
     DEF Next, Engine, ActorRun

-----------------------------------------------------------------------------
(* Consistent is preserved by every step.  Five ways of changing the part of *)
(* the state it speaks of cover all the actions.                             *)

\* The actors told to stop and not yet deleted are finitely many.
LEMMA StoppingFinite == IsFiniteSet(Stopping)
BY PlanAssumption, FS_Subset DEF Stopping

\* Steps that move messages and counters of the dataflow only.
LEMMA QuietStep ==
  ASSUME Consistent, UNCHANGED <<stopVars, life, inbox, running>>
  PROVE  Consistent'
BY DEF Consistent, IndexSound, ScheduledOnce, NoLostWakeUp, CountExact, Stopping,
       Queued, stopVars

\* A message reaches actor a, which exists and is live when it gets it.
LEMMA DeliverStep ==
  ASSUME TypeOK, Consistent, NEW m \in UserMessage, Deliver(m),
         UNCHANGED <<numTerminating, terminating, running>>,
         \A b \in Addr : b # m.to => tree'[b] = tree[b] /\ life'[b] = life[b],
         tree[m.to] \in {"live", "absent"},
         tree[m.to] = "live" => life'[m.to] = life[m.to],
         tree'[m.to] = "live", life'[m.to] = "alive"
  PROVE  Consistent'
<1> DEFINE a == m.to
<1>1. /\ a \in Addr
      /\ IndexSound /\ ScheduledOnce /\ NoLostWakeUp /\ CountExact
  BY DEF UserMessage, Consistent
<1>2. ~terminating[a] /\ (isActive[a] => life[a] = "alive")
  BY <1>1 DEF IndexSound, TypeOK
<1>3. /\ inbox'[a] # <<>>
      /\ \A b \in Addr : b # a => inbox'[b] = inbox[b]
      /\ isActive'[a]
      /\ \A b \in Addr : b # a => (isActive'[b] <=> isActive[b])
  <2>1. inbox' = [inbox EXCEPT ![a] = Append(inbox[a], m)]
    BY DEF Deliver
  <2>2. inbox[a] \in Seq(UserMessage)
    BY <1>1 DEF TypeOK
  <2>3. Append(inbox[a], m) # <<>>
    BY <2>2
  <2>4. inbox'[a] # <<>> /\ \A b \in Addr : b # a => inbox'[b] = inbox[b]
    BY <1>1, <2>1, <2>3 DEF TypeOK
  <2>5. isActive' = [isActive EXCEPT ![a] = TRUE]
    BY DEF Deliver
  <2>6. isActive'[a] /\ \A b \in Addr : b # a => isActive'[b] = isActive[b]
    BY <1>1, <2>5, Zenon DEF TypeOK
  <2>7. QED
    BY <2>4, <2>6
<1>4. IndexSound'
  BY <1>1, <1>2, <1>3 DEF IndexSound
<1>5. ScheduledOnce'
  <2>1. IsInjective(taskQueue') /\ running' \notin Queued' /\ Queued' = Queued \cup
           (IF isActive[a] THEN {} ELSE {a})
    <3>1. CASE isActive[a]
      BY <1>1, <3>1 DEF Deliver, ScheduledOnce, Queued
    <3>2. CASE ~isActive[a]
      <4>1. a \notin Queued /\ a # running
        BY <1>1, <3>2 DEF ScheduledOnce
      <4>2. taskQueue' = Append(taskQueue, a) /\ taskQueue \in Seq(Addr)
        BY <3>2 DEF Deliver, TypeOK
      <4> HIDE DEF a
      <4>3. QED
        BY <1>1, <3>2, <4>1, <4>2, AppendFacts DEF ScheduledOnce, Queued
    <3>3. QED
      BY <3>1, <3>2
  <2>2. \A b \in Addr :
           b \in Queued' \/ b = running' <=> life'[b] = "alive" /\ isActive'[b]
    <3> SUFFICES ASSUME NEW b \in Addr
                 PROVE  b \in Queued' \/ b = running'
                           <=> life'[b] = "alive" /\ isActive'[b]
      OBVIOUS
    <3>1. b \in Queued \/ b = running <=> life[b] = "alive" /\ isActive[b]
      BY <1>1 DEF ScheduledOnce
    <3>2. CASE b = a
      <4>1. a \in Queued' \/ a = running'
        BY <1>1, <1>2, <2>1 DEF ScheduledOnce
      <4>2. QED
        BY <1>3, <3>2, <4>1
    <3>3. CASE b # a
      BY <1>3, <2>1, <3>1, <3>3
    <3>4. QED
      BY <3>2, <3>3
  <2>3. QED
    BY <2>1, <2>2 DEF ScheduledOnce
<1>6. NoLostWakeUp'
  <2> SUFFICES ASSUME NEW b \in Addr
               PROVE  /\ inbox'[b] # <<>> =>
                            life'[b] = "alive" /\ isActive'[b] /\ ~terminating'[b]
                      /\ terminating'[b] /\ life'[b] = "alive" => isActive'[b]
    BY DEF NoLostWakeUp
  <2>1. CASE b = a
    BY <1>2, <1>3, <2>1
  <2>2. CASE b # a
    BY <1>1, <1>3, <2>2 DEF NoLostWakeUp
  <2>3. QED
    BY <2>1, <2>2
<1>7. CountExact'
  <2>1. Stopping' = Stopping
    BY <1>1, <1>2 DEF Stopping
  <2>2. QED
    BY <1>1, <2>1 DEF CountExact
<1>8. QED
  BY <1>4, <1>5, <1>6, <1>7 DEF Consistent

\* A set S of live actors is stopped, counted and disabled, and their messages
\* are dropped; box holds what the other actors still have to read.
LEMMA StopStep ==
  ASSUME TypeOK, Consistent, NEW S \in SUBSET Addr,
         NEW box \in [Addr -> Seq(UserMessage)], StopActors(S, box),
         \A a \in Addr : box[a] # <<>> => inbox[a] # <<>>,
         numTerminating' = numTerminating + Cardinality(S),
         \A a \in S : tree[a] = "live" /\ tree'[a] = "disabled",
         \A a \in Addr \ S : \/ tree'[a] = tree[a]
                             \/ tree[a] # "live" /\ tree'[a] = "disabled",
         UNCHANGED <<life, running>>
  PROVE  Consistent'
<1>1. IndexSound /\ ScheduledOnce /\ NoLostWakeUp /\ CountExact
  BY DEF Consistent
<1>2. \A a \in S : life[a] = "alive" /\ ~terminating[a]
  BY <1>1 DEF IndexSound
<1>3. \A a \in Addr :
         /\ terminating'[a] <=> a \in S \/ terminating[a]
         /\ inbox'[a] = IF a \in S THEN <<>> ELSE box[a]
         /\ isActive'[a] <=> a \in S \/ isActive[a]
  <2> SUFFICES ASSUME NEW a \in Addr
               PROVE  /\ terminating'[a] <=> a \in S \/ terminating[a]
                      /\ inbox'[a] = IF a \in S THEN <<>> ELSE box[a]
                      /\ isActive'[a] <=> a \in S \/ isActive[a]
    OBVIOUS
  <2>1. /\ terminating'[a] = IF a \in S THEN TRUE ELSE terminating[a]
        /\ inbox'[a] = IF a \in S /\ ~terminating[a] THEN <<>> ELSE box[a]
        /\ isActive'[a] =
              IF a \in S /\ ~terminating[a] THEN TRUE ELSE isActive[a]
    <3>1. \A b \in Addr :
             /\ terminating'[b] = IF b \in S THEN TRUE ELSE terminating[b]
             /\ inbox'[b] = IF b \in S /\ ~terminating[b] THEN <<>> ELSE box[b]
             /\ isActive'[b] =
                   IF b \in S /\ ~terminating[b] THEN TRUE ELSE isActive[b]
      BY StopActorsFacts
    <3>2. QED
      BY <3>1, Zenon
  <2>2. CASE a \in S
    BY <1>2, <2>1, <2>2, Zenon
  <2>3. CASE a \notin S
    BY <2>1, <2>3, Zenon
  <2>4. QED
    BY <2>2, <2>3
<1>4. PICK order \in Seq(Addr) :
         /\ taskQueue' = taskQueue \o order
         /\ IsInjective(order)
         /\ ToSet(order) = {a \in S : ~terminating[a] /\ ~isActive[a]}
  BY StopActorsFacts
<1>5. ToSet(order) = {a \in S : ~isActive[a]}
  BY <1>2, <1>4
<1>6. IndexSound'
  <2> SUFFICES ASSUME NEW a \in Addr
               PROVE  /\ tree'[a] = "live" <=> life'[a] = "alive" /\ ~terminating'[a]
                      /\ tree'[a] = "absent" => life'[a] = "none"
                      /\ life'[a] = "none" => ~terminating'[a] /\ ~isActive'[a]
    BY DEF IndexSound
  <2>1. /\ tree[a] = "live" <=> life[a] = "alive" /\ ~terminating[a]
        /\ tree[a] = "absent" => life[a] = "none"
        /\ life[a] = "none" => ~terminating[a] /\ ~isActive[a]
    BY <1>1 DEF IndexSound
  <2>2. CASE a \in S
    BY <1>2, <1>3, <2>1, <2>2
  <2>3. CASE a \notin S
    <3>1. /\ terminating'[a] <=> terminating[a]
          /\ isActive'[a] <=> isActive[a]
          /\ life'[a] = life[a]
      BY <1>3, <2>3
    <3>2. \/ tree'[a] = tree[a]
          \/ tree[a] # "live" /\ tree'[a] = "disabled"
      BY <2>3
    <3>3. QED
      BY <2>1, <3>1, <3>2
  <2>4. QED
    BY <2>2, <2>3
<1>7. ScheduledOnce'
  <2>1. ToSet(taskQueue) \cap ToSet(order) = {} /\ running \notin ToSet(order)
    BY <1>1, <1>2, <1>5 DEF ScheduledOnce, Queued
  <2>2. IsInjective(taskQueue') /\ Queued' = Queued \cup ToSet(order)
    BY <1>1, <1>4, <2>1, ConcatFacts DEF ScheduledOnce, Queued, TypeOK
  <2>3. \A a \in Addr :
           a \in Queued' \/ a = running' <=> life'[a] = "alive" /\ isActive'[a]
    <3> SUFFICES ASSUME NEW a \in Addr
                 PROVE  a \in Queued' \/ a = running'
                           <=> life'[a] = "alive" /\ isActive'[a]
      OBVIOUS
    <3>1. a \in Queued \/ a = running <=> life[a] = "alive" /\ isActive[a]
      BY <1>1 DEF ScheduledOnce
    <3>2. isActive'[a] <=> a \in S \/ isActive[a]
      BY <1>3
    <3>3. CASE a \in S
      <4>1. life'[a] = "alive" /\ life[a] = "alive"
        BY <1>2, <3>3
      <4>2. a \in Queued' <=> a \in Queued \/ ~isActive[a]
        BY <1>5, <2>2, <3>3
      <4>3. QED
        BY <3>1, <3>2, <3>3, <4>1, <4>2
    <3>4. CASE a \notin S
      <4>1. a \in Queued' <=> a \in Queued
        BY <1>5, <2>2, <3>4
      <4>2. QED
        BY <3>1, <3>2, <3>4, <4>1
    <3>5. QED
      BY <3>3, <3>4
  <2>4. QED
    BY <1>1, <2>1, <2>2, <2>3 DEF ScheduledOnce
<1>8. NoLostWakeUp'
  BY <1>1, <1>2, <1>3 DEF NoLostWakeUp
<1>9. CountExact'
  <2>1. Stopping' = Stopping \cup S /\ Stopping \cap S = {}
    BY <1>2, <1>3 DEF Stopping
  <2>2. IsFiniteSet(S)
    BY PlanAssumption, FS_Subset
  <2>3. Cardinality(Stopping \cup S) = Cardinality(Stopping) + Cardinality(S)
    <3>1. /\ Cardinality(Stopping \cup S) =
                Cardinality(Stopping) + Cardinality(S) - Cardinality(Stopping \cap S)
          /\ Cardinality(Stopping) \in Nat /\ Cardinality(S) \in Nat
      BY <2>2, StoppingFinite, FS_Union, FS_CardinalityType
    <3>2. Cardinality(Stopping \cap S) = 0
      BY <2>1, FS_EmptySet
    <3>3. QED
      BY <3>1, <3>2
  <2>4. QED
    BY <1>1, <2>1, <2>3 DEF CountExact
<1>10. QED
  BY <1>6, <1>7, <1>8, <1>9 DEF Consistent

\* Cancelling a scope stops the live actors below it; nothing happens to the
\* index when it is empty, and then there is nothing to stop.
LEMMA ScopeStep ==
  ASSUME TypeOK, Consistent, NEW p \in Prefix, HandleScopeCancellation(p),
         UNCHANGED <<life, running>>
  PROVE  Consistent'
<1> DEFINE S == LiveIn(Under[p])
<1>1. Under[p] \in SUBSET Addr
  BY PlanAssumption
<1>2. /\ S \in SUBSET Addr /\ S \subseteq Under[p]
      /\ \A a \in Under[p] : a \in S <=> tree[a] = "live"
  BY <1>1 DEF LiveIn
<1>3. /\ StopActors(S, inbox) /\ tree' = Disable(Under[p])
      /\ numTerminating' = numTerminating + Cardinality(S)
  BY DEF HandleScopeCancellation
<1> HIDE DEF S
<1>4. inbox \in [Addr -> Seq(UserMessage)]
  BY DEF TypeOK
<1>5. \A a \in S : tree[a] = "live" /\ tree'[a] = "disabled"
  <2> SUFFICES ASSUME NEW a \in S PROVE tree[a] = "live" /\ tree'[a] = "disabled"
    OBVIOUS
  <2>1. a \in Addr /\ a \in Under[p] /\ tree[a] = "live"
    BY <1>1, <1>2
  <2>2. ~TreeEmpty
    BY <2>1 DEF TreeEmpty
  <2>3. QED
    BY <1>3, <2>1, <2>2 DEF Disable
<1>6. \A a \in Addr \ S : \/ tree'[a] = tree[a]
                          \/ tree[a] # "live" /\ tree'[a] = "disabled"
  BY <1>2, <1>3 DEF Disable
<1>7. QED
  BY <1>2, <1>3, <1>4, <1>5, <1>6, StopStep

\* A turn of the running actor consumes one of its messages, and may stop it.
LEMMA TurnStep ==
  ASSUME TypeOK, Consistent, NEW a \in Addr, a = running, inbox[a] # <<>>,
         CancelMe(a) \/ Available(a), UNCHANGED <<life, running>>
  PROVE  Consistent'
<1>1. IndexSound /\ ScheduledOnce /\ NoLostWakeUp /\ CountExact
  BY DEF Consistent
<1>2. life[a] = "alive" /\ ~terminating[a] /\ isActive[a] /\ tree[a] = "live"
  BY <1>1 DEF IndexSound, NoLostWakeUp
<1>3. /\ Popped(a) \in [Addr -> Seq(UserMessage)]
      /\ \A b \in Addr : Popped(a)[b] # <<>> => inbox[b] # <<>>
  BY DEF TypeOK, Popped
<1>4. CASE Available(a)
  <2>1. inbox' = Popped(a)
        /\ UNCHANGED <<tree, numTerminating, isActive, terminating, taskQueue>>
    BY <1>4 DEF Available, stopVars
  <2>2. IndexSound' /\ ScheduledOnce'
    BY <1>1, <2>1 DEF IndexSound, ScheduledOnce, Queued
  <2>3. NoLostWakeUp'
    BY <1>1, <1>3, <2>1 DEF NoLostWakeUp
  <2>4. CountExact'
    BY <1>1, <2>1 DEF CountExact, Stopping
  <2>5. QED
    BY <2>2, <2>3, <2>4 DEF Consistent
<1>5. CASE CancelMe(a)
  <2>1. Lookup(a) # -1 /\ ~TreeEmpty
    BY <1>2 DEF Lookup, TreeEmpty
  <2>2. /\ StopActors({a}, Popped(a)) /\ tree' = Disable({a})
        /\ numTerminating' = numTerminating + 1
    BY <1>5, <2>1 DEF CancelMe, HandleChildTermination
  <2>3. numTerminating' = numTerminating + Cardinality({a})
    BY <2>2, FS_Singleton
  <2>4. tree'[a] = "disabled" /\ \A b \in Addr \ {a} : tree'[b] = tree[b]
    BY <2>1, <2>2 DEF Disable
  <2>5. PICK S \in SUBSET Addr : S = {a}
    OBVIOUS
  <2>6. PICK box \in [Addr -> Seq(UserMessage)] : box = Popped(a)
    BY <1>3
  <2>7. /\ StopActors(S, box)
        /\ \A b \in Addr : box[b] # <<>> => inbox[b] # <<>>
        /\ numTerminating' = numTerminating + Cardinality(S)
        /\ \A b \in S : tree[b] = "live" /\ tree'[b] = "disabled"
        /\ \A b \in Addr \ S : \/ tree'[b] = tree[b]
                               \/ tree[b] # "live" /\ tree'[b] = "disabled"
    BY <1>2, <1>3, <2>2, <2>3, <2>4, <2>5, <2>6
  <2>8. QED
    BY <2>7, StopStep
<1>6. QED
  BY <1>4, <1>5

\* The first actor of the task queue starts to run.
LEMMA RunTaskStep ==
  ASSUME TypeOK, Consistent, RunTask
  PROVE  Consistent'
<1>1. IndexSound /\ ScheduledOnce /\ NoLostWakeUp /\ CountExact
  BY DEF Consistent
<1>2. /\ taskQueue # <<>> /\ running' = Head(taskQueue) /\ taskQueue' = Tail(taskQueue)
      /\ UNCHANGED <<tree, numTerminating, life, isActive, terminating, inbox>>
      /\ running \notin Addr
  BY PlanAssumption DEF RunTask, actorVars, TypeOK
<1>3. /\ Queued = {running'} \cup Queued' /\ running' \in Addr
      /\ IsInjective(taskQueue') /\ running' \notin Queued'
  BY <1>1, <1>2, TailFacts DEF Queued, ScheduledOnce, TypeOK
<1>4. ScheduledOnce'
  <2> SUFFICES ASSUME NEW a \in Addr
               PROVE  a \in Queued' \/ a = running' <=> life'[a] = "alive" /\ isActive'[a]
    BY <1>3 DEF ScheduledOnce
  <2>1. a \in Queued' \/ a = running' <=> a \in Queued \/ a = running
    BY <1>2, <1>3
  <2>2. QED
    BY <1>1, <1>2, <2>1 DEF ScheduledOnce
<1>5. IndexSound' /\ NoLostWakeUp'
  BY <1>1, <1>2 DEF IndexSound, NoLostWakeUp
<1>6. CountExact'
  BY <1>1, <1>2 DEF CountExact, Stopping
<1>7. QED
  BY <1>4, <1>5, <1>6 DEF Consistent

\* The running actor is deleted, after it was told to stop.
LEMMA TerminatedStep ==
  ASSUME TypeOK, Consistent, NEW a \in Addr, Terminated(a)
  PROVE  Consistent'
<1>1. IndexSound /\ ScheduledOnce /\ NoLostWakeUp /\ CountExact
  BY DEF Consistent
<1>2. /\ a = running /\ running' = NoAddr /\ terminating[a]
      /\ life' = [life EXCEPT ![a] = "freed"]
      /\ numTerminating' = numTerminating - 1
      /\ UNCHANGED <<tree, terminating, inbox, isActive, taskQueue>>
  BY DEF Terminated, LeaveLoop, HandleChildTerminated
<1>3. life'[a] = "freed" /\ \A b \in Addr : b # a => life'[b] = life[b]
  BY <1>2 DEF TypeOK
<1>4. life[a] = "alive" /\ a \notin Queued /\ a # NoAddr /\ inbox[a] = <<>>
  BY <1>1, <1>2, PlanAssumption DEF ScheduledOnce, NoLostWakeUp
<1>5. IndexSound'
  BY <1>1, <1>2, <1>3, <1>4 DEF IndexSound
<1>6. ScheduledOnce'
  <2>1. NoAddr \notin Queued
    <3>1. Queued \subseteq Addr
      BY DEF TypeOK, Queued, ToSet
    <3>2. QED
      BY <3>1, PlanAssumption
  <2>2. ASSUME NEW b \in Addr
        PROVE  b \in Queued' \/ b = running' <=> life'[b] = "alive" /\ isActive'[b]
    <3>1. b \in Queued \/ b = running <=> life[b] = "alive" /\ isActive[b]
      BY <1>1 DEF ScheduledOnce
    <3>2. Queued' = Queued /\ b # running'
      BY <1>2, PlanAssumption DEF Queued
    <3>3. QED
      BY <1>2, <1>3, <1>4, <3>1, <3>2
  <2>3. QED
    BY <1>1, <1>2, <2>1, <2>2 DEF ScheduledOnce, Queued
<1>7. NoLostWakeUp'
  BY <1>1, <1>2, <1>3, <1>4 DEF NoLostWakeUp
<1>8. CountExact'
  <2>1. Stopping' = Stopping \ {a} /\ a \in Stopping
    BY <1>2, <1>3, <1>4 DEF Stopping
  <2>2. QED
    BY <1>1, <1>2, <2>1, StoppingFinite, FS_RemoveElement DEF CountExact
<1>9. QED
  BY <1>5, <1>6, <1>7, <1>8 DEF Consistent

\* The running actor leaves its loop; messages that are left queue it again.
LEMMA YieldStep ==
  ASSUME TypeOK, Consistent, NEW a \in Addr, Yield(a)
  PROVE  Consistent'
<1>1. IndexSound /\ ScheduledOnce /\ NoLostWakeUp /\ CountExact
  BY DEF Consistent
<1>2. /\ a = running /\ running' = NoAddr /\ ~terminating[a]
      /\ isActive' = [isActive EXCEPT ![a] = inbox[a] # <<>>]
      /\ taskQueue' = IF inbox[a] # <<>> THEN Append(taskQueue, a) ELSE taskQueue
      /\ UNCHANGED <<tree, terminating, inbox, life, numTerminating>>
  BY DEF Yield, LeaveLoop
<1>3. /\ isActive'[a] <=> inbox[a] # <<>>
      /\ \A b \in Addr : b # a => (isActive'[b] <=> isActive[b])
  <2>1. isActive'[a] = (inbox[a] # <<>>)
        /\ \A b \in Addr : b # a => isActive'[b] = isActive[b]
    BY <1>2, Zenon DEF TypeOK
  <2>2. QED
    BY <2>1
<1>4. life[a] = "alive" /\ a \notin Queued /\ a # NoAddr /\ Queued \subseteq Addr
  BY <1>1, <1>2, PlanAssumption DEF ScheduledOnce, TypeOK, Queued, ToSet
<1>5. IndexSound'
  <2>1. \A b \in Addr : life'[b] = "none" => b # a
    BY <1>2, <1>4
  <2>2. QED
    BY <1>1, <1>2, <1>3, <2>1 DEF IndexSound
<1>6. ScheduledOnce'
  <2>1. /\ IsInjective(taskQueue')
        /\ Queued' = Queued \cup (IF inbox[a] # <<>> THEN {a} ELSE {})
    <3>1. CASE inbox[a] # <<>>
      BY <1>1, <1>2, <1>4, <3>1, AppendFacts DEF ScheduledOnce, Queued, TypeOK
    <3>2. CASE inbox[a] = <<>>
      BY <1>1, <1>2, <3>2 DEF ScheduledOnce, Queued
    <3>3. QED
      BY <3>1, <3>2
  <2>2. running' \notin Queued'
    BY <1>2, <1>4, <2>1, PlanAssumption
  <2>3. ASSUME NEW b \in Addr
        PROVE  b \in Queued' \/ b = running' <=> life'[b] = "alive" /\ isActive'[b]
    <3>1. b \in Queued \/ b = running <=> life[b] = "alive" /\ isActive[b]
      BY <1>1 DEF ScheduledOnce
    <3>2. b # running'
      BY <1>2, PlanAssumption
    <3>3. CASE b = a
      BY <1>2, <1>3, <1>4, <2>1, <3>2, <3>3
    <3>4. CASE b # a
      BY <1>2, <1>3, <2>1, <3>1, <3>2, <3>4
    <3>5. QED
      BY <3>3, <3>4
  <2>4. QED
    BY <2>1, <2>2, <2>3 DEF ScheduledOnce
<1>7. NoLostWakeUp'
  <2> SUFFICES ASSUME NEW b \in Addr
               PROVE  /\ inbox'[b] # <<>> =>
                            life'[b] = "alive" /\ isActive'[b] /\ ~terminating'[b]
                      /\ terminating'[b] /\ life'[b] = "alive" => isActive'[b]
    BY DEF NoLostWakeUp
  <2>1. CASE b = a
    BY <1>2, <1>3, <1>4, <2>1
  <2>2. CASE b # a
    BY <1>1, <1>2, <1>3, <2>2 DEF NoLostWakeUp
  <2>3. QED
    BY <2>1, <2>2
<1>8. CountExact'
  BY <1>1, <1>2 DEF CountExact, Stopping
<1>9. QED
  BY <1>5, <1>6, <1>7, <1>8 DEF Consistent

\* One step keeps the dataflow consistent.
LEMMA ConsistentStep ==
  ASSUME TypeOK, Consistent, [Next]_vars
  PROVE  Consistent'
<1>1. CASE UNCHANGED vars
  BY <1>1 DEF vars, actorVars, Consistent, IndexSound, ScheduledOnce, NoLostWakeUp,
              CountExact, Stopping, Queued
<1>2. ASSUME NEW m \in HostMessage, HostEnqueue(m) \/ HostEnqueueUrgent(m)
      PROVE  Consistent'
  BY <1>2, QuietStep DEF HostEnqueue, HostEnqueueUrgent
<1>3. CASE HandleStopFromParent
  <2>1. OwnPrefix \in Prefix
    BY PlanAssumption
  <2>2. HandleScopeCancellation(OwnPrefix) /\ UNCHANGED <<life, running>>
    BY <1>3 DEF HandleStopFromParent
  <2>3. QED
    BY <2>1, <2>2, ScopeStep
<1>4. CASE RunAndDispose
  BY <1>4, QuietStep DEF RunAndDispose
<1>5. ASSUME Receiving
      PROVE  Head(mailbox) \in Message
  BY <1>5, HeadTailProperties DEF TypeOK, Receiving
<1>6. CASE UserToLive
  <2> DEFINE m == Head(mailbox)
  <2>1. /\ Receiving /\ m.type = "USER" /\ Lookup(m.to) = 1 /\ Deliver(m)
        /\ UNCHANGED <<tree, numTerminating, terminating, life, running>>
    BY <1>6 DEF UserToLive
  <2>2. m \in UserMessage
    BY <1>5, <2>1, MessageFacts
  <2>3. m.to \in Addr /\ tree[m.to] = "live"
    BY <2>1, <2>2 DEF UserMessage, Lookup
  <2>4. life[m.to] = "alive"
    BY <2>3 DEF Consistent, IndexSound
  <2> HIDE DEF m
  <2>5. QED
    BY <2>1, <2>2, <2>3, <2>4, DeliverStep
<1>7. CASE UserToAbsent
  <2> DEFINE m == Head(mailbox)
  <2>1. /\ Receiving /\ m.type = "USER" /\ Lookup(m.to) = 0 /\ Deliver(m)
        /\ life' = [life EXCEPT ![m.to] = "alive"]
        /\ tree' = [tree EXCEPT ![m.to] = "live"]
        /\ UNCHANGED <<numTerminating, terminating, running>>
    BY <1>7 DEF UserToAbsent
  <2>2. m \in UserMessage
    BY <1>5, <2>1, MessageFacts
  <2>3. m.to \in Addr /\ tree[m.to] = "absent"
    BY <2>1, <2>2 DEF UserMessage, Lookup
  <2>4. /\ life'[m.to] = "alive" /\ tree'[m.to] = "live"
        /\ \A b \in Addr : b # m.to => tree'[b] = tree[b] /\ life'[b] = life[b]
    BY <2>1, <2>3 DEF TypeOK
  <2> HIDE DEF m
  <2>5. QED
    BY <2>1, <2>2, <2>3, <2>4, DeliverStep
<1>8. CASE UserToDisabled
  BY <1>8, QuietStep DEF UserToDisabled
<1>9. CASE CancelScope
  <2> DEFINE m == Head(mailbox)
  <2>1. /\ Receiving /\ m.type = "CANCEL_SCOPE"
        /\ HandleScopeCancellation(m.prefix) /\ UNCHANGED <<life, running>>
    BY <1>9 DEF CancelScope
  <2>2. m.prefix \in Prefix
    BY <1>5, <2>1, MessageFacts
  <2> HIDE DEF m
  <2>3. QED
    BY <2>1, <2>2, ScopeStep
<1>10. CASE DropControl
  BY <1>10, QuietStep DEF DropControl
<1>11. CASE MailboxEmpty
  BY <1>11, QuietStep DEF MailboxEmpty
<1>12. CASE RunTask
  BY <1>12, RunTaskStep
<1>13. CASE TasksExpired \/ TasksDone
  BY <1>13, QuietStep DEF TasksExpired, TasksDone
<1>14. ASSUME NEW a \in Addr, DoWork(a)
       PROVE  Consistent'
  <2>1. Working(a) /\ (CancelMe(a) \/ Available(a))
    BY <1>14 DEF DoWork, OutData, OutLastEos, LimitDiscard, LimitData, LimitLastEos,
                 EarlierEos, UndefinedData
  <2>2. a = running /\ inbox[a] # <<>> /\ UNCHANGED <<life, running>>
    BY <2>1 DEF Working
  <2>3. QED
    BY <2>1, <2>2, TurnStep
<1>15. ASSUME NEW a \in Addr, Terminated(a) \/ Yield(a)
       PROVE  Consistent'
  BY <1>15, TerminatedStep, YieldStep
<1>16. QED
  BY <1>1, <1>2, <1>3, <1>4, <1>6, <1>7, <1>8, <1>9, <1>10, <1>11, <1>12, <1>13,
     <1>14, <1>15
     DEF Next, Host, Engine, ProcessMailbox, TaskLoop, ActorRun

-----------------------------------------------------------------------------
(* The theorems. *)

LEMMA Initially ==
  ASSUME Init
  PROVE  Inv
<1>1. TypeOK
  <2>1. /\ mailbox \in Seq(Message) /\ taskQueue \in Seq(Addr)
        /\ inbox \in [Addr -> Seq(UserMessage)]
        /\ outPayload \in [Addr -> Seq(Node)] /\ output \in Seq(Node)
    BY EmptySeq DEF Init
  <2>2. \A a \in Addr : Len(outPayload[a]) < MaxPayload /\ curCnt[a] <= LimitCount[a]
    <3> SUFFICES ASSUME NEW a \in Addr
                 PROVE  Len(outPayload[a]) < MaxPayload /\ curCnt[a] <= LimitCount[a]
      OBVIOUS
    <3>1. outPayload[a] = <<>> /\ curCnt[a] = 0
      BY DEF Init
    <3>2. Len(<<>>) = 0 /\ MaxPayload \in Nat /\ MaxPayload > 0 /\ LimitCount[a] \in Nat
      BY NumberAssumption
    <3>3. QED
      BY <3>1, <3>2
  <2>3. /\ isActive \in [Addr -> BOOLEAN] /\ terminating \in [Addr -> BOOLEAN]
        /\ tree \in [Addr -> {"absent", "live", "disabled"}]
        /\ life \in [Addr -> {"none", "alive", "freed"}]
        /\ numRcvEos \in [Addr -> Nat] /\ curCnt \in [Addr -> Nat]
    BY DEF Init
  <2>4. /\ dfExecCount \in 0..(ExecInterval - 1) /\ execCount \in 0..(ExecInterval - 1)
        /\ numTerminating \in Nat
    BY NumberAssumption DEF Init
  <2>5. dfTerminating \in BOOLEAN /\ dfActive \in BOOLEAN
    BY DEF Init
  <2>6. /\ pc \in {"idle", "mailbox", "tasks", "actor"} /\ running \in Addr \cup {NoAddr}
        /\ (pc = "actor" <=> running # NoAddr)
    BY DEF Init
  <2>7. QED
    BY <2>1, <2>2, <2>3, <2>4, <2>5, <2>6 DEF TypeOK
<1>2. IndexSound /\ NoLostWakeUp
  BY DEF Init, IndexSound, NoLostWakeUp
<1>3. ScheduledOnce
  BY PlanAssumption DEF Init, ScheduledOnce, Queued, ToSet, IsInjective
<1>4. CountExact
  <2>1. Stopping = {}
    BY DEF Init, Stopping
  <2>2. QED
    BY <2>1, FS_EmptySet DEF Init, CountExact
<1>5. QED
  BY <1>1, <1>2, <1>3, <1>4 DEF Inv, Consistent

THEOREM Invariance == Spec => []Inv
<1>1. Inv /\ [Next]_vars => Inv'
  BY TypeStep, ConsistentStep DEF Inv
<1>2. QED
  BY <1>1, Initially, PTL DEF Spec

\* Every reachable state has the types of the fields it models; with them the
\* counters of not_expired, of LIMIT and of the payload stay in their bounds,
\* and the unsigned counter of terminating actors never wraps.
THEOREM TypeCorrect == Spec => []TypeOK
BY Invariance, PTL DEF Inv

\* Whatever the plan, the graph, the host's messages and the order of stops and
\* cancellations: the index, the life of the actors, the task queue and the
\* counter of terminating actors agree in every reachable state.
THEOREM StaysConsistent == Spec => []Consistent
BY Invariance, PTL DEF Inv

\* The four parts of Consistent, by name.  process_mailbox never follows a
\* pointer to a deleted actor and never creates a second one for an address.
COROLLARY IndexStaysSound == Spec => []IndexSound
BY StaysConsistent, PTL DEF Consistent

\* activate() queues no actor twice, and run_and_dispose runs none that is
\* deleted.
COROLLARY StaysScheduledOnce == Spec => []ScheduledOnce
BY StaysConsistent, PTL DEF Consistent

\* No actor with messages, and none that was told to stop, waits unscheduled.
COROLLARY WakeUpsKept == Spec => []NoLostWakeUp
BY StaysConsistent, PTL DEF Consistent

\* _num_terminating_children is the number of actors still to be deleted.
COROLLARY CountStaysExact == Spec => []CountExact
BY StaysConsistent, PTL DEF Consistent
=============================================================================
