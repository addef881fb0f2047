-------------------------- MODULE DataflowTheorems --------------------------
(***************************************************************************)
(* What follows from the inductive invariant of DataflowProofs: what a     *)
(* step may do to one actor, the state in which a run returns, why it      *)
(* cannot go on for ever, and the actor pool it implements.                *)
(***************************************************************************)
EXTENDS DataflowProofs, WellFoundedInduction

\* What a step may change of the actor a.
Guarded(a) ==
    /\ terminating'[a] # terminating[a] => tree[a] = "live" /\ terminating'[a]
    /\ tree[a] = "disabled" => tree'[a] = "disabled"
    /\ life'[a] # life[a] =>
          \/ tree[a] = "absent"
          \/ life[a] = "alive" /\ terminating[a] /\ life'[a] = "freed"
    /\ tree[a] # "live" => UNCHANGED <<numRcvEos[a], curCnt[a], outPayload[a]>>

-----------------------------------------------------------------------------
(* One step and one actor. *)

\* A cancellation stops live actors only.
LEMMA ScopeGuarded ==
  ASSUME Inv, NEW p \in Prefix, HandleScopeCancellation(p), UNCHANGED <<life, opVars>>,
         NEW a \in Addr
  PROVE  Guarded(a)
<1> DEFINE S == LiveIn(Under[p])
<1>1. TypeOK
  BY DEF Inv
<1>2. S \in SUBSET Addr /\ \A b \in S : tree[b] = "live"
  BY PlanAssumption DEF LiveIn
<1>3. StopActors(S, inbox) /\ tree' = Disable(Under[p])
  BY DEF HandleScopeCancellation
<1> HIDE DEF S
<1>4. inbox \in [Addr -> Seq(UserMessage)]
  BY <1>1 DEF TypeOK
<1>5. terminating'[a] = IF a \in S THEN TRUE ELSE terminating[a]
  BY <1>1, <1>2, <1>3, <1>4, StopActorsFacts
<1>6. tree[a] = "disabled" => tree'[a] = "disabled"
  BY <1>1, <1>3 DEF Disable, TypeOK
<1>7. terminating'[a] # terminating[a] => tree[a] = "live" /\ terminating'[a]
  BY <1>2, <1>5
<1>8. QED
  BY <1>6, <1>7 DEF Guarded, opVars

\* The actor that works is live, and at most stops itself.
LEMMA WorkGuarded ==
  ASSUME Inv, NEW b \in Addr, DoWork(b), NEW a \in Addr
  PROVE  Guarded(a)
<1>1. TypeOK /\ IndexSound /\ NoLostWakeUp
  BY DEF Inv, Consistent
<1>2. Working(b) /\ (CancelMe(b) \/ Available(b))
  BY DEF DoWork, OutData, OutLastEos, LimitDiscard, LimitData, LimitLastEos, EarlierEos,
         UndefinedData
<1>3. inbox[b] # <<>> /\ UNCHANGED life
  BY <1>2 DEF Working
<1>4. tree[b] = "live"
  BY <1>1, <1>3 DEF IndexSound, NoLostWakeUp
<1>5. /\ terminating'[a] # terminating[a] => tree[a] = "live" /\ terminating'[a]
      /\ tree[a] = "disabled" => tree'[a] = "disabled"
  <2>1. CASE Available(b)
    BY <2>1 DEF Available, stopVars
  <2>2. CASE CancelMe(b)
    <3>1. StopActors({b}, Popped(b)) /\ tree' = Disable({b})
      BY <1>4, <2>2 DEF CancelMe, HandleChildTermination, Lookup
    <3>2. Popped(b) \in [Addr -> Seq(UserMessage)]
      BY <1>1, <1>3 DEF TypeOK, Popped
    <3>3. terminating'[a] = IF a \in {b} THEN TRUE ELSE terminating[a]
      <4>1. {b} \in SUBSET Addr
        OBVIOUS
      <4>2. \A c \in Addr :
               /\ terminating'[c] = IF c \in {b} THEN TRUE ELSE terminating[c]
               /\ inbox'[c] =
                     IF c \in {b} /\ ~terminating[c] THEN <<>> ELSE Popped(b)[c]
               /\ isActive'[c] =
                     IF c \in {b} /\ ~terminating[c] THEN TRUE ELSE isActive[c]
        BY <1>1, <3>1, <3>2, <4>1, StopActorsFacts, Zenon
      <4>3. QED
        BY <4>2, Zenon
    <3>4. tree[a] = "disabled" => tree'[a] = "disabled"
      BY <1>1, <3>1 DEF Disable, TypeOK
    <3>5. terminating'[a] # terminating[a] => a = b /\ terminating'[a]
      BY <3>3, Zenon
    <3>6. QED
      BY <1>4, <3>4, <3>5
  <2>3. QED
    BY <1>2, <2>1, <2>2
<1>6. a # b => UNCHANGED <<numRcvEos[a], curCnt[a], outPayload[a]>>
  BY <1>1 DEF DoWork, OutData, OutLastEos, LimitDiscard, LimitData, LimitLastEos,
              EarlierEos, UndefinedData, TypeOK, opVars
<1>7. QED
  BY <1>3, <1>4, <1>5, <1>6 DEF Guarded

\* Every other step leaves the actor's state alone, creates it or deletes it.
LEMMA StepGuarded ==
  ASSUME Inv, [Next]_vars, NEW a \in Addr
  PROVE  Guarded(a)
<1>1. TypeOK /\ ScheduledOnce
  BY DEF Inv, Consistent
<1>2. ASSUME UNCHANGED <<tree, terminating, life, opVars>>
      PROVE  Guarded(a)
  BY <1>2 DEF Guarded, opVars
<1>3. CASE UNCHANGED vars
  BY <1>2, <1>3 DEF vars, actorVars
<1>4. ASSUME NEW m \in HostMessage, HostEnqueue(m) \/ HostEnqueueUrgent(m)
      PROVE  Guarded(a)
  BY <1>2, <1>4 DEF HostEnqueue, HostEnqueueUrgent, stopVars
<1>5. CASE HandleStopFromParent
  BY <1>5, PlanAssumption, ScopeGuarded DEF HandleStopFromParent
<1>6. CASE RunAndDispose \/ DropControl \/ UserToDisabled \/ MailboxEmpty
  BY <1>2, <1>6 DEF RunAndDispose, DropControl, UserToDisabled, MailboxEmpty, stopVars
<1>7. ASSUME Receiving
      PROVE  Head(mailbox) \in Message
  BY <1>1, <1>7, HeadTailProperties DEF TypeOK, Receiving
<1>8. CASE UserToLive
  BY <1>2, <1>8 DEF UserToLive
<1>9. CASE UserToAbsent
  <2> DEFINE m == Head(mailbox)
  <2>1. m \in UserMessage /\ Lookup(m.to) = 0
    BY <1>7, <1>9, MessageFacts DEF UserToAbsent
  <2>2. m.to \in Addr /\ tree[m.to] = "absent"
    BY <2>1 DEF UserMessage, Lookup
  <2>3. /\ a # m.to => tree'[a] = tree[a] /\ life'[a] = life[a]
        /\ UNCHANGED <<terminating, opVars>>
    BY <1>1, <1>9 DEF UserToAbsent, TypeOK
  <2> HIDE DEF m
  <2>4. QED
    BY <2>2, <2>3 DEF Guarded, opVars
<1>10. CASE CancelScope
  <2> DEFINE m == Head(mailbox)
  <2>1. m.prefix \in Prefix
    BY <1>7, <1>10, MessageFacts DEF CancelScope
  <2>2. HandleScopeCancellation(m.prefix) /\ UNCHANGED <<life, opVars>>
    BY <1>10 DEF CancelScope
  <2> HIDE DEF m
  <2>3. QED
    BY <2>1, <2>2, ScopeGuarded
<1>11. CASE TaskLoop
  BY <1>2, <1>11 DEF TaskLoop, RunTask, TasksExpired, TasksDone, actorVars, stopVars
<1>12. ASSUME NEW b \in Addr, DoWork(b)
       PROVE  Guarded(a)
  BY <1>12, WorkGuarded
<1>13. ASSUME NEW b \in Addr, Terminated(b)
       PROVE  Guarded(a)
  <2>1. /\ b = running /\ terminating[b] /\ life' = [life EXCEPT ![b] = "freed"]
        /\ UNCHANGED <<tree, terminating, opVars>>
    BY <1>13 DEF Terminated, LeaveLoop
  <2>2. life[b] = "alive"
    BY <1>1, <2>1 DEF ScheduledOnce
  <2>3. life'[b] = "freed" /\ (a # b => life'[a] = life[a])
    BY <1>1, <2>1 DEF TypeOK
  <2>4. QED
    BY <2>1, <2>2, <2>3 DEF Guarded, opVars
<1>14. ASSUME NEW b \in Addr, Yield(b)
       PROVE  Guarded(a)
  BY <1>2, <1>14 DEF Yield, LeaveLoop
<1>15. QED
  BY <1>3, <1>4, <1>5, <1>6, <1>8, <1>9, <1>10, <1>11, <1>12, <1>13, <1>14
     DEF Next, Host, Engine, ProcessMailbox, ActorRun

-----------------------------------------------------------------------------
(* Action properties. *)

\* The assertion of handle_child_termination, and the comment that only actors
\* that are not disabled are stopped, hold in every step: an actor is told to
\* stop only while the index still maps its address to it.
THEOREM LiveActorsCancel == Spec => OnlyLiveActorsCancel
<1>1. Inv /\ [Next]_vars =>
        [\A a \in Addr : terminating'[a] # terminating[a] => tree[a] = "live"]_vars
  BY StepGuarded DEF Guarded
<1>2. QED
  BY <1>1, Invariance, PTL DEF Spec, OnlyLiveActorsCancel

\* A disabled address stays disabled and silent, for every host and every order
\* of messages: nothing is delivered to it, its operator works no more, and its
\* actor can only be deleted.
THEOREM StaysDisabled == Spec => DisabledForever
<1> DEFINE Silent(a) ==
        /\ tree'[a] = "disabled"
        /\ inbox'[a] = <<>>
        /\ UNCHANGED <<numRcvEos[a], curCnt[a], outPayload[a]>>
        /\ life'[a] # life[a] => life[a] = "alive" /\ life'[a] = "freed"
<1>1. Inv /\ Inv' /\ [Next]_vars =>
        [\A a \in Addr : tree[a] = "disabled" => Silent(a)]_vars
  <2> SUFFICES ASSUME Inv, Inv', [Next]_vars, NEW a \in Addr, tree[a] = "disabled"
               PROVE  Silent(a)
    OBVIOUS
  <2>1. Guarded(a)
    BY StepGuarded
  <2>2. tree'[a] = "disabled" /\ UNCHANGED <<numRcvEos[a], curCnt[a], outPayload[a]>>
    BY <2>1 DEF Guarded
  <2>3. inbox'[a] = <<>>
    BY <2>2 DEF Inv, Consistent, IndexSound, NoLostWakeUp
  <2>4. life'[a] # life[a] => life[a] = "alive" /\ life'[a] = "freed"
    BY <2>1 DEF Guarded
  <2>5. QED
    BY <2>2, <2>3, <2>4
<1>2. QED
  BY <1>1, Invariance, PTL DEF Spec, DisabledForever

-----------------------------------------------------------------------------
(* The state in which a run returns. *)

NobodyScheduled == taskQueue = <<>> /\ pc # "actor"

NothingLeft == (\A a \in Addr : inbox[a] = <<>>) /\ numTerminating = 0

\* Nothing is left to do once no actor is scheduled.
LEMMA EmptyQueueIsQuiet == Inv /\ NobodyScheduled => NothingLeft
<1> SUFFICES ASSUME Inv, taskQueue = <<>>, pc # "actor"
             PROVE  (\A a \in Addr : inbox[a] = <<>>) /\ numTerminating = 0
  BY DEF NobodyScheduled, NothingLeft
<1>1. ScheduledOnce /\ NoLostWakeUp /\ CountExact /\ TypeOK
  BY DEF Inv, Consistent
<1>2. Queued = {} /\ running \notin Addr
  BY <1>1, PlanAssumption DEF Queued, ToSet, TypeOK
<1>3. \A a \in Addr : ~(life[a] = "alive" /\ isActive[a])
  BY <1>1, <1>2 DEF ScheduledOnce
<1>4. \A a \in Addr : inbox[a] = <<>>
  BY <1>1, <1>3 DEF NoLostWakeUp
<1>5. Stopping = {}
  BY <1>1, <1>3 DEF NoLostWakeUp, Stopping
<1>6. numTerminating = 0
  BY <1>1, <1>5, FS_EmptySet DEF CountExact
<1>7. QED
  BY <1>4, <1>6

\* A run returns only when every message has been worked on, and what the host
\* does between two runs queues only actors to be deleted.
THEOREM RunsEndQuiet == Spec => []QuietWhenIdle
<1> DEFINE Q == QuietWhenIdle
<1>1. Init => Q
  BY DEF Init, QuietWhenIdle, Queued, ToSet
<1>2. Inv' /\ NobodyScheduled' => NothingLeft'
  BY EmptyQueueIsQuiet, PTL
<1>3. Inv /\ Inv' /\ Q /\ [Next]_vars => Q'
  <2> SUFFICES ASSUME Inv, Inv', Q, [Next]_vars, pc' = "idle"
               PROVE  /\ \A a \in Addr : inbox'[a] = <<>>
                      /\ \A a \in Queued' : terminating'[a] /\ dfTerminating'
                      /\ taskQueue' = <<>> => numTerminating' = 0
    BY DEF QuietWhenIdle
  <2>1. taskQueue' = <<>> => (\A a \in Addr : inbox'[a] = <<>>) /\ numTerminating' = 0
    BY <1>2 DEF NobodyScheduled, NothingLeft
  <2>2. CASE UNCHANGED vars
    BY <2>2 DEF vars, actorVars, QuietWhenIdle, Queued, dfVars
  <2>3. ASSUME NEW m \in HostMessage, HostEnqueue(m) \/ HostEnqueueUrgent(m)
        PROVE  /\ \A a \in Addr : inbox'[a] = <<>>
               /\ \A a \in Queued' : terminating'[a] /\ dfTerminating'
    BY <2>3 DEF HostEnqueue, HostEnqueueUrgent, stopVars, dfVars, QuietWhenIdle, Queued
  <2>4. CASE HandleStopFromParent
    <3> DEFINE S == LiveIn(Under[OwnPrefix])
    <3>1. /\ pc = "idle" /\ ~dfTerminating /\ dfTerminating'
          /\ StopActors(S, inbox)
      BY <2>4 DEF HandleStopFromParent, HandleScopeCancellation
    <3>2. S \in SUBSET Addr
      BY PlanAssumption DEF LiveIn
    <3>3. TypeOK /\ inbox \in [Addr -> Seq(UserMessage)]
      BY DEF Inv, TypeOK
    <3>4. Queued = {} /\ \A a \in Addr : inbox[a] = <<>>
      BY <3>1 DEF QuietWhenIdle
    <3> HIDE DEF S
    <3>5. PICK order \in Seq(Addr) :
            /\ taskQueue' = taskQueue \o order
            /\ IsInjective(order)
            /\ ToSet(order) = {a \in S : ~terminating[a] /\ ~isActive[a]}
      BY <3>1, <3>2, <3>3, StopActorsFacts, Zenon
    <3>6. \A a \in Addr : /\ a \in S => terminating'[a]
                          /\ inbox'[a] = <<>>
      <4>1. \A a \in Addr :
               /\ terminating'[a] = IF a \in S THEN TRUE ELSE terminating[a]
               /\ inbox'[a] = IF a \in S /\ ~terminating[a] THEN <<>> ELSE inbox[a]
               /\ isActive'[a] =
                     IF a \in S /\ ~terminating[a] THEN TRUE ELSE isActive[a]
        BY <3>1, <3>2, <3>3, StopActorsFacts, Zenon
      <4>2. QED
        BY <3>4, <4>1, Zenon
    <3>7. Queued' \subseteq S
      <4>1. Queued' = Queued \cup ToSet(order)
        BY <3>3, <3>5, ConcatFacts DEF TypeOK, Queued
      <4>2. QED
        BY <3>4, <3>5, <4>1
    <3>8. QED
      BY <2>1, <3>1, <3>2, <3>6, <3>7
  <2>5. CASE TasksExpired \/ TasksDone
    <3>1. taskQueue' = <<>>
      BY <2>5 DEF TasksExpired, TasksDone, AfterTasks, stopVars
    <3>2. Queued' = {}
      BY <3>1 DEF Queued, ToSet
    <3>3. QED
      BY <2>1, <3>1, <3>2
  <2>6. ASSUME NEW a \in Addr, ActorRun(a)
        PROVE  FALSE
    BY <2>6 DEF ActorRun, DoWork, OutData, OutLastEos, LimitDiscard, LimitData,
                LimitLastEos, EarlierEos, UndefinedData, Working, Terminated, Yield,
                LeaveLoop
  <2>7. CASE RunAndDispose \/ ProcessMailbox \/ RunTask
    BY <2>7 DEF RunAndDispose, ProcessMailbox, UserToLive, UserToAbsent, UserToDisabled,
                CancelScope, DropControl, MailboxEmpty, Receiving, RunTask
  <2>8. QED
    BY <2>1, <2>2, <2>3, <2>4, <2>5, <2>6, <2>7 DEF Next, Host, Engine, TaskLoop
<1>4. QED
  BY <1>1, <1>3, Invariance, PTL DEF Spec

-----------------------------------------------------------------------------
(* Operators that are done. *)

\* DoneOperatorsStop for one actor.
DoneStops(a) ==
    /\ OpCode[a] = "LIMIT" /\ curCnt[a] > 0 /\ ~LimitOpen(a) => terminating[a]
    /\ OpCode[a] = "OUT" /\ numRcvEos[a] = NumUpstreams =>
          terminating[a] /\ outPayload[a] = <<>>

\* An actor that asks to be terminated has been told to stop when it has asked.
LEMMA CancelMeStops ==
  ASSUME Inv, NEW b \in Addr, Working(b), CancelMe(b)
  PROVE  terminating'[b] = TRUE
<1>1. TypeOK /\ inbox[b] # <<>> /\ tree[b] = "live"
  BY DEF Inv, Consistent, IndexSound, NoLostWakeUp, Working
<1>2. StopActors({b}, Popped(b)) /\ {b} \in SUBSET Addr
  BY <1>1 DEF CancelMe, HandleChildTermination, Lookup
<1>3. Popped(b) \in [Addr -> Seq(UserMessage)]
  BY <1>1 DEF TypeOK, Popped
<1>4. \A c \in Addr :
         /\ terminating'[c] = IF c \in {b} THEN TRUE ELSE terminating[c]
         /\ inbox'[c] = IF c \in {b} /\ ~terminating[c] THEN <<>> ELSE Popped(b)[c]
         /\ isActive'[c] = IF c \in {b} /\ ~terminating[c] THEN TRUE ELSE isActive[c]
  BY <1>1, <1>2, <1>3, StopActorsFacts, Zenon
<1>5. QED
  BY <1>4, Zenon

\* The message that completes an operator also stops it.
LEMMA WorkStopsWhenDone ==
  ASSUME Inv, NEW b \in Addr, DoneStops(b), DoWork(b)
  PROVE  DoneStops(b)'
<1>1. Working(b)
  BY DEF DoWork, OutData, OutLastEos, LimitDiscard, LimitData, LimitLastEos, EarlierEos,
         UndefinedData
<1>2. TypeOK /\ inbox[b] # <<>> /\ ~terminating[b]
  BY <1>1 DEF Inv, Consistent, NoLostWakeUp, Working
<1>3. /\ OpCode[b] = "LIMIT" /\ curCnt[b] > 0 => LimitOpen(b)
      /\ OpCode[b] = "OUT" => numRcvEos[b] # NumUpstreams
  BY <1>2 DEF DoneStops
<1>4. /\ curCnt \in [Addr -> Nat] /\ numRcvEos \in [Addr -> Nat]
      /\ LimitCount[b] \in Nat /\ NumUpstreams \in Nat
      /\ DOMAIN outPayload = Addr
  BY <1>2, NumberAssumption DEF TypeOK
<1>5. CASE OutData(b) \/ LimitDiscard(b) \/ UndefinedData(b)
  <2>1. UNCHANGED <<numRcvEos, curCnt>>
    BY <1>5 DEF OutData, LimitDiscard, UndefinedData, opVars
  <2>2. QED
    BY <1>3, <1>4, <2>1 DEF DoneStops, LimitOpen
<1>6. CASE OutLastEos(b)
  <2>1. terminating'[b] /\ outPayload'[b] = <<>> /\ OpCode[b] = "OUT"
    BY <1>1, <1>4, <1>6, CancelMeStops DEF OutLastEos
  <2>2. QED
    BY <2>1 DEF DoneStops
<1>7. CASE LimitLastEos(b)
  <2>1. terminating'[b] /\ OpCode[b] = "LIMIT"
    BY <1>1, <1>7, CancelMeStops DEF LimitLastEos
  <2>2. QED
    BY <2>1 DEF DoneStops
<1>8. CASE EarlierEos(b)
  <2>1. numRcvEos'[b] = numRcvEos[b] + 1 /\ UNCHANGED curCnt /\ ~LastEos(b)
    BY <1>4, <1>8 DEF EarlierEos
  <2>2. OpCode[b] = "OUT" => numRcvEos'[b] # NumUpstreams
    BY <2>1 DEF LastEos
  <2>3. QED
    BY <1>3, <2>1, <2>2 DEF DoneStops, LimitOpen
<1>9. CASE LimitData(b)
  <2> DEFINE m    == Head(inbox[b])
             room == LimitCount[b] - curCnt[b]
             n    == IF Len(m.data) < room THEN Len(m.data) ELSE room
  <2>1. /\ OpCode[b] = "LIMIT" /\ LimitOpen(b)
        /\ curCnt'[b] = curCnt[b] + n
        /\ IF n = room THEN CancelMe(b) ELSE Available(b)
    BY <1>4, <1>9 DEF LimitData
  <2>2. CASE n = room
    <3>1. terminating'[b]
      BY <1>1, <2>1, <2>2, CancelMeStops
    <3>2. QED
      BY <2>1, <3>1 DEF DoneStops
  <2>3. CASE n # room
    <3>1. inbox[b] \in Seq(UserMessage)
      BY <1>2 DEF TypeOK
    <3>2. m \in UserMessage
      BY <1>2, <3>1
    <3>3. Len(m.data) \in Nat
      BY <3>2 DEF UserMessage
    <3>4. n < room
      BY <1>4, <2>3, <3>3
    <3>5. curCnt'[b] < LimitCount[b]
      BY <1>4, <2>1, <3>3, <3>4
    <3>6. QED
      BY <2>1, <3>5 DEF DoneStops, LimitOpen
  <2>4. QED
    BY <2>2, <2>3
<1>10. QED
  BY <1>5, <1>6, <1>7, <1>8, <1>9 DEF DoWork

\* An operator that is done has been told to stop, in every order in which its
\* messages, the cancellations of its scope and a stop of the dataflow arrive.
THEOREM DoneOperatorsAreStopped == Spec => []DoneOperatorsStop
<1> DEFINE D == DoneOperatorsStop
<1>1. Init => D
  BY NumberAssumption DEF Init, DoneOperatorsStop
<1>2. Inv /\ D /\ [Next]_vars => D'
  <2> SUFFICES ASSUME Inv, D, [Next]_vars, NEW a \in Addr
               PROVE  DoneStops(a)'
    BY DEF DoneOperatorsStop, DoneStops, LimitOpen
  <2>1. DoneStops(a)
    BY DEF DoneOperatorsStop, DoneStops
  <2>2. terminating[a] => terminating'[a]
    BY StepGuarded, Zenon DEF Guarded
  <2>3. ASSUME UNCHANGED <<numRcvEos[a], curCnt[a], outPayload[a]>>
        PROVE  DoneStops(a)'
    BY <2>1, <2>2, <2>3 DEF DoneStops, LimitOpen
  <2>4. ASSUME NEW b \in Addr, DoWork(b)
        PROVE  DoneStops(a)'
    <3>1. TypeOK
      BY DEF Inv
    <3>2. CASE a = b
      BY <2>1, <2>4, <3>2, WorkStopsWhenDone
    <3>3. CASE a # b
      <4>1. UNCHANGED <<numRcvEos[a], curCnt[a], outPayload[a]>>
        BY <2>4, <3>1, <3>3 DEF DoWork, OutData, OutLastEos, LimitDiscard, LimitData,
           LimitLastEos, EarlierEos, UndefinedData, TypeOK, opVars
      <4>2. QED
        BY <2>3, <4>1
    <3>4. QED
      BY <3>2, <3>3
  <2>5. ASSUME UNCHANGED opVars
        PROVE  DoneStops(a)'
    BY <2>3, <2>5 DEF opVars
  <2>6. CASE UNCHANGED vars
    BY <2>5, <2>6 DEF vars
  <2>7. CASE Host \/ RunAndDispose
    BY <2>5, <2>7 DEF Host, HostEnqueue, HostEnqueueUrgent, HandleStopFromParent,
       RunAndDispose
  <2>8. CASE ProcessMailbox \/ TaskLoop
    BY <2>5, <2>8 DEF ProcessMailbox, UserToLive, UserToAbsent, UserToDisabled,
       CancelScope, DropControl, MailboxEmpty, TaskLoop, RunTask, TasksExpired, TasksDone
  <2>9. ASSUME NEW b \in Addr, Terminated(b) \/ Yield(b)
        PROVE  DoneStops(a)'
    BY <2>5, <2>9 DEF Terminated, Yield, LeaveLoop
  <2>10. QED
    BY <2>4, <2>6, <2>7, <2>8, <2>9 DEF Next, Engine, ActorRun
<1>3. QED
  BY <1>1, <1>2, Invariance, PTL DEF Spec

-----------------------------------------------------------------------------
(* Runs end: the messages under way. *)

LEMMA UndeliveredFinite ==
  ASSUME NEW box \in Seq(Message), NEW a
  PROVE  /\ IsFiniteSet(Undelivered(a, box))
         /\ Cardinality(Undelivered(a, box)) \in Nat
<1>1. IsFiniteSet(1..Len(box))
  BY FS_Interval
<1>2. Undelivered(a, box) \in SUBSET (1..Len(box))
  BY DEF Undelivered
<1>3. IsFiniteSet(Undelivered(a, box))
  BY <1>1, <1>2, FS_Subset
<1>4. QED
  BY <1>3, FS_CardinalityType

\* Taking the first message away lowers the count of the actor it is for.
LEMMA UndeliveredTail ==
  ASSUME NEW box \in Seq(Message), box # <<>>, NEW a
  PROVE  Cardinality(Undelivered(a, Tail(box))) =
            Cardinality(Undelivered(a, box))
               - (IF Head(box).type = "USER" /\ Head(box).to = a THEN 1 ELSE 0)
<1> DEFINE B == Undelivered(a, box)
           T == Undelivered(a, Tail(box))
           f == [i \in T |-> i + 1]
<1>1. /\ Len(Tail(box)) = Len(box) - 1 /\ Len(box) \in Nat /\ Len(box) > 0
      /\ \A i \in 1..Len(Tail(box)) : Tail(box)[i] = box[i + 1]
      /\ Head(box) = box[1] /\ Tail(box) \in Seq(Message)
  OBVIOUS
<1>2. \A i \in T : i \in Nat /\ i + 1 \in B \ {1}
  BY <1>1 DEF Undelivered
<1>3. f \in [T -> B \ {1}]
  BY <1>2
<1>4. \A i, j \in T : f[i] = f[j] => i = j
  BY <1>2
<1>5. \A k \in B \ {1} : \E i \in T : f[i] = k
  <2> SUFFICES ASSUME NEW k \in B \ {1}
               PROVE  k - 1 \in T /\ (k - 1) + 1 = k
    OBVIOUS
  <2>1. k \in 2..Len(box) /\ box[k].type = "USER" /\ box[k].to = a
    BY <1>1 DEF Undelivered
  <2>2. k - 1 \in 1..Len(Tail(box)) /\ (k - 1) + 1 = k
    BY <1>1, <2>1
  <2>3. Tail(box)[k - 1] = box[k]
    BY <1>1, <2>2
  <2>4. QED
    BY <2>1, <2>2, <2>3 DEF Undelivered
<1>6. f \in Bijection(T, B \ {1})
  BY <1>3, <1>4, <1>5 DEF Bijection, Injection, Surjection, IsInjective
<1>7. ExistsBijection(T, B \ {1})
  BY <1>6 DEF ExistsBijection
<1>8. IsFiniteSet(T) /\ IsFiniteSet(B)
  BY <1>1, UndeliveredFinite
<1>9. Cardinality(B \ {1}) = Cardinality(T)
  BY <1>7, <1>8, FS_Bijection
<1>10. Cardinality(B \ {1}) = IF 1 \in B THEN Cardinality(B) - 1 ELSE Cardinality(B)
  BY <1>8, FS_RemoveElement
<1>11. 1 \in B <=> Head(box).type = "USER" /\ Head(box).to = a
  BY <1>1 DEF Undelivered
<1>12. Cardinality(B) \in Nat
  BY UndeliveredFinite
<1>13. CASE 1 \in B
  <2>1. Cardinality(T) = Cardinality(B) - 1
    BY <1>9, <1>10, <1>13, Zenon
  <2>2. QED
    BY <1>11, <1>13, <2>1, Zenon
<1>14. CASE 1 \notin B
  <2>1. Cardinality(T) = Cardinality(B)
    BY <1>9, <1>10, <1>14, Zenon
  <2>2. Cardinality(B) = Cardinality(B) - 0
    BY <1>12
  <2>3. QED
    BY <1>11, <1>14, <2>1, <2>2, Zenon
<1>15. QED
  BY <1>13, <1>14

\* Messages for other actors change nothing.
LEMMA UndeliveredElsewhere ==
  ASSUME NEW box \in Seq(Message), NEW more \in Seq(UserMessage), NEW a,
         \A i \in 1..Len(more) : more[i].to # a
  PROVE  Undelivered(a, box \o more) = Undelivered(a, box)
<1>1. /\ Len(box) \in Nat /\ Len(more) \in Nat
      /\ Len(box \o more) = Len(box) + Len(more)
      /\ \A i \in 1..Len(box) : (box \o more)[i] = box[i]
  OBVIOUS
<1>2. ASSUME NEW i \in 1..(Len(box) + Len(more)), i > Len(box)
      PROVE  (box \o more)[i].to # a
  <2>1. i - Len(box) \in 1..Len(more) /\ (box \o more)[i] = more[i - Len(box)]
    BY <1>1, <1>2
  <2>2. QED
    BY <2>1
<1>3. ASSUME NEW i
      PROVE  i \in Undelivered(a, box \o more) <=> i \in Undelivered(a, box)
  <2>1. CASE i \in 1..Len(box)
    BY <1>1, <2>1 DEF Undelivered
  <2>2. CASE i \in 1..(Len(box) + Len(more)) /\ i > Len(box)
    BY <1>1, <1>2, <2>2 DEF Undelivered
  <2>3. CASE i \notin 1..(Len(box) + Len(more))
    BY <1>1, <2>3 DEF Undelivered
  <2>4. QED
    BY <1>1, <2>1, <2>2, <2>3
<1>4. QED
  BY <1>3

-----------------------------------------------------------------------------
(* Runs end: every step of the engine descends. *)

LEMMA MeasureFacts ==
  ASSUME TypeOK
  PROVE  /\ \A a \in Addr : Load(a) \in Nat
         /\ Len(mailbox) \in Nat /\ Scheduled \in Nat /\ Turn \in 0..6
<1>1. \A a \in Addr : Len(inbox[a]) \in Nat
  BY DEF TypeOK
<1>2. \A a \in Addr : Cardinality(Undelivered(a, mailbox)) \in Nat
  BY UndeliveredFinite DEF TypeOK
<1>3. \A a \in Addr : Load(a) \in Nat
  BY <1>1, <1>2 DEF Load
<1>4. Turn \in 0..6
  BY DEF TypeOK, Turn
<1>5. QED
  BY <1>3, <1>4 DEF TypeOK, Scheduled

\* A step that takes a message away and gives nobody another one.
LEMMA MailDescends ==
  ASSUME TypeOK, TypeOK', \A a \in Addr : Load(a)' <= Load(a),
         Len(mailbox') < Len(mailbox)
  PROVE  Lower(Measure', Measure)
<1>1. \A a \in Addr : Load(a) \in Nat /\ Load(a)' \in Nat
  <2>1. \A a \in Addr : Load(a) \in Nat
    BY MeasureFacts
  <2>2. (\A a \in Addr : Load(a) \in Nat)'
    BY MeasureFacts, PTL
  <2>3. QED
    BY <2>1, <2>2
<1>2. CASE \E a \in Addr : Load(a)' # Load(a)
  <2>1. PICK a \in Addr : Load(a)' # Load(a)
    BY <1>2
  <2>2. Load(a)' < Load(a) /\ \A b \in Addr : ~ (Load(b)' > Load(b))
    BY <1>1, <2>1
  <2>3. QED
    BY <2>2 DEF Lower, Measure
<1>3. CASE \A a \in Addr : Load(a)' = Load(a)
  BY <1>3 DEF Lower, Measure
<1>4. QED
  BY <1>2, <1>3

\* A step that moves no message.
LEMMA RestDescends ==
  ASSUME UNCHANGED <<mailbox, inbox>>,
         Scheduled' < Scheduled \/ (Scheduled' = Scheduled /\ Turn' < Turn)
  PROVE  Lower(Measure', Measure)
<1>1. \A a \in Addr : Load(a)' = Load(a)
  BY DEF Load, Undelivered
<1>2. QED
  BY <1>1 DEF Lower, Measure

\* process_mailbox: a message moves from the mailbox to an inbox, or is dropped.
LEMMA MailboxDescends ==
  ASSUME TypeOK, TypeOK', ProcessMailbox
  PROVE  Lower(Measure', Measure)
<1> DEFINE m == Head(mailbox)
           taken(a) == IF m.type = "USER" /\ m.to = a THEN 1 ELSE 0
<1>1. CASE MailboxEmpty
  BY <1>1, RestDescends DEF TypeOK, MailboxEmpty, stopVars, Scheduled, Turn
<1>2. ASSUME Receiving
      PROVE  /\ m \in Message /\ Len(mailbox') < Len(mailbox)
             /\ \A a \in Addr :
                   Cardinality(Undelivered(a, mailbox')) =
                      Cardinality(Undelivered(a, mailbox)) - taken(a)
  <2>1. mailbox \in Seq(Message) /\ mailbox # <<>> /\ mailbox' = Tail(mailbox)
    BY <1>2 DEF TypeOK, Receiving
  <2>2. m \in Message /\ Len(mailbox') < Len(mailbox)
    BY <2>1
  <2>3. QED
    BY <2>1, <2>2, UndeliveredTail
<1>3. \A a \in Addr : /\ Len(inbox[a]) \in Nat /\ Len(inbox'[a]) \in Nat
                      /\ Cardinality(Undelivered(a, mailbox)) \in Nat
  <2>1. \A a \in Addr : Cardinality(Undelivered(a, mailbox)) \in Nat
    BY UndeliveredFinite DEF TypeOK
  <2>2. inbox \in [Addr -> Seq(UserMessage)] /\ inbox' \in [Addr -> Seq(UserMessage)]
    BY DEF TypeOK
  <2>3. \A a \in Addr : Len(inbox[a]) \in Nat /\ Len(inbox'[a]) \in Nat
    BY <2>2
  <2>4. QED
    BY <2>1, <2>3
<1>4. ASSUME Receiving, \A a \in Addr : Len(inbox'[a]) <= Len(inbox[a]) + taken(a)
      PROVE  Lower(Measure', Measure)
  <2> HIDE DEF taken
  <2>1. \A a \in Addr : taken(a) \in {0, 1}
    BY DEF taken
  <2>2. \A a \in Addr : Load(a)' <= Load(a)
    BY <1>2, <1>3, <1>4, <2>1 DEF Load
  <2>3. QED
    BY <1>2, <1>4, <2>2, MailDescends
<1>5. ASSUME Receiving, UNCHANGED inbox
      PROVE  Lower(Measure', Measure)
  <2> HIDE DEF taken
  <2>1. \A a \in Addr : Len(inbox'[a]) <= Len(inbox[a]) + taken(a)
    <3>1. \A a \in Addr : taken(a) \in {0, 1}
      BY DEF taken
    <3>2. QED
      BY <1>3, <1>5, <3>1
  <2>2. QED
    BY <1>4, <1>5, <2>1
<1>6. CASE UserToDisabled \/ DropControl
  BY <1>5, <1>6 DEF UserToDisabled, DropControl
<1>7. CASE UserToLive \/ UserToAbsent
  <2>1. Receiving /\ m.type = "USER" /\ Deliver(m)
    BY <1>7 DEF UserToLive, UserToAbsent
  <2>2. m \in UserMessage /\ m.to \in Addr
    BY <1>2, <2>1, MessageFacts DEF UserMessage
  <2> HIDE DEF m
  <2>3. inbox' = [inbox EXCEPT ![m.to] = Append(@, m)]
    BY <2>1 DEF Deliver
  <2>4. \A a \in Addr : Len(inbox'[a]) <= Len(inbox[a]) + taken(a)
    <3>1. inbox \in [Addr -> Seq(UserMessage)]
      BY DEF TypeOK
    <3>2. \A a \in Addr : a # m.to => inbox'[a] = inbox[a]
      BY <2>3, <3>1
    <3>3. inbox'[m.to] = Append(inbox[m.to], m)
      BY <2>2, <2>3, <3>1
    <3>4. Len(inbox'[m.to]) = Len(inbox[m.to]) + 1
      BY <2>2, <3>1, <3>3
    <3>5. taken(m.to) = 1 /\ \A a \in Addr : taken(a) \in {0, 1}
      BY <2>1
    <3> HIDE DEF taken
    <3>6. QED
      BY <1>3, <3>2, <3>4, <3>5
  <2>5. QED
    BY <1>4, <2>1, <2>4
<1>8. CASE CancelScope
  <2>1. Receiving /\ m.prefix \in Prefix /\ HandleScopeCancellation(m.prefix)
    BY <1>2, <1>8, MessageFacts DEF CancelScope
  <2> DEFINE S == LiveIn(Under[m.prefix])
  <2>2. S \in SUBSET Addr /\ StopActors(S, inbox)
    BY <2>1, PlanAssumption DEF LiveIn, HandleScopeCancellation
  <2>3. inbox \in [Addr -> Seq(UserMessage)]
    BY DEF TypeOK
  <2> HIDE DEF S, m
  <2>4. \A a \in Addr : inbox'[a] = <<>> \/ inbox'[a] = inbox[a]
    <3>1. \A a \in Addr :
             /\ terminating'[a] = IF a \in S THEN TRUE ELSE terminating[a]
             /\ inbox'[a] = IF a \in S /\ ~terminating[a] THEN <<>> ELSE inbox[a]
             /\ isActive'[a] = IF a \in S /\ ~terminating[a] THEN TRUE ELSE isActive[a]
      BY <2>2, <2>3, StopActorsFacts, Zenon
    <3>2. QED
      BY <3>1, Zenon
  <2>5. \A a \in Addr : Len(inbox'[a]) <= Len(inbox[a]) + taken(a)
    <3>1. \A a \in Addr : taken(a) \in {0, 1}
      OBVIOUS
    <3> HIDE DEF taken
    <3>2. Len(<<>>) = 0
      OBVIOUS
    <3>3. QED
      BY <1>3, <2>4, <3>1, <3>2
  <2>6. QED
    BY <1>4, <2>1, <2>5
<1>9. QED
  BY <1>1, <1>6, <1>7, <1>8 DEF ProcessMailbox

\* The task loop: an actor is taken to run, or an exhausted slice is renewed.
LEMMA TaskLoopDescends ==
  ASSUME TypeOK, TaskLoop
  PROVE  Lower(Measure', Measure)
<1>1. /\ taskQueue \in Seq(Addr) /\ ExecInterval \in Nat /\ ExecInterval > 1
      /\ dfExecCount \in 0..(ExecInterval - 1)
  BY NumberAssumption DEF TypeOK
<1>2. CASE RunTask
  <2>1. Scheduled' = Scheduled
    BY <1>1, <1>2 DEF RunTask, Scheduled
  <2>2. Turn' < Turn
    BY <1>1, <1>2 DEF RunTask, Turn
  <2>3. QED
    BY <1>2, <2>1, <2>2, RestDescends DEF RunTask, actorVars
<1>3. CASE TasksExpired
  <2>1. Scheduled' = Scheduled
    BY <1>3 DEF TasksExpired, AfterTasks, Scheduled, stopVars
  <2>2. dfExecCount + 1 >= ExecInterval /\ dfExecCount' = 0
    BY <1>1, <1>3 DEF TasksExpired, NotExpired
  <2>3. Turn' < Turn
    BY <1>1, <1>3, <2>2 DEF TasksExpired, AfterTasks, Turn
  <2>4. QED
    BY <1>3, <2>1, <2>3, RestDescends DEF TasksExpired, stopVars
<1>4. CASE TasksDone
  <2>1. Scheduled' = Scheduled
    BY <1>4 DEF TasksDone, AfterTasks, Scheduled, stopVars
  <2>2. Turn' < Turn
    BY <1>4 DEF TasksDone, AfterTasks, Turn
  <2>3. QED
    BY <1>4, <2>1, <2>2, RestDescends DEF TasksDone, stopVars
<1>5. QED
  BY <1>2, <1>3, <1>4 DEF TaskLoop

\* The end of a turn: one scheduled actor less, or an exhausted slice renewed.
LEMMA LeaveDescends ==
  ASSUME TypeOK, NEW a \in Addr, Terminated(a) \/ Yield(a)
  PROVE  Lower(Measure', Measure)
<1>1. /\ taskQueue \in Seq(Addr) /\ ExecInterval \in Nat /\ ExecInterval > 1
      /\ dfExecCount \in 0..(ExecInterval - 1) /\ execCount \in 0..(ExecInterval - 1)
  BY NumberAssumption DEF TypeOK
<1>2. LeaveLoop(a)
  BY DEF Terminated, Yield
<1>3. pc = "actor" /\ pc' = "tasks" /\ UNCHANGED <<mailbox, inbox, dfExecCount>>
  BY <1>2 DEF LeaveLoop
<1>4. CASE Terminated(a) \/ inbox[a] = <<>>
  <2>1. taskQueue' = taskQueue
    BY <1>4 DEF Terminated, Yield
  <2>2. Scheduled' < Scheduled
    BY <1>1, <1>3, <2>1 DEF Scheduled
  <2>3. QED
    BY <1>3, <2>2, RestDescends
<1>5. CASE Yield(a) /\ inbox[a] # <<>>
  <2>1. taskQueue' = Append(taskQueue, a)
    BY <1>5 DEF Yield
  <2>2. Scheduled' = Scheduled
    BY <1>1, <1>3, <2>1 DEF Scheduled
  <2>3. execCount + 1 >= ExecInterval
    BY <1>1, <1>2, <1>5 DEF LeaveLoop, NotExpired
  <2>4. Turn' < Turn
    BY <1>1, <1>3, <2>3 DEF Turn
  <2>5. QED
    BY <1>3, <2>2, <2>4, RestDescends
<1>6. QED
  BY <1>4, <1>5

\* What a turn of work sends goes downstream.
LEMMA WorkSends ==
  ASSUME TypeOK, NEW a \in Addr, DoWork(a)
  PROVE  \E more \in Seq(UserMessage) :
            /\ mailbox' = mailbox \o more
            /\ \A i \in 1..Len(more) : more[i].to = Downstream[a]
<1>1. Working(a) /\ mailbox \in Seq(Message)
  BY DEF TypeOK, DoWork, OutData, OutLastEos, LimitDiscard, LimitData, LimitLastEos,
         EarlierEos, UndefinedData
<1>2. CASE OutData(a)
  <2> DEFINE all  == outPayload[a] \o Expand(Head(inbox[a]).data)
             more == Flushed(Downstream[a], all)
  <2>1. Downstream[a] \in Addr
    BY <1>2, PlanAssumption DEF OutData
  <2>2. all \in Seq(Node)
    <3>1. Head(inbox[a]).data \in Seq(Node)
      BY <1>1, WorkingType
    <3>2. Expand(Head(inbox[a]).data) \in Seq(Node)
      BY <3>1, ExpandType
    <3>3. outPayload[a] \in Seq(Node)
      BY DEF TypeOK
    <3>4. QED
      BY <3>2, <3>3, ConcatFacts
  <2>3. mailbox' = mailbox \o more
    BY <1>2 DEF OutData
  <2> HIDE DEF all
  <2>4. more \in Seq(UserMessage)
    BY <2>1, <2>2, FlushType
  <2>5. \A i \in 1..Len(more) : more[i].to = Downstream[a]
    <3>1. Len(all) \in Nat /\ MaxPayload \in Nat /\ MaxPayload > 0
      BY <2>2, NumberAssumption
    <3>2. Len(all) \div MaxPayload \in Nat
      BY <3>1, DivisionFacts
    <3>3. Len(more) = Len(all) \div MaxPayload
      BY <3>2 DEF Flushed
    <3>4. QED
      BY <3>3 DEF Flushed, DataMessage
  <2>6. QED
    BY <2>3, <2>4, <2>5
<1>3. CASE OutLastEos(a)
  <2> DEFINE more == Farewell(Downstream[a], outPayload[a])
  <2>1. Downstream[a] \in Addr /\ outPayload[a] \in Seq(Node)
    BY <1>3, PlanAssumption DEF OutLastEos, TypeOK
  <2>2. more \in Seq(UserMessage)
    BY <2>1 DEF Farewell, DataMessage, EosMessage, UserMessage, Kind
  <2>3. Len(more) = 2 /\ \A i \in 1..Len(more) : more[i].to = Downstream[a]
    BY DEF Farewell, DataMessage, EosMessage
  <2>4. mailbox' = mailbox \o more
    BY <1>3 DEF OutLastEos
  <2>5. QED
    BY <2>2, <2>3, <2>4
<1>4. CASE LimitDiscard(a) \/ LimitData(a) \/ LimitLastEos(a) \/ EarlierEos(a) \/ UndefinedData(a)
  <2>1. mailbox' = mailbox
    BY <1>4 DEF LimitDiscard, LimitData, LimitLastEos, EarlierEos, UndefinedData
  <2> DEFINE more == <<>>
  <2>2. more \in Seq(UserMessage) /\ Len(more) = 0
    OBVIOUS
  <2>3. mailbox' = mailbox \o more
    BY <1>1, <2>1
  <2> HIDE DEF more
  <2>4. \A i \in 1..Len(more) : more[i].to = Downstream[a]
    BY <2>2
  <2>5. QED
    BY <2>2, <2>3, <2>4, Zenon
<1>5. QED
  BY <1>2, <1>3, <1>4 DEF DoWork

\* The actor that works takes a message from its inbox, and from no other.
LEMMA WorkTakes ==
  ASSUME TypeOK, NEW a \in Addr, DoWork(a)
  PROVE  /\ Len(inbox'[a]) < Len(inbox[a])
         /\ \A b \in Addr : b # a => inbox'[b] = inbox[b]
<1>1. Working(a) /\ (CancelMe(a) \/ Available(a))
  BY DEF DoWork, OutData, OutLastEos, LimitDiscard, LimitData, LimitLastEos, EarlierEos,
         UndefinedData
<1>2. inbox \in [Addr -> Seq(UserMessage)] /\ inbox[a] # <<>>
  BY <1>1 DEF TypeOK, Working
<1>3. /\ Popped(a) \in [Addr -> Seq(UserMessage)]
      /\ Popped(a)[a] = Tail(inbox[a])
      /\ \A b \in Addr : b # a => Popped(a)[b] = inbox[b]
  BY <1>2 DEF Popped
<1>4. Len(Tail(inbox[a])) < Len(inbox[a]) /\ 0 < Len(inbox[a])
  BY <1>2
<1>5. CASE inbox' = Popped(a)
  BY <1>3, <1>4, <1>5
<1>6. CASE StopActors({a}, Popped(a))
  <2>1. {a} \in SUBSET Addr
    OBVIOUS
  <2>2. \A b \in Addr :
           /\ terminating'[b] = IF b \in {a} THEN TRUE ELSE terminating[b]
           /\ inbox'[b] = IF b \in {a} /\ ~terminating[b] THEN <<>> ELSE Popped(a)[b]
           /\ isActive'[b] = IF b \in {a} /\ ~terminating[b] THEN TRUE ELSE isActive[b]
    BY <1>3, <1>6, <2>1, StopActorsFacts, Zenon
  <2>3. \A b \in Addr : b # a => inbox'[b] = Popped(a)[b]
    BY <2>2, Zenon
  <2>4. inbox'[a] = <<>> \/ inbox'[a] = Popped(a)[a]
    BY <2>2, Zenon
  <2>5. QED
    BY <1>3, <1>4, <2>3, <2>4
<1>7. QED
  BY <1>1, <1>5, <1>6 DEF CancelMe, Available, HandleChildTermination

LEMMA WorkDescends ==
  ASSUME TypeOK, TypeOK', NEW a \in Addr, Downstream[a] # a, DoWork(a)
  PROVE  Lower(Measure', Measure)
<1>1. PICK more \in Seq(UserMessage) :
         /\ mailbox' = mailbox \o more
         /\ \A i \in 1..Len(more) : more[i].to = Downstream[a]
  BY WorkSends
<1>2. \A b \in Addr : b # Downstream[a] => Undelivered(b, mailbox') = Undelivered(b, mailbox)
  <2>1. mailbox \in Seq(Message)
    BY DEF TypeOK
  <2>2. QED
    BY <1>1, <2>1, UndeliveredElsewhere
<1>3. /\ Len(inbox'[a]) < Len(inbox[a])
      /\ \A b \in Addr : b # a => inbox'[b] = inbox[b]
  BY WorkTakes
<1>4. \A b \in Addr : /\ Len(inbox[b]) \in Nat /\ Len(inbox'[b]) \in Nat
                      /\ Cardinality(Undelivered(b, mailbox)) \in Nat
  <2>1. \A b \in Addr : Cardinality(Undelivered(b, mailbox)) \in Nat
    BY UndeliveredFinite DEF TypeOK
  <2>2. inbox \in [Addr -> Seq(UserMessage)] /\ inbox' \in [Addr -> Seq(UserMessage)]
    BY DEF TypeOK
  <2>3. \A b \in Addr : Len(inbox[b]) \in Nat /\ Len(inbox'[b]) \in Nat
    BY <2>2
  <2>4. QED
    BY <2>1, <2>3
<1>5. Load(a)' < Load(a)
  BY <1>2, <1>3, <1>4 DEF Load
<1>6. \A b \in Addr : Load(b)' > Load(b) => b = Downstream[a]
  <2>1. \A b \in Addr : b # a /\ b # Downstream[a] => Load(b)' = Load(b)
    BY <1>2, <1>3 DEF Load
  <2>2. Load(a)' \in Nat /\ Load(a) \in Nat
    BY <1>2, <1>4 DEF Load
  <2>3. \A b \in Addr : Load(b) \in Nat
    BY MeasureFacts
  <2>4. QED
    BY <1>5, <2>1, <2>2, <2>3
<1>7. QED
  BY <1>5, <1>6 DEF Lower, Measure

-----------------------------------------------------------------------------
(* Runs end: no run descends for ever. *)

\* The values Measure takes.
Measures == [load : [Addr -> Nat], rest : [1..3 -> Nat]]

LEMMA MeasureType ==
  ASSUME TypeOK
  PROVE  Measure \in Measures
<1>1. [a \in Addr |-> Load(a)] \in [Addr -> Nat]
  BY MeasureFacts
<1>2. <<Len(mailbox), Scheduled, Turn>> \in [1..3 -> Nat]
  BY MeasureFacts
<1>3. QED
  BY <1>1, <1>2 DEF Measure, Measures

\* The operators can be listed so that results only go to later ones; the code
\* never checks it, op_code_tree holds whatever plan it is given.
Acyclic ==
    \E order \in Seq(Addr) :
        /\ ToSet(order) = Addr
        /\ \A i, j \in 1..Len(order) : Downstream[order[i]] = order[j] => i < j

LEMMA EngineDescends ==
  ASSUME Acyclic, TypeOK, TypeOK', Engine
  PROVE  Lower(Measure', Measure)
<1>1. ASSUME NEW a \in Addr, Downstream[a] = a
      PROVE  FALSE
  <2>1. PICK order \in Seq(Addr) :
           /\ ToSet(order) = Addr
           /\ \A i, j \in 1..Len(order) : Downstream[order[i]] = order[j] => i < j
    BY DEF Acyclic
  <2>2. PICK i \in 1..Len(order) : order[i] = a
    BY <2>1 DEF ToSet
  <2>3. QED
    BY <1>1, <2>1, <2>2
<1>2. CASE ProcessMailbox
  BY <1>2, MailboxDescends
<1>3. CASE TaskLoop
  BY <1>3, TaskLoopDescends
<1>4. ASSUME NEW a \in Addr, ActorRun(a)
      PROVE  Lower(Measure', Measure)
  BY <1>1, <1>4, WorkDescends, LeaveDescends DEF ActorRun
<1>5. QED
  BY <1>2, <1>3, <1>4 DEF Engine

\* Nothing but the host adds work: in a plan without cycles every step of a run
\* is one step less to its end, in every order of messages, cancellations,
\* expiries and activations.
THEOREM EveryStepDescends == Acyclic => (Spec => RunsDescend /\ [](Measure \in Measures))
<1> SUFFICES ASSUME Acyclic
             PROVE  Spec => RunsDescend /\ [](Measure \in Measures)
  OBVIOUS
<1>1. Inv /\ Inv' /\ [Next]_vars => [pc # "idle" => Lower(Measure', Measure)]_vars
  <2> SUFFICES ASSUME Inv, Inv', Next, pc # "idle"
               PROVE  Lower(Measure', Measure)
    OBVIOUS
  <2>1. Engine
    BY DEF Next, Host, HostEnqueue, HostEnqueueUrgent, HandleStopFromParent, RunAndDispose
  <2>2. QED
    BY <2>1, EngineDescends DEF Inv
<1>2. Inv => Measure \in Measures
  BY MeasureType DEF Inv
<1>3. QED
  BY <1>1, <1>2, Invariance, PTL DEF RunsDescend, Spec

\* The measure as one vector: the loads in the order of the plan, then the rest.
Vector(order, m) ==
    [i \in 1..(Len(order) + 3) |->
        IF i <= Len(order) THEN m.load[order[i]] ELSE m.rest[i - Len(order)]]

LessThan == OpToRel(<, Nat)

VectorOrder(order) == LexProductOrdering(LessThan, Nat, Len(order) + 3)

\* A step that descends lowers the vector in the lexicographic order: where only
\* the operator downstream gains, that operator comes later.
LEMMA VectorDescends ==
  ASSUME NEW order \in Seq(Addr), ToSet(order) = Addr,
         \A i, j \in 1..Len(order) : Downstream[order[i]] = order[j] => i < j,
         NEW old \in Measures, NEW new \in Measures, Lower(new, old)
  PROVE  <<Vector(order, new), Vector(order, old)>> \in VectorOrder(order)
<1> DEFINE n == Len(order)
           u == Vector(order, new)
           v == Vector(order, old)
<1>1. n \in Nat /\ \A i \in 1..n : order[i] \in Addr
  OBVIOUS
<1>2. /\ \A i \in 1..n : u[i] = new.load[order[i]] /\ v[i] = old.load[order[i]]
      /\ \A k \in 1..3 : u[n + k] = new.rest[k] /\ v[n + k] = old.rest[k]
  BY <1>1 DEF Vector
<1>3. u \in [1..(n + 3) -> Nat] /\ v \in [1..(n + 3) -> Nat]
  <2>1. ASSUME NEW m \in Measures, NEW i \in 1..(n + 3)
        PROVE  (IF i <= n THEN m.load[order[i]] ELSE m.rest[i - n]) \in Nat
    <3>1. m.load \in [Addr -> Nat] /\ m.rest \in [1..3 -> Nat]
      BY <2>1 DEF Measures
    <3>2. CASE i <= n
      BY <1>1, <3>1, <3>2
    <3>3. CASE ~(i <= n)
      <4>1. i - n \in 1..3
        BY <1>1, <3>3
      <4>2. QED
        BY <3>1, <3>3, <4>1
    <3>4. QED
      BY <3>2, <3>3
  <2>2. QED
    BY <2>1 DEF Vector
<1>4. SUFFICES \E j \in 1..(n + 3) : u[j] < v[j] /\ \A i \in 1..(j - 1) : u[i] = v[i]
  BY <1>1, <1>3 DEF VectorOrder, LexProductOrdering, LessThan, OpToRel
<1> HIDE DEF u, v
<1>5. CASE \E a \in Addr : /\ new.load[a] < old.load[a]
                           /\ \A b \in Addr : new.load[b] > old.load[b] => b = Downstream[a]
  <2>1. PICK a \in Addr : /\ new.load[a] < old.load[a]
                          /\ \A b \in Addr : new.load[b] > old.load[b] => b = Downstream[a]
    BY <1>5
  <2>2. PICK k \in 1..n : order[k] = a
    BY DEF ToSet
  <2> DEFINE T == {i \in 1..n : u[i] # v[i]}
  <2>3. u[k] < v[k] /\ u[k] \in Nat /\ v[k] \in Nat
    <3>1. u[k] = new.load[a] /\ v[k] = old.load[a]
      BY <1>2, <2>2
    <3>2. k \in 1..(n + 3)
      BY <1>1, <2>2
    <3>3. u[k] \in Nat /\ v[k] \in Nat
      BY <1>3, <3>2
    <3>4. QED
      BY <2>1, <3>1, <3>3
  <2>4. k \in T /\ T \in SUBSET Nat
    BY <1>1, <2>3
  <2> HIDE DEF T
  <2>5. PICK j \in T : \A i \in T : j <= i
    BY <2>4, LeastNatural
  <2>6. j \in 1..n /\ u[j] # v[j] /\ j <= k
    BY <2>4, <2>5 DEF T
  <2>7. \A i \in 1..(j - 1) : u[i] = v[i]
    BY <1>1, <2>5, <2>6 DEF T
  <2>8. ~ (u[j] > v[j])
    <3> SUFFICES ASSUME u[j] > v[j]
                 PROVE  FALSE
      OBVIOUS
    <3>1. order[j] = Downstream[order[k]]
      BY <1>1, <1>2, <2>1, <2>2, <2>6
    <3>2. k < j
      BY <2>6, <3>1
    <3>3. QED
      BY <1>1, <2>6, <3>2
  <2>9. u[j] < v[j] /\ j \in 1..(n + 3)
    BY <1>1, <1>3, <2>6, <2>8
  <2>10. QED
    BY <2>7, <2>9
<1>6. CASE /\ new.load = old.load
           /\ \E k \in 1..3 : /\ new.rest[k] < old.rest[k]
                              /\ \A i \in 1..(k - 1) : new.rest[i] = old.rest[i]
  <2>1. PICK k \in 1..3 : /\ new.rest[k] < old.rest[k]
                          /\ \A i \in 1..(k - 1) : new.rest[i] = old.rest[i]
    BY <1>6
  <2>2. n + k \in 1..(n + 3) /\ u[n + k] < v[n + k]
    BY <1>1, <1>2, <2>1
  <2>3. ASSUME NEW i \in 1..((n + k) - 1)
        PROVE  u[i] = v[i]
    <3>1. CASE i <= n
      BY <1>1, <1>2, <1>6, <3>1
    <3>2. CASE ~(i <= n)
      <4>1. i - n \in 1..(k - 1) /\ i - n \in 1..3 /\ n + (i - n) = i
        BY <1>1, <3>2
      <4>2. u[i] = new.rest[i - n] /\ v[i] = old.rest[i - n]
        BY <1>2, <4>1
      <4>3. QED
        BY <2>1, <4>1, <4>2
    <3>3. QED
      BY <3>1, <3>2
  <2>4. QED
    BY <2>2, <2>3
<1>7. QED
  BY <1>5, <1>6 DEF Lower

\* In a plan without cycles no sequence of measures descends for ever: no run of
\* the dataflow, however many messages its operators make of one, takes
\* infinitely many steps.
THEOREM DescentEnds ==
  Acyclic => ~ \E f \in [Nat -> Measures] : \A n \in Nat : Lower(f[n + 1], f[n])
<1> SUFFICES ASSUME Acyclic, NEW f \in [Nat -> Measures],
                    \A n \in Nat : Lower(f[n + 1], f[n])
             PROVE  FALSE
  OBVIOUS
<1>1. PICK order \in Seq(Addr) :
         /\ ToSet(order) = Addr
         /\ \A i, j \in 1..Len(order) : Downstream[order[i]] = order[j] => i < j
  BY DEF Acyclic
<1> DEFINE size == Len(order) + 3
           g    == [n \in Nat |-> Vector(order, f[n])]
<1>2. IsWellFoundedOn(VectorOrder(order), [1..size -> Nat])
  <2>1. size \in Nat
    OBVIOUS
  <2>2. IsWellFoundedOn(LexProductOrdering(LessThan, Nat, size), [1..size -> Nat])
    BY <2>1, NatLessThanWellFounded, WFLexProductOrdering DEF LessThan
  <2>3. QED
    BY <2>2 DEF VectorOrder
<1>3. ASSUME NEW n \in Nat
      PROVE  <<Vector(order, f[n + 1]), Vector(order, f[n])>> \in VectorOrder(order)
  <2>1. f[n + 1] \in Measures /\ f[n] \in Measures /\ Lower(f[n + 1], f[n])
    BY <1>3
  <2>2. QED
    BY <1>1, <2>1, VectorDescends, Zenon
<1>4. \A n \in Nat : <<g[n + 1], g[n]>> \in VectorOrder(order)
  BY <1>3
<1>5. \A n \in Nat : Vector(order, f[n]) \in [1..size -> Nat]
  BY <1>3 DEF VectorOrder, LexProductOrdering
<1>6. g \in [Nat -> [1..size -> Nat]]
  BY <1>5
<1> HIDE DEF size, g
<1>7. QED
  BY <1>2, <1>4, <1>6 DEF IsWellFoundedOn

-----------------------------------------------------------------------------
(* The dataflow implements the actor pool of module ActorPool. *)

\* The pool counts as the dataflow does.
LEMMA SameCardinality == \A T : Pool!Cardinality(T) = Cardinality(T)
BY DEF Pool!Cardinality, Cardinality, Pool!IsFiniteSet, IsFiniteSet

\* The pool sees only the index, the actors' storage and what stops them.
LEMMA PoolStutter ==
  ASSUME UNCHANGED <<tree, terminating, life, numTerminating>>
  PROVE  UNCHANGED Pool!poolVars
BY DEF Pool!poolVars, Phase

LEMMA PoolInitially ==
  ASSUME Init
  PROVE  Pool!PoolInit
BY DEF Init, Pool!PoolInit, Phase

\* What is live or absent in the pool is so in the index.
LEMMA PhaseLive ==
  ASSUME Inv, NEW a \in Addr
  PROVE  /\ Phase(a) = "live" <=> tree[a] = "live"
         /\ Phase(a) = "absent" <=> tree[a] = "absent"
<1>1. TypeOK /\ IndexSound
  BY DEF Inv, Consistent
<1>2. QED
  BY <1>1 DEF TypeOK, IndexSound, Phase

\* Disabling the entries of S, and stopping its live actors, is a Stop.
LEMMA PoolStop ==
  ASSUME Inv, NEW S \in SUBSET Addr,
         \A a \in Addr : tree'[a] = IF a \in S THEN "disabled" ELSE tree[a],
         \A a \in Addr : terminating'[a] =
            IF a \in S /\ tree[a] = "live" THEN TRUE ELSE terminating[a],
         numTerminating' = numTerminating + Cardinality({a \in S : tree[a] = "live"}),
         UNCHANGED life
  PROVE  Pool!Stop(S)
<1> DEFINE old == [a \in Addr |-> Phase(a)]
<1>1. ASSUME NEW a \in Addr
      PROVE  Phase(a)' = IF a \in S THEN Pool!Stopped(old[a]) ELSE old[a]
  <2>1. TypeOK /\ IndexSound
    BY DEF Inv, Consistent
  <2>2. old[a] = Phase(a)
    OBVIOUS
  <2>3. CASE a \notin S
    BY <2>1, <2>2, <2>3 DEF Phase
  <2>4. CASE a \in S
    BY <2>1, <2>2, <2>4 DEF Phase, Pool!Stopped, TypeOK, IndexSound
  <2>5. QED
    BY <2>3, <2>4
<1>2. {a \in S : old[a] = "live"} = {a \in S : tree[a] = "live"}
  BY PhaseLive
<1>3. [a \in Addr |-> Phase(a)]' =
        [a \in Addr |-> IF a \in S THEN Pool!Stopped(old[a]) ELSE old[a]]
  BY <1>1
<1>4. numTerminating' = numTerminating + Cardinality({a \in S : old[a] = "live"})
  BY <1>2
<1>5. QED
  BY <1>3, <1>4, SameCardinality DEF Pool!Stop

\* A cancellation is a Stop of its scope; in an empty index it does nothing.
LEMMA PoolScope ==
  ASSUME Inv, NEW p \in Prefix, HandleScopeCancellation(p), UNCHANGED life
  PROVE  Pool!Stop(Under[p]) \/ UNCHANGED Pool!poolVars
<1> DEFINE S == LiveIn(Under[p])
<1>1. TypeOK
  BY DEF Inv
<1>2. /\ Under[p] \in SUBSET Addr /\ S \in SUBSET Addr
      /\ S = {a \in Under[p] : tree[a] = "live"}
  BY PlanAssumption DEF LiveIn
<1>3. /\ StopActors(S, inbox) /\ tree' = Disable(Under[p])
      /\ numTerminating' = numTerminating + Cardinality(S)
  BY DEF HandleScopeCancellation
<1> HIDE DEF S
<1>4. inbox \in [Addr -> Seq(UserMessage)]
  BY <1>1 DEF TypeOK
<1>5. ASSUME NEW a \in Addr
      PROVE  terminating'[a] = IF a \in S THEN TRUE ELSE terminating[a]
  BY <1>1, <1>2, <1>3, <1>4, StopActorsFacts
<1>6. CASE TreeEmpty
  <2>1. S = {} /\ tree' = tree
    BY <1>2, <1>3, <1>6 DEF TreeEmpty, Disable
  <2>2. numTerminating' = numTerminating
    BY <1>1, <1>3, <2>1, FS_EmptySet DEF TypeOK
  <2>3. terminating' = terminating
    <3>1. terminating' \in [Addr -> BOOLEAN] /\ terminating \in [Addr -> BOOLEAN]
      BY <1>1, ScopeType DEF TypeOK
    <3>2. \A a \in Addr : terminating'[a] = terminating[a]
      BY <1>5, <2>1
    <3>3. QED
      BY <3>1, <3>2
  <2>4. QED
    BY <2>1, <2>2, <2>3, PoolStutter
<1>7. CASE ~TreeEmpty
  <2>1. \A a \in Addr : tree'[a] = IF a \in Under[p] THEN "disabled" ELSE tree[a]
    BY <1>3, <1>7 DEF Disable
  <2>2. QED
    BY <1>2, <1>3, <1>5, <2>1, PoolStop
<1>8. QED
  BY <1>6, <1>7

\* The termination an actor asks for is a Stop of its address alone.
LEMMA PoolCancelMe ==
  ASSUME Inv, NEW a \in Addr, inbox[a] # <<>>, CancelMe(a), UNCHANGED life
  PROVE  Pool!Stop({a})
<1>1. TypeOK
  BY DEF Inv
<1>2. tree[a] = "live"
  BY DEF Inv, Consistent, IndexSound, NoLostWakeUp
<1>3. /\ StopActors({a}, Popped(a)) /\ tree' = Disable({a})
      /\ numTerminating' = numTerminating + 1
  BY <1>2 DEF CancelMe, HandleChildTermination, Lookup
<1>4. Popped(a) \in [Addr -> Seq(UserMessage)]
  BY <1>1 DEF TypeOK, Popped
<1>5. PICK S \in SUBSET Addr : S = {a}
  OBVIOUS
<1>6. ASSUME NEW b \in Addr
      PROVE  terminating'[b] = IF b \in S THEN TRUE ELSE terminating[b]
  BY <1>1, <1>3, <1>4, <1>5, StopActorsFacts
<1>7. \A b \in Addr : tree'[b] = IF b \in S THEN "disabled" ELSE tree[b]
  BY <1>2, <1>3, <1>5 DEF Disable, TreeEmpty
<1>8. S = {b \in S : tree[b] = "live"} /\ Cardinality(S) = 1
  BY <1>2, <1>5, FS_Singleton
<1>9. Pool!Stop(S)
  BY <1>3, <1>5, <1>6, <1>7, <1>8, PoolStop
<1>10. QED
  BY <1>5, <1>9

\* The first message to an address creates its actor.
LEMMA PoolCreate ==
  ASSUME Inv, NEW a \in Addr, tree[a] = "absent",
         life' = [life EXCEPT ![a] = "alive"], tree' = [tree EXCEPT ![a] = "live"],
         UNCHANGED <<numTerminating, terminating>>
  PROVE  Pool!Create(a)
<1> DEFINE old == [b \in Addr |-> Phase(b)]
<1>1. TypeOK /\ IndexSound
  BY DEF Inv, Consistent
<1>2. old[a] = "absent"
  BY PhaseLive
<1>3. \A b \in Addr : Phase(b)' = IF b = a THEN "live" ELSE old[b]
  BY <1>1 DEF Phase, TypeOK, IndexSound
<1>4. [b \in Addr |-> Phase(b)]' = [old EXCEPT ![a] = "live"]
  BY <1>3
<1>5. QED
  BY <1>2, <1>4 DEF Pool!Create

\* An actor that leaves its run terminated is deleted.
LEMMA PoolDelete ==
  ASSUME Inv, NEW a \in Addr, Terminated(a)
  PROVE  Pool!Delete(a)
<1> DEFINE old == [b \in Addr |-> Phase(b)]
<1>1. TypeOK /\ ScheduledOnce
  BY DEF Inv, Consistent
<1>2. /\ a = running /\ terminating[a]
      /\ life' = [life EXCEPT ![a] = "freed"]
      /\ numTerminating' = numTerminating - 1
      /\ UNCHANGED <<tree, terminating>>
  BY DEF Terminated, LeaveLoop, HandleChildTerminated
<1>3. life[a] = "alive"
  BY <1>1, <1>2 DEF ScheduledOnce
<1>4. old[a] = "stopping"
  BY <1>2, <1>3 DEF Phase
<1>5. \A b \in Addr : Phase(b)' = IF b = a THEN "gone" ELSE old[b]
  BY <1>1, <1>2 DEF Phase, TypeOK
<1>6. [b \in Addr |-> Phase(b)]' = [old EXCEPT ![a] = "gone"]
  BY <1>5
<1>7. QED
  BY <1>2, <1>4, <1>6 DEF Pool!Delete

\* Every step of the dataflow is a step of the pool, or none.
LEMMA PoolStep ==
  ASSUME Inv, [Next]_vars
  PROVE  [Pool!PoolNext]_(Pool!poolVars)
<1> DEFINE Still == UNCHANGED <<tree, terminating, life, numTerminating>>
<1>1. TypeOK
  BY DEF Inv
<1>2. ASSUME NEW p \in Prefix, Pool!Stop(Under[p])
      PROVE  Pool!PoolNext
  BY <1>2 DEF Pool!PoolNext
<1>3. ASSUME NEW a \in Addr, Pool!Stop({a})
      PROVE  Pool!PoolNext
  BY <1>3 DEF Pool!PoolNext
<1>4. CASE UNCHANGED vars
  BY <1>4, PoolStutter DEF vars, actorVars
<1>5. ASSUME NEW m \in HostMessage, HostEnqueue(m) \/ HostEnqueueUrgent(m)
      PROVE  Still
  BY <1>5 DEF HostEnqueue, HostEnqueueUrgent, stopVars
<1>6. CASE HandleStopFromParent
  BY <1>2, <1>6, PlanAssumption, PoolScope DEF HandleStopFromParent
<1>7. CASE RunAndDispose \/ DropControl \/ UserToDisabled \/ MailboxEmpty
  BY <1>7, PoolStutter DEF RunAndDispose, DropControl, UserToDisabled, MailboxEmpty, stopVars
<1>8. ASSUME Receiving
      PROVE  Head(mailbox) \in Message
  BY <1>1, <1>8, HeadTailProperties DEF TypeOK, Receiving
<1>9. CASE UserToLive
  BY <1>9, PoolStutter DEF UserToLive
<1>10. CASE UserToAbsent
  <2> DEFINE a == Head(mailbox).to
  <2>1. Head(mailbox) \in UserMessage /\ Lookup(a) = 0
    BY <1>8, <1>10, MessageFacts DEF UserToAbsent
  <2>2. a \in Addr /\ tree[a] = "absent"
    BY <2>1 DEF UserMessage, Lookup
  <2>3. /\ life' = [life EXCEPT ![a] = "alive"] /\ tree' = [tree EXCEPT ![a] = "live"]
        /\ UNCHANGED <<numTerminating, terminating>>
    BY <1>10 DEF UserToAbsent
  <2> HIDE DEF a
  <2>4. Pool!Create(a)
    BY <2>2, <2>3, PoolCreate
  <2>5. QED
    BY <2>2, <2>4 DEF Pool!PoolNext
<1>11. CASE CancelScope
  <2> DEFINE p == Head(mailbox).prefix
  <2>1. p \in Prefix /\ HandleScopeCancellation(p) /\ UNCHANGED life
    BY <1>8, <1>11, MessageFacts DEF CancelScope
  <2> HIDE DEF p
  <2>2. QED
    BY <1>2, <2>1, PoolScope
<1>12. CASE TaskLoop
  BY <1>12, PoolStutter DEF TaskLoop, RunTask, TasksExpired, TasksDone, actorVars, stopVars
<1>13. ASSUME NEW a \in Addr, DoWork(a)
       PROVE  [Pool!PoolNext]_(Pool!poolVars)
  <2>1. Working(a) /\ (CancelMe(a) \/ Available(a))
    BY <1>13 DEF DoWork, OutData, OutLastEos, LimitDiscard, LimitData, LimitLastEos,
                 EarlierEos, UndefinedData
  <2>2. inbox[a] # <<>> /\ UNCHANGED life
    BY <2>1 DEF Working
  <2>3. CASE Available(a)
    BY <2>2, <2>3, PoolStutter DEF Available, stopVars
  <2>4. CASE CancelMe(a)
    BY <1>3, <2>2, <2>4, PoolCancelMe
  <2>5. QED
    BY <2>1, <2>3, <2>4
<1>14. ASSUME NEW a \in Addr, Terminated(a)
       PROVE  Pool!PoolNext
  BY <1>14, PoolDelete DEF Pool!PoolNext
<1>15. ASSUME NEW a \in Addr, Yield(a)
       PROVE  Still
  BY <1>15 DEF Yield, LeaveLoop
<1>16. QED
  BY <1>4, <1>5, <1>6, <1>7, <1>9, <1>10, <1>11, <1>12, <1>13, <1>14, <1>15, PoolStutter
     DEF Next, Host, Engine, ProcessMailbox, ActorRun

\* For every plan, graph and host, the actors of a dataflow live as the pool says:
\* each is created once, works until one Stop takes it in, and is deleted once,
\* and a Stop takes in exactly the live actors of one scope or of one address.
THEOREM DataflowImplementsPool == Spec => ImplementsPool
<1>1. Inv /\ [Next]_vars => [Pool!PoolNext]_(Pool!poolVars)
  BY PoolStep
<1>2. Init => Pool!PoolInit
  BY PoolInitially
<1>3. QED
  BY <1>1, <1>2, Invariance, PTL DEF Spec, ImplementsPool, Pool!PoolSpec
=============================================================================
