---------------------------- MODULE QueryProofs ----------------------------
(***************************************************************************)
(* Proofs about QueryClient for every chain of operators, every graph and  *)
(* every query: EOS is the last message an operator gets, and no operator  *)
(* is left alive when the client returns.                                  *)
(***************************************************************************)
EXTENDS QueryClient, DataflowTheorems

First == Head(Pipeline)

\* Nothing more will be sent to b: the client has sent its EOS, or the operator
\* before b has been told to stop.
Ended(b) ==
    /\ b = First => sent = Len(Script)
    /\ \A a \in Addr : Downstream[a] = b => terminating[a]

\* An EOS is on its way to b, or waits to be read by it.
EosIn(b) ==
    \/ \E i \in 1..Len(inbox[b]) : inbox[b][i].kind = "EOS"
    \/ \E k \in 1..Len(mailbox) : mailbox[k].to = b /\ mailbox[k].kind = "EOS"

\* EOS goes from operator to operator: while the one before b may send, b has
\* not been sent its EOS; then the EOS is pending until b is told to stop.
Relay ==
    /\ \A b \in Addr : EosIn(b) => Ended(b)
    /\ \A b \in Addr : Ended(b) => EosIn(b) \/ terminating[b]
    /\ EosIsLast

\* Where the client is in its script.
InScript == query \in Queries /\ sent \in 0..Len(Script)

\* There are only messages to operators, and nobody is disabled or has read an
\* EOS without having been told to stop.
Tame ==
    /\ mailbox \in Seq(UserMessage) /\ ~dfTerminating
    /\ \A a \in Addr : tree[a] = "disabled" => terminating[a]
    /\ \A a \in Addr : numRcvEos[a] # 0 => terminating[a]

-----------------------------------------------------------------------------
(* The chain, and the script of the client. *)

LEMMA ChainFacts ==
  /\ First \in Addr
  /\ \A a \in Addr : OpCode[a] = "LIMIT" => Downstream[a] = NoAddr /\ LimitCount[a] > 0
  /\ \A a \in Addr :
        OpCode[a] = "OUT" => Downstream[a] \in Addr /\ Downstream[a] # First
  /\ \A a, b \in Addr :
        OpCode[a] = "OUT" /\ Downstream[a] = Downstream[b] => a = b
<1> DEFINE n == Len(Pipeline)
<1>1. /\ n \in Nat /\ n > 1 /\ DOMAIN Pipeline = 1..n
      /\ \A i \in 1..n : Pipeline[i] \in Addr
      /\ First = Pipeline[1]
  BY PipelineAssumption DEF First
<1>2. \A i, j \in 1..n : Pipeline[i] = Pipeline[j] => i = j
  BY <1>1, PipelineAssumption DEF IsInjective
<1>3. \A a \in Addr : \E i \in 1..n : a = Pipeline[i]
  BY <1>1, PipelineAssumption DEF ToSet
<1>4. \A i \in 1..n :
        IF i = n THEN OpCode[Pipeline[i]] = "LIMIT" /\ Downstream[Pipeline[i]] = NoAddr
        ELSE OpCode[Pipeline[i]] = "OUT" /\ Downstream[Pipeline[i]] = Pipeline[i + 1]
  BY PipelineAssumption
<1>5. Last(Pipeline) = Pipeline[n] /\ LimitCount[Pipeline[n]] > 0
  BY PipelineAssumption DEF Last
<1> HIDE DEF n
<1>6. \A a \in Addr : OpCode[a] = "LIMIT" => Downstream[a] = NoAddr /\ LimitCount[a] > 0
  BY <1>1, <1>3, <1>4, <1>5
<1>7. ASSUME NEW a \in Addr, OpCode[a] = "OUT"
      PROVE  \E i \in 1..n : i < n /\ a = Pipeline[i] /\ Downstream[a] = Pipeline[i + 1]
  BY <1>1, <1>3, <1>4, <1>7
<1>8. \A a \in Addr :
         OpCode[a] = "OUT" => Downstream[a] \in Addr /\ Downstream[a] # First
  BY <1>1, <1>2, <1>7
<1>9. ASSUME NEW a \in Addr, NEW b \in Addr, OpCode[a] = "OUT",
             Downstream[a] = Downstream[b]
      PROVE  a = b
  <2>1. OpCode[b] = "OUT"
    BY <1>6, <1>8, <1>9, PlanAssumption
  <2>2. PICK i \in 1..n : i < n /\ a = Pipeline[i] /\ Downstream[a] = Pipeline[i + 1]
    BY <1>7, <1>9
  <2>3. PICK j \in 1..n : j < n /\ b = Pipeline[j] /\ Downstream[b] = Pipeline[j + 1]
    BY <1>7, <2>1
  <2>4. i + 1 \in 1..n /\ j + 1 \in 1..n
    BY <1>1, <2>2, <2>3
  <2>5. i = j
    BY <1>2, <1>9, <2>2, <2>3, <2>4
  <2>6. QED
    BY <2>2, <2>3, <2>5
<1>10. QED
  BY <1>1, <1>6, <1>8, <1>9

\* The script is the payloads of the query, then one EOS, all to the first
\* operator, and the host may send it.
LEMMA ScriptFacts ==
  ASSUME query \in Queries
  PROVE  /\ Len(Script) \in Nat /\ Len(Script) > 0
         /\ \A i \in 1..Len(Script) :
               /\ Script[i] \in UserMessage \cap HostMessage /\ Script[i].to = First
               /\ Script[i].kind = "EOS" <=> i = Len(Script)
<1>1. query \in Seq(Seq(Node))
  BY PipelineAssumption
<1> DEFINE data == [i \in 1..Len(query) |-> DataMessage(First, query[i])]
<1>2. \A i \in 1..Len(query) : DataMessage(First, query[i]) \in UserMessage
  BY <1>1, ChainFacts DEF DataMessage, UserMessage, Kind
<1>3. EosMessage(First) \in UserMessage
  <2>1. <<>> \in Seq(Node)
    OBVIOUS
  <2>2. QED
    BY <2>1, ChainFacts DEF EosMessage, UserMessage, Kind
<1>4. Len(query) \in Nat /\ data \in Seq(UserMessage) /\ Len(data) = Len(query)
  BY <1>1, <1>2
<1>5. Script = data \o <<EosMessage(First)>>
  BY DEF Script, First
<1>6. /\ Len(Script) = Len(query) + 1
      /\ \A i \in 1..Len(query) : Script[i] = DataMessage(First, query[i])
      /\ Script[Len(query) + 1] = EosMessage(First)
  BY <1>3, <1>4, <1>5
<1>7. \A i \in 1..Len(query) : DataMessage(First, query[i]) \in HostMessage
  BY ClientAssumption DEF First
<1>8. EosMessage(First) \in HostMessage
  BY ClientAssumption DEF First
<1>9. /\ \A i \in 1..Len(query) : /\ DataMessage(First, query[i]).to = First
                              /\ DataMessage(First, query[i]).kind # "EOS"
      /\ EosMessage(First).to = First /\ EosMessage(First).kind = "EOS"
  BY DEF DataMessage, EosMessage
<1> HIDE DEF data
<1>10. ASSUME NEW i \in 1..Len(Script)
       PROVE  /\ Script[i] \in UserMessage \cap HostMessage /\ Script[i].to = First
              /\ Script[i].kind = "EOS" <=> i = Len(Script)
  <2>1. CASE i \in 1..Len(query)
    BY <1>2, <1>4, <1>6, <1>7, <1>9, <2>1
  <2>2. CASE i = Len(query) + 1
    BY <1>3, <1>6, <1>8, <1>9, <2>2
  <2>3. QED
    BY <1>4, <1>6, <2>1, <2>2
<1>11. QED
  BY <1>4, <1>6, <1>10

-----------------------------------------------------------------------------
(* The client is a host of the dataflow, so all theorems about it apply. *)

LEMMA ClientStep ==
  ASSUME InScript, [ClientNext]_cvars
  PROVE  InScript' /\ [Next]_vars
<1>1. CASE UNCHANGED cvars
  BY <1>1 DEF cvars, InScript, Script
<1>2. CASE ClientEnqueue
  <2>1. Len(Script) \in Nat /\ sent \in Nat /\ sent + 1 \in 1..Len(Script)
    BY <1>2, ScriptFacts DEF ClientEnqueue, InScript
  <2>2. Script[sent + 1] \in HostMessage
    BY <2>1, ScriptFacts DEF InScript
  <2>3. Next
    BY <1>2, <2>2 DEF ClientEnqueue, Next, Host
  <2>4. Script' = Script
    BY <1>2 DEF ClientEnqueue, Script
  <2>5. InScript'
    BY <1>2, <2>1, <2>4 DEF ClientEnqueue, InScript
  <2>6. QED
    BY <2>3, <2>5
<1>3. CASE ClientRun \/ (Engine /\ UNCHANGED <<query, answer, sent>>)
  <2>1. Next
    BY <1>3 DEF ClientRun, Next
  <2>2. InScript'
    BY <1>3 DEF ClientRun, InScript, Script
  <2>3. QED
    BY <2>1, <2>2
<1>4. QED
  BY <1>1, <1>2, <1>3 DEF ClientNext, Client

LEMMA ClientInitially == ClientInit => InScript /\ Init
<1> SUFFICES ASSUME ClientInit PROVE InScript /\ Init
  OBVIOUS
<1>1. query \in Queries /\ sent = 0 /\ Init
  BY DEF ClientInit
<1>2. Len(Script) \in Nat
  BY <1>1, ScriptFacts
<1>3. QED
  BY <1>1, <1>2 DEF InScript

\* The client does to its dataflow only what any host may do.
THEOREM ClientIsHost == ClientSpec => []InScript /\ Spec
<1>1. InScript /\ [ClientNext]_cvars => InScript' /\ [Next]_vars
  BY ClientStep
<1>2. QED
  BY <1>1, ClientInitially, PTL DEF ClientSpec, Spec

-----------------------------------------------------------------------------
(* Sequences of messages. *)

\* Reading and dropping messages shortens a mailbox from its front.
Shorter(b) ==
    \A i \in 1..Len(inbox'[b]) : \E j \in 1..Len(inbox[b]) :
        inbox'[b][i] = inbox[b][j] /\ (i = Len(inbox'[b]) <=> j = Len(inbox[b]))

LEMMA TailShorter ==
  ASSUME NEW b \in Addr, inbox[b] \in Seq(UserMessage), inbox[b] # <<>>,
         inbox'[b] = Tail(inbox[b])
  PROVE  /\ Shorter(b)
         /\ Head(inbox[b]).kind # "EOS" /\ EosIn(b)
              /\ (\A k \in 1..Len(mailbox) : \E l \in 1..Len(mailbox') :
                     mailbox'[l] = mailbox[k])
              => EosIn(b)'
<1>1. /\ Len(inbox[b]) \in Nat /\ Len(inbox[b]) > 0
      /\ Len(inbox'[b]) = Len(inbox[b]) - 1
      /\ \A i \in 1..Len(inbox'[b]) : inbox'[b][i] = inbox[b][i + 1]
      /\ Head(inbox[b]) = inbox[b][1]
  OBVIOUS
<1>2. Shorter(b)
  <2> SUFFICES ASSUME NEW i \in 1..Len(inbox'[b])
               PROVE  \E j \in 1..Len(inbox[b]) :
                        /\ inbox'[b][i] = inbox[b][j]
                        /\ i = Len(inbox'[b]) <=> j = Len(inbox[b])
    BY DEF Shorter
  <2>1. i + 1 \in 1..Len(inbox[b])
    BY <1>1
  <2>2. i = Len(inbox'[b]) <=> i + 1 = Len(inbox[b])
    BY <1>1
  <2>3. QED
    BY <1>1, <2>1, <2>2
<1>3. ASSUME NEW i \in 1..Len(inbox[b]), inbox[b][i].kind = "EOS",
             Head(inbox[b]).kind # "EOS"
      PROVE  EosIn(b)'
  <2>1. i - 1 \in 1..Len(inbox'[b]) /\ inbox'[b][i - 1] = inbox[b][i]
    BY <1>1, <1>3
  <2>2. QED
    BY <1>3, <2>1 DEF EosIn
<1>4. QED
  BY <1>2, <1>3 DEF EosIn

\* What an operator or the client sends: messages to d, of which at most the
\* last one is an EOS.
Sending(d, extra) ==
    /\ extra \in Seq(UserMessage) /\ mailbox' = mailbox \o extra
    /\ \A i \in 1..Len(extra) :
          extra[i].to = d /\ (extra[i].kind = "EOS" => i = Len(extra))

LEMMA SendingFacts ==
  ASSUME mailbox \in Seq(UserMessage), NEW d, NEW extra, Sending(d, extra)
  PROVE  /\ mailbox' \in Seq(UserMessage)
         /\ Len(mailbox) \in Nat /\ Len(extra) \in Nat
         /\ Len(mailbox') = Len(mailbox) + Len(extra)
         /\ \A k \in 1..Len(mailbox) : mailbox'[k] = mailbox[k] /\ k \in 1..Len(mailbox')
         /\ \A k \in 1..Len(mailbox') : k > Len(mailbox) =>
               /\ k - Len(mailbox) \in 1..Len(extra)
               /\ mailbox'[k] = extra[k - Len(mailbox)]
               /\ mailbox'[k].to = d
               /\ mailbox'[k].kind = "EOS" => k = Len(mailbox')
<1>1. /\ mailbox' \in Seq(UserMessage) /\ Len(mailbox) \in Nat /\ Len(extra) \in Nat
      /\ Len(mailbox') = Len(mailbox) + Len(extra)
      /\ \A k \in 1..Len(mailbox') :
            mailbox'[k] = IF k <= Len(mailbox) THEN mailbox[k] ELSE extra[k - Len(mailbox)]
  BY DEF Sending
<1>2. \A k \in 1..Len(mailbox) : mailbox'[k] = mailbox[k] /\ k \in 1..Len(mailbox')
  BY <1>1
<1>3. ASSUME NEW k \in 1..Len(mailbox'), k > Len(mailbox)
      PROVE  /\ k - Len(mailbox) \in 1..Len(extra)
             /\ mailbox'[k] = extra[k - Len(mailbox)]
             /\ mailbox'[k].to = d
             /\ mailbox'[k].kind = "EOS" => k = Len(mailbox')
  <2>1. k - Len(mailbox) \in 1..Len(extra) /\ mailbox'[k] = extra[k - Len(mailbox)]
    BY <1>1, <1>3
  <2>2. QED
    BY <1>1, <2>1 DEF Sending
<1>4. QED
  BY <1>1, <1>2, <1>3

\* Sending to an operator that has not been sent its EOS keeps EOS last, and an
\* EOS is new only where it was sent.
LEMMA SendingKeeps ==
  ASSUME mailbox \in Seq(UserMessage), NEW d, NEW extra, Sending(d, extra),
         EosIsLast, \A b \in Addr : Shorter(b),
         extra = <<>> \/ (d \in Addr /\ ~EosIn(d))
  PROVE  /\ EosIsLast'
         /\ \A b \in Addr : EosIn(b)' =>
               \/ EosIn(b)
               \/ b = d /\ \E i \in 1..Len(extra) : extra[i].kind = "EOS"
<1>1. /\ Len(mailbox) \in Nat /\ Len(extra) \in Nat
      /\ Len(mailbox') = Len(mailbox) + Len(extra)
      /\ \A k \in 1..Len(mailbox) : mailbox'[k] = mailbox[k] /\ k \in 1..Len(mailbox')
      /\ \A k \in 1..Len(mailbox') : k > Len(mailbox) =>
            /\ k - Len(mailbox) \in 1..Len(extra)
            /\ mailbox'[k] = extra[k - Len(mailbox)]
            /\ mailbox'[k].to = d
            /\ mailbox'[k].kind = "EOS" => k = Len(mailbox')
  BY SendingFacts
<1>2. \A k \in 1..Len(mailbox') : k > Len(mailbox) => d \in Addr /\ ~EosIn(d)
  BY <1>1
<1>3. ASSUME NEW a \in Addr, NEW i \in 1..Len(inbox'[a]), inbox'[a][i].kind = "EOS"
      PROVE  /\ i = Len(inbox'[a]) /\ EosIn(a)
             /\ \A k \in 1..Len(mailbox') : mailbox'[k].to # a
  <2>1. PICK j \in 1..Len(inbox[a]) :
          inbox'[a][i] = inbox[a][j] /\ (i = Len(inbox'[a]) <=> j = Len(inbox[a]))
    BY DEF Shorter
  <2>2. EosIn(a) /\ j = Len(inbox[a]) /\ \A k \in 1..Len(mailbox) : mailbox[k].to # a
    BY <1>3, <2>1 DEF EosIn, EosIsLast
  <2>3. \A k \in 1..Len(mailbox') : mailbox'[k].to # a
    BY <1>1, <1>2, <2>2
  <2>4. QED
    BY <2>1, <2>2, <2>3
<1>4. ASSUME NEW k \in 1..Len(mailbox'), NEW l \in 1..Len(mailbox'), k < l,
             mailbox'[k].to = mailbox'[l].to
      PROVE  mailbox'[k].kind # "EOS"
  <2>1. CASE l <= Len(mailbox)
    BY <1>1, <1>4, <2>1 DEF EosIsLast
  <2>2. CASE k <= Len(mailbox) /\ l > Len(mailbox)
    <3>1. d \in Addr /\ ~EosIn(d) /\ mailbox'[l].to = d
      BY <1>1, <1>2, <2>2
    <3>2. k \in 1..Len(mailbox) /\ mailbox[k].to = d /\ mailbox'[k] = mailbox[k]
      BY <1>1, <1>4, <2>2, <3>1
    <3>3. QED
      BY <3>1, <3>2 DEF EosIn
  <2>3. CASE k > Len(mailbox)
    BY <1>1, <1>4, <2>3
  <2>4. QED
    BY <1>1, <2>1, <2>2, <2>3
<1>5. EosIsLast'
  BY <1>3, <1>4 DEF EosIsLast
<1>6. ASSUME NEW b \in Addr, EosIn(b)', ~EosIn(b)
      PROVE  b = d /\ \E i \in 1..Len(extra) : extra[i].kind = "EOS"
  <2>1. PICK k \in 1..Len(mailbox') : mailbox'[k].to = b /\ mailbox'[k].kind = "EOS"
    BY <1>3, <1>6 DEF EosIn
  <2>2. k > Len(mailbox)
    BY <1>1, <1>6, <2>1 DEF EosIn
  <2>3. QED
    BY <1>1, <2>1, <2>2
<1>7. QED
  BY <1>5, <1>6

-----------------------------------------------------------------------------
(* Steps that send nothing. *)

QInv == InScript /\ Tame /\ Relay

\* Steps that touch neither mailboxes nor what stops actors.
LEMMA RelayStutter ==
  ASSUME QInv, UNCHANGED <<query, sent, mailbox, inbox, terminating, dfTerminating,
                           numRcvEos>>,
         \A b \in Addr : tree'[b] = "disabled" => tree[b] = "disabled"
  PROVE  QInv'
BY DEF QInv, InScript, Script, Tame, Relay, EosIn, Ended, EosIsLast

\* Where an EOS is decides the rest, if nobody is told to stop.
LEMMA RelayMoved ==
  ASSUME QInv, UNCHANGED <<query, sent, terminating, dfTerminating, numRcvEos>>,
         mailbox' \in Seq(UserMessage), EosIsLast',
         \A b \in Addr : tree'[b] = "disabled" => tree[b] = "disabled",
         \A b \in Addr : EosIn(b)' => EosIn(b),
         \A b \in Addr : EosIn(b) => EosIn(b)' \/ terminating[b]
  PROVE  QInv'
<1>1. Script' = Script
  BY DEF Script
<1>2. \A b \in Addr : Ended(b)' <=> Ended(b)
  BY <1>1 DEF Ended
<1>3. InScript' /\ Tame'
  BY <1>1 DEF QInv, InScript, Tame
<1>4. Relay'
  BY <1>2 DEF QInv, Relay
<1>5. QED
  BY <1>3, <1>4 DEF QInv

\* The first message of the dataflow's mailbox.
LEMMA FirstMessage ==
  ASSUME Tame, Receiving
  PROVE  /\ Head(mailbox) = mailbox[1] /\ Head(mailbox) \in UserMessage
         /\ Head(mailbox).to \in Addr /\ Head(mailbox).type = "USER"
         /\ mailbox' \in Seq(UserMessage)
         /\ Len(mailbox) \in Nat /\ Len(mailbox) > 0 /\ Len(mailbox') = Len(mailbox) - 1
         /\ \A k \in 1..Len(mailbox') :
               k + 1 \in 1..Len(mailbox) /\ mailbox'[k] = mailbox[k + 1]
         /\ \A k \in 1..Len(mailbox) :
               k = 1 \/ (k - 1 \in 1..Len(mailbox') /\ mailbox'[k - 1] = mailbox[k])
<1>1. /\ mailbox \in Seq(UserMessage) /\ mailbox # <<>> /\ mailbox' = Tail(mailbox)
  BY DEF Tame, Receiving
<1>2. /\ Len(mailbox) \in Nat /\ Len(mailbox) > 0 /\ Len(mailbox') = Len(mailbox) - 1
      /\ mailbox' \in Seq(UserMessage)
      /\ Head(mailbox) = mailbox[1] /\ Head(mailbox) \in UserMessage
      /\ \A k \in 1..Len(mailbox') : mailbox'[k] = mailbox[k + 1]
  BY <1>1
<1>3. Head(mailbox).to \in Addr /\ Head(mailbox).type = "USER"
  BY <1>2 DEF UserMessage
<1>4. \A k \in 1..Len(mailbox') : k + 1 \in 1..Len(mailbox)
  BY <1>2
<1>5. ASSUME NEW k \in 1..Len(mailbox), k # 1
      PROVE  k - 1 \in 1..Len(mailbox') /\ mailbox'[k - 1] = mailbox[k]
  <2>1. k - 1 \in 1..Len(mailbox')
    BY <1>2, <1>5
  <2>2. mailbox'[k - 1] = mailbox[(k - 1) + 1]
    BY <1>2, <2>1
  <2>3. QED
    BY <2>1, <2>2
<1>6. \A k \in 1..Len(mailbox) :
         k = 1 \/ (k - 1 \in 1..Len(mailbox') /\ mailbox'[k - 1] = mailbox[k])
  BY <1>5
<1>7. \A k \in 1..Len(mailbox') :
         k + 1 \in 1..Len(mailbox) /\ mailbox'[k] = mailbox[k + 1]
  BY <1>2, <1>4
<1>8. QED
  BY <1>2, <1>3, <1>6, <1>7

\* The first message moves to the end of the mailbox of its actor.
LEMMA DeliverKeeps ==
  ASSUME Inv, QInv, Receiving, Deliver(Head(mailbox)),
         UNCHANGED <<query, sent, terminating, dfTerminating, numRcvEos>>,
         \A b \in Addr : tree'[b] = "disabled" => tree[b] = "disabled"
  PROVE  QInv'
<1> DEFINE m == Head(mailbox)
           a == m.to
<1>1. /\ m = mailbox[1] /\ m \in UserMessage /\ a \in Addr
      /\ mailbox' \in Seq(UserMessage)
      /\ Len(mailbox) \in Nat /\ Len(mailbox) > 0 /\ Len(mailbox') = Len(mailbox) - 1
      /\ \A k \in 1..Len(mailbox') :
            k + 1 \in 1..Len(mailbox) /\ mailbox'[k] = mailbox[k + 1]
      /\ \A k \in 1..Len(mailbox) :
            k = 1 \/ (k - 1 \in 1..Len(mailbox') /\ mailbox'[k - 1] = mailbox[k])
  BY FirstMessage DEF QInv
<1>2. /\ inbox[a] \in Seq(UserMessage) /\ inbox'[a] = Append(inbox[a], m)
      /\ \A b \in Addr : b # a => inbox'[b] = inbox[b]
  BY <1>1 DEF Inv, TypeOK, Deliver
<1> HIDE DEF m
<1>3. /\ Len(inbox[a]) \in Nat /\ Len(inbox'[a]) = Len(inbox[a]) + 1
      /\ \A i \in 1..Len(inbox[a]) :
            i \in 1..Len(inbox'[a]) /\ inbox'[a][i] = inbox[a][i]
      /\ inbox'[a][Len(inbox'[a])] = m /\ Len(inbox'[a]) \in 1..Len(inbox'[a])
      /\ \A i \in 1..Len(inbox'[a]) : i \in 1..Len(inbox[a]) \/ i = Len(inbox'[a])
  BY <1>1, <1>2
<1> HIDE DEF a
<1>4. EosIsLast
  BY DEF QInv, Relay
<1>5. 1 \in 1..Len(mailbox) /\ mailbox[1].to = a
  BY <1>1 DEF a
<1>6. \A i \in 1..Len(inbox[a]) : inbox[a][i].kind # "EOS"
  BY <1>1, <1>4, <1>5 DEF EosIsLast
<1>7. ASSUME NEW b \in Addr, NEW i \in 1..Len(inbox'[b]), inbox'[b][i].kind = "EOS"
      PROVE  /\ i = Len(inbox'[b]) /\ EosIn(b)
             /\ \A k \in 1..Len(mailbox') : mailbox'[k].to # b
  <2>1. CASE b = a
    <3>1. i = Len(inbox'[a]) /\ m.kind = "EOS"
      BY <1>3, <1>6, <1>7, <2>1
    <3>2. EosIn(a)
      BY <1>1, <1>5, <3>1 DEF EosIn
    <3>3. \A k \in 1..Len(mailbox) : k > 1 => mailbox[k].to # a
      BY <1>1, <1>4, <1>5, <3>1 DEF EosIsLast
    <3>4. \A k \in 1..Len(mailbox') : mailbox'[k].to # a
      BY <1>1, <3>3
    <3>5. QED
      BY <2>1, <3>1, <3>2, <3>4
  <2>2. CASE b # a
    <3>1. i \in 1..Len(inbox[b]) /\ inbox[b][i].kind = "EOS" /\ inbox'[b] = inbox[b]
      BY <1>2, <1>7, <2>2
    <3>2. /\ i = Len(inbox[b]) /\ EosIn(b)
          /\ \A k \in 1..Len(mailbox) : mailbox[k].to # b
      BY <1>4, <3>1 DEF EosIsLast, EosIn
    <3>3. \A k \in 1..Len(mailbox') : mailbox'[k].to # b
      BY <1>1, <3>2
    <3>4. QED
      BY <3>1, <3>2, <3>3
  <2>3. QED
    BY <2>1, <2>2
<1>8. ASSUME NEW k \in 1..Len(mailbox'), NEW l \in 1..Len(mailbox'), k < l,
             mailbox'[k].to = mailbox'[l].to
      PROVE  mailbox'[k].kind # "EOS"
  <2>1. k + 1 \in 1..Len(mailbox) /\ l + 1 \in 1..Len(mailbox) /\ k + 1 < l + 1
    BY <1>1, <1>8
  <2>2. mailbox[k + 1].to = mailbox[l + 1].to /\ mailbox'[k] = mailbox[k + 1]
    BY <1>1, <1>8
  <2>3. QED
    BY <1>4, <2>1, <2>2 DEF EosIsLast
<1>9. EosIsLast'
  BY <1>7, <1>8 DEF EosIsLast
<1>10. \A b \in Addr : EosIn(b)' => EosIn(b)
  BY <1>1, <1>7 DEF EosIn
<1>11. ASSUME NEW b \in Addr, EosIn(b)
       PROVE  EosIn(b)'
  <2>1. CASE \E i \in 1..Len(inbox[b]) : inbox[b][i].kind = "EOS"
    <3>1. b # a
      BY <1>6, <2>1
    <3>2. QED
      BY <1>2, <2>1, <3>1 DEF EosIn
  <2>2. ASSUME NEW k \in 1..Len(mailbox), mailbox[k].to = b, mailbox[k].kind = "EOS"
        PROVE  EosIn(b)'
    <3>1. CASE k = 1
      BY <1>1, <1>3, <1>5, <2>2, <3>1 DEF EosIn
    <3>2. CASE k # 1
      BY <1>1, <2>2, <3>2 DEF EosIn
    <3>3. QED
      BY <3>1, <3>2
  <2>3. QED
    BY <1>11, <2>1, <2>2 DEF EosIn
<1>12. QED
  BY <1>1, <1>9, <1>10, <1>11, RelayMoved

\* A message to a disabled address is dropped; its operator has been told to stop.
LEMMA DropKeeps ==
  ASSUME Inv, QInv, UserToDisabled, UNCHANGED <<query, sent>>
  PROVE  QInv'
<1> DEFINE a == Head(mailbox).to
<1>1. Receiving /\ UNCHANGED <<terminating, dfTerminating, numRcvEos, tree, inbox>>
  BY DEF UserToDisabled, stopVars, dfVars, opVars
<1>2. /\ Head(mailbox) = mailbox[1] /\ a \in Addr
      /\ mailbox' \in Seq(UserMessage)
      /\ Len(mailbox) \in Nat /\ Len(mailbox) > 0 /\ Len(mailbox') = Len(mailbox) - 1
      /\ \A k \in 1..Len(mailbox') :
            k + 1 \in 1..Len(mailbox) /\ mailbox'[k] = mailbox[k + 1]
      /\ \A k \in 1..Len(mailbox) :
            k = 1 \/ (k - 1 \in 1..Len(mailbox') /\ mailbox'[k - 1] = mailbox[k])
  BY <1>1, FirstMessage DEF QInv
<1>3. terminating[a]
  BY <1>2 DEF UserToDisabled, Lookup, Inv, TypeOK, QInv, Tame
<1>4. mailbox[1].to = a
  BY <1>2
<1> HIDE DEF a
<1>5. EosIsLast
  BY DEF QInv, Relay
<1>6. ASSUME NEW k \in 1..Len(mailbox'), NEW l \in 1..Len(mailbox'), k < l,
             mailbox'[k].to = mailbox'[l].to
      PROVE  mailbox'[k].kind # "EOS"
  <2>1. k + 1 \in 1..Len(mailbox) /\ l + 1 \in 1..Len(mailbox)
    BY <1>2, <1>6
  <2>2. k + 1 < l + 1
    BY <1>2, <1>6
  <2>3. mailbox[k + 1].to = mailbox[l + 1].to /\ mailbox'[k] = mailbox[k + 1]
    BY <1>2, <1>6
  <2>4. QED
    BY <1>5, <2>1, <2>2, <2>3 DEF EosIsLast
<1>7. ASSUME NEW b \in Addr, NEW i \in 1..Len(inbox[b]), inbox[b][i].kind = "EOS"
      PROVE  i = Len(inbox[b]) /\ \A k \in 1..Len(mailbox') : mailbox'[k].to # b
  <2>1. i = Len(inbox[b]) /\ \A k \in 1..Len(mailbox) : mailbox[k].to # b
    BY <1>5, <1>7 DEF EosIsLast
  <2>2. QED
    BY <1>2, <2>1
<1>8. EosIsLast'
  BY <1>1, <1>6, <1>7 DEF EosIsLast
<1>9. \A b \in Addr : EosIn(b)' => EosIn(b)
  BY <1>1, <1>2 DEF EosIn
<1>10. \A b \in Addr : EosIn(b) => EosIn(b)' \/ b = a
  BY <1>1, <1>2, <1>4 DEF EosIn
<1>11. QED
  BY <1>1, <1>2, <1>3, <1>8, <1>9, <1>10, RelayMoved

-----------------------------------------------------------------------------
(* An operator at work. *)

\* What a turn does to mailboxes, stops and the index.
LEMMA TurnFacts ==
  ASSUME Inv, NEW a \in Addr, Working(a), CancelMe(a) \/ Available(a)
  PROVE  /\ inbox[a] \in Seq(UserMessage) /\ inbox[a] # <<>>
         /\ ~terminating[a] /\ tree[a] = "live"
         /\ \A b \in Addr : b # a =>
               /\ inbox'[b] = inbox[b]
               /\ terminating'[b] = terminating[b]
               /\ tree'[b] = "disabled" => tree[b] = "disabled"
         /\ CancelMe(a) => terminating'[a] = TRUE /\ inbox'[a] = <<>>
         /\ Available(a) => /\ terminating' = terminating /\ tree' = tree
                            /\ inbox'[a] = Tail(inbox[a])
<1>1. TypeOK /\ inbox[a] # <<>> /\ tree[a] = "live" /\ ~terminating[a]
  BY DEF Inv, Consistent, IndexSound, NoLostWakeUp, Working
<1>2. /\ Popped(a) \in [Addr -> Seq(UserMessage)]
      /\ Popped(a)[a] = Tail(inbox[a]) /\ \A b \in Addr : b # a => Popped(a)[b] = inbox[b]
  BY <1>1 DEF TypeOK, Popped
<1>3. inbox[a] \in Seq(UserMessage)
  BY <1>1 DEF TypeOK
<1>4. CASE Available(a)
  <2>1. /\ inbox' = Popped(a) /\ terminating' = terminating /\ tree' = tree
    BY <1>4 DEF Available, stopVars
  <2>2. CancelMe(a) => FALSE
    <3>1. CancelMe(a) => numTerminating' = numTerminating + 1
      BY <1>1 DEF CancelMe, HandleChildTermination, Lookup
    <3>2. numTerminating' = numTerminating /\ numTerminating \in Nat
      BY <1>1, <1>4 DEF Available, stopVars, TypeOK
    <3>3. QED
      BY <3>1, <3>2
  <2>3. QED
    BY <1>1, <1>2, <1>3, <2>1, <2>2
<1>5. CASE CancelMe(a)
  <2>1. StopActors({a}, Popped(a)) /\ tree' = Disable({a}) /\ {a} \in SUBSET Addr
    BY <1>1, <1>5 DEF CancelMe, HandleChildTermination, Lookup
  <2>2. \A c \in Addr :
           /\ terminating'[c] = IF c \in {a} THEN TRUE ELSE terminating[c]
           /\ inbox'[c] = IF c \in {a} /\ ~terminating[c] THEN <<>> ELSE Popped(a)[c]
           /\ isActive'[c] = IF c \in {a} /\ ~terminating[c] THEN TRUE ELSE isActive[c]
    BY <1>1, <1>2, <2>1, StopActorsFacts, Zenon
  <2>3. /\ terminating'[a] = TRUE /\ inbox'[a] = <<>>
        /\ \A b \in Addr : b # a =>
              inbox'[b] = inbox[b] /\ terminating'[b] = terminating[b]
    <3>1. terminating'[a] = TRUE /\ inbox'[a] = <<>>
      BY <1>1, <2>2, Zenon
    <3>2. \A b \in Addr : b # a =>
              inbox'[b] = Popped(a)[b] /\ terminating'[b] = terminating[b]
      BY <2>2, Zenon
    <3>3. QED
      BY <1>2, <3>1, <3>2, Zenon
  <2>4. \A b \in Addr : b # a => (tree'[b] = "disabled" => tree[b] = "disabled")
    BY <1>1, <2>1 DEF Disable, TypeOK
  <2>5. Available(a) => FALSE
    <3>1. numTerminating' = numTerminating + 1
      BY <1>1, <1>5 DEF CancelMe, HandleChildTermination, Lookup
    <3>2. Available(a) => numTerminating' = numTerminating
      BY DEF Available, stopVars
    <3>3. numTerminating \in Nat
      BY <1>1 DEF TypeOK
    <3>4. QED
      BY <3>1, <3>2, <3>3
  <2>6. QED
    BY <1>1, <1>3, <2>3, <2>4, <2>5, Zenon
<1>6. QED
  BY <1>4, <1>5

\* An operator that works sends to its downstream, which has not been sent its
\* EOS; it sends that EOS in the turn in which it asks to be terminated.
LEMMA WorkKeeps ==
  ASSUME Inv, QInv, UNCHANGED <<query, sent, dfTerminating>>,
         NEW a \in Addr, Working(a), CancelMe(a) \/ Available(a),
         NEW extra, Sending(Downstream[a], extra), OpCode[a] = "LIMIT" => extra = <<>>,
         CancelMe(a) /\ OpCode[a] = "OUT" =>
            \E i \in 1..Len(extra) : extra[i].kind = "EOS",
         (\E i \in 1..Len(extra) : extra[i].kind = "EOS") => CancelMe(a),
         CancelMe(a) \/ Head(inbox[a]).kind # "EOS",
         \A b \in Addr : numRcvEos'[b] # numRcvEos[b] => b = a /\ CancelMe(a)
  PROVE  QInv'
<1> DEFINE d == Downstream[a]
           EosSent == \E i \in 1..Len(extra) : extra[i].kind = "EOS"
<1>1. /\ inbox[a] \in Seq(UserMessage) /\ inbox[a] # <<>>
      /\ ~terminating[a] /\ tree[a] = "live"
      /\ \A b \in Addr : b # a =>
            /\ inbox'[b] = inbox[b]
            /\ terminating'[b] = terminating[b]
            /\ tree'[b] = "disabled" => tree[b] = "disabled"
      /\ CancelMe(a) => terminating'[a] = TRUE /\ inbox'[a] = <<>>
      /\ Available(a) => /\ terminating' = terminating /\ tree' = tree
                         /\ inbox'[a] = Tail(inbox[a])
  BY TurnFacts
<1>2. \A b \in Addr : terminating[b] => terminating'[b]
  BY <1>1
<1>3. /\ mailbox \in Seq(UserMessage) /\ ~dfTerminating /\ EosIsLast
      /\ \A b \in Addr : EosIn(b) => Ended(b)
      /\ \A b \in Addr : Ended(b) => EosIn(b) \/ terminating[b]
  BY DEF QInv, Tame, Relay
<1>4. OpCode[a] \in {"OUT", "LIMIT"}
  BY PlanAssumption
<1>5. OpCode[a] = "OUT" => d \in Addr /\ d # First /\ ~EosIn(d)
  BY <1>1, <1>3, ChainFacts DEF Ended
<1>6. /\ mailbox' \in Seq(UserMessage)
      /\ \A k \in 1..Len(mailbox) : mailbox'[k] = mailbox[k] /\ k \in 1..Len(mailbox')
      /\ Len(mailbox') = Len(mailbox) + Len(extra)
      /\ Len(mailbox) \in Nat /\ Len(extra) \in Nat
  BY <1>3, SendingFacts
<1>7. \A b \in Addr : Shorter(b)
  <2>1. ASSUME NEW b \in Addr, inbox'[b] = inbox[b] \/ inbox'[b] = <<>>
        PROVE  Shorter(b)
    <3>1. inbox[b] \in Seq(UserMessage)
      BY DEF Inv, TypeOK
    <3>2. CASE inbox'[b] = <<>>
      BY <3>2 DEF Shorter
    <3>3. CASE inbox'[b] = inbox[b]
      BY <3>1, <3>3 DEF Shorter
    <3>4. QED
      BY <2>1, <3>2, <3>3
  <2>2. Available(a) => Shorter(a)
    BY <1>1, TailShorter
  <2>3. QED
    BY <1>1, <2>1, <2>2
<1>8. /\ EosIsLast'
      /\ \A b \in Addr : EosIn(b)' => EosIn(b) \/ (b = d /\ EosSent)
  <2>1. extra = <<>> \/ (d \in Addr /\ ~EosIn(d))
    BY <1>4, <1>5
  <2>2. QED
    BY <1>3, <1>7, <2>1, SendingKeeps
<1>9. Script' = Script
  BY DEF Script
<1>10. EosSent => OpCode[a] = "OUT" /\ terminating'[a]
  BY <1>1, <1>4
<1>11. \A b \in Addr : Ended(b) => Ended(b)'
  BY <1>2, <1>9 DEF Ended
<1>12. ASSUME NEW b \in Addr, EosIn(b)'
       PROVE  Ended(b)'
  <2>1. CASE EosIn(b)
    BY <1>3, <1>11, <2>1
  <2>2. CASE b = d /\ EosSent
    <3>1. b # First /\ terminating'[a] /\ \A c \in Addr : Downstream[c] = b => c = a
      BY <1>5, <1>10, <2>2, ChainFacts
    <3>2. QED
      BY <3>1 DEF Ended
  <2>3. QED
    BY <1>8, <1>12, <2>1, <2>2
<1>13. EosSent => EosIn(d)'
  <2> SUFFICES ASSUME NEW i \in 1..Len(extra), extra[i].kind = "EOS"
               PROVE  EosIn(d)'
    OBVIOUS
  <2>1. mailbox'[Len(mailbox) + i] = extra[i] /\ Len(mailbox) + i \in 1..Len(mailbox')
    BY <1>3, <1>6 DEF Sending
  <2>2. extra[i].to = d
    BY DEF Sending
  <2>3. QED
    BY <2>1, <2>2 DEF EosIn
<1>14. ASSUME NEW b \in Addr, Ended(b)'
       PROVE  EosIn(b)' \/ terminating'[b]
  <2>1. CASE Ended(b) /\ terminating[b]
    BY <1>2, <2>1
  <2>2. CASE EosIn(b) /\ b # a
    BY <1>1, <1>6, <2>2 DEF EosIn
  <2>3. CASE EosIn(b) /\ b = a
    <3>1. CASE CancelMe(a)
      BY <1>1, <2>3, <3>1
    <3>2. CASE ~CancelMe(a)
      <4>1. inbox'[a] = Tail(inbox[a]) /\ Head(inbox[a]).kind # "EOS"
        BY <1>1, <3>2
      <4>2. \A k \in 1..Len(mailbox) : \E l \in 1..Len(mailbox') : mailbox'[l] = mailbox[k]
        BY <1>6
      <4>3. QED
        BY <1>1, <2>3, <4>1, <4>2, TailShorter
    <3>3. QED
      BY <3>1, <3>2
  <2>4. CASE ~Ended(b)
    <3>1. PICK c \in Addr : Downstream[c] = b /\ ~terminating[c] /\ terminating'[c]
      BY <1>9, <1>14, <2>4 DEF Ended
    <3>2. c = a /\ CancelMe(a)
      BY <1>1, <3>1
    <3>3. OpCode[a] = "OUT"
      BY <1>4, <3>1, <3>2, ChainFacts, PlanAssumption
    <3>4. QED
      BY <1>13, <3>1, <3>2, <3>3
  <2>5. QED
    BY <1>3, <2>1, <2>2, <2>3, <2>4
<1>15. Relay'
  BY <1>8, <1>12, <1>14 DEF Relay
<1>16. ASSUME NEW b \in Addr
       PROVE  /\ tree'[b] = "disabled" => terminating'[b]
              /\ numRcvEos'[b] # 0 => terminating'[b]
  <2>1. /\ tree[b] = "disabled" => terminating[b]
        /\ numRcvEos[b] # 0 => terminating[b]
    BY DEF QInv, Tame
  <2>2. QED
    BY <1>1, <1>2, <2>1
<1>17. Tame' /\ InScript'
  BY <1>3, <1>6, <1>9, <1>16 DEF Tame, InScript, QInv
<1>18. QED
  BY <1>15, <1>17 DEF QInv

\* What an OUT sends are data, and EOS last of all.
LEMMA OutSends ==
  ASSUME Inv, NEW d \in Addr, NEW all \in Seq(Node), NEW rest \in Seq(Node)
  PROVE  /\ Flushed(d, all) \in Seq(UserMessage)
         /\ \A i \in 1..Len(Flushed(d, all)) :
               Flushed(d, all)[i].to = d /\ Flushed(d, all)[i].kind # "EOS"
         /\ Farewell(d, rest) \in Seq(UserMessage) /\ Len(Farewell(d, rest)) = 2
         /\ \A i \in 1..2 : /\ Farewell(d, rest)[i].to = d
                            /\ Farewell(d, rest)[i].kind = "EOS" <=> i = 2
<1>1. /\ \A nodes : /\ DataMessage(d, nodes).to = d
                    /\ DataMessage(d, nodes).kind # "EOS"
      /\ EosMessage(d).to = d /\ EosMessage(d).kind = "EOS"
  BY DEF DataMessage, EosMessage
<1>2. /\ DataMessage(d, rest) \in UserMessage /\ EosMessage(d) \in UserMessage
  <2>1. <<>> \in Seq(Node)
    OBVIOUS
  <2>2. QED
    BY <2>1 DEF DataMessage, EosMessage, UserMessage, Kind
<1>3. /\ Farewell(d, rest) = <<DataMessage(d, rest), EosMessage(d)>>
  BY DEF Farewell
<1>4. /\ Farewell(d, rest) \in Seq(UserMessage) /\ Len(Farewell(d, rest)) = 2
      /\ Farewell(d, rest)[1] = DataMessage(d, rest)
      /\ Farewell(d, rest)[2] = EosMessage(d)
  BY <1>2, <1>3
<1>5. \A i \in 1..2 : /\ Farewell(d, rest)[i].to = d
                      /\ Farewell(d, rest)[i].kind = "EOS" <=> i = 2
  BY <1>1, <1>4
<1>6. Flushed(d, all) \in Seq(UserMessage)
  BY FlushType
<1>7. ASSUME NEW i \in 1..Len(Flushed(d, all))
      PROVE  Flushed(d, all)[i].to = d /\ Flushed(d, all)[i].kind # "EOS"
  <2>1. i \in 1..(Len(all) \div MaxPayload)
    <3>1. MaxPayload \in Nat /\ MaxPayload > 0 /\ Len(all) \in Nat
      BY NumberAssumption
    <3>2. Len(all) \div MaxPayload \in Nat
      BY <3>1, DivisionFacts
    <3> DEFINE q == Len(all) \div MaxPayload
    <3>3. Len(Flushed(d, all)) = q
      BY <3>2 DEF Flushed
    <3>4. QED
      BY <3>3
  <2>2. QED
    BY <1>1, <2>1 DEF Flushed
<1>8. QED
  BY <1>4, <1>5, <1>6, <1>7

LEMMA DoWorkKeeps ==
  ASSUME Inv, DoneOperatorsStop, QInv, UNCHANGED <<query, sent>>, NEW a \in Addr, DoWork(a)
  PROVE  QInv'
<1>1. Working(a) /\ (CancelMe(a) \/ Available(a))
  BY DEF DoWork, OutData, OutLastEos, LimitDiscard, LimitData, LimitLastEos, EarlierEos,
         UndefinedData
<1>2. /\ UNCHANGED <<query, sent, dfTerminating>> /\ inbox[a] # <<>>
  BY <1>1 DEF Working, dfVars
<1>3. /\ inbox[a] \in Seq(UserMessage) /\ ~terminating[a]
      /\ CancelMe(a) => terminating'[a] = TRUE
      /\ Available(a) => terminating' = terminating
  BY <1>1, TurnFacts
<1>4. Available(a) => ~CancelMe(a)
  BY <1>3
<1>5. /\ mailbox \in Seq(UserMessage) /\ numRcvEos[a] = 0
      /\ numRcvEos \in [Addr -> Nat] /\ outPayload[a] \in Seq(Node)
      /\ Head(inbox[a]).data \in Seq(Node)
  BY <1>1, <1>3, WorkingType DEF QInv, Tame, Inv, TypeOK
<1>6. /\ NumUpstreams = 1
      /\ OpCode[a] = "LIMIT" => Downstream[a] = NoAddr /\ LimitCount[a] > 0
      /\ OpCode[a] = "OUT" => Downstream[a] \in Addr
      /\ OpCode[a] \in {"OUT", "LIMIT"}
  BY PipelineAssumption, PlanAssumption, ChainFacts
<1>7. ASSUME mailbox' = mailbox
      PROVE  Sending(Downstream[a], <<>>)
  BY <1>5, <1>7 DEF Sending
<1>8. CASE OutData(a)
  <2> DEFINE all == outPayload[a] \o Expand(Head(inbox[a]).data)
             extra == Flushed(Downstream[a], all)
  <2>1. /\ mailbox' = mailbox \o extra /\ Available(a) /\ OpCode[a] = "OUT"
        /\ Head(inbox[a]).kind # "EOS" /\ UNCHANGED numRcvEos
    BY <1>8 DEF OutData
  <2>2. all \in Seq(Node)
    BY <1>5, ExpandType
  <2> HIDE DEF all
  <2>3. /\ extra \in Seq(UserMessage)
        /\ \A i \in 1..Len(extra) : extra[i].to = Downstream[a] /\ extra[i].kind # "EOS"
    BY <1>6, <2>1, <2>2, OutSends
  <2> HIDE DEF extra
  <2>4. Sending(Downstream[a], extra)
    BY <2>1, <2>3 DEF Sending
  <2>5. QED
    BY <1>1, <1>2, <1>4, <2>1, <2>3, <2>4, WorkKeeps
<1>9. CASE OutLastEos(a)
  <2> DEFINE extra == Farewell(Downstream[a], outPayload[a])
  <2>1. /\ mailbox' = mailbox \o extra /\ CancelMe(a) /\ OpCode[a] = "OUT"
        /\ numRcvEos' = [numRcvEos EXCEPT ![a] = @ + 1]
    BY <1>9 DEF OutLastEos
  <2>2. /\ extra \in Seq(UserMessage) /\ Len(extra) = 2
        /\ \A i \in 1..2 : extra[i].to = Downstream[a] /\ (extra[i].kind = "EOS" <=> i = 2)
    BY <1>5, <1>6, <2>1, OutSends
  <2> HIDE DEF extra
  <2>3. Sending(Downstream[a], extra)
    BY <2>1, <2>2 DEF Sending
  <2>4. \E i \in 1..Len(extra) : extra[i].kind = "EOS"
    BY <2>2
  <2>5. \A b \in Addr : numRcvEos'[b] # numRcvEos[b] => b = a
    BY <1>5, <2>1
  <2>6. QED
    BY <1>1, <1>2, <2>1, <2>3, <2>4, <2>5, WorkKeeps
<1>10. CASE LimitDiscard(a)
  <2>1. OpCode[a] = "LIMIT" /\ ~LimitOpen(a)
    BY <1>10 DEF LimitDiscard
  <2>2. curCnt[a] > 0
    <3>1. curCnt[a] \in Nat /\ LimitCount[a] \in Nat
      BY NumberAssumption DEF Inv, TypeOK
    <3>2. QED
      BY <1>6, <2>1, <3>1 DEF LimitOpen
  <2>3. QED
    BY <1>3, <2>1, <2>2 DEF DoneOperatorsStop
<1>11. CASE LimitData(a)
  <2>1. /\ mailbox' = mailbox /\ OpCode[a] = "LIMIT" /\ Head(inbox[a]).kind # "EOS"
        /\ UNCHANGED numRcvEos
    BY <1>11 DEF LimitData
  <2>2. QED
    BY <1>1, <1>2, <1>7, <2>1, WorkKeeps
<1>12. CASE LimitLastEos(a)
  <2>1. /\ mailbox' = mailbox /\ OpCode[a] = "LIMIT" /\ CancelMe(a)
        /\ numRcvEos' = [numRcvEos EXCEPT ![a] = @ + 1]
    BY <1>12 DEF LimitLastEos
  <2>2. \A b \in Addr : numRcvEos'[b] # numRcvEos[b] => b = a
    BY <1>5, <2>1
  <2>3. QED
    BY <1>1, <1>2, <1>7, <2>1, <2>2, WorkKeeps
<1>13. CASE EarlierEos(a)
  BY <1>5, <1>6, <1>13 DEF EarlierEos, LastEos
<1>14. CASE UndefinedData(a)
  <2>1. /\ mailbox' = mailbox /\ Available(a) /\ Head(inbox[a]).kind # "EOS"
        /\ UNCHANGED numRcvEos
    BY <1>14 DEF UndefinedData, opVars
  <2>2. QED
    BY <1>1, <1>2, <1>4, <1>7, <2>1, WorkKeeps
<1>15. QED
  BY <1>8, <1>9, <1>10, <1>11, <1>12, <1>13, <1>14 DEF DoWork

-----------------------------------------------------------------------------
(* The theorems. *)

LEMMA QueryStep ==
  ASSUME Inv, DoneOperatorsStop, QInv, [ClientNext]_cvars
  PROVE  QInv'
<1>1. CASE UNCHANGED cvars
  BY <1>1, RelayStutter DEF cvars, vars, dfVars, actorVars, opVars
<1>2. CASE ClientEnqueue
  <2> DEFINE m == Script[sent + 1]
             extra == <<m>>
  <2>1. /\ query \in Queries /\ sent \in Nat /\ sent + 1 \in 1..Len(Script)
        /\ Len(Script) \in Nat /\ Script' = Script
    BY <1>2, ScriptFacts DEF ClientEnqueue, QInv, InScript, Script
  <2>2. m \in UserMessage /\ m.to = First /\ (m.kind = "EOS" <=> sent + 1 = Len(Script))
    BY <2>1, ScriptFacts
  <2>3. /\ mailbox' = Append(mailbox, m) /\ sent' = sent + 1
        /\ UNCHANGED <<query, tree, inbox, terminating, dfTerminating, numRcvEos>>
    BY <1>2 DEF ClientEnqueue, HostEnqueue, stopVars, dfVars, opVars
  <2> HIDE DEF m
  <2>4. /\ mailbox \in Seq(UserMessage) /\ EosIsLast
        /\ \A b \in Addr : EosIn(b) => Ended(b)
        /\ \A b \in Addr : Ended(b) => EosIn(b) \/ terminating[b]
    BY DEF QInv, Tame, Relay
  <2>5. /\ extra \in Seq(UserMessage) /\ Len(extra) = 1 /\ extra[1] = m
        /\ mailbox' = mailbox \o extra
    BY <2>2, <2>3, <2>4, AppendIsConcat
  <2> HIDE DEF extra
  <2>6. Sending(First, extra)
    BY <2>2, <2>5 DEF Sending
  <2>7. First \in Addr /\ \A a \in Addr : Downstream[a] # First
    BY ChainFacts, PlanAssumption
  <2>8. ~Ended(First) /\ ~EosIn(First)
    BY <2>1, <2>4, <2>7 DEF Ended
  <2>9. \A b \in Addr : Shorter(b)
    BY <2>3 DEF Shorter, Inv, TypeOK
  <2>10. /\ EosIsLast'
         /\ \A b \in Addr : EosIn(b)' => EosIn(b) \/ (b = First /\ m.kind = "EOS")
    <3>1. /\ EosIsLast'
          /\ \A b \in Addr : EosIn(b)' =>
                \/ EosIn(b)
                \/ b = First /\ \E i \in 1..Len(extra) : extra[i].kind = "EOS"
      BY <2>4, <2>6, <2>7, <2>8, <2>9, SendingKeeps
    <3>2. QED
      BY <2>5, <3>1
  <2>11. /\ mailbox' \in Seq(UserMessage)
         /\ \A k \in 1..Len(mailbox) : mailbox'[k] = mailbox[k] /\ k \in 1..Len(mailbox')
         /\ Len(mailbox') \in 1..Len(mailbox') /\ mailbox'[Len(mailbox')] = m
    BY <2>2, <2>3, <2>4
  <2>12. ASSUME NEW b \in Addr, b # First
         PROVE  Ended(b)' <=> Ended(b)
    BY <2>3, <2>12 DEF Ended
  <2>13. Ended(First)' <=> sent + 1 = Len(Script)
    BY <2>1, <2>3, <2>7 DEF Ended
  <2>14. \A b \in Addr : EosIn(b)' => Ended(b)'
    BY <2>2, <2>4, <2>8, <2>10, <2>12, <2>13
  <2>15. ASSUME NEW b \in Addr, Ended(b)'
         PROVE  EosIn(b)' \/ terminating'[b]
    <3>1. CASE b = First
      BY <2>2, <2>11, <2>13, <2>15, <3>1 DEF EosIn
    <3>2. CASE b # First
      BY <2>3, <2>4, <2>11, <2>12, <2>15, <3>2 DEF EosIn
    <3>3. QED
      BY <3>1, <3>2
  <2>16. InScript' /\ Tame'
    BY <2>1, <2>3, <2>11 DEF QInv, InScript, Tame
  <2>17. QED
    BY <2>10, <2>14, <2>15, <2>16 DEF QInv, Relay
<1>3. CASE ClientRun
  BY <1>3, RelayStutter DEF ClientRun, RunAndDispose, stopVars, dfVars, opVars
<1>4. CASE Engine /\ UNCHANGED <<query, answer, sent>>
  <2>1. CASE TaskLoop \/ MailboxEmpty
    BY <1>4, <2>1, RelayStutter DEF TaskLoop, RunTask, TasksExpired, TasksDone,
       MailboxEmpty, stopVars, dfVars, actorVars, opVars
  <2>2. CASE UserToLive
    BY <1>4, <2>2, DeliverKeeps DEF UserToLive, dfVars, opVars
  <2>3. CASE UserToAbsent
    <3>1. Receiving /\ Deliver(Head(mailbox)) /\ Head(mailbox).to \in Addr
      BY <2>3, FirstMessage DEF UserToAbsent, QInv
    <3>2. \A b \in Addr : tree'[b] = "disabled" => tree[b] = "disabled"
      BY <2>3, <3>1 DEF UserToAbsent, Inv, TypeOK
    <3>3. UNCHANGED <<query, sent, terminating, dfTerminating, numRcvEos>>
      BY <1>4, <2>3 DEF UserToAbsent, dfVars, opVars
    <3>4. QED
      BY <3>1, <3>2, <3>3, DeliverKeeps
  <2>4. CASE UserToDisabled
    BY <1>4, <2>4, DropKeeps
  <2>5. CASE CancelScope \/ DropControl
    BY <2>5, FirstMessage DEF CancelScope, DropControl, QInv
  <2>6. ASSUME NEW a \in Addr, DoWork(a)
        PROVE  QInv'
    BY <1>4, <2>6, DoWorkKeeps
  <2>7. ASSUME NEW a \in Addr, Terminated(a) \/ Yield(a)
        PROVE  QInv'
    BY <1>4, <2>7, RelayStutter DEF Terminated, Yield, LeaveLoop, dfVars, opVars
  <2>8. QED
    BY <1>4, <2>1, <2>2, <2>3, <2>4, <2>5, <2>6, <2>7
       DEF Engine, ProcessMailbox, ActorRun
<1>5. QED
  BY <1>1, <1>2, <1>3, <1>4 DEF ClientNext, Client

LEMMA QueryInitially == ClientInit => QInv
<1> SUFFICES ASSUME ClientInit PROVE QInv
  OBVIOUS
<1>1. InScript /\ Init /\ sent = 0
  BY ClientInitially DEF ClientInit
<1>2. Len(Script) > 0
  BY <1>1, ScriptFacts DEF InScript
<1>3. /\ mailbox = <<>> /\ Len(mailbox) = 0 /\ ~dfTerminating
      /\ \A a \in Addr : /\ inbox[a] = <<>> /\ Len(inbox[a]) = 0 /\ ~terminating[a]
                         /\ tree[a] = "absent" /\ numRcvEos[a] = 0
  BY <1>1 DEF Init
<1>4. \A b \in Addr : ~EosIn(b)
  BY <1>3 DEF EosIn
<1>5. Tame /\ EosIsLast
  BY <1>3 DEF Tame, EosIsLast
<1>6. ASSUME NEW b \in Addr
      PROVE  ~Ended(b)
  <2>1. CASE b = First
    BY <1>1, <1>2, <2>1 DEF Ended
  <2>2. CASE b # First
    <3> DEFINE n == Len(Pipeline)
    <3>1. /\ n \in Nat /\ \A i \in 1..n : Pipeline[i] \in Addr
          /\ First = Pipeline[1]
      BY PipelineAssumption DEF First
    <3>2. PICK i \in 1..n : b = Pipeline[i]
      BY PipelineAssumption DEF ToSet
    <3>3. i - 1 \in 1..n /\ (i - 1) + 1 = i /\ i - 1 # n
      BY <2>2, <3>1, <3>2
    <3>4. Downstream[Pipeline[i - 1]] = b
      BY <3>2, <3>3, PipelineAssumption
    <3>5. QED
      BY <1>3, <3>1, <3>3, <3>4 DEF Ended
  <2>3. QED
    BY <2>1, <2>2
<1>7. QED
  BY <1>1, <1>4, <1>5, <1>6 DEF QInv, Relay

THEOREM QueryInvariance == ClientSpec => [](QInv /\ Inv /\ QuietWhenIdle)
<1>1. Inv /\ DoneOperatorsStop /\ QInv /\ [ClientNext]_cvars => QInv'
  BY QueryStep
<1>2. ClientSpec => [](Inv /\ DoneOperatorsStop /\ QuietWhenIdle)
  BY ClientIsHost, Invariance, DoneOperatorsAreStopped, RunsEndQuiet, PTL
<1>3. QED
  BY <1>1, <1>2, QueryInitially, PTL DEF ClientSpec

\* For every chain of operators, every query and every way of cutting it into
\* payloads, slices and runs: EOS never overtakes data, in the mailbox that all
\* operators share or in that of one.
THEOREM EosStaysLast == ClientSpec => []EosIsLast
<1>1. QInv => EosIsLast
  BY DEF QInv, Relay
<1>2. QED
  BY <1>1, QueryInvariance, PTL

\* Once EOS has been sent and every mailbox is empty, the EOS has reached the
\* last operator, or a LIMIT was full before: all operators were told to stop.
LEMMA AllStopped ==
  ASSUME QInv, sent = Len(Script), mailbox = <<>>, \A a \in Addr : inbox[a] = <<>>
  PROVE  \A a \in Addr : terminating[a]
<1> DEFINE n == Len(Pipeline)
           T == {i \in 1..n : ~terminating[Pipeline[i]]}
<1>1. /\ n \in Nat /\ DOMAIN Pipeline = 1..n
      /\ \A i \in 1..n : Pipeline[i] \in Addr
      /\ First = Pipeline[1]
  BY PipelineAssumption DEF First
<1>2. \A i \in 1..n : i < n =>
         OpCode[Pipeline[i]] = "OUT" /\ Downstream[Pipeline[i]] = Pipeline[i + 1]
  BY PipelineAssumption
<1>3. \A a \in Addr : \E i \in 1..n : a = Pipeline[i]
  BY <1>1, PipelineAssumption DEF ToSet
<1>4. \A b \in Addr : ~EosIn(b)
  BY DEF EosIn
<1>5. \A b \in Addr : Ended(b) => terminating[b]
  BY <1>4 DEF QInv, Relay
<1> HIDE DEF n
<1>6. T = {}
  <2> SUFFICES ASSUME T # {} PROVE FALSE
    OBVIOUS
  <2>1. T \in SUBSET Nat
    OBVIOUS
  <2>2. PICK i \in T : \A k \in T : i <= k
    BY <2>1, LeastNatural
  <2>3. i \in 1..n /\ ~terminating[Pipeline[i]]
    BY <2>2
  <2>4. CASE i = 1
    <3>1. Ended(First)
      BY ChainFacts, PlanAssumption DEF Ended
    <3>2. QED
      BY <1>1, <1>5, <2>3, <2>4, <3>1
  <2>5. CASE i # 1
    <3>1. i - 1 \in 1..n /\ i - 1 < n /\ (i - 1) + 1 = i
      BY <1>1, <2>3, <2>5
    <3>2. terminating[Pipeline[i - 1]]
      <4>1. i - 1 \notin T
        BY <1>1, <2>2, <2>3, <3>1
      <4>2. QED
        BY <3>1, <4>1
    <3> DEFINE b == Pipeline[i]
               c == Pipeline[i - 1]
    <3>3. /\ b \in Addr /\ c \in Addr
          /\ OpCode[c] = "OUT" /\ Downstream[c] = b
      BY <1>1, <1>2, <2>3, <3>1
    <3> HIDE DEF b, c
    <3>4. b # First /\ \A a \in Addr : Downstream[a] = b => a = c
      BY <3>3, ChainFacts
    <3>5. Ended(b)
      BY <3>2, <3>4 DEF Ended, c
    <3>6. QED
      BY <1>5, <2>3, <3>3, <3>5 DEF b
  <2>6. QED
    BY <2>4, <2>5
<1>7. QED
  BY <1>3, <1>6

\* When the client has run its script, every operator is deleted, whether it was
\* ended by an EOS or by its limit.
THEOREM NothingIsLeft == ClientSpec => []NothingLeftBehind
<1>1. ASSUME QInv, Inv, QuietWhenIdle
      PROVE  NothingLeftBehind
  <2> SUFFICES ASSUME pc = "idle", sent = Len(Script), mailbox = <<>>,
                      NEW a \in Addr, life[a] = "alive"
               PROVE  FALSE
    BY DEF NothingLeftBehind, Returned
  <2>1. \A b \in Addr : inbox[b] = <<>>
    BY <1>1 DEF QuietWhenIdle
  <2>2. terminating[a]
    BY <1>1, <2>1, AllStopped
  <2>3. isActive[a]
    BY <1>1, <2>2 DEF Inv, Consistent, NoLostWakeUp
  <2>4. running \notin Addr
    BY <1>1, PlanAssumption DEF Inv, TypeOK
  <2>5. a \in Queued
    BY <1>1, <2>3, <2>4 DEF Inv, Consistent, ScheduledOnce
  <2>6. QED
    BY <1>1, <2>5 DEF QuietWhenIdle, QInv, Tame
<1>2. QED
  BY <1>1, QueryInvariance, PTL
=============================================================================
