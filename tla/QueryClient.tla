---------------------------- MODULE QueryClient ----------------------------
(***************************************************************************)
(* The client of tests/test_operator.cc: it enqueues the start nodes of a  *)
(* query and an EOS for the first operator of the plan, runs the dataflow, *)
(* and returns.  It may also run the dataflow between two of its messages. *)
(* Seen from the client the dataflow implements Traversal.                 *)
(***************************************************************************)
EXTENDS Dataflow

CONSTANTS
    Pipeline,       \* the operators of the plan, from the first to the last
    Queries         \* what the client may ask: start nodes, by message

\* A chain of OUT operators that ends in a LIMIT of at least one node, and
\* nothing else in the plan.
ASSUME PipelineAssumption ==
    /\ Pipeline \in Seq(Addr) /\ Len(Pipeline) > 1
    /\ IsInjective(Pipeline) /\ ToSet(Pipeline) = Addr
    /\ \A i \in 1..Len(Pipeline) :
          IF i = Len(Pipeline)
          THEN OpCode[Pipeline[i]] = "LIMIT" /\ Downstream[Pipeline[i]] = NoAddr
          ELSE OpCode[Pipeline[i]] = "OUT" /\ Downstream[Pipeline[i]] = Pipeline[i + 1]
    /\ NumUpstreams = 1
    /\ LimitCount[Last(Pipeline)] > 0
    /\ Queries \subseteq Seq(Seq(Node))

\* The client is the host of its dataflow.
ASSUME ClientAssumption ==
    /\ EosMessage(Head(Pipeline)) \in HostMessage
    /\ \A q \in Queries : \A i \in 1..Len(q) :
          DataMessage(Head(Pipeline), q[i]) \in HostMessage

VARIABLES
    query,          \* the start nodes of this client
    answer,         \* what it should get; only the properties read it
    sent            \* how many messages of its script have been enqueued

cvars == <<vars, query, answer, sent>>

Script ==
    [i \in 1..Len(query) |-> DataMessage(Head(Pipeline), query[i])]
        \o <<EosMessage(Head(Pipeline))>>

\* The answer: the start nodes expanded once by every OUT, cut at the limit.
Reached(nodes) ==
    LET after[k \in 0..(Len(Pipeline) - 1)] ==
            IF k = 0 THEN nodes ELSE Expand(after[k - 1])
    IN  after[Len(Pipeline) - 1]

Cut(nodes, limit) ==
    SubSeq(nodes, 1, IF Len(nodes) < limit THEN Len(nodes) ELSE limit)

ClientInit ==
    /\ Init
    /\ query \in Queries /\ sent = 0
    /\ answer = Cut(Reached(FlattenSeq(query)), LimitCount[Last(Pipeline)])

ClientEnqueue ==
    /\ sent < Len(Script)
    /\ HostEnqueue(Script[sent + 1])
    /\ sent' = sent + 1
    /\ UNCHANGED <<query, answer>>

ClientRun == RunAndDispose /\ mailbox # <<>> /\ UNCHANGED <<query, answer, sent>>

Client == ClientEnqueue \/ ClientRun

ClientNext == Client \/ (Engine /\ UNCHANGED <<query, answer, sent>>)

\* The client is one thread: it goes on with its script, and run_and_dispose
\* with its loops.
ClientSpec == ClientInit /\ [][ClientNext]_cvars /\ WF_cvars(ClientNext)

-----------------------------------------------------------------------------
Query ==
    INSTANCE Traversal WITH
        results  <- output,
        finished <- \A i \in 1..Len(Pipeline) : life[Pipeline[i]] = "freed"

\* The client gets the answer of its query in order, without gap or repetition
\* whatever the payload size, the slices and the runs it is spread over, and
\* then every operator is deleted.
ImplementsTraversal == Query!Spec

\* The nodes in the messages for a, in order.
DataFor(a, m) == IF m.to = a /\ m.kind = "USER_DATA" THEN m.data ELSE <<>>

DataTo(a, messages) ==
    FlattenSeq([k \in 1..Len(messages) |-> DataFor(a, messages[k])])

Waiting(a) == DataTo(a, inbox[a]) \o DataTo(a, mailbox)

Unsent == FlattenSeq(SubSeq(query, sent + 1, Len(query)))

\* What the k-th operator has yet to work on: what waits for it, then what the
\* one before it has computed and not sent, then all that one will compute.
Feed(ahead, k) ==
    Waiting(Pipeline[k]) \o
        (IF k = 1 THEN Unsent ELSE outPayload[Pipeline[k - 1]] \o Expand(ahead[k - 1]))

Ahead ==
    LET ahead[k \in 1..Len(Pipeline)] == Feed(ahead, k) IN ahead[Len(Pipeline)]

\* No node of the answer is lost, repeated or overtaken on its way: what LIMIT
\* has printed, followed by all that lies ahead of it in mailboxes and payloads,
\* is the answer and what the limit will cut; and LIMIT stops at the answer.
AnswerInSight ==
    LET last == Last(Pipeline) IN
    answer = IF terminating[last] THEN output ELSE Cut(output \o Ahead, LimitCount[last])

\* No operator has data behind its EOS: EOS never overtakes a payload, in the
\* mailbox they share with every other operator or in the operator's own.
EosIsLast ==
    /\ \A a \in Addr : \A i \in 1..Len(inbox[a]) :
          inbox[a][i].kind = "EOS" =>
              i = Len(inbox[a]) /\ \A k \in 1..Len(mailbox) : mailbox[k].to # a
    /\ \A k, l \in 1..Len(mailbox) :
          k < l /\ mailbox[k].to = mailbox[l].to => mailbox[k].kind # "EOS"

\* run_and_dispose has returned and the client has nothing left to enqueue.
Returned == pc = "idle" /\ sent = Len(Script) /\ mailbox = <<>>

\* When the client returns, with its script run, no operator is left alive.
NothingLeftBehind == Returned => \A a \in Addr : life[a] # "alive"

\* And it returns with the answer, all of it: nothing is left in a payload that
\* was not flushed, or in the mailbox of an operator that was stopped too early.
AnswerOnReturn == Returned => output = answer

\* The client ends: whatever it does but enqueue the next message of its script
\* uses something up, in its runs and between them.
ClientDescends == [][sent' > sent \/ Lower(Measure', Measure)]_cvars
=============================================================================
