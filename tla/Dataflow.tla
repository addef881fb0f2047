------------------------------ MODULE Dataflow ------------------------------
(***************************************************************************)
(* The dataflow of lightquery: one actor group that owns a mailbox, a task *)
(* queue and the index of its operator actors, and runs them one at a time *)
(* inside dataflow::run_and_dispose.  The host (the code that owns the     *)
(* dataflow) calls in only between two runs: it enqueues messages, stops   *)
(* the dataflow, or starts a run.  Everything else is a step of the run in *)
(* progress, and pc names the loop of the code that step belongs to.       *)
(*                                                                         *)
(* The radix tree is abstracted to what it answers for the addresses of    *)
(* the plan: an address is absent, live (it maps to an actor) or disabled. *)
(***************************************************************************)
EXTENDS Integers, FiniteSets, Sequences, SequencesExt

CONSTANTS
    Addr,           \* addresses of the operator actors of the plan
    NoAddr,         \* "no actor": no downstream, nobody running
    Node,           \* light_node: a vertex and the time it is reached
    OpCode,         \* op_code_tree: address -> "OUT" or "LIMIT"
    Downstream,     \* address -> address its results go to, or NoAddr
    LimitCount,     \* op_code_tree: the parameter of a LIMIT
    GetOutV,        \* node -> neighbours the graph store returns for it
    NumUpstreams,   \* EOS messages an operator waits for (shard_number)
    MaxPayload,     \* max_payload_capacity
    Prefix,         \* address prefixes that a cancellation can name
    Under,          \* prefix -> addresses below it
    PrefixLen,      \* prefix -> its length in bytes
    OwnPrefix,      \* the address of the dataflow itself
    ExecInterval,   \* _default_execution_interval
    ClockAnswers,   \* outcomes of now() - _start_time < _slice
    HostMessage,    \* messages the host may enqueue
    MaxMail         \* bound: the host enqueues only below this many messages

Kind == {"USER_DATA", "EOS", "NOTHING"}

UserMessage ==
    [type : {"USER"}, to : Addr, kind : Kind, data : Seq(Node)]

CancelMessage == [type : {"CANCEL_SCOPE"}, prefix : Prefix]

\* The types process_mailbox and the actors print and delete.
OtherMessage ==
    [type : {"FLOW_CONTROL", "CREATE_CHILD", "CONFIGURATION", "ACKNOWLEDGE"}]

Message == UserMessage \cup CancelMessage \cup OtherMessage

DataMessage(to, nodes) ==
    [type |-> "USER", to |-> to, kind |-> "USER_DATA", data |-> nodes]

EosMessage(to) ==
    [type |-> "USER", to |-> to, kind |-> "EOS", data |-> <<>>]

\* A plan: every OUT has a downstream, as in the plan op_code_tree holds (an
\* operator without one leaves its downstream address uninitialised).  No
\* address is a prefix of another, so disabling an actor disables it alone.
ASSUME PlanAssumption ==
    /\ IsFiniteSet(Addr) /\ NoAddr \notin Addr
    /\ OpCode \in [Addr -> {"OUT", "LIMIT"}]
    /\ Downstream \in [Addr -> Addr \cup {NoAddr}]
    /\ \A a \in Addr : OpCode[a] = "OUT" => Downstream[a] # NoAddr
    /\ GetOutV \in [Node -> Seq(Node)]
    /\ Under \in [Prefix -> SUBSET Addr]
    /\ PrefixLen \in [Prefix -> Nat]
    /\ OwnPrefix \in Prefix /\ Under[OwnPrefix] = Addr

ASSUME NumberAssumption ==
    /\ LimitCount \in [Addr -> Nat]
    /\ NumUpstreams \in Nat \ {0}
    /\ MaxPayload \in Nat \ {0}
    /\ ExecInterval \in Nat /\ ExecInterval > 1
    /\ ClockAnswers \in SUBSET BOOLEAN /\ ClockAnswers # {}

ASSUME HostAssumption == HostMessage \subseteq Message /\ MaxMail \in Nat

VARIABLES
    mailbox,        \* dataflow::_mailbox
    taskQueue,      \* dataflow::_task_queue
    tree,           \* dataflow::_actor_tree
    numTerminating, \* dataflow::_num_terminating_children
    dfTerminating,  \* dataflow::_terminating
    dfActive,       \* dataflow::_is_active
    dfExecCount,    \* dataflow::_execution_count
    life,           \* an actor's storage: none, alive, freed
    isActive,       \* actor::_is_active
    terminating,    \* actor::_terminating
    inbox,          \* actor::_mailbox
    numRcvEos,      \* operator_base::_num_rcv_eos
    curCnt,         \* limit_op::_cur_cnt
    outPayload,     \* out_op::_out_payload
    execCount,      \* _execution_count of the actor that is running
    output,         \* the nodes LIMIT operators have printed
    pc,             \* the loop of run_and_dispose being executed
    running         \* the actor whose run_and_dispose is executing

dfVars == <<dfTerminating, dfActive>>
actorVars == <<life, isActive, terminating, inbox>>
opVars == <<numRcvEos, curCnt, outPayload, output>>
stopVars == <<tree, numTerminating, isActive, terminating, taskQueue>>
vars == <<mailbox, taskQueue, tree, numTerminating, dfVars, dfExecCount,
          actorVars, opVars, execCount, pc, running>>

Init ==
    /\ mailbox = <<>> /\ taskQueue = <<>>
    /\ tree = [a \in Addr |-> "absent"]
    /\ numTerminating = 0
    /\ dfTerminating = FALSE /\ dfActive = FALSE /\ dfExecCount = 0
    /\ life = [a \in Addr |-> "none"]
    /\ isActive = [a \in Addr |-> FALSE]
    /\ terminating = [a \in Addr |-> FALSE]
    /\ inbox = [a \in Addr |-> <<>>]
    /\ numRcvEos = [a \in Addr |-> 0]
    /\ curCnt = [a \in Addr |-> 0]
    /\ outPayload = [a \in Addr |-> <<>>]
    /\ execCount = 0
    /\ output = <<>>
    /\ pc = "idle" /\ running = NoAddr

-----------------------------------------------------------------------------
(* Helpers the handlers are built from. *)

\* art_disable: an empty tree records nothing, any other tree remembers the
\* prefix, whether or not an actor lives below it.
TreeEmpty == \A a \in Addr : tree[a] = "absent"

DisableErases(S) ==     \* mutant: the prefix is removed instead of disabled
    [a \in Addr |-> IF a \in S THEN "absent" ELSE tree[a]]

DisableAlways(S) ==     \* mutant: an empty tree remembers the prefix too
    [a \in Addr |-> IF a \in S THEN "disabled" ELSE tree[a]]

Disable(S) ==
    IF TreeEmpty THEN tree
    ELSE [a \in Addr |-> IF a \in S THEN "disabled" ELSE tree[a]]

\* art_lookup: 1 found, 0 not found, -1 disabled.
LookupIgnoresDisabled(a) == IF tree[a] = "live" THEN 1 ELSE 0       \* mutant

Lookup(a) ==
    IF tree[a] = "live" THEN 1 ELSE IF tree[a] = "absent" THEN 0 ELSE -1

\* art_iter_active_prefix: the addresses whose actors the callback gets, for
\* the plans in which it is exact (NoneStray in module ArtIndex).
LiveInDisabledToo(S) == {a \in S : tree[a] # "absent"}              \* mutant

LiveInAnyway(S) == S                                                \* mutant

LiveIn(S) == {a \in S : tree[a] = "live"}

\* actor_base::not_expired: count up to the interval, then ask the clock.
NotExpiredNoReset(count) ==                                         \* mutant
    IF count + 1 < ExecInterval THEN {[ok |-> TRUE, count |-> count + 1]}
    ELSE {[ok |-> answer, count |-> count] : answer \in ClockAnswers}

NotExpired(count) ==
    IF count + 1 < ExecInterval THEN {[ok |-> TRUE, count |-> count + 1]}
    ELSE {[ok |-> answer, count |-> 0] : answer \in ClockAnswers}

\* stateless_actor::handle_stop_from_parent on the actors S, whose mailboxes
\* hold box: those not yet terminating drop their messages and are activated,
\* in the order in which the tree is iterated.
StopActors(S, box) ==
    LET stopping == {a \in S : ~terminating[a]}
        waking   == {a \in stopping : ~isActive[a]}
    IN  /\ terminating' = [a \in Addr |-> IF a \in S THEN TRUE ELSE terminating[a]]
        /\ inbox' = [a \in Addr |-> IF a \in stopping THEN <<>> ELSE box[a]]
        /\ isActive' = [a \in Addr |-> IF a \in waking THEN TRUE ELSE isActive[a]]
        /\ \E order \in SetToSeqs(waking) : taskQueue' = taskQueue \o order

\* dataflow::handle_scope_cancellation: count and stop the live actors below
\* the prefix, then disable the prefix.
HandleScopeCancellation(p) ==
    LET stopped == LiveIn(Under[p])
    IN  /\ numTerminating' = numTerminating + Cardinality(stopped)
        /\ StopActors(stopped, inbox)
        /\ tree' = Disable(Under[p])

\* dataflow::handle_child_termination, called by actor a, whose message has
\* left box[a]; an address that is already disabled is left alone.
HandleChildTerminationUncounted(a, box) ==                          \* mutant
    IF Lookup(a) = -1 THEN inbox' = box /\ UNCHANGED stopVars
    ELSE tree' = Disable({a}) /\ StopActors({a}, box) /\ UNCHANGED numTerminating

HandleChildTermination(a, box) ==
    IF Lookup(a) = -1 THEN inbox' = box /\ UNCHANGED stopVars
    ELSE /\ numTerminating' = numTerminating + 1
         /\ tree' = Disable({a})
         /\ StopActors({a}, box)

\* dataflow::handle_child_terminated.
HandleChildTerminatedNot == UNCHANGED numTerminating                \* mutant

HandleChildTerminated == numTerminating' = numTerminating - 1

-----------------------------------------------------------------------------
(* The host: calls between two runs. *)

HostEnqueue(m) ==
    /\ pc = "idle" /\ Len(mailbox) < MaxMail
    /\ mailbox' = Append(mailbox, m)
    /\ UNCHANGED <<stopVars, dfVars, dfExecCount, life, inbox, opVars,
                   execCount, pc, running>>

HostEnqueueUrgent(m) ==
    /\ pc = "idle" /\ Len(mailbox) < MaxMail
    /\ mailbox' = <<m>> \o mailbox
    /\ UNCHANGED <<stopVars, dfVars, dfExecCount, life, inbox, opVars,
                   execCount, pc, running>>

\* dataflow::handle_stop_from_parent: stops every actor, empties the mailbox
\* and activates the dataflow only when there is no actor to wait for.
HandleStopFromParent ==
    /\ pc = "idle" /\ ~dfTerminating
    /\ dfTerminating' = TRUE
    /\ HandleScopeCancellation(OwnPrefix)
    /\ mailbox' = <<>>
    /\ dfActive' = (dfActive \/ numTerminating' = 0)
    /\ UNCHANGED <<dfExecCount, life, opVars, execCount, pc, running>>

RunAndDispose ==
    /\ pc = "idle"
    /\ pc' = "mailbox"
    /\ UNCHANGED <<mailbox, stopVars, dfVars, dfExecCount, life, inbox, opVars,
                   execCount, running>>

-----------------------------------------------------------------------------
(* process_mailbox: one action per outcome of one turn of its loop. *)

Receiving == pc = "mailbox" /\ mailbox # <<>> /\ mailbox' = Tail(mailbox)

\* actor_base::enque_message and activate.
DeliverTwice(m) ==                  \* mutant: activate() without its guard
    /\ inbox' = [inbox EXCEPT ![m.to] = Append(@, m)]
    /\ isActive' = [isActive EXCEPT ![m.to] = TRUE]
    /\ taskQueue' = Append(taskQueue, m.to)

DeliverFirst(m) ==                  \* mutant: the urgent form of enque_message
    /\ inbox' = [inbox EXCEPT ![m.to] = <<m>> \o @]
    /\ isActive' = [isActive EXCEPT ![m.to] = TRUE]
    /\ taskQueue' = IF isActive[m.to] THEN taskQueue ELSE Append(taskQueue, m.to)

Deliver(m) ==
    /\ inbox' = [inbox EXCEPT ![m.to] = Append(@, m)]
    /\ isActive' = [isActive EXCEPT ![m.to] = TRUE]
    /\ taskQueue' = IF isActive[m.to] THEN taskQueue ELSE Append(taskQueue, m.to)

UserToLive ==
    LET m == Head(mailbox) IN
    /\ Receiving
    /\ m.type = "USER" /\ Lookup(m.to) = 1
    /\ Deliver(m)
    /\ UNCHANGED <<tree, numTerminating, terminating, dfVars, dfExecCount,
                   life, opVars, execCount, pc, running>>

\* The actor is created and inserted, then it gets the message.
UserToAbsent ==
    LET m == Head(mailbox) IN
    /\ Receiving
    /\ m.type = "USER" /\ Lookup(m.to) = 0
    /\ life' = [life EXCEPT ![m.to] = "alive"]
    /\ tree' = [tree EXCEPT ![m.to] = "live"]
    /\ Deliver(m)
    /\ UNCHANGED <<numTerminating, terminating, dfVars, dfExecCount, opVars,
                   execCount, pc, running>>

UserToDisabled ==
    LET m == Head(mailbox) IN
    /\ Receiving
    /\ m.type = "USER" /\ Lookup(m.to) = -1
    /\ UNCHANGED <<stopVars, dfVars, dfExecCount, life, inbox, opVars,
                   execCount, pc, running>>

CancelScope ==
    LET m == Head(mailbox) IN
    /\ Receiving
    /\ m.type = "CANCEL_SCOPE" /\ PrefixLen[m.prefix] > PrefixLen[OwnPrefix]
    /\ HandleScopeCancellation(m.prefix)
    /\ UNCHANGED <<dfVars, dfExecCount, life, opVars, execCount, pc, running>>

\* Cancelling the whole actor group is left to do in the code; the types it
\* does not know are printed.
DropControl ==
    LET m == Head(mailbox) IN
    /\ Receiving
    /\ \/ m.type = "CANCEL_SCOPE" /\ PrefixLen[m.prefix] <= PrefixLen[OwnPrefix]
       \/ m.type \notin {"USER", "CANCEL_SCOPE"}
    /\ UNCHANGED <<stopVars, dfVars, dfExecCount, life, inbox, opVars,
                   execCount, pc, running>>

MailboxEmpty ==
    /\ pc = "mailbox" /\ mailbox = <<>>
    /\ pc' = "tasks"
    /\ UNCHANGED <<mailbox, stopVars, dfVars, dfExecCount, life, inbox, opVars,
                   execCount, running>>

-----------------------------------------------------------------------------
(* The task loop of dataflow::run_and_dispose. *)

RunTask ==
    /\ pc = "tasks" /\ taskQueue # <<>>
    /\ \E turn \in NotExpired(dfExecCount) :
          turn.ok /\ dfExecCount' = turn.count
    /\ running' = Head(taskQueue) /\ taskQueue' = Tail(taskQueue)
    /\ execCount' = 0
    /\ pc' = "actor"
    /\ UNCHANGED <<mailbox, tree, numTerminating, dfVars, actorVars, opVars>>

\* The test at the end of the outer loop: return, or back to the mailbox.
AfterTasksMailOnly == IF mailbox = <<>> THEN "idle" ELSE "mailbox"  \* mutant

AfterTasks ==
    IF taskQueue = <<>> /\ mailbox = <<>> THEN "idle" ELSE "mailbox"

\* The slice is used up: back to the mailbox before the next task.
TasksExpired ==
    /\ pc = "tasks" /\ taskQueue # <<>>
    /\ \E turn \in NotExpired(dfExecCount) :
          ~turn.ok /\ dfExecCount' = turn.count
    /\ pc' = AfterTasks
    /\ UNCHANGED <<mailbox, stopVars, dfVars, life, inbox, opVars, execCount,
                   running>>

TasksDone ==
    /\ pc = "tasks" /\ taskQueue = <<>>
    /\ pc' = AfterTasks
    /\ UNCHANGED <<mailbox, stopVars, dfVars, dfExecCount, life, inbox, opVars,
                   execCount, running>>

-----------------------------------------------------------------------------
(* stateless_actor::run_and_dispose: one turn of its message loop. *)

\* The running actor takes its first message, unless its slice is used up.
Working(a) ==
    /\ pc = "actor" /\ a = running /\ inbox[a] # <<>>
    /\ \E turn \in NotExpired(execCount) : turn.ok /\ execCount' = turn.count
    /\ UNCHANGED <<dfVars, dfExecCount, life, pc, running>>

Popped(a) == [inbox EXCEPT ![a] = Tail(@)]

\* What follows do_work: the actor asks to be terminated, or goes on.
CancelMe(a) == HandleChildTermination(a, Popped(a))
Available(a) == inbox' = Popped(a) /\ UNCHANGED stopVars

\* GetOutV and GetNext over the nodes of a payload, in their order.
Expand(nodes) == FlattenSeq([i \in 1..Len(nodes) |-> GetOutV[nodes[i]]])

\* flush_out_payload each time the payload is full: the messages sent for the
\* nodes all, and the payload that is left.
Flushed(to, all) ==
    [k \in 1..(Len(all) \div MaxPayload) |->
        DataMessage(to, SubSeq(all, (k - 1) * MaxPayload + 1, k * MaxPayload))]

RestCleared(all) ==                 \* mutant: a flush drops what does not fit
    IF Len(all) < MaxPayload THEN all ELSE <<>>

Rest(all) == SubSeq(all, (Len(all) \div MaxPayload) * MaxPayload + 1, Len(all))

\* out_op::do_work on data: append every neighbour of every node to the
\* payload, sending it downstream each time it is full.
OutData(a) ==
    LET m   == Head(inbox[a])
        all == outPayload[a] \o Expand(m.data)
    IN  /\ Working(a)
        /\ OpCode[a] = "OUT" /\ m.kind = "USER_DATA"
        /\ mailbox' = mailbox \o Flushed(Downstream[a], all)
        /\ outPayload' = [outPayload EXCEPT ![a] = Rest(all)]
        /\ Available(a)
        /\ UNCHANGED <<numRcvEos, curCnt, output>>

\* The EOS that ends an operator; for LIMIT only if it is the last operator.
LastEosLate(a) ==                   \* mutant: compares before it increments
    /\ numRcvEos[a] = NumUpstreams
    /\ OpCode[a] = "LIMIT" => Downstream[a] = NoAddr

LastEos(a) ==
    /\ numRcvEos[a] + 1 = NumUpstreams
    /\ OpCode[a] = "LIMIT" => Downstream[a] = NoAddr

\* flush_out_payload, even of an empty payload, then send_eos.
FarewellSwapped(to, rest) == <<EosMessage(to), DataMessage(to, rest)>>  \* mutant

FarewellBare(to, rest) == <<EosMessage(to)>>    \* mutant: no flush before EOS

Farewell(to, rest) == <<DataMessage(to, rest), EosMessage(to)>>

\* out_op::do_work on EOS: after the last one, flush the payload, send EOS
\* downstream and ask to be terminated.
OutLastEos(a) ==
    /\ Working(a)
    /\ OpCode[a] = "OUT" /\ Head(inbox[a]).kind = "EOS"
    /\ LastEos(a)
    /\ numRcvEos' = [numRcvEos EXCEPT ![a] = @ + 1]
    /\ mailbox' = mailbox \o Farewell(Downstream[a], outPayload[a])
    /\ outPayload' = [outPayload EXCEPT ![a] = <<>>]
    /\ CancelMe(a)
    /\ UNCHANGED <<curCnt, output>>

\* limit_op::do_work returns at once when the limit has been reached.
LimitOpen(a) == curCnt[a] < LimitCount[a]

LimitDiscard(a) ==
    /\ Working(a)
    /\ OpCode[a] = "LIMIT" /\ ~LimitOpen(a)
    /\ Available(a)
    /\ UNCHANGED <<mailbox, opVars>>

\* limit_op::do_work on data: print nodes until the limit is reached.
LimitData(a) ==
    LET m    == Head(inbox[a])
        room == LimitCount[a] - curCnt[a]
        n    == IF Len(m.data) < room THEN Len(m.data) ELSE room
    IN  /\ Working(a)
        /\ OpCode[a] = "LIMIT" /\ LimitOpen(a) /\ m.kind = "USER_DATA"
        /\ output' = output \o SubSeq(m.data, 1, n)
        /\ curCnt' = [curCnt EXCEPT ![a] = @ + n]
        /\ IF n = room THEN CancelMe(a) ELSE Available(a)
        /\ UNCHANGED <<mailbox, numRcvEos, outPayload>>

LimitLastEos(a) ==
    /\ Working(a)
    /\ OpCode[a] = "LIMIT" /\ LimitOpen(a) /\ Head(inbox[a]).kind = "EOS"
    /\ LastEos(a)
    /\ numRcvEos' = [numRcvEos EXCEPT ![a] = @ + 1]
    /\ CancelMe(a)
    /\ UNCHANGED <<mailbox, curCnt, outPayload, output>>

\* Both operators only count any other EOS.
EarlierEos(a) ==
    /\ Working(a)
    /\ OpCode[a] = "OUT" \/ LimitOpen(a)
    /\ Head(inbox[a]).kind = "EOS"
    /\ ~LastEos(a)
    /\ numRcvEos' = [numRcvEos EXCEPT ![a] = @ + 1]
    /\ Available(a)
    /\ UNCHANGED <<mailbox, curCnt, outPayload, output>>

\* Both operators report an error for any other payload; nobody reads it.
UndefinedData(a) ==
    /\ Working(a)
    /\ OpCode[a] = "OUT" \/ LimitOpen(a)
    /\ Head(inbox[a]).kind = "NOTHING"
    /\ Available(a)
    /\ UNCHANGED <<mailbox, opVars>>

-----------------------------------------------------------------------------
(* The end of stateless_actor::run_and_dispose. *)

\* The message loop ends: no message is left, or the slice is used up.
LeaveLoop(a) ==
    /\ pc = "actor" /\ a = running
    /\ \/ inbox[a] = <<>> /\ UNCHANGED execCount
       \/ /\ inbox[a] # <<>>
          /\ \E turn \in NotExpired(execCount) :
                ~turn.ok /\ execCount' = turn.count
    /\ pc' = "tasks" /\ running' = NoAddr
    /\ UNCHANGED <<mailbox, tree, dfVars, dfExecCount, terminating, inbox, opVars>>

\* handle_child_terminated, then delete this.
Terminated(a) ==
    /\ LeaveLoop(a)
    /\ terminating[a]
    /\ HandleChildTerminated
    /\ life' = [life EXCEPT ![a] = "freed"]
    /\ UNCHANGED <<isActive, taskQueue>>

\* Not active any more, but activated again at once if messages are left.
YieldForgets(a) ==                  \* mutant: messages left do not activate
    /\ LeaveLoop(a)
    /\ ~terminating[a]
    /\ isActive' = [isActive EXCEPT ![a] = FALSE]
    /\ UNCHANGED <<numTerminating, life, taskQueue>>

YieldAlways(a) ==                   \* mutant: activated even with no message left
    /\ LeaveLoop(a)
    /\ ~terminating[a]
    /\ taskQueue' = Append(taskQueue, a)
    /\ UNCHANGED <<numTerminating, life, isActive>>

Yield(a) ==
    /\ LeaveLoop(a)
    /\ ~terminating[a]
    /\ isActive' = [isActive EXCEPT ![a] = inbox[a] # <<>>]
    /\ taskQueue' = IF inbox[a] # <<>> THEN Append(taskQueue, a) ELSE taskQueue
    /\ UNCHANGED <<numTerminating, life>>

-----------------------------------------------------------------------------
Host ==
    \/ \E m \in HostMessage : HostEnqueue(m) \/ HostEnqueueUrgent(m)
    \/ HandleStopFromParent

ProcessMailbox ==
    \/ UserToLive \/ UserToAbsent \/ UserToDisabled
    \/ CancelScope \/ DropControl \/ MailboxEmpty

TaskLoop == RunTask \/ TasksExpired \/ TasksDone

DoWork(a) ==
    \/ OutData(a) \/ OutLastEos(a)
    \/ LimitDiscard(a) \/ LimitData(a) \/ LimitLastEos(a)
    \/ EarlierEos(a) \/ UndefinedData(a)

ActorRun(a) == DoWork(a) \/ Terminated(a) \/ Yield(a)

\* A step of a run in progress.
Engine == ProcessMailbox \/ TaskLoop \/ \E a \in Addr : ActorRun(a)

Next == Host \/ RunAndDispose \/ Engine

Spec == Init /\ [][Next]_vars

\* run_and_dispose is a loop of the thread that called it: once entered it
\* keeps taking steps.  Nothing is assumed of the host.
FairSpec == Spec /\ WF_vars(Engine)

-----------------------------------------------------------------------------
(* Type invariant. *)

\* Every variable has the type of the field it models; the two counters of
\* not_expired stay below the interval, an OUT never holds a full payload and a
\* LIMIT never counts past its limit.
TypeOK ==
    /\ mailbox \in Seq(Message)
    /\ taskQueue \in Seq(Addr)
    /\ tree \in [Addr -> {"absent", "live", "disabled"}]
    /\ numTerminating \in Nat
    /\ dfTerminating \in BOOLEAN /\ dfActive \in BOOLEAN
    /\ dfExecCount \in 0..(ExecInterval - 1) /\ execCount \in 0..(ExecInterval - 1)
    /\ life \in [Addr -> {"none", "alive", "freed"}]
    /\ isActive \in [Addr -> BOOLEAN] /\ terminating \in [Addr -> BOOLEAN]
    /\ inbox \in [Addr -> Seq(UserMessage)]
    /\ numRcvEos \in [Addr -> Nat] /\ curCnt \in [Addr -> Nat]
    /\ outPayload \in [Addr -> Seq(Node)]
    /\ \A a \in Addr : Len(outPayload[a]) < MaxPayload /\ curCnt[a] <= LimitCount[a]
    /\ output \in Seq(Node)
    /\ pc \in {"idle", "mailbox", "tasks", "actor"}
    /\ running \in Addr \cup {NoAddr}
    /\ pc = "actor" <=> running # NoAddr

-----------------------------------------------------------------------------
(* Safety. *)

\* The index and the actors agree: lookup answers with an actor exactly when
\* that actor exists and has not been told to stop, so process_mailbox never
\* follows a pointer to a deleted actor and never creates a second actor while
\* the first one is waiting to be deleted; an actor not yet created is fresh.
IndexSound ==
    \A a \in Addr :
        /\ tree[a] = "live" <=> life[a] = "alive" /\ ~terminating[a]
        /\ tree[a] = "absent" => life[a] = "none"
        /\ life[a] = "none" => ~terminating[a] /\ ~isActive[a]

Queued == ToSet(taskQueue)

\* _is_active says "in the task queue or running", no actor is in the queue
\* twice, none is queued while it runs, and none is queued once deleted: the
\* raw pointers that activate() puts in the queue are run and deleted once.
ScheduledOnce ==
    /\ IsInjective(taskQueue)
    /\ running \notin Queued
    /\ \A a \in Addr :
          a \in Queued \/ a = running <=> life[a] = "alive" /\ isActive[a]

\* No wake-up is lost: an actor that has messages, or that was told to stop, is
\* scheduled; and one told to stop has no messages left.
NoLostWakeUp ==
    \A a \in Addr :
        /\ inbox[a] # <<>> => life[a] = "alive" /\ isActive[a] /\ ~terminating[a]
        /\ terminating[a] /\ life[a] = "alive" => isActive[a]

Stopping == {a \in Addr : life[a] = "alive" /\ terminating[a]}

\* _num_terminating_children is the number of actors told to stop and not yet
\* deleted, however many cancellations, stops and self-terminations overlap;
\* in particular the unsigned counter never goes below zero.
CountExact == numTerminating = Cardinality(Stopping)

\* Between two runs no delivered message is left behind, only actors that a stop
\* of the dataflow reached are queued, and with an empty task queue no actor is
\* still to be deleted.
QuietWhenIdle ==
    pc = "idle" =>
        /\ \A a \in Addr : inbox[a] = <<>>
        /\ \A a \in Queued : terminating[a] /\ dfTerminating
        /\ taskQueue = <<>> => numTerminating = 0

\* An operator that is done (it printed as many nodes as its limit, or received
\* its last EOS) has been told to stop, and an OUT that is done has sent on
\* everything it computed.
DoneOperatorsStop ==
    \A a \in Addr :
        /\ OpCode[a] = "LIMIT" /\ curCnt[a] > 0 /\ ~LimitOpen(a) => terminating[a]
        /\ OpCode[a] = "OUT" /\ numRcvEos[a] = NumUpstreams =>
              terminating[a] /\ outPayload[a] = <<>>

\* The structural invariant of the dataflow, inductive together with TypeOK.
Consistent == IndexSound /\ ScheduledOnce /\ NoLostWakeUp /\ CountExact

-----------------------------------------------------------------------------
(* Action properties. *)

\* A disabled address is silent and stays so: nothing is delivered to it, its
\* operator neither counts nor prints nor sends any more, and its actor can
\* only be deleted, once; no later message brings the address back to life.
DisabledForever ==
    [][\A a \in Addr : tree[a] = "disabled" =>
          /\ tree'[a] = "disabled"
          /\ inbox'[a] = <<>>
          /\ UNCHANGED <<numRcvEos[a], curCnt[a], outPayload[a]>>
          /\ life'[a] # life[a] => life[a] = "alive" /\ life'[a] = "freed"]_vars

\* handle_child_termination asserts that its caller is in the index: an actor
\* asks for its termination only while it is live.
OnlyLiveActorsCancel ==
    [][\A a \in Addr : terminating'[a] # terminating[a] => tree[a] = "live"]_vars

-----------------------------------------------------------------------------
(* Why a run ends. *)

\* The messages an actor has yet to take: those it holds, and those for it that
\* the dataflow has yet to deliver.
Undelivered(a, box) == {i \in 1..Len(box) : box[i].type = "USER" /\ box[i].to = a}

Load(a) == Len(inbox[a]) + Cardinality(Undelivered(a, mailbox))

Scheduled == Len(taskQueue) + (IF pc = "actor" THEN 1 ELSE 0)

\* How far the loop in progress is from the next one to take a message or a
\* task: an exhausted slice costs one more turn of the outer loop, and an actor
\* whose slice is exhausted one more activation.
Turn ==
    LET fresh(count) == count + 1 < ExecInterval IN
    CASE pc = "idle"    -> IF mailbox # <<>> THEN 2 ELSE 0
      [] pc = "mailbox" -> IF mailbox # <<>> THEN 1 ELSE IF fresh(dfExecCount) THEN 3 ELSE 5
      [] pc = "tasks"   -> IF fresh(dfExecCount) THEN 2 ELSE 4
      [] pc = "actor"   -> IF fresh(execCount) THEN 1 ELSE 6

Measure == [load |-> [a \in Addr |-> Load(a)],
            rest |-> <<Len(mailbox), Scheduled, Turn>>]

\* One load less, where only the operator downstream may gain; or the same
\* loads, and the first of the three other numbers that differs is smaller.
Lower(new, old) ==
    \/ \E a \in Addr :
          /\ new.load[a] < old.load[a]
          /\ \A b \in Addr : new.load[b] > old.load[b] => b = Downstream[a]
    \/ /\ new.load = old.load
       /\ \E k \in 1..3 :
             /\ new.rest[k] < old.rest[k]
             /\ \A i \in 1..(k - 1) : new.rest[i] = old.rest[i]

\* A run never spins: every step of the engine uses up something it cannot get
\* back without using up more of what comes before, although slices expire,
\* actors that yield are activated again, and operators send more messages
\* than they take.
RunsDescend == [][pc # "idle" => Lower(Measure', Measure)]_vars

-----------------------------------------------------------------------------
(* What the dataflow promises about the lives of its actors. *)

\* The life of an address as the pool sees it.
Phase(a) ==
    IF life[a] = "alive" THEN (IF terminating[a] THEN "stopping" ELSE "live")
    ELSE IF life[a] = "freed" \/ tree[a] = "disabled" THEN "gone"
    ELSE "absent"

Pool == INSTANCE ActorPool WITH
            Member   <- Addr,
            Scope    <- {Under[p] : p \in Prefix} \cup {{a} : a \in Addr},
            phase    <- [a \in Addr |-> Phase(a)],
            stopping <- numTerminating

\* Cancellations, stops and self-terminations stop exactly the live actors of
\* one scope, or of one address, at a time, whatever else is in progress; and
\* every actor lives once, from its creation to its deletion.
ImplementsPool == Pool!PoolSpec

-----------------------------------------------------------------------------
(* Liveness, under FairSpec. *)

\* A run ends, whatever was enqueued before it and however often the slice
\* expires, and it ends with every message consumed and every stopped actor
\* deleted.
RunReturns ==
    pc # "idle" ~> pc = "idle" /\ mailbox = <<>> /\ taskQueue = <<>> /\ Stopping = {}

\* The same with a host that never stops calling run_and_dispose.
HostedSpec == FairSpec /\ WF_vars(RunAndDispose)

-----------------------------------------------------------------------------
(* What comments of the code promise, and the code does not keep. *)

\* art_disable, "Disable a prefix and all its descendants": a CANCEL_SCOPE that
\* the dataflow has processed leaves every address of the scope disabled.
\* Broken when the index is still empty: art_disable reports success and
\* records nothing, and the next message creates the cancelled actor.
CancelScopeDisables ==
    [][\A p \in Prefix :
          /\ pc = "mailbox" /\ mailbox # <<>>
          /\ Head(mailbox) = [type |-> "CANCEL_SCOPE", prefix |-> p]
          /\ PrefixLen[p] > PrefixLen[OwnPrefix]
          => \A a \in Under[p] : tree'[a] = "disabled"]_vars

\* handle_stop_from_parent, "Parent may be waiting for its terminated response.
\* Activate self to do this": a stopped dataflow is activated in the end.
\* Broken when an actor is alive at the stop: the last actor to terminate only
\* decrements the counter, and nobody activates the dataflow.
StopAnswersParent == dfTerminating ~> dfActive
=============================================================================
