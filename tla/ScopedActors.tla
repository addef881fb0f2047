---------------------------- MODULE ScopedActors ----------------------------
(***************************************************************************)
(* The actors of a dataflow over the radix tree that indexes them: the     *)
(* tree decides which actor a message reaches, whether one is created and  *)
(* which actors a cancellation stops, while the actors are scheduled, ask  *)
(* for their termination and are deleted.                                  *)
(*                                                                         *)
(* What the operators compute is left out: a message in a mailbox is any   *)
(* work, and any work may end with CancelMe.  Messages are taken from the  *)
(* dataflow's mailbox between any two tasks, as when the slice expires.    *)
(***************************************************************************)
EXTENDS ArtIndex

CONSTANTS
    OwnAddr,        \* dataflow::_address
    NoActor         \* nobody runs

ASSUME ScopeAssumption ==
    Addr \cup {OwnAddr} \subseteq Prefix /\ NoActor \notin Addr

VARIABLES
    life,           \* an actor's storage: none, alive, freed
    terminating,    \* actors with _terminating set
    active,         \* actors with _is_active set
    hasMail,        \* actors with messages in _mailbox
    taskQueue,      \* dataflow::_task_queue
    numTerminating, \* dataflow::_num_terminating_children
    dfTerminating,  \* dataflow::_terminating
    running         \* the actor whose run_and_dispose is executing

groupVars == <<vars, life, terminating, active, hasMail, taskQueue,
               numTerminating, dfTerminating, running>>

GroupInit ==
    /\ Init
    /\ life = [a \in Addr |-> "none"]
    /\ terminating = {} /\ active = {} /\ hasMail = {}
    /\ taskQueue = <<>> /\ numTerminating = 0
    /\ dfTerminating = FALSE /\ running = NoActor

\* actor_base::activate, on several actors in some order.
Activate(S) ==
    /\ active' = active \cup S
    /\ \E order \in SetToSeqs(S \ active) : taskQueue' = taskQueue \o order

\* stateless_actor::handle_stop_from_parent on the actors S.
StopActors(S) ==
    LET stopping == S \ terminating
    IN  /\ terminating' = terminating \cup S
        /\ hasMail' = hasMail \ stopping
        /\ Activate(stopping)

\* dataflow::handle_scope_cancellation: every actor that the iteration of the
\* tree reaches is counted and stopped, then the prefix is disabled.
HandleScopeCancellation(p) ==
    LET reached == {a \in Addr : LoadKey(a) \in Reached(p)}
    IN  /\ numTerminating' = numTerminating + Cardinality(reached)
        /\ StopActors(reached)
        /\ Disable(p)
        /\ UNCHANGED <<life, running>>

-----------------------------------------------------------------------------
(* The dataflow, between two tasks. *)

Deliver(a) ==
    /\ hasMail' = hasMail \cup {a}
    /\ Activate({a})
    /\ UNCHANGED <<terminating, numTerminating, dfTerminating, running>>

MessageToActor(a) ==
    /\ running = NoActor /\ Lookup(a) = 1
    /\ Deliver(a)
    /\ UNCHANGED <<vars, life>>

MessageToNobody(a) ==
    /\ running = NoActor /\ Lookup(a) = 0
    /\ life' = [life EXCEPT ![a] = "alive"]
    /\ Insert(a)
    /\ Deliver(a)

MessageToDisabled(a) ==
    /\ running = NoActor /\ Lookup(a) = -1
    /\ UNCHANGED groupVars

CancelScope(p) ==
    /\ running = NoActor /\ Len(p) > Len(OwnAddr)
    /\ HandleScopeCancellation(p)
    /\ UNCHANGED dfTerminating

\* The host stops the dataflow between two runs.
HandleStopFromParent ==
    /\ running = NoActor /\ taskQueue = <<>> /\ ~dfTerminating
    /\ dfTerminating' = TRUE
    /\ HandleScopeCancellation(OwnAddr)

RunTask ==
    /\ running = NoActor /\ taskQueue # <<>>
    /\ running' = Head(taskQueue) /\ taskQueue' = Tail(taskQueue)
    /\ UNCHANGED <<vars, life, terminating, active, hasMail, numTerminating,
                   dfTerminating>>

-----------------------------------------------------------------------------
(* stateless_actor::run_and_dispose. *)

\* Messages are handled; the last one may leave the mailbox empty.
DoWork(a) ==
    /\ running = a /\ a \in hasMail
    /\ hasMail' = hasMail \ {a}
    /\ UNCHANGED <<vars, life, terminating, active, taskQueue, numTerminating,
                   dfTerminating, running>>

\* handle_child_termination, when the work is done: an address that is disabled
\* already is left alone, like after any other work.
CancelMe(a) ==
    /\ running = a /\ a \in hasMail /\ Lookup(a) = 1
    /\ numTerminating' = numTerminating + 1
    /\ Disable(a)
    /\ StopActors({a})
    /\ UNCHANGED <<life, dfTerminating, running>>

Leave(a) ==
    /\ running = a /\ running' = NoActor
    /\ UNCHANGED <<vars, terminating, dfTerminating>>

\* handle_child_terminated, then delete this.
Terminated(a) ==
    /\ Leave(a)
    /\ a \in terminating
    /\ numTerminating' = numTerminating - 1
    /\ life' = [life EXCEPT ![a] = "freed"]
    /\ hasMail' = hasMail \ {a} /\ active' = active \ {a}
    /\ UNCHANGED taskQueue

\* No message is left, or the slice is used up and the actor activates itself.
Yield(a) ==
    /\ Leave(a)
    /\ a \notin terminating
    /\ active' = IF a \in hasMail THEN active ELSE active \ {a}
    /\ taskQueue' = IF a \in hasMail THEN Append(taskQueue, a) ELSE taskQueue
    /\ UNCHANGED <<numTerminating, life, hasMail>>

GroupNext ==
    \/ \E a \in Addr :
          \/ MessageToActor(a) \/ MessageToNobody(a) \/ MessageToDisabled(a)
          \/ DoWork(a) \/ CancelMe(a) \/ Terminated(a) \/ Yield(a)
    \/ \E p \in Prefix : CancelScope(p)
    \/ HandleStopFromParent
    \/ RunTask

GroupSpec == GroupInit /\ [][GroupNext]_groupVars

-----------------------------------------------------------------------------
(* Properties. *)

\* process_mailbox, "actor exists": the pointer that lookup returns is that of
\* an actor which has not been deleted.  Broken when two groups lie side by
\* side: a cancellation stops an actor outside its scope, which is deleted when
\* it has run and stays in the tree.
ActorsExist == \A a \in Addr : Lookup(a) = 1 => life[a] = "alive"

Phase(a) ==
    IF life[a] = "alive" THEN (IF a \in terminating THEN "stopping" ELSE "live")
    ELSE IF life[a] = "freed" \/ Lookup(a) = -1 THEN "gone"
    ELSE "absent"

Pool == INSTANCE ActorPool WITH
            Member   <- Addr,
            Scope    <- {{a \in Addr : IsPrefix(p, a)} : p \in Prefix},
            phase    <- [a \in Addr |-> Phase(a)],
            stopping <- numTerminating

\* A cancellation stops and bars exactly the actors of its scope, although the
\* tree keeps prefixes in nodes, in shortened leaves and in part; and every
\* actor lives once.
ImplementsPool == Pool!PoolSpec
=============================================================================
