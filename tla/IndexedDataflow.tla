--------------------------- MODULE IndexedDataflow ---------------------------
(***************************************************************************)
(* The dataflow together with the index it keeps its actors in, as module  *)
(* PrefixIndex describes it: a set of keys and a set of disabled prefixes, *)
(* both of bytes.  Each step of the dataflow that calls the index makes    *)
(* the same call here.  Dataflow decides with one word per address; this   *)
(* module says that the index would have given the same answer.            *)
(***************************************************************************)
EXTENDS Dataflow

CONSTANTS
    AddrBytes,      \* address -> its bytes
    PrefixBytes     \* prefix -> its bytes

Byte == 0..255

\* radix_tree_index::loadKey ends a key with a zero byte; loadPrefix adds none.
KeyOf(a) == Append(AddrBytes[a], 0)

\* Fields of an address have fixed widths, and what follows a prefix is below it.
ASSUME BytesAssumption ==
    /\ AddrBytes \in [Addr -> Seq(Byte)] /\ PrefixBytes \in [Prefix -> Seq(Byte)]
    /\ \A p \in Prefix : PrefixLen[p] = Len(PrefixBytes[p])
    /\ \A p \in Prefix : Under[p] = {a \in Addr : IsPrefix(PrefixBytes[p], KeyOf(a))}
    /\ \A a, b \in Addr : IsPrefix(AddrBytes[a], KeyOf(b)) => a = b

VARIABLES
    active,         \* the keys that map to an actor
    disabled        \* the prefixes that have been disabled

indexVars == <<active, disabled>>

Index == INSTANCE PrefixIndex WITH
            Key       <- {KeyOf(a) : a \in Addr},
            PrefixKey <- {PrefixBytes[p] : p \in Prefix} \cup {AddrBytes[a] : a \in Addr}

-----------------------------------------------------------------------------
(* The calls of the dataflow, whatever the index holds. *)

CallInsert(a) == active' = active \cup {KeyOf(a)} /\ UNCHANGED disabled

\* An empty index records nothing, and a prefix below a disabled one adds nothing.
CallDisable(p) ==
    \/ Index!IndexDisable(p)
    \/ /\ active \cup disabled = {} \/ Index!Below(p, disabled)
       /\ UNCHANGED indexVars

CallsNothing == UNCHANGED indexVars

-----------------------------------------------------------------------------
IndexedInit == Init /\ Index!IndexInit

IndexedHost ==
    \/ \E m \in HostMessage : HostEnqueue(m) /\ CallsNothing
    \/ \E m \in HostMessage : HostEnqueueUrgent(m) /\ CallsNothing
    \/ HandleStopFromParent /\ CallDisable(PrefixBytes[OwnPrefix])

IndexedMailbox ==
    \/ UserToLive /\ CallsNothing
    \/ UserToAbsent /\ CallInsert(Head(mailbox).to)
    \/ UserToDisabled /\ CallsNothing
    \/ CancelScope /\ CallDisable(PrefixBytes[Head(mailbox).prefix])
    \/ DropControl /\ CallsNothing
    \/ MailboxEmpty /\ CallsNothing

\* handle_child_termination disables the address of the actor it then stops.
IndexedWork(a) ==
    /\ DoWork(a)
    /\ IF terminating'[a] # terminating[a] THEN CallDisable(AddrBytes[a]) ELSE CallsNothing

IndexedNext ==
    \/ IndexedHost
    \/ RunAndDispose /\ CallsNothing
    \/ IndexedMailbox
    \/ TaskLoop /\ CallsNothing
    \/ \E a \in Addr :
          \/ IndexedWork(a)
          \/ Terminated(a) /\ CallsNothing
          \/ Yield(a) /\ CallsNothing

IndexedSpec == IndexedInit /\ [][IndexedNext]_<<vars, indexVars>>

\* As FairSpec: a run in progress keeps taking steps.
IndexedFairSpec == IndexedSpec /\ WF_vars(Engine)

-----------------------------------------------------------------------------
(* The index and the words of Dataflow agree. *)

\* At any time lookup would answer in the index what Dataflow takes it to, and
\* the actors a cancellation iterates over are those of the active keys below its
\* prefix: although prefixes nest and overlap, are disabled twice or before any
\* actor exists, and one disabled prefix swallows those below it.
IndexAgrees ==
    /\ \A a \in Addr : Index!Answer(KeyOf(a)) = Lookup(a)
    /\ \A p \in Prefix :
          {k \in active : IsPrefix(PrefixBytes[p], k)} = {KeyOf(a) : a \in LiveIn(Under[p])}

\* The dataflow keeps the contract of the index: it never inserts a key below a
\* prefix that is disabled, where the tree would hide or lose the actor.
KeepsContract == Index!IndexSpec
=============================================================================
