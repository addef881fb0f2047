---------------------------- MODULE IndexedProofs ----------------------------
(***************************************************************************)
(* The dataflow and its index agree at any time, whatever plan its         *)
(* addresses spell and whatever is cancelled in whichever order.           *)
(***************************************************************************)
EXTENDS IndexedDataflow, DataflowProofs

-----------------------------------------------------------------------------
(* Prefixes. *)

\* A prefix has the first elements of what it is a prefix of.
LEMMA PrefixByElements ==
  ASSUME NEW S, NEW s \in Seq(S), NEW t \in Seq(S)
  PROVE  IsPrefix(s, t) <=> Len(s) <= Len(t) /\ \A i \in 1..Len(s) : s[i] = t[i]
<1>1. /\ Len(s) \in Nat /\ Len(t) \in Nat
      /\ s = [i \in 1..Len(s) |-> s[i]]
  BY LenProperties
<1>2. SubSeq(s, 1, Len(s)) = s
  BY <1>1, SubSeqProperties
<1>3. ASSUME Len(s) <= Len(t)
      PROVE  SubSeq(t, 1, Len(s)) = [i \in 1..Len(s) |-> t[i]]
  BY <1>1, <1>3, SubSeqProperties
<1>4. QED
  BY <1>1, <1>2, <1>3 DEF IsPrefix

LEMMA PrefixOrder ==
  ASSUME NEW S, NEW p \in Seq(S), NEW q \in Seq(S), NEW r \in Seq(S)
  PROVE  /\ IsPrefix(p, p)
         /\ IsPrefix(p, q) /\ IsPrefix(q, r) => IsPrefix(p, r)
<1>1. Len(p) \in Nat /\ Len(q) \in Nat /\ Len(r) \in Nat
  BY LenProperties
<1>2. IsPrefix(p, p)
  BY <1>1, PrefixByElements
<1>3. ASSUME IsPrefix(p, q), IsPrefix(q, r)
      PROVE  IsPrefix(p, r)
  <2>1. /\ Len(p) <= Len(q) /\ \A i \in 1..Len(p) : p[i] = q[i]
        /\ Len(q) <= Len(r) /\ \A i \in 1..Len(q) : q[i] = r[i]
    BY <1>3, PrefixByElements
  <2>2. Len(p) <= Len(r) /\ \A i \in 1..Len(p) : p[i] = r[i]
    BY <1>1, <2>1
  <2>3. QED
    BY <2>2, PrefixByElements
<1>4. QED
  BY <1>2, <1>3

\* The index compares bytes as the dataflow does.
LEMMA SamePrefix == \A s, t : Index!IsPrefix(s, t) <=> IsPrefix(s, t)
BY DEF Index!IsPrefix, IsPrefix

LEMMA BelowFacts ==
  ASSUME NEW k, NEW P
  PROVE  Index!Below(k, P) <=> \E q \in P : IsPrefix(q, k)
BY SamePrefix DEF Index!Below

LEMMA KeyFacts ==
  ASSUME NEW a \in Addr
  PROVE  /\ KeyOf(a) \in Seq(Byte) /\ AddrBytes[a] \in Seq(Byte)
         /\ IsPrefix(AddrBytes[a], KeyOf(a))
<1>1. AddrBytes[a] \in Seq(Byte) /\ 0 \in Byte
  BY BytesAssumption DEF Byte
<1>2. /\ KeyOf(a) \in Seq(Byte) /\ Len(KeyOf(a)) = Len(AddrBytes[a]) + 1
      /\ \A i \in 1..Len(AddrBytes[a]) : KeyOf(a)[i] = AddrBytes[a][i]
  BY <1>1, AppendProperties DEF KeyOf
<1>3. Len(AddrBytes[a]) <= Len(KeyOf(a))
  BY <1>1, <1>2, LenProperties
<1>4. QED
  BY <1>1, <1>2, <1>3, PrefixByElements

\* Two actors have two keys, and the address of an actor is above its own key alone.
LEMMA KeysDiffer ==
  ASSUME NEW a \in Addr, NEW b \in Addr
  PROVE  /\ KeyOf(a) = KeyOf(b) => a = b
         /\ IsPrefix(AddrBytes[a], KeyOf(b)) <=> a = b
BY BytesAssumption, KeyFacts

-----------------------------------------------------------------------------
(* The inductive invariant: what the index holds, in the words of Dataflow. *)

\* Live addresses are the active keys, disabled ones the keys below a disabled
\* prefix, and the index is empty when nothing was ever inserted.
Mirrors ==
    /\ active \subseteq {KeyOf(a) : a \in Addr}
    /\ disabled \subseteq Seq(Byte)
    /\ \A a \in Addr : tree[a] = "live" <=> KeyOf(a) \in active
    /\ \A a \in Addr : tree[a] = "disabled" <=> \E q \in disabled : IsPrefix(q, KeyOf(a))
    /\ TreeEmpty => disabled = {}

\* An index that holds nothing is one without an actor, past or present.
LEMMA EmptyMirrors ==
  ASSUME TypeOK, Mirrors
  PROVE  TreeEmpty <=> active \cup disabled = {}
<1>1. ASSUME TreeEmpty
      PROVE  active \cup disabled = {}
  BY <1>1 DEF Mirrors, TreeEmpty
<1>2. ASSUME ~TreeEmpty
      PROVE  active \cup disabled # {}
  <2>1. PICK a \in Addr : tree[a] # "absent"
    BY <1>2 DEF TreeEmpty
  <2>2. tree[a] = "live" \/ tree[a] = "disabled"
    BY <2>1 DEF TypeOK
  <2>3. QED
    BY <2>2 DEF Mirrors
<1>3. QED
  BY <1>1, <1>2

LEMMA AnswerMirrors ==
  ASSUME TypeOK, Mirrors, NEW a \in Addr
  PROVE  Index!Answer(KeyOf(a)) = Lookup(a)
<1>1. Index!Below(KeyOf(a), disabled) <=> tree[a] = "disabled"
  BY BelowFacts DEF Mirrors
<1>2. KeyOf(a) \in active <=> tree[a] = "live"
  BY DEF Mirrors
<1>3. tree[a] \in {"absent", "live", "disabled"}
  BY DEF TypeOK
<1>4. QED
  BY <1>1, <1>2, <1>3 DEF Index!Answer, Lookup

\* A step that leaves both alone.
LEMMA StillMirrors ==
  ASSUME Mirrors, UNCHANGED <<tree, active, disabled>>
  PROVE  Mirrors'
BY DEF Mirrors, TreeEmpty

\* The first message to an address makes its key active; it is below no disabled
\* prefix.
LEMMA InsertMirrors ==
  ASSUME TypeOK, Mirrors, NEW a \in Addr, tree[a] = "absent",
         tree' = [tree EXCEPT ![a] = "live"], CallInsert(a)
  PROVE  Mirrors' /\ Index!IndexInsert(KeyOf(a))
<1>1. active' = active \cup {KeyOf(a)} /\ disabled' = disabled
  BY DEF CallInsert
<1>2. \A b \in Addr : tree'[b] = IF b = a THEN "live" ELSE tree[b]
  BY DEF TypeOK
<1>3. Index!Answer(KeyOf(a)) # -1
  BY AnswerMirrors DEF Lookup
<1>4. Index!IndexInsert(KeyOf(a))
  BY <1>1, <1>3 DEF Index!IndexInsert
<1>5. active' \subseteq {KeyOf(b) : b \in Addr} /\ disabled' \subseteq Seq(Byte)
  BY <1>1 DEF Mirrors
<1>6. ASSUME NEW b \in Addr
      PROVE  /\ tree'[b] = "live" <=> KeyOf(b) \in active'
             /\ tree'[b] = "disabled" <=> \E q \in disabled' : IsPrefix(q, KeyOf(b))
  <2>1. CASE b = a
    BY <1>1, <1>2, <2>1 DEF Mirrors
  <2>2. CASE b # a
    <3>1. KeyOf(b) # KeyOf(a)
      BY <2>2, KeysDiffer
    <3>2. QED
      BY <1>1, <1>2, <2>2, <3>1 DEF Mirrors
  <2>3. QED
    BY <2>1, <2>2
<1>7. ~TreeEmpty'
  BY <1>2 DEF TreeEmpty
<1>8. QED
  BY <1>4, <1>5, <1>6, <1>7 DEF Mirrors

\* Disabling a prefix disables the addresses below it, as in Dataflow: nothing
\* happens in an empty index, and below a disabled prefix all are disabled already.
LEMMA DisableMirrors ==
  ASSUME TypeOK, Mirrors, NEW p \in Seq(Byte), NEW S \in SUBSET Addr,
         \A a \in Addr : a \in S <=> IsPrefix(p, KeyOf(a)),
         tree' = Disable(S), CallDisable(p)
  PROVE  Mirrors' /\ (Index!IndexDisable(p) \/ UNCHANGED indexVars)
<1>1. CASE TreeEmpty
  <2>1. tree' = tree
    BY <1>1 DEF Disable
  <2>2. active \cup disabled = {}
    BY <1>1, EmptyMirrors
  <2>3. UNCHANGED indexVars
    BY <2>2 DEF CallDisable, Index!IndexDisable
  <2>4. QED
    BY <2>1, <2>3, StillMirrors DEF indexVars
<1>2. CASE ~TreeEmpty
  <2>1. \A a \in Addr : tree'[a] = IF a \in S THEN "disabled" ELSE tree[a]
    BY <1>2 DEF Disable
  <2>2. active \cup disabled # {}
    BY <1>2, EmptyMirrors
  <2>3. ~TreeEmpty'
    BY <1>2, <2>1 DEF TreeEmpty
  <2>4. CASE Index!IndexDisable(p)
    <3>1. /\ active' = {k \in active : ~IsPrefix(p, k)}
          /\ disabled' = {q \in disabled : ~IsPrefix(p, q)} \cup {p}
      BY <2>4, SamePrefix DEF Index!IndexDisable
    <3>2. active' \subseteq {KeyOf(b) : b \in Addr} /\ disabled' \subseteq Seq(Byte)
      BY <3>1 DEF Mirrors
    <3>3. ASSUME NEW a \in Addr
          PROVE  tree'[a] = "live" <=> KeyOf(a) \in active'
      BY <2>1, <3>1, <3>3 DEF Mirrors
    <3>4. ASSUME NEW a \in Addr, a \in S
          PROVE  \E q \in disabled' : IsPrefix(q, KeyOf(a))
      BY <3>1, <3>4
    <3>5. ASSUME NEW a \in Addr, a \notin S
          PROVE  (\E q \in disabled' : IsPrefix(q, KeyOf(a)))
                    <=> \E q \in disabled : IsPrefix(q, KeyOf(a))
      <4>1. ASSUME NEW q \in disabled, IsPrefix(q, KeyOf(a))
            PROVE  q \in disabled'
        <5>1. q \in Seq(Byte) /\ KeyOf(a) \in Seq(Byte)
          BY KeyFacts DEF Mirrors
        <5>2. ~IsPrefix(p, q)
          BY <3>5, <4>1, <5>1, PrefixOrder
        <5>3. QED
          BY <3>1, <5>2
      <4>2. ASSUME NEW q \in disabled', IsPrefix(q, KeyOf(a))
            PROVE  q \in disabled
        BY <3>1, <3>5, <4>2
      <4>3. QED
        BY <4>1, <4>2
    <3>6. ASSUME NEW a \in Addr
          PROVE  tree'[a] = "disabled" <=> \E q \in disabled' : IsPrefix(q, KeyOf(a))
      <4>1. CASE a \in S
        BY <2>1, <3>4, <4>1
      <4>2. CASE a \notin S
        BY <2>1, <3>5, <4>2 DEF Mirrors
      <4>3. QED
        BY <4>1, <4>2
    <3>7. QED
      BY <2>3, <2>4, <3>2, <3>3, <3>6 DEF Mirrors
  <2>5. CASE ~Index!IndexDisable(p)
    <3>1. UNCHANGED indexVars /\ Index!Below(p, disabled)
      BY <2>2, <2>5 DEF CallDisable
    <3>2. PICK q \in disabled : IsPrefix(q, p)
      BY <3>1, BelowFacts
    <3>3. ASSUME NEW a \in S
          PROVE  tree[a] = "disabled"
      <4>1. q \in Seq(Byte) /\ KeyOf(a) \in Seq(Byte) /\ IsPrefix(p, KeyOf(a))
        BY <3>3, KeyFacts DEF Mirrors
      <4>2. IsPrefix(q, KeyOf(a))
        BY <3>2, <4>1, PrefixOrder
      <4>3. QED
        BY <4>2 DEF Mirrors
    <3>4. \A a \in Addr : tree'[a] = tree[a]
      BY <2>1, <3>3
    <3>5. Mirrors'
      BY <2>3, <3>1, <3>4 DEF Mirrors, indexVars
    <3>6. QED
      BY <3>1, <3>5
  <2>6. QED
    BY <2>4, <2>5
<1>3. QED
  BY <1>1, <1>2

\* The scopes of a plan are what lies below their bytes.
LEMMA ScopeMirrors ==
  ASSUME TypeOK, Mirrors, NEW p \in Prefix, HandleScopeCancellation(p),
         CallDisable(PrefixBytes[p])
  PROVE  Mirrors' /\ (Index!IndexDisable(PrefixBytes[p]) \/ UNCHANGED indexVars)
<1>1. PrefixBytes[p] \in Seq(Byte) /\ Under[p] \in SUBSET Addr
  BY BytesAssumption, PlanAssumption
<1>2. \A a \in Addr : a \in Under[p] <=> IsPrefix(PrefixBytes[p], KeyOf(a))
  BY BytesAssumption
<1>3. tree' = Disable(Under[p])
  BY DEF HandleScopeCancellation
<1>4. QED
  BY <1>1, <1>2, <1>3, DisableMirrors

\* An actor that asks for its termination has its own address disabled, and only that.
LEMMA WorkMirrors ==
  ASSUME Inv, Mirrors, NEW a \in Addr, IndexedWork(a)
  PROVE  Mirrors' /\ (Index!IndexDisable(AddrBytes[a]) \/ UNCHANGED indexVars)
<1>1. TypeOK
  BY DEF Inv
<1>2. Working(a) /\ (CancelMe(a) \/ Available(a))
  BY DEF IndexedWork, DoWork, OutData, OutLastEos, LimitDiscard, LimitData, LimitLastEos,
         EarlierEos, UndefinedData
<1>3. CASE Available(a)
  <2>1. tree' = tree /\ terminating' = terminating
    BY <1>3 DEF Available, stopVars
  <2>2. UNCHANGED indexVars
    BY <2>1 DEF IndexedWork, CallsNothing
  <2>3. QED
    BY <2>1, <2>2, StillMirrors DEF indexVars
<1>4. CASE CancelMe(a)
  <2>1. tree[a] = "live" /\ ~terminating[a]
    BY <1>2 DEF Inv, Consistent, IndexSound, NoLostWakeUp, Working
  <2>2. StopActors({a}, Popped(a)) /\ tree' = Disable({a})
    BY <1>4, <2>1 DEF CancelMe, HandleChildTermination, Lookup
  <2>3. terminating'[a]
    BY <2>2 DEF StopActors
  <2>4. CallDisable(AddrBytes[a])
    BY <2>1, <2>3 DEF IndexedWork
  <2>5. PICK S \in SUBSET Addr : S = {a}
    OBVIOUS
  <2>6. \A b \in Addr : b \in S <=> IsPrefix(AddrBytes[a], KeyOf(b))
    BY <2>5, KeysDiffer
  <2>7. AddrBytes[a] \in Seq(Byte)
    BY KeyFacts
  <2>8. QED
    BY <1>1, <2>2, <2>4, <2>5, <2>6, <2>7, DisableMirrors
<1>5. QED
  BY <1>2, <1>3, <1>4

\* Every step keeps the mirror, and is a step of the index or none.
LEMMA MirrorStep ==
  ASSUME Inv, Mirrors, [IndexedNext]_<<vars, indexVars>>
  PROVE  Mirrors' /\ [Index!IndexNext]_(Index!indexVars)
<1> DEFINE Bytes == {PrefixBytes[p] : p \in Prefix} \cup {AddrBytes[a] : a \in Addr}
<1>1. TypeOK
  BY DEF Inv
<1>2. ASSUME NEW p \in Bytes, Index!IndexDisable(p) \/ UNCHANGED indexVars
      PROVE  [Index!IndexNext]_(Index!indexVars)
  BY <1>2 DEF Index!IndexNext, Index!indexVars, indexVars
<1>3. \A p \in Prefix : PrefixBytes[p] \in Bytes
  OBVIOUS
<1>4. \A a \in Addr : AddrBytes[a] \in Bytes
  OBVIOUS
<1> HIDE DEF Bytes
<1>5. ASSUME tree' = tree, CallsNothing
      PROVE  Mirrors' /\ [Index!IndexNext]_(Index!indexVars)
  BY <1>5, StillMirrors DEF CallsNothing, indexVars, Index!indexVars
<1>6. ASSUME NEW p \in Prefix, HandleScopeCancellation(p), CallDisable(PrefixBytes[p])
      PROVE  Mirrors' /\ [Index!IndexNext]_(Index!indexVars)
  BY <1>1, <1>2, <1>3, <1>6, ScopeMirrors
<1>7. ASSUME Receiving
      PROVE  Head(mailbox) \in Message
  BY <1>1, <1>7, HeadTailProperties DEF TypeOK, Receiving
<1>8. CASE UNCHANGED <<vars, indexVars>>
  BY <1>5, <1>8 DEF vars, CallsNothing
<1>9. CASE IndexedHost
  <2>1. ASSUME NEW m \in HostMessage, HostEnqueue(m) \/ HostEnqueueUrgent(m)
        PROVE  tree' = tree
    BY <2>1 DEF HostEnqueue, HostEnqueueUrgent, stopVars
  <2>2. CASE HandleStopFromParent /\ CallDisable(PrefixBytes[OwnPrefix])
    BY <1>6, <2>2, PlanAssumption DEF HandleStopFromParent
  <2>3. QED
    BY <1>5, <1>9, <2>1, <2>2 DEF IndexedHost
<1>10. CASE RunAndDispose /\ CallsNothing
  BY <1>5, <1>10 DEF RunAndDispose, stopVars
<1>11. CASE IndexedMailbox
  <2>1. CASE (UserToLive \/ UserToDisabled \/ DropControl \/ MailboxEmpty) /\ CallsNothing
    BY <1>5, <2>1 DEF UserToLive, UserToDisabled, DropControl, MailboxEmpty, stopVars
  <2>2. CASE UserToAbsent /\ CallInsert(Head(mailbox).to)
    <3> DEFINE a == Head(mailbox).to
    <3>1. Head(mailbox) \in UserMessage /\ Lookup(a) = 0
      BY <1>7, <2>2, MessageFacts DEF UserToAbsent
    <3>2. a \in Addr /\ tree[a] = "absent"
      BY <3>1 DEF UserMessage, Lookup
    <3>3. tree' = [tree EXCEPT ![a] = "live"] /\ CallInsert(a)
      BY <2>2 DEF UserToAbsent
    <3> HIDE DEF a
    <3>4. Mirrors' /\ Index!IndexInsert(KeyOf(a))
      BY <1>1, <3>2, <3>3, InsertMirrors
    <3>5. QED
      BY <3>2, <3>4 DEF Index!IndexNext
  <2>3. CASE CancelScope /\ CallDisable(PrefixBytes[Head(mailbox).prefix])
    <3> DEFINE p == Head(mailbox).prefix
    <3>1. p \in Prefix /\ HandleScopeCancellation(p) /\ CallDisable(PrefixBytes[p])
      BY <1>7, <2>3, MessageFacts DEF CancelScope
    <3> HIDE DEF p
    <3>2. QED
      BY <1>6, <3>1
  <2>4. QED
    BY <1>11, <2>1, <2>2, <2>3 DEF IndexedMailbox
<1>12. CASE TaskLoop /\ CallsNothing
  BY <1>5, <1>12 DEF TaskLoop, RunTask, TasksExpired, TasksDone, stopVars
<1>13. ASSUME NEW a \in Addr, IndexedWork(a)
       PROVE  Mirrors' /\ [Index!IndexNext]_(Index!indexVars)
  BY <1>2, <1>4, <1>13, WorkMirrors
<1>14. ASSUME NEW a \in Addr, (Terminated(a) \/ Yield(a)) /\ CallsNothing
       PROVE  Mirrors' /\ [Index!IndexNext]_(Index!indexVars)
  BY <1>5, <1>14 DEF Terminated, Yield, LeaveLoop
<1>15. QED
  BY <1>8, <1>9, <1>10, <1>11, <1>12, <1>13, <1>14 DEF IndexedNext

-----------------------------------------------------------------------------
(* The theorems. *)

\* What is proved of Spec may be used here: each step below is one of Dataflow, and a
\* call of the index beside it.
LEMMA NextIsNext ==
  ASSUME [IndexedNext]_<<vars, indexVars>>
  PROVE  [Next]_vars
BY DEF IndexedNext, IndexedHost, IndexedMailbox, IndexedWork, Next, Host, Engine,
       ProcessMailbox, TaskLoop, ActorRun

LEMMA IndexedIsDataflow == IndexedSpec => Spec
<1>1. IndexedInit => Init
  BY DEF IndexedInit
<1>2. [IndexedNext]_<<vars, indexVars>> => [Next]_vars
  BY NextIsNext
<1>3. QED
  BY <1>1, <1>2, PTL DEF IndexedSpec, Spec

LEMMA MirrorsInitially ==
  ASSUME IndexedInit
  PROVE  Mirrors /\ Index!IndexInit
BY DEF IndexedInit, Init, Index!IndexInit, Mirrors

LEMMA MirrorsHold == IndexedSpec => []Mirrors
<1>1. Inv /\ Mirrors /\ [IndexedNext]_<<vars, indexVars>> => Mirrors'
  BY MirrorStep
<1>2. IndexedInit => Mirrors
  BY MirrorsInitially
<1>3. QED
  BY <1>1, <1>2, IndexedIsDataflow, Invariance, PTL DEF IndexedSpec

LEMMA AgreesFromMirrors ==
  ASSUME Inv, Mirrors
  PROVE  IndexAgrees
<1>1. TypeOK
  BY DEF Inv
<1>2. \A a \in Addr : Index!Answer(KeyOf(a)) = Lookup(a)
  BY <1>1, AnswerMirrors
<1>3. ASSUME NEW p \in Prefix
      PROVE  {k \in active : IsPrefix(PrefixBytes[p], k)} = {KeyOf(a) : a \in LiveIn(Under[p])}
  <2>1. ASSUME NEW k \in active, IsPrefix(PrefixBytes[p], k)
        PROVE  k \in {KeyOf(a) : a \in LiveIn(Under[p])}
    <3>1. PICK a \in Addr : k = KeyOf(a)
      BY DEF Mirrors
    <3>2. a \in Under[p] /\ tree[a] = "live"
      BY <2>1, <3>1, BytesAssumption DEF Mirrors
    <3>3. QED
      BY <3>1, <3>2 DEF LiveIn
  <2>2. ASSUME NEW a \in LiveIn(Under[p])
        PROVE  KeyOf(a) \in active /\ IsPrefix(PrefixBytes[p], KeyOf(a))
    <3>1. a \in Under[p] /\ tree[a] = "live" /\ a \in Addr
      BY <2>2, PlanAssumption DEF LiveIn
    <3>2. QED
      BY <3>1, BytesAssumption DEF Mirrors
  <2>3. QED
    BY <2>1, <2>2
<1>4. QED
  BY <1>2, <1>3 DEF IndexAgrees

\* For every plan, graph and host, and whatever bytes its addresses have: the
\* dataflow decides as the index it calls would make it decide, about each
\* address and about the scope of each cancellation.
THEOREM IndexStaysExact == IndexedSpec => []IndexAgrees
<1>1. Inv /\ Mirrors => IndexAgrees
  BY AgreesFromMirrors
<1>2. QED
  BY <1>1, IndexedIsDataflow, Invariance, MirrorsHold, PTL

\* The dataflow uses the index as PrefixIndex allows: no key is inserted below a
\* disabled prefix, whatever was cancelled before.
THEOREM ContractIsKept == IndexedSpec => KeepsContract
<1>1. Inv /\ Mirrors /\ [IndexedNext]_<<vars, indexVars>> => [Index!IndexNext]_(Index!indexVars)
  BY MirrorStep
<1>2. IndexedInit => Index!IndexInit
  BY MirrorsInitially
<1>3. QED
  BY <1>1, <1>2, IndexedIsDataflow, Invariance, MirrorsHold, PTL
     DEF IndexedSpec, KeepsContract, Index!IndexSpec
=============================================================================
