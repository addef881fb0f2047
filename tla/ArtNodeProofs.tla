---------------------------- MODULE ArtNodeProofs ----------------------------
(***************************************************************************)
(* Proofs about ArtNode for all sizes of the layouts, those of the code    *)
(* among them, which are out of the reach of a run.                        *)
(***************************************************************************)
EXTENDS ArtNode, SequenceFacts

-----------------------------------------------------------------------------
(* Bytes and sets of bytes. *)

LEMMA ByteFacts ==
  /\ HalfByte \in Nat /\ Cap4 \in Nat /\ Cap16 \in Nat /\ Cap48 \in Nat
  /\ Low16 \in Nat /\ Low48 \in Nat /\ Low256 \in Nat
  /\ Byte \subseteq Nat /\ NoChild \notin Byte
  /\ IsFiniteSet(Byte) /\ Cardinality(Byte) \in Nat
  /\ 1 < Cap4 /\ Cap4 < Cap16 /\ Cap16 < Cap48 /\ Cap48 < Cardinality(Byte)
  /\ 1 < Low16 /\ Low16 < Cap4
  /\ Low16 < Low48 /\ Low48 < Cap16
  /\ Low48 < Low256 /\ Low256 < Cap48
<1>1. /\ HalfByte \in Nat /\ Cap4 \in Nat /\ Cap16 \in Nat /\ Cap48 \in Nat
      /\ Low16 \in Nat /\ Low48 \in Nat /\ Low256 \in Nat
  BY LayoutAssumption
<1>2. IsFiniteSet(Byte)
  BY <1>1, FS_Interval DEF Byte
<1>3. Cardinality(Byte) \in Nat
  BY <1>2, FS_CardinalityType
<1>4. Byte \subseteq Nat /\ NoChild \notin Byte
  BY <1>1 DEF Byte, NoChild
<1>5. QED
  BY <1>1, <1>2, <1>3, <1>4, LayoutAssumption

\* A set of bytes is finite, and so is each part of it.
LEMMA SetFacts ==
  ASSUME NEW S \in SUBSET Byte
  PROVE  /\ IsFiniteSet(S) /\ Cardinality(S) \in Nat
         /\ Cardinality(S) <= Cardinality(Byte)
         /\ \A c \in Byte \ S : Cardinality(S \cup {c}) = Cardinality(S) + 1
         /\ \A c \in S : Cardinality(S \ {c}) = Cardinality(S) - 1
         /\ Cardinality(S) = 1 <=> \E c \in Byte : S = {c}
<1>1. IsFiniteSet(S) /\ Cardinality(S) <= Cardinality(Byte)
  BY ByteFacts, FS_Subset
<1>2. Cardinality(S) \in Nat
  BY <1>1, FS_CardinalityType
<1>3. ASSUME NEW c \in Byte \ S PROVE Cardinality(S \cup {c}) = Cardinality(S) + 1
  BY <1>1, FS_AddElement
<1>4. ASSUME NEW c \in S PROVE Cardinality(S \ {c}) = Cardinality(S) - 1
  BY <1>1, FS_RemoveElement
<1>5. Cardinality(S) = 1 <=> \E c \in Byte : S = {c}
  BY <1>1, FS_Singleton
<1>6. QED
  BY <1>1, <1>2, <1>3, <1>4, <1>5

\* Ranks number the elements of a set of bytes from one, in their order.
LEMMA RankFacts ==
  ASSUME NEW S \in SUBSET Byte
  PROVE  /\ \A b \in S : Rank(b, S) \in 1..Cardinality(S)
         /\ \A a, b \in S : Rank(a, S) = Rank(b, S) => a = b
         /\ \A i \in 1..Cardinality(S) : \E b \in S : Rank(b, S) = i
<1> DEFINE UpTo(b) == {a \in S : a <= b}
           n == Cardinality(S)
<1>1. S \subseteq Nat /\ IsFiniteSet(S) /\ n \in Nat
  BY ByteFacts, SetFacts
<1>2. ASSUME NEW b \in S
      PROVE  IsFiniteSet(UpTo(b)) /\ Cardinality(UpTo(b)) \in 1..n
  <2>1. UpTo(b) \in SUBSET S /\ b \in UpTo(b)
    BY <1>1
  <2>2. IsFiniteSet(UpTo(b)) /\ Cardinality(UpTo(b)) <= n
    BY <1>1, <2>1, FS_Subset
  <2>3. Cardinality(UpTo(b)) \in Nat /\ Cardinality(UpTo(b)) # 0
    BY <2>1, <2>2, FS_CardinalityType, FS_EmptySet
  <2>4. QED
    BY <1>1, <2>2, <2>3
<1>3. ASSUME NEW a \in S, NEW b \in S, a < b
      PROVE  Cardinality(UpTo(a)) # Cardinality(UpTo(b))
  <2>1. UpTo(a) \in SUBSET UpTo(b)
    <3>1. a \in Nat /\ b \in Nat
      BY <1>1
    <3>2. ASSUME NEW x \in S, x <= a PROVE x <= b
      BY <1>1, <1>3, <3>1, <3>2
    <3>3. QED
      BY <3>2
  <2>2. b \in UpTo(b) /\ b \notin UpTo(a)
    BY <1>1, <1>3
  <2>3. IsFiniteSet(UpTo(b))
    BY <1>2
  <2>4. Cardinality(UpTo(b)) = Cardinality(UpTo(a)) => UpTo(b) = UpTo(a)
    <3> HIDE DEF UpTo
    <3> QED
      BY <2>1, <2>3, FS_Subset
  <2>5. QED
    BY <2>2, <2>4
<1>4. \A b \in S : Rank(b, S) \in 1..n
  BY <1>2 DEF Rank
<1>5. ASSUME NEW a \in S, NEW b \in S, Rank(a, S) = Rank(b, S)
      PROVE  a = b
  <2>1. Cardinality(UpTo(a)) = Cardinality(UpTo(b))
    BY <1>5 DEF Rank
  <2>2. a \in Nat /\ b \in Nat
    BY <1>1
  <2>3. QED
    BY <2>1, <2>2, <1>3
<1>6. ASSUME NEW i \in 1..n PROVE \E b \in S : Rank(b, S) = i
  <2> DEFINE rank == [b \in S |-> Rank(b, S)]
  <2>1. rank \in Injection(S, 1..n)
    BY <1>4, <1>5 DEF Injection, IsInjective
  <2>2. IsFiniteSet(1..n) /\ Cardinality(1..n) = n
    BY <1>1, FS_Interval
  <2>3. rank \in Surjection(S, 1..n)
    <3> HIDE DEF rank
    <3> QED
      BY <2>1, <2>2, FS_Injection
  <2>4. QED
    BY <2>3 DEF Surjection
<1>7. QED
  BY <1>4, <1>5, <1>6

\* A set of bytes in their order: each of them once.
LEMMA OrderFacts ==
  ASSUME NEW S \in SUBSET Byte
  PROVE  /\ InByteOrder(S) \in Seq(Byte) /\ Len(InByteOrder(S)) = Cardinality(S)
         /\ IsInjective(InByteOrder(S)) /\ ToSet(InByteOrder(S)) = S
<1> DEFINE order == InByteOrder(S)
           n == Cardinality(S)
<1>1. n \in Nat
  BY SetFacts
<1>2. ASSUME NEW i \in 1..n PROVE order[i] \in S /\ Rank(order[i], S) = i
  BY <1>2, RankFacts DEF InByteOrder
<1>3. DOMAIN order = 1..n
  BY DEF InByteOrder
<1>4. order = [i \in 1..n |-> order[i]]
  BY DEF InByteOrder
<1> HIDE DEF order
<1>5. order \in Seq(Byte) /\ Len(order) = n
  <2>1. order \in [1..n -> Byte]
    BY <1>2, <1>4
  <2>2. QED
    BY <2>1, <1>1
<1>6. IsInjective(order)
  BY <1>2, <1>3 DEF IsInjective
<1>7. ASSUME NEW b \in S PROVE \E i \in 1..n : order[i] = b
  BY <1>2, RankFacts
<1>8. ToSet(order) = S
  BY <1>2, <1>3, <1>7 DEF ToSet
<1>9. QED
  BY <1>5, <1>6, <1>8 DEF order
-----------------------------------------------------------------------------
(* What a node is that holds the children of a set S of bytes. *)

IsSingle(n, S) == \E c \in Byte : n = Collapsed(c) /\ S = {c}

IsList(n, type, S) ==
  \E s \in Seq(Byte) : n = Lists(type, s, s) /\ IsInjective(s) /\ ToSet(s) = S

\* Keys lead to slots, and slots back to keys.
Linked(keys, children, S) ==
  /\ keys \in [Byte -> 0..Cap48]
  /\ children \in [1..Cap48 -> Byte \cup {NoChild}]
  /\ \A c \in Byte : IF c \in S THEN keys[c] # 0 /\ children[keys[c]] = c
                     ELSE keys[c] = 0
  /\ \A pos \in 1..Cap48 :
        children[pos] # NoChild => children[pos] \in S /\ keys[children[pos]] = pos

IsSlots(n, S) ==
  \E keys, children :
     n = Node48(Cardinality(S), keys, children) /\ Linked(keys, children, S)

IsTable(n, S) ==
  n = Node256(Count(Cardinality(S)), [c \in Byte |-> IF c \in S THEN c ELSE NoChild])

Holds(n, S) ==
  \/ IsSingle(n, S)
  \/ IsList(n, 4, S) /\ Cardinality(S) \in 2..Cap4
  \/ IsList(n, 16, S) /\ Cardinality(S) \in (Low16 + 1)..Cap16
  \/ IsSlots(n, S) /\ Cardinality(S) \in (Low48 + 1)..Cap48
  \/ IsTable(n, S) /\ Cardinality(S) > Low256

\* The inductive invariant: the node holds what was added and not removed.
Inv == kids \subseteq Byte /\ Holds(node, kids)

\* The count of a node that is not full, and of one that is.
LEMMA CountFacts ==
  ASSUME NEW k \in Nat, k <= Cardinality(Byte)
  PROVE  /\ k < Cardinality(Byte) => Count(k) = k
         /\ k = Cardinality(Byte) => Count(k) = 0
         /\ Count(Count(k) + 1) = Count(k + 1)
         /\ k > 0 => Count(Count(k) - 1) = k - 1
<1> DEFINE m == Cardinality(Byte)
<1>1. m \in Nat /\ m > 1
  BY ByteFacts
<1> HIDE DEF m
<1>2. k <= m
  BY DEF m
<1>3. ASSUME NEW j \in Nat, j < m PROVE j % m = j
  BY <1>1, <1>3
<1>4. m % m = 0 /\ (m + 1) % m = 1 /\ (0 - 1) % m = m - 1
  BY <1>1
<1>5. CASE k < m
  BY <1>1, <1>3, <1>4, <1>5 DEF Count, m
<1>6. CASE k = m
  BY <1>1, <1>3, <1>4, <1>6 DEF Count, m
<1>7. QED
  BY <1>1, <1>2, <1>5, <1>6 DEF m

-----------------------------------------------------------------------------
(* The lists of NODE4 and NODE16. *)

LEMMA ListFacts ==
  ASSUME NEW n, NEW type, NEW S \in SUBSET Byte, IsList(n, type, S)
  PROVE  /\ n.type = type /\ n.num = Cardinality(S) /\ n.num = Len(n.keys)
         /\ n.keys \in Seq(Byte) /\ n.children = n.keys
         /\ IsInjective(n.keys) /\ ToSet(n.keys) = S
         /\ DOMAIN n.keys = 1..n.num
<1>1. PICK s \in Seq(Byte) : n = Lists(type, s, s) /\ IsInjective(s) /\ ToSet(s) = S
  BY DEF IsList
<1>2. n.type = type /\ n.num = Len(s) /\ n.keys = s /\ n.children = s
  BY <1>1 DEF Lists
<1>3. Cardinality(S) = Len(s)
  BY <1>1, LenIsCardinality
<1>4. DOMAIN s = 1..Len(s)
  BY LenProperties
<1>5. QED
  BY <1>1, <1>2, <1>3, <1>4

\* Wherever the comparison of bytes puts it, an added child is in the list.
LEMMA InsertSortedFacts ==
  ASSUME NEW n, NEW type, NEW S \in SUBSET Byte, IsList(n, type, S),
         NEW c \in Byte \ S, NEW greater \in SUBSET (1..n.num)
  PROVE  IsList(InsertSorted(n, c, greater), type, S \cup {c})
<1>1. /\ n.type = type /\ n.num = Len(n.keys) /\ n.keys \in Seq(Byte)
      /\ n.children = n.keys /\ IsInjective(n.keys) /\ ToSet(n.keys) = S
  BY ListFacts
<1>2. n.num \in Nat
  BY <1>1, LenProperties
<1> DEFINE pos == IF greater = {} THEN n.num + 1 ELSE Min(greater)
<1>3. pos \in 1..(Len(n.keys) + 1)
  <2>1. CASE greater = {}
    BY <2>1, <1>1, <1>2
  <2>2. CASE greater # {}
    <3>1. greater \in SUBSET Nat
      BY <1>2
    <3>2. PICK k \in greater : \A l \in greater : k <= l
      BY <2>2, <3>1, LeastNatural
    <3>3. Min(greater) \in greater
      BY <3>2, Zenon DEF Min
    <3>4. pos \in greater
      BY <2>2, <3>3
    <3> HIDE DEF pos
    <3>5. QED
      BY <3>4, <1>1, <1>2
  <2>3. QED
    BY <2>1, <2>2
<1> DEFINE s == InsertAt(n.keys, pos, c)
<1>4. InsertSorted(n, c, greater) = Lists(type, s, s)
  BY <1>1 DEF InsertSorted
<1> HIDE DEF pos
<1>5. s \in Seq(Byte) /\ ToSet(s) = S \cup {c} /\ IsInjective(s)
  BY <1>1, <1>3, InsertAtFacts
<1> HIDE DEF s
<1>6. QED
  BY <1>4, <1>5 DEF IsList

LEMMA RemoveListedFacts ==
  ASSUME NEW n, NEW type, NEW S \in SUBSET Byte, IsList(n, type, S), NEW c \in S
  PROVE  IsList(RemoveListed(n, c), type, S \ {c})
<1>1. /\ n.type = type /\ n.num = Len(n.keys) /\ n.keys \in Seq(Byte)
      /\ n.children = n.keys /\ IsInjective(n.keys) /\ ToSet(n.keys) = S
      /\ DOMAIN n.keys = 1..n.num
  BY ListFacts
<1> DEFINE pos == CHOOSE i \in 1..n.num : n.keys[i] = c
           s   == RemoveAt(n.keys, pos)
<1>2. pos \in 1..Len(n.keys) /\ n.keys[pos] = c
  BY <1>1 DEF ToSet
<1>3. RemoveListed(n, c) = Lists(type, s, s)
  BY <1>1 DEF RemoveListed
<1> HIDE DEF pos
<1>4. s \in Seq(Byte) /\ ToSet(s) = S \ {c} /\ IsInjective(s)
  BY <1>1, <1>2, RemoveAtFacts
<1> HIDE DEF s
<1>5. QED
  BY <1>3, <1>4 DEF IsList

\* A list keeps its contents when the node changes between NODE4 and NODE16.
LEMMA Retyped ==
  ASSUME NEW n, NEW type, NEW S, IsList(n, type, S), NEW other
  PROVE  IsList([n EXCEPT !.type = other], other, S)
<1>1. PICK s \in Seq(Byte) : n = Lists(type, s, s) /\ IsInjective(s) /\ ToSet(s) = S
  BY DEF IsList
<1>2. [n EXCEPT !.type = other] = Lists(other, s, s)
  BY <1>1 DEF Lists
<1>3. QED
  BY <1>1, <1>2 DEF IsList

-----------------------------------------------------------------------------
(* The slots of NODE48. *)

LEMMA SlotFacts ==
  ASSUME NEW n, NEW S \in SUBSET Byte, IsSlots(n, S)
  PROVE  /\ n = Node48(Cardinality(S), n.keys, n.children)
         /\ n.type = 48 /\ n.num = Cardinality(S) /\ Linked(n.keys, n.children, S)
<1>1. PICK keys, children :
         n = Node48(Cardinality(S), keys, children) /\ Linked(keys, children, S)
  BY DEF IsSlots
<1>2. /\ n.type = 48 /\ n.num = Cardinality(S)
      /\ n.keys = keys /\ n.children = children
  BY <1>1 DEF Node48
<1>3. QED
  BY <1>1, <1>2

\* The search for a free slot ends within the array: as many slots are taken as
\* there are children, however they were freed and taken before.
LEMMA FreeSlotExists ==
  ASSUME NEW n, NEW S \in SUBSET Byte, IsSlots(n, S), Cardinality(S) < Cap48
  PROVE  FreeSlot(n) \in 1..Cap48 /\ n.children[FreeSlot(n)] = NoChild
<1> DEFINE free == {pos \in 1..Cap48 : n.children[pos] = NoChild}
<1>1. Linked(n.keys, n.children, S)
  BY SlotFacts
<1>2. IsFiniteSet(S) /\ Cardinality(S) \in Nat
  BY SetFacts
<1>3. IsFiniteSet(1..Cap48) /\ Cardinality(1..Cap48) = Cap48
  BY ByteFacts, FS_Interval
<1>4. free # {}
  <2> SUFFICES ASSUME \A pos \in 1..Cap48 : n.children[pos] # NoChild PROVE FALSE
    OBVIOUS
  <2>1. /\ n.children \in [1..Cap48 -> S]
        /\ \A pos \in 1..Cap48 : n.keys[n.children[pos]] = pos
    BY <1>1 DEF Linked
  <2>2. PICK x, y \in 1..Cap48 : x # y /\ n.children[x] = n.children[y]
    BY <1>2, <1>3, <2>1, FS_PigeonHole
  <2>3. QED
    BY <2>1, <2>2
<1>5. free \in SUBSET Nat
  BY ByteFacts
<1>6. FreeSlot(n) = Min(free)
  BY DEF FreeSlot
<1> HIDE DEF free
<1>7. PICK k \in free : \A l \in free : k <= l
  BY <1>4, <1>5, LeastNatural
<1>8. Min(free) \in free
  BY <1>7, Zenon DEF Min
<1>9. QED
  BY <1>6, <1>8 DEF free

\* A child takes a free slot.
LEMMA SlotTaken ==
  ASSUME NEW n, NEW S \in SUBSET Byte, IsSlots(n, S), Cardinality(S) < Cap48,
         NEW c \in Byte \ S
  PROVE  IsSlots(AddChild48(n, c), S \cup {c})
<1> DEFINE pos      == FreeSlot(n)
           keys     == [n.keys EXCEPT ![c] = pos]
           children == [n.children EXCEPT ![pos] = c]
           T        == S \cup {c}
<1>1. n.num = Cardinality(S) /\ Linked(n.keys, n.children, S)
  BY SlotFacts
<1>2. pos \in 1..Cap48 /\ n.children[pos] = NoChild
  BY FreeSlotExists
<1>3. AddChild48(n, c) = Node48(Cardinality(T), keys, children)
  BY <1>1, SetFacts DEF AddChild48
<1>4. Cap48 \in Nat /\ NoChild \notin Byte
  BY ByteFacts
<1> HIDE DEF pos
<1>5. keys \in [Byte -> 0..Cap48] /\ children \in [1..Cap48 -> Byte \cup {NoChild}]
  BY <1>1, <1>2, <1>4 DEF Linked
<1>6. ASSUME NEW b \in Byte
      PROVE  IF b \in T THEN keys[b] # 0 /\ children[keys[b]] = b ELSE keys[b] = 0
  <2>1. CASE b = c
    <3>1. keys[c] = pos /\ children[pos] = c /\ pos # 0
      BY <1>1, <1>2, <1>4 DEF Linked
    <3>2. QED
      BY <2>1, <3>1
  <2>2. CASE b # c /\ b \in S
    <3>1. /\ keys[b] = n.keys[b] /\ n.keys[b] \in 1..Cap48
          /\ n.children[n.keys[b]] = b /\ n.keys[b] # pos
      BY <2>2, <1>1, <1>2, <1>4 DEF Linked
    <3>2. QED
      BY <3>1, <2>2, <1>1 DEF Linked
  <2>3. CASE b # c /\ b \notin S
    BY <2>3, <1>1 DEF Linked
  <2>4. QED
    BY <2>1, <2>2, <2>3
<1>7. ASSUME NEW q \in 1..Cap48, children[q] # NoChild
      PROVE  children[q] \in T /\ keys[children[q]] = q
  <2>1. CASE q = pos
    BY <2>1, <1>1, <1>2 DEF Linked
  <2>2. CASE q # pos
    <3>1. children[q] = n.children[q]
      BY <2>2, <1>1 DEF Linked
    <3>2. n.children[q] \in S /\ n.keys[n.children[q]] = q
      BY <3>1, <1>1, <1>7 DEF Linked
    <3>3. QED
      BY <3>1, <3>2, <1>1 DEF Linked
  <2>3. QED
    BY <2>1, <2>2
<1>8. Linked(keys, children, T)
  BY <1>5, <1>6, <1>7 DEF Linked
<1> HIDE DEF keys, children
<1>9. QED
  BY <1>3, <1>8 DEF IsSlots

\* The slot of a removed child is free.
LEMMA SlotCleared ==
  ASSUME NEW n, NEW S \in SUBSET Byte, IsSlots(n, S), NEW c \in S
  PROVE  IsSlots(ClearedSlot(n, c), S \ {c})
<1> DEFINE keys     == [n.keys EXCEPT ![c] = 0]
           children == [n.children EXCEPT ![n.keys[c]] = NoChild]
           T        == S \ {c}
<1>1. n.num = Cardinality(S) /\ Linked(n.keys, n.children, S)
  BY SlotFacts
<1>2. ClearedSlot(n, c) = Node48(Cardinality(T), keys, children)
  BY <1>1, SetFacts DEF ClearedSlot
<1>3. Cap48 \in Nat /\ NoChild \notin Byte
  BY ByteFacts
<1>4. n.keys[c] \in 1..Cap48 /\ n.children[n.keys[c]] = c
  BY <1>1, <1>3 DEF Linked
<1>5. keys \in [Byte -> 0..Cap48] /\ children \in [1..Cap48 -> Byte \cup {NoChild}]
  BY <1>1, <1>3, <1>4 DEF Linked
<1>6. ASSUME NEW b \in Byte
      PROVE  IF b \in T THEN keys[b] # 0 /\ children[keys[b]] = b ELSE keys[b] = 0
  <2>1. CASE b \in T
    <3>1. /\ keys[b] = n.keys[b] /\ n.keys[b] \in 1..Cap48
          /\ n.children[n.keys[b]] = b /\ n.keys[b] # n.keys[c]
      BY <2>1, <1>1, <1>3, <1>4 DEF Linked
    <3>2. QED
      BY <3>1, <2>1, <1>1 DEF Linked
  <2>2. CASE b \notin T
    BY <2>2, <1>1 DEF Linked
  <2>3. QED
    BY <2>1, <2>2
<1>7. ASSUME NEW q \in 1..Cap48, children[q] # NoChild
      PROVE  children[q] \in T /\ keys[children[q]] = q
  <2>1. q # n.keys[c] /\ children[q] = n.children[q]
    BY <1>1, <1>4, <1>7 DEF Linked
  <2>2. n.children[q] \in S /\ n.keys[n.children[q]] = q
    BY <2>1, <1>1, <1>7 DEF Linked
  <2>3. QED
    BY <2>1, <2>2, <1>1 DEF Linked
<1>8. Linked(keys, children, T)
  BY <1>5, <1>6, <1>7 DEF Linked
<1> HIDE DEF keys, children
<1>9. QED
  BY <1>2, <1>8 DEF IsSlots

\* Slots filled from the front, in the order of a list or of the bytes.
LEMMA SlotsFilled ==
  ASSUME NEW s \in Seq(Byte), IsInjective(s), Len(s) <= Cap48, NEW keys, NEW children,
         keys = [c \in Byte |-> IF c \in ToSet(s) THEN CHOOSE i \in 1..Len(s) : s[i] = c
                                ELSE 0],
         children = [pos \in 1..Cap48 |-> IF pos <= Len(s) THEN s[pos] ELSE NoChild]
  PROVE  IsSlots(Node48(Len(s), keys, children), ToSet(s))
<1>1. /\ Len(s) \in Nat /\ DOMAIN s = 1..Len(s) /\ \A i \in 1..Len(s) : s[i] \in Byte
      /\ Cap48 \in Nat /\ NoChild \notin Byte
  BY LenProperties, ByteFacts
<1>2. \A i, j \in 1..Len(s) : s[i] = s[j] => i = j
  BY <1>1 DEF IsInjective
<1>3. ASSUME NEW c \in ToSet(s)
      PROVE  /\ c \in Byte /\ keys[c] \in 1..Len(s) /\ s[keys[c]] = c
             /\ children[keys[c]] = c
  <2>1. PICK i \in 1..Len(s) : s[i] = c
    BY <1>1 DEF ToSet
  <2>2. c \in Byte /\ keys[c] = CHOOSE j \in 1..Len(s) : s[j] = c
    BY <2>1, <1>1
  <2>3. keys[c] \in 1..Len(s) /\ s[keys[c]] = c
    BY <2>1, <2>2, Zenon
  <2>4. keys[c] \in 1..Cap48 /\ keys[c] <= Len(s)
    BY <2>3, <1>1
  <2>5. QED
    BY <2>2, <2>3, <2>4
<1>4. ASSUME NEW c \in Byte
      PROVE  /\ keys[c] \in 0..Cap48
             /\ IF c \in ToSet(s) THEN keys[c] # 0 /\ children[keys[c]] = c
                ELSE keys[c] = 0
  <2>1. CASE c \in ToSet(s)
    <3>1. keys[c] \in 1..Len(s) /\ children[keys[c]] = c
      BY <2>1, <1>3
    <3>2. keys[c] \in 0..Cap48 /\ keys[c] # 0
      BY <3>1, <1>1
    <3>3. QED
      BY <2>1, <3>1, <3>2
  <2>2. CASE c \notin ToSet(s)
    <3>1. keys[c] = 0
      BY <2>2
    <3>2. QED
      BY <2>2, <3>1, <1>1
  <2>3. QED
    BY <2>1, <2>2
<1>5. ASSUME NEW pos \in 1..Cap48
      PROVE  /\ children[pos] \in Byte \cup {NoChild}
             /\ children[pos] # NoChild =>
                   children[pos] \in ToSet(s) /\ keys[children[pos]] = pos
  <2>1. CASE pos <= Len(s)
    <3>1. pos \in 1..Len(s) /\ children[pos] = s[pos]
      BY <2>1, <1>1
    <3>2. s[pos] \in ToSet(s)
      BY <3>1, <1>1 DEF ToSet
    <3>3. keys[s[pos]] \in 1..Len(s) /\ s[keys[s[pos]]] = s[pos]
      BY <3>2, <1>3
    <3>4. keys[s[pos]] = pos
      BY <3>1, <3>3, <1>2
    <3>5. QED
      BY <3>1, <3>2, <3>4, <1>1
  <2>2. CASE ~(pos <= Len(s))
    BY <2>2
  <2>3. QED
    BY <2>1, <2>2
<1>6. keys \in [Byte -> 0..Cap48] /\ children \in [1..Cap48 -> Byte \cup {NoChild}]
  BY <1>4, <1>5
<1>7. Linked(keys, children, ToSet(s))
  BY <1>4, <1>5, <1>6 DEF Linked
<1>8. Len(s) = Cardinality(ToSet(s))
  BY LenIsCardinality
<1>9. QED
  BY <1>7, <1>8 DEF IsSlots

\* A full NODE16 becomes a NODE48 with the same children.
LEMMA Grown16Facts ==
  ASSUME NEW n, NEW S \in SUBSET Byte, IsList(n, 16, S), Cardinality(S) = Cap16
  PROVE  IsSlots(Grown16(n), S)
<1>1. /\ n.num = Cardinality(S) /\ n.num = Len(n.keys) /\ n.keys \in Seq(Byte)
      /\ n.children = n.keys /\ IsInjective(n.keys) /\ ToSet(n.keys) = S
  BY ListFacts
<1>2. Len(n.keys) <= Cap48
  BY <1>1, ByteFacts
<1> DEFINE s        == n.keys
           keys     == [c \in Byte |-> IF c \in ToSet(s)
                                       THEN CHOOSE i \in 1..Len(s) : s[i] = c ELSE 0]
           children == [pos \in 1..Cap48 |-> IF pos <= Len(s) THEN s[pos] ELSE NoChild]
<1>3. IsSlots(Node48(Len(s), keys, children), ToSet(s))
  BY <1>1, <1>2, SlotsFilled
<1>4. Grown16(n) = Node48(Len(s), keys, children)
  BY <1>1 DEF Grown16
<1>5. QED
  BY <1>1, <1>3, <1>4

\* A full NODE48 becomes a NODE256 with the same children.
LEMMA Grown48Facts ==
  ASSUME NEW n, NEW S \in SUBSET Byte, IsSlots(n, S), Cardinality(S) = Cap48
  PROVE  IsTable(Grown48(n), S)
<1>1. n.num = Cardinality(S) /\ Linked(n.keys, n.children, S)
  BY SlotFacts
<1>2. Cardinality(S) \in Nat /\ Cardinality(S) < Cardinality(Byte)
  BY SetFacts, ByteFacts
<1>3. Count(Cardinality(S)) = Cardinality(S)
  <2>1. Cardinality(S) <= Cardinality(Byte)
    BY SetFacts
  <2>2. QED
    BY <1>2, <2>1, CountFacts
<1>4. [c \in Byte |-> IF n.keys[c] = 0 THEN NoChild ELSE n.children[n.keys[c]]]
        = [c \in Byte |-> IF c \in S THEN c ELSE NoChild]
  BY <1>1 DEF Linked
<1>5. QED
  BY <1>1, <1>3, <1>4 DEF Grown48, IsTable

LEMMA TableFacts ==
  ASSUME NEW n, NEW S, IsTable(n, S)
  PROVE  /\ n.type = 256 /\ n.num = Count(Cardinality(S))
         /\ n.children = [c \in Byte |-> IF c \in S THEN c ELSE NoChild]
  BY DEF IsTable, Node256

LEMMA TableAdded ==
  ASSUME NEW n, NEW S \in SUBSET Byte, IsTable(n, S), NEW c \in Byte \ S
  PROVE  IsTable(AddChild256(n, c), S \cup {c})
<1> DEFINE k == Cardinality(S)
<1>1. n.num = Count(k) /\ n.children = [b \in Byte |-> IF b \in S THEN b ELSE NoChild]
  BY TableFacts
<1>2. k \in Nat /\ k <= Cardinality(Byte) /\ Cardinality(S \cup {c}) = k + 1
  BY SetFacts
<1>3. Count(Count(k) + 1) = Count(k + 1)
  <2> HIDE DEF k
  <2> QED
    BY <1>2, CountFacts
<1>4. [n.children EXCEPT ![c] = c]
        = [b \in Byte |-> IF b \in S \cup {c} THEN b ELSE NoChild]
  BY <1>1
<1>5. QED
  BY <1>1, <1>2, <1>3, <1>4 DEF AddChild256, IsTable

-----------------------------------------------------------------------------
(* add_child and remove_child keep what a node holds. *)

LEMMA AddChildHolds ==
  ASSUME NEW n, NEW S \in SUBSET Byte, Holds(n, S), n.type # 0, NEW c \in Byte \ S
  PROVE  Holds(AddChild(n, c), S \cup {c})
<1> DEFINE k == Cardinality(S)
           T == S \cup {c}
<1>1. k \in Nat /\ Cardinality(T) = k + 1
  BY SetFacts
<1>2. ~IsSingle(n, S)
  BY DEF IsSingle, Collapsed
<1>3. CASE IsList(n, 4, S) /\ k \in 2..Cap4
  <2>1. n.type = 4 /\ n.num = k
    BY <1>3, ListFacts
  <2>2. AddChild(n, c) = AddChild4(n, c)
    BY <2>1 DEF AddChild
  <2>3. CASE k < Cap4
    <3>1. IsList(AddChild4(n, c), 4, T)
      <4>1. IsList(InsertSorted(n, c, {i \in 1..n.num : c < n.keys[i]}), 4, T)
        BY <1>3, InsertSortedFacts
      <4>2. QED
        BY <2>1, <2>3, <4>1 DEF AddChild4
    <3>2. Cardinality(T) \in 2..Cap4
      BY <1>1, <1>3, <2>3, ByteFacts
    <3>3. QED
      BY <2>2, <3>1, <3>2 DEF Holds
  <2>4. CASE ~(k < Cap4)
    <3> DEFINE m == [n EXCEPT !.type = 16]
    <3>1. IsList(m, 16, S)
      BY <1>3, Retyped
    <3>2. k = Cap4 /\ Cap4 < Cap16
      BY <1>1, <1>3, <2>4, ByteFacts
    <3>3. AddChild4(n, c) = AddChild16(m, c)
      BY <2>1, <2>4 DEF AddChild4
    <3> HIDE DEF m
    <3>4. m.num = k
      BY <3>1, ListFacts
    <3>5. IsList(AddChild16(m, c), 16, T)
      <4>1. IsList(InsertSorted(m, c, {i \in 1..m.num : Signed(c) < Signed(m.keys[i])}),
                   16, T)
        BY <3>1, InsertSortedFacts
      <4>2. QED
        BY <3>2, <3>4, <4>1 DEF AddChild16
    <3>6. Cardinality(T) \in (Low16 + 1)..Cap16
      BY <1>1, <3>2, ByteFacts
    <3>7. QED
      BY <2>2, <3>3, <3>5, <3>6 DEF Holds
  <2>5. QED
    BY <2>3, <2>4
<1>4. CASE IsList(n, 16, S) /\ k \in (Low16 + 1)..Cap16
  <2>1. n.type = 16 /\ n.num = k
    BY <1>4, ListFacts
  <2>2. AddChild(n, c) = AddChild16(n, c)
    BY <2>1 DEF AddChild
  <2>3. CASE k < Cap16
    <3>1. IsList(AddChild16(n, c), 16, T)
      <4>1. IsList(InsertSorted(n, c, {i \in 1..n.num : Signed(c) < Signed(n.keys[i])}),
                   16, T)
        BY <1>4, InsertSortedFacts
      <4>2. QED
        BY <2>1, <2>3, <4>1 DEF AddChild16
    <3>2. Cardinality(T) \in (Low16 + 1)..Cap16
      BY <1>1, <1>4, <2>3, ByteFacts
    <3>3. QED
      BY <2>2, <3>1, <3>2 DEF Holds
  <2>4. CASE ~(k < Cap16)
    <3>1. k = Cap16 /\ k < Cap48 /\ Low48 < k
      BY <1>1, <1>4, <2>4, ByteFacts
    <3>2. AddChild16(n, c) = AddChild48(Grown16(n), c)
      BY <2>1, <2>4 DEF AddChild16
    <3>3. IsSlots(Grown16(n), S)
      BY <1>4, <3>1, Grown16Facts
    <3>4. IsSlots(AddChild48(Grown16(n), c), T)
      BY <3>1, <3>3, SlotTaken
    <3>5. Cardinality(T) \in (Low48 + 1)..Cap48
      BY <1>1, <3>1, ByteFacts
    <3>6. QED
      BY <2>2, <3>2, <3>4, <3>5 DEF Holds
  <2>5. QED
    BY <2>3, <2>4
<1>5. CASE IsSlots(n, S) /\ k \in (Low48 + 1)..Cap48
  <2>1. n.type = 48 /\ n.num = k
    BY <1>5, SlotFacts
  <2>2. AddChild(n, c) = AddChild48(n, c)
    BY <2>1 DEF AddChild
  <2>3. CASE k < Cap48
    <3>1. IsSlots(AddChild48(n, c), T)
      BY <1>5, <2>3, SlotTaken
    <3>2. Cardinality(T) \in (Low48 + 1)..Cap48
      BY <1>1, <1>5, <2>3, ByteFacts
    <3>3. QED
      BY <2>2, <3>1, <3>2 DEF Holds
  <2>4. CASE ~(k < Cap48)
    <3>1. k = Cap48
      BY <1>1, <1>5, <2>4, ByteFacts
    <3>2. AddChild48(n, c) = AddChild256(Grown48(n), c)
      BY <2>1, <2>4 DEF AddChild48
    <3>3. IsTable(Grown48(n), S)
      BY <1>5, <3>1, Grown48Facts
    <3>4. IsTable(AddChild256(Grown48(n), c), T)
      BY <3>3, TableAdded
    <3>5. Cardinality(T) > Low256
      BY <1>1, <3>1, ByteFacts
    <3>6. QED
      BY <2>2, <3>2, <3>4, <3>5 DEF Holds
  <2>5. QED
    BY <2>3, <2>4
<1>6. CASE IsTable(n, S) /\ k > Low256
  <2>1. n.type = 256
    BY <1>6 DEF IsTable, Node256
  <2>2. AddChild(n, c) = AddChild256(n, c)
    BY <2>1 DEF AddChild
  <2>3. IsTable(AddChild256(n, c), T)
    BY <1>6, TableAdded
  <2>4. Cardinality(T) > Low256
    BY <1>1, <1>6, ByteFacts
  <2>5. QED
    BY <2>2, <2>3, <2>4 DEF Holds
<1>7. QED
  BY <1>2, <1>3, <1>4, <1>5, <1>6 DEF Holds

\* A NODE4 gives way to its last child.
LEMMA RemoveChild4Holds ==
  ASSUME NEW n, NEW S \in SUBSET Byte, IsList(n, 4, S),
         Cardinality(S) \in 2..Cap4, NEW c \in S
  PROVE  Holds(RemoveChild4(n, c), S \ {c})
<1> DEFINE left == RemoveListed(n, c)
           T    == S \ {c}
<1>1. T \in SUBSET Byte /\ Cardinality(T) = Cardinality(S) - 1
  BY SetFacts
<1>2. IsList(left, 4, T)
  BY RemoveListedFacts
<1> HIDE DEF left
<1>3. /\ left.num = Cardinality(T) /\ left.num = Len(left.keys)
      /\ left.keys \in Seq(Byte) /\ left.children = left.keys /\ ToSet(left.keys) = T
      /\ DOMAIN left.keys = 1..left.num
  BY <1>1, <1>2, ListFacts
<1>4. RemoveChild4(n, c) = IF left.num = 1 THEN Collapsed(left.children[1]) ELSE left
  BY DEF RemoveChild4, left
<1>5. CASE left.num = 1
  <2>1. left.children[1] \in Byte /\ T = {left.children[1]}
    BY <1>3, <1>5 DEF ToSet
  <2>2. QED
    BY <1>4, <1>5, <2>1 DEF Holds, IsSingle
<1>6. CASE left.num # 1
  <2>1. Cardinality(T) \in 2..Cap4
    BY <1>1, <1>3, <1>6, ByteFacts
  <2>2. QED
    BY <1>2, <1>4, <1>6, <2>1 DEF Holds
<1>7. QED
  BY <1>5, <1>6

\* A NODE16 becomes a NODE4 with the same lists.
LEMMA RemoveChild16Holds ==
  ASSUME NEW n, NEW S \in SUBSET Byte, IsList(n, 16, S),
         Cardinality(S) \in (Low16 + 1)..Cap16, NEW c \in S
  PROVE  Holds(RemoveChild16(n, c), S \ {c})
<1> DEFINE left == RemoveListed(n, c)
           T    == S \ {c}
<1>1. T \in SUBSET Byte /\ Cardinality(T) = Cardinality(S) - 1
  BY SetFacts
<1>2. IsList(left, 16, T)
  BY RemoveListedFacts
<1> HIDE DEF left
<1>3. left.num = Cardinality(T)
  BY <1>1, <1>2, ListFacts
<1>4. RemoveChild16(n, c) = IF left.num = Low16 THEN [left EXCEPT !.type = 4] ELSE left
  BY DEF RemoveChild16, left
<1>5. CASE left.num = Low16
  <2>1. IsList([left EXCEPT !.type = 4], 4, T)
    BY <1>2, Retyped
  <2>2. Cardinality(T) \in 2..Cap4
    BY <1>3, <1>5, ByteFacts
  <2>3. QED
    BY <1>4, <1>5, <2>1, <2>2 DEF Holds
<1>6. CASE left.num # Low16
  <2>1. Cardinality(T) \in (Low16 + 1)..Cap16
    BY <1>1, <1>3, <1>6, ByteFacts
  <2>2. QED
    BY <1>2, <1>4, <1>6, <2>1 DEF Holds
<1>7. QED
  BY <1>5, <1>6

\* A NODE48 becomes a NODE16 with its bytes in order, each beside the child in
\* the slot it led to.
LEMMA RemoveChild48Holds ==
  ASSUME NEW n, NEW S \in SUBSET Byte, IsSlots(n, S),
         Cardinality(S) \in (Low48 + 1)..Cap48, NEW c \in S
  PROVE  Holds(RemoveChild48(n, c), S \ {c})
<1> DEFINE left  == ClearedSlot(n, c)
           T     == S \ {c}
           bytes == {b \in Byte : left.keys[b] # 0}
           order == InByteOrder(bytes)
<1>1. T \in SUBSET Byte /\ Cardinality(T) = Cardinality(S) - 1
  BY SetFacts
<1>2. IsSlots(left, T)
  BY SlotCleared
<1> HIDE DEF left
<1>3. left.num = Cardinality(T) /\ Linked(left.keys, left.children, T)
  BY <1>1, <1>2, SlotFacts
<1>4. RemoveChild48(n, c) =
        IF left.num = Low48
        THEN Lists(16, order, [i \in 1..Len(order) |-> left.children[left.keys[order[i]]]])
        ELSE left
  BY DEF RemoveChild48, left
<1>5. CASE left.num = Low48
  <2>1. bytes = T
    BY <1>3 DEF Linked
  <2>2. order \in Seq(Byte) /\ IsInjective(order) /\ ToSet(order) = T
    BY <1>1, <2>1, OrderFacts
  <2> HIDE DEF order
  <2>3. /\ DOMAIN order = 1..Len(order)
        /\ order = [i \in 1..Len(order) |-> order[i]]
        /\ \A i \in 1..Len(order) : order[i] \in T
    BY <2>2, LenProperties DEF ToSet
  <2>4. \A i \in 1..Len(order) : left.children[left.keys[order[i]]] = order[i]
    BY <1>3, <2>3 DEF Linked
  <2>5. [i \in 1..Len(order) |-> left.children[left.keys[order[i]]]] = order
    BY <2>3, <2>4
  <2>6. IsList(RemoveChild48(n, c), 16, T)
    BY <1>4, <1>5, <2>2, <2>5 DEF IsList
  <2>7. Cardinality(T) \in (Low16 + 1)..Cap16
    BY <1>3, <1>5, ByteFacts
  <2>8. QED
    BY <2>6, <2>7 DEF Holds
<1>6. CASE left.num # Low48
  <2>1. Cardinality(T) \in (Low48 + 1)..Cap48
    BY <1>1, <1>3, <1>6, ByteFacts
  <2>2. QED
    BY <1>2, <1>4, <1>6, <2>1 DEF Holds
<1>7. QED
  BY <1>5, <1>6

\* A NODE256 becomes a NODE48, its children in slots from the front; that its
\* count may have wrapped does not make it shrink early.
LEMMA RemoveChild256Holds ==
  ASSUME NEW n, NEW S \in SUBSET Byte, IsTable(n, S), Cardinality(S) > Low256,
         NEW c \in S
  PROVE  Holds(RemoveChild256(n, c), S \ {c})
<1> DEFINE T        == S \ {c}
           children == [n.children EXCEPT ![c] = NoChild]
           bytes    == {b \in Byte : children[b] # NoChild}
           order    == InByteOrder(bytes)
           slot     == [b \in Byte |-> IF children[b] = NoChild THEN 0
                                       ELSE CHOOSE i \in 1..Len(order) : order[i] = b]
           slots    == [pos \in 1..Cap48 |-> IF pos <= Len(order)
                                             THEN children[order[pos]] ELSE NoChild]
<1>1. /\ T \in SUBSET Byte /\ Cardinality(T) = Cardinality(S) - 1
      /\ Cardinality(S) \in Nat /\ Cardinality(S) <= Cardinality(Byte)
  BY SetFacts
<1>2. /\ n.num = Count(Cardinality(S))
      /\ n.children = [b \in Byte |-> IF b \in S THEN b ELSE NoChild]
  BY TableFacts
<1>3. children = [b \in Byte |-> IF b \in T THEN b ELSE NoChild]
  BY <1>2
<1>4. Count(n.num - 1) = Cardinality(T)
  <2>1. Cardinality(S) > 0
    BY <1>1, ByteFacts
  <2>2. QED
    BY <1>1, <1>2, <2>1, CountFacts
<1>5. RemoveChild256(n, c) =
        IF Count(n.num - 1) = Low256 THEN Node48(Low256, slot, slots)
        ELSE Node256(Count(n.num - 1), children)
  BY DEF RemoveChild256
<1> HIDE DEF children
<1>6. CASE Cardinality(T) = Low256
  <2>1. bytes = T
    BY <1>3, ByteFacts
  <2>2. /\ order \in Seq(Byte) /\ IsInjective(order) /\ ToSet(order) = T
        /\ Len(order) = Cardinality(T)
    BY <1>1, <2>1, OrderFacts
  <2> HIDE DEF order, bytes
  <2>3. slot = [b \in Byte |-> IF b \in ToSet(order)
                               THEN CHOOSE i \in 1..Len(order) : order[i] = b ELSE 0]
    BY <1>3, <2>2, ByteFacts
  <2>4. slots = [pos \in 1..Cap48 |-> IF pos <= Len(order) THEN order[pos] ELSE NoChild]
    <3>1. ASSUME NEW pos \in 1..Cap48, pos <= Len(order)
          PROVE  children[order[pos]] = order[pos]
      <4>1. pos \in DOMAIN order
        BY <2>2, <3>1, LenProperties
      <4>2. order[pos] \in T
        BY <2>2, <4>1 DEF ToSet
      <4>3. QED
        BY <1>3, <4>2
    <3>2. QED
      BY <3>1
  <2> HIDE DEF slot, slots
  <2>5. Len(order) <= Cap48
    BY <1>6, <2>2, ByteFacts
  <2>6. IsSlots(Node48(Len(order), slot, slots), ToSet(order))
    BY <2>2, <2>3, <2>4, <2>5, SlotsFilled
  <2>7. RemoveChild256(n, c) = Node48(Len(order), slot, slots)
    BY <1>4, <1>5, <1>6, <2>2
  <2>8. Cardinality(T) \in (Low48 + 1)..Cap48
    BY <1>6, ByteFacts
  <2>9. QED
    BY <2>2, <2>6, <2>7, <2>8 DEF Holds
<1>7. CASE Cardinality(T) # Low256
  <2>1. RemoveChild256(n, c) = Node256(Cardinality(T), children)
    BY <1>4, <1>5, <1>7
  <2>2. Cardinality(T) \in Nat /\ Cardinality(T) < Cardinality(Byte)
    BY <1>1, ByteFacts, SetFacts
  <2>3. Count(Cardinality(T)) = Cardinality(T)
    <3>1. Cardinality(T) <= Cardinality(Byte)
      BY <1>1, SetFacts
    <3>2. QED
      BY <2>2, <3>1, CountFacts
  <2>4. IsTable(RemoveChild256(n, c), T)
    BY <1>3, <2>1, <2>3 DEF IsTable
  <2>5. Cardinality(T) > Low256
    BY <1>1, <1>7, ByteFacts
  <2>6. QED
    BY <2>4, <2>5 DEF Holds
<1>8. QED
  BY <1>6, <1>7

LEMMA RemoveChildHolds ==
  ASSUME NEW n, NEW S \in SUBSET Byte, Holds(n, S), n.type # 0, NEW c \in S
  PROVE  Holds(RemoveChild(n, c), S \ {c})
<1>1. ~IsSingle(n, S)
  BY DEF IsSingle, Collapsed
<1>2. CASE IsList(n, 4, S) /\ Cardinality(S) \in 2..Cap4
  <2>1. n.type = 4
    BY <1>2, ListFacts
  <2>2. QED
    BY <1>2, <2>1, RemoveChild4Holds DEF RemoveChild
<1>3. CASE IsList(n, 16, S) /\ Cardinality(S) \in (Low16 + 1)..Cap16
  <2>1. n.type = 16
    BY <1>3, ListFacts
  <2>2. QED
    BY <1>3, <2>1, RemoveChild16Holds DEF RemoveChild
<1>4. CASE IsSlots(n, S) /\ Cardinality(S) \in (Low48 + 1)..Cap48
  <2>1. n.type = 48
    BY <1>4, SlotFacts
  <2>2. QED
    BY <1>4, <2>1, RemoveChild48Holds DEF RemoveChild
<1>5. CASE IsTable(n, S) /\ Cardinality(S) > Low256
  <2>1. n.type = 256
    BY <1>5 DEF IsTable, Node256
  <2>2. QED
    BY <1>5, <2>1, RemoveChild256Holds DEF RemoveChild
<1>6. QED
  BY <1>1, <1>2, <1>3, <1>4, <1>5 DEF Holds

-----------------------------------------------------------------------------
(* What find_child and a visit see of a node. *)

LEMMA FindChildFacts ==
  ASSUME NEW n, NEW S \in SUBSET Byte, Holds(n, S), n.type # 0, NEW c \in Byte
  PROVE  FindChild(n, c) = IF c \in S THEN c ELSE NoChild
<1>1. ~IsSingle(n, S)
  BY DEF IsSingle, Collapsed
<1>2. ASSUME NEW type \in {4, 16}, IsList(n, type, S)
      PROVE  FindChild(n, c) = IF c \in S THEN c ELSE NoChild
  <2> DEFINE places == {i \in 1..n.num : n.keys[i] = c}
  <2>1. /\ n.type = type /\ n.num = Len(n.keys) /\ n.keys \in Seq(Byte)
        /\ n.children = n.keys /\ ToSet(n.keys) = S /\ DOMAIN n.keys = 1..n.num
    BY <1>2, ListFacts
  <2>2. FindChild(n, c) = IF places # {} THEN n.children[Min(places)] ELSE NoChild
    BY <2>1 DEF FindChild
  <2>3. places # {} <=> c \in S
    BY <2>1 DEF ToSet
  <2>4. places \in SUBSET Nat
    BY <2>1, LenProperties
  <2>5. CASE places # {}
    <3> HIDE DEF places
    <3>1. PICK k \in places : \A l \in places : k <= l
      BY <2>4, <2>5, LeastNatural
    <3>2. Min(places) \in places
      BY <3>1, Zenon DEF Min
    <3>3. n.keys[Min(places)] = c
      BY <3>2 DEF places
    <3>4. QED
      BY <2>1, <2>2, <2>3, <2>5, <3>3
  <2>6. CASE places = {}
    BY <2>2, <2>3, <2>6
  <2>7. QED
    BY <2>5, <2>6
<1>3. CASE IsSlots(n, S)
  <2>1. n.type = 48 /\ Linked(n.keys, n.children, S)
    BY <1>3, SlotFacts
  <2>2. FindChild(n, c) = IF n.keys[c] = 0 THEN NoChild ELSE n.children[n.keys[c]]
    BY <2>1 DEF FindChild
  <2>3. QED
    BY <2>1, <2>2 DEF Linked
<1>4. CASE IsTable(n, S)
  <2>1. n.type = 256 /\ n.children = [b \in Byte |-> IF b \in S THEN b ELSE NoChild]
    BY <1>4 DEF IsTable, Node256
  <2>2. FindChild(n, c) = n.children[c]
    BY <2>1 DEF FindChild
  <2>3. QED
    BY <2>1, <2>2
<1>5. QED
  BY <1>1, <1>2, <1>3, <1>4 DEF Holds

LEMMA VisitedFacts ==
  ASSUME NEW n, NEW S \in SUBSET Byte, Holds(n, S)
  PROVE  IsInjective(Visited(n)) /\ ToSet(Visited(n)) = S
<1>1. CASE IsSingle(n, S)
  <2>1. PICK c \in Byte : n = Collapsed(c) /\ S = {c}
    BY <1>1 DEF IsSingle
  <2>2. Visited(n) = <<c>>
    BY <2>1 DEF Visited, Collapsed
  <2>3. QED
    BY <2>1, <2>2 DEF IsInjective, ToSet
<1>2. ASSUME NEW type \in {4, 16}, IsList(n, type, S)
      PROVE  IsInjective(Visited(n)) /\ ToSet(Visited(n)) = S
  <2>1. /\ n.type = type /\ n.num = Len(n.keys) /\ n.keys \in Seq(Byte)
        /\ n.children = n.keys /\ IsInjective(n.keys) /\ ToSet(n.keys) = S
    BY <1>2, ListFacts
  <2>2. Visited(n) = SubSeq(n.children, 1, n.num)
    BY <2>1 DEF Visited
  <2>3. Visited(n) = n.keys
    BY <2>1, <2>2, SubSeqFull
  <2>4. QED
    BY <2>1, <2>3
<1>3. CASE IsSlots(n, S)
  <2> DEFINE bytes == {c \in Byte : n.keys[c] # 0}
             order == InByteOrder(bytes)
  <2>1. n.type = 48 /\ Linked(n.keys, n.children, S)
    BY <1>3, SlotFacts
  <2>2. bytes = S
    BY <2>1 DEF Linked
  <2>3. order \in Seq(Byte) /\ IsInjective(order) /\ ToSet(order) = S
    BY <2>2, OrderFacts
  <2>4. Visited(n) = [i \in 1..Len(order) |-> n.children[n.keys[order[i]]]]
    BY <2>1 DEF Visited
  <2> HIDE DEF order
  <2>5. /\ order = [i \in 1..Len(order) |-> order[i]]
        /\ \A i \in 1..Len(order) : order[i] \in S
    BY <2>3, LenProperties DEF ToSet
  <2>6. \A i \in 1..Len(order) : n.children[n.keys[order[i]]] = order[i]
    BY <2>1, <2>5 DEF Linked
  <2>7. Visited(n) = order
    BY <2>4, <2>5, <2>6
  <2>8. QED
    BY <2>3, <2>7
<1>4. CASE IsTable(n, S)
  <2> DEFINE bytes == {c \in Byte : n.children[c] # NoChild}
  <2>1. n.type = 256 /\ n.children = [b \in Byte |-> IF b \in S THEN b ELSE NoChild]
    BY <1>4 DEF IsTable, Node256
  <2>2. bytes = S
    <3>1. ASSUME NEW c \in Byte PROVE n.children[c] # NoChild <=> c \in S
      BY <2>1, ByteFacts
    <3>2. QED
      BY <3>1
  <2>3. Visited(n) = InByteOrder(bytes)
    BY <2>1 DEF Visited
  <2>4. QED
    BY <2>2, <2>3, OrderFacts
<1>5. QED
  BY <1>1, <1>2, <1>3, <1>4 DEF Holds

\* Two children under different bytes make a NODE4.
LEMMA NewNode4Holds ==
  ASSUME NEW c \in Byte, NEW d \in Byte, c # d
  PROVE  Holds(NewNode4(c, d), {c, d})
<1> DEFINE none == Lists(4, <<>>, <<>>)
           one  == AddChild4(none, c)
<1>1. IsList(none, 4, {})
  <2>1. <<>> \in Seq(Byte) /\ IsInjective(<<>>)
    BY EmptySeq DEF IsInjective
  <2>2. ToSet(<<>>) = {}
    BY DEF ToSet
  <2>3. QED
    BY <2>1, <2>2 DEF IsList
<1>2. none.num = 0 /\ 0 < Cap4 /\ 1 < Cap4
  BY ByteFacts DEF Lists
<1> HIDE DEF none
<1>3. one = InsertSorted(none, c, {i \in 1..none.num : c < none.keys[i]})
  BY <1>2 DEF AddChild4
<1>4. IsList(one, 4, {c})
  <2>1. IsList(one, 4, {} \cup {c})
    BY <1>1, <1>3, InsertSortedFacts
  <2>2. QED
    BY <2>1
<1> HIDE DEF one
<1>5. one.num = 1 /\ Cardinality({c}) = 1
  <2>1. {c} \in SUBSET Byte /\ Cardinality({c}) = 1
    BY FS_Singleton
  <2>2. one.num = Cardinality({c})
    BY <1>4, <2>1, ListFacts
  <2>3. QED
    BY <2>1, <2>2
<1>6. NewNode4(c, d) = InsertSorted(one, d, {i \in 1..one.num : d < one.keys[i]})
  BY <1>2, <1>5 DEF NewNode4, AddChild4, one, none
<1>7. IsList(NewNode4(c, d), 4, {c, d})
  <2>1. IsList(NewNode4(c, d), 4, {c} \cup {d})
    BY <1>4, <1>6, InsertSortedFacts
  <2>2. {c} \cup {d} = {c, d}
    OBVIOUS
  <2>3. QED
    BY <2>1, <2>2
<1>8. Cardinality({c, d}) = 2
  <2>1. Cardinality({c} \cup {d}) = Cardinality({c}) + 1
    BY SetFacts
  <2>2. {c} \cup {d} = {c, d}
    OBVIOUS
  <2>3. QED
    BY <1>5, <2>1, <2>2
<1>9. QED
  BY <1>7, <1>8, <1>2, ByteFacts DEF Holds

-----------------------------------------------------------------------------
(* The theorems. *)

LEMMA InitHolds == Init => Inv
  BY NewNode4Holds DEF Init, Inv

LEMMA NextHolds == Inv /\ [Next]_vars => Inv'
<1> SUFFICES ASSUME Inv, [Next]_vars PROVE Inv'
  OBVIOUS
<1>0. kids \in SUBSET Byte /\ Holds(node, kids)
  BY DEF Inv
<1>1. ASSUME NEW c \in Byte, NEW d \in Byte, Split(c, d) PROVE Inv'
  BY <1>1, NewNode4Holds DEF Split, Inv
<1>2. ASSUME NEW c \in Byte, AddTo(c) PROVE Inv'
  <2>1. node.type # 0 /\ FindChild(node, c) = NoChild
    BY <1>2 DEF AddTo
  <2>2. c \notin kids
    BY <1>0, <2>1, FindChildFacts, ByteFacts
  <2>3. Holds(AddChild(node, c), kids \cup {c})
    BY <1>0, <2>1, <2>2, AddChildHolds
  <2>4. QED
    BY <1>0, <1>2, <2>3 DEF AddTo, Inv
<1>3. ASSUME NEW c \in Byte, RemoveFrom(c) PROVE Inv'
  <2>1. node.type # 0 /\ FindChild(node, c) # NoChild
    BY <1>3 DEF RemoveFrom
  <2>2. c \in kids
    BY <1>0, <2>1, FindChildFacts
  <2>3. Holds(RemoveChild(node, c), kids \ {c})
    BY <1>0, <2>1, <2>2, RemoveChildHolds
  <2>4. QED
    BY <1>0, <1>3, <2>3 DEF RemoveFrom, Inv
<1>4. CASE UNCHANGED vars
  BY <1>0, <1>4 DEF vars, Inv
<1>5. QED
  BY <1>1, <1>2, <1>3, <1>4 DEF Next

LEMMA Invariance == Spec => []Inv
  BY InitHolds, NextHolds, PTL DEF Spec

\* The count of children is exact and every layout keeps within its capacity and
\* its threshold, whatever those are: add_child never writes behind the arrays of
\* a node, and remove_child always meets the layout it expects.
THEOREM LayoutStaysWithin == Spec => []TypeOK
<1>1. Inv => TypeOK
  <2> SUFFICES ASSUME Inv PROVE TypeOK
    OBVIOUS
  <2> DEFINE k == Cardinality(kids)
  <2>1. kids \in SUBSET Byte /\ k \in Nat /\ k <= Cardinality(Byte)
    BY SetFacts DEF Inv
  <2>2. k < Cardinality(Byte) => Count(k) = k
    BY <2>1, CountFacts
  <2>3. CASE IsSingle(node, kids)
    <3>1. node.type = 0 /\ k = 1
      BY <2>1, <2>3, SetFacts DEF IsSingle, Collapsed
    <3>2. QED
      BY <2>1, <3>1 DEF TypeOK
  <2>4. CASE IsList(node, 4, kids) /\ k \in 2..Cap4
    <3>1. node.type = 4 /\ node.num = k
      BY <2>1, <2>4, ListFacts
    <3>2. k < Cardinality(Byte)
      BY <2>4, ByteFacts
    <3>3. QED
      BY <2>1, <2>2, <2>4, <3>1, <3>2 DEF TypeOK
  <2>5. CASE IsList(node, 16, kids) /\ k \in (Low16 + 1)..Cap16
    <3>1. node.type = 16 /\ node.num = k
      BY <2>1, <2>5, ListFacts
    <3>2. k < Cardinality(Byte)
      BY <2>5, ByteFacts
    <3>3. QED
      BY <2>1, <2>2, <2>5, <3>1, <3>2 DEF TypeOK
  <2>6. CASE IsSlots(node, kids) /\ k \in (Low48 + 1)..Cap48
    <3>1. node.type = 48 /\ node.num = k
      BY <2>1, <2>6, SlotFacts
    <3>2. k < Cardinality(Byte)
      BY <2>6, ByteFacts
    <3>3. QED
      BY <2>1, <2>2, <2>6, <3>1, <3>2 DEF TypeOK
  <2>7. CASE IsTable(node, kids) /\ k > Low256
    <3>1. node.type = 256 /\ node.num = Count(k)
      BY <2>7 DEF IsTable, Node256
    <3>2. QED
      BY <2>1, <2>7, <3>1 DEF TypeOK
  <2>8. QED
    BY <2>3, <2>4, <2>5, <2>6, <2>7 DEF Inv, Holds
<1>2. QED
  BY <1>1, Invariance, PTL

\* find_child finds under a byte the child that was added under it, or none, and
\* a visit meets every child once: for all sizes of the layouts, in whatever
\* order children came and went.
THEOREM LayoutStaysExact == Spec => []LayoutExact
<1>1. Inv => LayoutExact
  BY FindChildFacts, VisitedFacts DEF Inv, LayoutExact
<1>2. QED
  BY <1>1, Invariance, PTL

\* The lists of NODE4 and NODE16 stay side by side, and the bytes and slots of
\* NODE48 lead to each other: no slot is lost to a removal or taken twice.
THEOREM SlotsStayCoherent == Spec => []SlotsCoherent
<1>1. Inv => SlotsCoherent
  <2> SUFFICES ASSUME Inv PROVE SlotsCoherent
    OBVIOUS
  <2>1. kids \in SUBSET Byte
    BY DEF Inv
  <2>2. CASE IsSingle(node, kids)
    BY <2>2 DEF IsSingle, Collapsed, SlotsCoherent
  <2>3. ASSUME NEW type \in {4, 16}, IsList(node, type, kids) PROVE SlotsCoherent
    <3>1. /\ node.type = type /\ node.num = Len(node.keys)
          /\ node.children = node.keys
          /\ IsInjective(node.keys) /\ ToSet(node.keys) = kids
      BY <2>1, <2>3, ListFacts
    <3>2. CASE type = 4
      BY <3>1, <3>2 DEF SlotsCoherent
    <3>3. CASE type = 16
      BY <3>1, <3>3 DEF SlotsCoherent
    <3>4. QED
      BY <3>2, <3>3
  <2>4. CASE IsSlots(node, kids)
    <3>1. node.type = 48 /\ Linked(node.keys, node.children, kids)
      BY <2>1, <2>4, SlotFacts
    <3>2. ASSUME NEW c \in kids PROVE node.keys[c] \in 1..Cap48
      <4>1. node.keys[c] \in 0..Cap48 /\ node.keys[c] # 0
        BY <2>1, <3>1 DEF Linked
      <4>2. QED
        BY <4>1, ByteFacts
    <3>3. QED
      BY <3>1, <3>2 DEF Linked, SlotsCoherent
  <2>5. CASE IsTable(node, kids)
    <3>1. /\ node.type = 256
          /\ node.children = [b \in Byte |-> IF b \in kids THEN b ELSE NoChild]
      BY <2>5 DEF IsTable, Node256
    <3>2. QED
      BY <3>1 DEF SlotsCoherent
  <2>6. QED
    BY <2>2, <2>3, <2>4, <2>5 DEF Inv, Holds
<1>2. QED
  BY <1>1, Invariance, PTL
=============================================================================
