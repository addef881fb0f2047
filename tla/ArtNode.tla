------------------------------ MODULE ArtNode ------------------------------
(***************************************************************************)
(* One inner node of the adaptive radix tree, which changes its layout as  *)
(* children come and go: NODE4 and NODE16 keep a list of bytes and a list  *)
(* of children side by side, NODE48 keeps for every byte the slot of its   *)
(* child, NODE256 keeps a child for every byte.                            *)
(*                                                                         *)
(* A child is named by the byte it was added under, so that one found      *)
(* under another byte is noticed.  Capacities and thresholds are           *)
(* constants; those of the code are 4, 16, 48 and 3, 12, 37.               *)
(***************************************************************************)
EXTENDS Integers, FiniteSets, Sequences, SequencesExt

CONSTANTS
    HalfByte,                   \* 128: a byte from here on is negative as int8
    Cap4, Cap16, Cap48,         \* children that fit in each layout
    Low16, Low48, Low256        \* children at which a layout shrinks

Byte == 0..(2 * HalfByte - 1)
NoChild == -1

ASSUME LayoutAssumption ==
    /\ {HalfByte, Cap4, Cap16, Cap48, Low16, Low48, Low256} \subseteq Nat
    /\ 1 < Cap4 /\ Cap4 < Cap16 /\ Cap16 < Cap48 /\ Cap48 < Cardinality(Byte)
    /\ 1 < Low16 /\ Low16 < Cap4
    /\ Low16 < Low48 /\ Low48 < Cap16
    /\ Low48 < Low256 /\ Low256 < Cap48

VARIABLES
    node,           \* the node in the slot of its parent
    kids            \* history: bytes under which a child was added, not removed

vars == <<node, kids>>

\* num_children is a uint8_t.
Count(i) == i % Cardinality(Byte)

Lists(type, keys, children) ==
    [type |-> type, num |-> Len(keys), keys |-> keys, children |-> children]
Node48(num, keys, children) ==
    [type |-> 48, num |-> num, keys |-> keys, children |-> children]
Node256(num, children) == [type |-> 256, num |-> num, children |-> children]

\* The slot of the parent holds the only child that was left.
Collapsed(child) == [type |-> 0, child |-> child]

\* find_child
FindChild(n, c) ==
    IF n.type \in {4, 16} THEN
        IF \E i \in 1..n.num : n.keys[i] = c
        THEN n.children[Min({i \in 1..n.num : n.keys[i] = c})] ELSE NoChild
    ELSE IF n.type = 48 THEN IF n.keys[c] = 0 THEN NoChild ELSE n.children[n.keys[c]]
    ELSE n.children[c]

-----------------------------------------------------------------------------
(* add_child *)

AddChild256(n, c) == Node256(Count(n.num + 1), [n.children EXCEPT ![c] = c])

Grown48(n) ==
    Node256(n.num, [c \in Byte |-> IF n.keys[c] = 0 THEN NoChild ELSE n.children[n.keys[c]]])

\* The first slot that is free, which a removal may have left in the middle.
FreeSlotLast(n) == n.num + 1                    \* mutant: holes are forgotten

FreeSlot(n) == Min({pos \in 1..Cap48 : n.children[pos] = NoChild})

AddChild48(n, c) ==
    IF n.num < Cap48
    THEN Node48(n.num + 1, [n.keys EXCEPT ![c] = FreeSlot(n)],
                [n.children EXCEPT ![FreeSlot(n)] = c])
    ELSE AddChild256(Grown48(n), c)

Grown16(n) ==
    Node48(n.num,
           [c \in Byte |-> IF c \in ToSet(n.keys)
                           THEN CHOOSE i \in 1..n.num : n.keys[i] = c ELSE 0],
           [pos \in 1..Cap48 |-> IF pos <= n.num THEN n.children[pos] ELSE NoChild])

\* The comparison of add_child16 on x86 is one of signed bytes.
Signed(b) == IF b < HalfByte THEN b ELSE b - 2 * HalfByte

\* Both lists get the child before the first greater byte.
InsertSorted(n, c, greater) ==
    LET pos == IF greater = {} THEN n.num + 1 ELSE Min(greater)
    IN  Lists(n.type, InsertAt(n.keys, pos, c), InsertAt(n.children, pos, c))

AddChild16(n, c) ==
    IF n.num < Cap16
    THEN InsertSorted(n, c, {i \in 1..n.num : Signed(c) < Signed(n.keys[i])})
    ELSE AddChild48(Grown16(n), c)

AddChild4(n, c) ==
    IF n.num < Cap4
    THEN InsertSorted(n, c, {i \in 1..n.num : c < n.keys[i]})
    ELSE AddChild16([n EXCEPT !.type = 16], c)

AddChild(n, c) ==
    CASE n.type = 4   -> AddChild4(n, c)
      [] n.type = 16  -> AddChild16(n, c)
      [] n.type = 48  -> AddChild48(n, c)
      [] n.type = 256 -> AddChild256(n, c)

-----------------------------------------------------------------------------
(* remove_child: a layout gives way to a smaller one below the threshold at *)
(* which it was entered, not at it.                                          *)

RemoveListed(n, c) ==
    LET pos == CHOOSE i \in 1..n.num : n.keys[i] = c
    IN  Lists(n.type, RemoveAt(n.keys, pos), RemoveAt(n.children, pos))

RemoveChild4Keeps(n, c) == RemoveListed(n, c)   \* mutant: the node stays

RemoveChild4(n, c) ==
    LET left == RemoveListed(n, c)
    IN  IF left.num = 1 THEN Collapsed(left.children[1]) ELSE left

RemoveChild16(n, c) ==
    LET left == RemoveListed(n, c)
    IN  IF left.num = Low16 THEN [left EXCEPT !.type = 4] ELSE left

\* The place of a byte among others, and the others in their order.
Rank(b, bytes) == Cardinality({a \in bytes : a <= b})

InByteOrder(bytes) == [i \in 1..Cardinality(bytes) |-> CHOOSE b \in bytes : Rank(b, bytes) = i]

ClearedKey(n, c) == Node48(n.num - 1, [n.keys EXCEPT ![c] = 0], n.children)   \* mutant

\* The slot of the child is free again.
ClearedSlot(n, c) ==
    Node48(n.num - 1, [n.keys EXCEPT ![c] = 0], [n.children EXCEPT ![n.keys[c]] = NoChild])

RemoveChild48(n, c) ==
    LET left  == ClearedSlot(n, c)
        order == InByteOrder({b \in Byte : left.keys[b] # 0})
    IN  IF left.num = Low48
        THEN Lists(16, order, [i \in 1..Len(order) |-> left.children[left.keys[order[i]]]])
        ELSE left

\* num_children of a full NODE256 has wrapped to zero.
RemoveChild256(n, c) ==
    LET children == [n.children EXCEPT ![c] = NoChild]
        order    == InByteOrder({b \in Byte : children[b] # NoChild})
        slot     == [b \in Byte |-> IF children[b] = NoChild THEN 0
                                    ELSE CHOOSE i \in 1..Len(order) : order[i] = b]
    IN  IF Count(n.num - 1) = Low256
        THEN Node48(Low256, slot,
                    [pos \in 1..Cap48 |-> IF pos <= Len(order) THEN children[order[pos]]
                                          ELSE NoChild])
        ELSE Node256(Count(n.num - 1), children)

RemoveChild(n, c) ==
    CASE n.type = 4   -> RemoveChild4(n, c)
      [] n.type = 16  -> RemoveChild16(n, c)
      [] n.type = 48  -> RemoveChild48(n, c)
      [] n.type = 256 -> RemoveChild256(n, c)

-----------------------------------------------------------------------------
(* The life of a node: made with two children by a split, then children are *)
(* added (never twice under one byte) and removed.                          *)

NewNode4(c, d) == AddChild4(AddChild4(Lists(4, <<>>, <<>>), c), d)

Init ==
    \E c, d \in Byte : c # d /\ node = NewNode4(c, d) /\ kids = {c, d}

Split(c, d) ==
    /\ node.type = 0 /\ c # d
    /\ node' = NewNode4(c, d)
    /\ kids' = {c, d}

AddTo(c) ==
    /\ node.type # 0 /\ FindChild(node, c) = NoChild
    /\ node' = AddChild(node, c)
    /\ kids' = kids \cup {c}

RemoveFrom(c) ==
    /\ node.type # 0 /\ FindChild(node, c) # NoChild
    /\ node' = RemoveChild(node, c)
    /\ kids' = kids \ {c}

Next ==
    \/ \E c, d \in Byte : Split(c, d)
    \/ \E c \in Byte : AddTo(c) \/ RemoveFrom(c)

Spec == Init /\ [][Next]_vars

-----------------------------------------------------------------------------
(* Properties. *)

\* The children in the order in which recursive_iter and destroy_node visit them.
Visited(n) ==
    CASE n.type = 0         -> <<n.child>>
      [] n.type \in {4, 16} -> SubSeq(n.children, 1, n.num)
      [] n.type = 48        ->
            LET order == InByteOrder({c \in Byte : n.keys[c] # 0})
            IN  [i \in 1..Len(order) |-> n.children[n.keys[order[i]]]]
      [] n.type = 256       -> InByteOrder({c \in Byte : n.children[c] # NoChild})

\* num_children counts the children, modulo the width of its field, and every
\* layout holds the numbers of children that its capacity and its thresholds
\* allow: in particular only a NODE4 ever comes down to one child.
TypeOK ==
    /\ kids \subseteq Byte
    /\ node.type # 0 => node.num = Count(Cardinality(kids))
    /\ CASE node.type = 0   -> Cardinality(kids) = 1
         [] node.type = 4   -> Cardinality(kids) \in 2..Cap4
         [] node.type = 16  -> Cardinality(kids) \in (Low16 + 1)..Cap16
         [] node.type = 48  -> Cardinality(kids) \in (Low48 + 1)..Cap48
         [] node.type = 256 -> Cardinality(kids) > Low256

\* Through any number of growths, shrinks and slots freed and reused, a byte
\* leads to the child that was added under it and was not removed, to none
\* otherwise, and a visit of the node meets every such child once.
LayoutExact ==
    /\ node.type # 0 => \A c \in Byte : FindChild(node, c) = IF c \in kids THEN c ELSE NoChild
    /\ IsInjective(Visited(node)) /\ ToSet(Visited(node)) = kids

\* Lists carry the same bytes and children at the same places, none twice; the
\* bytes and the slots of a NODE48 lead to each other, so that a slot is free
\* exactly if no byte leads to it and one is found while the node is not full.
SlotsCoherent ==
    CASE node.type = 0         -> kids = {node.child}
      [] node.type \in {4, 16} ->
            /\ node.num = Len(node.keys) /\ node.children = node.keys
            /\ IsInjective(node.keys) /\ ToSet(node.keys) = kids
      [] node.type = 48        ->
            /\ DOMAIN node.keys = Byte /\ DOMAIN node.children = 1..Cap48
            /\ \A c \in Byte :
                  IF c \in kids
                  THEN node.keys[c] \in 1..Cap48 /\ node.children[node.keys[c]] = c
                  ELSE node.keys[c] = 0
            /\ \A pos \in 1..Cap48 :
                  node.children[pos] # NoChild =>
                      node.children[pos] \in kids /\ node.keys[node.children[pos]] = pos
      [] node.type = 256       ->
            node.children = [c \in Byte |-> IF c \in kids THEN c ELSE NoChild]
=============================================================================
