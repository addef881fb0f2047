-------------------------------- MODULE Art --------------------------------
(***************************************************************************)
(* The adaptive radix tree of src/src/util/art.cc as functions on trees:   *)
(* where the code overwrites the slot ref that points to a node, a         *)
(* function returns the tree that the slot holds afterwards.               *)
(*                                                                         *)
(* The four node layouts are abstracted to a function from bytes to        *)
(* children (module ArtNode models the layouts).  Depths count bytes from  *)
(* zero, as in the code; a byte read past the end of a key is an error of  *)
(* evaluation, so the runs also show that none is read, except in          *)
(* IterActivePrefix, where the code does it and the byte is a parameter.   *)
(***************************************************************************)
EXTENDS Integers, FiniteSets, Sequences, SequencesExt

CONSTANT MaxPrefix      \* MAX_PREFIX_LEN: bytes of a prefix a node stores

ASSUME MaxPrefixAssumption == MaxPrefix \in Nat \ {0}

Null == [null |-> TRUE]

Lesser(i, j) == IF i < j THEN i ELSE j

Take(s, k) == SubSeq(s, 1, Lesser(k, Len(s)))

\* make_leaf; a disabled prefix is a leaf without value.
MakeLeaf(key, live) == [key |-> key, live |-> live]

\* A node stores the length of its prefix but at most MaxPrefix bytes of it.
MakeNode(prefix, kids) ==
    [plen |-> Len(prefix), partial |-> Take(prefix, MaxPrefix), kids |-> kids]

IsLeaf(n) == "key" \in DOMAIN n

\* The bytes of a key from depth d on.
From(key, d) == SubSeq(key, d + 1, Len(key))

\* The number of leading elements that s and t share: the loop of check_prefix,
\* longest_common_prefix, prefix_mismatch, leaf_disable_prefix and memcmp.
Agreement(s, t) ==
    Max({i \in 0..Lesser(Len(s), Len(t)) : \A j \in 1..i : s[j] = t[j]})

\* find_child and add_child.
HasChild(n, c) == c \in DOMAIN n.kids

AddChild(n, c, child) == [n EXCEPT !.kids = (c :> child) @@ @]

\* A NODE4 with two children that the code has just allocated.
MakeNode4(prefix, c1, child1, c2, child2) ==
    MakeNode(prefix, (c1 :> child1) @@ (c2 :> child2))

\* Every leaf below a node.
RECURSIVE Leaves(_)
Leaves(n) ==
    IF n = Null THEN {}
    ELSE IF IsLeaf(n) THEN {n}
    ELSE UNION {Leaves(n.kids[c]) : c \in DOMAIN n.kids}

\* destroy_node returns the number of leaves it freed, disabled ones included.
DestroyNode(n) == Cardinality(Leaves(n))

\* minimum: the leaf reached through the first child of every node.
RECURSIVE Minimum(_)
Minimum(n) == IF IsLeaf(n) THEN n ELSE Minimum(n.kids[Min(DOMAIN n.kids)])

-----------------------------------------------------------------------------
(* Matching a key against a node or a leaf. *)

CheckPrefix(n, key, d) == Agreement(n.partial, From(key, d))

\* The searches go on when every stored byte matches: the rest of a prefix
\* longer than MaxPrefix is skipped, and left to the comparison at the leaf.
PrefixMatches(n, key, d) == CheckPrefix(n, key, d) = Lesser(MaxPrefix, n.plen)

\* prefix_mismatch: the exact length, read from a leaf where the node does not
\* store it.
PrefixMismatchStored(n, key, d) == CheckPrefix(n, key, d)           \* mutant

PrefixMismatch(n, key, d) ==
    LET stored == CheckPrefix(n, key, d)
    IN  IF n.plen > MaxPrefix /\ stored = Lesser(MaxPrefix, Len(key) - d)
        THEN stored + Agreement(From(Minimum(n).key, d + stored), From(key, d + stored))
        ELSE stored

\* active_leaf_prefix_matches: 1 found, -1 below a disabled prefix, 0 neither.
ActiveLeafPrefixMatchesAny(leaf, key) ==    \* mutant: the prefix is not compared
    IF leaf.live THEN (IF leaf.key = key THEN 1 ELSE 0) ELSE -1

ActiveLeafPrefixMatches(leaf, key) ==
    IF leaf.live THEN (IF leaf.key = key THEN 1 ELSE 0)
    ELSE IF Len(leaf.key) < Len(key) /\ IsPrefix(leaf.key, key) THEN -1 ELSE 0

-----------------------------------------------------------------------------
(* art_lookup and art_search. *)

\* The node at which the search for a key ends: a leaf, or Null.
RECURSIVE Descend(_, _, _)
Descend(n, key, d) ==
    IF n = Null \/ IsLeaf(n) THEN n
    ELSE IF ~PrefixMatches(n, key, d) THEN Null
    ELSE LET e == d + n.plen
         IN  IF HasChild(n, key[e + 1]) THEN Descend(n.kids[key[e + 1]], key, e + 1)
             ELSE Null

ArtLookup(root, key) ==
    LET n == Descend(root, key, 0)
    IN  IF n = Null THEN 0 ELSE ActiveLeafPrefixMatches(n, key)

\* art_search: a leaf with exactly this key; TRUE if it has a value.
ArtSearch(root, key) ==
    LET n == Descend(root, key, 0) IN n # Null /\ n.key = key /\ n.live

-----------------------------------------------------------------------------
(* art_insert. *)

\* A prefix that agrees with the key only for its first diff bytes is split:
\* a new node takes those, the old node keeps what follows the byte that
\* differs, and the leaf hangs beside it.  The bytes of a prefix that is not
\* stored whole are read from a leaf.
Split(n, key, d, diff, leaf) ==
    LET long  == n.plen > MaxPrefix
        bytes == IF long THEN SubSeq(From(Minimum(n).key, d), 1, n.plen) ELSE n.partial
        old   == MakeNode(SubSeq(bytes, diff + 2, n.plen), n.kids)
    IN  MakeNode4(SubSeq(bytes, 1, diff), bytes[diff + 1], old, key[d + diff + 1], leaf)

\* Two leaves that agree on share bytes from depth d on.
SplitLeaf(leaf, key, d, share, new) ==
    MakeNode4(SubSeq(From(key, d), 1, share),
              leaf.key[d + share + 1], leaf, key[d + share + 1], new)

RECURSIVE RecursiveInsert(_, _, _)
RecursiveInsert(n, key, d) ==
    LET new == MakeLeaf(key, TRUE) IN
    IF n = Null \/ (IsLeaf(n) /\ n.key = key) THEN new
    ELSE IF IsLeaf(n) THEN
        SplitLeaf(n, key, d, Agreement(From(n.key, d), From(key, d)), new)
    ELSE IF n.plen > 0 /\ PrefixMismatch(n, key, d) < n.plen THEN
        Split(n, key, d, PrefixMismatch(n, key, d), new)
    ELSE LET e == d + n.plen
             c == key[e + 1]
         IN  AddChild(n, c, IF HasChild(n, c) THEN RecursiveInsert(n.kids[c], key, e + 1)
                            ELSE new)

ArtInsert(root, key) == RecursiveInsert(root, key, 0)

\* The size grows unless the key was there.
InsertedCount(root, key) ==
    LET n == Descend(root, key, 0) IN IF n # Null /\ n.key = key THEN 0 ELSE 1

-----------------------------------------------------------------------------
(* art_disable: the tree it leaves, and how much it takes off the size. *)

\* leaf_disable_prefix: a leaf below the prefix becomes the prefix, and loses
\* its value; a disabled leaf above the prefix stays (the code answers -1); any
\* other leaf gets the disabled prefix beside it.
LeafDisablePrefixKeeps(leaf, key, d) ==     \* mutant: the value is not cleared
    IF IsPrefix(key, leaf.key) THEN [tree |-> [leaf EXCEPT !.key = key], lost |-> 1]
    ELSE IF IsPrefix(leaf.key, key) /\ ~leaf.live THEN [tree |-> leaf, lost |-> 0]
    ELSE [tree |-> SplitLeaf(leaf, key, d, Agreement(From(leaf.key, d), From(key, d)),
                             MakeLeaf(key, FALSE)), lost |-> 0]

LeafDisablePrefixSkips(leaf, key, d) ==     \* mutant: a leaf below is left as it is
    IF IsPrefix(key, leaf.key) THEN [tree |-> leaf, lost |-> 0]
    ELSE LeafDisablePrefixKeeps(leaf, key, d)

LeafDisablePrefix(leaf, key, d) ==
    LET share == Agreement(From(leaf.key, d), From(key, d))
        mark  == MakeLeaf(key, FALSE)
    IN  IF share = Len(key) - d
        THEN [tree |-> [leaf EXCEPT !.key = Take(@, Len(key)), !.live = FALSE],
              lost |-> 1]
        ELSE IF share = Len(leaf.key) - d /\ ~leaf.live THEN [tree |-> leaf, lost |-> 0]
        ELSE [tree |-> SplitLeaf(leaf, key, d, share, mark), lost |-> 0]

\* The leaf that replaces a whole subtree.
Replace(n, key) == [tree |-> MakeLeaf(key, FALSE), lost |-> DestroyNode(n)]

RECURSIVE DisableBelow(_, _, _)
DisableBelow(n, key, d) ==
    IF IsLeaf(n) THEN LeafDisablePrefix(n, key, d)
    ELSE
      LET match == Lesser(PrefixMismatch(n, key, d), n.plen)
          e     == d + n.plen
          c     == key[e + 1]
          mark  == MakeLeaf(key, FALSE)
      IN  IF n.plen > 0 /\ match = Len(key) - d THEN Replace(n, key)
          ELSE IF n.plen > 0 /\ match < n.plen
               THEN [tree |-> Split(n, key, d, match, mark), lost |-> 0]
          ELSE IF ~HasChild(n, c) THEN [tree |-> AddChild(n, c, mark), lost |-> 0]
          ELSE LET below == IF e + 1 = Len(key) THEN Replace(n.kids[c], key)
                            ELSE DisableBelow(n.kids[c], key, e + 1)
               IN  [tree |-> AddChild(n, c, below.tree), lost |-> below.lost]

ArtDisable(root, key) ==
    IF root = Null THEN [tree |-> Null, lost |-> 0] ELSE DisableBelow(root, key, 0)

-----------------------------------------------------------------------------
(* art_iter_active and art_iter_active_prefix: the keys whose values the *)
(* callback gets.                                                         *)

\* recursive_iter_active
ActiveBelow(n) == {leaf.key : leaf \in {l \in Leaves(n) : l.live}}

\* leaf_prefix_matches
LeafPrefixMatchesAny(leaf, key) == TRUE     \* mutant: the path is trusted

LeafPrefixMatches(leaf, key) == IsPrefix(key, leaf.key)

\* What a node does after it compared its prefix with what is left of the key:
\* nothing in common ends the search, and anything else lets it go on, a prefix
\* that differs in a later byte too.
GoesOnWhole(n, match) == match = n.plen     \* mutant: a prefix that ends here is missed

GoesOn(n, match) == match > 0

RECURSIVE IterActivePrefix(_, _, _, _)
IterActivePrefix(n, key, d, beyond) ==
    IF n = Null THEN {}
    ELSE IF IsLeaf(n) THEN
        IF LeafPrefixMatches(n, key) THEN ActiveBelow(n) ELSE {}
    ELSE IF d = Len(key) THEN
        IF LeafPrefixMatches(Minimum(n), key) THEN ActiveBelow(n) ELSE {}
    ELSE
      LET match == Lesser(PrefixMismatch(n, key, d), n.plen)
          e     == d + n.plen
          c     == IF e < Len(key) THEN key[e + 1] ELSE beyond
      IN  IF n.plen > 0 /\ ~GoesOn(n, match) THEN {}
          ELSE IF n.plen > 0 /\ d + match = Len(key) THEN ActiveBelow(n)
          ELSE IF HasChild(n, c) THEN IterActivePrefix(n.kids[c], key, e + 1, beyond)
          ELSE {}

-----------------------------------------------------------------------------
(* art_delete. *)

\* remove_child: a node left with one child is always a NODE4, and gives way to
\* that child, whose prefix grows by the node's prefix and the byte between.
RemoveChild(n, c) ==
    LET kids == [b \in DOMAIN n.kids \ {c} |-> n.kids[b]]
        last == CHOOSE b \in DOMAIN kids : TRUE
        kid  == kids[last]
        joint == IF n.plen < MaxPrefix THEN Append(n.partial, last) \o kid.partial
                 ELSE n.partial
    IN  IF Cardinality(DOMAIN kids) > 1 THEN [n EXCEPT !.kids = kids]
        ELSE IF IsLeaf(kid) THEN kid
        ELSE [kid EXCEPT !.partial = Take(joint, MaxPrefix),
                         !.plen = @ + n.plen + 1]

RECURSIVE DeleteBelow(_, _, _)
DeleteBelow(n, key, d) ==
    LET e == d + n.plen
        c == key[e + 1]
    IN  IF ~PrefixMatches(n, key, d) \/ ~HasChild(n, c) THEN n
        ELSE IF ~IsLeaf(n.kids[c])
             THEN AddChild(n, c, DeleteBelow(n.kids[c], key, e + 1))
        ELSE IF n.kids[c].key = key THEN RemoveChild(n, c) ELSE n

ArtDelete(root, key) ==
    IF root = Null THEN Null
    ELSE IF IsLeaf(root) THEN IF root.key = key THEN Null ELSE root
    ELSE DeleteBelow(root, key, 0)

-----------------------------------------------------------------------------
(* art_delete_prefix: the tree it leaves. *)

ByteAt(key, d, beyond) == IF d < Len(key) THEN key[d + 1] ELSE beyond

\* The byte at depth d leads from n to a child, which goes as a whole if the
\* prefix ends there.  As in the code the child's prefix is compared from d on,
\* where the byte that led to the child still is, and the depth grows by the
\* prefix of n.  A leaf that does not match is then read as if it were a node;
\* the outcome that lets the program go on is that nothing is removed.
RECURSIVE DeletePrefixBelow(_, _, _, _)
DeletePrefixBelow(n, key, d, beyond) ==
    LET c         == ByteAt(key, d, beyond)
        kid       == n.kids[c]
        match     == Lesser(PrefixMismatch(kid, key, d), kid.plen)
        Deeper(e) == AddChild(n, c, DeletePrefixBelow(kid, key, e, beyond))
    IN  IF ~HasChild(n, c) THEN n
        ELSE IF d + 1 = Len(key) THEN RemoveChild(n, c)
        ELSE IF IsLeaf(kid) THEN
            IF LeafPrefixMatches(kid, key) THEN RemoveChild(n, c) ELSE n
        ELSE IF kid.plen = 0 THEN Deeper(d + 1)
        ELSE IF match < Len(key) - d THEN n
        ELSE IF d + match = Len(key) THEN RemoveChild(n, c)
        ELSE Deeper(d + n.plen + 1)

ArtDeletePrefix(root, key, beyond) ==
    IF root = Null THEN Null
    ELSE IF IsLeaf(root) THEN IF root.key = key THEN Null ELSE root
    ELSE IF ~PrefixMatches(root, key, 0) THEN root
    ELSE DeletePrefixBelow(root, key, root.plen, beyond)
=============================================================================
