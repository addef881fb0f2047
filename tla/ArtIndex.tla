------------------------------ MODULE ArtIndex ------------------------------
(***************************************************************************)
(* radix_tree_index: the index of a dataflow, kept in an adaptive radix    *)
(* tree.  Each method loads its key (an address gets a final zero byte, a  *)
(* prefix does not) and calls the tree.  A key is inserted only when       *)
(* lookup did not find it disabled, as in process_mailbox.                 *)
(***************************************************************************)
EXTENDS Art

CONSTANTS
    Addr,           \* addresses of operator actors
    Prefix,         \* prefixes that are disabled: of scopes, or whole addresses
    Beyond,         \* a byte that lies behind a prefix in memory
    SizeModulus     \* _tree->size is unsigned and wraps here

VARIABLES
    root,           \* _tree->root
    size            \* _tree->size

vars == <<root, size>>

\* radix_tree_index::loadKey
LoadKey(addr) == Append(addr, 0)

Key == {LoadKey(a) : a \in Addr}

\* Addresses of actors are fields of fixed widths, and the plan numbers the
\* actors and the groups of one level differently: no key continues another,
\* and no prefix continues a key.
ASSUME AddressAssumption ==
    /\ Addr \subseteq Seq(0..255) /\ Prefix \subseteq Seq(0..255) \ {<<>>}
    /\ \A k, l \in Key : IsPrefix(k, l) => k = l
    /\ \A k \in Key, p \in Prefix : ~IsPrefix(k, p)
    /\ Beyond \in 0..255 /\ SizeModulus \in Nat \ {0}

Init == root = Null /\ size = 0

Lookup(a) == ArtLookup(root, LoadKey(a))

Get(a) == ArtSearch(root, LoadKey(a))

Insert(a) ==
    /\ Lookup(a) # -1
    /\ root' = ArtInsert(root, LoadKey(a))
    /\ size' = (size + InsertedCount(root, LoadKey(a))) % SizeModulus

Disable(p) ==
    LET result == ArtDisable(root, p)
    IN  /\ root' = result.tree
        /\ size' = (size - result.lost) % SizeModulus

RemoveKey(a) ==
    /\ root' = ArtDelete(root, LoadKey(a))
    /\ size' = (size - Cardinality(Leaves(root)) + Cardinality(Leaves(root'))) % SizeModulus

AfterRemovePrefix(p) == ArtDeletePrefix(root, p, Beyond)

RemovePrefix(p) ==
    /\ root' = AfterRemovePrefix(p)
    /\ size' = (size - Cardinality(Leaves(root)) + Cardinality(Leaves(root'))) % SizeModulus

Next ==
    \/ \E a \in Addr : Insert(a) \/ RemoveKey(a)
    \/ \E p \in Prefix : Disable(p) \/ RemovePrefix(p)

Spec == Init /\ [][Next]_vars

-----------------------------------------------------------------------------
(* The tree is well formed. *)

Active == ActiveBelow(root)
Disabled == {leaf.key : leaf \in {l \in Leaves(root) : ~l.live}}

\* A node at depth d has two children or more, stores the bytes that all its
\* leaves share from d on, as many as fit, and has each child under the byte
\* that follows.
RECURSIVE WellFormed(_, _)
WellFormed(n, d) ==
    \/ IsLeaf(n)
    \/ /\ Cardinality(DOMAIN n.kids) > 1
       /\ Len(n.partial) = Lesser(MaxPrefix, n.plen)
       /\ \A c \in DOMAIN n.kids :
             /\ \A leaf \in Leaves(n.kids[c]) :
                   /\ Len(leaf.key) > d + n.plen
                   /\ IsPrefix(n.partial, From(leaf.key, d))
                   /\ leaf.key[d + n.plen + 1] = c
             /\ WellFormed(n.kids[c], d + n.plen + 1)

TypeOK ==
    /\ root = Null \/ WellFormed(root, 0)
    /\ Active \subseteq Key /\ Disabled \subseteq Prefix
    /\ size \in 0..(SizeModulus - 1)

-----------------------------------------------------------------------------
(* What the dataflow relies on. *)

Abstract == INSTANCE PrefixIndex
    WITH PrefixKey <- Prefix, active <- Active, disabled <- Disabled

\* Whatever the order of insertions, cancellations and removals, and however the
\* nodes were split, collapsed and replaced, the tree holds exactly the active
\* keys and the disabled prefixes of the abstract index.
ImplementsIndex == Abstract!IndexSpec

\* The searches skip the part of a prefix that a node does not store, and still
\* answer like the abstract index: 1 for an active address, -1 below a disabled
\* prefix, 0 for any other; get and contains find the active addresses alone.
AnswersExact ==
    \A a \in Addr :
        /\ Lookup(a) = Abstract!Answer(LoadKey(a))
        /\ Get(a) <=> LoadKey(a) \in Active

Reached(p) == IterActivePrefix(root, p, 0, Beyond)

\* A cancellation reaches every active actor of its scope.
NoneMissed == \A p \in Prefix : {k \in Active : IsPrefix(p, k)} \subseteq Reached(p)

\* art_iter_active_prefix, "invoking a callback for each that matches a given
\* prefix": a cancellation reaches no actor outside its scope.  This holds for
\* plans that nest their groups.  With two groups side by side a node whose
\* prefix differs from the scope in its middle is searched on, and a node below
\* it that matches the rest of the scope is taken for the scope: the outcome is
\* ActorsExist, broken, in module ScopedActors.
NoneStray == \A p \in Prefix : Reached(p) \subseteq {k \in Active : IsPrefix(p, k)}

\* "Returns the size of the ART tree": the number of its leaves that map to an
\* actor.  Broken by a leaf that is disabled twice, and by disabled leaves that
\* a shorter prefix removes: they were not counted when they were added.
SizeExact == size = Cardinality(Active)

\* art_delete_prefix, "Deletes a prefix and all its sub-tree from the ART tree":
\* after remove_prefix the tree holds no key below the prefix.  Broken by a tree
\* of a single actor, by a prefix that ends within the root's, and by one that
\* ends further down than a child of the root.
RemovePrefixComplete ==
    \A p \in Prefix :
        \A leaf \in Leaves(AfterRemovePrefix(p)) : ~IsPrefix(p, leaf.key)
=============================================================================
