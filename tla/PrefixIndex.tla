----------------------------- MODULE PrefixIndex -----------------------------
(***************************************************************************)
(* What radix_tree_index promises the dataflow: a set of keys that map to  *)
(* actors and a set of disabled prefixes.  Nothing lives below a disabled  *)
(* prefix, and no disabled prefix lies below another.  The one surprise is *)
(* in the code: an empty index does not remember a disabled prefix.        *)
(***************************************************************************)
EXTENDS Sequences, SequencesExt

CONSTANTS Key, PrefixKey

VARIABLES
    active,         \* keys with an actor
    disabled        \* prefixes that have been disabled

indexVars == <<active, disabled>>

\* The answer of lookup for a key.
Below(key, prefixes) == \E p \in prefixes : IsPrefix(p, key)

Answer(key) ==
    IF key \in active THEN 1 ELSE IF Below(key, disabled) THEN -1 ELSE 0

IndexInit == active = {} /\ disabled = {}

IndexInsert(key) ==
    /\ Answer(key) # -1
    /\ active' = active \cup {key}
    /\ UNCHANGED disabled

IndexDisable(p) ==
    /\ active \cup disabled # {}
    /\ ~Below(p, disabled)
    /\ active' = {k \in active : ~IsPrefix(p, k)}
    /\ disabled' = {q \in disabled : ~IsPrefix(p, q)} \cup {p}

IndexRemove(key) ==
    /\ key \in active
    /\ active' = active \ {key}
    /\ UNCHANGED disabled

IndexRemovePrefix(p) ==
    /\ active' = {k \in active : ~IsPrefix(p, k)}
    /\ disabled' = {q \in disabled : ~IsPrefix(p, q)}

IndexNext ==
    \/ \E key \in Key : IndexInsert(key) \/ IndexRemove(key)
    \/ \E p \in PrefixKey : IndexDisable(p) \/ IndexRemovePrefix(p)

IndexSpec == IndexInit /\ [][IndexNext]_indexVars
=============================================================================
