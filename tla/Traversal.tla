----------------------------- MODULE Traversal -----------------------------
(***************************************************************************)
(* What a query promises its client: the nodes of the answer, in order and *)
(* each of them once, in as many portions as the engine likes, and then    *)
(* the end of the query.                                                   *)
(***************************************************************************)
EXTENDS Integers, Sequences

CONSTANT Node       \* what a query can return

VARIABLES
    answer,         \* the nodes this query has to return
    results,        \* the nodes returned so far
    finished        \* the query has ended

tvars == <<answer, results, finished>>

Init == answer \in Seq(Node) /\ results = <<>> /\ finished = FALSE

Return ==
    /\ ~finished
    /\ \E n \in (Len(results) + 1)..Len(answer) : results' = SubSeq(answer, 1, n)
    /\ UNCHANGED <<answer, finished>>

Finish ==
    /\ ~finished /\ results = answer
    /\ finished' = TRUE
    /\ UNCHANGED <<answer, results>>

Next == Return \/ Finish

\* Nothing but the answer is returned, in order, and all of it before the end.
Safe == Init /\ [][Next]_tvars

\* Every query ends.
Spec == Safe /\ WF_tvars(Next)
=============================================================================
