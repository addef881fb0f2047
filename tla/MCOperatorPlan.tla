--------------------------- MODULE MCOperatorPlan ---------------------------
(* The plan of the repository, and two with branches below it. *)
EXTENDS OperatorPlan

Out(ds) == [code |-> [op |-> "OUT", ds |-> ds, params |-> <<>>]]
Limit(text) == [code |-> [op |-> "LIMIT", ds |-> -1, params |-> text]]

\* Any character but a digit.
Other == 10

Top == [ignoreLen |-> 0]
Group == [ignoreLen |-> 4]

\* op_code_tree::dummy_insert_simple
Simple == (<<>> :> Top) @@ (<<0>> :> Out(1)) @@ (<<1>> :> Limit(<<5>>))

\* A group beside the operators.
Nested ==
    (<<>> :> Top) @@ (<<0>> :> Out(1)) @@ (<<1>> :> Limit(<<1, Other, 0, 7>>))
    @@ (<<2>> :> Group)
    @@ (<<2, 0>> :> Out(2)) @@ (<<2, 1>> :> Limit(<<>>)) @@ (<<2, 2>> :> Out(1))

\* Two levels of groups fill all of a buffer that whole fields can fill.
Deep ==
    (<<>> :> Top) @@ (<<0>> :> Group) @@ (<<0, 0>> :> Group)
    @@ (<<0, 0, 0>> :> Out(1)) @@ (<<0, 0, 1>> :> Limit(<<2, 5, 7>>))

MCPlans == {Simple, Nested, Deep}
MCDataflowId == <<0, 0>>

\* Branch 65536 has its only bit in the upper half of the field.
MCBranchId == {0, 65536}
=============================================================================
