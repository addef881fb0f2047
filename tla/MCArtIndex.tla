----------------------------- MODULE MCArtIndex -----------------------------
(* Addresses of dataflow 0 with the widths of tag_message: actors and actor  *)
(* groups take two bytes, branches four, in little-endian order.             *)
EXTENDS ArtIndex

Two(i) == <<i, 0>>
Four(i) == <<i, 0, 0, 0>>

Own == Two(0)
Scope(outer, group, branch) == outer \o Two(group) \o Four(branch)
Actor(scope, op) == scope \o Two(op)

\* Actors 0 and 1; group 2 holds the branches 0 and 1, and branch 0 holds
\* group 3 with one branch.
Nested == Scope(Scope(Own, 2, 0), 3, 0)
PlanAddr ==
    {Actor(Own, 0), Actor(Own, 1),
     Actor(Scope(Own, 2, 0), 0), Actor(Scope(Own, 2, 1), 0), Actor(Scope(Own, 2, 1), 1),
     Actor(Nested, 0), Actor(Nested, 1)}
PlanPrefix ==
    {Own, Own \o Two(2), Scope(Own, 2, 0), Scope(Own, 2, 1), Nested,
     Actor(Own, 0), Actor(Scope(Own, 2, 1), 1), Actor(Nested, 1)}

\* Two groups side by side, each with branch 1.
SiblingAddr ==
    {Actor(Scope(Own, 2, 0), 0), Actor(Scope(Own, 2, 1), 0), Actor(Scope(Own, 2, 1), 1)}
SiblingPrefix == {Scope(Own, 2, 0), Scope(Own, 2, 1), Scope(Own, 3, 1)}
=============================================================================
