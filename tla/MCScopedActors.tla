--------------------------- MODULE MCScopedActors ---------------------------
(* Addresses of dataflow 0 with the widths of tag_message, as in MCArtIndex: *)
(* actors and actor groups take two bytes, branches four.                    *)
EXTENDS ScopedActors

Two(i) == <<i, 0>>
Four(i) == <<i, 0, 0, 0>>

Own == Two(0)
Scope(outer, group, branch) == outer \o Two(group) \o Four(branch)
Actor(scope, op) == scope \o Two(op)

\* An actor of the plan, two in branch 0 of group 2, and one in branch 1, in
\* group 3 below it.
Branch == Scope(Own, 2, 0)
Nested == Scope(Scope(Own, 2, 1), 3, 0)
NestedAddr == {Actor(Own, 0), Actor(Branch, 0), Actor(Branch, 1), Actor(Nested, 0)}
NestedPrefix ==
    NestedAddr \cup {Own, Own \o Two(2), Branch, Nested}

\* Two groups side by side, each with branch 1.
SiblingAddr ==
    {Actor(Branch, 0), Actor(Scope(Own, 2, 1), 0), Actor(Scope(Own, 2, 1), 1)}
SiblingPrefix == SiblingAddr \cup {Own, Scope(Own, 2, 1), Scope(Own, 3, 1)}
=============================================================================
