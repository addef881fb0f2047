-------------------------- MODULE MCIndexedDataflow --------------------------
(* The bytes of the plan of MCDataflow: actors 0 and 1 of dataflow 0, in fields *)
(* of the widths of tag_message (an id takes two bytes).  A scope of this plan  *)
(* is one actor: its prefix is the address of the actor.                        *)
EXTENDS MCDataflow, IndexedDataflow

Own == <<0, 0>>
Actor(id) == Own \o <<id, 0>>

PlanAddrBytes == op0 :> Actor(0) @@ op1 :> Actor(1)
PlanPrefixBytes == group :> Own @@ scope0 :> Actor(0) @@ scope1 :> Actor(1)
=============================================================================
