----------------------------- MODULE MCDataflow -----------------------------
(***************************************************************************)
(* Constants of Dataflow for TLC: two plans, a two-node graph and hosts    *)
(* that send data, EOS, cancellations and unknown messages in any order.   *)
(***************************************************************************)
EXTENDS Dataflow

CONSTANTS n0, n1, group

\* One node leads to three, the other to none: with payloads of two, one
\* message of data makes one full payload and leaves a rest.
Graph == n0 :> <<n1, n1, n0>> @@ n1 :> <<>>

ExpiredClock == {FALSE}     \* _start_time is never set: every slice is over
AnyClock == BOOLEAN

Nothing(to) == [type |-> "USER", to |-> to, kind |-> "NOTHING", data |-> <<>>]
Cancel(p) == [type |-> "CANCEL_SCOPE", prefix |-> p]
Unknown == [type |-> "ACKNOWLEDGE"]

-----------------------------------------------------------------------------
(* The plan of the repository: OUT at op0, LIMIT at op1. *)

CONSTANTS op0, op1, scope0, scope1

PlanAddr == {op0, op1}
PlanOpCode == op0 :> "OUT" @@ op1 :> "LIMIT"
PlanDownstream == op0 :> op1 @@ op1 :> NoAddr
PlanLimit == op0 :> 0 @@ op1 :> 2
PlanUnder == group :> PlanAddr @@ scope0 :> {op0} @@ scope1 :> {op1}
PlanPrefixLen == group :> 2 @@ scope0 :> 4 @@ scope1 :> 4

PlanHost ==
    {DataMessage(op0, <<n0>>), EosMessage(op0), EosMessage(op1), Nothing(op1),
     Cancel(scope0), Cancel(scope1), Cancel(group), Unknown}

-----------------------------------------------------------------------------
(* A plan with two branches of an inner scope, OUT feeding LIMIT in the    *)
(* first, a LIMIT of zero nodes in the second: cancellations reach several *)
(* actors, one, or only addresses nobody has written to yet.               *)

CONSTANTS out1, limit1, limit2, inner, branch1, branch2

BranchAddr == {out1, limit1, limit2}
BranchOpCode == out1 :> "OUT" @@ limit1 :> "LIMIT" @@ limit2 :> "LIMIT"
BranchDownstream == out1 :> limit1 @@ limit1 :> NoAddr @@ limit2 :> NoAddr
BranchLimit == out1 :> 0 @@ limit1 :> 1 @@ limit2 :> 0
BranchUnder ==
    group :> BranchAddr @@ inner :> BranchAddr
    @@ branch1 :> {out1, limit1} @@ branch2 :> {limit2}
BranchPrefixLen == group :> 2 @@ inner :> 4 @@ branch1 :> 8 @@ branch2 :> 8

BranchHost ==
    {DataMessage(out1, <<n0>>), Nothing(out1), EosMessage(out1), EosMessage(limit1),
     EosMessage(limit2), Cancel(group), Cancel(inner), Cancel(branch1), Unknown}
=============================================================================
