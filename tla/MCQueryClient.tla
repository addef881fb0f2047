--------------------------- MODULE MCQueryClient ---------------------------
(***************************************************************************)
(* Constants of QueryClient for TLC: queries of two hops on a graph with a *)
(* cycle, a fan-out and a dead end; some answers reach the limit.          *)
(***************************************************************************)
EXTENDS QueryClient

CONSTANTS hop1, hop2, cut, n0, n1, n2, group

ChainAddr == {hop1, hop2, cut}
Chain == <<hop1, hop2, cut>>
ChainOpCode == hop1 :> "OUT" @@ hop2 :> "OUT" @@ cut :> "LIMIT"
ChainDownstream == hop1 :> hop2 @@ hop2 :> cut @@ cut :> NoAddr
ChainLimit == hop1 :> 0 @@ hop2 :> 0 @@ cut :> 5
ChainUnder == group :> ChainAddr
ChainPrefixLen == group :> 2

Graph == n0 :> <<n1, n2, n0>> @@ n1 :> <<n0, n2>> @@ n2 :> <<>>
Payload == {<<>>, <<n0>>, <<n1>>, <<n2, n1>>}
StartNodes == {<<>>} \cup {<<p>> : p \in Payload} \cup {<<p, q>> : p, q \in Payload}

AnyClock == BOOLEAN
ClientMessage == {DataMessage(hop1, p) : p \in Payload} \cup {EosMessage(hop1)}
=============================================================================
