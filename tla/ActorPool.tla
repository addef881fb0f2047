----------------------------- MODULE ActorPool -----------------------------
(***************************************************************************)
(* What an actor group promises about the lives of its actors: an actor is *)
(* created once per address, works until it is told to stop, and is then   *)
(* deleted once.  A stop takes in all the live actors of a scope and none  *)
(* besides, and bars the addresses of the scope that have no actor yet.    *)
(***************************************************************************)
EXTENDS Integers, FiniteSets

CONSTANTS
    Member,     \* addresses of actors
    Scope       \* the sets of addresses that can be stopped together

VARIABLES
    phase,      \* address -> "absent", "live", "stopping" or "gone"
    stopping    \* how many actors have been told to stop and are not deleted

poolVars == <<phase, stopping>>

PoolInit == phase = [a \in Member |-> "absent"] /\ stopping = 0

Create(a) ==
    /\ phase[a] = "absent"
    /\ phase' = [phase EXCEPT ![a] = "live"]
    /\ UNCHANGED stopping

Stopped(old) ==
    IF old = "live" THEN "stopping" ELSE IF old = "absent" THEN "gone" ELSE old

Stop(s) ==
    /\ phase' = [a \in Member |-> IF a \in s THEN Stopped(phase[a]) ELSE phase[a]]
    /\ stopping' = stopping + Cardinality({a \in s : phase[a] = "live"})

Delete(a) ==
    /\ phase[a] = "stopping"
    /\ phase' = [phase EXCEPT ![a] = "gone"]
    /\ stopping' = stopping - 1

PoolNext ==
    \/ \E a \in Member : Create(a) \/ Delete(a)
    \/ \E s \in Scope : Stop(s)

PoolSpec == PoolInit /\ [][PoolNext]_poolVars
=============================================================================
