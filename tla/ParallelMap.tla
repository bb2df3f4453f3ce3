---------------------------- MODULE ParallelMap ----------------------------
(***************************************************************************)
(* What a caller of razor/pool.py is promised by pool.map(f, args): the    *)
(* call computes every slot of the result list once, in any order, and     *)
(* returns only when all of them have been computed.                       *)
(***************************************************************************)
EXTENDS Naturals

CONSTANTS Tasks       \* the largest number of arguments of one call

VARIABLES
    active,           \* TRUE while a call is in progress
    todo              \* the slots of the current call not computed yet

mapVars == <<active, todo>>

MapInit ==
    /\ active = FALSE
    /\ todo = {}

Call ==
    /\ ~active
    /\ \E n \in 0..Tasks : todo' = 1..n
    /\ active' = TRUE

Compute ==
    /\ active
    /\ \E i \in todo : todo' = todo \ {i}
    /\ UNCHANGED active

Return ==
    /\ active
    /\ todo = {}
    /\ active' = FALSE
    /\ UNCHANGED todo

MapNext == Call \/ Compute \/ Return

MapSpec == MapInit /\ [][MapNext]_mapVars
=============================================================================
