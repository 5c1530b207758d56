--------------------------- MODULE MCCompileQueue ---------------------------
EXTENDS BlockMap, TLC

CONSTANTS a1, a2, a3,
    MaxJumps   \* bound: static jumps and calls in all blocks

Addr3 == {a1, a2, a3}

(* Two hashes that collide altogether, and one that leaves their path at   *)
(* the second level.                                                       *)
CollidingHash == a1 :> 0 @@ a2 :> 0 @@ a3 :> 4

BoundedNext == MapNext /\ Cardinality(links') <= MaxJumps

(* A block may always end instead of emitting one more jump, so the bound  *)
(* never keeps the driver from its next step.                              *)
BoundedSpec == MapInit /\ [][BoundedNext]_mapVars /\ WF_mapVars(Progress /\ BoundedNext)
=============================================================================
