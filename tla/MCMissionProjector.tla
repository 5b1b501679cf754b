------------------------- MODULE MCMissionProjector -------------------------
(* Small instances of MissionProjector for TLC.                            *)
EXTENDS MissionProjector, TLC

CONSTANTS t1, t2

AnyTask == Permutations(Tasks)
=============================================================================
