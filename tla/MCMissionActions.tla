-------------------------- MODULE MCMissionActions --------------------------
(* Small instances of MissionActions for TLC.                              *)
EXTENDS MissionActions

CONSTANTS m1, m2

\* Four actions on two missions; the second and third carry the same
\* created_at.
FourEvents == 1..4
Alternate == [e \in FourEvents |-> IF e \in {1, 4} THEN m1 ELSE m2]
Shared == <<1, 2, 2, 3>>
InOrder == [e \in FourEvents |-> e]
=============================================================================
