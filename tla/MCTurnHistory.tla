--------------------------- MODULE MCTurnHistory ---------------------------
(* A small instance of TurnHistory for TLC.                                *)
EXTENDS TurnHistory, TLC

CONSTANTS r1, r2, r3, t1, t2

\* Two requests with the session's default turn id and one with its own.
TwoOfOneTurn == [r \in {r1, r2, r3} |-> IF r = r3 THEN t2 ELSE t1]

\* The two of one turn are interchangeable.
SameTurn == Permutations({r1, r2})
=============================================================================
