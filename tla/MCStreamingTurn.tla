-------------------------- MODULE MCStreamingTurn --------------------------
(* A small instance of StreamingTurn for TLC.                              *)
EXTENDS StreamingTurn

CONSTANTS r1, r2, t1

\* Requests that name no turn share the session's default.
SameTurn == [r \in {r1, r2} |-> t1]
=============================================================================
