------------------------ MODULE MCCompletionNotices ------------------------
(* A small instance of CompletionNotices for TLC.                          *)
EXTENDS CompletionNotices

CONSTANTS a, b, c

\* created_at: the goal task c behind the plain ones.
Created == [t \in Tasks |-> CASE t = a -> 1 [] t = b -> 2 [] t = c -> 3]

\* max_retries: a first failure stays below the limit for a only.
RetryForA == [t \in Tasks |-> IF t = a THEN 2 ELSE 1]
=============================================================================
