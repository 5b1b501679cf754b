------------------------------ MODULE RunLease ------------------------------
(***************************************************************************)
(* What the work queue promises about execution rights, and nothing else:  *)
(* a task has at most one holder; a holder is never replaced by another    *)
(* without a release in between.  A release may take several tasks at once *)
(* (a sweep) and may be made by anyone: the queue does not promise that a  *)
(* holder keeps its task until it lets go.                                 *)
(***************************************************************************)
CONSTANTS Tasks, Holders, NoHolder

VARIABLE holder

LeaseTypeOK == holder \in [Tasks -> Holders \cup {NoHolder}]

LeaseInit == holder = [t \in Tasks |-> NoHolder]

Acquire(t, h) ==
    /\ holder[t] = NoHolder
    /\ holder' = [holder EXCEPT ![t] = h]

Release(S) == holder' = [t \in Tasks |-> IF t \in S THEN NoHolder ELSE holder[t]]

LeaseNext ==
    \/ \E t \in Tasks, h \in Holders : Acquire(t, h)
    \/ \E S \in SUBSET Tasks : Release(S)

LeaseSpec == LeaseInit /\ [][LeaseNext]_holder
=============================================================================
