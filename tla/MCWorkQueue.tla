----------------------------- MODULE MCWorkQueue -----------------------------
(* Small instances of WorkQueue for TLC.                                   *)
EXTENDS WorkQueue, TLC

CONSTANTS t1, t2, d1, d2, key

\* Every gateway process of a host passes the same claimer string.
OneClaimer == [d \in Dispatchers |-> "gateway:host"]

\* t1 is the older task: it comes first in ready_tasks.
OlderFirst == (t1 :> 1) @@ (t2 :> 2)
OnlyT1 == (t1 :> 1)

NoKeys == [t \in Tasks |-> NoKey]
SameKey == [t \in Tasks |-> key]

\* DEFAULT_FAILURE_LIMIT for every task.
DefaultLimit == [t \in Tasks |-> 2]

T1BeforeT2 == {<<t1, t2>>}

AnyDispatcher == Permutations(Dispatchers)
=============================================================================
