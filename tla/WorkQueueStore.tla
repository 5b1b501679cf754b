--------------------------- MODULE WorkQueueStore ---------------------------
(***************************************************************************)
(* The durable work-queue store: the SQLite tables work_queue_tasks,       *)
(* work_queue_task_links and work_queue_task_runs, and one operator per    *)
(* method of SqliteWorkQueueStore that writes them.                        *)
(*                                                                         *)
(* Python's sqlite3 opens a transaction at the first write of a method, so *)
(* the SELECTs before it read the database without a lock.  A method that  *)
(* decides on such a read is two operators here, its read and its          *)
(* transaction; the composing module puts any other process's steps        *)
(* between them.  A method that begins with BEGIN IMMEDIATE is one         *)
(* operator.                                                               *)
(*                                                                         *)
(* Abstractions: wall-clock time is reduced to whether a row's             *)
(* claim_expires has passed (lease); consecutive_failures saturates at the *)
(* task's effective limit, the only value it is compared with; of the run  *)
(* rows only the open ones (ended_at IS NULL) are counted, and             *)
(* current_run_id names the dispatcher whose claim inserted the row.       *)
(* Titles, results, errors and time stamps are left out.                   *)
(***************************************************************************)
EXTENDS Naturals, FiniteSets

CONSTANTS
    Tasks,          \* ids a task row may have
    Dispatchers,    \* processes that own a WorkQueueDriver
    Claimers,       \* claimer strings
    Claimer,        \* the claimer string each dispatcher passes to claim
    Keys,           \* idempotency keys
    Key,            \* the idempotency_key of each task, or NoKey
    Limit,          \* effective failure limit: max_retries, or the default
    NoClaim, NoRun, NoKey   \* the NULLs of claim_lock, current_run_id, key

ASSUME StoreAssumption ==
    /\ Claimer \in [Dispatchers -> Claimers]
    /\ Key \in [Tasks -> Keys \cup {NoKey}]
    /\ Limit \in [Tasks -> Nat]
    /\ NoClaim \notin Claimers
    /\ NoRun \notin Dispatchers
    /\ NoKey \notin Keys

VARIABLES
    status,         \* status column; "absent": no row yet
    claim_lock,     \* claim_lock column
    lease,          \* claim_expires: "none" (NULL), "valid" or "expired"
    failures,       \* consecutive_failures, saturating at Limit
    current_run_id, \* current_run_id column
    open_runs,      \* number of run rows of the task with ended_at IS NULL
    links           \* work_queue_task_links, pairs <<parent, child>>

claimVars == <<claim_lock, lease>>
runVars == <<current_run_id, open_runs>>
storeVars == <<status, claimVars, failures, runVars, links>>

\* TaskStatus of models.py, and two stages of a row that is not there yet:
\* "inserting" is a create() past its duplicate-key SELECT.
Unborn == {"absent", "inserting"}
TaskStatus == {"triage", "todo", "ready", "running",
               "completed", "blocked", "failed", "archived"}
DoneStates == {"completed", "archived"}

StoreTypeOK ==
    /\ status \in [Tasks -> TaskStatus \cup Unborn]
    /\ claim_lock \in [Tasks -> Claimers \cup {NoClaim}]
    /\ lease \in [Tasks -> {"none", "valid", "expired"}]
    /\ failures \in [Tasks -> Nat]
    /\ current_run_id \in [Tasks -> Dispatchers \cup {NoRun}]
    /\ open_runs \in [Tasks -> Nat]
    /\ links \subseteq Tasks \X Tasks

StoreInit ==
    /\ status = [t \in Tasks |-> "absent"]
    /\ claim_lock = [t \in Tasks |-> NoClaim]
    /\ lease = [t \in Tasks |-> "none"]
    /\ failures = [t \in Tasks |-> 0]
    /\ current_run_id = [t \in Tasks |-> NoRun]
    /\ open_runs = [t \in Tasks |-> 0]
    /\ links = {}

---------------------------------------------------------------------------
(* Reads                                                                   *)

Exists(t) == status[t] \notin Unborn

\* The parent gate's SELECT: a linked parent row that is not done.
Undone(t) == \E p \in Tasks : /\ <<p, t>> \in links
                              /\ Exists(p)
                              /\ status[p] \notin DoneStates

Running == {t \in Tasks : status[t] = "running"}
Expired == {t \in Running : lease[t] = "expired"}
Todo == {t \in Tasks : status[t] = "todo"}

find_by_idempotency_key(k) == {t \in Tasks : Exists(t) /\ Key[t] = k}

completed_task_for_key(t) ==
    {u \in Tasks \ {t} : Key[t] # NoKey /\ Key[u] = Key[t] /\ status[u] = "completed"}

---------------------------------------------------------------------------
(* Enqueue and the task graph                                              *)

\* create_idempotent / create: SELECT by key, then INSERT in a transaction of
\* its own.  A found row ends the call without a write.
CreateRead(t) ==
    /\ status[t] = "absent"
    /\ Key[t] = NoKey \/ find_by_idempotency_key(Key[t]) = {}
    /\ status' = [status EXCEPT ![t] = "inserting"]
    /\ UNCHANGED <<claimVars, failures, runVars, links>>

CreateInsert(t) ==
    /\ status[t] = "inserting"
    /\ status' = [status EXCEPT ![t] = "todo"]
    /\ UNCHANGED <<claimVars, failures, runVars, links>>

Link(p, c) ==
    /\ links' = links \cup {<<p, c>>}
    /\ UNCHANGED <<status, claimVars, failures, runVars>>

\* recompute_ready's transaction: first is the row whose gate was read before
\* the transaction began, the others are gated inside it.
RecomputeReady(first, others) ==
    /\ LET promoted == {t \in {first} \cup {u \in others : ~Undone(u)} : status[t] = "todo"}
       IN  status' = [t \in Tasks |-> IF t \in promoted THEN "ready" ELSE status[t]]
    /\ UNCHANGED <<claimVars, failures, runVars, links>>

---------------------------------------------------------------------------
(* claim: one BEGIN IMMEDIATE transaction with three outcomes              *)

ClaimRejected(t) ==
    /\ Undone(t)
    /\ status' = [status EXCEPT ![t] = IF @ = "ready" THEN "todo" ELSE @]
    /\ UNCHANGED <<claimVars, failures, runVars, links>>

\* Mutant: the compare-and-set also takes a row that is running.
ClaimableTaken(t) == status[t] \in {"ready", "running"}

Claimable(t) == status[t] = "ready" /\ claim_lock[t] = NoClaim

ClaimLost(t) ==
    /\ ~Undone(t)
    /\ ~Claimable(t)
    /\ UNCHANGED storeVars

\* Mutant: the parent gate is left to recompute_ready.
ClaimWonUngated(t, d) ==
    /\ Claimable(t)
    /\ status' = [status EXCEPT ![t] = "running"]
    /\ claim_lock' = [claim_lock EXCEPT ![t] = Claimer[d]]
    /\ lease' = [lease EXCEPT ![t] = "valid"]
    /\ open_runs' = [open_runs EXCEPT ![t] = @ + 1]
    /\ current_run_id' = [current_run_id EXCEPT ![t] = d]
    /\ UNCHANGED <<failures, links>>

\* Mutant: claim_expires is not written.
ClaimWonUnleased(t, d) ==
    /\ ~Undone(t)
    /\ Claimable(t)
    /\ status' = [status EXCEPT ![t] = "running"]
    /\ claim_lock' = [claim_lock EXCEPT ![t] = Claimer[d]]
    /\ open_runs' = [open_runs EXCEPT ![t] = @ + 1]
    /\ current_run_id' = [current_run_id EXCEPT ![t] = d]
    /\ UNCHANGED <<lease, failures, links>>

ClaimWon(t, d) ==
    /\ ~Undone(t)
    /\ Claimable(t)
    /\ status' = [status EXCEPT ![t] = "running"]
    /\ claim_lock' = [claim_lock EXCEPT ![t] = Claimer[d]]
    /\ lease' = [lease EXCEPT ![t] = "valid"]
    /\ open_runs' = [open_runs EXCEPT ![t] = @ + 1]
    /\ current_run_id' = [current_run_id EXCEPT ![t] = d]
    /\ UNCHANGED <<failures, links>>

---------------------------------------------------------------------------
(* Release of claims                                                       *)

\* Mutant: the release keeps claim_lock.
ReclaimLocked(rows) ==
    LET released == {t \in rows : status[t] = "running"}
    IN  /\ open_runs' = [t \in Tasks |-> IF t \in rows THEN 0 ELSE open_runs[t]]
        /\ status' = [t \in Tasks |-> IF t \in released THEN "ready" ELSE status[t]]
        /\ lease' = [t \in Tasks |-> IF t \in released THEN "none" ELSE lease[t]]
        /\ current_run_id' =
              [t \in Tasks |-> IF t \in released THEN NoRun ELSE current_run_id[t]]
        /\ UNCHANGED <<claim_lock, failures, links>>

\* The transaction release_stale_claims and reclaim_running_for_dead_pids
\* share, over the rows selected before it began.  The driver's claims carry
\* no worker_pid, so no row is ever found alive.
Reclaim(rows) ==
    LET released == {t \in rows : status[t] = "running"}
    IN  /\ open_runs' = [t \in Tasks |-> IF t \in rows THEN 0 ELSE open_runs[t]]
        /\ status' = [t \in Tasks |-> IF t \in released THEN "ready" ELSE status[t]]
        /\ claim_lock' = [t \in Tasks |-> IF t \in released THEN NoClaim ELSE claim_lock[t]]
        /\ lease' = [t \in Tasks |-> IF t \in released THEN "none" ELSE lease[t]]
        /\ current_run_id' =
              [t \in Tasks |-> IF t \in released THEN NoRun ELSE current_run_id[t]]
        /\ UNCHANGED <<failures, links>>

---------------------------------------------------------------------------
(* Outcome of a run                                                        *)

\* Mutant: the run is not closed.
RecordFailureOpenRun(t) ==
    LET n == IF failures[t] < Limit[t] THEN failures[t] + 1 ELSE failures[t]
    IN  /\ failures' = [failures EXCEPT ![t] = n]
        /\ current_run_id' = [current_run_id EXCEPT ![t] = NoRun]
        /\ status' = [status EXCEPT ![t] = IF n >= Limit[t] THEN "blocked" ELSE "ready"]
        /\ UNCHANGED <<claimVars, open_runs, links>>

\* record_failure: no test of the status the row has by now; claim_lock,
\* claim_expires and worker_pid keep their values.
RecordFailure(t) ==
    LET n == IF failures[t] < Limit[t] THEN failures[t] + 1 ELSE failures[t]
    IN  /\ failures' = [failures EXCEPT ![t] = n]
        /\ current_run_id' = [current_run_id EXCEPT ![t] = NoRun]
        /\ open_runs' = [open_runs EXCEPT ![t] = 0]
        /\ status' = [status EXCEPT ![t] = IF n >= Limit[t] THEN "blocked" ELSE "ready"]
        /\ UNCHANGED <<claimVars, links>>

\* complete's transaction; its source-state guard is read before it.
CompleteGuard(t) == status[t] \notin DoneStates

CompleteWrite(t) ==
    /\ open_runs' = [open_runs EXCEPT ![t] = 0]
    /\ status' = [status EXCEPT ![t] = "completed"]
    /\ failures' = [failures EXCEPT ![t] = 0]
    /\ current_run_id' = [current_run_id EXCEPT ![t] = NoRun]
    /\ UNCHANGED <<claimVars, links>>

---------------------------------------------------------------------------
(* Control actions: BEGIN IMMEDIATE, rolled back when the guard fails      *)

RequestCancel(t) ==
    /\ status[t] \in {"triage", "todo", "ready", "running", "blocked"}
    /\ open_runs' = [open_runs EXCEPT ![t] = 0]
    /\ status' = [status EXCEPT ![t] = "archived"]
    /\ claim_lock' = [claim_lock EXCEPT ![t] = NoClaim]
    /\ lease' = [lease EXCEPT ![t] = "none"]
    /\ current_run_id' = [current_run_id EXCEPT ![t] = NoRun]
    /\ UNCHANGED <<failures, links>>

\* Mutant: a retry of a running task.
RequestRetryRunning(t) ==
    /\ status[t] \in {"failed", "blocked", "running"}
    /\ status' = [status EXCEPT ![t] = "ready"]
    /\ failures' = [failures EXCEPT ![t] = 0]
    /\ current_run_id' = [current_run_id EXCEPT ![t] = NoRun]
    /\ UNCHANGED <<claimVars, open_runs, links>>

RequestRetry(t) ==
    /\ status[t] \in {"failed", "blocked"}
    /\ status' = [status EXCEPT ![t] = "ready"]
    /\ failures' = [failures EXCEPT ![t] = 0]
    /\ current_run_id' = [current_run_id EXCEPT ![t] = NoRun]
    /\ UNCHANGED <<claimVars, open_runs, links>>

\* Mutant: a status the models do not have.
RequestUnblockPending(t) ==
    /\ status[t] = "blocked"
    /\ status' = [status EXCEPT ![t] = "pending"]
    /\ UNCHANGED <<claimVars, failures, runVars, links>>

RequestUnblock(t) ==
    /\ status[t] = "blocked"
    /\ status' = [status EXCEPT ![t] = "ready"]
    /\ UNCHANGED <<claimVars, failures, runVars, links>>

\* The clock passes a running row's claim_expires.  Nothing in the running
\* system calls heartbeat, so a lease is never extended.
LeaseExpires(t) ==
    /\ status[t] = "running"
    /\ lease[t] = "valid"
    /\ lease' = [lease EXCEPT ![t] = "expired"]
    /\ UNCHANGED <<status, claim_lock, failures, runVars, links>>
=============================================================================
