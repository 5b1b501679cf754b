------------------------------ MODULE WorkQueue ------------------------------
(***************************************************************************)
(* The work queue at work: any number of dispatcher processes tick over    *)
(* one store (WorkQueueDriver.run_once), crash and boot again              *)
(* (recover_background_tasks), while callers enqueue and link tasks and    *)
(* the control routes cancel, retry and unblock them.                      *)
(*                                                                         *)
(* A dispatcher is the sequential code of run_once with its program        *)
(* counter; every step is one statement that touches the store, merged     *)
(* with the local statements around it.                                    *)
(***************************************************************************)
EXTENDS WorkQueueStore

CONSTANTS
    Rank,           \* position in ORDER BY priority DESC, created_at ASC
    MaxSpawn,       \* max_spawn: LIMIT of ready_tasks
    NoTask,         \* "no task at hand"
    MayLink,        \* pairs <<parent, child>> some caller may link
    BootRecovery,   \* MAGI_DURABLE_STARTUP_RECOVERY_ENABLED
    RunnerMayFail,  \* may a runner return "failed" or raise?
    Controls,       \* are the control routes used?
    MaxCrashes      \* bound on crashes and aborted ticks

ASSUME DriverAssumption ==
    /\ Rank \in [Tasks -> Nat]
    /\ \A t, u \in Tasks : Rank[t] = Rank[u] => t = u
    /\ MaxSpawn \in Nat \ {0}
    /\ NoTask \notin Tasks
    /\ MayLink \subseteq Tasks \X Tasks
    /\ MaxCrashes \in Nat
    /\ BootRecovery \in BOOLEAN
    /\ RunnerMayFail \in BOOLEAN
    /\ Controls \in BOOLEAN

VARIABLES
    pc,         \* where the dispatcher is in run_once or in the boot sweep
    rows,       \* rows of the SELECT it is iterating over
    queue,      \* ready tasks of this tick it has not tried yet
    mine,       \* the task it is promoting or running
    crashes     \* crashes and aborted ticks so far

localVars == <<pc, rows, queue, mine>>
vars == <<storeVars, localVars, crashes>>

\* Between winning a claim and recording its outcome.
Working == {"claimed", "running", "completing", "writing", "failing"}
Location == {"down", "boot_reclaim", "boot", "boot_release", "idle", "release",
             "recompute", "gate", "promote", "list", "claim"} \cup Working

TypeOK ==
    /\ StoreTypeOK
    /\ pc \in [Dispatchers -> Location]
    /\ rows \in [Dispatchers -> SUBSET Tasks]
    /\ queue \in [Dispatchers -> SUBSET Tasks]
    /\ mine \in [Dispatchers -> Tasks \cup {NoTask}]
    /\ crashes \in 0..MaxCrashes

Init ==
    /\ StoreInit
    /\ pc = [d \in Dispatchers |-> "down"]
    /\ rows = [d \in Dispatchers |-> {}]
    /\ queue = [d \in Dispatchers |-> {}]
    /\ mine = [d \in Dispatchers |-> NoTask]
    /\ crashes = 0

Goto(d, l) == pc' = [pc EXCEPT ![d] = l]

---------------------------------------------------------------------------
(* Boot: recover_background_tasks, then the tick loop                      *)

\* The first SELECT of reclaim_running_for_dead_pids: every running row,
\* whatever its lease.
Boot(d) ==
    /\ pc[d] = "down"
    /\ IF BootRecovery
       THEN /\ rows' = [rows EXCEPT ![d] = Running]
            /\ Goto(d, "boot_reclaim")
       ELSE /\ Goto(d, "idle")
            /\ UNCHANGED rows
    /\ UNCHANGED <<storeVars, queue, mine, crashes>>

BootReclaim(d) ==
    /\ pc[d] = "boot_reclaim"
    /\ Reclaim(rows[d])
    /\ rows' = [rows EXCEPT ![d] = {}]
    /\ Goto(d, "boot")
    /\ UNCHANGED <<queue, mine, crashes>>

---------------------------------------------------------------------------
(* One tick: run_once                                                      *)

\* release_stale_claims, its SELECT and its transaction; the boot sweep calls
\* it once more before its tick.
ReleaseSelect(d) ==
    /\ pc[d] \in {"boot", "idle"}
    /\ rows' = [rows EXCEPT ![d] = Expired]
    /\ Goto(d, IF pc[d] = "boot" THEN "boot_release" ELSE "release")
    /\ UNCHANGED <<storeVars, queue, mine, crashes>>

ReleaseCommit(d) ==
    /\ pc[d] \in {"boot_release", "release"}
    /\ Reclaim(rows[d])
    /\ rows' = [rows EXCEPT ![d] = {}]
    /\ Goto(d, IF pc[d] = "boot_release" THEN "idle" ELSE "recompute")
    /\ UNCHANGED <<queue, mine, crashes>>

\* recompute_ready: SELECT the todo rows, read gates until one is open, then
\* promote in a transaction.
RecomputeSelect(d) ==
    /\ pc[d] = "recompute"
    /\ rows' = [rows EXCEPT ![d] = Todo]
    /\ Goto(d, IF Todo = {} THEN "list" ELSE "gate")
    /\ UNCHANGED <<storeVars, queue, mine, crashes>>

RecomputeGate(d, t) ==
    /\ pc[d] = "gate"
    /\ t \in rows[d]
    /\ rows' = [rows EXCEPT ![d] = @ \ {t}]
    /\ IF Undone(t)
       THEN /\ Goto(d, IF rows[d] = {t} THEN "list" ELSE "gate")
            /\ UNCHANGED mine
       ELSE /\ mine' = [mine EXCEPT ![d] = t]
            /\ Goto(d, "promote")
    /\ UNCHANGED <<storeVars, queue, crashes>>

RecomputeCommit(d) ==
    /\ pc[d] = "promote"
    /\ RecomputeReady(mine[d], rows[d])
    /\ rows' = [rows EXCEPT ![d] = {}]
    /\ mine' = [mine EXCEPT ![d] = NoTask]
    /\ Goto(d, "list")
    /\ UNCHANGED <<queue, crashes>>

\* ready_tasks(limit=max_spawn): the first MaxSpawn ready rows in order.
ReadyTasks ==
    LET ready == {t \in Tasks : status[t] = "ready"}
    IN  {t \in ready : Cardinality({u \in ready : Rank[u] < Rank[t]}) < MaxSpawn}

ListReady(d) ==
    /\ pc[d] = "list"
    /\ queue' = [queue EXCEPT ![d] = ReadyTasks]
    /\ Goto(d, IF ReadyTasks = {} THEN "idle" ELSE "claim")
    /\ UNCHANGED <<storeVars, rows, mine, crashes>>

\* The for loop over the ready tasks goes on with what is left of the queue.
Continue(d, left) == Goto(d, IF left = {} THEN "idle" ELSE "claim")

IsNext(d, t) == t \in queue[d] /\ \A u \in queue[d] : Rank[t] <= Rank[u]

\* claim returned None: its gate rejected the task, or another dispatcher won.
SkipTask(d, t) ==
    /\ pc[d] = "claim"
    /\ IsNext(d, t)
    /\ ClaimRejected(t) \/ ClaimLost(t)
    /\ queue' = [queue EXCEPT ![d] = @ \ {t}]
    /\ Continue(d, queue[d] \ {t})
    /\ UNCHANGED <<rows, mine, crashes>>

TakeTask(d, t) ==
    /\ pc[d] = "claim"
    /\ IsNext(d, t)
    /\ ClaimWon(t, d)
    /\ queue' = [queue EXCEPT ![d] = @ \ {t}]
    /\ mine' = [mine EXCEPT ![d] = t]
    /\ Goto(d, "claimed")
    /\ UNCHANGED <<rows, crashes>>

\* Mutant: no dedup at dispatch.
CheckKeyNever(d) ==
    /\ pc[d] = "claimed"
    /\ Goto(d, "running")
    /\ UNCHANGED <<storeVars, rows, queue, mine, crashes>>

\* Dispatch-time dedup: a keyed task with a completed twin is completed with
\* the twin's result instead of being run.
CheckKey(d) ==
    /\ pc[d] = "claimed"
    /\ Goto(d, IF completed_task_for_key(mine[d]) # {} THEN "completing" ELSE "running")
    /\ UNCHANGED <<storeVars, rows, queue, mine, crashes>>

\* Mutant: a failed run is logged and the loop goes on without recording it.
RunnerReturnsUnrecorded(d) ==
    /\ pc[d] = "running"
    /\ \/ Goto(d, "completing") /\ UNCHANGED mine
       \/ /\ RunnerMayFail
          /\ mine' = [mine EXCEPT ![d] = NoTask]
          /\ Continue(d, queue[d])
    /\ UNCHANGED <<storeVars, rows, queue, crashes>>

RunnerReturns(d) ==
    /\ pc[d] = "running"
    /\ \/ Goto(d, "completing")
       \/ RunnerMayFail /\ Goto(d, "failing")
    /\ UNCHANGED <<storeVars, rows, queue, mine, crashes>>

\* complete: its guard reads the row, then its transaction writes it.
ReadBeforeComplete(d) ==
    /\ pc[d] = "completing"
    /\ IF CompleteGuard(mine[d])
       THEN /\ Goto(d, "writing")
            /\ UNCHANGED mine
       ELSE /\ Continue(d, queue[d])
            /\ mine' = [mine EXCEPT ![d] = NoTask]
    /\ UNCHANGED <<storeVars, rows, queue, crashes>>

Complete(d) ==
    /\ pc[d] = "writing"
    /\ CompleteWrite(mine[d])
    /\ mine' = [mine EXCEPT ![d] = NoTask]
    /\ Continue(d, queue[d])
    /\ UNCHANGED <<rows, queue, crashes>>

Fail(d) ==
    /\ pc[d] = "failing"
    /\ RecordFailure(mine[d])
    /\ mine' = [mine EXCEPT ![d] = NoTask]
    /\ Continue(d, queue[d])
    /\ UNCHANGED <<rows, queue, crashes>>

DispatcherStep(d) ==
    \/ Boot(d) \/ BootReclaim(d)
    \/ ReleaseSelect(d) \/ ReleaseCommit(d)
    \/ RecomputeSelect(d) \/ RecomputeCommit(d)
    \/ \E t \in Tasks : RecomputeGate(d, t) \/ SkipTask(d, t) \/ TakeTask(d, t)
    \/ ListReady(d) \/ CheckKey(d) \/ RunnerReturns(d)
    \/ ReadBeforeComplete(d) \/ Complete(d) \/ Fail(d)

---------------------------------------------------------------------------
(* Faults                                                                  *)

\* The process dies (l = "down"), or a store call raises and the watcher
\* drops the tick (l = "idle").  Either way the local state is lost and the
\* database is as the last commit left it.
Abandon(d, l) ==
    /\ pc[d] \notin {"down", "idle"}
    /\ crashes < MaxCrashes
    /\ crashes' = crashes + 1
    /\ rows' = [rows EXCEPT ![d] = {}]
    /\ queue' = [queue EXCEPT ![d] = {}]
    /\ mine' = [mine EXCEPT ![d] = NoTask]
    /\ Goto(d, l)
    /\ UNCHANGED storeVars

Crash(d) == Abandon(d, "down")
TickAborts(d) == Abandon(d, "idle")

---------------------------------------------------------------------------
(* Callers and control routes                                              *)

BeginCreate(t) == CreateRead(t) /\ UNCHANGED <<localVars, crashes>>

FinishCreate(t) == CreateInsert(t) /\ UNCHANGED <<localVars, crashes>>

LinkTasks == \E e \in MayLink : Link(e[1], e[2]) /\ UNCHANGED <<localVars, crashes>>

Control(t) ==
    /\ Controls
    /\ RequestCancel(t) \/ RequestRetry(t) \/ RequestUnblock(t)
    /\ UNCHANGED <<localVars, crashes>>

TimePasses(t) == LeaseExpires(t) /\ UNCHANGED <<localVars, crashes>>

Next ==
    \/ \E d \in Dispatchers : DispatcherStep(d) \/ Crash(d) \/ TickAborts(d)
    \/ \E t \in Tasks : BeginCreate(t) \/ FinishCreate(t) \/ Control(t) \/ TimePasses(t)
    \/ LinkTasks

Spec == Init /\ [][Next]_vars

\* Every process is restarted and scheduled, ticks on its timer, and its
\* runner returns; clocks advance; a started insert is finished.
Fairness ==
    /\ \A d \in Dispatchers : WF_vars(DispatcherStep(d))
    /\ \A t \in Tasks : WF_vars(TimePasses(t)) /\ WF_vars(FinishCreate(t))

FairSpec == Spec /\ Fairness

---------------------------------------------------------------------------
(* Safety                                                                  *)

\* The run ledger agrees with the task table at every commit: a running row
\* has exactly one open run and points at it, any other row has none.  Seven
\* methods of three kinds of caller close and open runs; none of them looks
\* at what the others left.
RunLedger ==
    \A t \in Tasks :
        IF status[t] = "running"
        THEN open_runs[t] = 1 /\ current_run_id[t] # NoRun
        ELSE open_runs[t] = 0 /\ current_run_id[t] = NoRun

\* A running row is always within reach of the sweep: release_stale_claims
\* skips rows whose claim_expires is NULL, so a running row without a lease
\* would never be released.
SweepReachesRunning ==
    \A t \in Tasks :
        status[t] = "running" => claim_lock[t] # NoClaim /\ lease[t] # "none"

\* Only a crash or an aborted tick can leave a row running with nobody
\* working on it: without one, the dispatcher whose run is open is still on
\* its way to complete or record_failure.
RunningMeansWorking ==
    crashes = 0 =>
        \A t \in Tasks : status[t] = "running" =>
            \E d \in Dispatchers :
                current_run_id[t] = d /\ mine[d] = t /\ pc[d] \in Working

\* No task starts while a linked parent is open, although recompute_ready
\* reads the first gate outside its transaction, parents can be linked to a
\* row that is already ready, and a done parent can be put back to ready by
\* a late record_failure.
ParentsDoneAtStart ==
    [][\A t \in Tasks :
          status[t] # "running" /\ status'[t] = "running" => ~Undone(t)]_vars

\* The queue implements the abstract lease: the holder of a task is the
\* dispatcher whose run row it points at.
Lease == INSTANCE RunLease WITH
            Holders <- Dispatchers, NoHolder <- NoRun, holder <- current_run_id
ImplementsLease == Lease!LeaseSpec

\* Dispatcher e's sweep commits, and task t is among the rows it selected.
SweptBy(t, e) ==
    /\ pc[e] \in {"boot_reclaim", "boot_release", "release"}
    /\ t \in rows[e] /\ rows'[e] = {}

\* Dispatcher e records the outcome of the task t it has in memory.
OutcomeBy(t, e) ==
    /\ pc[e] \in {"writing", "failing"}
    /\ mine[e] = t /\ mine'[e] = NoTask

\* Neither sweep, release_stale_claims nor the boot's
\* reclaim_running_for_dead_pids, knows whether the claimer is alive, and
\* complete and record_failure name no run.  So a dispatcher at work on its
\* claim can lose it, but in four ways only: by its own step, to a cancel, to
\* another dispatcher's sweep that had selected the row, or to the late
\* outcome of another dispatcher that ran the task before.
LiveClaimTaken ==
    [][\A t \in Tasks, d \in Dispatchers :
          /\ current_run_id[t] = d /\ mine[d] = t /\ pc[d] \in Working
          /\ current_run_id'[t] # d
          => \/ pc'[d] # pc[d]
             \/ status'[t] = "archived"
             \/ \E e \in Dispatchers \ {d} : SweptBy(t, e) \/ OutcomeBy(t, e)]_vars

\* The effect behind a key that succeeded is not started again: a keyed task
\* whose twin is completed is executing only if it was already executing when
\* another dispatcher completed the twin.
KeyRunTwiceOnlyAtOnce ==
    [][\A d \in Dispatchers :
          pc'[d] = "running" /\ completed_task_for_key(mine[d])' # {}
          => /\ pc[d] = "running"
             /\ \/ completed_task_for_key(mine[d]) # {}
                \/ \E e \in Dispatchers \ {d}, u \in completed_task_for_key(mine[d])' :
                      pc[e] = "writing" /\ OutcomeBy(u, e)]_vars

---------------------------------------------------------------------------
(* Liveness                                                                *)

\* When no runner fails and nobody cancels, every enqueued task completes,
\* through crashes, expired leases and lost claim races.
EnqueuedCompletes ==
    \A t \in Tasks : (status[t] = "todo") ~> (status[t] = "completed")

\* A task put back to ready, after a failure too, is dispatched again.
ReadyIsDispatched ==
    \A t \in Tasks : (status[t] = "ready") ~> (status[t] # "ready")
=============================================================================
