--------------------------- MODULE WorkQueueProofs ---------------------------
(***************************************************************************)
(* Theorems about WorkQueue for any number of tasks and dispatchers, any   *)
(* task graph, keys, limits and bound on crashes.                          *)
(***************************************************************************)
EXTENDS WorkQueue, TLAPS

\* A dispatcher that promotes or works on a task has one at hand.
HasTask ==
    \A d \in Dispatchers : pc[d] \in Working \cup {"promote"} => mine[d] \in Tasks

\* The inductive invariant behind type correctness.
TypeInv == TypeOK /\ HasTask

\* An empty database and dispatchers that are down satisfy the type invariant.
LEMMA TypeInit == Init => TypeInv
  BY StoreAssumption, DriverAssumption
     DEF Init, StoreInit, TypeInv, TypeOK, StoreTypeOK, HasTask, Location, Working,
         TaskStatus, Unborn

\* Every step of run_once, the boot sweep, a fault, a caller or a control
\* route keeps the type invariant.
LEMMA TypeStep == TypeInv /\ [Next]_vars => TypeInv'
  <1> SUFFICES ASSUME TypeInv, [Next]_vars PROVE TypeInv'
    OBVIOUS
  <1> USE StoreAssumption, DriverAssumption
      DEF TypeInv, TypeOK, StoreTypeOK, HasTask, Location, Working, TaskStatus, Unborn,
          storeVars, claimVars, runVars, localVars, Goto
  <1>1. ASSUME NEW d \in Dispatchers, Boot(d) PROVE TypeInv'
    BY <1>1 DEF Boot, Running
  <1>2. ASSUME NEW d \in Dispatchers, BootReclaim(d) PROVE TypeInv'
    BY <1>2 DEF BootReclaim, Reclaim
  <1>3. ASSUME NEW d \in Dispatchers, ReleaseSelect(d) PROVE TypeInv'
    BY <1>3 DEF ReleaseSelect, Expired, Running
  <1>4. ASSUME NEW d \in Dispatchers, ReleaseCommit(d) PROVE TypeInv'
    BY <1>4 DEF ReleaseCommit, Reclaim
  <1>5. ASSUME NEW d \in Dispatchers, RecomputeSelect(d) PROVE TypeInv'
    BY <1>5 DEF RecomputeSelect, Todo
  <1>6. ASSUME NEW d \in Dispatchers, RecomputeCommit(d) PROVE TypeInv'
    <2>1. PICK S : status' = [t \in Tasks |-> IF t \in S THEN "ready" ELSE status[t]]
      BY <1>6, Zenon DEF RecomputeCommit, RecomputeReady
    <2>2. StoreTypeOK'
      BY <1>6, <2>1 DEF RecomputeCommit, RecomputeReady
    <2>3. /\ pc' = [pc EXCEPT ![d] = "list"] /\ rows' = [rows EXCEPT ![d] = {}]
          /\ mine' = [mine EXCEPT ![d] = NoTask] /\ UNCHANGED <<queue, crashes>>
      BY <1>6 DEF RecomputeCommit
    <2>4. HasTask'
      BY <2>3
    <2> HIDE DEF StoreTypeOK, HasTask
    <2> QED
      BY <2>2, <2>3, <2>4
  <1>7. ASSUME NEW d \in Dispatchers, NEW t \in Tasks, RecomputeGate(d, t) PROVE TypeInv'
    <2>1. rows' = [rows EXCEPT ![d] = @ \ {t}] /\ UNCHANGED <<storeVars, queue, crashes>>
      BY <1>7 DEF RecomputeGate
    <2>2. CASE Undone(t)
      <3>1. UNCHANGED mine /\ \E l \in {"list", "gate"} : pc' = [pc EXCEPT ![d] = l]
        BY <1>7, <2>2 DEF RecomputeGate
      <3> QED
        BY <2>1, <3>1
    <2>3. CASE ~Undone(t)
      <3>1. mine' = [mine EXCEPT ![d] = t] /\ pc' = [pc EXCEPT ![d] = "promote"]
        BY <1>7, <2>3 DEF RecomputeGate
      <3> QED
        BY <2>1, <3>1
    <2> QED
      BY <2>2, <2>3
  <1>8. ASSUME NEW d \in Dispatchers, NEW t \in Tasks, SkipTask(d, t) \/ TakeTask(d, t)
        PROVE  TypeInv'
    <2>1. CASE SkipTask(d, t)
      BY <2>1 DEF SkipTask, ClaimRejected, ClaimLost, Continue
    <2>2. CASE TakeTask(d, t)
      BY <2>2 DEF TakeTask, ClaimWon
    <2> QED
      BY <1>8, <2>1, <2>2
  <1>9. ASSUME NEW d \in Dispatchers, ListReady(d) PROVE TypeInv'
    BY <1>9 DEF ListReady, ReadyTasks
  <1>10. ASSUME NEW d \in Dispatchers, CheckKey(d) PROVE TypeInv'
    BY <1>10 DEF CheckKey
  <1>11. ASSUME NEW d \in Dispatchers, RunnerReturns(d) PROVE TypeInv'
    BY <1>11 DEF RunnerReturns
  <1>12. ASSUME NEW d \in Dispatchers, ReadBeforeComplete(d) PROVE TypeInv'
    <2>1. CASE CompleteGuard(mine[d])
      BY <1>12, <2>1 DEF ReadBeforeComplete
    <2>2. CASE ~CompleteGuard(mine[d])
      <3>1. PICK l \in {"idle", "claim"} : pc' = [pc EXCEPT ![d] = l]
        BY <1>12, <2>2 DEF ReadBeforeComplete, Continue
      <3>2. mine' = [mine EXCEPT ![d] = NoTask] /\ UNCHANGED <<storeVars, rows, queue, crashes>>
        BY <1>12, <2>2 DEF ReadBeforeComplete
      <3> QED
        BY <3>1, <3>2
    <2> QED
      BY <2>1, <2>2
  <1>13. ASSUME NEW d \in Dispatchers, Complete(d) PROVE TypeInv'
    BY <1>13 DEF Complete, CompleteWrite, Continue
  <1>14. ASSUME NEW d \in Dispatchers, Fail(d) PROVE TypeInv'
    BY <1>14 DEF Fail, RecordFailure, Continue
  <1>15. ASSUME NEW d \in Dispatchers, Crash(d) \/ TickAborts(d) PROVE TypeInv'
    <2>1. PICK l \in {"down", "idle"} : Abandon(d, l)
      BY <1>15 DEF Crash, TickAborts
    <2> QED
      BY <2>1 DEF Abandon
  <1>16. ASSUME NEW t \in Tasks, BeginCreate(t) \/ FinishCreate(t) PROVE TypeInv'
    BY <1>16 DEF BeginCreate, FinishCreate, CreateRead, CreateInsert
  <1>17. ASSUME NEW t \in Tasks, Control(t) PROVE TypeInv'
    BY <1>17 DEF Control, RequestCancel, RequestRetry, RequestUnblock
  <1>18. ASSUME NEW t \in Tasks, TimePasses(t) PROVE TypeInv'
    BY <1>18 DEF TimePasses, LeaseExpires
  <1>19. ASSUME LinkTasks PROVE TypeInv'
    BY <1>19 DEF LinkTasks, Link
  <1>20. CASE UNCHANGED vars
    BY <1>20 DEF vars
  <1> QED
    BY <1>1, <1>2, <1>3, <1>4, <1>5, <1>6, <1>7, <1>8, <1>9, <1>10, <1>11, <1>12,
       <1>13, <1>14, <1>15, <1>16, <1>17, <1>18, <1>19, <1>20 DEF Next, DispatcherStep

\* Every column and every local of a dispatcher keeps its type, and a
\* dispatcher in the middle of a task has a task.
LEMMA TypeInvariant == Spec => []TypeInv
  BY TypeInit, TypeStep, PTL DEF Spec

\* The type invariant of the store's columns and the dispatchers' locals.
THEOREM TypeCorrect == Spec => []TypeOK
  BY TypeInvariant, PTL DEF TypeInv

---------------------------------------------------------------------------
(* The run ledger                                                          *)

\* What every transaction of the store preserves.
StoreInv == RunLedger /\ SweepReachesRunning

\* The sweeps close the run of every row they release, also of a row that was
\* claimed again after their SELECT.
LEMMA ReclaimKeepsStore ==
  ASSUME StoreTypeOK, StoreInv, NEW S \in SUBSET Tasks, Reclaim(S)
  PROVE  StoreInv'
  BY StoreAssumption
     DEF StoreTypeOK, StoreInv, RunLedger, SweepReachesRunning, Reclaim

\* The three outcomes of claim: only the won one opens a run, and it starts
\* from a row without one.
LEMMA ClaimKeepsStore ==
  ASSUME StoreTypeOK, StoreInv, NEW t \in Tasks, NEW d \in Dispatchers,
         ClaimRejected(t) \/ ClaimLost(t) \/ ClaimWon(t, d)
  PROVE  StoreInv'
  <1> USE StoreAssumption
      DEF StoreTypeOK, StoreInv, RunLedger, SweepReachesRunning, storeVars, claimVars, runVars
  <1>1. CASE ClaimRejected(t)
    BY <1>1 DEF ClaimRejected
  <1>2. CASE ClaimLost(t)
    BY <1>2 DEF ClaimLost
  <1>3. CASE ClaimWon(t, d)
    BY <1>3 DEF ClaimWon, Claimable
  <1> QED
    BY <1>1, <1>2, <1>3

\* complete and record_failure close whatever run is open, their own or not.
LEMMA OutcomeKeepsStore ==
  ASSUME StoreTypeOK, StoreInv, NEW t \in Tasks, RecordFailure(t) \/ CompleteWrite(t)
  PROVE  StoreInv'
  BY DEF StoreTypeOK, StoreInv, RunLedger, SweepReachesRunning, claimVars,
         RecordFailure, CompleteWrite

\* cancel closes the run; retry and unblock start from rows that have none.
LEMMA ControlKeepsStore ==
  ASSUME StoreTypeOK, StoreInv, NEW t \in Tasks,
         RequestCancel(t) \/ RequestRetry(t) \/ RequestUnblock(t)
  PROVE  StoreInv'
  BY DEF StoreTypeOK, StoreInv, RunLedger, SweepReachesRunning, claimVars, runVars,
         RequestCancel, RequestRetry, RequestUnblock

\* Transactions that only move rows between the states before running.
LEMMA PromotionKeepsStore ==
  ASSUME StoreTypeOK, StoreInv, NEW t \in Tasks, NEW S \in SUBSET Tasks,
         CreateRead(t) \/ CreateInsert(t) \/ RecomputeReady(t, S)
  PROVE  StoreInv'
  BY DEF StoreTypeOK, StoreInv, RunLedger, SweepReachesRunning, claimVars, runVars,
         CreateRead, CreateInsert, RecomputeReady

\* The empty database has no run.
LEMMA LedgerInit == Init => StoreInv
  BY DEF Init, StoreInit, StoreInv, RunLedger, SweepReachesRunning

\* Every step keeps the run ledger and the lease of running rows.
LEMMA StoreStep == TypeInv /\ StoreInv /\ [Next]_vars => StoreInv'
  <1> SUFFICES ASSUME TypeInv, StoreInv, [Next]_vars PROVE StoreInv'
    OBVIOUS
  <1>1. StoreTypeOK
    BY DEF TypeInv, TypeOK
  <1>2. ASSUME UNCHANGED storeVars PROVE StoreInv'
    BY <1>2 DEF storeVars, claimVars, runVars, StoreInv, RunLedger, SweepReachesRunning
  <1>3. ASSUME NEW d \in Dispatchers, DispatcherStep(d) PROVE StoreInv'
    <2>1. CASE Boot(d) \/ ReleaseSelect(d) \/ RecomputeSelect(d) \/ ListReady(d)
               \/ CheckKey(d) \/ RunnerReturns(d) \/ ReadBeforeComplete(d)
      BY <2>1, <1>2 DEF Boot, ReleaseSelect, RecomputeSelect, ListReady, CheckKey,
                        RunnerReturns, ReadBeforeComplete
    <2>2. CASE BootReclaim(d) \/ ReleaseCommit(d)
      BY <2>2, <1>1, ReclaimKeepsStore DEF BootReclaim, ReleaseCommit, TypeInv, TypeOK
    <2>3. CASE RecomputeCommit(d)
      <3>1. mine[d] \in Tasks /\ rows[d] \in SUBSET Tasks
        BY <2>3 DEF RecomputeCommit, TypeInv, TypeOK, HasTask
      <3> QED
        BY <2>3, <3>1, <1>1, PromotionKeepsStore DEF RecomputeCommit
    <2>4. ASSUME NEW t \in Tasks, RecomputeGate(d, t) PROVE StoreInv'
      BY <2>4, <1>2 DEF RecomputeGate
    <2>5. ASSUME NEW t \in Tasks, SkipTask(d, t) \/ TakeTask(d, t) PROVE StoreInv'
      BY <2>5, <1>1, ClaimKeepsStore DEF SkipTask, TakeTask
    <2>6. CASE Complete(d) \/ Fail(d)
      <3>1. mine[d] \in Tasks
        BY <2>6 DEF Complete, Fail, TypeInv, HasTask, Working
      <3> QED
        BY <2>6, <3>1, <1>1, OutcomeKeepsStore DEF Complete, Fail
    <2> QED
      BY <1>3, <2>1, <2>2, <2>3, <2>4, <2>5, <2>6 DEF DispatcherStep
  <1>4. ASSUME NEW d \in Dispatchers, Crash(d) \/ TickAborts(d) PROVE StoreInv'
    BY <1>4, <1>2 DEF Crash, TickAborts, Abandon
  <1>5. ASSUME NEW t \in Tasks, BeginCreate(t) \/ FinishCreate(t) PROVE StoreInv'
    BY <1>5, <1>1, PromotionKeepsStore DEF BeginCreate, FinishCreate
  <1>6. ASSUME NEW t \in Tasks, Control(t) PROVE StoreInv'
    BY <1>6, <1>1, ControlKeepsStore DEF Control
  <1>7. ASSUME NEW t \in Tasks, TimePasses(t) PROVE StoreInv'
    BY <1>7, <1>1 DEF TimePasses, LeaseExpires, runVars, StoreInv, StoreTypeOK, RunLedger,
                      SweepReachesRunning
  <1>8. ASSUME LinkTasks PROVE StoreInv'
    BY <1>8 DEF LinkTasks, Link, claimVars, runVars, StoreInv, RunLedger, SweepReachesRunning
  <1>9. CASE UNCHANGED vars
    BY <1>9, <1>2 DEF vars
  <1> QED
    BY <1>3, <1>4, <1>5, <1>6, <1>7, <1>8, <1>9 DEF Next

\* The inductive invariant of the store holds in every reachable state.
LEMMA StoreInvariant == Spec => [](TypeInv /\ StoreInv)
  <1>1. Init => TypeInv /\ StoreInv
    BY TypeInit, LedgerInit
  <1>2. (TypeInv /\ StoreInv) /\ [Next]_vars => (TypeInv /\ StoreInv)'
    BY TypeStep, StoreStep
  <1> QED
    BY <1>1, <1>2, PTL DEF Spec

\* A running row has exactly one open run row and points at it, and no other
\* row has one, whatever the dispatchers, sweeps, crashes and controls do.
THEOREM LedgerConsistent == Spec => []RunLedger
  BY StoreInvariant, PTL DEF StoreInv

\* A running row always carries the lease by which the sweep finds it.
THEOREM RunningIsSweepable == Spec => []SweepReachesRunning
  BY StoreInvariant, PTL DEF StoreInv
---------------------------------------------------------------------------
(* Nobody is left behind without a crash                                   *)

\* Without faults, a row stops running before its dispatcher lets go of it:
\* complete and record_failure write the row in the step that ends the work.
LEMMA WorkingStep ==
  TypeInv /\ StoreInv /\ RunningMeansWorking /\ [Next]_vars => RunningMeansWorking'
  <1> SUFFICES ASSUME TypeInv, StoreInv, RunningMeansWorking, [Next]_vars, crashes' = 0,
                      NEW t \in Tasks, status'[t] = "running"
               PROVE  \E d \in Dispatchers :
                          current_run_id'[t] = d /\ mine'[d] = t /\ pc'[d] \in Working
    BY DEF RunningMeansWorking
  <1> DEFINE Holds(d) == current_run_id[t] = d /\ mine[d] = t /\ pc[d] \in Working
  <1>t. /\ StoreTypeOK
        /\ pc \in [Dispatchers -> Location] /\ mine \in [Dispatchers -> Tasks \cup {NoTask}]
    BY DEF TypeInv, TypeOK
  <1>1. ASSUME crashes = 0, status[t] = "running" PROVE \E d \in Dispatchers : Holds(d)
    BY <1>1 DEF RunningMeansWorking
  <1>2. ASSUME UNCHANGED <<storeVars, crashes>>,
               NEW e \in Dispatchers,
               \A d \in Dispatchers \ {e} : pc'[d] = pc[d] /\ mine'[d] = mine[d],
               pc[e] \in Working /\ mine[e] = t => pc'[e] \in Working /\ mine'[e] = t
        PROVE  \E d \in Dispatchers : Holds(d)'
    BY <1>1, <1>2 DEF storeVars, runVars, claimVars
  <1>3. ASSUME NEW e \in Dispatchers, DispatcherStep(e)
        PROVE  \E d \in Dispatchers : Holds(d)'
    <2>1. CASE Boot(e) \/ ReleaseSelect(e) \/ RecomputeSelect(e) \/ ListReady(e)
      BY <2>1, <1>2, <1>t DEF Boot, ReleaseSelect, RecomputeSelect, ListReady, Goto, Working
    <2>2. CASE CheckKey(e) \/ RunnerReturns(e)
      BY <2>2, <1>2, <1>t DEF CheckKey, RunnerReturns, Goto, Working
    <2>3. CASE ReadBeforeComplete(e)
      <3>1. mine[e] = t => CompleteGuard(mine[e])
        BY <2>3 DEF ReadBeforeComplete, CompleteGuard, DoneStates, storeVars
      <3> QED
        BY <2>3, <3>1, <1>2, <1>t DEF ReadBeforeComplete, Goto, Continue, Working
    <2>4. CASE BootReclaim(e) \/ ReleaseCommit(e)
      <3>1. status[t] = "running" /\ current_run_id'[t] = current_run_id[t] /\ crashes = 0
        BY <2>4 DEF BootReclaim, ReleaseCommit, Reclaim
      <3>2. pc[e] \notin Working /\ mine' = mine /\ \A d \in Dispatchers \ {e} : pc'[d] = pc[d]
        BY <2>4, <1>t DEF BootReclaim, ReleaseCommit, Goto, Working
      <3> QED
        BY <3>1, <3>2, <1>1
    <2>5. CASE RecomputeCommit(e)
      <3>1. status[t] = "running" /\ UNCHANGED <<current_run_id, crashes>>
        BY <2>5 DEF RecomputeCommit, RecomputeReady, runVars
      <3>2. pc[e] \notin Working
            /\ \A d \in Dispatchers \ {e} : pc'[d] = pc[d] /\ mine'[d] = mine[d]
        BY <2>5, <1>t DEF RecomputeCommit, Goto, Working
      <3> QED
        BY <3>1, <3>2, <1>1
    <2>6. ASSUME NEW u \in Tasks, RecomputeGate(e, u) PROVE \E d \in Dispatchers : Holds(d)'
      BY <2>6, <1>2, <1>t DEF RecomputeGate, Goto, Working
    <2>7. ASSUME NEW u \in Tasks, SkipTask(e, u) PROVE \E d \in Dispatchers : Holds(d)'
      <3>1. status[t] = "running" /\ UNCHANGED <<current_run_id, crashes>>
        BY <2>7, <1>t DEF SkipTask, ClaimRejected, ClaimLost, storeVars, runVars, StoreTypeOK
      <3>2. pc[e] \notin Working /\ mine' = mine /\ \A d \in Dispatchers \ {e} : pc'[d] = pc[d]
        BY <2>7, <1>t DEF SkipTask, Continue, Goto, Working
      <3> QED
        BY <3>1, <3>2, <1>1
    <2>8. ASSUME NEW u \in Tasks, TakeTask(e, u) PROVE \E d \in Dispatchers : Holds(d)'
      <3>1. CASE u = t
        BY <2>8, <3>1, <1>t DEF TakeTask, ClaimWon, Goto, Working, StoreTypeOK
      <3>2. CASE u # t
        <4>1. status[t] = "running" /\ current_run_id'[t] = current_run_id[t] /\ crashes = 0
          BY <2>8, <3>2, <1>t DEF TakeTask, ClaimWon, StoreTypeOK
        <4>2. pc[e] \notin Working
              /\ \A d \in Dispatchers \ {e} : pc'[d] = pc[d] /\ mine'[d] = mine[d]
          BY <2>8, <1>t DEF TakeTask, Goto, Working
        <4> QED
          BY <4>1, <4>2, <1>1
      <3> QED
        BY <3>1, <3>2
    <2>9. CASE Complete(e) \/ Fail(e)
      <3>1. mine[e] \in Tasks
        BY <2>9 DEF Complete, Fail, TypeInv, HasTask, Working
      <3>2. mine[e] # t
        BY <2>9, <3>1, <1>t DEF Complete, Fail, CompleteWrite, RecordFailure, StoreTypeOK
      <3>3. status[t] = "running" /\ current_run_id'[t] = current_run_id[t] /\ crashes = 0
        BY <2>9, <3>1, <3>2, <1>t DEF Complete, Fail, CompleteWrite, RecordFailure, StoreTypeOK
      <3>4. \A d \in Dispatchers \ {e} : pc'[d] = pc[d] /\ mine'[d] = mine[d]
        BY <2>9, <1>t DEF Complete, Fail, Continue, Goto
      <3> QED
        BY <3>2, <3>3, <3>4, <1>1
    <2> QED
      BY <1>3, <2>1, <2>2, <2>3, <2>4, <2>5, <2>6, <2>7, <2>8, <2>9 DEF DispatcherStep
  <1>4. ASSUME NEW e \in Dispatchers, Crash(e) \/ TickAborts(e) PROVE FALSE
    BY <1>4, DriverAssumption DEF Crash, TickAborts, Abandon, TypeInv, TypeOK
  <1>5. ASSUME status[t] = "running",
               UNCHANGED <<current_run_id, localVars, crashes>>
        PROVE  \E d \in Dispatchers : Holds(d)'
    BY <1>5, <1>1 DEF localVars
  <1>6. ASSUME NEW u \in Tasks, BeginCreate(u) \/ FinishCreate(u)
        PROVE  \E d \in Dispatchers : Holds(d)'
    BY <1>6, <1>5, <1>t DEF BeginCreate, FinishCreate, CreateRead, CreateInsert, runVars, StoreTypeOK
  <1>7. ASSUME NEW u \in Tasks, Control(u) PROVE \E d \in Dispatchers : Holds(d)'
    <2>1. u # t
      BY <1>7, <1>t DEF Control, RequestCancel, RequestRetry, RequestUnblock, StoreTypeOK
    <2>2. status[t] = "running" /\ current_run_id'[t] = current_run_id[t]
      BY <1>7, <2>1, <1>t DEF Control, RequestCancel, RequestRetry, RequestUnblock, runVars,
                              StoreTypeOK
    <2> QED
      BY <1>7, <2>2, <1>1 DEF Control, localVars
  <1>8. ASSUME NEW u \in Tasks, TimePasses(u) PROVE \E d \in Dispatchers : Holds(d)'
    BY <1>8, <1>5 DEF TimePasses, LeaseExpires, runVars
  <1>9. CASE LinkTasks
    BY <1>9, <1>5 DEF LinkTasks, Link, runVars
  <1>10. CASE UNCHANGED vars
    BY <1>10, <1>5 DEF vars, storeVars, runVars
  <1> QED
    BY <1>3, <1>4, <1>6, <1>7, <1>8, <1>9, <1>10 DEF Next

\* Without a crash or an aborted tick no row is left running with nobody on
\* its way to record the outcome.
THEOREM NobodyLeftBehind == Spec => []RunningMeansWorking
  <1> DEFINE Inv == TypeInv /\ StoreInv /\ RunningMeansWorking
  <1>1. Init => Inv
    BY TypeInit, LedgerInit DEF Init, StoreInit, RunningMeansWorking
  <1>2. Inv /\ [Next]_vars => Inv'
    BY TypeStep, StoreStep, WorkingStep
  <1> QED
    BY <1>1, <1>2, PTL DEF Spec
---------------------------------------------------------------------------
(* The parent gate                                                         *)

\* Claiming is the only way into running, and it reads the gate itself.
LEMMA StartsThroughClaim ==
  ASSUME TypeInv, Next, NEW t \in Tasks, status[t] # "running", status'[t] = "running"
  PROVE  \E d \in Dispatchers : TakeTask(d, t)
  <1>t. StoreTypeOK
    BY DEF TypeInv, TypeOK
  <1> USE <1>t DEF StoreTypeOK
  <1>1. ASSUME NEW d \in Dispatchers, DispatcherStep(d) PROVE TakeTask(d, t)
    <2>1. CASE Boot(d) \/ ReleaseSelect(d) \/ RecomputeSelect(d) \/ ListReady(d)
               \/ CheckKey(d) \/ RunnerReturns(d) \/ ReadBeforeComplete(d)
      BY <2>1 DEF Boot, ReleaseSelect, RecomputeSelect, ListReady, CheckKey,
                  RunnerReturns, ReadBeforeComplete, storeVars
    <2>2. CASE BootReclaim(d) \/ ReleaseCommit(d)
      BY <2>2 DEF BootReclaim, ReleaseCommit, Reclaim
    <2>3. CASE RecomputeCommit(d)
      BY <2>3 DEF RecomputeCommit, RecomputeReady
    <2>4. ASSUME NEW u \in Tasks, RecomputeGate(d, u) PROVE FALSE
      BY <2>4 DEF RecomputeGate, storeVars
    <2>5. ASSUME NEW u \in Tasks, SkipTask(d, u) PROVE FALSE
      BY <2>5 DEF SkipTask, ClaimRejected, ClaimLost, storeVars
    <2>6. ASSUME NEW u \in Tasks, TakeTask(d, u) PROVE u = t
      BY <2>6 DEF TakeTask, ClaimWon
    <2>7. CASE Complete(d) \/ Fail(d)
      BY <2>7 DEF Complete, Fail, CompleteWrite, RecordFailure
    <2> QED
      BY <1>1, <2>1, <2>2, <2>3, <2>4, <2>5, <2>6, <2>7 DEF DispatcherStep
  <1>2. ASSUME NEW d \in Dispatchers, Crash(d) \/ TickAborts(d) PROVE FALSE
    BY <1>2 DEF Crash, TickAborts, Abandon, storeVars
  <1>3. ASSUME NEW u \in Tasks, BeginCreate(u) \/ FinishCreate(u) PROVE FALSE
    BY <1>3 DEF BeginCreate, FinishCreate, CreateRead, CreateInsert
  <1>4. ASSUME NEW u \in Tasks, Control(u) PROVE FALSE
    BY <1>4 DEF Control, RequestCancel, RequestRetry, RequestUnblock
  <1>5. ASSUME NEW u \in Tasks, TimePasses(u) PROVE FALSE
    BY <1>5 DEF TimePasses, LeaseExpires
  <1>6. ASSUME LinkTasks PROVE FALSE
    BY <1>6 DEF LinkTasks, Link
  <1> QED
    BY <1>1, <1>2, <1>3, <1>4, <1>5, <1>6 DEF Next

\* No task starts while a linked parent is open.
THEOREM GateHolds == Spec => ParentsDoneAtStart
  <1>1. ASSUME TypeInv, [Next]_vars
        PROVE  [\A t \in Tasks : status[t] # "running" /\ status'[t] = "running"
                                  => ~Undone(t)]_vars
    <2>1. ASSUME Next, NEW t \in Tasks, status[t] # "running", status'[t] = "running"
          PROVE  ~Undone(t)
      <3>1. PICK d \in Dispatchers : TakeTask(d, t)
        BY <1>1, <2>1, StartsThroughClaim
      <3> QED
        BY <3>1 DEF TakeTask, ClaimWon
    <2> QED
      BY <1>1, <2>1
  <1> QED
    BY <1>1, TypeInvariant, PTL DEF Spec, ParentsDoneAtStart

---------------------------------------------------------------------------
(* The abstract lease                                                      *)

\* Every step is a step of the abstract lease or leaves the holders alone.
LEMMA LeaseStep == TypeInv /\ StoreInv /\ [Next]_vars => [Lease!LeaseNext]_current_run_id
  <1> SUFFICES ASSUME TypeInv, StoreInv, [Next]_vars, current_run_id' # current_run_id
               PROVE  Lease!LeaseNext
    OBVIOUS
  <1>t. StoreTypeOK
    BY DEF TypeInv, TypeOK
  <1> USE <1>t DEF StoreTypeOK
  <1>r. ASSUME NEW S \in SUBSET Tasks,
               current_run_id' = [t \in Tasks |-> IF t \in S THEN NoRun ELSE current_run_id[t]]
        PROVE  Lease!LeaseNext
    BY <1>r DEF Lease!LeaseNext, Lease!Release
  <1>o. ASSUME NEW t \in Tasks, current_run_id' = [current_run_id EXCEPT ![t] = NoRun]
        PROVE  Lease!LeaseNext
    <2> DEFINE S == {t}
    <2>1. S \in SUBSET Tasks
      OBVIOUS
    <2>2. current_run_id' = [u \in Tasks |-> IF u \in S THEN NoRun ELSE current_run_id[u]]
      BY <1>o
    <2> HIDE DEF S
    <2> QED
      BY <2>1, <2>2, <1>r
  <1>1. ASSUME NEW d \in Dispatchers, DispatcherStep(d) PROVE Lease!LeaseNext
    <2>1. CASE Boot(d) \/ ReleaseSelect(d) \/ RecomputeSelect(d) \/ ListReady(d)
               \/ CheckKey(d) \/ RunnerReturns(d) \/ ReadBeforeComplete(d)
      BY <2>1 DEF Boot, ReleaseSelect, RecomputeSelect, ListReady, CheckKey,
                  RunnerReturns, ReadBeforeComplete, storeVars, runVars
    <2>2. CASE BootReclaim(d) \/ ReleaseCommit(d)
      <3> DEFINE S == {t \in rows[d] : status[t] = "running"}
      <3>1. S \in SUBSET Tasks
        BY DEF TypeInv, TypeOK
      <3>2. current_run_id' = [t \in Tasks |-> IF t \in S THEN NoRun ELSE current_run_id[t]]
        BY <2>2 DEF BootReclaim, ReleaseCommit, Reclaim
      <3> HIDE DEF S
      <3> QED
        BY <3>1, <3>2, <1>r
    <2>3. CASE RecomputeCommit(d)
      BY <2>3 DEF RecomputeCommit, RecomputeReady, runVars
    <2>4. ASSUME NEW t \in Tasks, RecomputeGate(d, t) PROVE FALSE
      BY <2>4 DEF RecomputeGate, storeVars, runVars
    <2>5. ASSUME NEW t \in Tasks, SkipTask(d, t) PROVE FALSE
      BY <2>5 DEF SkipTask, ClaimRejected, ClaimLost, storeVars, runVars
    <2>6. ASSUME NEW t \in Tasks, TakeTask(d, t) PROVE Lease!LeaseNext
      <3>1. current_run_id[t] = NoRun
        BY <2>6 DEF TakeTask, ClaimWon, Claimable, StoreInv, RunLedger
      <3> QED
        BY <2>6, <3>1 DEF TakeTask, ClaimWon, Lease!LeaseNext, Lease!Acquire
    <2>7. CASE Complete(d) \/ Fail(d)
      <3>1. mine[d] \in Tasks
        BY <2>7 DEF Complete, Fail, TypeInv, HasTask, Working
      <3> QED
        BY <2>7, <3>1, <1>o DEF Complete, Fail, CompleteWrite, RecordFailure
    <2> QED
      BY <1>1, <2>1, <2>2, <2>3, <2>4, <2>5, <2>6, <2>7 DEF DispatcherStep
  <1>2. ASSUME NEW d \in Dispatchers, Crash(d) \/ TickAborts(d) PROVE FALSE
    BY <1>2 DEF Crash, TickAborts, Abandon, storeVars, runVars
  <1>3. ASSUME NEW t \in Tasks, BeginCreate(t) \/ FinishCreate(t) PROVE FALSE
    BY <1>3 DEF BeginCreate, FinishCreate, CreateRead, CreateInsert, runVars
  <1>4. ASSUME NEW t \in Tasks, Control(t) PROVE Lease!LeaseNext
    BY <1>4, <1>o DEF Control, RequestCancel, RequestRetry, RequestUnblock, runVars
  <1>5. ASSUME NEW t \in Tasks, TimePasses(t) PROVE FALSE
    BY <1>5 DEF TimePasses, LeaseExpires, runVars
  <1>6. ASSUME LinkTasks PROVE FALSE
    BY <1>6 DEF LinkTasks, Link, runVars
  <1>7. ASSUME UNCHANGED vars PROVE FALSE
    BY <1>7 DEF vars, storeVars, runVars
  <1> QED
    BY <1>1, <1>2, <1>3, <1>4, <1>5, <1>6, <1>7 DEF Next

\* The queue implements the abstract lease: no task ever has two holders, and
\* none passes from one dispatcher to another without a release.
THEOREM QueueImplementsLease == Spec => ImplementsLease
  <1>1. Init => Lease!LeaseInit
    BY DEF Init, StoreInit, Lease!LeaseInit
  <1>2. TypeInv /\ StoreInv /\ [Next]_vars => [Lease!LeaseNext]_current_run_id
    BY LeaseStep
  <1> QED
    BY <1>1, <1>2, StoreInvariant, PTL DEF Spec, ImplementsLease, Lease!LeaseSpec

---------------------------------------------------------------------------
(* Several dispatchers over one task                                       *)

\* A claim leaves a dispatcher that is at work on it with the step that ends
\* the work, with a cancel, or with another dispatcher's sweep or outcome: its
\* own sweeps come at other points of the tick, another's claim wants a ready
\* row, and retry wants a row that no run holds.
LEMMA ClaimLeaves ==
  ASSUME TypeInv, StoreInv, [Next]_vars,
         NEW t \in Tasks, NEW d \in Dispatchers,
         current_run_id[t] = d, mine[d] = t, pc[d] \in Working, current_run_id'[t] # d
  PROVE  \/ pc'[d] # pc[d]
         \/ status'[t] = "archived"
         \/ \E e \in Dispatchers \ {d} : SweptBy(t, e) \/ OutcomeBy(t, e)
  <1>t. /\ StoreTypeOK /\ HasTask
        /\ pc \in [Dispatchers -> Location] /\ mine \in [Dispatchers -> Tasks \cup {NoTask}]
        /\ rows \in [Dispatchers -> SUBSET Tasks]
    BY DEF TypeInv, TypeOK
  <1>s. status[t] = "running"
    BY StoreAssumption DEF StoreInv, RunLedger
  <1>1. ASSUME DispatcherStep(d) PROVE pc'[d] # pc[d]
    <2>2. CASE CheckKey(d) \/ RunnerReturns(d) \/ ReadBeforeComplete(d)
      BY <2>2 DEF CheckKey, RunnerReturns, ReadBeforeComplete, storeVars, runVars
    <2>3. CASE Complete(d) \/ Fail(d)
      BY <2>3, <1>t DEF Complete, Fail, Continue, Goto
    <2>4. CASE Boot(d) \/ BootReclaim(d) \/ ReleaseSelect(d) \/ ReleaseCommit(d)
               \/ RecomputeSelect(d) \/ RecomputeCommit(d) \/ ListReady(d)
      BY <2>4 DEF Boot, BootReclaim, ReleaseSelect, ReleaseCommit, RecomputeSelect,
                  RecomputeCommit, ListReady, Working
    <2>5. ASSUME NEW u \in Tasks, RecomputeGate(d, u) \/ SkipTask(d, u) \/ TakeTask(d, u)
          PROVE  FALSE
      BY <2>5 DEF RecomputeGate, SkipTask, TakeTask, Working
    <2> QED
      BY <1>1, <2>2, <2>3, <2>4, <2>5 DEF DispatcherStep
  <1>2. ASSUME NEW e \in Dispatchers \ {d}, DispatcherStep(e)
        PROVE  SweptBy(t, e) \/ OutcomeBy(t, e)
    <2>1. CASE \/ Boot(e) \/ ReleaseSelect(e) \/ RecomputeSelect(e) \/ RecomputeCommit(e)
               \/ ListReady(e) \/ CheckKey(e) \/ RunnerReturns(e) \/ ReadBeforeComplete(e)
      BY <2>1 DEF Boot, ReleaseSelect, RecomputeSelect, RecomputeCommit, RecomputeReady,
         ListReady, CheckKey, RunnerReturns, ReadBeforeComplete, storeVars, runVars
    <2>2. CASE BootReclaim(e) \/ ReleaseCommit(e)
      <3>1. Reclaim(rows[e]) /\ rows' = [rows EXCEPT ![e] = {}]
            /\ pc[e] \in {"boot_reclaim", "boot_release", "release"}
        BY <2>2 DEF BootReclaim, ReleaseCommit
      <3>2. t \in rows[e]
        BY <3>1 DEF Reclaim
      <3> QED
        BY <3>1, <3>2, <1>t DEF SweptBy
    <2>3. ASSUME NEW u \in Tasks, RecomputeGate(e, u) \/ SkipTask(e, u) PROVE FALSE
      BY <2>3 DEF RecomputeGate, SkipTask, ClaimRejected, ClaimLost, storeVars, runVars
    <2>4. ASSUME NEW u \in Tasks, TakeTask(e, u) PROVE FALSE
      <3>1. u # t
        BY <2>4, <1>s DEF TakeTask, ClaimWon, Claimable
      <3> QED
        BY <2>4, <3>1, <1>t DEF TakeTask, ClaimWon, StoreTypeOK
    <2>5. CASE Complete(e) \/ Fail(e)
      <3>1. mine[e] \in Tasks /\ mine' = [mine EXCEPT ![e] = NoTask]
            /\ pc[e] \in {"writing", "failing"}
        BY <2>5, <1>t DEF Complete, Fail, HasTask, Working
      <3>2. current_run_id' = [current_run_id EXCEPT ![mine[e]] = NoRun]
        BY <2>5 DEF Complete, Fail, CompleteWrite, RecordFailure
      <3>3. mine[e] = t
        BY <3>1, <3>2, <1>t DEF StoreTypeOK
      <3> QED
        BY <3>1, <3>3, <1>t DEF OutcomeBy
    <2> QED
      BY <1>2, <2>1, <2>2, <2>3, <2>4, <2>5 DEF DispatcherStep
  <1>3. ASSUME NEW e \in Dispatchers, Crash(e) \/ TickAborts(e) PROVE FALSE
    BY <1>3 DEF Crash, TickAborts, Abandon, storeVars, runVars
  <1>4. ASSUME NEW u \in Tasks, BeginCreate(u) \/ FinishCreate(u) PROVE FALSE
    BY <1>4 DEF BeginCreate, FinishCreate, CreateRead, CreateInsert, runVars
  <1>5. ASSUME NEW u \in Tasks, Control(u) PROVE status'[t] = "archived"
    <2>1. u = t
      BY <1>5, <1>t DEF Control, RequestCancel, RequestRetry, RequestUnblock, runVars, StoreTypeOK
    <2>2. RequestCancel(t)
      BY <1>5, <1>s, <2>1 DEF Control, RequestRetry, RequestUnblock
    <2> QED
      BY <2>2, <1>t DEF RequestCancel, StoreTypeOK
  <1>6. ASSUME NEW u \in Tasks, TimePasses(u) PROVE FALSE
    BY <1>6 DEF TimePasses, LeaseExpires, runVars
  <1>7. ASSUME LinkTasks PROVE FALSE
    BY <1>7 DEF LinkTasks, Link, runVars
  <1>8. ASSUME UNCHANGED vars PROVE FALSE
    BY <1>8 DEF vars, storeVars, runVars
  <1> QED
    BY <1>1, <1>2, <1>3, <1>4, <1>5, <1>6, <1>7, <1>8 DEF Next

\* release_stale_claims, reclaim_running_for_dead_pids, complete and
\* record_failure over any number of drivers: a dispatcher at work on its
\* claim loses it by its own step, to a cancel, to another's sweep that had
\* selected the row, or to another's late outcome, and in no other way.
THEOREM ClaimTakenInFourWays == Spec => LiveClaimTaken
  <1>1. TypeInv /\ StoreInv /\ [Next]_vars =>
           [\A t \in Tasks, d \in Dispatchers :
               /\ current_run_id[t] = d /\ mine[d] = t /\ pc[d] \in Working
               /\ current_run_id'[t] # d
               => \/ pc'[d] # pc[d]
                  \/ status'[t] = "archived"
                  \/ \E e \in Dispatchers \ {d} : SweptBy(t, e) \/ OutcomeBy(t, e)]_vars
    BY ClaimLeaves
  <1> QED
    BY <1>1, StoreInvariant, PTL DEF Spec, LiveClaimTaken

\* What a step in which d is executing, or starts to, may do to d's twins.
TwinStep(d) ==
    /\ pc[d] = "running"
    /\ \/ completed_task_for_key(mine[d]) # {}
       \/ \E e \in Dispatchers \ {d}, u \in completed_task_for_key(mine[d])' :
             pc[e] = "writing" /\ OutcomeBy(u, e)

\* A step that completes no task and leaves d where it was adds no twin.
LEMMA NoNewTwin ==
  ASSUME NEW d \in Dispatchers, pc'[d] = "running", pc'[d] = pc[d], mine'[d] = mine[d],
         \A t \in Tasks : status'[t] = "completed" => status[t] = "completed",
         completed_task_for_key(mine[d])' # {}
  PROVE  TwinStep(d)
  BY DEF TwinStep, completed_task_for_key

\* CheckKey is the only way to "running", and it looks for a completed twin
\* in the step that takes it; complete is the only way to "completed".
LEMMA KeyStep ==
  ASSUME TypeInv, [Next]_vars, NEW d \in Dispatchers,
         pc'[d] = "running", completed_task_for_key(mine[d])' # {}
  PROVE  TwinStep(d)
  <1>t. /\ StoreTypeOK /\ HasTask
        /\ pc \in [Dispatchers -> Location] /\ mine \in [Dispatchers -> Tasks \cup {NoTask}]
        /\ rows \in [Dispatchers -> SUBSET Tasks]
    BY DEF TypeInv, TypeOK
  <1> USE <1>t
  <1>1. ASSUME DispatcherStep(d) PROVE FALSE
    <2>1. CASE CheckKey(d)
      BY <2>1 DEF CheckKey, Goto, storeVars, completed_task_for_key
    <2>2. CASE \/ RunnerReturns(d) \/ ReadBeforeComplete(d) \/ Complete(d) \/ Fail(d)
               \/ Boot(d) \/ BootReclaim(d) \/ ReleaseSelect(d) \/ ReleaseCommit(d)
               \/ RecomputeSelect(d) \/ RecomputeCommit(d) \/ ListReady(d)
      BY <2>2 DEF RunnerReturns, ReadBeforeComplete, Complete, Fail, Boot, BootReclaim,
         ReleaseSelect, ReleaseCommit, RecomputeSelect, RecomputeCommit, ListReady, Continue, Goto
    <2>3. ASSUME NEW u \in Tasks, RecomputeGate(d, u) \/ SkipTask(d, u) \/ TakeTask(d, u)
          PROVE  FALSE
      BY <2>3 DEF RecomputeGate, SkipTask, TakeTask, Continue, Goto
    <2> QED
      BY <1>1, <2>1, <2>2, <2>3 DEF DispatcherStep
  <1>2. ASSUME NEW e \in Dispatchers \ {d}, DispatcherStep(e) PROVE TwinStep(d)
    <2>1. pc'[d] = pc[d] /\ mine'[d] = mine[d]
      BY <1>2 DEF DispatcherStep, Boot, BootReclaim, ReleaseSelect, ReleaseCommit,
         RecomputeSelect, RecomputeCommit, RecomputeGate, SkipTask, TakeTask, ListReady,
         CheckKey, RunnerReturns, ReadBeforeComplete, Complete, Fail, Continue, Goto
    <2>2. CASE Complete(e)
      <3>1. status' = [status EXCEPT ![mine[e]] = "completed"] /\ pc[e] = "writing"
            /\ mine' = [mine EXCEPT ![e] = NoTask] /\ mine[e] \in Tasks
        BY <2>2 DEF Complete, CompleteWrite, HasTask, Working
      <3>2. CASE completed_task_for_key(mine[d]) # {}
        BY <3>2, <2>1 DEF TwinStep
      <3>3. CASE completed_task_for_key(mine[d]) = {}
        <4>1. mine[e] \in completed_task_for_key(mine[d])'
          BY <3>1, <3>3, <2>1 DEF completed_task_for_key, StoreTypeOK
        <4>2. OutcomeBy(mine[e], e)
          BY <3>1 DEF OutcomeBy
        <4> QED
          BY <4>1, <4>2, <3>1, <2>1 DEF TwinStep
      <3> QED
        BY <3>2, <3>3
    <2>3. ASSUME ~Complete(e)
          PROVE  \A t \in Tasks : status'[t] = "completed" => status[t] = "completed"
      <3>1. CASE \/ Boot(e) \/ ReleaseSelect(e) \/ RecomputeSelect(e) \/ ListReady(e)
                 \/ CheckKey(e) \/ RunnerReturns(e) \/ ReadBeforeComplete(e)
        BY <3>1 DEF Boot, ReleaseSelect, RecomputeSelect, ListReady, CheckKey, RunnerReturns,
           ReadBeforeComplete, storeVars
      <3>2. CASE BootReclaim(e) \/ ReleaseCommit(e) \/ RecomputeCommit(e)
        BY <3>2 DEF BootReclaim, ReleaseCommit, RecomputeCommit, Reclaim, RecomputeReady
      <3>3. CASE Fail(e)
        BY <3>3 DEF Fail, RecordFailure, StoreTypeOK
      <3>4. ASSUME NEW u \in Tasks, RecomputeGate(e, u) \/ SkipTask(e, u) \/ TakeTask(e, u)
            PROVE  \A t \in Tasks : status'[t] = "completed" => status[t] = "completed"
        BY <3>4 DEF RecomputeGate, SkipTask, TakeTask, ClaimRejected, ClaimLost, ClaimWon,
           storeVars, StoreTypeOK
      <3> QED
        BY <1>2, <2>3, <3>1, <3>2, <3>3, <3>4 DEF DispatcherStep
    <2> QED
      BY <2>1, <2>2, <2>3, NoNewTwin
  <1>3. ASSUME NEW e \in Dispatchers, Crash(e) \/ TickAborts(e) PROVE TwinStep(d)
    <2>1. e # d /\ pc'[d] = pc[d] /\ mine'[d] = mine[d] /\ status' = status
      BY <1>3 DEF Crash, TickAborts, Abandon, Goto, storeVars
    <2> QED
      BY <2>1, NoNewTwin
  <1>4. ASSUME UNCHANGED localVars,
               \A t \in Tasks : status'[t] = "completed" => status[t] = "completed"
        PROVE  TwinStep(d)
    BY <1>4, NoNewTwin DEF localVars
  <1>5. ASSUME NEW u \in Tasks, BeginCreate(u) \/ FinishCreate(u) PROVE TwinStep(d)
    BY <1>5, <1>4 DEF BeginCreate, FinishCreate, CreateRead, CreateInsert, StoreTypeOK
  <1>6. ASSUME NEW u \in Tasks, Control(u) PROVE TwinStep(d)
    BY <1>6, <1>4 DEF Control, RequestCancel, RequestRetry, RequestUnblock, StoreTypeOK
  <1>7. ASSUME NEW u \in Tasks, TimePasses(u) PROVE TwinStep(d)
    BY <1>7, <1>4 DEF TimePasses, LeaseExpires
  <1>8. CASE LinkTasks
    BY <1>8, <1>4 DEF LinkTasks, Link
  <1>9. CASE UNCHANGED vars
    BY <1>9, <1>4 DEF vars, storeVars
  <1> QED
    BY <1>1, <1>2, <1>3, <1>5, <1>6, <1>7, <1>8, <1>9 DEF Next

\* WorkQueueDriver's dispatch-time dedup over any number of drivers: no
\* dispatcher starts a task whose twin is completed, and one that is executing
\* sees its twin completed by another dispatcher's complete only.
THEOREM CompletedKeyNotStarted == Spec => KeyRunTwiceOnlyAtOnce
  <1>1. TypeInv /\ [Next]_vars =>
           [\A d \in Dispatchers :
               pc'[d] = "running" /\ completed_task_for_key(mine[d])' # {}
               => /\ pc[d] = "running"
                  /\ \/ completed_task_for_key(mine[d]) # {}
                     \/ \E e \in Dispatchers \ {d}, u \in completed_task_for_key(mine[d])' :
                           pc[e] = "writing" /\ OutcomeBy(u, e)]_vars
    BY KeyStep DEF TwinStep
  <1> QED
    BY <1>1, TypeInvariant, PTL DEF Spec, KeyRunTwiceOnlyAtOnce
=============================================================================
