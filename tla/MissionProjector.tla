-------------------------- MODULE MissionProjector --------------------------
(***************************************************************************)
(* The outbound projection of the work queue: the driver's checkpoints go  *)
(* through a bounded queue to one daemon thread, which mirrors them at the *)
(* chat-proxy as missions, runs and events.                                *)
(*                                                                         *)
(* The chat-proxy is external.  A call to it takes effect and returns, or  *)
(* raises without effect, or takes effect and raises because the reply is  *)
(* lost; create_mission is idempotent in the task's key, the other calls   *)
(* are not.  A store write that raises after a call that succeeded is the  *)
(* same outcome as a lost reply.  restart_recovery abandons every run that *)
(* is still open, whoever works on it.                                     *)
(*                                                                         *)
(* The module follows one process.  Its startup sweep announces a restart  *)
(* whatever its own tick left claimed, and another process that starts     *)
(* (the CLI beside a gateway) announces one at any time through a          *)
(* projector of its own, of which only the call at the host is seen here.  *)
(*                                                                         *)
(* The driver is the environment here: it claims a task and ends the run,  *)
(* or abandons it when a store call raises in the middle of a tick.        *)
(* Bodies, previews and the throttled heartbeat (no caller) are left out.  *)
(***************************************************************************)
EXTENDS Naturals, Sequences

CONSTANTS
    Tasks,
    MaxQueue,       \* queue_maxsize
    MaxRetries,     \* max_retries: attempts per item
    MaxClaims,      \* bound: claims of one task
    MaxFaults,      \* bound: calls that raise
    MaxRestarts,    \* bound: restarts of the process
    MaxForeign,     \* bound: restarts other processes announce
    MayAbort,       \* may a tick abandon a claimed task?
    NoTask

ASSUME ProjectorAssumption ==
    /\ MaxQueue \in Nat \ {0}
    /\ MaxRetries \in Nat \ {0}
    /\ MaxClaims \in Nat
    /\ MaxFaults \in Nat
    /\ MaxRestarts \in Nat
    /\ MaxForeign \in Nat
    /\ MayAbort \in BOOLEAN
    /\ NoTask \notin Tasks

VARIABLES
    stage,      \* the task in the work queue
    claims,     \* claims of the task so far
    booting,    \* the startup sweep has not announced the restart yet
    queue,      \* the bounded queue
    item,       \* the item the worker handles
    at,         \* the call the worker is about to make; "idle": none
    attempt,    \* failed attempts at this item
    run_id,     \* _task_run_ids, 0 for no entry
    mapped,     \* tasks with a row in mission_projection
    missions,   \* tasks with a hosted mission
    runs,       \* hosted runs of each task, in order of creation
    events,     \* kinds of hosted events of each task
    faults, restarts, foreign,
    unannounced,    \* history: an earlier process may have left runs open at the host
    disowned        \* history: claimed tasks whose claim a restart was announced over

driverVars == <<stage, claims, booting>>
workerVars == <<item, at, attempt>>
hostVars == <<missions, runs, events>>
boundVars == <<faults, restarts, foreign>>
historyVars == <<unannounced, disowned>>
vars == <<driverVars, queue, workerVars, run_id, mapped, hostVars, boundVars, historyVars>>

Terminal == {"completed", "failed"}
Item == [op : {"created", "claimed"} \cup Terminal, task : Tasks]
          \cup [op : {"restart_recovery"}, task : {NoTask}]
NoItem == [op |-> "none", task |-> NoTask]

TypeOK ==
    /\ stage \in [Tasks -> {"new", "queued", "claimed", "closed"}]
    /\ claims \in [Tasks -> 0..MaxClaims]
    /\ booting \in BOOLEAN
    /\ queue \in Seq(Item) /\ Len(queue) <= MaxQueue
    /\ item \in Item \cup {NoItem}
    /\ at \in {"idle", "mission", "run", "event", "recovery"}
    /\ at = "idle" <=> item = NoItem
    /\ attempt \in 0..(MaxRetries - 1)
    /\ \A t \in Tasks : run_id[t] \in {0} \cup DOMAIN runs[t]
    /\ mapped \subseteq missions /\ missions \subseteq Tasks
    /\ runs \in [Tasks -> Seq({"running", "abandoned"} \cup Terminal)]
    /\ events \in [Tasks -> SUBSET ({"claimed"} \cup Terminal)]
    /\ faults \in 0..MaxFaults /\ restarts \in 0..MaxRestarts /\ foreign \in 0..MaxForeign
    /\ unannounced \in BOOLEAN
    /\ disowned \subseteq {t \in Tasks : stage[t] = "claimed"}

Init ==
    /\ stage = [t \in Tasks |-> "new"]
    /\ claims = [t \in Tasks |-> 0]
    /\ booting = TRUE
    /\ queue = <<>>
    /\ item = NoItem /\ at = "idle" /\ attempt = 0
    /\ run_id = [t \in Tasks |-> 0]
    /\ mapped = {} /\ missions = {}
    /\ runs = [t \in Tasks |-> <<>>]
    /\ events = [t \in Tasks |-> {}]
    /\ faults = 0 /\ restarts = 0 /\ foreign = 0
    /\ unannounced = FALSE /\ disowned = {}

---------------------------------------------------------------------------
(* Producers: enqueue never blocks, a full queue drops the item            *)

\* Mutant: an unbounded queue.
EnqueueUnbounded(op, t) == queue' = Append(queue, [op |-> op, task |-> t])

Enqueue(op, t) ==
    queue' = IF Len(queue) < MaxQueue THEN Append(queue, [op |-> op, task |-> t]) ELSE queue

Producing == UNCHANGED <<workerVars, run_id, mapped, hostVars, boundVars, unannounced>>

TaskCreated(t) ==
    /\ stage[t] = "new"
    /\ stage' = [stage EXCEPT ![t] = "queued"]
    /\ Enqueue("created", t)
    /\ Producing /\ UNCHANGED <<claims, booting, disowned>>

TaskClaimed(t) ==
    /\ stage[t] = "queued"
    /\ claims[t] < MaxClaims
    /\ stage' = [stage EXCEPT ![t] = "claimed"]
    /\ claims' = [claims EXCEPT ![t] = @ + 1]
    /\ Enqueue("claimed", t)
    /\ Producing /\ UNCHANGED <<booting, disowned>>

\* completed and short_circuited checkpoints are treated alike; a failed task
\* may be claimed again.
TaskEnded(t, k) ==
    /\ stage[t] = "claimed"
    /\ stage' = [stage EXCEPT ![t] = IF k = "failed" THEN "queued" ELSE "closed"]
    /\ Enqueue(k, t)
    /\ disowned' = disowned \ {t}
    /\ Producing /\ UNCHANGED <<claims, booting>>

\* A store call raised after the claim: no terminal checkpoint; the claim
\* expires and the task is put back.
TickAborts(t) ==
    /\ MayAbort
    /\ stage[t] = "claimed"
    /\ stage' = [stage EXCEPT ![t] = "queued"]
    /\ disowned' = disowned \ {t}
    /\ Producing /\ UNCHANGED <<queue, claims, booting>>

Claimed == {t \in Tasks : stage[t] = "claimed"}

\* The startup sweep of this process announces the restart, also when its own
\* tick raised and whatever is claimed by then.
RestartRecovery ==
    /\ booting
    /\ booting' = FALSE
    /\ Enqueue("restart_recovery", NoTask)
    /\ disowned' = Claimed
    /\ Producing /\ UNCHANGED <<stage, claims>>

---------------------------------------------------------------------------
(* The worker                                                              *)

\* _handle from its start: the first call it makes for an item.
FirstCall(i) ==
    CASE i.op = "restart_recovery" -> "recovery"
      [] i.op # "restart_recovery" /\ i.task \notin mapped -> "mission"
      [] i.op \in {"claimed"} \cup Terminal /\ i.task \in mapped -> "run"
      [] OTHER -> "idle"

Finish == item' = NoItem /\ at' = "idle" /\ attempt' = 0

\* Mutant: the worker waits for a second item.
TakeBatch ==
    /\ at = "idle"
    /\ Len(queue) > 1
    /\ queue' = Tail(queue)
    /\ IF FirstCall(Head(queue)) = "idle"
       THEN Finish
       ELSE item' = Head(queue) /\ at' = FirstCall(Head(queue)) /\ attempt' = 0
    /\ UNCHANGED <<driverVars, run_id, mapped, hostVars, boundVars, historyVars>>

Take ==
    /\ at = "idle"
    /\ queue # <<>>
    /\ queue' = Tail(queue)
    /\ IF FirstCall(Head(queue)) = "idle"
       THEN Finish
       ELSE /\ item' = Head(queue)
            /\ at' = FirstCall(Head(queue))
            /\ attempt' = 0
    /\ UNCHANGED <<driverVars, run_id, mapped, hostVars, boundVars, historyVars>>

\* Mutant: one attempt too few.
RaiseEarly ==
    /\ faults < MaxFaults
    /\ faults' = faults + 1
    /\ IF attempt + 2 < MaxRetries
       THEN at' = FirstCall(item) /\ attempt' = attempt + 1 /\ UNCHANGED item
       ELSE Finish

\* _handle raised: start the item over, or drop it after the last attempt.
Raise ==
    /\ faults < MaxFaults
    /\ faults' = faults + 1
    /\ IF attempt + 1 < MaxRetries
       THEN at' = FirstCall(item) /\ attempt' = attempt + 1 /\ UNCHANGED item
       ELSE Finish

Return(next) ==
    /\ IF next = "idle" THEN Finish ELSE at' = next /\ UNCHANGED <<item, attempt>>
    /\ UNCHANGED faults

\* _ensure_mission on a miss: POST, then the mapping row.
EnsureMission ==
    /\ at = "mission"
    /\ LET t == item.task IN
       \/ /\ missions' = missions \cup {t}
          /\ \/ mapped' = mapped \cup {t} /\ Return(IF item.op = "created" THEN "idle" ELSE "run")
             \/ Raise /\ UNCHANGED mapped
       \/ Raise /\ UNCHANGED <<missions, mapped>>
    /\ UNCHANGED <<driverVars, queue, run_id, runs, events, restarts, foreign, historyVars>>

\* Mutant: the id of the new run is not remembered.
CreateRunForgetful ==
    /\ at = "run"
    /\ item.op = "claimed"
    /\ \/ /\ runs' = [runs EXCEPT ![item.task] = Append(@, "running")]
          /\ Return("event") \/ Raise
       \/ Raise /\ UNCHANGED runs
    /\ UNCHANGED <<driverVars, queue, run_id, mapped, missions, events, restarts, foreign, historyVars>>

\* "claimed": create a running run and remember its id.
CreateRun ==
    /\ at = "run"
    /\ item.op = "claimed"
    /\ LET t == item.task IN
       \/ /\ runs' = [runs EXCEPT ![t] = Append(@, "running")]
          /\ \/ run_id' = [run_id EXCEPT ![t] = Len(runs[t]) + 1] /\ Return("event")
             \/ Raise /\ UNCHANGED run_id
       \/ Raise /\ UNCHANGED <<runs, run_id>>
    /\ UNCHANGED <<driverVars, queue, mapped, missions, events, restarts, foreign, historyVars>>

\* Mutant: the id is read and kept.
CloseRunKeepsId ==
    /\ at = "run"
    /\ item.op \in Terminal
    /\ LET t == item.task
           closed == IF run_id[t] # 0
                     THEN [runs[t] EXCEPT ![run_id[t]] = item.op]
                     ELSE Append(runs[t], item.op)
       IN  \/ runs' = [runs EXCEPT ![t] = closed] /\ (Return("event") \/ Raise)
           \/ Raise /\ UNCHANGED runs
    /\ UNCHANGED <<driverVars, queue, run_id, mapped, missions, events, restarts, foreign, historyVars>>

\* A terminal checkpoint: forget the id, then update that run, or create a
\* closed one when no id is known.
CloseRun ==
    /\ at = "run"
    /\ item.op \in Terminal
    /\ LET t == item.task
           closed == IF run_id[t] # 0
                     THEN [runs[t] EXCEPT ![run_id[t]] = item.op]
                     ELSE Append(runs[t], item.op)
       IN  /\ run_id' = [run_id EXCEPT ![t] = 0]
           /\ \/ runs' = [runs EXCEPT ![t] = closed] /\ (Return("event") \/ Raise)
              \/ Raise /\ UNCHANGED runs
    /\ UNCHANGED <<driverVars, queue, mapped, missions, events, restarts, foreign, historyVars>>

\* The event, and the mapping row's status, which ends the item.
AppendEvent ==
    /\ at = "event"
    /\ LET t == item.task IN
       \/ /\ events' = [events EXCEPT ![t] = @ \cup {item.op}]
          /\ Return("idle") \/ Raise
       \/ Raise /\ UNCHANGED events
    /\ UNCHANGED <<driverVars, queue, run_id, mapped, missions, runs, restarts, foreign, historyVars>>

Abandoned == [t \in Tasks |-> [i \in DOMAIN runs[t] |->
                 IF runs[t][i] = "running" THEN "abandoned" ELSE runs[t][i]]]

AbandonRuns ==
    /\ at = "recovery"
    /\ \/ /\ runs' = Abandoned
          /\ unannounced' = FALSE
          /\ Return("idle") \/ Raise
       \/ Raise /\ UNCHANGED <<runs, unannounced>>
    /\ UNCHANGED <<driverVars, queue, run_id, mapped, missions, events, restarts, foreign, disowned>>

\* The startup sweep of another process reaches the host.
ForeignRecovery ==
    /\ foreign < MaxForeign
    /\ foreign' = foreign + 1
    /\ runs' = Abandoned
    /\ unannounced' = FALSE
    /\ disowned' = Claimed
    /\ UNCHANGED <<driverVars, queue, workerVars, run_id, mapped, missions, events,
                    faults, restarts>>

WorkerStep == Take \/ EnsureMission \/ CreateRun \/ CloseRun \/ AppendEvent \/ AbandonRuns

\* The process dies and boots again: queue, worker and run ids are lost, the
\* startup sweep reclaims the running rows.
Restart ==
    /\ restarts < MaxRestarts
    /\ restarts' = restarts + 1
    /\ booting' = TRUE
    /\ stage' = [t \in Tasks |-> IF stage[t] = "claimed" THEN "queued" ELSE stage[t]]
    /\ queue' = <<>>
    /\ Finish
    /\ run_id' = [t \in Tasks |-> 0]
    /\ unannounced' = TRUE
    /\ disowned' = {}
    /\ UNCHANGED <<claims, mapped, hostVars, faults, foreign>>

Next ==
    \/ WorkerStep
    \/ \E t \in Tasks : \/ TaskCreated(t) \/ TaskClaimed(t) \/ TickAborts(t)
                        \/ \E k \in Terminal : TaskEnded(t, k)
    \/ RestartRecovery \/ ForeignRecovery \/ Restart

Spec == Init /\ [][Next]_vars

\* The daemon thread is scheduled and every HTTP call has a timeout.
FairSpec == Spec /\ WF_vars(WorkerStep)

---------------------------------------------------------------------------
Statuses(t) == {runs[t][i] : i \in DOMAIN runs[t]}

\* The panel shows all this process did, and a restart was announced since
\* the last one.
Quiet == at = "idle" /\ queue = <<>> /\ ~unannounced

\* A hosted run that was closed keeps its outcome: no retry and no later
\* attempt at the task writes over it.
OutcomeIsFinal ==
    [][\A t \in Tasks : \A i \in DOMAIN runs[t] :
          runs[t][i] \in Terminal => runs'[t][i] = runs[t][i]]_vars

\* The worker never dies or wedges: with a transport that may fail at every
\* call it gets through its queue and waits for work again.
WorkerDrains == [](at # "idle" => <>(at = "idle")) /\ [](queue # <<>> => <>(queue = <<>>))

\* Fewer faults than attempts never lose an outcome: a completed task is
\* shown as completed, with a closed run and an event, unless a restart wipes
\* the queue first.
CompletionReachesHost ==
    \A t \in Tasks :
        (stage[t] = "closed" /\ restarts = 0)
            ~> \/ "completed" \in Statuses(t) /\ "completed" \in events[t]
               \/ restarts > 0

\* As long as no call failed, a quiet panel mirrors the queue, across restarts
\* that lose the queue and the run ids: what runs at the host is claimed, in at
\* most one run, and what is claimed runs, unless a restart was announced while
\* that claim was at work: the host abandons its run like any other.
PanelMirrorsQueue ==
    Quiet /\ faults = 0 => \A t \in Tasks :
        LET running == {i \in DOMAIN runs[t] : runs[t][i] = "running"} IN
        /\ running # {} => t \in Claimed
        /\ t \in Claimed \ disowned => running # {}
        /\ \A i, j \in running : i = j
=============================================================================
