---------------------- MODULE MissionProjectorProofs ----------------------
(***************************************************************************)
(* The projection of the work queue, for any number of tasks, faults,      *)
(* attempts and restarts and any size of the queue.                        *)
(*                                                                         *)
(* _task_run_ids names a hosted run only while that run is open: the       *)
(* terminal checkpoint forgets the id before it makes the call, so that    *)
(* neither a retry of the item nor a later attempt at the task writes to a *)
(* run that is closed (RunIdsOpen).                                        *)
(***************************************************************************)
EXTENDS MissionProjector, SequenceTheorems, TLAPS

\* A remembered run is still open.
RunIdsOpen ==
    /\ run_id \in [Tasks -> Nat]
    /\ \A t \in Tasks : run_id[t] # 0 => runs[t][run_id[t]] \notin Terminal

\* The call the worker is about to make belongs to its item; it asks for a
\* mission only while the task has no mapping row.
CallFits ==
    /\ at = "recovery" => item.op = "restart_recovery"
    /\ at = "mission" => item.op # "restart_recovery" /\ item.task \notin mapped
    /\ at \in {"run", "event"} => item.op \in {"claimed"} \cup Terminal

Inv == TypeOK /\ RunIdsOpen /\ CallFits

RunStatus == {"running", "abandoned"} \cup Terminal

\* What a step may do to the hosted runs: a closed run stays as it is.
OutcomesKept ==
    \A t \in Tasks : \A i \in DOMAIN runs[t] :
        runs[t][i] \in Terminal => runs'[t][i] = runs[t][i]

---------------------------------------------------------------------------
(* TypeOK, thread by thread                                                *)

DriverTypes ==
    /\ stage \in [Tasks -> {"new", "queued", "claimed", "closed"}]
    /\ claims \in [Tasks -> 0..MaxClaims]
    /\ booting \in BOOLEAN
QueueTypes == queue \in Seq(Item) /\ Len(queue) <= MaxQueue
WorkerTypes ==
    /\ item \in Item \cup {NoItem}
    /\ at \in {"idle", "mission", "run", "event", "recovery"}
    /\ at = "idle" <=> item = NoItem
    /\ attempt \in 0..(MaxRetries - 1)
RunTypes ==
    /\ \A t \in Tasks : run_id[t] \in {0} \cup DOMAIN runs[t]
    /\ runs \in [Tasks -> Seq(RunStatus)]
HostTypes ==
    /\ mapped \subseteq missions /\ missions \subseteq Tasks
    /\ events \in [Tasks -> SUBSET ({"claimed"} \cup Terminal)]
BoundTypes == faults \in 0..MaxFaults /\ restarts \in 0..MaxRestarts /\ foreign \in 0..MaxForeign
HistoryTypes == unannounced \in BOOLEAN /\ disowned \subseteq Claimed

LEMMA TypeParts ==
    TypeOK <=> /\ DriverTypes /\ QueueTypes /\ WorkerTypes
               /\ RunTypes /\ HostTypes /\ BoundTypes /\ HistoryTypes
  BY DEF TypeOK, DriverTypes, QueueTypes, WorkerTypes, RunTypes, HostTypes, BoundTypes,
         HistoryTypes, Claimed, RunStatus

LEMMA TypePartsNext ==
    TypeOK' <=> /\ DriverTypes' /\ QueueTypes' /\ WorkerTypes'
                /\ RunTypes' /\ HostTypes' /\ BoundTypes' /\ HistoryTypes'
  BY DEF TypeOK, DriverTypes, QueueTypes, WorkerTypes, RunTypes, HostTypes, BoundTypes,
         HistoryTypes, Claimed, RunStatus

LEMMA InitInv == Init => Inv
  <1> SUFFICES ASSUME Init PROVE Inv
    OBVIOUS
  <1> USE DEF Init
  <1>1. DriverTypes /\ QueueTypes /\ WorkerTypes /\ HostTypes /\ BoundTypes
    BY ProjectorAssumption
    DEF ProjectorAssumption, DriverTypes, QueueTypes, WorkerTypes, HostTypes, BoundTypes
  <1>2. RunTypes
    BY DEF RunTypes, RunStatus
  <1>3. RunIdsOpen /\ CallFits /\ HistoryTypes
    <2>1. HistoryTypes
      BY Zenon DEF HistoryTypes
    <2>2. QED
      BY <2>1 DEF RunIdsOpen, CallFits
  <1>4. QED
    BY <1>1, <1>2, <1>3, TypeParts DEF Inv

---------------------------------------------------------------------------
(* The queue and the worker's place in an item                             *)

\* A producer never makes the queue longer than it may be.
LEMMA EnqueueStep ==
    ASSUME QueueTypes, NEW op, NEW t, [op |-> op, task |-> t] \in Item, Enqueue(op, t)
    PROVE  QueueTypes'
  <1>1. PICK e \in Item : e = [op |-> op, task |-> t]
    OBVIOUS
  <1>2. queue' = IF Len(queue) < MaxQueue THEN Append(queue, e) ELSE queue
    BY <1>1 DEF Enqueue
  <1>3. /\ Append(queue, e) \in Seq(Item) /\ Len(Append(queue, e)) = Len(queue) + 1
        /\ Len(queue) \in Nat
    BY AppendProperties, LenProperties DEF QueueTypes
  <1>4. QED
    BY <1>2, <1>3, ProjectorAssumption DEF ProjectorAssumption, QueueTypes

\* An item is a checkpoint of a task or the announcement of a restart.
LEMMA ItemParts ==
    /\ \A i \in Item : i.op \in {"created", "claimed", "restart_recovery"} \cup Terminal
    /\ \A i \in Item : i.op # "restart_recovery" => i.task \in Tasks
    /\ NoItem \notin Item
    /\ \A op \in {"created", "claimed"} \cup Terminal, t \in Tasks : [op |-> op, task |-> t] \in Item
    /\ [op |-> "restart_recovery", task |-> NoTask] \in Item
  BY DEF Item, NoItem, Terminal

\* The first call of an item fits it, whether the item is new or tried again.
LEMMA FirstCallFits ==
    ASSUME NEW i \in Item
    PROVE  /\ FirstCall(i) \in {"idle", "mission", "run", "recovery"}
           /\ FirstCall(i) = "recovery" => i.op = "restart_recovery"
           /\ FirstCall(i) = "mission" => i.op # "restart_recovery" /\ i.task \notin mapped
           /\ FirstCall(i) = "run" => i.op \in {"claimed"} \cup Terminal
           /\ FirstCall(i) = "idle" => i.op = "created" /\ i.task \in mapped
  <1>1. i.op \in {"created", "claimed", "restart_recovery"} \cup Terminal
    BY ItemParts
  <1>2. CASE i.op = "restart_recovery"
    BY <1>2 DEF FirstCall, Terminal
  <1>3. CASE i.op # "restart_recovery" /\ i.task \notin mapped
    BY <1>3 DEF FirstCall, Terminal
  <1>4. CASE i.op \in {"claimed"} \cup Terminal /\ i.task \in mapped
    <2>1. i.op # "restart_recovery"
      BY <1>4 DEF Terminal
    <2>2. QED
      BY <1>4, <2>1 DEF FirstCall, Terminal
  <1>5. CASE i.op = "created" /\ i.task \in mapped
    BY <1>5 DEF FirstCall, Terminal
  <1>6. QED
    BY <1>1, <1>2, <1>3, <1>4, <1>5

\* A call that raised leaves the worker at the start of its item, or without
\* one.
LEMMA RaiseStep ==
    ASSUME TypeOK, CallFits, at # "idle", mapped' = mapped, Raise
    PROVE  WorkerTypes' /\ CallFits' /\ faults' \in 0..MaxFaults
  <1>1. item \in Item /\ attempt \in Nat /\ faults \in Nat
    BY DEF TypeOK
  <1>2. faults' \in 0..MaxFaults
    BY <1>1, ProjectorAssumption DEF ProjectorAssumption, Raise
  <1>3. CASE attempt + 1 < MaxRetries
    <2>1. at' = FirstCall(item) /\ attempt' = attempt + 1 /\ item' = item
      BY <1>3 DEF Raise
    <2>2. FirstCall(item) # "idle"
      <3>1. CASE at = "recovery"
        BY <1>1, <3>1, FirstCallFits DEF CallFits
      <3>2. CASE at = "mission"
        BY <1>1, <3>2, FirstCallFits DEF CallFits
      <3>3. CASE at \in {"run", "event"}
        BY <1>1, <3>3, FirstCallFits DEF CallFits, Terminal
      <3>4. QED
        BY <3>1, <3>2, <3>3 DEF TypeOK
    <2>3. attempt' \in 0..(MaxRetries - 1)
      BY <1>1, <1>3, <2>1, ProjectorAssumption DEF ProjectorAssumption
    <2>4. WorkerTypes'
      BY <1>1, <2>1, <2>2, <2>3, FirstCallFits, ItemParts DEF WorkerTypes
    <2>5. CallFits'
      BY <1>1, <2>1, <2>2, FirstCallFits DEF CallFits
    <2>6. QED
      BY <1>2, <2>4, <2>5
  <1>4. CASE ~(attempt + 1 < MaxRetries)
    BY <1>2, <1>4, ProjectorAssumption
    DEF ProjectorAssumption, Raise, Finish, WorkerTypes, CallFits
  <1>5. QED
    BY <1>3, <1>4

\* A call that returned leads to the next one or ends the item.
LEMMA ReturnStep ==
    ASSUME TypeOK, at # "idle",
           NEW next \in {"idle", "run", "event"},
           next # "idle" => item.op \in {"claimed"} \cup Terminal,
           Return(next)
    PROVE  WorkerTypes' /\ CallFits' /\ faults' \in 0..MaxFaults
  <1>1. faults' \in 0..MaxFaults
    BY DEF Return, TypeOK
  <1>2. CASE next = "idle"
    BY <1>1, <1>2, ProjectorAssumption
    DEF ProjectorAssumption, Return, Finish, WorkerTypes, CallFits
  <1>3. CASE next # "idle"
    BY <1>1, <1>3 DEF Return, TypeOK, WorkerTypes, CallFits
  <1>4. QED
    BY <1>2, <1>3

---------------------------------------------------------------------------
(* The hosted runs                                                         *)

RunsKept == RunTypes' /\ RunIdsOpen' /\ OutcomesKept

\* A step that touches neither the hosted runs nor the ids.
LEMMA RunsUntouched ==
    ASSUME Inv, UNCHANGED <<runs, run_id>>
    PROVE  RunsKept
  BY DEF Inv, TypeOK, RunTypes, RunStatus, RunIdsOpen, OutcomesKept, RunsKept

\* A new run is added behind the others and becomes the remembered one or not.
LEMMA RunAdded ==
    ASSUME Inv, NEW t \in Tasks, NEW s \in RunStatus, NEW id \in {0, run_id[t], Len(runs[t]) + 1},
           id = Len(runs[t]) + 1 => s \notin Terminal,
           runs' = [runs EXCEPT ![t] = Append(runs[t], s)],
           run_id' = [run_id EXCEPT ![t] = id]
    PROVE  RunsKept
  <1>1. /\ runs \in [Tasks -> Seq(RunStatus)] /\ run_id \in [Tasks -> Nat]
        /\ \A u \in Tasks : run_id[u] \in {0} \cup DOMAIN runs[u]
    BY DEF Inv, TypeOK, RunStatus, RunIdsOpen
  <1>2. runs[t] \in Seq(RunStatus)
    BY <1>1
  <1>3. /\ runs'[t] = Append(runs[t], s) /\ \A u \in Tasks \ {t} : runs'[u] = runs[u]
        /\ run_id'[t] = id /\ \A u \in Tasks \ {t} : run_id'[u] = run_id[u]
    BY <1>1
  <1>4. PICK list : list = Append(runs[t], s)
    OBVIOUS
  <1>5. /\ list \in Seq(RunStatus) /\ Len(runs[t]) \in Nat
        /\ DOMAIN runs[t] = 1..Len(runs[t]) /\ DOMAIN list = 1..(Len(runs[t]) + 1)
        /\ \A i \in DOMAIN runs[t] : list[i] = runs[t][i]
        /\ list[Len(runs[t]) + 1] = s
    <2>1. /\ list \in Seq(RunStatus) /\ Len(list) = Len(runs[t]) + 1 /\ Len(runs[t]) \in Nat
          /\ \A i \in 1..Len(runs[t]) : list[i] = runs[t][i]
          /\ list[Len(runs[t]) + 1] = s
      BY <1>2, <1>4, AppendProperties, LenProperties
    <2>2. QED
      BY <1>2, <2>1, LenProperties
  <1>6. id \in {0} \cup DOMAIN list /\ id \in Nat
    BY <1>1, <1>5
  <1>7. id # 0 => list[id] \notin Terminal
    <2>1. CASE id = Len(runs[t]) + 1
      BY <1>5, <2>1
    <2>2. CASE id = run_id[t]
      BY <1>1, <1>5, <2>2 DEF Inv, RunIdsOpen
    <2>3. QED
      BY <2>1, <2>2
  <1>8. RunTypes'
    BY <1>1, <1>3, <1>4, <1>5, <1>6 DEF RunTypes
  <1>9. RunIdsOpen'
    BY <1>1, <1>3, <1>4, <1>6, <1>7 DEF Inv, RunIdsOpen
  <1>10. OutcomesKept
    BY <1>3, <1>4, <1>5 DEF OutcomesKept
  <1>11. QED
    BY <1>8, <1>9, <1>10 DEF RunsKept

\* The remembered run is closed and forgotten.
LEMMA RunClosed ==
    ASSUME Inv, NEW t \in Tasks, NEW s \in RunStatus, run_id[t] # 0,
           runs' = [runs EXCEPT ![t] = [runs[t] EXCEPT ![run_id[t]] = s]],
           run_id' = [run_id EXCEPT ![t] = 0]
    PROVE  RunsKept
  <1>1. /\ runs \in [Tasks -> Seq(RunStatus)] /\ run_id \in [Tasks -> Nat]
        /\ \A u \in Tasks : run_id[u] \in {0} \cup DOMAIN runs[u]
    BY DEF Inv, TypeOK, RunStatus, RunIdsOpen
  <1>2. runs[t] \in Seq(RunStatus) /\ run_id[t] \in 1..Len(runs[t])
    BY <1>1, LenProperties
  <1>3. PICK list : list = [runs[t] EXCEPT ![run_id[t]] = s]
    OBVIOUS
  <1>4. /\ list \in Seq(RunStatus) /\ Len(list) = Len(runs[t])
        /\ \A i \in 1..Len(runs[t]) : i # run_id[t] => list[i] = runs[t][i]
    BY <1>2, <1>3, ExceptSeq
  <1>5. DOMAIN runs[t] = 1..Len(runs[t]) /\ DOMAIN list = 1..Len(runs[t])
    BY <1>2, <1>4, LenProperties
  <1>6. /\ runs'[t] = list /\ \A u \in Tasks \ {t} : runs'[u] = runs[u]
        /\ run_id'[t] = 0 /\ \A u \in Tasks \ {t} : run_id'[u] = run_id[u]
    BY <1>1, <1>3
  <1>7. runs' \in [Tasks -> Seq(RunStatus)] /\ run_id' \in [Tasks -> Nat]
    BY <1>1, <1>3, <1>4
  <1>8. RunTypes'
    BY <1>1, <1>6, <1>7 DEF RunTypes
  <1>9. RunIdsOpen'
    BY <1>6, <1>7 DEF Inv, RunIdsOpen
  <1>10. OutcomesKept
    <2>1. runs[t][run_id[t]] \notin Terminal
      BY <1>2 DEF Inv, RunIdsOpen
    <2>2. QED
      BY <1>4, <1>5, <1>6, <2>1 DEF OutcomesKept
  <1>11. QED
    BY <1>8, <1>9, <1>10 DEF RunsKept

\* Ids are forgotten while the runs stay.
LEMMA IdsForgotten ==
    ASSUME Inv, runs' = runs, run_id' \in [Tasks -> Nat],
           \A t \in Tasks : run_id'[t] \in {0, run_id[t]}
    PROVE  RunsKept
  BY DEF Inv, TypeOK, RunTypes, RunStatus, RunIdsOpen, OutcomesKept, RunsKept

---------------------------------------------------------------------------
(* Steps                                                                   *)

\* The driver's steps touch the task table and the queue only.
LEMMA ProducerStep ==
    ASSUME Inv, Producing, DriverTypes', QueueTypes', disowned' \subseteq Claimed'
    PROVE  Inv' /\ OutcomesKept
  <1>1. UNCHANGED <<item, at, attempt, run_id, mapped, missions, runs, events, faults, restarts,
                   foreign, unannounced>>
    BY DEF Producing, workerVars, hostVars, boundVars
  <1>2. RunsKept
    BY <1>1, RunsUntouched
  <1>3. WorkerTypes' /\ HostTypes' /\ BoundTypes' /\ HistoryTypes' /\ CallFits'
    BY <1>1 DEF Inv, TypeOK, WorkerTypes, HostTypes, BoundTypes, HistoryTypes, CallFits
  <1>4. QED
    BY <1>2, <1>3, TypePartsNext DEF Inv, RunsKept

LEMMA DriverStep ==
    ASSUME Inv, NEW t \in Tasks,
           \/ TaskCreated(t) \/ TaskClaimed(t) \/ TickAborts(t)
           \/ \E k \in Terminal : TaskEnded(t, k)
    PROVE  Inv' /\ OutcomesKept
  <1>1. DriverTypes /\ QueueTypes /\ disowned \subseteq Claimed
    BY TypeParts DEF Inv, HistoryTypes
  <1>2. CASE TaskCreated(t)
    <2>1. DriverTypes' /\ Producing /\ disowned' \subseteq Claimed'
      BY <1>1, <1>2 DEF TaskCreated, DriverTypes, Claimed
    <2>2. QueueTypes'
      BY <1>1, <1>2, ItemParts, EnqueueStep DEF TaskCreated
    <2>3. QED
      BY <2>1, <2>2, ProducerStep
  <1>3. CASE TaskClaimed(t)
    <2>1. DriverTypes' /\ Producing /\ disowned' \subseteq Claimed'
      BY <1>1, <1>3, ProjectorAssumption DEF ProjectorAssumption, TaskClaimed, DriverTypes, Claimed
    <2>2. QueueTypes'
      BY <1>1, <1>3, ItemParts, EnqueueStep DEF TaskClaimed
    <2>3. QED
      BY <2>1, <2>2, ProducerStep
  <1>4. CASE TickAborts(t)
    <2>1. DriverTypes' /\ Producing /\ disowned' \subseteq Claimed' /\ QueueTypes'
      BY <1>1, <1>4 DEF TickAborts, DriverTypes, QueueTypes, Claimed
    <2>2. QED
      BY <2>1, ProducerStep
  <1>5. ASSUME NEW k \in Terminal, TaskEnded(t, k)
        PROVE  Inv' /\ OutcomesKept
    <2>1. DriverTypes' /\ Producing /\ disowned' \subseteq Claimed'
      BY <1>1, <1>5 DEF TaskEnded, DriverTypes, Claimed
    <2>2. QueueTypes'
      <3>1. [op |-> k, task |-> t] \in Item
        BY ItemParts
      <3>2. QED
        BY <1>1, <1>5, <3>1, EnqueueStep DEF TaskEnded
    <2>3. QED
      BY <2>1, <2>2, ProducerStep
  <1>6. QED
    BY <1>2, <1>3, <1>4, <1>5

LEMMA RecoveryStep ==
    ASSUME Inv, RestartRecovery
    PROVE  Inv' /\ OutcomesKept
  <1>1. DriverTypes /\ QueueTypes
    BY TypeParts DEF Inv
  <1>2. DriverTypes' /\ Producing /\ disowned' \subseteq Claimed'
    BY <1>1 DEF RestartRecovery, DriverTypes, Claimed
  <1>3. QueueTypes'
    BY <1>1, ItemParts, EnqueueStep DEF RestartRecovery
  <1>4. QED
    BY <1>2, <1>3, ProducerStep

\* The worker's steps leave the task table alone.
LEMMA WorkerKeeps ==
    ASSUME Inv, UNCHANGED <<driverVars, restarts, foreign, disowned>>,
           unannounced' \in {FALSE, unannounced}, QueueTypes', WorkerTypes', CallFits',
           faults' \in 0..MaxFaults, HostTypes', RunsKept
    PROVE  Inv' /\ OutcomesKept
  <1>1. DriverTypes' /\ BoundTypes' /\ HistoryTypes'
    BY DEF Inv, TypeOK, DriverTypes, BoundTypes, HistoryTypes, Claimed, driverVars
  <1>2. QED
    BY <1>1, TypePartsNext DEF Inv, RunsKept

LEMMA TakeStep ==
    ASSUME Inv, Take
    PROVE  Inv' /\ OutcomesKept
  <1>1. /\ queue # <<>> /\ queue' = Tail(queue)
        /\ UNCHANGED <<driverVars, run_id, mapped, missions, runs, events, faults, restarts,
                      foreign, unannounced, disowned>>
    BY DEF Take, hostVars, boundVars, historyVars
  <1>2. PICK i : i = Head(queue)
    OBVIOUS
  <1>3. i \in Item /\ QueueTypes'
    <2>1. queue \in Seq(Item) /\ Len(queue) <= MaxQueue
      BY DEF Inv, TypeOK
    <2>2. Tail(queue) \in Seq(Item) /\ Len(Tail(queue)) = Len(queue) - 1 /\ Len(queue) \in Nat
      BY <1>1, <2>1, HeadTailProperties, LenProperties
    <2>3. Head(queue) \in Item
      BY <1>1, <2>1, HeadTailProperties
    <2>4. QED
      BY <1>1, <1>2, <2>1, <2>2, <2>3, ProjectorAssumption DEF ProjectorAssumption, QueueTypes
  <1>4. WorkerTypes' /\ CallFits'
    <2>1. CASE FirstCall(i) = "idle"
      BY <1>2, <2>1, ProjectorAssumption
      DEF ProjectorAssumption, Take, Finish, WorkerTypes, CallFits
    <2>2. CASE FirstCall(i) # "idle"
      <3>1. item' = i /\ at' = FirstCall(i) /\ attempt' = 0
        BY <1>2, <2>2 DEF Take
      <3>2. QED
        BY <1>1, <1>3, <2>2, <3>1, FirstCallFits, ItemParts, ProjectorAssumption
        DEF ProjectorAssumption, WorkerTypes, CallFits
    <2>3. QED
      BY <2>1, <2>2
  <1>5. HostTypes' /\ faults' \in 0..MaxFaults
    BY <1>1 DEF Inv, TypeOK, HostTypes
  <1>6. RunsKept
    BY <1>1, RunsUntouched
  <1>7. QED
    BY <1>1, <1>3, <1>4, <1>5, <1>6, WorkerKeeps

\* The item of a call for a task is a checkpoint of that task.
LEMMA CallTask ==
    ASSUME Inv, at \in {"mission", "run", "event"}
    PROVE  /\ item \in Item /\ item.task \in Tasks
           /\ at # "idle"
  <1>1. item \in Item
    BY DEF Inv, TypeOK
  <1>2. item.op # "restart_recovery"
    BY DEF Inv, CallFits, Terminal
  <1>3. QED
    BY <1>1, <1>2, ItemParts

LEMMA MissionStep ==
    ASSUME Inv, EnsureMission
    PROVE  Inv' /\ OutcomesKept
  <1> DEFINE t == item.task
  <1>1. /\ at = "mission"
        /\ UNCHANGED <<driverVars, queue, run_id, runs, events, restarts, foreign,
                      unannounced, disowned>>
    BY DEF EnsureMission, historyVars
  <1>2. item \in Item /\ t \in Tasks /\ TypeOK /\ CallFits
    BY <1>1, CallTask DEF Inv
  <1>3. missions' \in {missions, missions \cup {t}}
    BY DEF EnsureMission
  <1>4. /\ WorkerTypes' /\ CallFits' /\ faults' \in 0..MaxFaults
        /\ \/ mapped' = mapped
           \/ mapped' = mapped \cup {t} /\ missions' = missions \cup {t}
    <2>1. CASE Raise /\ mapped' = mapped
      BY <1>1, <1>2, <2>1, RaiseStep
    <2>2. CASE /\ missions' = missions \cup {t} /\ mapped' = mapped \cup {t}
               /\ Return(IF item.op = "created" THEN "idle" ELSE "run")
      <3>1. item.op \in {"created", "claimed"} \cup Terminal
        BY <1>1, <1>2, ItemParts DEF CallFits
      <3>2. CASE item.op = "created"
        BY <1>1, <1>2, <2>2, <3>2, ReturnStep
      <3>3. CASE item.op # "created"
        <4>1. Return("run") /\ item.op \in {"claimed"} \cup Terminal
          BY <2>2, <3>1, <3>3
        <4>2. QED
          BY <1>1, <1>2, <2>2, <4>1, ReturnStep
      <3>4. QED
        BY <3>2, <3>3
    <2>3. QED
      BY <2>1, <2>2 DEF EnsureMission
  <1>5. HostTypes'
    BY <1>1, <1>2, <1>3, <1>4 DEF TypeOK, HostTypes
  <1>6. QueueTypes'
    BY <1>1 DEF Inv, TypeOK, QueueTypes
  <1>7. RunsKept
    BY <1>1, RunsUntouched
  <1>8. QED
    BY <1>1, <1>4, <1>5, <1>6, <1>7, WorkerKeeps

LEMMA CreateStep ==
    ASSUME Inv, CreateRun
    PROVE  Inv' /\ OutcomesKept
  <1> DEFINE t == item.task
  <1>1. /\ at = "run" /\ item.op = "claimed"
        /\ UNCHANGED <<driverVars, queue, mapped, missions, events, restarts, foreign,
                      unannounced, disowned>>
    BY DEF CreateRun, historyVars
  <1>2. item \in Item /\ t \in Tasks /\ TypeOK /\ CallFits /\ at # "idle"
    BY <1>1, CallTask DEF Inv
  <1>3. run_id \in [Tasks -> Nat]
    BY DEF Inv, RunIdsOpen
  <1>4. /\ Raise \/ Return("event")
        /\ \/ UNCHANGED <<runs, run_id>>
           \/ \E id \in {run_id[t], Len(runs[t]) + 1} :
                 /\ runs' = [runs EXCEPT ![t] = Append(runs[t], "running")]
                 /\ run_id' = [run_id EXCEPT ![t] = id]
    <2>1. run_id = [run_id EXCEPT ![t] = run_id[t]]
      BY <1>3
    <2>2. QED
      BY <2>1 DEF CreateRun
  <1>5. WorkerTypes' /\ CallFits' /\ faults' \in 0..MaxFaults
    BY <1>1, <1>2, <1>4, RaiseStep, ReturnStep
  <1>6. RunsKept
    <2>1. "running" \in RunStatus /\ "running" \notin Terminal
      BY DEF RunStatus, Terminal
    <2>2. CASE UNCHANGED <<runs, run_id>>
      BY <2>2, RunsUntouched
    <2>3. ASSUME NEW id \in {run_id[t], Len(runs[t]) + 1},
                 runs' = [runs EXCEPT ![t] = Append(runs[t], "running")],
                 run_id' = [run_id EXCEPT ![t] = id]
          PROVE  RunsKept
      BY <1>2, <2>1, <2>3, RunAdded
    <2>4. QED
      BY <1>4, <2>2, <2>3
  <1>7. HostTypes' /\ QueueTypes'
    BY <1>1 DEF Inv, TypeOK, HostTypes, QueueTypes
  <1>8. QED
    BY <1>1, <1>5, <1>6, <1>7, WorkerKeeps

LEMMA CloseStep ==
    ASSUME Inv, CloseRun
    PROVE  Inv' /\ OutcomesKept
  <1> DEFINE t == item.task
  <1>1. /\ at = "run" /\ item.op \in Terminal
        /\ run_id' = [run_id EXCEPT ![t] = 0]
        /\ UNCHANGED <<driverVars, queue, mapped, missions, events, restarts, foreign,
                      unannounced, disowned>>
    BY DEF CloseRun, historyVars
  <1>2. item \in Item /\ t \in Tasks /\ TypeOK /\ CallFits /\ at # "idle"
    BY <1>1, CallTask DEF Inv
  <1>3. /\ Raise \/ Return("event")
        /\ \/ runs' = runs
           \/ /\ run_id[t] # 0
              /\ runs' = [runs EXCEPT ![t] = [runs[t] EXCEPT ![run_id[t]] = item.op]]
           \/ /\ run_id[t] = 0
              /\ runs' = [runs EXCEPT ![t] = Append(runs[t], item.op)]
    BY DEF CloseRun
  <1>4. WorkerTypes' /\ CallFits' /\ faults' \in 0..MaxFaults
    BY <1>1, <1>2, <1>3, RaiseStep, ReturnStep
  <1>5. RunsKept
    <2>1. item.op \in RunStatus
      BY <1>1 DEF RunStatus
    <2>2. CASE runs' = runs
      <3>1. /\ run_id' \in [Tasks -> Nat]
            /\ \A u \in Tasks : run_id'[u] \in {0, run_id[u]}
        BY <1>1, <1>2 DEF Inv, RunIdsOpen
      <3>2. QED
        BY <2>2, <3>1, IdsForgotten
    <2>3. CASE run_id[t] # 0 /\ runs' = [runs EXCEPT ![t] = [runs[t] EXCEPT ![run_id[t]] = item.op]]
      BY <1>1, <1>2, <2>1, <2>3, RunClosed
    <2>4. CASE run_id[t] = 0 /\ runs' = [runs EXCEPT ![t] = Append(runs[t], item.op)]
      <3>1. 0 # Len(runs[t]) + 1
        BY <1>2, LenProperties DEF TypeOK
      <3>2. QED
        BY <1>1, <1>2, <2>1, <2>4, <3>1, RunAdded
    <2>5. QED
      BY <1>3, <2>2, <2>3, <2>4
  <1>6. HostTypes' /\ QueueTypes'
    BY <1>1 DEF Inv, TypeOK, HostTypes, QueueTypes
  <1>7. QED
    BY <1>1, <1>4, <1>5, <1>6, WorkerKeeps

LEMMA EventStep ==
    ASSUME Inv, AppendEvent
    PROVE  Inv' /\ OutcomesKept
  <1> DEFINE t == item.task
  <1>1. /\ at = "event"
        /\ UNCHANGED <<driverVars, queue, run_id, mapped, missions, runs, restarts, foreign,
                      unannounced, disowned>>
        /\ Raise \/ Return("idle")
        /\ events' = events \/ events' = [events EXCEPT ![t] = @ \cup {item.op}]
    BY DEF AppendEvent, historyVars
  <1>2. item \in Item /\ t \in Tasks /\ TypeOK /\ CallFits /\ at # "idle"
    BY <1>1, CallTask DEF Inv
  <1>3. WorkerTypes' /\ CallFits' /\ faults' \in 0..MaxFaults
    BY <1>1, <1>2, RaiseStep, ReturnStep
  <1>4. HostTypes' /\ QueueTypes'
    <2>1. item.op \in {"claimed"} \cup Terminal
      BY <1>1, <1>2 DEF CallFits
    <2>2. events \in [Tasks -> SUBSET ({"claimed"} \cup Terminal)]
      BY <1>2 DEF TypeOK
    <2>3. events' \in [Tasks -> SUBSET ({"claimed"} \cup Terminal)]
      <3>1. events[t] \cup {item.op} \in SUBSET ({"claimed"} \cup Terminal)
        BY <1>2, <2>1, <2>2
      <3>2. QED
        BY <1>1, <1>2, <2>2, <3>1
    <2>4. QED
      BY <1>1, <1>2, <2>3 DEF TypeOK, HostTypes, QueueTypes
  <1>5. RunsKept
    BY <1>1, RunsUntouched
  <1>6. QED
    BY <1>1, <1>3, <1>4, <1>5, WorkerKeeps

\* An announced restart abandons what runs and leaves closed runs alone.
LEMMA AbandonedRuns ==
    ASSUME Inv, runs' = Abandoned, NEW t \in Tasks
    PROVE  /\ runs'[t] \in Seq(RunStatus) /\ DOMAIN runs'[t] = DOMAIN runs[t]
           /\ \A i \in DOMAIN runs[t] :
                 runs'[t][i] = IF runs[t][i] = "running" THEN "abandoned" ELSE runs[t][i]
  <1> DEFINE abandoned == [i \in DOMAIN runs[t] |->
                              IF runs[t][i] = "running" THEN "abandoned" ELSE runs[t][i]]
  <1>1. runs[t] \in Seq(RunStatus) /\ Len(runs[t]) \in Nat /\ DOMAIN runs[t] = 1..Len(runs[t])
    BY LenProperties DEF Inv, TypeOK, RunStatus
  <1>2. \A i \in 1..Len(runs[t]) : runs[t][i] \in RunStatus
    BY <1>1, ElementOfSeq
  <1>3. abandoned \in [1..Len(runs[t]) -> RunStatus]
    BY <1>1, <1>2 DEF RunStatus
  <1>4. abandoned \in Seq(RunStatus)
    BY <1>1, <1>3, SeqDef
  <1>5. runs'[t] = abandoned
    BY DEF Abandoned
  <1>6. QED
    BY <1>4, <1>5

LEMMA RunsAbandoned ==
    ASSUME Inv, runs' = Abandoned, run_id' = run_id
    PROVE  RunsKept
  <1>1. /\ run_id \in [Tasks -> Nat]
        /\ \A t \in Tasks : run_id[t] \in {0} \cup DOMAIN runs[t]
        /\ \A t \in Tasks : run_id[t] # 0 => runs[t][run_id[t]] \notin Terminal
    BY DEF Inv, TypeOK, RunIdsOpen
  <1>2. RunTypes'
    <2>1. runs' \in [Tasks -> Seq(RunStatus)]
      <3>1. runs' = [t \in Tasks |-> Abandoned[t]] /\ \A t \in Tasks : runs'[t] \in Seq(RunStatus)
        BY AbandonedRuns DEF Abandoned
      <3>2. QED
        BY <3>1
    <2>2. QED
      BY <1>1, <2>1, AbandonedRuns DEF RunTypes
  <1>3. RunIdsOpen'
    BY <1>1, AbandonedRuns DEF RunIdsOpen, Terminal
  <1>4. OutcomesKept
    BY AbandonedRuns DEF OutcomesKept, Terminal
  <1>5. QED
    BY <1>2, <1>3, <1>4 DEF RunsKept

LEMMA AbandonStep ==
    ASSUME Inv, AbandonRuns
    PROVE  Inv' /\ OutcomesKept
  <1>1. /\ at = "recovery" /\ at # "idle"
        /\ UNCHANGED <<driverVars, queue, run_id, mapped, missions, events, restarts, foreign,
                       disowned>>
        /\ unannounced' \in {FALSE, unannounced}
        /\ Raise \/ Return("idle")
        /\ runs' = runs \/ runs' = Abandoned
    BY DEF AbandonRuns
  <1>2. WorkerTypes' /\ CallFits' /\ faults' \in 0..MaxFaults
    BY <1>1, RaiseStep, ReturnStep DEF Inv
  <1>3. HostTypes' /\ QueueTypes'
    BY <1>1 DEF Inv, TypeOK, HostTypes, QueueTypes
  <1>4. RunsKept
    BY <1>1, RunsUntouched, RunsAbandoned
  <1>5. QED
    BY <1>1, <1>2, <1>3, <1>4, WorkerKeeps

\* The same at the host, on another process's word.
LEMMA ForeignStep ==
    ASSUME Inv, ForeignRecovery
    PROVE  Inv' /\ OutcomesKept
  <1>1. /\ UNCHANGED <<driverVars, stage, claims, booting, queue, item, at, attempt, run_id, mapped,
                       missions, events, faults, restarts>>
        /\ runs' = Abandoned /\ unannounced' = FALSE /\ disowned' = Claimed
        /\ foreign < MaxForeign /\ foreign' = foreign + 1
    BY DEF ForeignRecovery, driverVars, workerVars
  <1>2. DriverTypes' /\ QueueTypes' /\ WorkerTypes' /\ HostTypes' /\ CallFits'
    BY <1>1 DEF Inv, TypeOK, DriverTypes, QueueTypes, WorkerTypes, HostTypes, CallFits
  <1>3. BoundTypes' /\ HistoryTypes'
    <2>1. BoundTypes'
      BY <1>1, ProjectorAssumption DEF ProjectorAssumption, Inv, TypeOK, BoundTypes
    <2>2. Claimed' = Claimed
      BY <1>1 DEF Claimed
    <2>3. QED
      BY <1>1, <2>1, <2>2 DEF HistoryTypes
  <1>4. RunsKept
    BY <1>1, RunsAbandoned
  <1>5. QED
    BY <1>2, <1>3, <1>4, TypePartsNext DEF Inv, RunsKept

\* A new process has no queue, no item and no ids; the host is as it was.
LEMMA RestartStep ==
    ASSUME Inv, Restart
    PROVE  Inv' /\ OutcomesKept
  <1>1. /\ stage' = [t \in Tasks |-> IF stage[t] = "claimed" THEN "queued" ELSE stage[t]]
        /\ booting' = TRUE /\ queue' = <<>> /\ Finish
        /\ restarts < MaxRestarts /\ restarts' = restarts + 1
        /\ run_id' = [t \in Tasks |-> 0]
        /\ unannounced' = TRUE /\ disowned' = {}
        /\ UNCHANGED <<claims, mapped, missions, runs, events, faults, foreign>>
    BY DEF Restart, hostVars
  <1>2. DriverTypes' /\ HistoryTypes'
    BY <1>1 DEF Inv, TypeOK, DriverTypes, HistoryTypes
  <1>3. QueueTypes' /\ WorkerTypes' /\ CallFits'
    BY <1>1, ProjectorAssumption
    DEF ProjectorAssumption, QueueTypes, Finish, WorkerTypes, CallFits
  <1>4. HostTypes' /\ BoundTypes'
    BY <1>1, ProjectorAssumption
    DEF ProjectorAssumption, Inv, TypeOK, HostTypes, BoundTypes
  <1>5. RunsKept
    <2>1. run_id' \in [Tasks -> Nat] /\ \A t \in Tasks : run_id'[t] \in {0, run_id[t]}
      BY <1>1
    <2>2. QED
      BY <1>1, <2>1, IdsForgotten
  <1>6. QED
    BY <1>2, <1>3, <1>4, <1>5, TypePartsNext DEF Inv, RunsKept

\* Every step keeps the invariant and the outcomes.
LEMMA StepInv == Inv /\ [Next]_vars => Inv' /\ OutcomesKept
  <1> SUFFICES ASSUME Inv, [Next]_vars PROVE Inv' /\ OutcomesKept
    OBVIOUS
  <1>1. CASE Next
    BY <1>1, DriverStep, RecoveryStep, TakeStep, MissionStep, CreateStep, CloseStep, EventStep,
       AbandonStep, ForeignStep, RestartStep DEF Next, WorkerStep
  <1>2. CASE UNCHANGED vars
    <2>1. Producing /\ UNCHANGED <<stage, claims, booting, queue, disowned>>
      BY <1>2 DEF vars, driverVars, historyVars, Producing
    <2>2. DriverTypes' /\ QueueTypes' /\ disowned' \subseteq Claimed'
      BY <2>1 DEF Inv, TypeOK, DriverTypes, QueueTypes, Claimed
    <2>3. QED
      BY <2>1, <2>2, ProducerStep
  <1>3. QED
    BY <1>1, <1>2

LEMMA SpecInv == Spec => []Inv
  <1>1. Inv /\ [Next]_vars => Inv'
    BY StepInv
  <1>2. QED
    BY <1>1, InitInv, PTL DEF Spec

\* Queue, worker, ids and hosted missions keep to their types; the queue never
\* holds more than queue_maxsize items.
THEOREM ProjectorTypeCorrect == Spec => []TypeOK
  <1>1. Inv => TypeOK
    BY DEF Inv
  <1>2. QED
    BY <1>1, SpecInv, PTL

\* MissionProjector._handle: no retry of an item, no later attempt at a task
\* and no restart writes over the outcome of a hosted run.
THEOREM OutcomesStand == Spec => OutcomeIsFinal
  <1>1. Inv /\ [Next]_vars => [\A t \in Tasks : \A i \in DOMAIN runs[t] :
                                  runs[t][i] \in Terminal => runs'[t][i] = runs[t][i]]_vars
    BY StepInv DEF OutcomesKept
  <1>2. QED
    BY <1>1, SpecInv, PTL DEF Spec, OutcomeIsFinal

---------------------------------------------------------------------------
(* The panel mirrors the queue                                             *)

Open == {t \in Tasks : run_id[t] # 0}

\* Which tasks have an open run before and after an item is handled.
Effect(i, before, after) ==
    /\ i.op \in {"created", "restart_recovery"} => after = before
    /\ i.op = "claimed" => i.task \notin before /\ after = before \cup {i.task}
    /\ i.op \in Terminal => i.task \in before /\ after = before \ {i.task}

\* The outcome of a task waits in the queue at this place or behind it.
EndQueued(t, i) ==
    \E j \in 1..Len(queue) : j >= i /\ queue[j].op \in Terminal /\ queue[j].task = t
EndInHand(t) == at \in {"mission", "run"} /\ item.op \in Terminal /\ item.task = t

\* Handling what is queued, item by item, leads from the runs that are open to
\* the tasks that are claimed; S[i] are the open ones before the i-th item.
OpenTasks(S) ==
    /\ S \in Seq(SUBSET Tasks) /\ Len(S) = Len(queue) + 1
    /\ at \in {"mission", "run", "recovery"} => Effect(item, Open, S[1])
    /\ at \in {"idle", "event"} => S[1] = Open
    /\ \A i \in 1..Len(queue) : Effect(queue[i], S[i], S[i + 1])
    /\ S[Len(queue) + 1] = Claimed

\* A task with an open run is claimed or its outcome is still to be handled,
\* and a restart was announced over the claim of a run that it finds open.
Accounted(S) ==
    /\ \A i \in 1..(Len(queue) + 1) : \A t \in S[i] : t \in Claimed \/ EndQueued(t, i)
    /\ \A i \in 1..Len(queue) : queue[i].op = "restart_recovery" =>
          \A t \in S[i] : t \in disowned \/ EndQueued(t, i)

Mirrored(S) == OpenTasks(S) /\ Accounted(S)

\* A remembered run is running, or abandoned with its claim disowned, and
\* nothing else runs once the runs of earlier processes are abandoned.
RunsShown ==
    /\ at = "recovery" => \A t \in Open : t \in disowned \/ EndQueued(t, 1)
    /\ \A t \in Open : runs[t][run_id[t]] \in {"running", "abandoned"}
    /\ \A t \in Open : runs[t][run_id[t]] = "abandoned" =>
          t \in disowned \/ EndQueued(t, 1) \/ EndInHand(t)
    /\ ~unannounced =>
          \A t \in Tasks : \A i \in DOMAIN runs[t] : runs[t][i] = "running" => i = run_id[t]

MirrorInv == faults = 0 => RunsShown /\ \E S : Mirrored(S)

\* A checkpoint or the announcement of a restart is queued.
LEMMA QueuedMirrors ==
    ASSUME Inv, MirrorInv, Producing, Len(queue) < MaxQueue,
           NEW op, NEW t, [op |-> op, task |-> t] \in Item, Enqueue(op, t),
           op = "restart_recovery" => disowned' = Claimed,
           Claimed \ Claimed' \subseteq {t}, disowned \ disowned' \subseteq {t},
           op \in Terminal \/ (Claimed \subseteq Claimed' /\ disowned \subseteq disowned'),
           Effect([op |-> op, task |-> t], Claimed, Claimed')
    PROVE  MirrorInv'
  <1> SUFFICES ASSUME faults' = 0 PROVE RunsShown' /\ \E T : Mirrored(T)'
    BY DEF MirrorInv
  <1>1. UNCHANGED <<item, at, attempt, run_id, mapped, missions, runs, events, faults, restarts,
                    unannounced>>
    BY DEF Producing, workerVars, hostVars, boundVars
  <1>2. PICK e \in Item : e = [op |-> op, task |-> t]
    OBVIOUS
  <1>3. queue' = Append(queue, e) /\ e.op = op /\ e.task = t /\ Effect(e, Claimed, Claimed')
    BY <1>2 DEF Enqueue
  <1>4. queue \in Seq(Item)
    BY DEF Inv, TypeOK
  <1>5. /\ Len(queue) \in Nat /\ Len(queue') = Len(queue) + 1
        /\ \A i \in 1..Len(queue) : queue'[i] = queue[i]
        /\ queue'[Len(queue) + 1] = e
    BY <1>3, <1>4, AppendProperties, LenProperties
  <1>6. PICK S : OpenTasks(S) /\ Accounted(S)
    BY <1>1 DEF MirrorInv, Mirrored
  <1>7. PICK C \in SUBSET Tasks : C = Claimed'
    BY DEF Claimed
  <1>8. PICK T : T = Append(S, C)
    OBVIOUS
  <1>9. /\ S \in Seq(SUBSET Tasks) /\ Len(S) = Len(queue) + 1
        /\ T \in Seq(SUBSET Tasks) /\ Len(T) = Len(queue) + 2
        /\ \A i \in 1..(Len(queue) + 1) : T[i] = S[i]
        /\ T[Len(queue) + 2] = C
    <2>1. S \in Seq(SUBSET Tasks) /\ Len(S) = Len(queue) + 1
      BY <1>6 DEF OpenTasks
    <2>2. /\ T \in Seq(SUBSET Tasks) /\ Len(T) = Len(S) + 1
          /\ \A i \in 1..Len(S) : T[i] = S[i]
          /\ T[Len(S) + 1] = C
      BY <1>7, <1>8, <2>1, AppendProperties
    <2>3. QED
      BY <1>5, <2>1, <2>2
  <1>10. /\ \A u, i : EndQueued(u, i) => EndQueued(u, i)'
         /\ op \in Terminal => \A i \in 1..(Len(queue) + 1) : EndQueued(t, i)'
         /\ \A u : EndInHand(u)' = EndInHand(u)
    <2>1. ASSUME NEW u, NEW i, EndQueued(u, i) PROVE EndQueued(u, i)'
      <3>1. PICK j \in 1..Len(queue) : j >= i /\ queue[j].op \in Terminal /\ queue[j].task = u
        BY <2>1 DEF EndQueued
      <3>2. j \in 1..Len(queue') /\ queue'[j] = queue[j]
        BY <1>5
      <3>3. QED
        BY <3>1, <3>2 DEF EndQueued
    <2>2. ASSUME op \in Terminal, NEW i \in 1..(Len(queue) + 1) PROVE EndQueued(t, i)'
      <3>1. /\ Len(queue) + 1 \in 1..Len(queue') /\ Len(queue) + 1 >= i
            /\ queue'[Len(queue) + 1] = e
        BY <1>5
      <3>2. QED
        BY <1>3, <2>2, <3>1 DEF EndQueued
    <2>3. QED
      BY <1>1, <2>1, <2>2 DEF EndInHand
  <1>11. OpenTasks(T)'
    <2>1. Open' = Open
      BY <1>1 DEF Open
    <2>2. T[1] = S[1]
      BY <1>5, <1>9
    <2>3. ASSUME NEW i \in 1..Len(queue') PROVE Effect(queue'[i], T[i], T[i + 1])
      <3>1. CASE i = Len(queue) + 1
        <4>1. T[i] = Claimed /\ T[i + 1] = Claimed' /\ queue'[i] = e
          BY <1>5, <1>6, <1>7, <1>9, <3>1 DEF OpenTasks
        <4>2. QED
          BY <1>3, <4>1
      <3>2. CASE i # Len(queue) + 1
        <4>1. i \in 1..Len(queue) /\ T[i] = S[i] /\ T[i + 1] = S[i + 1] /\ queue'[i] = queue[i]
          BY <1>5, <1>9, <3>2
        <4>2. QED
          BY <1>6, <4>1 DEF OpenTasks
      <3>3. QED
        BY <3>1, <3>2
    <2>4. Len(T) = Len(queue') + 1 /\ T[Len(queue') + 1] = Claimed'
      BY <1>5, <1>7, <1>9
    <2>5. /\ at \in {"mission", "run", "recovery"} => Effect(item, Open, T[1])
          /\ at \in {"idle", "event"} => T[1] = Open
      BY <1>6, <2>2 DEF OpenTasks
    <2>6. /\ at' \in {"mission", "run", "recovery"} => Effect(item', Open', T[1])
          /\ at' \in {"idle", "event"} => T[1] = Open'
      BY <1>1, <2>1, <2>5
    <2>7. QED
      BY <1>9, <2>3, <2>4, <2>6 DEF OpenTasks
  <1>12. Accounted(T)'
    <2>1. ASSUME NEW i \in 1..(Len(queue') + 1), NEW u \in T[i]
          PROVE  u \in Claimed' \/ EndQueued(u, i)'
      <3>1. CASE i = Len(queue) + 2
        BY <1>7, <1>9, <2>1, <3>1
      <3>2. CASE i # Len(queue) + 2
        <4>1. i \in 1..(Len(queue) + 1) /\ u \in S[i]
          BY <1>5, <1>9, <2>1, <3>2
        <4>2. u \in Claimed \/ EndQueued(u, i)
          BY <1>6, <4>1 DEF Accounted
        <4>3. u \in Claimed \ Claimed' => u = t /\ op \in Terminal
          OBVIOUS
        <4>4. QED
          BY <1>10, <4>1, <4>2, <4>3
      <3>3. QED
        BY <3>1, <3>2
    <2>2. ASSUME NEW i \in 1..Len(queue'), queue'[i].op = "restart_recovery", NEW u \in T[i]
          PROVE  u \in disowned' \/ EndQueued(u, i)'
      <3>1. CASE i = Len(queue) + 1
        <4>1. op = "restart_recovery" /\ u \in Claimed
          BY <1>3, <1>5, <1>6, <1>9, <2>2, <3>1 DEF OpenTasks
        <4>2. QED
          BY <4>1
      <3>2. CASE i # Len(queue) + 1
        <4>1. i \in 1..Len(queue) /\ u \in S[i] /\ queue[i].op = "restart_recovery"
          BY <1>5, <1>9, <2>2, <3>2
        <4>2. u \in disowned \/ EndQueued(u, i)
          BY <1>6, <4>1 DEF Accounted
        <4>3. u \in disowned \ disowned' => u = t /\ op \in Terminal
          OBVIOUS
        <4>4. i \in 1..(Len(queue) + 1)
          BY <1>5, <4>1
        <4>5. QED
          BY <1>10, <4>2, <4>3, <4>4
      <3>3. QED
        BY <3>1, <3>2
    <2>3. QED
      BY <2>1, <2>2 DEF Accounted
  <1>13. RunsShown'
    <2>1. Open' = Open
      BY <1>1 DEF Open
    <2>2. \A u : u \in disowned \/ EndQueued(u, 1) => u \in disowned' \/ EndQueued(u, 1)'
      <3>1. 1 \in 1..(Len(queue) + 1)
        BY <1>5
      <3>2. \A u : u \in disowned \ disowned' => u = t /\ op \in Terminal
        OBVIOUS
      <3>3. QED
        BY <1>10, <3>1, <3>2
    <2>3. QED
      BY <1>1, <1>10, <2>1, <2>2 DEF MirrorInv, RunsShown
  <1>14. QED
    BY <1>11, <1>12, <1>13 DEF Mirrored

LEMMA DriverMirrors ==
    ASSUME Inv, MirrorInv, ~MayAbort, Len(queue) < MaxQueue,
           NEW t \in Tasks,
           \/ TaskCreated(t) \/ TaskClaimed(t) \/ TickAborts(t)
           \/ \E k \in Terminal : TaskEnded(t, k)
    PROVE  MirrorInv'
  <1>1. stage \in [Tasks -> {"new", "queued", "claimed", "closed"}]
    BY DEF Inv, TypeOK
  <1>2. CASE TaskCreated(t)
    <2>1. Claimed' = Claimed /\ [op |-> "created", task |-> t] \in Item
      BY <1>1, <1>2, ItemParts DEF TaskCreated, Claimed
    <2>2. Effect([op |-> "created", task |-> t], Claimed, Claimed')
      BY <2>1 DEF Effect, Terminal
    <2>3. disowned' = disowned /\ Producing /\ Enqueue("created", t)
      BY <1>2 DEF TaskCreated
    <2>4. QED
      BY <2>1, <2>2, <2>3, QueuedMirrors
  <1>3. CASE TaskClaimed(t)
    <2>1. /\ t \notin Claimed /\ Claimed' = Claimed \cup {t}
          /\ [op |-> "claimed", task |-> t] \in Item
      BY <1>1, <1>3, ItemParts DEF TaskClaimed, Claimed
    <2>2. Effect([op |-> "claimed", task |-> t], Claimed, Claimed')
      BY <2>1 DEF Effect, Terminal
    <2>3. disowned' = disowned /\ Producing /\ Enqueue("claimed", t)
      BY <1>3 DEF TaskClaimed
    <2>4. QED
      BY <2>1, <2>2, <2>3, QueuedMirrors
  <1>4. ASSUME NEW k \in Terminal, TaskEnded(t, k)
        PROVE  MirrorInv'
    <2>1. /\ t \in Claimed /\ Claimed' = Claimed \ {t}
          /\ [op |-> k, task |-> t] \in Item
      BY <1>1, <1>4, ItemParts DEF TaskEnded, Claimed
    <2>2. k # "restart_recovery" /\ k # "created" /\ k # "claimed"
      BY DEF Terminal
    <2>3. Effect([op |-> k, task |-> t], Claimed, Claimed')
      BY <2>1, <2>2 DEF Effect
    <2>4. disowned' = disowned \ {t} /\ Producing /\ Enqueue(k, t)
      BY <1>4 DEF TaskEnded
    <2>5. QED
      BY <2>1, <2>2, <2>3, <2>4, QueuedMirrors
  <1>5. QED
    BY <1>2, <1>3, <1>4 DEF TickAborts

LEMMA RecoveryMirrors ==
    ASSUME Inv, MirrorInv, Len(queue) < MaxQueue, RestartRecovery
    PROVE  MirrorInv'
  <1>1. /\ Claimed' = Claimed /\ disowned' = Claimed /\ disowned \subseteq Claimed
        /\ Producing /\ Enqueue("restart_recovery", NoTask)
        /\ [op |-> "restart_recovery", task |-> NoTask] \in Item
    BY ItemParts DEF RestartRecovery, Claimed, Inv, TypeOK
  <1>2. Effect([op |-> "restart_recovery", task |-> NoTask], Claimed, Claimed')
    BY <1>1 DEF Effect, Terminal
  <1>3. QED
    BY <1>1, <1>2, QueuedMirrors

\* The worker takes the first item, or drops it when there is nothing to do.
LEMMA TakeMirrors ==
    ASSUME Inv, MirrorInv, Take
    PROVE  MirrorInv'
  <1> SUFFICES ASSUME faults' = 0 PROVE RunsShown' /\ \E T : Mirrored(T)'
    BY DEF MirrorInv
  <1>1. /\ at = "idle" /\ queue # <<>> /\ queue' = Tail(queue)
        /\ UNCHANGED <<stage, run_id, mapped, runs, faults, unannounced, disowned>>
    BY DEF Take, driverVars, hostVars, boundVars, historyVars
  <1>2. PICK h \in Item : h = Head(queue)
    BY <1>1, HeadTailProperties DEF Inv, TypeOK
  <1>3. /\ Len(queue) \in Nat /\ Len(queue) # 0 /\ Len(queue') = Len(queue) - 1
        /\ \A i \in 1..Len(queue') : queue'[i] = queue[i + 1]
        /\ queue[1] = h
    <2>1. queue \in Seq(Item)
      BY DEF Inv, TypeOK
    <2>2. QED
      BY <1>1, <1>2, <2>1, HeadTailProperties, LenProperties, EmptySeq
  <1>4. PICK S : OpenTasks(S) /\ Accounted(S)
    BY <1>1 DEF MirrorInv, Mirrored
  <1>5. PICK T : T = Tail(S)
    OBVIOUS
  <1>6. /\ S \in Seq(SUBSET Tasks) /\ Len(S) = Len(queue) + 1
        /\ T \in Seq(SUBSET Tasks) /\ Len(T) = Len(queue)
        /\ \A i \in 1..Len(queue) : T[i] = S[i + 1]
    <2>1. S \in Seq(SUBSET Tasks) /\ Len(S) = Len(queue) + 1
      BY <1>4 DEF OpenTasks
    <2>2. S # <<>>
      BY <1>3, <2>1
    <2>3. /\ T \in Seq(SUBSET Tasks) /\ Len(T) = Len(S) - 1
          /\ \A i \in 1..Len(T) : T[i] = S[i + 1]
      BY <1>5, <2>1, <2>2, HeadTailProperties
    <2>4. QED
      BY <1>3, <2>1, <2>3
  <1>7. S[1] = Open /\ Effect(h, Open, T[1]) /\ Open' = Open /\ Claimed' = Claimed
    <2>1. Open' = Open /\ Claimed' = Claimed
      BY <1>1 DEF Open, Claimed
    <2>2. S[1] = Open
      BY <1>1, <1>4 DEF OpenTasks
    <2>3. 1 \in 1..Len(queue)
      BY <1>3
    <2>4. Effect(queue[1], S[1], S[1 + 1]) /\ T[1] = S[1 + 1]
      BY <1>4, <1>6, <2>3 DEF OpenTasks
    <2>5. QED
      BY <1>3, <2>1, <2>2, <2>4
  <1>8. \/ h.op = "created" /\ at' = "idle"
        \/ item' = h /\ at' = FirstCall(h) /\ at' \in {"mission", "run", "recovery"}
           /\ (h.op = "restart_recovery" => at' = "recovery")
    <2>1. CASE FirstCall(h) = "idle"
      BY <1>2, <2>1, FirstCallFits DEF Take, Finish
    <2>2. CASE FirstCall(h) # "idle"
      <3>1. item' = h /\ at' = FirstCall(h)
        BY <1>2, <2>2 DEF Take
      <3>2. h.op = "restart_recovery" => FirstCall(h) = "recovery"
        BY DEF FirstCall, Terminal
      <3>3. QED
        BY <2>2, <3>1, <3>2, FirstCallFits
    <2>3. QED
      BY <2>1, <2>2
  <1>9. OpenTasks(T)'
    <2>1. ASSUME NEW i \in 1..Len(queue') PROVE Effect(queue'[i], T[i], T[i + 1])
      <3>1. i + 1 \in 1..Len(queue) /\ i \in 1..Len(queue)
        BY <1>3
      <3>2. Effect(queue[i + 1], S[i + 1], S[i + 1 + 1])
        BY <1>4, <3>1 DEF OpenTasks
      <3>3. T[i] = S[i + 1] /\ T[i + 1] = S[i + 1 + 1] /\ queue'[i] = queue[i + 1]
        BY <1>3, <1>6, <3>1
      <3>4. QED
        BY <3>2, <3>3
    <2>2. Len(T) = Len(queue') + 1 /\ T[Len(queue') + 1] = Claimed'
      <3>1. T[Len(queue)] = S[Len(queue) + 1]
        BY <1>3, <1>6
      <3>2. QED
        BY <1>3, <1>4, <1>6, <1>7, <3>1 DEF OpenTasks
    <2>3. /\ at' \in {"mission", "run", "recovery"} => Effect(item', Open', T[1])
          /\ at' \in {"idle", "event"} => T[1] = Open'
      <3>1. CASE h.op = "created" /\ at' = "idle"
        BY <1>7, <3>1 DEF Effect
      <3>2. CASE item' = h /\ at' \in {"mission", "run", "recovery"}
        BY <1>7, <3>2
      <3>3. QED
        BY <1>8, <3>1, <3>2
    <2>4. QED
      BY <1>6, <2>1, <2>2, <2>3 DEF OpenTasks
  <1>10. /\ \A u : \A i \in 2..(Len(queue) + 1) : EndQueued(u, i) => EndQueued(u, i - 1)'
         /\ \A u : EndQueued(u, 1) => EndQueued(u, 1)' \/ EndInHand(u)'
         /\ h.op \notin Terminal => \A u : EndQueued(u, 1) => EndQueued(u, 1)'
    <2>1. ASSUME NEW u, NEW i \in 1..(Len(queue) + 1), EndQueued(u, i)
          PROVE  \/ i # 1 /\ EndQueued(u, i - 1)'
                 \/ i = 1 /\ EndQueued(u, 1)'
                 \/ i = 1 /\ h.op \in Terminal /\ h.task = u
      <3>1. PICK j \in 1..Len(queue) : j >= i /\ queue[j].op \in Terminal /\ queue[j].task = u
        BY <2>1 DEF EndQueued
      <3>2. CASE j = 1
        BY <1>3, <3>1, <3>2
      <3>3. CASE j # 1
        <4>1. j - 1 \in 1..Len(queue') /\ j - 1 + 1 = j /\ j - 1 >= 1 /\ j - 1 >= i - 1
          BY <1>3, <3>1, <3>3
        <4>2. queue'[j - 1] = queue[j]
          BY <1>3, <4>1
        <4>3. EndQueued(u, i - 1)' /\ EndQueued(u, 1)'
          BY <3>1, <4>1, <4>2 DEF EndQueued
        <4>4. QED
          BY <4>3
      <3>4. QED
        BY <3>2, <3>3
    <2>2. h.op \in Terminal => item' = h /\ at' \in {"mission", "run"}
      <3>1. h.op \in Terminal => at' # "recovery" /\ h.op # "created"
        <4>1. h.op \in Terminal => FirstCall(h) # "recovery" /\ h.op # "created"
          BY <1>2, FirstCallFits DEF Terminal
        <4>2. QED
          BY <1>8, <4>1
      <3>2. QED
        BY <1>8, <3>1
    <2>3. 1 \in 1..(Len(queue) + 1) /\ \A i \in 2..(Len(queue) + 1) : i \in 1..(Len(queue) + 1) /\ i # 1
      BY <1>3
    <2>4. QED
      BY <2>1, <2>2, <2>3 DEF EndInHand
  <1>11. Accounted(T)'
    <2>1. ASSUME NEW i \in 1..(Len(queue') + 1), NEW u \in T[i]
          PROVE  u \in Claimed' \/ EndQueued(u, i)'
      <3>1. /\ i \in 1..Len(queue) /\ i + 1 \in 2..(Len(queue) + 1) /\ i + 1 - 1 = i
            /\ i + 1 \in 1..(Len(queue) + 1)
        BY <1>3
      <3>2. u \in S[i + 1]
        BY <1>6, <2>1, <3>1
      <3>3. u \in Claimed \/ EndQueued(u, i + 1)
        BY <1>4, <3>1, <3>2 DEF Accounted
      <3>4. EndQueued(u, i + 1) => EndQueued(u, i + 1 - 1)'
        BY <1>10, <3>1
      <3>5. QED
        BY <1>7, <3>1, <3>3, <3>4
    <2>2. ASSUME NEW i \in 1..Len(queue'), queue'[i].op = "restart_recovery", NEW u \in T[i]
          PROVE  u \in disowned' \/ EndQueued(u, i)'
      <3>1. /\ i \in 1..Len(queue) /\ i + 1 \in 2..(Len(queue) + 1) /\ i + 1 - 1 = i
            /\ i + 1 \in 1..Len(queue)
        BY <1>3
      <3>2. u \in S[i + 1] /\ queue[i + 1].op = "restart_recovery"
        BY <1>3, <1>6, <2>2, <3>1
      <3>3. u \in disowned \/ EndQueued(u, i + 1)
        BY <1>4, <3>1, <3>2 DEF Accounted
      <3>4. EndQueued(u, i + 1) => EndQueued(u, i + 1 - 1)'
        BY <1>10, <3>1
      <3>5. QED
        BY <1>1, <3>1, <3>3, <3>4
    <2>3. QED
      BY <2>1, <2>2 DEF Accounted
  <1>12. RunsShown'
    <2>1. ASSUME at' = "recovery", NEW u \in Open PROVE u \in disowned' \/ EndQueued(u, 1)'
      <3>1. h.op = "restart_recovery"
        BY <1>2, <1>8, <2>1, FirstCallFits
      <3>2. u \in disowned \/ EndQueued(u, 1)
        <4>1. 1 \in 1..Len(queue) /\ u \in S[1]
          BY <1>3, <1>7, <2>1
        <4>2. QED
          BY <1>3, <1>4, <3>1, <4>1 DEF Accounted
      <3>3. QED
        BY <1>1, <1>10, <3>1, <3>2 DEF Terminal
    <2>2. \A u : ~EndInHand(u)
      BY <1>1 DEF EndInHand
    <2>3. QED
      BY <1>1, <1>7, <1>10, <2>1, <2>2 DEF MirrorInv, RunsShown
  <1>13. QED
    BY <1>9, <1>11, <1>12 DEF Mirrored

\* A call that leaves queue and task table alone.
LEMMA CallMirrors ==
    ASSUME NEW S, Mirrored(S), UNCHANGED <<queue, stage, disowned>>,
           at' \in {"mission", "run", "recovery"} => Effect(item', Open', S[1]),
           at' \in {"idle", "event"} => S[1] = Open'
    PROVE  /\ Mirrored(S)'
           /\ \A u, i : EndQueued(u, i)' <=> EndQueued(u, i)
  <1>1. Claimed' = Claimed
    BY DEF Claimed
  <1>2. \A u, i : EndQueued(u, i)' <=> EndQueued(u, i)
    BY DEF EndQueued
  <1>3. OpenTasks(S)'
    BY <1>1 DEF Mirrored, OpenTasks
  <1>4. Accounted(S)'
    BY <1>1, <1>2 DEF Mirrored, Accounted
  <1>5. QED
    BY <1>2, <1>3, <1>4 DEF Mirrored

\* Calls that do not concern a run.
LEMMA MissionMirrors ==
    ASSUME Inv, MirrorInv, EnsureMission \/ AppendEvent
    PROVE  MirrorInv'
  <1> SUFFICES ASSUME faults' = 0 PROVE RunsShown' /\ \E T : Mirrored(T)'
    BY DEF MirrorInv
  <1>1. faults \in Nat
    BY DEF Inv, TypeOK
  <1>2. /\ UNCHANGED <<stage, queue, run_id, runs, unannounced, disowned>>
        /\ \/ at = "mission" /\ Return(IF item.op = "created" THEN "idle" ELSE "run")
           \/ at = "event" /\ Return("idle")
    BY <1>1 DEF EnsureMission, AppendEvent, Raise, driverVars, historyVars
  <1>3. /\ faults = 0 /\ Open' = Open /\ at # "recovery"
        /\ \/ at = "mission" /\ item.op = "created" /\ at' = "idle"
           \/ at = "mission" /\ item' = item /\ at' = "run"
           \/ at = "event" /\ at' = "idle"
    BY <1>2 DEF Return, Finish, Open
  <1>4. PICK S : Mirrored(S) /\ OpenTasks(S)
    BY <1>3 DEF MirrorInv, Mirrored
  <1>5. /\ at' \in {"mission", "run", "recovery"} => Effect(item', Open', S[1])
        /\ at' \in {"idle", "event"} => S[1] = Open'
    <2>1. CASE at = "mission" /\ item.op = "created" /\ at' = "idle"
      BY <1>3, <1>4, <2>1 DEF OpenTasks, Effect
    <2>2. CASE at = "mission" /\ item' = item /\ at' = "run"
      BY <1>3, <1>4, <2>2 DEF OpenTasks
    <2>3. CASE at = "event" /\ at' = "idle"
      BY <1>3, <1>4, <2>3 DEF OpenTasks
    <2>4. QED
      BY <1>3, <2>1, <2>2, <2>3
  <1>6. Mirrored(S)' /\ \A u, i : EndQueued(u, i)' <=> EndQueued(u, i)
    BY <1>2, <1>4, <1>5, CallMirrors
  <1>7. RunsShown'
    <2>1. \A u : EndInHand(u) => EndInHand(u)'
      BY <1>3 DEF EndInHand, Terminal
    <2>2. QED
      BY <1>2, <1>3, <1>6, <2>1 DEF MirrorInv, RunsShown
  <1>8. QED
    BY <1>6, <1>7

\* A claimed checkpoint opens the task's only running run.
LEMMA CreateMirrors ==
    ASSUME Inv, MirrorInv, CreateRun
    PROVE  MirrorInv'
  <1> DEFINE t == item.task
  <1> SUFFICES ASSUME faults' = 0 PROVE RunsShown' /\ \E T : Mirrored(T)'
    BY DEF MirrorInv
  <1>1. /\ faults \in Nat /\ runs \in [Tasks -> Seq(RunStatus)] /\ run_id \in [Tasks -> Nat]
        /\ \A u \in Tasks : run_id[u] \in {0} \cup DOMAIN runs[u]
    BY DEF Inv, TypeOK, RunStatus, RunIdsOpen
  <1>2. /\ at = "run" /\ item.op = "claimed" /\ Return("event")
        /\ runs' = [runs EXCEPT ![t] = Append(runs[t], "running")]
        /\ run_id' = [run_id EXCEPT ![t] = Len(runs[t]) + 1]
        /\ UNCHANGED <<stage, queue, unannounced, disowned>>
    BY <1>1 DEF CreateRun, Raise, driverVars, historyVars
  <1>3. at' = "event" /\ faults = 0 /\ t \in Tasks
    BY <1>2, CallTask DEF Return
  <1>4. PICK S : Mirrored(S) /\ OpenTasks(S)
    BY <1>3 DEF MirrorInv, Mirrored
  <1>5. t \notin Open /\ S[1] = Open \cup {t}
    BY <1>2, <1>4 DEF OpenTasks, Effect
  <1>6. PICK list : list = Append(runs[t], "running")
    OBVIOUS
  <1>7. /\ Len(runs[t]) \in Nat /\ DOMAIN runs[t] = 1..Len(runs[t])
        /\ DOMAIN list = 1..(Len(runs[t]) + 1)
        /\ \A i \in 1..Len(runs[t]) : list[i] = runs[t][i]
        /\ list[Len(runs[t]) + 1] = "running"
    <2>1. runs[t] \in Seq(RunStatus) /\ "running" \in RunStatus
      BY <1>1, <1>3 DEF RunStatus
    <2>2. /\ list \in Seq(RunStatus) /\ Len(list) = Len(runs[t]) + 1 /\ Len(runs[t]) \in Nat
          /\ \A i \in 1..Len(runs[t]) : list[i] = runs[t][i]
          /\ list[Len(runs[t]) + 1] = "running"
      BY <1>6, <2>1, AppendProperties, LenProperties
    <2>3. QED
      BY <2>1, <2>2, LenProperties
  <1>8. /\ runs'[t] = list /\ \A u \in Tasks \ {t} : runs'[u] = runs[u]
        /\ run_id'[t] = Len(runs[t]) + 1 /\ \A u \in Tasks \ {t} : run_id'[u] = run_id[u]
    BY <1>1, <1>2, <1>3, <1>6
  <1>9. Open' = Open \cup {t}
    BY <1>3, <1>7, <1>8 DEF Open
  <1>10. Mirrored(S)' /\ \A u, i : EndQueued(u, i)' <=> EndQueued(u, i)
    BY <1>2, <1>3, <1>4, <1>5, <1>9, CallMirrors
  <1>11. RunsShown'
    <2>1. runs'[t][run_id'[t]] = "running"
      BY <1>7, <1>8
    <2>2. \A u : ~EndInHand(u)
      BY <1>2 DEF EndInHand, Terminal
    <2>3. ASSUME NEW u \in Open'
          PROVE  /\ runs'[u][run_id'[u]] \in {"running", "abandoned"}
                 /\ runs'[u][run_id'[u]] = "abandoned" => u \in disowned' \/ EndQueued(u, 1)'
      <3>1. CASE u = t
        BY <2>1, <3>1
      <3>2. CASE u # t
        <4>1. u \in Open /\ runs'[u][run_id'[u]] = runs[u][run_id[u]]
          BY <1>8, <1>9, <2>3, <3>2 DEF Open
        <4>2. QED
          BY <1>2, <1>3, <1>10, <2>2, <4>1 DEF MirrorInv, RunsShown
      <3>3. QED
        BY <3>1, <3>2
    <2>4. ASSUME ~unannounced, NEW u \in Tasks, NEW i \in DOMAIN runs'[u], runs'[u][i] = "running"
          PROVE  i = run_id'[u]
      <3>1. \A j \in DOMAIN runs[u] : runs[u][j] = "running" => j = run_id[u]
        BY <1>3, <2>4 DEF MirrorInv, RunsShown
      <3>2. CASE u # t
        BY <1>8, <2>4, <3>1, <3>2
      <3>3. CASE u = t
        <4>1. run_id[t] = 0
          BY <1>3, <1>5 DEF Open
        <4>2. CASE i = Len(runs[t]) + 1
          BY <1>8, <3>3, <4>2
        <4>3. CASE i # Len(runs[t]) + 1
          <5>1. i \in 1..Len(runs[t])
            BY <1>7, <1>8, <2>4, <3>3, <4>3
          <5>2. QED
            BY <1>7, <1>8, <2>4, <3>1, <3>3, <4>1, <5>1
        <4>4. QED
          BY <4>2, <4>3
      <3>4. QED
        BY <3>2, <3>3
    <2>5. QED
      BY <1>2, <1>3, <2>3, <2>4 DEF RunsShown
  <1>12. QED
    BY <1>10, <1>11

\* A terminal checkpoint closes it.
LEMMA CloseMirrors ==
    ASSUME Inv, MirrorInv, CloseRun
    PROVE  MirrorInv'
  <1> DEFINE t == item.task
  <1> SUFFICES ASSUME faults' = 0 PROVE RunsShown' /\ \E T : Mirrored(T)'
    BY DEF MirrorInv
  <1>1. /\ faults \in Nat /\ runs \in [Tasks -> Seq(RunStatus)] /\ run_id \in [Tasks -> Nat]
        /\ \A u \in Tasks : run_id[u] \in {0} \cup DOMAIN runs[u]
    BY DEF Inv, TypeOK, RunStatus, RunIdsOpen
  <1>2. /\ at = "run" /\ item.op \in Terminal /\ Return("event")
        /\ run_id' = [run_id EXCEPT ![t] = 0]
        /\ run_id[t] # 0 => runs' = [runs EXCEPT ![t] = [runs[t] EXCEPT ![run_id[t]] = item.op]]
        /\ UNCHANGED <<stage, queue, unannounced, disowned>>
    BY <1>1 DEF CloseRun, Raise, driverVars, historyVars
  <1>3. at' = "event" /\ faults = 0 /\ t \in Tasks
    BY <1>2, CallTask DEF Return
  <1>4. PICK S : Mirrored(S) /\ OpenTasks(S)
    BY <1>3 DEF MirrorInv, Mirrored
  <1>5. t \in Open /\ S[1] = Open \ {t}
    BY <1>2, <1>4 DEF OpenTasks, Effect
  <1>6. /\ runs'[t] = [runs[t] EXCEPT ![run_id[t]] = item.op]
        /\ \A u \in Tasks \ {t} : runs'[u] = runs[u]
        /\ run_id'[t] = 0 /\ \A u \in Tasks \ {t} : run_id'[u] = run_id[u]
    BY <1>1, <1>2, <1>3, <1>5 DEF Open
  <1>7. Open' = Open \ {t}
    BY <1>3, <1>6 DEF Open
  <1>8. Mirrored(S)' /\ \A u, i : EndQueued(u, i)' <=> EndQueued(u, i)
    BY <1>2, <1>3, <1>4, <1>5, <1>7, CallMirrors
  <1>9. /\ DOMAIN runs'[t] = DOMAIN runs[t]
        /\ \A i \in DOMAIN runs[t] : runs'[t][i] = IF i = run_id[t] THEN item.op ELSE runs[t][i]
    <2>1. runs[t] \in Seq(RunStatus)
      BY <1>1, <1>3
    <2>2. runs[t] \in [1..Len(runs[t]) -> RunStatus]
      BY <2>1, LenProperties
    <2>3. QED
      BY <1>6, <2>2
  <1>10. RunsShown'
    <2>1. ASSUME NEW u \in Open'
          PROVE  /\ runs'[u][run_id'[u]] \in {"running", "abandoned"}
                 /\ runs'[u][run_id'[u]] = "abandoned" => u \in disowned' \/ EndQueued(u, 1)'
      <3>1. u \in Open /\ u # t
        BY <1>7, <2>1
      <3>2. runs'[u][run_id'[u]] = runs[u][run_id[u]]
        BY <1>6, <3>1 DEF Open
      <3>3. ~EndInHand(u)
        BY <3>1 DEF EndInHand
      <3>4. QED
        BY <1>2, <1>3, <1>8, <3>1, <3>2, <3>3 DEF MirrorInv, RunsShown
    <2>2. ASSUME ~unannounced, NEW u \in Tasks, NEW i \in DOMAIN runs'[u], runs'[u][i] = "running"
          PROVE  i = run_id'[u]
      <3>1. \A j \in DOMAIN runs[u] : runs[u][j] = "running" => j = run_id[u]
        BY <1>3, <2>2 DEF MirrorInv, RunsShown
      <3>2. CASE u # t
        BY <1>6, <2>2, <3>1, <3>2
      <3>3. CASE u = t
        <4>1. item.op # "running"
          BY <1>2 DEF Terminal
        <4>2. QED
          BY <1>9, <2>2, <3>1, <3>3, <4>1
      <3>4. QED
        BY <3>2, <3>3
    <2>3. QED
      BY <1>2, <1>3, <2>1, <2>2 DEF RunsShown
  <1>11. QED
    BY <1>8, <1>10

\* Once an announced restart reaches the host nothing runs there.
LEMMA NothingRuns ==
    ASSUME Inv, runs' = Abandoned, run_id' = run_id
    PROVE  /\ \A t \in Tasks : \A i \in DOMAIN runs'[t] : runs'[t][i] # "running"
           /\ \A t \in Open : runs[t][run_id[t]] \in {"running", "abandoned"}
                 => runs'[t][run_id'[t]] = "abandoned"
  <1>1. ASSUME NEW t \in Tasks, NEW i \in DOMAIN runs'[t] PROVE runs'[t][i] # "running"
    <2>1. i \in DOMAIN runs[t]
          /\ runs'[t][i] = IF runs[t][i] = "running" THEN "abandoned" ELSE runs[t][i]
      BY <1>1, AbandonedRuns
    <2>2. QED
      BY <2>1
  <1>2. ASSUME NEW t \in Open, runs[t][run_id[t]] \in {"running", "abandoned"}
        PROVE  runs'[t][run_id'[t]] = "abandoned"
    <2>1. t \in Tasks /\ run_id[t] \in DOMAIN runs[t]
      BY DEF Inv, TypeOK, Open
    <2>2. QED
      BY <1>2, <2>1, AbandonedRuns
  <1>3. QED
    BY <1>1, <1>2

\* When the announced restart is handled every open run of this process is of
\* a claim it was announced over, or about to be closed.
LEMMA AbandonMirrors ==
    ASSUME Inv, MirrorInv, AbandonRuns
    PROVE  MirrorInv'
  <1> SUFFICES ASSUME faults' = 0 PROVE RunsShown' /\ \E T : Mirrored(T)'
    BY DEF MirrorInv
  <1>1. faults \in Nat
    BY DEF Inv, TypeOK
  <1>2. /\ at = "recovery" /\ Return("idle") /\ runs' = Abandoned
        /\ UNCHANGED <<stage, queue, run_id, disowned>>
    BY <1>1 DEF AbandonRuns, Raise, driverVars
  <1>3. at' = "idle" /\ faults = 0 /\ item.op = "restart_recovery" /\ Open' = Open
    BY <1>2 DEF Return, Finish, Inv, CallFits, Open
  <1>4. PICK S : Mirrored(S) /\ OpenTasks(S)
    BY <1>3 DEF MirrorInv, Mirrored
  <1>5. S[1] = Open
    BY <1>2, <1>3, <1>4 DEF OpenTasks, Effect
  <1>6. Mirrored(S)' /\ \A u, i : EndQueued(u, i)' <=> EndQueued(u, i)
    BY <1>2, <1>3, <1>4, <1>5, CallMirrors
  <1>7. RunsShown'
    BY <1>2, <1>3, <1>6, NothingRuns DEF MirrorInv, RunsShown
  <1>8. QED
    BY <1>6, <1>7

\* Another process's announcement finds the open runs accounted for.
LEMMA ForeignMirrors ==
    ASSUME Inv, MirrorInv, ForeignRecovery
    PROVE  MirrorInv'
  <1> SUFFICES ASSUME faults' = 0 PROVE RunsShown' /\ \E T : Mirrored(T)'
    BY DEF MirrorInv
  <1>1. /\ UNCHANGED <<stage, queue, item, at, run_id, faults>>
        /\ runs' = Abandoned /\ disowned' = Claimed
    BY DEF ForeignRecovery, driverVars, workerVars
  <1>2. Open' = Open /\ Claimed' = Claimed /\ faults = 0 /\ disowned \subseteq Claimed
    BY <1>1 DEF Open, Claimed, Inv, TypeOK
  <1>3. PICK S : Mirrored(S) /\ OpenTasks(S) /\ Accounted(S)
    BY <1>2 DEF MirrorInv, Mirrored
  <1>4. /\ \A u, i : EndQueued(u, i)' <=> EndQueued(u, i)
        /\ \A u : EndInHand(u)' <=> EndInHand(u)
    BY <1>1 DEF EndQueued, EndInHand
  <1>5. Mirrored(S)'
    <2>1. OpenTasks(S)'
      BY <1>1, <1>2, <1>3 DEF OpenTasks
    <2>2. Accounted(S)'
      BY <1>1, <1>2, <1>3, <1>4 DEF Accounted
    <2>3. QED
      BY <2>1, <2>2 DEF Mirrored
  <1>6. ASSUME NEW t \in Open
        PROVE  t \in Claimed \/ EndQueued(t, 1) \/ EndInHand(t)
    <2>1. 1 \in 1..(Len(queue) + 1)
      BY LenProperties DEF Inv, TypeOK
    <2>2. \A u \in S[1] : u \in Claimed \/ EndQueued(u, 1)
      BY <1>3, <2>1 DEF Accounted
    <2>3. t \in S[1] \/ EndInHand(t)
      <3>1. CASE at \in {"idle", "event"}
        BY <1>3, <3>1 DEF OpenTasks
      <3>2. CASE at \in {"mission", "run", "recovery"}
        <4>1. Effect(item, Open, S[1])
          BY <1>3, <3>2 DEF OpenTasks
        <4>2. item \in Item
          BY <3>2 DEF Inv, TypeOK
        <4>3. CASE item.op \in Terminal
          <5>1. at # "recovery"
            BY <4>3 DEF Inv, CallFits, Terminal
          <5>2. QED
            BY <3>2, <4>1, <4>3, <5>1 DEF Effect, EndInHand
        <4>4. CASE item.op \in {"created", "claimed", "restart_recovery"}
          BY <4>1, <4>4 DEF Effect
        <4>5. QED
          BY <4>2, <4>3, <4>4, ItemParts
      <3>3. QED
        BY <3>1, <3>2 DEF Inv, TypeOK
    <2>4. QED
      BY <2>2, <2>3
  <1>7. RunsShown'
    <2>1. at = "recovery" => \A t \in Open : t \in disowned' \/ EndQueued(t, 1)
      BY <1>1, <1>2 DEF MirrorInv, RunsShown
    <2>2. QED
      BY <1>1, <1>2, <1>4, <1>6, <2>1, NothingRuns DEF MirrorInv, RunsShown
  <1>8. QED
    BY <1>5, <1>7

\* A new process starts with an empty queue and no claimed task.
LEMMA RestartMirrors ==
    ASSUME Inv, MirrorInv, Restart
    PROVE  MirrorInv'
  <1>1. /\ unannounced' = TRUE /\ queue' = <<>> /\ at' = "idle"
        /\ \A t \in Tasks : run_id'[t] = 0 /\ stage'[t] # "claimed"
    BY DEF Restart, Finish
  <1>2. Open' = {} /\ Claimed' = {}
    BY <1>1 DEF Open, Claimed
  <1>3. RunsShown'
    BY <1>1, <1>2 DEF RunsShown
  <1>4. PICK S : S = <<{}>>
    OBVIOUS
  <1>5. Mirrored(S)'
    <2>1. OpenTasks(S)'
      BY <1>1, <1>2, <1>4 DEF OpenTasks
    <2>2. Accounted(S)'
      BY <1>1, <1>4 DEF Accounted
    <2>3. QED
      BY <2>1, <2>2 DEF Mirrored
  <1>6. QED
    BY <1>3, <1>5 DEF MirrorInv

LEMMA InitMirrors == Init => MirrorInv
  <1> SUFFICES ASSUME Init PROVE MirrorInv
    OBVIOUS
  <1>1. Open = {} /\ Claimed = {} /\ queue = <<>> /\ at = "idle"
    BY DEF Init, Open, Claimed
  <1>2. RunsShown
    BY <1>1 DEF RunsShown, Init
  <1>3. PICK S : S = <<{}>>
    OBVIOUS
  <1>4. Mirrored(S)
    <2>1. OpenTasks(S)
      BY <1>1, <1>3 DEF OpenTasks
    <2>2. Accounted(S)
      BY <1>1, <1>3 DEF Accounted
    <2>3. QED
      BY <2>1, <2>2 DEF Mirrored
  <1>5. QED
    BY <1>2, <1>4 DEF MirrorInv

LEMMA StepMirrors ==
    ~MayAbort /\ Len(queue) < MaxQueue /\ Inv /\ MirrorInv /\ [Next]_vars => MirrorInv'
  <1> SUFFICES ASSUME ~MayAbort, Len(queue) < MaxQueue, Inv, MirrorInv, [Next]_vars
               PROVE  MirrorInv'
    OBVIOUS
  <1>1. CASE Next
    BY <1>1, DriverMirrors, RecoveryMirrors, TakeMirrors, MissionMirrors, CreateMirrors,
       CloseMirrors, AbandonMirrors, ForeignMirrors, RestartMirrors DEF Next, WorkerStep
  <1>2. CASE UNCHANGED vars
    <2>1. UNCHANGED <<stage, queue, item, at, run_id, runs, faults, unannounced, disowned>>
      BY <1>2 DEF vars, driverVars, workerVars, hostVars, boundVars, historyVars
    <2>2. Open' = Open /\ Claimed' = Claimed
      BY <2>1 DEF Open, Claimed
    <2>3. /\ \A u, i : EndQueued(u, i)' <=> EndQueued(u, i)
          /\ \A u : EndInHand(u)' <=> EndInHand(u)
      BY <2>1 DEF EndQueued, EndInHand
    <2>4. RunsShown => RunsShown'
      BY <2>1, <2>2, <2>3 DEF RunsShown
    <2>5. ASSUME NEW S, Mirrored(S) PROVE Mirrored(S)'
      <3>1. OpenTasks(S)'
        BY <2>1, <2>2, <2>5 DEF Mirrored, OpenTasks
      <3>2. Accounted(S)'
        BY <2>1, <2>2, <2>3, <2>5 DEF Mirrored, Accounted
      <3>3. QED
        BY <3>1, <3>2 DEF Mirrored
    <2>6. QED
      BY <2>1, <2>4, <2>5 DEF MirrorInv
  <1>3. QED
    BY <1>1, <1>2

\* MissionProjector and StartupRecoverySweep.run: while no call fails, no tick
\* of this process is abandoned and the queue never fills up, a drained panel
\* shows one running run for each claimed task and none for any other, but for
\* the claims a restart was announced over, by this process or by another.
THEOREM QuietPanelMirrorsQueue ==
    ASSUME ~MayAbort
    PROVE  Spec /\ [](Len(queue) < MaxQueue) => []PanelMirrorsQueue
  <1>1. Inv /\ MirrorInv => PanelMirrorsQueue
    <2> SUFFICES ASSUME Inv, MirrorInv, Quiet, faults = 0, NEW t \in Tasks,
                        NEW running, running = {i \in DOMAIN runs[t] : runs[t][i] = "running"}
                 PROVE  /\ running # {} => t \in Claimed
                        /\ t \in Claimed \ disowned => running # {}
                        /\ \A i, j \in running : i = j
      BY DEF PanelMirrorsQueue
    <2>1. at = "idle" /\ queue = <<>> /\ ~unannounced /\ Len(queue) = 0
      BY DEF Quiet
    <2>2. Open = Claimed
      BY <2>1 DEF MirrorInv, Mirrored, OpenTasks
    <2>3. \A i \in running : i \in DOMAIN runs[t] /\ i = run_id[t]
      BY <2>1 DEF MirrorInv, RunsShown
    <2>4. running # {} => t \in Claimed
      <3>1. DOMAIN runs[t] = 1..Len(runs[t]) /\ Len(runs[t]) \in Nat
        BY LenProperties DEF Inv, TypeOK
      <3>2. \A i \in running : i # 0
        BY <2>3, <3>1
      <3>3. QED
        BY <2>2, <2>3, <3>2 DEF Open
    <2>5. ASSUME t \in Claimed \ disowned PROVE running # {}
      <3>1. t \in Open /\ run_id[t] \in DOMAIN runs[t]
        BY <2>2, <2>5 DEF Inv, TypeOK, Open
      <3>2. ~EndQueued(t, 1) /\ ~EndInHand(t)
        BY <2>1 DEF EndQueued, EndInHand
      <3>3. runs[t][run_id[t]] = "running"
        BY <2>5, <3>1, <3>2 DEF MirrorInv, RunsShown
      <3>4. QED
        BY <3>1, <3>3
    <2>6. QED
      BY <2>3, <2>4, <2>5
  <1>2. Len(queue) < MaxQueue /\ Inv /\ MirrorInv /\ [Next]_vars => MirrorInv'
    BY StepMirrors
  <1>3. QED
    BY <1>1, <1>2, InitMirrors, SpecInv, PTL DEF Spec
=============================================================================
