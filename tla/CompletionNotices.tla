-------------------------- MODULE CompletionNotices --------------------------
(***************************************************************************)
(* The two ways the end of a background task becomes known: the note the   *)
(* injecting runner leaves in the session's in-memory buffer, which the    *)
(* next chat turn folds into its prompt, and the notifier that tails the   *)
(* terminal events of the work queue.                                      *)
(*                                                                         *)
(* Three threads of one server process interleave: the dispatcher tick     *)
(* (asyncio.to_thread), the event loop that assembles prompts, and the     *)
(* notifier's poll (asyncio.to_thread).  One session; its tasks have a     *)
(* session id and the consumer flag is on.  The claim protocol itself is   *)
(* the subject of WorkQueue: here one dispatcher claims a ready task.      *)
(***************************************************************************)
EXTENDS Naturals, Sequences, FiniteSets, FiniteSetsExt

CONSTANTS
    Tasks,
    GoalTasks,      \* tasks with goal_mode
    Rank,           \* place of a task in the order of ready_tasks
    MaxTurns,       \* goal_max_turns
    FailureLimit,   \* max_retries of a task: failures before it is blocked
    BatchLimit,     \* events of one poll
    MaxFaults,      \* bound on process restarts and dropped ticks
    MaxDrains,      \* bound on the lists a process drains
    None

ASSUME NoticesAssumption ==
    /\ GoalTasks \subseteq Tasks
    /\ Rank \in [Tasks -> Nat]
    /\ MaxTurns \in Nat \ {0}
    /\ FailureLimit \in [Tasks -> Nat \ {0}]
    /\ BatchLimit \in Nat \ {0}
    /\ MaxFaults \in Nat
    /\ MaxDrains \in Nat
    /\ None \notin Nat
    /\ None \notin Tasks

VARIABLES
    pc,         \* dispatcher: "idle", "running", "appending", "recording"
    task,       \* the claimed task
    run,        \* its run, named by the index of its claimed event
    turn,       \* turn of the goal loop
    result,     \* outcome of the inner runner, then of the goal loop
    held,       \* bucket setdefault returned to the dispatcher thread
    status,     \* status column of a task
    failures,   \* consecutive_failures
    events,     \* work_queue_task_events, in id order
    buckets,    \* every list object _BUFFERS has held for the session
    current,    \* the one it holds now, 0 when the key is absent
    popped,     \* the one drain() has popped and not yet copied, or 0
    told,       \* notes folded into prompts
    late,       \* notes appended to a list that was already drained
    cursor,     \* WorkQueueNotifier._cursor
    base,       \* cursor of the first poll of this process
    batch,      \* ids of the fetched events still to deliver
    tried,      \* ids handed to the sink
    faults

driverVars == <<pc, task, run, turn, result, held>>
storeVars == <<status, failures, events>>
bufferVars == <<buckets, current, popped, told, late>>
pollVars == <<cursor, base, batch, tried>>
vars == <<driverVars, storeVars, bufferVars, pollVars, faults>>

Outcomes == {"completed", "failed"}
Terminal == {"completed", "blocked", "failed"}
Note == [run : Nat, turn : 1..MaxTurns, says : Outcomes]
Event == [kind : Terminal \cup {"claimed"}, run : Nat, task : Tasks]
TerminalIds == {id \in DOMAIN events : events[id].kind \in Terminal}

TypeOK ==
    /\ pc \in {"idle", "running", "appending", "recording"}
    /\ task \in Tasks \cup {None}
    /\ (pc = "idle") <=> (task = None)
    /\ run \in 0..Len(events)
    /\ turn \in 1..MaxTurns
    /\ result \in Outcomes
    /\ held \in 0..Len(buckets)
    /\ status \in [Tasks -> {"ready", "running", "completed", "blocked"}]
    /\ task # None => status[task] = "running"
    /\ failures \in [Tasks -> Nat]
    /\ \A t \in Tasks : failures[t] <= FailureLimit[t]
    /\ events \in Seq(Event)
    /\ buckets \in Seq(Seq(Note))
    /\ current \in 0..Len(buckets)
    /\ popped \in 0..Len(buckets)
    /\ told \in Seq(Note)
    /\ late \subseteq Note
    /\ cursor \in Nat \cup {None}
    /\ base \in Nat
    /\ batch \subseteq TerminalIds
    /\ tried \in Seq(Nat)
    /\ faults \in 0..MaxFaults

Init ==
    /\ pc = "idle"
    /\ task = None
    /\ run = 0
    /\ turn = 1
    /\ result = "failed"
    /\ held = 0
    /\ status = [t \in Tasks |-> "ready"]
    /\ failures = [t \in Tasks |-> 0]
    /\ events = <<>>
    /\ buckets = <<>>
    /\ current = 0
    /\ popped = 0
    /\ told = <<>>
    /\ late = {}
    /\ cursor = None
    /\ base = 0
    /\ batch = {}
    /\ tried = <<>>
    /\ faults = 0

---------------------------------------------------------------------------
(* The dispatcher thread                                                   *)

\* record_failure leaves claim_lock set, and the claim wants it NULL: a task
\* that failed is not claimed again.
Claimable(t) == status[t] = "ready" /\ failures[t] = 0

\* run_once takes the listed tasks in their order
Claim(t) ==
    /\ pc = "idle"
    /\ Claimable(t)
    /\ \A u \in Tasks : Claimable(u) => Rank[t] <= Rank[u]
    /\ status' = [status EXCEPT ![t] = "running"]
    /\ events' = Append(events, [kind |-> "claimed", run |-> Len(events) + 1, task |-> t])
    /\ run' = Len(events) + 1
    /\ task' = t
    /\ turn' = 1
    /\ pc' = "running"
    /\ UNCHANGED <<result, held, failures, bufferVars, pollVars, faults>>

setdefault ==
    IF current = 0
    THEN /\ buckets' = Append(buckets, <<>>)
         /\ current' = Len(buckets) + 1
    ELSE UNCHANGED <<buckets, current>>

\* _emit reaches enqueue: setdefault has returned, append has not run
FindBucket ==
    /\ pc = "running"
    /\ result' \in Outcomes
    /\ setdefault
    /\ held' = current'
    /\ pc' = "appending"
    /\ UNCHANGED <<task, run, turn, storeVars, popped, told, late,
                   pollVars, faults>>

\* The child runner raises: no note, the dispatcher records a failure
RunnerRaises ==
    /\ pc = "running"
    /\ result' = "failed"
    /\ pc' = "recording"
    /\ UNCHANGED <<task, run, turn, held, storeVars, bufferVars, pollVars, faults>>

\* The goal loop after an inner run: stop, or go round again
GoalStep ==
    IF task \notin GoalTasks \/ result = "failed"
    THEN /\ pc' = "recording"
         /\ UNCHANGED <<turn, result>>
    ELSE \/ /\ pc' = "recording"         \* the judge is satisfied
            /\ UNCHANGED <<turn, result>>
         \/ /\ turn < MaxTurns
            /\ turn' = turn + 1
            /\ pc' = "running"
            /\ UNCHANGED result
         \/ /\ turn = MaxTurns
            /\ result' = "failed"
            /\ pc' = "recording"
            /\ UNCHANGED turn

AppendNote ==
    LET note == [run |-> run, turn |-> turn, says |-> result] IN
    /\ pc = "appending"
    /\ buckets' = [buckets EXCEPT ![held] = Append(@, note)]
    /\ late' = IF held \in {current, popped} THEN late ELSE late \cup {note}
    /\ held' = 0
    /\ GoalStep
    /\ UNCHANGED <<task, run, storeVars, current, popped, told, pollVars,
                   faults>>

record_failure ==
    LET limit == failures[task] + 1 >= FailureLimit[task] IN
    /\ failures' = [failures EXCEPT ![task] = @ + 1]
    /\ status' = [status EXCEPT ![task] = IF limit THEN "blocked" ELSE "ready"]
    /\ events' = Append(events, [kind |-> IF limit THEN "blocked" ELSE "failed",
                                 run |-> run, task |-> task])

\* Mutant: the status is left for the sweep to release.
complete_event_only ==
    /\ failures' = [failures EXCEPT ![task] = 0]
    /\ status' = [status EXCEPT ![task] = "ready"]
    /\ events' = Append(events, [kind |-> "completed", run |-> run, task |-> task])

complete ==
    /\ failures' = [failures EXCEPT ![task] = 0]
    /\ status' = [status EXCEPT ![task] = "completed"]
    /\ events' = Append(events, [kind |-> "completed", run |-> run, task |-> task])

Idle ==
    /\ pc' = "idle"
    /\ task' = None
    /\ run' = 0
    /\ turn' = 1
    /\ result' = "failed"
    /\ held' = 0

Record ==
    /\ pc = "recording"
    /\ IF result = "completed" THEN complete ELSE record_failure
    /\ Idle
    /\ UNCHANGED <<bufferVars, pollVars, faults>>

\* A store call raises, the write of the outcome or the look-up before the run:
\* the watcher drops the tick, and the row stays as the claim left it.
TickDropped ==
    /\ pc = "recording" \/ (pc = "running" /\ turn = 1)
    /\ faults < MaxFaults
    /\ faults' = faults + 1
    /\ Idle
    /\ UNCHANGED <<storeVars, bufferVars, pollVars>>

\* release_stale_claims of a later tick, when the claim has expired
Sweep(t) ==
    /\ pc = "idle"
    /\ status[t] = "running"
    /\ status' = [status EXCEPT ![t] = "ready"]
    /\ UNCHANGED <<driverVars, failures, events, bufferVars, pollVars, faults>>

---------------------------------------------------------------------------
(* The event loop: drain() while a chat prompt is assembled                *)

\* Mutant: drain reads the list and leaves it in the table.
peek ==
    /\ popped' = current
    /\ UNCHANGED current

pop ==
    /\ popped' = current
    /\ current' = 0

PopBucket ==
    /\ popped = 0
    /\ current \in 1..MaxDrains
    /\ pop
    /\ UNCHANGED <<driverVars, storeVars, buckets, told, late, pollVars,
                   faults>>

FoldNotes ==
    /\ popped # 0
    /\ told' = told \o buckets[popped]
    /\ popped' = 0
    /\ UNCHANGED <<driverVars, storeVars, buckets, current, late,
                   pollVars, faults>>

---------------------------------------------------------------------------
(* The notifier thread                                                     *)

latest_terminal_event_id == IF TerminalIds = {} THEN 0 ELSE Max(TerminalIds)

\* Mutant: events of every kind are selected.
terminal_events_any(since) ==
    LET ids == {id \in DOMAIN events : id > since}
    IN  {id \in ids : Cardinality({other \in ids : other < id}) < BatchLimit}

\* WHERE id > since ORDER BY id LIMIT BatchLimit
terminal_events_since(since) ==
    LET ids == {id \in TerminalIds : id > since}
    IN  {id \in ids : Cardinality({other \in ids : other < id}) < BatchLimit}

tail_from_now == latest_terminal_event_id

FirstPoll ==
    /\ cursor = None
    /\ cursor' = tail_from_now
    /\ base' = tail_from_now
    /\ UNCHANGED <<driverVars, storeVars, bufferVars, batch, tried, faults>>

\* Mutant: the poll waits until a whole batch is there.
FetchFullBatch ==
    /\ cursor # None
    /\ batch = {}
    /\ batch' = terminal_events_since(cursor)
    /\ Cardinality(batch') = BatchLimit
    /\ UNCHANGED <<driverVars, storeVars, bufferVars, cursor, base, tried, faults>>

Fetch ==
    /\ cursor # None
    /\ batch = {}
    /\ batch' = terminal_events_since(cursor)
    /\ batch' # {}
    /\ UNCHANGED <<driverVars, storeVars, bufferVars, cursor, base, tried, faults>>

\* Mutant: the cursor moves to the newest event instead of the newest seen.
cursor_at_newest(id) == latest_terminal_event_id

cursor_after(id) == id

\* The sink is called for the next event; what it raises is swallowed.  The
\* cursor moves once, after the last event of the batch.
Deliver ==
    \E id \in batch :
        /\ \A other \in batch : id <= other
        /\ tried' = Append(tried, id)
        /\ batch' = batch \ {id}
        /\ cursor' = IF batch' = {} THEN cursor_after(id) ELSE cursor
        /\ UNCHANGED <<driverVars, storeVars, bufferVars, base, faults>>

Poll == FirstPoll \/ Fetch \/ Deliver

---------------------------------------------------------------------------
(* The process dies and another one starts on the same store: the buffer   *)
(* and the cursor are gone, and the boot sweep puts the running task back. *)

Restart ==
    /\ faults < MaxFaults
    /\ faults' = faults + 1
    /\ status' = [t \in Tasks |->
                     IF status[t] = "running" THEN "ready" ELSE status[t]]
    /\ Idle
    /\ buckets' = <<>>
    /\ current' = 0
    /\ popped' = 0
    /\ late' = {}
    /\ cursor' = None
    /\ base' = 0
    /\ batch' = {}
    /\ UNCHANGED <<failures, events, told, tried>>

Next ==
    \/ \E t \in Tasks : Claim(t)
    \/ FindBucket
    \/ RunnerRaises
    \/ AppendNote
    \/ Record
    \/ TickDropped
    \/ \E t \in Tasks : Sweep(t)
    \/ PopBucket
    \/ FoldNotes
    \/ Poll
    \/ Restart

Spec == Init /\ [][Next]_vars

\* The notifier's tick loop runs until the process stops and a tick that
\* raises does not end it.
FairSpec == Spec /\ WF_vars(Poll)

---------------------------------------------------------------------------
(* Properties                                                              *)

\* inject_buffer.enqueue / drain: a note that left the table in a drained list
\* is in a prompt, unless its append came after the whole drain, between the
\* two halves of enqueue; and no note is in two prompts.
NotesToldOnce ==
    /\ IsInjective(told)
    /\ \A i \in DOMAIN buckets \ {current, popped} :
           Range(buckets[i]) \subseteq Range(told) \cup late

\* InjectingWorkTaskRunner / WorkQueueDriver.run_once: the chat hears of two
\* completed runs of one task only when the outcome of the first was never
\* written: the process died after its note, or store.complete raised and the
\* sweep released the claim.
AnnouncedAgainOnlyUnrecorded ==
    \A n, m \in Range(told) :
        /\ n.says = "completed" /\ m.says = "completed"
        /\ n.run < m.run
        /\ events[n.run].task = events[m.run].task
        /\ events[n.run].task \notin GoalTasks
        => \A id \in TerminalIds : events[id].run # n.run

\* WorkQueueNotifier.poll_once: outcomes reach the sink in the order they were
\* recorded and never twice, over batches and over restarts, and up to the
\* cursor none recorded since the process's first poll was left out, whatever
\* was recorded while a batch was being delivered.
OutcomesInOrder ==
    /\ \A i, j \in DOMAIN tried : i < j => tried[i] < tried[j]
    /\ cursor # None =>
           {id \in TerminalIds : base < id /\ id <= cursor} \subseteq Range(tried)

\* build_work_queue_notify_watcher: again and again the sink has been handed
\* every outcome recorded since the process's first poll (the bounds leave only
\* finitely many outcomes, so each of them is handed over).
OutcomesNotified ==
    []<>(cursor # None /\ {id \in TerminalIds : id > base} \subseteq Range(tried))
=============================================================================
