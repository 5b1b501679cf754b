# Verification of magi-agent: work queue, mission bridge, live turns and controls

TLA+ models, TLC runs and TLAPS proofs for the parts of magi-agent that have to be
right when several processes, threads, event-loop tasks and remote services act on the
same state:

- the durable work queue (`magi_agent/missions/work_queue/`), and how the end of a
  background task becomes known to the chat and to the notifier;
- the two threads that mirror the queue to the hosted Missions panel and bring the panel's
  actions back (`missions/projector.py`, `missions/action_reconciler.py`);
- a streamed chat turn of the local server: its driver, its entry in the active-turn table,
  its permission asks, and what is kept of it (`transport/`);
- the durable log of permission requests (`runtime/durable_control_store.py`,
  `runtime/control_oob.py`);
- the circuit breaker in front of an MCP server (`plugins/mcp_resilience.py`).

The rest of the repository is large (1,125 implementation files) and mostly request and
text processing around an external model; section 5 says what is left out and why.

## 1. Inventory

| component | state | operations | interacts through | hard behaviour | what makes it correct |
|---|---|---|---|---|---|
| **Work queue store** `store.py`, `models.py` | SQLite: tasks (status, claim, lease, failures, current run), links, runs, events | create, link, recompute, claim, release, reclaim, complete, record_failure, cancel, retry, unblock | one SQLite file shared by processes, WAL, short transactions | reads before the transaction they justify; late outcomes of runs that lost their claim | run ledger agrees with the tasks; one holder per task; closed tasks stay closed |
| **Dispatcher** `driver.py`, `runner.py`, `recovery.py` | a tick's locals; nothing durable | `run_once`, boot sweep | store calls; runner; checkpoints to the projector | two dispatchers, crash between claim and outcome, a tick aborted by an exception | tasks complete, nothing stranded, no keyed effect twice |
| **Callers** `scheduled_work.py`, `app_api.py`, `gateway/watchers.py` | – | enqueue, control routes, tick timer | store | race the dispatcher | controls only from their source states |
| **Projector** `projector.py` | bounded queue, run ids (memory), mapping table (durable) | notify, worker, retry | queue, HTTP to the chat-proxy | partial failure, lost reply, full queue, restart | the panel ends up showing what the queue says |
| **Reconciler** `action_reconciler.py` | durable cursor (time stamp, processed ids) | poll, apply, advance | HTTP, store controls | crash between apply and cursor, page limits, equal time stamps | every action once, in order |
| **Notifier, inject buffer** `notifier.py`, `inject_buffer.py`, `runner.py` | in-memory cursor; per-session buffers; events table | poll; enqueue, drain; note after each inner run | events table; chat prompt | dispatcher thread and event loop on one dict; first poll; crash between note and outcome | a note is told once; outcomes reach the sink in order and all of them |
| Startup recovery `durable_recovery.py` | – | boot sweep, announcement, foreground continuation | store, projector | order of sweep, tick and announcement | every interrupted task is taken up |
| **Streamed turn** `streaming_driver.py`, `active_turn.py`, `streaming_chat_route.py`, `local_turn_pump.py`, `cli/permissions.py` | active-turn table, frame queue, cancel event, parked asks | post, claim, ask, answer, cancel, watchdog, tear down | asyncio tasks of one loop, three HTTP routes | subscriber leaves in any step, duplicate turn ids, producer that ignores cancellation | routes reach only running turns; no tool without an allow; streams end |
| **Turn history** `local_turn_pump.py`, `local_turn_store.py`, `storage/channel_message_store.py` | live and completed record (memory), message rows (SQLite) | begin, ingest, finish, save, read | pump task, channel-messages route | failing write, crash, older turn finishing late | a finished answer can be read after a refresh |
| **Control requests** `durable_control_store.py`, `control_oob.py`, `control.py` | maps in memory, append-only JSONL log, read offset | create, resolve, cancel, replay, refresh, out-of-band resolve | one file, several processes, a lock only the resolver takes | torn write, stale store, offset jumping over foreign lines | requests survive; a seen decision stays |
| Execution authority `execution_authority/`, `tools/execution_integrity.py` | action states, journal head, outbox | preflight, observe, append, recover | SQLite journal | crash between effect and observation, stale head | no effect without an authorised, journaled action |
| Scheduler `harness/scheduler_*.py` | jobs, run locks | due, run, deliver | lock, store | overlapping ticks | a job runs once per due time |
| **MCP breaker** `plugins/mcp_resilience.py` | breaker state, failure count, half-open latch | allow, record_success, record_failure, retries | concurrent tool calls | late results of earlier calls, cancellation in the backoff | one trial per half-open period, and it ends |
| Shadow counters, hook bus | counters, handlers | reserve; call | SQLite; – | limits, timeouts | – |
| Engine, channels, context, evidence, customize, CLI, web and desktop apps | – | – | external model, network, UI | – | not candidates for model checking as they stand |

Bold components have a module. `PROJECT.json` lists every component with its status and the hazards at their lines.

## 2. The models

**WorkQueueStore** – the tables and one operator per writing method of
`SqliteWorkQueueStore`. Python's `sqlite3` opens a transaction at the first write, so a
method that decides on an earlier SELECT is split there: `Expired`/`Running` then
`Reclaim` (both sweeps), `CompleteGuard` then `CompleteWrite`, `CreateRead` then
`CreateInsert`, the first gate of `recompute_ready` then `RecomputeReady`. `claim` and
the control actions use BEGIN IMMEDIATE and are one operator each. Of time only the
question "has claim_expires passed" is kept; of run rows, the number of open ones and
whose claim the current one belongs to; `consecutive_failures` saturates at its limit.

**WorkQueue** – any number of dispatchers, each a program counter through `run_once`
(release, recompute, list, and for every listed task claim, dedup, run, outcome) and
through the boot sweep, together with enqueueing callers, the control routes, the clock,
crashes (`Crash`) and ticks dropped by an exception (`TickAborts`). More than one dispatcher
is the normal case: besides the gateway's driver, every start of the command line builds one
and runs the boot sweep and a tick with it (`cli/app.py:349-361`, `durable_recovery.py:365`),
when `MAGI_DURABLE_STARTUP_RECOVERY_ENABLED` is on. A runner is a step with two outcomes. `RunLease` is the abstract promise: at most one holder, never
replaced without a release; `WorkQueue` implements it with `current_run_id` as holder.

**MissionActions** – `poll_once` with its page, the application of an action and the
cursor write as separate steps, faults between them, and the projector's two-step
creation of the mapping. The chat-proxy (external) stores actions in time-stamp order
and returns the first `limit` at or after `since`, as the code's comments describe.

**MissionProjector** – the bounded queue, the worker's calls one by one, each of which
may succeed, fail, or take effect and lose its reply, the retry that starts the handler
over, and restarts that lose queue and run ids and are announced by the startup sweep. The
announcement asks nothing: it follows a reclaim that raised, and it may come from another
process, the command line, while this one is at work (`ForeignRecovery`). The history variable
`disowned` holds the claims over which a restart was announced.

**StreamingTurn** – one action per stretch of code between two awaits: the route's post
(`try_register`, producer task), the engine's ask, resumption and end, the driver's drain
and its two-step teardown (close the sink and set cancel; release after the producer ended
or five seconds passed), the watchdog, the subscriber leaving, and the cancel and
control-response routes. A request refused the slot still runs, and releases positionally
(`unregister`), as `streaming_driver.py:289` does. The engine is external: it may end, ask
or stay silent for ever; only the race of its pull against the cancel event is relied on.

**TurnHistory** – the same request seen from storage: `begin` before the awaited user row,
the pump, `finish` (which records nothing when a newer turn owns the live entry), the
assistant row under INSERT OR IGNORE, record expiry, restart, and the merged read
(`channel_messages`): the newest `FullLimit` rows of the channel (500 in the code), whichever
session wrote them, and the in-memory record unless one of those rows has its turn id; the
record alone when the store raises. Rows of other sessions (`OtherSession`) only take places.

**ControlStore** – gates (processes), each with its maps and offset over one log; an
out-of-band resolver that replays and then writes. A store changes its maps, appends the
snapshot (`persist`) and asks for the size of the file (`Stat`), two file operations that other
processes come between and that may raise; the gate swallows the exception and keeps the
change. A crash or a failed append may leave the rest of a write without a newline, to which
the next snapshot is glued. A reader's offset decides
which snapshots it can parse, so the gate that jumped over a rest and a fresh store differ.

**CompletionNotices** – dispatcher thread, event loop and notifier thread of one server.
`enqueue` is two steps (setdefault, append) and `drain` is two (pop, copy), since they run
on different threads. Plain and goal-mode tasks, notes after every inner run, the store's
terminal events with their ids, the poll with its first-poll cursor and batches, restarts,
and ticks dropped because a store call raised (`TickDropped`), whose claim a later sweep of the
living process releases (`Sweep`).
The claim itself is `WorkQueue`'s; here it appears with its consequence that a task that
failed below its limit is not claimed again.

**McpBreaker** – `allow`, `record_success`, `record_failure` and the async call with its
attempts, backoff and cancellation. The clock is whether the cooldown has passed. History
variables: `trials` (calls admitted as a trial) and `ousted` (trials whose period the
result of another call ended).

Operators marked "Mutant" (for instance `ClaimWonUnleased`
before `ClaimWon`) are faulty forms that confirm that a property can fail.

## 3. Runs

Passing:

| run | instance | shows |
|---|---|---|
| `wq_safety` | 2 tasks, one may be the other's parent, 2 dispatchers (symmetric), boot recovery, failures, controls, 1 fault | run ledger, sweep reach, nobody left behind without a fault, parent gate, refinement of `RunLease` |
| `wq_liveness` | as above, runners succeed, no controls | every enqueued task completes |
| `wq_twins` | 2 dispatchers (symmetric), 2 tasks with one key, boot recovery, failures, controls, 2 faults | the four ways a claim at work is taken; a key that succeeded is not started again, and runs beside its twin only if it had started before |
| `ma_poll` | 4 actions on 2 missions, two at one time stamp, pages of 3, 3 remembered ids, 2 faults | nothing passed over, repeated only after a fault, in order, all handled |
| `mp_faults` | 1 task claimed twice, queue of 2, 2 attempts, up to 14 failing calls (every attempt of every item), aborted ticks, 1 restart, announced at any time | worker drains, outcomes final |
| `mp_delivery` | 2 tasks, 3 attempts, 2 faults, 1 restart, 1 announcement by another process | every completion reaches the host; until a call fails the drained panel mirrors the queue, but for claims a restart was announced over |
| `st_turn` | 2 requests of one turn id, both asking | table entries belong to running claimants; a claimant stays reachable unless a refused duplicate ended; no tool without an allow shown under its turn id; streams that are read end; cancelled turns end |
| `th_history` | 3 requests, two of one turn (symmetric), one with a client message id, reads of 3 rows, 1 row of another session, failing writes and reads, 1 crash | a finished answer is readable after a refresh except in the named cases, and stays readable except in the named steps |
| `cs_store` | 2 gates (symmetric), 1 request, out-of-band resolver, log of 4, 2 crashes or failed file operations | requests survive a restart unless they never reached the log; decisions change only by a writer that had not seen them; a refresh makes a store current |
| `cn_notices` | 3 tasks in list order, the last in goal mode with 2 turns, failures below and at the limit, batches of 2, 2 drained lists per process, 1 restart or dropped tick | a note is in at most one prompt and not lost by a drain; a second "completed" only when the first was never recorded; outcomes in order, without gaps, eventually |
| `br_trial` | 5 calls, threshold 2, 2 attempts | one trial per half-open period; the period ends unless the trial is cancelled in its backoff |

Violation – a sentence of the repository that the code does not keep (quoted in
`findings`): in `wq_lost_retry`, `record_failure` leaves `claim_lock`, so the task is ready
and can never be claimed again.

Divergences that the passing runs' properties name as exceptions, or that were met while
modelling, without a run of their own:

- *Work queue.* A task cancelled while running is put back to ready by its failing run
  (`store.py:887` against `:935`). Two concurrent `create_idempotent` calls insert the same
  key (`store.py:826`, no unique index in `migrations.py:125`; `driver.py:255`), and two
  dispatchers may then execute both at once. The sweeps of a second process, the command
  line's at each start, take the claim of a live worker, because claims carry no pid and
  nobody heartbeats (`store.py:788`, `:745`), and its outcome then closes the next worker's
  run; two workers of one task can both pass the guard of `complete` and write its event
  twice. Rows that `record_failure` wedged keep their places in the LIMIT of `ready_tasks`
  (`store.py:1037`).
- *Reconciler.* An action between mission creation and mapping row is dropped
  (`action_reconciler.py:184`). When `limit` (50) actions share one `created_at`, every
  poll returns the same page and later ones are never fetched; `ma_poll` stays below that.
- *Projector.* One failed `update_run` leaves a hosted run running for good
  (`projector.py:484`). The startup sweep announces a restart whatever is claimed, after a
  reclaim that raised as well (`durable_recovery.py:138-168`), and the command line runs it
  beside a working gateway: the panel then shows a live run as abandoned until its outcome.
- *Notices.* When `store.complete` raises, the watcher drops the tick
  (`gateway/watchers.py:431-432`), the sweep releases the claim and the task is run and
  announced again in the same process. `inject_buffer` calls itself loop-only, yet `enqueue` runs on the dispatcher
  thread, and an append after a complete drain is lost. In goal mode the chat hears
  "completed" after each inner run although the task is then recorded failed
  (`runner.py:64-74`, `watchers.py:397-400`). Outcomes recorded before a process's first
  poll are never notified.
- *Streamed turn.* The teardown of a duplicate that was refused the slot evicts the live
  holder (`streaming_driver.py:289`; the comment at `:132-135` says it is protected). A
  turn that falls silent after the browser left is aborted by nobody: the watchdog belongs
  to the subscriber (`local_turn_pump.py:259`).
- *History.* When the assistant row cannot be written, the in-memory record is meant to
  stand in (`streaming_chat_route.py:1793-1800`), but the turn's own user row hides it
  (`:1806-1812`). A full read is the newest 500 rows of the channel over all its sessions
  (`:175`, `:1754-1779`, `channel_message_store.py:202-210`), so older answers leave it; and
  when the store raises it is the in-memory record alone (`:1817-1822`). A repeated turn id
  drops the later answer. A browser that leaves during
  the user-row write leaves a live entry without a pump.
- *Controls.* `control_oob.py:117` says the durable store goes through the lock; the gates
  do not take it. A torn write swallows the next snapshot too (`durable_control_store.py:127`
  against `:181-182`). An append moves the offset past lines of others (`:130`). When the append
  raises, the maps have changed already and the gate swallows the exception
  (`cli/permissions.py:417`, `:434`, `:444`): its memory is ahead of the log, a restart forgets
  the request, and a refresh agrees with the log only once something newer about the request
  is in it.
- *Breaker.* A trial cancelled in its backoff leaves the breaker half-open for good
  (`mcp_resilience.py:364`; "never sticks half-open"). The result of a call admitted before
  the breaker opened ends another call's trial.

*Bounds.* Two dispatchers and two tasks are the fewest with which a claim race, a late
outcome after a new claim, a parent gate and a cut list (MaxSpawn 1) all occur;
failure limit 2 is the default and has both the retry and the blocked branch. `Crash`
and `TickAborts` share the bound `MaxCrashes`. Pages of 3 with four actions cut a page at
a shared time stamp. Two requests of one turn are what it takes for a duplicate to be
refused, outlive or precede the holder, and answer its ask; requests of different turns
meet only in the history, which has a third one. There a read of three rows is shorter than
the record of three requests, so a row leaves the read by a message of the session itself or
of another one, with its turn's user row still inside or not. A log of four holds an ask, a torn
rest, a glued snapshot and a decision, or an ask, two decisions of blind writers and a snapshot
that was jumped over; two faults are a failed append and a crash after it. Each of the cases
that `LiveClaimTaken` and `KeyRunTwiceOnlyAtOnce` except happens in `wq_twins`: without the
exception TLC finds a violation. Three tasks give
three outcomes, so a batch of two is cut, delivered while the third is recorded, or overtaken
by a restart; one failure stays below its limit, the others reach it. Two calls open the
breaker, one is its trial, one is late and one meets the next period.
Deadlock checking is off for the projector, the notices and the breaker, whose environments
are finite: they really stop when every task is closed or every call has returned.

*Fairness.* `WF` on each dispatcher: the watcher ticks on a timer and survives a failing
tick (`gateway/watchers.py:427-438`), the daemon restarts it, and a child turn runs under
a timeout, so a runner returns. `WF` on the clock and on the second half of an insert. `WF`
on the poll loop and the projector's worker: timer or daemon thread, and each HTTP call has
a timeout. `WF` on the notifier's poll: its tick loop also survives a failing tick. In
`StreamingTurn`, `WF` on every task of the event loop that is ready, on the watchdog's
timer, and on the end of an engine that was cancelled; none on an engine that was not. In
`McpBreaker`, `WF` on each admitted call: `wait_for` bounds an attempt and the backoff is a
timer. Nothing is assumed of users, callers or faults. No strong fairness is used.

## 4. Proofs

Every safety property that a passing run checks, invariant or action property, is a theorem
of the module's `Spec`, for every value of the constants that satisfies the module's
`ASSUME` (TLC evaluates these in every run). What the assumptions ask is in the modules;
they type the constants, keep the `None`-like values apart from the real ones and bound
nothing. Three theorems have a hypothesis of their own, stated with them below. Each proof
has the same shape: an invariant `Inv` that implies the property, a lemma for each kind of
step, and a last step that joins them.

`WorkQueueProofs` (`StoreAssumption`, `DriverAssumption`):

- `TypeCorrect`: `Spec => []TypeOK`. Inductive with `HasTask` (a dispatcher that promotes
  or works has a task at hand), without which an outcome would be written to `NoTask`.
- `LedgerConsistent`, `RunningIsSweepable`: `[]RunLedger`, `[]SweepReachesRunning`. Their
  conjunction `StoreInv` is inductive over the store's transactions alone, so the proof is
  one lemma per kind of transaction and a case analysis of `Next`.
- `NobodyLeftBehind`: `[]RunningMeansWorking`, inductive relative to the two above: the
  step that ends a dispatcher's work also ends the row's running state.
- `GateHolds`: `Spec => ParentsDoneAtStart`, since a won claim is the only way into running
  (`StartsThroughClaim`) and it reads the gate in its own transaction.
- `QueueImplementsLease`: the refinement of `RunLease`. `RunLedger` is what makes a won
  claim an `Acquire`: a ready row has no current run.
- `ClaimTakenInFourWays`: `Spec => LiveClaimTaken`, for any number of dispatchers. It needs no
  invariant beyond `StoreInv`: a row whose run is held is running, so neither a claim nor a
  retry applies to it, and the dispatcher's own sweeps are at other points of its program; what
  remains are the four ways, each a step that can be named (`SweptBy`, `OutcomeBy`).
- `CompletedKeyNotStarted`: `Spec => KeyRunTwiceOnlyAtOnce`. The look-up for a completed twin is
  the step that starts the run, and `complete` is the only way to "completed", so a twin that
  appears during a run was completed by the `complete` of another dispatcher.

`McpBreakerProofs` (`BreakerAssumption`):

- `BreakerTypeCorrect`: `Spec => []TypeOK`, where the type invariant includes that the latch
  is set exactly while the breaker is half-open. `AttemptLeft` (a sleeping call has an
  attempt left) bounds the counter.
- `OneTrialPerPeriod`: `Spec => []SingleTrial`. It is not inductive alone: a result takes the
  latch from its `holder`, which must be known to be a trial (`LatchedByTrial`), and an
  ordinary admission must not set an old trial running (`TrialsStarted`). The four together
  with `TypeOK` are the invariant `Inv`; there is one lemma for the steps that leave the
  breaker alone, one for results and one for admission.

`MissionActionsProofs` (`ActionsAssumption`: the chat-proxy's order agrees with the time
stamps and is strict):

- `ActionsTypeCorrect`, `NothingPassedOver`: `[]TypeOK`, `[]NoActionPassedOver`. The page is
  a prefix of what is left to handle (`PagePrefix`) and the cursor's stamp is that of a
  handled action (`CursorStamp`), so advancing the cursor never skips. No page size, no
  trimming of the remembered ids and no fault breaks this.
- `RequestedOnce`, `RequestsKeepOrder`: `[]RequestedOncePerFault` and `RequestsInOrder`, under
  `FewPerStamp`: no `created_at` is shared by more actions than the cursor remembers ids
  (`max_processed_ids`, 500). The code relies on this without checking it, and with more
  clashes an id falls out of the memory while its stamp is still fetched, so the action is
  applied again. The invariant `OrderInv` says in addition that the remembered ids are in
  order (`IdsInOrder`), that of the requested actions only the newest can be unrecorded
  (`OnlyNewestUnrecorded`), and that each repetition is paid for by a fault (`RequestsPaid`).

`MissionProjectorProofs` (`ProjectorAssumption`):

- `ProjectorTypeCorrect`, `OutcomesStand`: `[]TypeOK` and `OutcomeIsFinal`. A remembered run
  is open (`RunIdsOpen`), because the terminal checkpoint forgets the id before it calls; and
  the call the worker is about to make fits the item at hand (`CallFits`). So no retry and no
  later attempt writes to a closed run.
- `QuietPanelMirrorsQueue`: `[]PanelMirrorsQueue` along every behaviour in which the queue
  never fills up, for a dispatcher whose ticks are not abandoned (`~MayAbort`). Both
  hypotheses are needed: a full queue drops the checkpoint (`put_nowait`), and an abandoned
  tick never sends one; the property itself speaks of behaviours without a failed call and
  excepts the claims over which a restart was announced. The
  invariant `MirrorInv` has a witness: a sequence of sets of tasks that starts with
  the runs open now, follows the effect of each queued item, and ends with the claimed tasks
  (`OpenTasks`, `Effect`). Handling an item takes its head, queueing one extends its end.

`StreamingTurnProofs` (`TurnAssumption`):

- `TurnTypeCorrect`: `[]TypeOK`, inductive with `FreshNotStarted` (a request is posted once)
  and `QueueBounded` (at most one ask and the end marker are in the frame queue).
- `TableIsLive`, `ClaimantReachable`: `[]TableNamesRunningTurn`, `[]ClaimantStaysReachable`,
  inductive together: the entry a release removes is the claimant's own or, by the positional
  `unregister`, that of a turn whose refused duplicate is now torn down.
- `NoToolUnapproved`: `[]ToolsNeedApproval`. An answer may arrive before its ask and is kept;
  `EarlyNeedsApproval` says that what is kept as an allow was the user's.

`TurnHistoryProofs` (`HistoryAssumption`):

- `HistoryTypeCorrect`, `FinishedAnswerReadable`: `[]TypeOK`, `[]AnswerReadable`. The key of
  an assistant row is its turn and the write is INSERT OR IGNORE, so a stored answer is a row
  or its key was taken (`RowsOfRequests`, `AnswerStored`); a row that is not in a full read was
  pushed out of the tail.
- `ShownAnswersStay`: `AnswersStayReadable`. Rows are never removed, text never goes away and one
  step appends at most one row (`HistoryGrows`), so the read moves by at most one row
  (`ReadMoves`) and the record stays but for the steps named (`RecordKept`).

`ControlStoreProofs` (`ControlAssumption`: a torn write is no snapshot):

- `StoreTypeCorrect`, `RequestsAreDurable`: `[]TypeOK`, `[]RequestsSurviveRestart`. What a gate
  knows is written somewhere in the log, or the append failed (`Knows`).
- `RefreshIsComplete`: `RefreshCatchesUp`. A gate's maps agree with the last entry of its part of
  the log except for requests whose entries its own appends jumped over, whose change it could
  not append or that a torn write swallowed (`Synced`); between append and stat the entry behind
  the offset is the gate's own (`Wrote`).
- `DecisionsStand`: `DecisionsChangeOnlyBlindly`. An entry that is torn or about another
  request changes nothing a fresh store recovers (`OtherEntry`); the rest follows from the
  guard of the writer in its own memory or its own replay.

  A replay is defined by the last snapshot it can parse, so the lemmas underneath are about
  maxima of bounded sets of positions (`MaxOfBounded`, `SameMax`).

`CompletionNoticesProofs` (`NoticesAssumption`):

- `NoticesTypeCorrect`: `[]TypeOK`.
- `NoNoteTwice`: `[]NotesToldOnce`. Notes that are or will be in a prompt differ (`NotesApart`)
  because the next note is of a later turn or a later run (`FreshNote`), and a run is the id
  of its claim event, the last one while the single dispatcher works (`OneRun`, `RunNames`).
- `CompletionToldTwiceUnrecorded`: `[]AnnouncedAgainOnlyUnrecorded`. A note "completed" of a
  plain task is about a run that is about to be recorded, was recorded and not claimed again,
  or never will be (`AnnouncedIsFinal`).
- `OutcomesHandedOverInOrder`: `[]OutcomesInOrder`. A batch is a prefix of what lies behind the
  cursor (`BatchPrefix`), every outcome up to the cursor has been handed over (`CursorReached`)
  and in order (`TriedInOrder`).

*Only model-checked.* Liveness under fairness, which like ENABLED is out of the prover's
reach: `EnqueuedCompletes`, `ActionsHandled`, `WorkerDrains`, `CompletionReachesHost`,
`StreamsEnd`, `CancelledTurnsEnd`, `OutcomesNotified`, `TrialEnds`. And `ReadyIsDispatched`,
which the code does not keep.

## 5. Not modelled

`heartbeat`, `worker_pid` and heartbeat staleness of the work queue: no caller outside the
tests, so the branch that extends a claim is unreachable in the running system. Comments and
read-only queries. Of the events table, only claims and terminal events
(`CompletionNotices`). `InMemoryWorkQueueStore`, a test double. The projector's throttled
heartbeat (no caller). Which action kind a panel event carries: what the store does with it is
`WorkQueue`'s subject. Of the streaming routes, the interrupt, injection and hosted (gate5b)
branches. The snapshot reducer of the turn store beyond whether it has text. Incremental
reads of the history (`after=`), which are unbounded; a full read is one step, and the turn ids
of other sessions differ from this one's. Of another process's projector, only what its
restart announcement does at the host. A reclaim that raises at boot leaves the rows running
until the stale sweep; the projector's model puts them back at once, since nobody works on
them. A torn write is cut inside its JSON line, never just before the newline. `expire_request`
and `create_user_question_request` of the control store (no callers). The worker
threads of the synchronous twin `call_with_resilience`, which touch no breaker state: its
caller makes the registry calls of `McpBreaker` in the same order, each under the registry's
lock.

Components without a module, with the reason, are in `PROJECT.json`: the agent engine, gates,
recipes, configuration, evidence, policies, channels, CLI and web front ends are sequential
text and request processing, or are driven by an external model; most of the repository's
lines are theirs, which is why the map covers a small share of the whole.

## 6. Plan

Done: 1 store and dispatcher, 2 reconciler, 3 projector, 4 notifier and inject buffer,
5 streamed turn and history, 6 control requests, 7 MCP breaker, 8 the proofs of their safety
properties. Next:

9. `ExecutionIntegrity`: `tools/execution_integrity.py` (preflight, observe, append), the
   journal's head compare-and-set and outbox, the completion gate of `engine/driver.py` (from line 1147).
   Hazards: a stale head reported as already consumed (`execution_integrity.py:202`), a
   swallowed observation that blocks completion, a crash between consume and observe, an
   expired outbox claim.
10. Scheduler run locks, shadow counter reservations, foreground recovery.
11. Proofs: abstract specifications of the projector (a panel that holds one run per claim)
    and of the notifier (a list of outcomes, handed over from the front) with the refinement
    proved, and `PanelMirrorsQueue` with the dropped checkpoints counted instead of excluded.
