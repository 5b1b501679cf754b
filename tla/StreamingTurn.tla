--------------------------- MODULE StreamingTurn ---------------------------
(***************************************************************************)
(* The live side of one chat session of the local server: the streaming    *)
(* route, the driver with its producer task, the active-turn table that    *)
(* the cancel and control-response routes look turns up in, the prompt     *)
(* sink that parks tool-permission asks, and the pump's idle watchdog.     *)
(* What is kept of a turn is the subject of TurnHistory.                   *)
(*                                                                         *)
(* Everything runs on one event loop, so an action is the code between two *)
(* awaits.  A request is one POST /v1/chat/stream; requests that name the  *)
(* same turn, or name none and share the session's default, have the same  *)
(* TurnOf.  The engine is external: it asks at most once, and ends, falls  *)
(* silent or is cancelled.  Text frames travel through the same queue and  *)
(* change nothing modelled here; they and terminal reasons are left out.   *)
(***************************************************************************)
EXTENDS Naturals, Sequences

CONSTANTS
    Requests,       \* stream requests of the session
    TurnIds,
    TurnOf,         \* turnId of a request's body, or the session's default
    Asking,         \* requests whose turn uses a tool that needs permission
    None

ASSUME TurnAssumption ==
    /\ TurnOf \in [Requests -> TurnIds]
    /\ Asking \subseteq Requests
    /\ None \notin Requests

VARIABLES
    sub,        \* subscriber generator of the HTTP response
    driver,     \* drive_streaming_chat, iterated by the pump task
    claimed,    \* try_register returned a claim
    registry,   \* ACTIVE_TURNS: holder of a turn id, or None
    engine,     \* producer task and the engine behind it
    queue,      \* shared queue between producer, sink and driver
    shown,      \* the driver has yielded the ask's control_request frame
    cancel,     \* the turn's cancel event
    ask,        \* HeadlessSink: the future of the turn's ask
    early,      \* HeadlessSink: an answer that came before the ask
    answered    \* what the user answered to the ask a request showed

tableVars == <<claimed, registry>>
vars == <<sub, driver, tableVars, engine, queue, shown, cancel, ask, early, answered>>

Answers == {"allow", "deny"}
TypeOK ==
    /\ sub \in [Requests -> {"new", "reading", "left", "done"}]
    /\ driver \in [Requests -> {"none", "draining", "teardown", "done"}]
    /\ claimed \in [Requests -> BOOLEAN]
    /\ registry \in [TurnIds -> Requests \cup {None}]
    /\ engine \in [Requests -> {"none", "running", "asking", "ended"}]
    /\ queue \in [Requests -> Seq({"control", "end"})]
    /\ \A r \in Requests : Len(queue[r]) <= 2
    /\ shown \in [Requests -> BOOLEAN]
    /\ cancel \in [Requests -> BOOLEAN]
    /\ ask \in [Requests -> {"none", "open", "cancelled"} \cup Answers]
    /\ early \in [Requests -> {"none"} \cup Answers]
    /\ answered \in [Requests -> {"none"} \cup Answers]

Init ==
    /\ sub = [r \in Requests |-> "new"]
    /\ driver = [r \in Requests |-> "none"]
    /\ claimed = [r \in Requests |-> FALSE]
    /\ registry = [t \in TurnIds |-> None]
    /\ engine = [r \in Requests |-> "none"]
    /\ queue = [r \in Requests |-> <<>>]
    /\ shown = [r \in Requests |-> FALSE]
    /\ cancel = [r \in Requests |-> FALSE]
    /\ ask = [r \in Requests |-> "none"]
    /\ early = [r \in Requests |-> "none"]
    /\ answered = [r \in Requests |-> "none"]

---------------------------------------------------------------------------
(* The active-turn table                                                   *)

\* Mutant: the last request to register takes the slot.
register_clobber(r) ==
    /\ claimed' = [claimed EXCEPT ![r] = TRUE]
    /\ registry' = [registry EXCEPT ![TurnOf[r]] = r]

\* A held slot is refused; the turn runs all the same.
try_register(r) ==
    /\ claimed' = [claimed EXCEPT ![r] = registry[TurnOf[r]] = None]
    /\ registry' = [registry EXCEPT ![TurnOf[r]] = IF @ = None THEN r ELSE @]

\* Mutant: a producer that outlives the teardown keeps the slot.
unregister_ended(r) ==
    registry' = [registry EXCEPT ![TurnOf[r]] = IF engine[r] = "ended" THEN None ELSE @]

\* unregister(claim) is guarded by the owner; without a claim the driver
\* calls unregister(session_id, turn_id), which is guarded by the turn id.
unregister(r) ==
    registry' = [registry EXCEPT ![TurnOf[r]] = IF claimed[r] /\ @ # r THEN @ ELSE None]

---------------------------------------------------------------------------
(* HeadlessSink: ask, deliver and close                                    *)

\* An answer to a settled ask is dropped, one that precedes it is kept.
deliver(r, d) ==
    /\ ask' = [ask EXCEPT ![r] = IF @ = "open" THEN d ELSE @]
    /\ early' = [early EXCEPT ![r] = IF ask[r] = "none" THEN d ELSE @]

\* The driver's teardown closes the sink.
Closed(r) == driver[r] \in {"teardown", "done"}

\* Mutant: a closing sink lets the parked ask pass.
close_allow(r) == ask' = [ask EXCEPT ![r] = IF @ = "open" THEN "allow" ELSE @]

close(r) == ask' = [ask EXCEPT ![r] = IF @ = "open" THEN "deny" ELSE @]

---------------------------------------------------------------------------
(* drive_streaming_chat: the producer and the engine behind it             *)

Emit(r, k) == queue' = [queue EXCEPT ![r] = Append(@, k)]

\* A closed sink denies at once; an early answer settles the future before
\* the frame is written.
EngineAsk(r) ==
    /\ engine[r] = "running"
    /\ r \in Asking
    /\ ask[r] = "none"
    /\ IF Closed(r) /\ early[r] = "none"
       THEN /\ ask' = [ask EXCEPT ![r] = "deny"]
            /\ UNCHANGED <<engine, queue, early>>
       ELSE /\ ask' = [ask EXCEPT ![r] = IF early[r] = "none" THEN "open" ELSE early[r]]
            /\ early' = [early EXCEPT ![r] = "none"]
            /\ engine' = [engine EXCEPT ![r] = "asking"]
            /\ Emit(r, "control")
    /\ UNCHANGED <<driver, tableVars, shown, cancel, sub, answered>>

\* The parked ask wakes: on an explicit allow the tool runs, otherwise the
\* engine goes on without it.
EngineResumes(r) ==
    /\ engine[r] = "asking"
    /\ ask[r] \in Answers
    /\ engine' = [engine EXCEPT ![r] = "running"]
    /\ UNCHANGED <<driver, tableVars, queue, shown, cancel, ask, early, sub, answered>>

EngineStops(r) ==
    /\ engine' = [engine EXCEPT ![r] = "ended"]
    /\ ask' = [ask EXCEPT ![r] = IF @ = "open" THEN "cancelled" ELSE @]
    /\ Emit(r, "end")
    /\ UNCHANGED <<driver, tableVars, shown, cancel, early, sub, answered>>

\* Its stream is exhausted or raised.
EngineEnds(r) ==
    /\ engine[r] = "running"
    /\ EngineStops(r)

\* Mutant: the pull of the next event is not raced against cancel.
EngineAbortsBetweenEvents(r) ==
    /\ cancel[r]
    /\ engine[r] = "running"
    /\ EngineStops(r)

\* Mutant: the end of the stream is signalled once more after the end.
EngineAbortsAgain(r) ==
    /\ cancel[r]
    /\ engine[r] # "none"
    /\ EngineStops(r)

\* The pull of the next event lost its race against cancel.wait().
EngineAborts(r) ==
    /\ cancel[r]
    /\ engine[r] \in {"running", "asking"}
    /\ EngineStops(r)

---------------------------------------------------------------------------
(* The route, the driver and the pump's subscriber and watchdog            *)

\* The pump task starts the driver: the claim, then the producer task.
Post(r) ==
    /\ sub[r] = "new"
    /\ sub' = [sub EXCEPT ![r] = "reading"]
    /\ driver' = [driver EXCEPT ![r] = "draining"]
    /\ try_register(r)
    /\ engine' = [engine EXCEPT ![r] = "running"]
    /\ UNCHANGED <<queue, shown, cancel, ask, early, answered>>

\* The browser leaves: the pump goes on, its watchdog does not.
Disconnect(r) ==
    /\ sub[r] = "reading"
    /\ sub' = [sub EXCEPT ![r] = "left"]
    /\ UNCHANGED <<driver, tableVars, engine, queue, shown, cancel, ask, early, answered>>

\* _SUB_END: the response is complete.
StreamEnds(r) ==
    /\ sub[r] = "reading"
    /\ driver[r] = "done"
    /\ sub' = [sub EXCEPT ![r] = "done"]
    /\ UNCHANGED <<driver, tableVars, engine, queue, shown, cancel, ask, early, answered>>

\* Mutant: a turn that waits for a permission is not idle.
WatchdogRunning(r) ==
    /\ sub[r] = "reading"
    /\ driver[r] = "draining"
    /\ ~cancel[r]
    /\ engine[r] = "running"
    /\ cancel' = [cancel EXCEPT ![r] = TRUE]
    /\ UNCHANGED <<driver, tableVars, engine, queue, shown, ask, early, sub, answered>>

\* No frame for the whole idle budget.  The watchdog task lives until it has
\* fired or the subscriber's finally block cancels it.
Watchdog(r) ==
    /\ sub[r] = "reading"
    /\ driver[r] = "draining"
    /\ ~cancel[r]
    /\ queue[r] = <<>>
    /\ cancel' = [cancel EXCEPT ![r] = TRUE]
    /\ UNCHANGED <<driver, tableVars, engine, queue, shown, ask, early, sub, answered>>

Drain(r) ==
    /\ driver[r] = "draining"
    /\ queue[r] # <<>>
    /\ Head(queue[r]) = "control"
    /\ queue' = [queue EXCEPT ![r] = Tail(@)]
    /\ shown' = [shown EXCEPT ![r] = TRUE]
    /\ UNCHANGED <<driver, tableVars, engine, cancel, ask, early, sub, answered>>

\* The finally block up to its await of the producer.
TearDown(r) ==
    /\ driver[r] = "draining"
    /\ driver' = [driver EXCEPT ![r] = "teardown"]
    /\ cancel' = [cancel EXCEPT ![r] = TRUE]
    /\ close(r)

\* _END: the terminal frames are yielded and the generator returns.
DrainEnd(r) ==
    /\ queue[r] # <<>>
    /\ Head(queue[r]) = "end"
    /\ queue' = [queue EXCEPT ![r] = Tail(@)]
    /\ TearDown(r)
    /\ UNCHANGED <<tableVars, engine, shown, early, sub, answered>>

\* Projecting an event into a frame raised.
DriverFault(r) ==
    /\ TearDown(r)
    /\ UNCHANGED <<tableVars, engine, queue, shown, early, sub, answered>>

\* The producer is done, or five seconds have passed: the slot is released.
Release(r) ==
    /\ driver[r] = "teardown"
    /\ unregister(r)
    /\ driver' = [driver EXCEPT ![r] = "done"]
    /\ UNCHANGED <<claimed, engine, queue, shown, cancel, ask, early, sub, answered>>

---------------------------------------------------------------------------
(* The other routes                                                        *)

\* POST /v1/chat/cancel for a turn, or for the session's lone turn.
CancelRoute(t) ==
    /\ registry[t] # None
    /\ cancel' = [cancel EXCEPT ![registry[t]] = TRUE]
    /\ UNCHANGED <<driver, tableVars, engine, queue, shown, ask, early,
                   sub, answered>>

\* POST /v1/chat/control-response: the user answers the ask that request q
\* showed.  Its request id is made of turn id, tool and a counter, so the
\* table's holder of that turn takes it for its own.
ControlResponse(q, d) ==
    LET holder == registry[TurnOf[q]]
    IN  /\ shown[q]
        /\ answered[q] = "none"
        /\ holder # None
        /\ answered' = [answered EXCEPT ![q] = d]
        /\ deliver(holder, d)
        /\ UNCHANGED <<driver, tableVars, engine, queue, shown, cancel,
                       sub>>

Done ==
    /\ \A r \in Requests : sub[r] \in {"left", "done"} /\ driver[r] = "done"
    /\ UNCHANGED vars

Next ==
    \/ \E r \in Requests :
          \/ Post(r) \/ Disconnect(r) \/ StreamEnds(r) \/ Watchdog(r)
          \/ EngineAsk(r) \/ EngineResumes(r) \/ EngineEnds(r) \/ EngineAborts(r)
          \/ Drain(r) \/ DrainEnd(r) \/ DriverFault(r) \/ Release(r)
          \/ \E d \in Answers : ControlResponse(r, d)
    \/ \E t \in TurnIds : CancelRoute(t)
    \/ Done

Spec == Init /\ [][Next]_vars

\* The event loop runs every ready task; the engine is only trusted to end
\* once it is cancelled, because its pull is raced against the event.
Fairness ==
    \A r \in Requests :
        /\ WF_vars(StreamEnds(r))
        /\ WF_vars(Watchdog(r))
        /\ WF_vars(EngineResumes(r))
        /\ WF_vars(EngineAborts(r))
        /\ WF_vars(Drain(r))
        /\ WF_vars(DrainEnd(r))
        /\ WF_vars(Release(r))

FairSpec == Spec /\ Fairness

---------------------------------------------------------------------------
(* Properties                                                              *)

Running(r) == driver[r] \in {"draining", "teardown"}

\* The cancel and control-response routes never reach a turn that is over:
\* whatever order duplicates register and tear down in, an entry of the
\* active-turn table belongs to a claimant that still runs.
TableNamesRunningTurn ==
    \A t \in TurnIds :
        registry[t] # None =>
            /\ Running(registry[t])
            /\ claimed[registry[t]]
            /\ TurnOf[registry[t]] = t

\* A running claimant stays reachable for cancel and control responses,
\* unless a duplicate of its turn that was refused the slot has already torn
\* down: the positional unregister then removed the holder.
ClaimantStaysReachable ==
    \A r \in Requests :
        claimed[r] /\ Running(r) /\ registry[TurnOf[r]] # r =>
            \E q \in Requests \ {r} :
                TurnOf[q] = TurnOf[r] /\ ~claimed[q] /\ driver[q] = "done"

\* A tool runs only after the user allowed an ask shown under the same turn
\* id, through early answers, a closing sink and races with cancel.
ToolsNeedApproval ==
    \A r \in Requests :
        ask[r] = "allow" => \E q \in Requests : TurnOf[q] = TurnOf[r] /\ answered[q] = "allow"

\* A response that is being read ends: a silent engine is aborted by the
\* watchdog as long as the browser stays.
StreamsEnd == \A r \in Requests : sub[r] = "reading" ~> sub[r] \in {"done", "left"}

\* A cancelled turn ends, whether or not anyone still reads
\* it and whether or not it waits for a permission.
CancelledTurnsEnd ==
    \A r \in Requests : (cancel[r] /\ Running(r)) ~> driver[r] = "done"
=============================================================================
