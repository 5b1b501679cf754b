------------------------ MODULE StreamingTurnProofs ------------------------
(***************************************************************************)
(* The live turns of a session, for any number of requests and turn ids:   *)
(* types, the active-turn table, and the approval of tools.                *)
(*                                                                         *)
(* A request is posted once (FreshNotStarted), so a request that registers *)
(* is not yet the holder of anything; without it neither the table's       *)
(* invariant nor the bound on the frame queue is inductive.                *)
(***************************************************************************)
EXTENDS StreamingTurn, TLAPS

\* Posting a request starts its driver and its producer.
FreshNotStarted ==
    \A r \in Requests : sub[r] = "new" => driver[r] = "none" /\ engine[r] = "none"

\* The producer emits one frame for its ask and one for its end.
QueueBounded ==
    \A r \in Requests :
        Len(queue[r]) <= (IF ask[r] = "none" THEN 0 ELSE 1)
                           + (IF engine[r] = "ended" THEN 1 ELSE 0)

\* Everything of TypeOK but the bound on the queues.
Types ==
    /\ sub \in [Requests -> {"new", "reading", "left", "done"}]
    /\ driver \in [Requests -> {"none", "draining", "teardown", "done"}]
    /\ claimed \in [Requests -> BOOLEAN]
    /\ registry \in [TurnIds -> Requests \cup {None}]
    /\ engine \in [Requests -> {"none", "running", "asking", "ended"}]
    /\ queue \in [Requests -> Seq({"control", "end"})]
    /\ shown \in [Requests -> BOOLEAN]
    /\ cancel \in [Requests -> BOOLEAN]
    /\ ask \in [Requests -> {"none", "open", "cancelled"} \cup Answers]
    /\ early \in [Requests -> {"none"} \cup Answers]
    /\ answered \in [Requests -> {"none"} \cup Answers]

TypeInv == Types /\ FreshNotStarted /\ QueueBounded

\* The user allowed an ask of a turn.
Allowed(t) == \E q \in Requests : TurnOf[q] = t /\ answered[q] = "allow"

\* An answer kept for an ask to come is an answer the user gave.
EarlyNeedsApproval == \A r \in Requests : early[r] = "allow" => Allowed(TurnOf[r])

TableInv == TableNamesRunningTurn /\ ClaimantStaysReachable
ApprovalInv == ToolsNeedApproval /\ EarlyNeedsApproval
Inv == TypeInv /\ TableInv /\ ApprovalInv

---------------------------------------------------------------------------
(* Types                                                                   *)

\* The steps of one request's tasks, by what they leave alone.
TableSteps(r) == Post(r) \/ Release(r)
EngineSteps(r) == EngineAsk(r) \/ EngineResumes(r) \/ EngineEnds(r) \/ EngineAborts(r)
DriverSteps(r) == Drain(r) \/ DrainEnd(r) \/ DriverFault(r)
ReaderSteps(r) == Disconnect(r) \/ StreamEnds(r) \/ Watchdog(r)

\* Next, with the steps of one request grouped.
LEMMA NextCases ==
    ASSUME [Next]_vars
    PROVE  \/ \E r \in Requests : \/ TableSteps(r) \/ EngineSteps(r)
                                  \/ DriverSteps(r) \/ ReaderSteps(r)
                                  \/ \E d \in Answers : ControlResponse(r, d)
           \/ \E t \in TurnIds : CancelRoute(t)
           \/ UNCHANGED vars
  BY DEF Next, Done, TableSteps, EngineSteps, DriverSteps, ReaderSteps

\* The state before the first request (ACTIVE_TURNS is empty) is well typed.
LEMMA InitTypes == Init => TypeInv
  <1> SUFFICES ASSUME Init PROVE TypeInv
    OBVIOUS
  <1>1. Types
    BY DEF Init, Types, Answers
  <1>2. FreshNotStarted /\ QueueBounded
    BY DEF Init, FreshNotStarted, QueueBounded
  <1>3. QED
    BY <1>1, <1>2 DEF TypeInv

\* Every step between two awaits keeps the types and the bound on the queue.
LEMMA StepTypes == TypeInv /\ [Next]_vars => TypeInv'
  <1> SUFFICES ASSUME TypeInv, [Next]_vars PROVE TypeInv'
    OBVIOUS
  <1> USE TurnAssumption DEF TurnAssumption, TypeInv, Types, Answers
  <1>1. ASSUME NEW r \in Requests, TableSteps(r) PROVE TypeInv'
    <2>1. CASE Post(r)
      <3>1. FreshNotStarted'
        BY <2>1 DEF Post, FreshNotStarted
      <3>2. QueueBounded'
        BY <2>1 DEF Post, QueueBounded, FreshNotStarted
      <3>3. Types'
        BY <2>1 DEF Post, try_register
      <3>4. QED
        BY <3>1, <3>2, <3>3
    <2>2. CASE Release(r)
      BY <2>2 DEF Release, unregister, FreshNotStarted, QueueBounded
    <2>3. QED
      BY <1>1, <2>1, <2>2 DEF TableSteps
  <1>2. ASSUME NEW r \in Requests, EngineSteps(r) PROVE TypeInv'
    <2>1. CASE EngineAsk(r)
      <3>1. FreshNotStarted'
        BY <2>1 DEF EngineAsk, FreshNotStarted
      <3>2. Types' /\ QueueBounded'
        <4>1. CASE Closed(r) /\ early[r] = "none"
          <5>1. /\ ask' = [ask EXCEPT ![r] = "deny"]
                /\ UNCHANGED <<driver, claimed, registry, engine, queue, early, shown,
                               cancel, sub, answered>>
            BY <2>1, <4>1 DEF EngineAsk, tableVars
          <5>2. Types'
            BY <5>1
          <5>3. QueueBounded'
            BY <5>1 DEF QueueBounded
          <5>4. QED
            BY <5>2, <5>3
        <4>2. CASE ~(Closed(r) /\ early[r] = "none")
          <5>1. /\ ask' = [ask EXCEPT ![r] = IF early[r] = "none" THEN "open" ELSE early[r]]
                /\ early' = [early EXCEPT ![r] = "none"]
                /\ engine' = [engine EXCEPT ![r] = "asking"]
                /\ queue' = [queue EXCEPT ![r] = Append(@, "control")]
                /\ engine[r] = "running" /\ ask[r] = "none"
                /\ UNCHANGED <<driver, claimed, registry, shown, cancel, sub, answered>>
            BY <2>1, <4>2 DEF EngineAsk, Emit, tableVars
          <5>2. Types'
            BY <5>1
          <5>3. QueueBounded'
            BY <5>1 DEF QueueBounded
          <5>4. QED
            BY <5>2, <5>3
        <4>3. QED
          BY <4>1, <4>2
      <3>3. QED
        BY <3>1, <3>2
    <2>2. CASE EngineResumes(r)
      BY <2>2 DEF EngineResumes, tableVars, FreshNotStarted, QueueBounded
    <2>3. CASE EngineEnds(r) \/ EngineAborts(r)
      <3>1. /\ engine[r] \in {"running", "asking"}
            /\ engine' = [engine EXCEPT ![r] = "ended"]
            /\ ask' = [ask EXCEPT ![r] = IF @ = "open" THEN "cancelled" ELSE @]
            /\ queue' = [queue EXCEPT ![r] = Append(@, "end")]
            /\ UNCHANGED <<driver, claimed, registry, shown, cancel, early, sub, answered>>
        BY <2>3 DEF EngineEnds, EngineAborts, EngineStops, Emit, tableVars
      <3>2. Types'
        BY <3>1
      <3>3. FreshNotStarted'
        BY <3>1 DEF FreshNotStarted
      <3>4. QueueBounded'
        BY <3>1 DEF QueueBounded
      <3>5. QED
        BY <3>2, <3>3, <3>4
    <2>4. QED
      BY <1>2, <2>1, <2>2, <2>3 DEF EngineSteps
  <1>3. ASSUME NEW r \in Requests, DriverSteps(r) PROVE TypeInv'
    <2>1. CASE Drain(r)
      <3>1. Types' /\ FreshNotStarted'
        BY <2>1 DEF Drain, FreshNotStarted, tableVars
      <3>2. Len(Tail(queue[r])) <= Len(queue[r])
        BY <2>1 DEF Drain
      <3>3. QueueBounded'
        BY <2>1, <3>2 DEF Drain, QueueBounded
      <3>4. QED
        BY <3>1, <3>3
    <2>2. CASE DrainEnd(r) \/ DriverFault(r)
      <3>1. /\ driver[r] = "draining"
            /\ driver' = [driver EXCEPT ![r] = "teardown"]
            /\ cancel' = [cancel EXCEPT ![r] = TRUE]
            /\ ask' = [ask EXCEPT ![r] = IF @ = "open" THEN "deny" ELSE @]
            /\ UNCHANGED <<claimed, registry, engine, shown, early, sub, answered>>
        BY <2>2 DEF DrainEnd, DriverFault, TearDown, close, tableVars
      <3>2. queue' = queue \/ (queue[r] # <<>> /\ queue' = [queue EXCEPT ![r] = Tail(@)])
        BY <2>2 DEF DrainEnd, DriverFault
      <3>3. /\ queue' \in [Requests -> Seq({"control", "end"})]
            /\ \A q \in Requests : Len(queue'[q]) <= Len(queue[q])
        <4>1. queue[r] # <<>> => /\ Tail(queue[r]) \in Seq({"control", "end"})
                                 /\ Len(Tail(queue[r])) <= Len(queue[r])
          OBVIOUS
        <4>2. \A q \in Requests : Len(queue[q]) \in Nat
          OBVIOUS
        <4>3. CASE queue' = queue
          BY <4>2, <4>3
        <4>4. CASE queue[r] # <<>> /\ queue' = [queue EXCEPT ![r] = Tail(@)]
          <5>1. \A q \in Requests : queue'[q] = IF q = r THEN Tail(queue[r]) ELSE queue[q]
            BY <4>4
          <5>2. queue' \in [Requests -> Seq({"control", "end"})]
            BY <4>1, <4>4
          <5>3. QED
            BY <4>1, <4>2, <4>4, <5>1, <5>2
        <4>5. QED
          BY <3>2, <4>3, <4>4
      <3>4. Types'
        BY <3>1, <3>3
      <3>5. FreshNotStarted'
        BY <3>1 DEF FreshNotStarted
      <3>6. \A q \in Requests : ask'[q] = "none" <=> ask[q] = "none"
        BY <3>1
      <3>7. \A q \in Requests : Len(queue'[q]) \in Nat /\ Len(queue[q]) \in Nat
        BY <3>3
      <3>8. QueueBounded'
        BY <3>1, <3>3, <3>6, <3>7 DEF QueueBounded
      <3>9. QED
        BY <3>4, <3>5, <3>8
    <2>3. QED
      BY <1>3, <2>1, <2>2 DEF DriverSteps
  <1>4. ASSUME NEW r \in Requests, ReaderSteps(r) PROVE TypeInv'
    <2>1. CASE Disconnect(r) \/ StreamEnds(r)
      BY <2>1 DEF Disconnect, StreamEnds, tableVars, FreshNotStarted, QueueBounded
    <2>2. CASE Watchdog(r)
      BY <2>2 DEF Watchdog, tableVars, FreshNotStarted, QueueBounded
    <2>3. QED
      BY <1>4, <2>1, <2>2 DEF ReaderSteps
  <1>5. ASSUME NEW q \in Requests, NEW d \in Answers, ControlResponse(q, d) PROVE TypeInv'
    BY <1>5 DEF ControlResponse, deliver, tableVars, FreshNotStarted, QueueBounded
  <1>6. ASSUME NEW t \in TurnIds, CancelRoute(t) PROVE TypeInv'
    BY <1>6 DEF CancelRoute, tableVars, FreshNotStarted, QueueBounded
  <1>7. CASE UNCHANGED vars
    BY <1>7 DEF vars, tableVars, FreshNotStarted, QueueBounded
  <1>8. QED
    BY <1>1, <1>2, <1>3, <1>4, <1>5, <1>6, <1>7, NextCases

---------------------------------------------------------------------------
(* The active-turn table                                                   *)

\* Only a post and a release touch the table, and only a post and the driver
\* move a driver between running and not running.
LEMMA OtherStepsKeepTable ==
    ASSUME TypeInv, NEW r \in Requests,
           \/ EngineSteps(r) \/ DriverSteps(r) \/ ReaderSteps(r)
           \/ \E d \in Answers : ControlResponse(r, d)
           \/ \E t \in TurnIds : CancelRoute(t)
           \/ UNCHANGED vars
    PROVE  /\ UNCHANGED <<claimed, registry>>
           /\ \A q \in Requests : /\ Running(q)' <=> Running(q)
                                  /\ driver[q] = "done" <=> driver'[q] = "done"
  <1>1. CASE DriverSteps(r)
    <2>1. /\ UNCHANGED <<claimed, registry>>
          /\ \/ driver' = driver
             \/ driver[r] = "draining" /\ driver' = [driver EXCEPT ![r] = "teardown"]
      BY <1>1 DEF DriverSteps, Drain, DrainEnd, DriverFault, TearDown, tableVars
    <2>2. QED
      BY <2>1 DEF Running, TypeInv, Types
  <1>2. CASE ~DriverSteps(r)
    <2>1. UNCHANGED <<claimed, registry, driver>>
      BY <1>2 DEF EngineSteps, EngineAsk, EngineResumes, EngineEnds, EngineAborts, EngineStops,
                  ReaderSteps, Disconnect, StreamEnds, Watchdog, ControlResponse, CancelRoute,
                  vars, tableVars
    <2>2. QED
      BY <2>1 DEF Running
  <1>3. QED
    BY <1>1, <1>2

\* try_register: the poster runs afterwards, and it holds the free slot.
LEMMA PostTable ==
    ASSUME TypeInv, TableInv, NEW r \in Requests, Post(r)
    PROVE  TableInv'
  <1> USE TurnAssumption DEF TurnAssumption, TypeInv, Types
  <1>1. /\ driver' = [driver EXCEPT ![r] = "draining"]
        /\ claimed' = [claimed EXCEPT ![r] = registry[TurnOf[r]] = None]
        /\ registry' = [registry EXCEPT ![TurnOf[r]] = IF @ = None THEN r ELSE @]
        /\ driver[r] = "none"
    BY DEF Post, try_register, FreshNotStarted
  <1>2. ~Running(r) /\ Running(r)'
    BY <1>1 DEF Running
  <1>3. \A q \in Requests \ {r} : /\ driver'[q] = driver[q] /\ claimed'[q] = claimed[q]
                                  /\ Running(q)' <=> Running(q)
    BY <1>1 DEF Running
  <1>4. TableNamesRunningTurn'
    <2>1. SUFFICES ASSUME NEW t \in TurnIds, registry'[t] # None
                   PROVE  /\ Running(registry[t])'
                          /\ claimed'[registry'[t]]
                          /\ TurnOf[registry'[t]] = t
      BY DEF TableNamesRunningTurn
    <2>2. CASE registry[t] = None
      <3>1. registry'[t] = r /\ t = TurnOf[r]
        BY <1>1, <2>1, <2>2
      <3>2. QED
        BY <1>1, <1>2, <2>2, <3>1
    <2>3. CASE registry[t] # None
      <3>1. registry'[t] = registry[t] /\ registry[t] \in Requests \ {r}
        BY <1>1, <1>2, <2>3 DEF TableInv, TableNamesRunningTurn
      <3>2. QED
        BY <1>3, <2>3, <3>1 DEF TableInv, TableNamesRunningTurn
    <2>4. QED
      BY <2>2, <2>3
  <1>5. ClaimantStaysReachable'
    <2>1. SUFFICES ASSUME NEW p \in Requests, claimed'[p], Running(p)',
                          registry'[TurnOf[p]] # p
                   PROVE  \E q \in Requests \ {p} :
                             TurnOf[q] = TurnOf[p] /\ ~claimed'[q] /\ driver'[q] = "done"
      BY DEF ClaimantStaysReachable
    <2>2. p # r
      BY <1>1, <2>1
    <2>3. claimed[p] /\ Running(p) /\ registry[TurnOf[p]] # p
      BY <1>1, <1>2, <1>3, <2>1, <2>2 DEF TableInv, TableNamesRunningTurn
    <2>4. PICK q \in Requests \ {p} : TurnOf[q] = TurnOf[p] /\ ~claimed[q] /\ driver[q] = "done"
      BY <2>3 DEF TableInv, ClaimantStaysReachable
    <2>5. q # r
      BY <1>1, <2>4
    <2>6. QED
      BY <1>3, <2>4, <2>5
  <1>6. QED
    BY <1>4, <1>5 DEF TableInv

\* unregister: a claimant frees its own slot at most; one that was refused the
\* slot frees whatever is there, and is the witness that it did.
LEMMA ReleaseTable ==
    ASSUME TypeInv, TableInv, NEW r \in Requests, Release(r)
    PROVE  TableInv'
  <1> USE TurnAssumption DEF TurnAssumption, TypeInv, Types
  <1>1. /\ driver' = [driver EXCEPT ![r] = "done"]
        /\ claimed' = claimed
        /\ registry' = [registry EXCEPT ![TurnOf[r]] =
                            IF claimed[r] /\ @ # r THEN @ ELSE None]
        /\ driver[r] = "teardown"
    BY DEF Release, unregister
  <1>2. \A q \in Requests \ {r} : driver'[q] = driver[q] /\ (Running(q)' <=> Running(q))
    BY <1>1 DEF Running
  <1>3. TableNamesRunningTurn'
    <2>1. SUFFICES ASSUME NEW t \in TurnIds, registry'[t] # None
                   PROVE  /\ Running(registry[t])'
                          /\ claimed'[registry'[t]]
                          /\ TurnOf[registry'[t]] = t
      BY DEF TableNamesRunningTurn
    <2>2. registry'[t] = registry[t] /\ registry[t] \in Requests
      BY <1>1, <2>1
    <2>3. registry[t] # r
      BY <1>1, <2>1, <2>2 DEF TableInv, TableNamesRunningTurn
    <2>4. QED
      BY <1>1, <1>2, <2>1, <2>2, <2>3 DEF TableInv, TableNamesRunningTurn
  <1>4. ClaimantStaysReachable'
    <2>1. SUFFICES ASSUME NEW p \in Requests, claimed'[p], Running(p)',
                          registry'[TurnOf[p]] # p
                   PROVE  \E q \in Requests \ {p} :
                             TurnOf[q] = TurnOf[p] /\ ~claimed'[q] /\ driver'[q] = "done"
      BY DEF ClaimantStaysReachable
    <2>2. p # r /\ claimed[p] /\ Running(p)
      BY <1>1, <1>2, <2>1 DEF Running
    <2>3. CASE registry[TurnOf[p]] # p
      <3>1. PICK q \in Requests \ {p} :
                    TurnOf[q] = TurnOf[p] /\ ~claimed[q] /\ driver[q] = "done"
        BY <2>2, <2>3 DEF TableInv, ClaimantStaysReachable
      <3>2. QED
        BY <1>1, <1>2, <3>1
    <2>4. CASE registry[TurnOf[p]] = p
      <3>1. TurnOf[r] = TurnOf[p] /\ ~claimed[r]
        BY <1>1, <2>1, <2>2, <2>4
      <3>2. QED
        BY <1>1, <2>2, <3>1
    <2>5. QED
      BY <2>3, <2>4
  <1>5. QED
    BY <1>3, <1>4 DEF TableInv

\* Every step keeps the table's invariant.
LEMMA StepTable == TypeInv /\ TableInv /\ [Next]_vars => TableInv'
  <1> SUFFICES ASSUME TypeInv, TableInv, [Next]_vars PROVE TableInv'
    OBVIOUS
  <1>1. ASSUME NEW r \in Requests, TableSteps(r) PROVE TableInv'
    BY <1>1, PostTable, ReleaseTable DEF TableSteps
  <1>2. ASSUME UNCHANGED <<claimed, registry>>,
               \A q \in Requests : /\ Running(q)' <=> Running(q)
                                   /\ driver[q] = "done" <=> driver'[q] = "done"
        PROVE  TableInv'
    <2>1. \A t \in TurnIds : registry[t] # None => registry[t] \in Requests
      BY DEF TypeInv, Types
    <2>2. TableNamesRunningTurn'
      BY <1>2, <2>1 DEF TableInv, TableNamesRunningTurn, Running
    <2>3. ClaimantStaysReachable'
      BY <1>2 DEF TableInv, ClaimantStaysReachable, Running
    <2>4. QED
      BY <2>2, <2>3 DEF TableInv
  <1>3. ASSUME NEW r \in Requests,
               \/ EngineSteps(r) \/ DriverSteps(r) \/ ReaderSteps(r)
               \/ \E d \in Answers : ControlResponse(r, d)
        PROVE  TableInv'
    BY <1>2, <1>3, OtherStepsKeepTable
  <1>4. ASSUME NEW t \in TurnIds, CancelRoute(t) PROVE TableInv'
    <2>1. UNCHANGED <<claimed, registry, driver>>
      BY <1>4 DEF CancelRoute, tableVars
    <2>2. QED
      BY <1>2, <2>1 DEF Running
  <1>5. CASE UNCHANGED vars
    BY <1>2, <1>5 DEF vars, tableVars, Running
  <1>6. QED
    BY <1>1, <1>3, <1>4, <1>5, NextCases

---------------------------------------------------------------------------
(* Tools and approvals                                                     *)

\* Every step keeps that a settled or kept allow was given by the user.
LEMMA StepApproval == TypeInv /\ TableInv /\ ApprovalInv /\ [Next]_vars => ApprovalInv'
  <1> SUFFICES ASSUME TypeInv, TableInv, ApprovalInv, [Next]_vars PROVE ApprovalInv'
    OBVIOUS
  <1> USE TurnAssumption DEF TurnAssumption, TypeInv, Types, Answers
  <1>1. ASSUME answered' = answered,
               \A r \in Requests : /\ ask'[r] = "allow" => ask[r] = "allow" \/ early[r] = "allow"
                                   /\ early'[r] = "allow" => early[r] = "allow"
        PROVE  ApprovalInv'
    BY <1>1 DEF ApprovalInv, ToolsNeedApproval, EarlyNeedsApproval, Allowed
  <1>2. ASSUME NEW q \in Requests, NEW d \in Answers, ControlResponse(q, d) PROVE ApprovalInv'
    <2> PICK holder \in Requests : holder = registry[TurnOf[q]]
      BY <1>2 DEF ControlResponse
    <2>1. /\ answered[q] = "none"
          /\ answered' = [answered EXCEPT ![q] = d]
          /\ ask' = [ask EXCEPT ![holder] = IF @ = "open" THEN d ELSE @]
          /\ early' = [early EXCEPT ![holder] = IF ask[holder] = "none" THEN d ELSE @]
      BY <1>2 DEF ControlResponse, deliver
    <2>2. TurnOf[holder] = TurnOf[q]
      BY <2>1 DEF TableInv, TableNamesRunningTurn
    <2>3. \A t \in TurnIds : Allowed(t) => Allowed(t)'
      BY <2>1 DEF Allowed
    <2>4. d = "allow" => Allowed(TurnOf[holder])'
      BY <2>1, <2>2 DEF Allowed
    <2>5. \A r \in Requests : ask'[r] = "allow" \/ early'[r] = "allow" => Allowed(TurnOf[r])'
      <3>1. SUFFICES ASSUME NEW r \in Requests, ask'[r] = "allow" \/ early'[r] = "allow"
                     PROVE  Allowed(TurnOf[r])'
        OBVIOUS
      <3>2. CASE ask[r] = "allow" \/ early[r] = "allow"
        <4>1. Allowed(TurnOf[r])
          BY <3>2 DEF ApprovalInv, ToolsNeedApproval, EarlyNeedsApproval, Allowed
        <4>2. QED
          BY <2>3, <4>1
      <3>3. CASE ~(ask[r] = "allow" \/ early[r] = "allow")
        <4>1. r = holder /\ d = "allow"
          BY <2>1, <3>1, <3>3
        <4>2. QED
          BY <2>4, <4>1
      <3>4. QED
        BY <3>2, <3>3
    <2>6. QED
      BY <2>5 DEF ApprovalInv, ToolsNeedApproval, EarlyNeedsApproval, Allowed
  <1>3. ASSUME NEW r \in Requests, EngineSteps(r) PROVE ApprovalInv'
    <2>1. CASE EngineAsk(r)
      BY <1>1, <2>1 DEF EngineAsk
    <2>2. CASE EngineResumes(r)
      BY <1>1, <2>2 DEF EngineResumes
    <2>3. CASE EngineEnds(r) \/ EngineAborts(r)
      BY <1>1, <2>3 DEF EngineEnds, EngineAborts, EngineStops
    <2>4. QED
      BY <1>3, <2>1, <2>2, <2>3 DEF EngineSteps
  <1>4. ASSUME NEW r \in Requests, DriverSteps(r) PROVE ApprovalInv'
    BY <1>1, <1>4 DEF DriverSteps, Drain, DrainEnd, DriverFault, TearDown, close
  <1>5. ASSUME NEW r \in Requests, TableSteps(r) \/ ReaderSteps(r) PROVE ApprovalInv'
    BY <1>1, <1>5 DEF TableSteps, Post, Release, ReaderSteps, Disconnect, StreamEnds, Watchdog
  <1>6. ASSUME NEW t \in TurnIds, CancelRoute(t) PROVE ApprovalInv'
    BY <1>1, <1>6 DEF CancelRoute
  <1>7. CASE UNCHANGED vars
    BY <1>1, <1>7 DEF vars
  <1>8. QED
    BY <1>2, <1>3, <1>4, <1>5, <1>6, <1>7, NextCases

---------------------------------------------------------------------------
(* Theorems                                                                *)

\* No request has started in the initial state.
LEMMA InitInv == Init => Inv
  <1> SUFFICES ASSUME Init PROVE Inv
    OBVIOUS
  <1>1. TypeInv
    BY InitTypes
  <1>2. TableInv
    BY DEF Init, TableInv, TableNamesRunningTurn, ClaimantStaysReachable
  <1>3. ApprovalInv
    BY DEF Init, ApprovalInv, ToolsNeedApproval, EarlyNeedsApproval
  <1>4. QED
    BY <1>1, <1>2, <1>3 DEF Inv

\* The invariant is inductive.
LEMMA SpecInv == Spec => []Inv
  <1>1. Inv /\ [Next]_vars => Inv'
    BY StepTypes, StepTable, StepApproval DEF Inv
  <1>2. QED
    BY InitInv, <1>1, PTL DEF Spec

\* Every variable of the live turns keeps its type, and the queue between
\* producer and driver never holds more than one ask and one end.
THEOREM TurnTypeCorrect == Spec => []TypeOK
  <1>1. Inv => TypeOK
    <2>1. SUFFICES ASSUME Inv PROVE \A r \in Requests : Len(queue[r]) <= 2
      BY DEF Inv, TypeInv, Types, TypeOK
    <2>2. TAKE r \in Requests
    <2>3. Len(queue[r]) <= (IF ask[r] = "none" THEN 0 ELSE 1)
                             + (IF engine[r] = "ended" THEN 1 ELSE 0)
      BY <2>1 DEF Inv, TypeInv, QueueBounded
    <2>4. Len(queue[r]) \in Nat
      BY <2>1 DEF Inv, TypeInv, Types
    <2>5. QED
      BY <2>3, <2>4
  <1>2. QED
    BY <1>1, SpecInv, PTL

\* An entry of the active-turn table (ActiveTurnRegistry) belongs to a running
\* claimant of that turn, for any number of requests that share turn ids.
THEOREM TableIsLive == Spec => []TableNamesRunningTurn
  <1>1. Inv => TableNamesRunningTurn
    BY DEF Inv, TableInv
  <1>2. QED
    BY <1>1, SpecInv, PTL

\* A running claimant loses its entry only to the positional unregister of a
\* duplicate that had been refused the slot (streaming_driver.py:289).
THEOREM ClaimantReachable == Spec => []ClaimantStaysReachable
  <1>1. Inv => ClaimantStaysReachable
    BY DEF Inv, TableInv
  <1>2. QED
    BY <1>1, SpecInv, PTL

\* HeadlessSink fails closed: no tool is allowed without an answer of the user
\* to an ask of the same turn id.
THEOREM NoToolUnapproved == Spec => []ToolsNeedApproval
  <1>1. Inv => ToolsNeedApproval
    BY DEF Inv, ApprovalInv
  <1>2. QED
    BY <1>1, SpecInv, PTL
=============================================================================
