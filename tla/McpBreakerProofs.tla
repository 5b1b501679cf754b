-------------------------- MODULE McpBreakerProofs --------------------------
(***************************************************************************)
(* The circuit breaker admits one trial per half-open period, for any      *)
(* number of calls, any threshold and any number of attempts.              *)
(*                                                                         *)
(* SingleTrial speaks of the holder of the latch; that a result takes the  *)
(* latch from a call that is a trial needs LatchedByTrial beside it, and   *)
(* that an ordinary admission makes no old trial run needs TrialsStarted.  *)
(* AttemptLeft bounds the attempt counter.                                 *)
(***************************************************************************)
EXTENDS McpBreaker, TLAPS

\* The latch is held by a call that was admitted as a trial
\* (CircuitBreakerRegistry.allow sets both at once).
LatchedByTrial == in_flight => holder \in trials

\* A trial has passed allow.
TrialsStarted == \A c \in trials : pc[c] # "new"

\* A call sleeps only when it has an attempt left.
AttemptLeft == \A c \in Calls : pc[c] = "backoff" => attempt[c] < MaxAttempts

Inv == TypeOK /\ AttemptLeft /\ LatchedByTrial /\ TrialsStarted /\ SingleTrial

\* A fresh registry (CircuitBreakerState's defaults) satisfies the invariant.
LEMMA InitInv == Init => Inv
  <1> SUFFICES ASSUME Init PROVE Inv
    OBVIOUS
  <1>1. attempt \in [Calls -> 1..MaxAttempts]
    <2>1. 1 \in 1..MaxAttempts
      BY BreakerAssumption DEF BreakerAssumption
    <2>2. QED
      BY <2>1 DEF Init
  <1>2. /\ in_flight \in BOOLEAN /\ cooled \in BOOLEAN
        /\ in_flight <=> (state = "half_open")
    BY DEF Init
  <1>3. TypeOK
    BY <1>1, <1>2 DEF Init, TypeOK
  <1>4. AttemptLeft /\ LatchedByTrial /\ TrialsStarted /\ SingleTrial
    BY DEF Init, AttemptLeft, LatchedByTrial, TrialsStarted, SingleTrial
  <1>5. QED
    BY <1>3, <1>4 DEF Inv

\* Refuse, Retry, BackoffElapses and CancelBackoff leave the breaker alone and
\* start no trial; a call that was not running does not run after them.
LEMMA QuietInv ==
    ASSUME Inv, NEW c \in Calls,
           Refuse(c) \/ Retry(c) \/ BackoffElapses(c) \/ CancelBackoff(c)
    PROVE  Inv'
  <1>1. UNCHANGED <<breakerVars, holder, trials, ousted>>
    BY DEF Refuse, Retry, BackoffElapses, CancelBackoff
  <1>2. /\ pc' \in [Calls -> {"new", "calling", "backoff", "done", "denied", "escaped"}]
        /\ attempt' \in [Calls -> 1..MaxAttempts]
        /\ AttemptLeft'
    <2>1. CASE BackoffElapses(c)
      <3>1. attempt[c] + 1 \in 1..MaxAttempts
        BY <2>1, BreakerAssumption
        DEF BreakerAssumption, BackoffElapses, Inv, TypeOK, AttemptLeft
      <3>2. QED
        BY <2>1, <3>1 DEF BackoffElapses, Inv, TypeOK, AttemptLeft
    <2>2. CASE Refuse(c) \/ Retry(c) \/ CancelBackoff(c)
      BY <2>2 DEF Refuse, Retry, CancelBackoff, Inv, TypeOK, AttemptLeft
    <2>3. QED
      BY <2>1, <2>2
  <1>3. \A d \in Calls : (Running(d)' => Running(d)) /\ (pc[d] # "new" => pc'[d] # "new")
    BY DEF Refuse, Retry, BackoffElapses, CancelBackoff, Running, Inv, TypeOK
  <1>4. QED
    BY <1>1, <1>2, <1>3 DEF Inv, TypeOK, AttemptLeft, LatchedByTrial, TrialsStarted,
                            SingleTrial, breakerVars

\* async_call_with_resilience records a result: whoever held the latch and is
\* not the caller is ousted, the caller stops running.
LEMMA ResultInv ==
    ASSUME Inv, NEW c \in Calls, Running(c),
           pc' = [pc EXCEPT ![c] = "done"],
           record_success(c) \/ record_failure(c),
           UNCHANGED <<attempt, holder, trials>>
    PROVE  Inv'
  <1>1. /\ state' \in {"closed", "open", "half_open"}
        /\ failures' \in Nat
        /\ cooled' \in BOOLEAN
        /\ in_flight' = FALSE
        /\ state' # "half_open"
    <2>1. CASE record_success(c)
      BY <2>1 DEF record_success
    <2>2. CASE record_failure(c)
      <3>1. state = "half_open" \/ ~in_flight
        BY DEF Inv, TypeOK
      <3>2. failures' \in Nat
        BY <2>2 DEF record_failure, Inv, TypeOK
      <3>3. CASE state = "half_open" \/ failures + 1 >= Threshold
        <4>1. state' = "open" /\ cooled' = FALSE /\ in_flight' = FALSE
          BY <2>2, <3>3 DEF record_failure
        <4>2. cooled' \in BOOLEAN
          BY <4>1
        <4>3. QED
          BY <3>2, <4>1, <4>2
      <3>4. CASE ~(state = "half_open" \/ failures + 1 >= Threshold)
        <4>1. UNCHANGED <<state, cooled, in_flight>>
          BY <2>2, <3>4 DEF record_failure
        <4>2. in_flight = FALSE
          BY <3>1, <3>4 DEF Inv, TypeOK
        <4>3. state' \in {"closed", "open"} /\ cooled' \in BOOLEAN
          BY <3>4, <4>1 DEF Inv, TypeOK
        <4>4. QED
          BY <3>2, <4>1, <4>2, <4>3
      <3>5. QED
        BY <3>3, <3>4
    <2>3. QED
      BY <2>1, <2>2
  <1>2. ousted' = IF in_flight /\ holder # c THEN ousted \cup {holder} ELSE ousted
    BY DEF record_success, record_failure, Oust
  <1>3. TypeOK'
    BY <1>1, <1>2 DEF Inv, TypeOK, LatchedByTrial
  <1>4. AttemptLeft' /\ LatchedByTrial' /\ TrialsStarted'
    BY <1>1 DEF Inv, TypeOK, AttemptLeft, LatchedByTrial, TrialsStarted
  <1>5. SingleTrial'
    <2>1. SUFFICES ASSUME NEW d \in trials', d \notin ousted', Running(d)'
                   PROVE  FALSE
      BY DEF SingleTrial
    <2>2. d # c /\ Running(d)
      BY <2>1 DEF Running, Inv, TypeOK
    <2>3. d \in trials \ ousted
      BY <1>2, <2>1
    <2>4. in_flight /\ holder = d
      BY <2>2, <2>3 DEF Inv, SingleTrial
    <2>5. QED
      BY <1>2, <2>1, <2>2, <2>4
  <1>6. QED
    BY <1>3, <1>4, <1>5 DEF Inv

\* allow: a trial is admitted only while nobody holds the latch, when every
\* earlier trial has ended or was ousted.
LEMMA AdmitInv ==
    ASSUME Inv, NEW c \in Calls, Admit(c)
    PROVE  Inv'
  <1>1. /\ pc' = [pc EXCEPT ![c] = "calling"] /\ pc[c] = "new"
        /\ UNCHANGED <<failures, cooled, attempt, ousted>>
    BY DEF Admit
  <1>2. ~in_flight
    BY DEF Admit, Denied, Trial, half_open_denies, Inv, TypeOK
  <1>3. \A d \in trials \ ousted : ~Running(d)
    BY <1>2 DEF Inv, SingleTrial
  <1>4. c \notin trials
    BY <1>1 DEF Inv, TrialsStarted
  <1>5. \A d \in Calls : d # c => pc'[d] = pc[d]
    BY <1>1 DEF Inv, TypeOK
  <1>6. CASE ~Trial
    <2>1. UNCHANGED <<state, in_flight, holder, trials>>
      BY <1>6 DEF Admit
    <2>2. TypeOK' /\ AttemptLeft' /\ LatchedByTrial' /\ TrialsStarted'
      BY <1>1, <1>4, <1>5, <2>1 DEF Inv, TypeOK, AttemptLeft, LatchedByTrial, TrialsStarted
    <2>3. SingleTrial'
      BY <1>1, <1>3, <1>4, <1>5, <2>1 DEF Inv, TypeOK, SingleTrial, Running
    <2>4. QED
      BY <2>2, <2>3 DEF Inv
  <1>7. CASE Trial
    <2>1. /\ state' = "half_open" /\ in_flight' = TRUE
          /\ holder' = c /\ trials' = trials \cup {c}
      BY <1>7 DEF Admit
    <2>2. TypeOK' /\ AttemptLeft' /\ LatchedByTrial'
      BY <1>1, <2>1 DEF Inv, TypeOK, AttemptLeft, LatchedByTrial
    <2>3. TrialsStarted'
      BY <1>1, <1>5, <2>1 DEF Inv, TypeOK, TrialsStarted
    <2>4. SingleTrial'
      BY <1>1, <1>3, <1>5, <2>1 DEF Inv, TypeOK, SingleTrial, Running
    <2>5. QED
      BY <2>2, <2>3, <2>4 DEF Inv
  <1>8. QED
    BY <1>6, <1>7

\* Every step of the event loop keeps the invariant.
LEMMA NextInv == Inv /\ [Next]_vars => Inv'
  <1> SUFFICES ASSUME Inv, [Next]_vars PROVE Inv'
    OBVIOUS
  <1>1. CASE CooldownElapses
    BY <1>1 DEF CooldownElapses, Inv, TypeOK, AttemptLeft, LatchedByTrial, TrialsStarted,
                SingleTrial, Running
  <1>2. ASSUME NEW c \in Calls, Refuse(c) PROVE Inv'
    BY <1>2, QuietInv
  <1>3. ASSUME NEW c \in Calls, Admit(c) PROVE Inv'
    BY <1>3, AdmitInv
  <1>4. ASSUME NEW c \in Calls, CallStep(c) PROVE Inv'
    <2>1. CASE Succeed(c) \/ GiveUp(c) \/ CancelAttempt(c)
      <3>1. /\ Running(c)
            /\ pc' = [pc EXCEPT ![c] = "done"]
            /\ record_success(c) \/ record_failure(c)
            /\ UNCHANGED <<attempt, holder, trials>>
        BY <2>1 DEF Succeed, GiveUp, CancelAttempt, Running
      <3>2. QED
        BY <3>1, ResultInv
    <2>2. CASE Retry(c) \/ BackoffElapses(c) \/ CancelBackoff(c)
      BY <2>2, QuietInv
    <2>3. QED
      BY <1>4, <2>1, <2>2 DEF CallStep
  <1>5. CASE UNCHANGED vars
    BY <1>5 DEF vars, breakerVars, Inv, TypeOK, AttemptLeft, LatchedByTrial, TrialsStarted,
                SingleTrial, Running
  <1>6. QED
    BY <1>1, <1>2, <1>3, <1>4, <1>5 DEF Next

\* The breaker's variables keep their types; the latch is set exactly while
\* the breaker is half-open, so the last branch of allow is never taken.
THEOREM BreakerTypeCorrect == Spec => []TypeOK
  BY InitInv, NextInv, PTL DEF Spec, Inv

\* allow admits one trial per half-open period: a trial that still runs holds
\* the latch, unless a result of a call admitted earlier ended its period.
THEOREM OneTrialPerPeriod == Spec => []SingleTrial
  BY InitInv, NextInv, PTL DEF Spec, Inv
=============================================================================
