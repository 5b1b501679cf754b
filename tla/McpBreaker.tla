----------------------------- MODULE McpBreaker -----------------------------
(***************************************************************************)
(* The circuit breaker of one MCP server and the calls that go through it: *)
(* CircuitBreakerRegistry and async_call_with_resilience.                  *)
(*                                                                         *)
(* An action is the code between two awaits of the event loop.  The clock  *)
(* is what the breaker asks of it: whether the cooldown of the last        *)
(* opening is over.  A timeout of an attempt is a retryable failure; the   *)
(* policy is enabled and no reconnect callback is passed, as in the        *)
(* composio tools.                                                         *)
(* The synchronous twin makes the same registry calls in the same order,   *)
(* each of them atomic under the registry's lock.                          *)
(***************************************************************************)
EXTENDS Naturals

CONSTANTS
    Calls,          \* tool calls to the server
    Threshold,      \* circuit_fail_threshold
    MaxAttempts,    \* reconnect_max_attempts
    None

ASSUME BreakerAssumption ==
    /\ Threshold \in Nat \ {0}
    /\ MaxAttempts \in Nat \ {0}
    /\ None \notin Calls

VARIABLES
    state,      \* CircuitBreakerState.state
    failures,   \* consecutive_failures
    in_flight,  \* half_open_in_flight
    cooled,     \* the cooldown since opened_at_ns is over
    pc,         \* where a call is
    attempt,    \* its attempt
    holder,     \* the call that set the latch last
    trials,     \* calls admitted as the trial of a half-open breaker
    ousted      \* trials whose half-open period another call's result ended

breakerVars == <<state, failures, in_flight, cooled>>
vars == <<breakerVars, pc, attempt, holder, trials, ousted>>

TypeOK ==
    /\ state \in {"closed", "open", "half_open"}
    /\ failures \in Nat
    /\ in_flight \in BOOLEAN
    /\ in_flight <=> (state = "half_open")
    /\ cooled \in BOOLEAN
    /\ pc \in [Calls -> {"new", "calling", "backoff", "done", "denied", "escaped"}]
    /\ attempt \in [Calls -> 1..MaxAttempts]
    /\ holder \in Calls \cup {None}
    /\ trials \subseteq Calls
    /\ ousted \subseteq trials

Init ==
    /\ state = "closed"
    /\ failures = 0
    /\ in_flight = FALSE
    /\ cooled = FALSE
    /\ pc = [c \in Calls |-> "new"]
    /\ attempt = [c \in Calls |-> 1]
    /\ holder = None
    /\ trials = {}
    /\ ousted = {}

Running(c) == pc[c] \in {"calling", "backoff"}

---------------------------------------------------------------------------
(* The registry                                                            *)

CooldownElapses ==
    /\ state = "open"
    /\ ~cooled
    /\ cooled' = TRUE
    /\ UNCHANGED <<state, failures, in_flight, pc, attempt, holder, trials, ousted>>

\* Mutant: a half-open breaker admits whoever asks.
half_open_denies_nobody == FALSE

half_open_denies == in_flight

\* allow() admits a call, as the trial when the breaker is not closed
Trial == \/ state = "open" /\ cooled
         \/ state = "half_open" /\ ~half_open_denies

Denied == ~(state = "closed" \/ Trial)

\* A result that arrives while another call holds the latch takes it away
Oust(c) == ousted' = IF in_flight /\ holder # c THEN ousted \cup {holder} ELSE ousted

record_success(c) ==
    /\ state' = "closed"
    /\ failures' = 0
    /\ cooled' = FALSE
    /\ in_flight' = FALSE
    /\ Oust(c)

\* Mutant: a failed trial leaves the latch to the next caller.
record_failure_keeps_latch(c) ==
    /\ failures' = failures + 1
    /\ IF state = "half_open" \/ failures + 1 >= Threshold
       THEN /\ state' = "open"
            /\ cooled' = FALSE
            /\ UNCHANGED in_flight
       ELSE UNCHANGED <<state, cooled, in_flight>>
    /\ Oust(c)

record_failure(c) ==
    /\ failures' = failures + 1
    /\ IF state = "half_open" \/ failures + 1 >= Threshold
       THEN /\ state' = "open"
            /\ cooled' = FALSE
            /\ in_flight' = FALSE
       ELSE UNCHANGED <<state, cooled, in_flight>>
    /\ Oust(c)

---------------------------------------------------------------------------
(* async_call_with_resilience                                              *)

Refuse(c) ==
    /\ pc[c] = "new"
    /\ Denied
    /\ pc' = [pc EXCEPT ![c] = "denied"]
    /\ UNCHANGED <<breakerVars, attempt, holder, trials, ousted>>

Admit(c) ==
    /\ pc[c] = "new"
    /\ ~Denied
    /\ pc' = [pc EXCEPT ![c] = "calling"]
    /\ IF Trial
       THEN /\ state' = "half_open"
            /\ in_flight' = TRUE
            /\ holder' = c
            /\ trials' = trials \cup {c}
       ELSE UNCHANGED <<state, in_flight, holder, trials>>
    /\ UNCHANGED <<failures, cooled, attempt, ousted>>

Succeed(c) ==
    /\ pc[c] = "calling"
    /\ pc' = [pc EXCEPT ![c] = "done"]
    /\ record_success(c)
    /\ UNCHANGED <<attempt, holder, trials>>

\* A transport error or a timeout with attempts left
Retry(c) ==
    /\ pc[c] = "calling"
    /\ attempt[c] < MaxAttempts
    /\ pc' = [pc EXCEPT ![c] = "backoff"]
    /\ UNCHANGED <<breakerVars, attempt, holder, trials, ousted>>

BackoffElapses(c) ==
    /\ pc[c] = "backoff"
    /\ pc' = [pc EXCEPT ![c] = "calling"]
    /\ attempt' = [attempt EXCEPT ![c] = @ + 1]
    /\ UNCHANGED <<breakerVars, holder, trials, ousted>>

\* An auth error at any attempt, or a transport error at the last one
GiveUp(c) ==
    /\ pc[c] = "calling"
    /\ pc' = [pc EXCEPT ![c] = "done"]
    /\ record_failure(c)
    /\ UNCHANGED <<attempt, holder, trials>>

\* Mutant: no handler for what is not an Exception.
EscapeUnrecorded(c) ==
    /\ pc[c] = "calling"
    /\ pc' = [pc EXCEPT ![c] = "done"]
    /\ UNCHANGED <<breakerVars, attempt, holder, trials, ousted>>

\* The turn is cancelled during an attempt: except BaseException
CancelAttempt(c) ==
    /\ pc[c] = "calling"
    /\ pc' = [pc EXCEPT ![c] = "done"]
    /\ record_failure(c)
    /\ UNCHANGED <<attempt, holder, trials>>

\* The turn is cancelled during the sleep, inside the except clause, where no
\* handler of the same try statement applies: nothing is recorded
CancelBackoff(c) ==
    /\ pc[c] = "backoff"
    /\ pc' = [pc EXCEPT ![c] = "escaped"]
    /\ UNCHANGED <<breakerVars, attempt, holder, trials, ousted>>

CallStep(c) ==
    \/ Succeed(c)
    \/ Retry(c)
    \/ BackoffElapses(c)
    \/ GiveUp(c)
    \/ CancelAttempt(c)
    \/ CancelBackoff(c)

Next ==
    \/ CooldownElapses
    \/ \E c \in Calls : Refuse(c) \/ Admit(c) \/ CallStep(c)

Spec == Init /\ [][Next]_vars

\* wait_for bounds every attempt and the backoff is a timer.
FairSpec == Spec /\ \A c \in Calls : WF_vars(CallStep(c))

---------------------------------------------------------------------------
(* Properties                                                              *)

\* allow "admits exactly one half-open trial": a running trial holds the latch,
\* unless the result of a call admitted before it has ended its period; so no
\* two running trials are of one half-open period.
SingleTrial ==
    \A c \in trials \ ousted : Running(c) => in_flight /\ holder = c

\* "the breaker never sticks half-open": a half-open breaker closes or opens
\* again, unless its trial was cancelled while it slept between two attempts.
TrialEnds ==
    \A c \in Calls :
        (state = "half_open" /\ holder = c)
            ~> (state # "half_open" \/ holder # c \/ pc[c] = "escaped")
=============================================================================
