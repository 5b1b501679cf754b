--------------------------- MODULE MissionActions ---------------------------
(***************************************************************************)
(* Human actions on hosted missions routed back into the work queue: the   *)
(* poll loop of MissionActionReconciler, its durable cursor in the table   *)
(* mission_action_cursor, and the mapping mission -> task that the         *)
(* projector's worker thread writes after the mission was created at the   *)
(* chat-proxy.                                                             *)
(*                                                                         *)
(* The chat-proxy is external: it keeps the action events, stamps them     *)
(* with created_at and returns the first `limit` events at or after        *)
(* `since`, ordered by (created_at, id).  Which control transition an      *)
(* event asks for is left out: whether the store accepts it is the subject *)
(* of WorkQueue; here an event is handled when its transition was          *)
(* requested or it was skipped for want of a mapping.                      *)
(***************************************************************************)
EXTENDS Naturals, Sequences, FiniteSets

CONSTANTS
    Events,         \* action events users may raise
    Missions,       \* missions this pod's tasks have
    MissionOf,      \* the mission an event is about
    At,             \* created_at of an event
    Pos,            \* its position in ORDER BY created_at, id
    Limit,          \* page size
    MaxProcessed,   \* max_processed_ids
    MaxFaults,      \* bound on crashes and failed polls
    NoEvent

ASSUME ActionsAssumption ==
    /\ MissionOf \in [Events -> Missions]
    /\ At \in [Events -> Nat \ {0}]
    /\ Pos \in [Events -> Nat]
    /\ \A e, f \in Events : Pos[e] = Pos[f] => e = f
    /\ \A e, f \in Events : At[e] < At[f] => Pos[e] < Pos[f]
    /\ Limit \in Nat \ {0}
    /\ MaxProcessed \in Nat \ {0}
    /\ MaxFaults \in Nat
    /\ NoEvent \notin Events

VARIABLES
    created,        \* missions that exist at the chat-proxy
    mapped,         \* missions with a row in mission_projection
    raised,         \* events stored by the chat-proxy
    last,           \* last_created_at of the durable cursor, 0 for NULL
    processed,      \* processed_ids of the durable cursor, oldest first
    page,           \* events of the current page not looked at yet
    current,        \* event applied whose cursor write is outstanding
    requests,       \* how often the transition of an event was requested
    skipped,        \* events skipped because their mission had no mapping
    faults

hosted == <<created, mapped, raised>>
vars == <<hosted, last, processed, page, current, requests, skipped, faults>>

Ids(s) == {s[i] : i \in DOMAIN s}

TypeOK ==
    /\ created \subseteq Missions
    /\ mapped \subseteq created
    /\ raised \subseteq Events
    /\ last \in {At[e] : e \in Events} \cup {0}
    /\ processed \in Seq(Events)
    /\ Len(processed) <= MaxProcessed
    /\ page \subseteq Events
    /\ current \in Events \cup {NoEvent}
    /\ requests \in [Events -> Nat]
    /\ skipped \subseteq Events
    /\ faults \in 0..MaxFaults

Init ==
    /\ created = {}
    /\ mapped = {}
    /\ raised = {}
    /\ last = 0
    /\ processed = <<>>
    /\ page = {}
    /\ current = NoEvent
    /\ requests = [e \in Events |-> 0]
    /\ skipped = {}
    /\ faults = 0

---------------------------------------------------------------------------
(* The projector's _ensure_mission: POST, then the mapping row             *)

CreateMission(m) ==
    /\ m \notin created
    /\ created' = created \cup {m}
    /\ UNCHANGED <<mapped, raised, last, processed, page, current, requests, skipped, faults>>

PersistMapping(m) ==
    /\ m \in created \ mapped
    /\ mapped' = mapped \cup {m}
    /\ UNCHANGED <<created, raised, last, processed, page, current, requests, skipped, faults>>

---------------------------------------------------------------------------
(* A user acts on a mission the hosted panel shows; the chat-proxy stores  *)
(* events in the order of their time stamps.                               *)

RaiseAction(e) ==
    /\ e \notin raised
    /\ MissionOf[e] \in created
    /\ \A f \in raised : Pos[f] < Pos[e]
    /\ raised' = raised \cup {e}
    /\ UNCHANGED <<created, mapped, last, processed, page, current, requests, skipped, faults>>

---------------------------------------------------------------------------
(* poll_once                                                               *)
\* GET /v1/missions/actions?since=last&limit=Limit
ListActionEvents ==
    LET since == {e \in raised : At[e] >= last}
    IN  {e \in since : Cardinality({f \in since : Pos[f] < Pos[e]}) < Limit}

Poll ==
    /\ page = {}
    /\ current = NoEvent
    /\ page' = ListActionEvents
    /\ UNCHANGED <<hosted, last, processed, current, requests, skipped, faults>>

\* Mutant: the page is not sorted.
AnyOf(S, e) == e \in S

FirstOf(S, e) == e \in S /\ \A f \in S : Pos[e] <= Pos[f]

\* Mutant: break instead of continue.
PassOverBreak(e) ==
    /\ current = NoEvent
    /\ FirstOf(page, e)
    /\ e \in Ids(processed)
    /\ page' = {}
    /\ UNCHANGED <<hosted, last, processed, current, requests, skipped, faults>>

\* An event whose id is in processed_ids is passed over.
PassOver(e) ==
    /\ current = NoEvent
    /\ FirstOf(page, e)
    /\ e \in Ids(processed)
    /\ page' = page \ {e}
    /\ UNCHANGED <<hosted, last, processed, current, requests, skipped, faults>>

\* _apply: request the transition, or skip an event without a mapping.
Apply(e) ==
    /\ current = NoEvent
    /\ FirstOf(page, e)
    /\ e \notin Ids(processed)
    /\ page' = page \ {e}
    /\ current' = e
    /\ IF MissionOf[e] \in mapped
       THEN requests' = [requests EXCEPT ![e] = @ + 1] /\ UNCHANGED skipped
       ELSE skipped' = skipped \cup {e} /\ UNCHANGED requests
    /\ UNCHANGED <<hosted, last, processed, faults>>

\* Mutant: the ids are not trimmed.
Untrimmed(s, n) == s

\* set_mission_action_cursor, in a transaction of its own.
LastOf(s, n) == IF Len(s) > n THEN SubSeq(s, Len(s) - n + 1, Len(s)) ELSE s

\* Mutant: the cursor jumps to the last event of the page.
AdvanceToPageEnd ==
    /\ current # NoEvent
    /\ processed' = LastOf(Append(processed, current), MaxProcessed)
    /\ \E e \in page \cup {current} :
          /\ \A f \in page : At[f] <= At[e]
          /\ last' = IF At[e] > last THEN At[e] ELSE last
    /\ current' = NoEvent
    /\ UNCHANGED <<hosted, page, requests, skipped, faults>>

\* Mutant: the id is not remembered.
AdvanceForgetful ==
    /\ current # NoEvent
    /\ last' = IF At[current] > last THEN At[current] ELSE last
    /\ current' = NoEvent
    /\ UNCHANGED <<hosted, processed, page, requests, skipped, faults>>

Advance ==
    /\ current # NoEvent
    /\ processed' = LastOf(Append(processed, current), MaxProcessed)
    /\ last' = IF At[current] > last THEN At[current] ELSE last
    /\ current' = NoEvent
    /\ UNCHANGED <<hosted, page, requests, skipped, faults>>

\* The process dies or a store call raises in the middle of a poll.
Fault ==
    /\ page # {} \/ current # NoEvent
    /\ faults < MaxFaults
    /\ faults' = faults + 1
    /\ page' = {}
    /\ current' = NoEvent
    /\ UNCHANGED <<hosted, last, processed, requests, skipped>>

PollStep == Poll \/ Advance \/ \E e \in Events : PassOver(e) \/ Apply(e)

Next ==
    \/ PollStep
    \/ Fault
    \/ \E m \in Missions : CreateMission(m) \/ PersistMapping(m)
    \/ \E e \in Events : RaiseAction(e)

Spec == Init /\ [][Next]_vars

\* The watcher polls on its timer; the projector's worker thread runs.
Fairness == WF_vars(PollStep) /\ \A m \in Missions : WF_vars(PersistMapping(m))

FairSpec == Spec /\ Fairness

---------------------------------------------------------------------------
Handled(e) == requests[e] > 0 \/ e \in skipped

\* The cursor never passes over an action: when an action was handled, every
\* earlier one was, although pages are cut at `limit`, overlap at the
\* inclusive `since` and are abandoned by faults.
NoActionPassedOver ==
    \A e, f \in raised : Handled(e) /\ Pos[f] < Pos[e] => Handled(f)

\* An action's transition is requested again only when a fault came between
\* applying it and writing the cursor.
RequestedOncePerFault ==
    \A e \in Events : requests[e] <= 1 + faults

\* A user's actions reach the store in the order the user took them.
RequestsInOrder ==
    [][\A e, f \in Events :
          requests'[e] > requests[e] /\ Pos[f] > Pos[e] => requests[f] = 0]_vars

\* Every action is handled in the end.
ActionsHandled == \A e \in Events : (e \in raised) ~> Handled(e)
=============================================================================
