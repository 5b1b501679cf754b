---------------------------- MODULE ControlStore ----------------------------
(***************************************************************************)
(* The durable queue of permission requests: the in-memory                 *)
(* ControlRequestStore of each permission gate, the append-only JSONL log  *)
(* that DurableControlRequestStore keeps behind it, its replay and         *)
(* refresh, and the out-of-band resolver that works on a fresh store under *)
(* a file lock the gates do not take.                                      *)
(*                                                                         *)
(* A log entry is a snapshot of one request, or the torn rest of a write   *)
(* that a crash or an I/O error cut off before its newline.  The next      *)
(* append is glued to a torn rest, and a reader that starts before the     *)
(* rest can parse neither; one whose offset is just behind the rest can.   *)
(* Offsets count entries.                                                  *)
(*                                                                         *)
(* A store changes its maps, appends the snapshot and asks for the file's  *)
(* size: the append and the stat are two steps that other processes come   *)
(* between, and either may raise.  The gate swallows the exception and the *)
(* change of the maps stays.                                               *)
(*                                                                         *)
(* Prompts, inputs, timestamps and the event ledger are left out; so are   *)
(* expire_request and create_user_question_request, which nothing calls.   *)
(***************************************************************************)
EXTENDS Naturals, Sequences, FiniteSets, FiniteSetsExt

CONSTANTS
    Gates,          \* processes with a permission gate on this log
    Keys,           \* idempotency keys, one request id each
    MaxLog,         \* bound on the length of the log
    MaxFaults,      \* bound on crashes and failed file operations
    Torn,           \* the rest of a write that was cut off
    None

Decisions == {"approved", "denied"}
Terminal == Decisions \cup {"cancelled"}
State == {"absent", "pending"} \cup Terminal

Snapshot == [key : Keys, state : State \ {"absent"}]

ASSUME ControlAssumption ==
    /\ MaxLog \in Nat
    /\ MaxFaults \in Nat
    /\ None \notin Keys
    /\ Torn \notin Snapshot

VARIABLES
    up,         \* gates whose process runs
    mem,        \* pending and terminal maps of a gate's store
    offset,     \* _log_offset of a gate's store
    asking,     \* request a gate's sinks are racing for
    log,        \* the JSONL file
    oob,        \* out-of-band call that holds the lock, or None
    writing,    \* entry a gate has appended and not yet put its offset behind
    jumped,     \* requests with a snapshot that a gate's offset jumped over
    lost,       \* requests whose last change in a gate's maps was not appended
    faults

vars == <<up, mem, offset, asking, log, oob, writing, jumped, lost, faults>>

View == [Keys -> State]
OobCall == [key : Keys, decision : Decisions, view : View]

TypeOK ==
    /\ up \subseteq Gates
    /\ mem \in [Gates -> View]
    /\ offset \in [Gates -> 0..MaxLog]
    /\ \A g \in Gates : offset[g] <= Len(log)
    /\ asking \in [Gates -> Keys \cup {None}]
    /\ log \in Seq(Snapshot \cup {Torn})
    /\ Len(log) <= MaxLog
    /\ oob \in OobCall \cup {None}
    /\ writing \in [Gates -> 0..MaxLog]
    /\ jumped \in [Gates -> SUBSET Keys]
    /\ lost \in [Gates -> SUBSET Keys]
    /\ faults \in 0..MaxFaults

Empty == [k \in Keys |-> "absent"]

Init ==
    /\ up = Gates
    /\ mem = [g \in Gates |-> Empty]
    /\ offset = [g \in Gates |-> 0]
    /\ asking = [g \in Gates |-> None]
    /\ log = <<>>
    /\ oob = None
    /\ writing = [g \in Gates |-> 0]
    /\ jumped = [g \in Gates |-> {}]
    /\ lost = [g \in Gates |-> {}]
    /\ faults = 0

---------------------------------------------------------------------------
(* Reading the log                                                         *)

\* Entry i parses for a reader that starts at offset o.
Parses(i, o) == log[i] # Torn /\ (i = o + 1 \/ log[i - 1] # Torn)

\* Entries about k that such a reader applies.
Applied(k, o) == {i \in o + 1 .. Len(log) : Parses(i, o) /\ log[i].key = k}

\* _consume_from_offset: the last applied snapshot of a request stands.
Replay(view, o) ==
    [k \in Keys |-> IF Applied(k, o) = {} THEN view[k] ELSE log[Max(Applied(k, o))].state]

\* What a fresh store recovers.
Recovered == Replay(Empty, 0)

---------------------------------------------------------------------------
(* A gate's store                                                          *)

Entry(k, s) == [key |-> k, state |-> s]

\* A file operation raises.
Fault == faults < MaxFaults /\ faults' = faults + 1

Appended(g, k, s) ==
    /\ log' = Append(log, Entry(k, s))
    /\ writing' = [writing EXCEPT ![g] = Len(log')]
    /\ lost' = [lost EXCEPT ![g] = @ \ {k}]
    /\ UNCHANGED faults

\* open, write or close raises; a part of the line may be in the file.
AppendFails(g, k) ==
    /\ Fault
    /\ log' \in {log, Append(log, Torn)}
    /\ lost' = [lost EXCEPT ![g] = @ \cup {k}]
    /\ UNCHANGED writing

\* Mutant: only decisions are written.
persist_decisions(g, k, s) ==
    /\ Len(log) < MaxLog
    /\ IF s \in Terminal THEN Appended(g, k, s) \/ AppendFails(g, k)
       ELSE UNCHANGED <<log, writing, lost, faults>>

\* The snapshot is appended under no lock.
persist(g, k, s) ==
    /\ Len(log) < MaxLog
    /\ Appended(g, k, s) \/ AppendFails(g, k)

\* The maps change first.
Write(g, k, s) ==
    /\ mem' = [mem EXCEPT ![g][k] = s]
    /\ persist(g, k, s)

\* A duplicate, a conflicting or an unknown request: nothing is written.
NoWrite == UNCHANGED <<mem, log, writing, lost, faults>>

\* Mutant: a terminal request is settled again.
settle_again(g, k, s) ==
    IF mem[g][k] # "absent" THEN Write(g, k, s) ELSE NoWrite

\* resolve_request and cancel_request
settle(g, k, s) ==
    IF mem[g][k] = "pending" THEN Write(g, k, s) ELSE NoWrite

---------------------------------------------------------------------------
(* RulesPermissionGate._race mirrors its request into the store            *)

\* The store's calls do not await: one of them ends before the next begins.
Ready(g) == g \in up /\ writing[g] = 0

\* _store_create: when the append raises, the race goes on without an id and
\* leaves the store alone from there on.
Ask(g, k) ==
    /\ Ready(g)
    /\ asking[g] = None
    /\ IF mem[g][k] = "absent" THEN Write(g, k, "pending") ELSE NoWrite
    /\ asking' = [asking EXCEPT ![g] = IF faults' = faults THEN k ELSE None]
    /\ UNCHANGED <<up, offset, oob, jumped>>

\* A sink answered, or (cancelled) none of them produced a decision.
Settle(g, s) ==
    /\ Ready(g)
    /\ asking[g] # None
    /\ asking' = [asking EXCEPT ![g] = None]
    /\ settle(g, asking[g], s)
    /\ UNCHANGED <<up, offset, oob, jumped>>

\* The requests that others have written about behind g's offset.
Unread(g) ==
    {k \in Keys : \E i \in (offset[g] + 1 .. Len(log)) \ {writing[g]} : log[i] # Torn /\ log[i].key = k}

\* The offset moves to the end of the file as it is now; when the stat raises
\* it stays, and a create comes back without an id.
Stat(g) ==
    /\ g \in up
    /\ writing[g] # 0
    /\ writing' = [writing EXCEPT ![g] = 0]
    /\ \/ /\ offset' = [offset EXCEPT ![g] = Len(log)]
          /\ jumped' = [jumped EXCEPT ![g] = @ \cup Unread(g)]
          /\ UNCHANGED <<asking, faults>>
       \/ /\ Fault
          /\ asking' = [asking EXCEPT ![g] = None]
          /\ UNCHANGED <<offset, jumped>>
    /\ UNCHANGED <<up, mem, log, oob, lost>>

\* The turn is cancelled while it waits: the race ends without touching the
\* store, and the request stays pending.
Abandon(g) ==
    /\ Ready(g)
    /\ asking[g] # None
    /\ asking' = [asking EXCEPT ![g] = None]
    /\ UNCHANGED <<up, mem, offset, log, oob, writing, jumped, lost, faults>>

\* Mutant: the first new line is taken to be complete already.
refresh_from_log_late(g) ==
    /\ Ready(g)
    /\ offset' = [offset EXCEPT ![g] = Len(log)]
    /\ mem' = [mem EXCEPT ![g] = Replay(@, IF offset[g] < Len(log) THEN offset[g] + 1 ELSE offset[g])]
    /\ jumped' = [jumped EXCEPT ![g] = {k \in @ : Applied(k, offset[g]) = {}}]
    /\ lost' = [lost EXCEPT ![g] = {k \in @ : Applied(k, offset[g]) = {}}]
    /\ UNCHANGED <<up, asking, log, oob, writing, faults>>

\* Mutant: the offset is left behind the end of the file.
refresh_from_log_past(g) ==
    /\ Ready(g)
    /\ offset' = [offset EXCEPT ![g] = Len(log) + 1]
    /\ mem' = [mem EXCEPT ![g] = Replay(@, offset[g])]
    /\ jumped' = [jumped EXCEPT ![g] = {k \in @ : Applied(k, offset[g]) = {}}]
    /\ lost' = [lost EXCEPT ![g] = {k \in @ : Applied(k, offset[g]) = {}}]
    /\ UNCHANGED <<up, asking, log, oob, writing, faults>>

refresh_from_log(g) ==
    /\ Ready(g)
    /\ offset' = [offset EXCEPT ![g] = Len(log)]
    /\ mem' = [mem EXCEPT ![g] = Replay(@, offset[g])]
    /\ jumped' = [jumped EXCEPT ![g] = {k \in @ : Applied(k, offset[g]) = {}}]
    /\ lost' = [lost EXCEPT ![g] = {k \in @ : Applied(k, offset[g]) = {}}]
    /\ UNCHANGED <<up, asking, log, oob, writing, faults>>

---------------------------------------------------------------------------
(* control_oob.resolve_pending: replay, then resolve, under the lock       *)

OobOpen(k, d) ==
    /\ oob = None
    /\ oob' = [key |-> k, decision |-> d, view |-> Recovered]
    /\ UNCHANGED <<up, mem, offset, asking, log, writing, jumped, lost, faults>>

\* The fresh store goes away after the call, whether or not it could append.
OobResolve ==
    /\ oob # None
    /\ Len(log) < MaxLog
    /\ IF oob.view[oob.key] # "pending" THEN UNCHANGED <<log, faults>>
       ELSE \/ log' = Append(log, Entry(oob.key, oob.decision)) /\ UNCHANGED faults
            \/ log' \in {log, Append(log, Torn)} /\ Fault
    /\ oob' = None
    /\ UNCHANGED <<up, mem, offset, asking, writing, jumped, lost>>

---------------------------------------------------------------------------
(* A gate's process dies, at worst inside an append, and starts again      *)

Crash(g) ==
    /\ g \in up
    /\ Fault
    /\ up' = up \ {g}
    /\ asking' = [asking EXCEPT ![g] = None]
    /\ mem' = [mem EXCEPT ![g] = Empty]
    /\ offset' = [offset EXCEPT ![g] = 0]
    /\ writing' = [writing EXCEPT ![g] = 0]
    /\ jumped' = [jumped EXCEPT ![g] = {}]
    /\ lost' = [lost EXCEPT ![g] = {}]
    /\ \/ log' = log
       \/ Len(log) < MaxLog /\ log' = Append(log, Torn)
    /\ UNCHANGED oob

\* __init__ and _replay
Restart(g) ==
    /\ g \in Gates \ up
    /\ up' = up \cup {g}
    /\ mem' = [mem EXCEPT ![g] = Recovered]
    /\ offset' = [offset EXCEPT ![g] = Len(log)]
    /\ UNCHANGED <<asking, log, oob, writing, jumped, lost, faults>>

Next ==
    \/ \E g \in Gates :
          \/ \E k \in Keys : Ask(g, k)
          \/ \E s \in Terminal : Settle(g, s)
          \/ Stat(g)
          \/ Abandon(g)
          \/ refresh_from_log(g)
          \/ Crash(g)
          \/ Restart(g)
    \/ \E k \in Keys, d \in Decisions : OobOpen(k, d)
    \/ OobResolve

Spec == Init /\ [][Next]_vars

---------------------------------------------------------------------------
(* Properties                                                              *)

\* Glued to the rest of a torn write: no fresh store will ever parse it.
Glued(i) == i > 1 /\ log[i] # Torn /\ log[i - 1] = Torn

\* Whatever a running gate knows of a request, a restart recovers at least
\* that the request exists, unless every snapshot of it was glued to a torn
\* write, or there is none and the gate's own append had failed.
RequestsSurviveRestart ==
    \A g \in up, k \in Keys :
        mem[g][k] # "absent" =>
            \/ Recovered[k] # "absent"
            \/ LET about == {i \in 1..Len(log) : log[i] # Torn /\ log[i].key = k}
               IN  (about # {} \/ k \in lost[g]) /\ \A i \in about : Glued(i)

\* A decision in the log is not taken back or changed, except by a store that
\* still takes the request for open: a gate that has not read the decision,
\* or an out-of-band call that replayed the log before it was written.
DecisionsChangeOnlyBlindly ==
    [][\A k \in Keys :
         Recovered[k] \in Terminal /\ Recovered'[k] # Recovered[k] =>
            \/ \E g \in up : mem[g][k] \notin Terminal /\ mem'[g] # mem[g]
            \/ oob # None /\ oob.key = k /\ oob.view[k] = "pending" /\ oob' = None]_vars

\* A refresh brings a gate up to date with the log, except for snapshots that
\* only the gate or only a fresh store can parse and, where the refresh finds
\* nothing new about a request, for a snapshot that the gate's offset had
\* jumped over and for a change of its own that it could not append.
RefreshCatchesUp ==
    [][\A g \in Gates : refresh_from_log(g) =>
         \A k \in Keys :
            \/ mem'[g][k] = Recovered[k]
            \/ k \in jumped[g] \cup lost[g] /\ Applied(k, offset[g]) = {}
            \/ \E i \in 1..Len(log) : Glued(i) /\ log[i].key = k]_vars
=============================================================================
