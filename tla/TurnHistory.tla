---------------------------- MODULE TurnHistory ----------------------------
(***************************************************************************)
(* What a chat session of the local server keeps of its turns, and what a  *)
(* refreshed browser is shown: the detached pump of a stream request, the  *)
(* in-memory LocalTurnStore, the durable ChannelMessageStore and the       *)
(* channel-messages route that merges the two.                             *)
(*                                                                         *)
(* An action is the code between two awaits of the event loop.  The driver *)
(* the pump iterates is the subject of StreamingTurn; here it yields text  *)
(* or not, and ends.  Message bodies, terminal flags and the panel details *)
(* of a snapshot are left out.  The store holds the rows of one channel, in *)
(* the order of their seq; other sessions of the channel write rows too,   *)
(* under turn ids of their own.  Incremental reads (after=) are left out.  *)
(***************************************************************************)
EXTENDS Naturals, Sequences

CONSTANTS
    Requests,       \* stream requests of the session
    TurnIds,
    TurnOf,         \* turnId of a request's body, or the session's default
    ClientIds,      \* requests that carry a userMessageId
    FullLimit,      \* _LOCAL_CHANNEL_HISTORY_FULL_LIMIT: rows of a full read
    MaxCrashes,     \* bound on process restarts
    MaxOthers,      \* bound on rows of the channel's other sessions
    None

ASSUME HistoryAssumption ==
    /\ TurnOf \in [Requests -> TurnIds]
    /\ ClientIds \subseteq Requests
    /\ FullLimit \in Nat \ {0}
    /\ MaxCrashes \in Nat
    /\ MaxOthers \in Nat
    /\ None \notin Requests \cup TurnIds

VARIABLES
    sub,        \* subscriber generator of the HTTP response
    pump,       \* pump task of a request
    text,       \* the pump's reducer has content
    live,       \* _live entry of the turn store
    completed,  \* _completed entry of the turn store
    rows,       \* rows of the channel in table channel_messages, by seq
    failed,     \* requests whose assistant row could not be written
    crashes,
    others      \* rows other sessions wrote

vars == <<sub, pump, text, live, completed, rows, failed, crashes, others>>

OtherRow == [turn |-> None, role |-> "other", by |-> None]
Row == [turn : TurnIds, role : {"user", "assistant"}, by : Requests] \cup {OtherRow}

\* Message id of a row: the client's id, or a stable id made of the turn id.
MessageId(row) ==
    IF row.role = "user" /\ row.by \in ClientIds
    THEN <<row.role, row.by>>
    ELSE <<row.role, row.turn>>

TypeOK ==
    /\ sub \in [Requests -> {"new", "saving", "reading", "left", "done"}]
    /\ pump \in [Requests -> {"none", "running", "saving", "done", "dead"}]
    /\ text \in [Requests -> BOOLEAN]
    /\ live \in Requests \cup {None}
    /\ completed \in Requests \cup {None}
    /\ rows \in Seq(Row)
    /\ \A i, j \in DOMAIN rows :
          rows[i] # OtherRow /\ MessageId(rows[i]) = MessageId(rows[j]) => i = j
    /\ failed \subseteq Requests
    /\ crashes \in 0..MaxCrashes
    /\ others \in 0..MaxOthers

Init ==
    /\ sub = [r \in Requests |-> "new"]
    /\ pump = [r \in Requests |-> "none"]
    /\ text = [r \in Requests |-> FALSE]
    /\ live = None
    /\ completed = None
    /\ rows = <<>>
    /\ failed = {}
    /\ crashes = 0
    /\ others = 0

---------------------------------------------------------------------------
(* The durable store and the merged read                                   *)

\* Mutant: a plain INSERT on a table without the unique key.
insert_message(row) == Append(rows, row)

\* Mutant: the id of a row does not depend on its role.
append_message_by_turn(row) ==
    IF \E i \in DOMAIN rows : rows[i].turn = row.turn THEN rows ELSE Append(rows, row)

\* INSERT OR IGNORE under UNIQUE (session_id, message_id)
append_message(row) ==
    IF \E i \in DOMAIN rows : MessageId(rows[i]) = MessageId(row)
    THEN rows
    ELSE Append(rows, row)

UserRow(r) == [turn |-> TurnOf[r], role |-> "user", by |-> r]
AnswerRow(r) == [turn |-> TurnOf[r], role |-> "assistant", by |-> r]

\* The newest rows of the channel, as many as a full read returns.
FullRead == {rows[i] : i \in {j \in DOMAIN rows : j + FullLimit > Len(rows)}}

\* completed_messages: the recorded turn, when it has text.
Recorded == {r \in {completed} \ {None} : text[r]}

\* Turns whose answer GET /v1/chat/channel-messages?full=1 returns: the newest
\* stored ones, and the recorded turn's unless a row that was read, of either
\* role, carries its turn id; the record alone when the store raises.
channel_messages(readable) ==
    IF readable
    THEN {row.by : row \in {x \in FullRead : x.role = "assistant"}}
           \cup {r \in Recorded : \A row \in FullRead : row.turn # TurnOf[r]}
    ELSE Recorded

---------------------------------------------------------------------------
(* LocalTurnStore                                                          *)

\* Mutant: a new turn drops the record of the one before.
begin_drops(r) == live' = r /\ completed' = None

begin(r) == live' = r /\ UNCHANGED completed

\* A newer turn that owns the live entry keeps it, and then nothing is
\* recorded.
finish(r) ==
    IF live \in {r, None}
    THEN live' = None /\ completed' = r
    ELSE UNCHANGED <<live, completed>>

---------------------------------------------------------------------------
(* drive_detached_local_stream                                             *)

\* Up to the await of the user row: the turn store already names the turn.
Post(r) ==
    /\ sub[r] = "new"
    /\ sub' = [sub EXCEPT ![r] = "saving"]
    /\ begin(r)
    /\ UNCHANGED <<pump, text, rows, failed, crashes, others>>

\* The user row is written or its write raised, and the pump starts.
StartPump(r) ==
    /\ sub[r] = "saving"
    /\ rows' \in {rows, append_message(UserRow(r))}
    /\ sub' = [sub EXCEPT ![r] = "reading"]
    /\ pump' = [pump EXCEPT ![r] = "running"]
    /\ UNCHANGED <<text, live, completed, failed, crashes, others>>

\* The browser leaves while the user row is being written: the generator
\* ends there, no pump is created and the writing thread may still finish.
DisconnectEarly(r) ==
    /\ sub[r] = "saving"
    /\ sub' = [sub EXCEPT ![r] = "left"]
    /\ rows' \in {rows, append_message(UserRow(r))}
    /\ UNCHANGED <<pump, text, live, completed, failed, crashes, others>>

\* The browser leaves later: the pump goes on.
Disconnect(r) ==
    /\ sub[r] = "reading"
    /\ sub' = [sub EXCEPT ![r] = "left"]
    /\ UNCHANGED <<pump, text, live, completed, rows, failed, crashes, others>>

IngestText(r) ==
    /\ pump[r] = "running"
    /\ ~text[r]
    /\ text' = [text EXCEPT ![r] = TRUE]
    /\ UNCHANGED <<sub, pump, live, completed, rows, failed, crashes, others>>

\* The frame source is exhausted or raised.
FinishTurn(r) ==
    /\ pump[r] = "running"
    /\ pump' = [pump EXCEPT ![r] = "saving"]
    /\ finish(r)
    /\ UNCHANGED <<sub, text, rows, failed, crashes, others>>

\* A turn without text stores nothing; a failing store is ignored.  Then
\* _SUB_END is put.
SaveAnswer(r) ==
    /\ pump[r] = "saving"
    /\ pump' = [pump EXCEPT ![r] = "done"]
    /\ \/ ~text[r] /\ UNCHANGED <<rows, failed>>
       \/ text[r] /\ rows' = append_message(AnswerRow(r)) /\ UNCHANGED failed
       \/ text[r] /\ failed' = failed \cup {r} /\ UNCHANGED rows
    /\ UNCHANGED <<sub, text, live, completed, crashes, others>>

StreamEnds(r) ==
    /\ sub[r] = "reading"
    /\ pump[r] = "done"
    /\ sub' = [sub EXCEPT ![r] = "done"]
    /\ UNCHANGED <<pump, text, live, completed, rows, failed, crashes, others>>

\* _evict_expired: the record is older than its TTL.
ExpireRecord ==
    /\ completed # None
    /\ completed' = None
    /\ UNCHANGED <<sub, pump, text, live, rows, failed, crashes, others>>

\* The process dies and is started again; only the rows survive.
Crash ==
    /\ crashes < MaxCrashes
    /\ crashes' = crashes + 1
    /\ sub' = [r \in Requests |-> IF sub[r] \in {"saving", "reading"} THEN "left" ELSE sub[r]]
    /\ pump' = [r \in Requests |-> IF pump[r] \in {"running", "saving"} THEN "dead" ELSE pump[r]]
    /\ live' = None
    /\ completed' = None
    /\ UNCHANGED <<text, rows, failed, others>>

\* Another session of the channel stores a message.
OtherSession ==
    /\ others < MaxOthers
    /\ others' = others + 1
    /\ rows' = Append(rows, OtherRow)
    /\ UNCHANGED <<sub, pump, text, live, completed, failed, crashes>>

Done ==
    /\ \A r \in Requests : sub[r] \in {"left", "done"} /\ pump[r] \in {"none", "done", "dead"}
    /\ UNCHANGED vars

Next ==
    \/ \E r \in Requests :
          \/ Post(r) \/ StartPump(r) \/ DisconnectEarly(r) \/ Disconnect(r)
          \/ IngestText(r) \/ FinishTurn(r) \/ SaveAnswer(r) \/ StreamEnds(r)
    \/ ExpireRecord
    \/ Crash
    \/ OtherSession
    \/ Done

Spec == Init /\ [][Next]_vars

---------------------------------------------------------------------------
(* Properties                                                              *)

\* A row that was read hides the record of the turn.
Shadowed(r) == \E row \in FullRead : row.turn = TurnOf[r]

\* Newer rows of the channel moved the turn's answer out of a full read.
PushedOut(r) == \E i \in DOMAIN rows : rows[i] = AnswerRow(r) /\ i + FullLimit <= Len(rows)

\* A request with the same turn id stored its answer under the same key.
Duplicated(r) ==
    \E q \in Requests \ {r}, i \in DOMAIN rows : rows[i] = AnswerRow(q) /\ TurnOf[q] = TurnOf[r]

\* Once a turn is over, a full read of the history shows its answer, unless
\* the record does not stand in for it (it is another turn's, gone, or hidden
\* by a row of the turn) and its row is not read: writing it failed, a
\* duplicate of the turn came first, or newer rows of the channel moved it out
\* of the read.  A read that fails shows the record and nothing else.
AnswerReadable ==
    \A r \in Requests : \A readable \in BOOLEAN :
        pump[r] = "done" /\ text[r] /\ r \notin channel_messages(readable) =>
            /\ completed # r \/ Shadowed(r)
            /\ completed = r => readable
            /\ readable => r \in failed \/ Duplicated(r) \/ PushedOut(r)

\* An answer that a refresh shows is not taken back by turns that begin or
\* messages that are stored, but in two ways.  When it is shown from the
\* record only, another turn that finishes, the record's expiry or a restart
\* takes it; and a stored message takes it when it carries the same turn id,
\* or moves the answer's row out of a full read.
AnswersStayReadable ==
    [][\A readable \in BOOLEAN : \A r \in channel_messages(readable) :
         \/ r \in channel_messages(readable)'
         \/ /\ readable => AnswerRow(r) \notin FullRead
            /\ ExpireRecord \/ Crash \/ \E q \in Requests \ {r} : FinishTurn(q)
         \/ /\ readable /\ Len(rows') = Len(rows) + 1
            /\ \/ rows'[Len(rows')].turn = TurnOf[r]
               \/ Len(rows) >= FullLimit /\ rows[Len(rows') - FullLimit] = AnswerRow(r)]_vars
=============================================================================
