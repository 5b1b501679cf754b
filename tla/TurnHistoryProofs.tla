------------------------- MODULE TurnHistoryProofs -------------------------
(***************************************************************************)
(* The history of a session, for any number of requests, turn ids and      *)
(* restarts and any length of a full read: its types, and when a finished  *)
(* answer can be read back.                                                *)
(*                                                                         *)
(* The unique key of channel_messages is the heart of both: with INSERT OR *)
(* IGNORE a row is either stored or its key is there already, and the key  *)
(* of an assistant row is its turn (RowsOfRequests, AnswerStored).         *)
(***************************************************************************)
EXTENDS TurnHistory, SequenceTheorems, TLAPS

\* A stored row of the session carries the turn of the request that stored it.
RowsOfRequests ==
    \A i \in DOMAIN rows : rows[i] # OtherRow => rows[i].turn = TurnOf[rows[i].by]

\* Some answer of a turn is stored.
HasAnswer(t) == \E i \in DOMAIN rows : rows[i].role = "assistant" /\ rows[i].turn = t

\* A pump that ended with text has stored an answer of its turn or failed to.
AnswerStored ==
    \A r \in Requests : pump[r] = "done" /\ text[r] => r \in failed \/ HasAnswer(TurnOf[r])

Inv == TypeOK /\ RowsOfRequests /\ AnswerStored

\* The parts of TypeOK about single variables and about the unique key.
VarTypes ==
    /\ sub \in [Requests -> {"new", "saving", "reading", "left", "done"}]
    /\ pump \in [Requests -> {"none", "running", "saving", "done", "dead"}]
    /\ text \in [Requests -> BOOLEAN]
    /\ live \in Requests \cup {None}
    /\ completed \in Requests \cup {None}
    /\ failed \subseteq Requests
    /\ crashes \in 0..MaxCrashes
    /\ others \in 0..MaxOthers
RowTypes ==
    /\ rows \in Seq(Row)
    /\ \A i, j \in DOMAIN rows :
          rows[i] # OtherRow /\ MessageId(rows[i]) = MessageId(rows[j]) => i = j

---------------------------------------------------------------------------
(* The message store                                                       *)

\* The table with one more row.
LEMMA OneMoreRow ==
    ASSUME rows \in Seq(Row), NEW row \in Row, NEW new, new = Append(rows, row)
    PROVE  /\ new \in Seq(Row) /\ Len(rows) \in Nat /\ Len(new) = Len(rows) + 1
           /\ DOMAIN rows = 1..Len(rows) /\ DOMAIN new = 1..(Len(rows) + 1)
           /\ DOMAIN new = DOMAIN rows \cup {Len(rows) + 1}
           /\ \A i \in DOMAIN rows : new[i] = rows[i]
           /\ new[Len(rows) + 1] = row
  <1>1. /\ new \in Seq(Row) /\ Len(new) = Len(rows) + 1 /\ Len(rows) \in Nat
        /\ \A i \in 1..Len(rows) : new[i] = rows[i]
        /\ new[Len(rows) + 1] = row
    BY AppendProperties, LenProperties
  <1>2. DOMAIN rows = 1..Len(rows) /\ DOMAIN new = 1..Len(new)
    BY <1>1, LenProperties
  <1>3. QED
    BY <1>1, <1>2

\* append_message (INSERT OR IGNORE) keeps the table's types and its unique
\* key, keeps every row in its place, and afterwards the key of the new row is
\* taken.
LEMMA AppendKeepsRows ==
    ASSUME RowTypes, RowsOfRequests,
           NEW row \in Row, row.turn = TurnOf[row.by],
           NEW new, new = append_message(row)
    PROVE  /\ new \in Seq(Row)
           /\ \A i, j \in DOMAIN new :
                 new[i] # OtherRow /\ MessageId(new[i]) = MessageId(new[j]) => i = j
           /\ \A i \in DOMAIN new : new[i] # OtherRow => new[i].turn = TurnOf[new[i].by]
           /\ \A i \in DOMAIN rows : i \in DOMAIN new /\ new[i] = rows[i]
           /\ \E i \in DOMAIN new : MessageId(new[i]) = MessageId(row)
  <1>1. CASE \E i \in DOMAIN rows : MessageId(rows[i]) = MessageId(row)
    <2>1. new = rows
      BY <1>1 DEF append_message
    <2>2. QED
      BY <1>1, <2>1 DEF RowTypes, RowsOfRequests
  <1>2. CASE ~\E i \in DOMAIN rows : MessageId(rows[i]) = MessageId(row)
    <2>1. new = Append(rows, row)
      BY <1>2 DEF append_message
    <2>2. /\ new \in Seq(Row) /\ DOMAIN new = DOMAIN rows \cup {Len(rows) + 1}
          /\ \A i \in DOMAIN rows : new[i] = rows[i]
          /\ new[Len(rows) + 1] = row
      BY <2>1, OneMoreRow DEF RowTypes
    <2>3. QED
      BY <1>2, <2>2 DEF RowTypes, RowsOfRequests
  <1>3. QED
    BY <1>1, <1>2

\* The rows the pump writes are rows of their request's turn.
LEMMA OwnRows ==
    ASSUME NEW r \in Requests
    PROVE  /\ UserRow(r) \in Row /\ UserRow(r).turn = TurnOf[UserRow(r).by]
           /\ AnswerRow(r) \in Row /\ AnswerRow(r).turn = TurnOf[AnswerRow(r).by]
  BY HistoryAssumption DEF HistoryAssumption, Row, UserRow, AnswerRow

\* Two rows with an assistant's key are answers of one turn.
LEMMA AnswerKey ==
    ASSUME NEW r \in Requests, NEW row \in Row, MessageId(row) = MessageId(AnswerRow(r))
    PROVE  row.role = "assistant" /\ row.turn = TurnOf[r]
  <1>1. MessageId(AnswerRow(r)) = <<"assistant", TurnOf[r]>>
    BY DEF MessageId, AnswerRow
  <1>2. MessageId(row)[1] = row.role
    BY DEF MessageId
  <1>3. row.role = "assistant"
    BY <1>1, <1>2
  <1>4. MessageId(row) = <<"assistant", row.turn>>
    BY <1>3 DEF MessageId
  <1>5. QED
    BY <1>1, <1>3, <1>4

---------------------------------------------------------------------------
(* Types and stored answers                                                *)

\* A fresh process and an empty table satisfy the invariant.
LEMMA InitInv == Init => Inv
  <1> SUFFICES ASSUME Init PROVE Inv
    OBVIOUS
  <1>1. TypeOK
    BY HistoryAssumption, EmptySeq DEF HistoryAssumption, Init, TypeOK
  <1>2. RowsOfRequests /\ AnswerStored
    BY DEF Init, RowsOfRequests, AnswerStored
  <1>3. QED
    BY <1>1, <1>2 DEF Inv

\* The steps that leave the table alone and end no pump.
LEMMA QuietSteps ==
    ASSUME Inv, VarTypes', rows' = rows,
           failed \subseteq failed',
           \A r \in Requests : pump'[r] = "done" => pump[r] = "done" /\ text'[r] = text[r]
    PROVE  Inv'
  <1>1. TypeOK'
    BY DEF Inv, TypeOK, VarTypes, MessageId
  <1>2. RowsOfRequests' /\ AnswerStored'
    BY DEF Inv, RowsOfRequests, AnswerStored, HasAnswer
  <1>3. QED
    BY <1>1, <1>2 DEF Inv

\* A user row is written, or its write failed.
LEMMA UserRowStep ==
    ASSUME Inv, VarTypes', NEW r \in Requests,
           rows' \in {rows, append_message(UserRow(r))},
           failed' = failed,
           \A q \in Requests : pump'[q] = "done" => pump[q] = "done" /\ text'[q] = text[q]
    PROVE  Inv'
  <1>1. CASE rows' = rows
    BY <1>1, QuietSteps
  <1>2. CASE rows' = append_message(UserRow(r))
    <2>1. /\ rows' \in Seq(Row)
          /\ \A i, j \in DOMAIN rows' :
                rows'[i] # OtherRow /\ MessageId(rows'[i]) = MessageId(rows'[j]) => i = j
          /\ \A i \in DOMAIN rows' : rows'[i] # OtherRow => rows'[i].turn = TurnOf[rows'[i].by]
          /\ \A i \in DOMAIN rows : i \in DOMAIN rows' /\ rows'[i] = rows[i]
      BY <1>2, AppendKeepsRows, OwnRows DEF Inv, TypeOK, RowTypes
    <2>2. TypeOK'
      BY <2>1 DEF TypeOK, VarTypes, MessageId
    <2>3. RowsOfRequests' /\ AnswerStored'
      BY <2>1 DEF Inv, RowsOfRequests, AnswerStored, HasAnswer
    <2>4. QED
      BY <2>2, <2>3 DEF Inv
  <1>3. QED
    BY <1>1, <1>2

\* The pump ends: it stored its answer, had none, or its store failed.
LEMMA SaveAnswerStep ==
    ASSUME Inv, NEW r \in Requests, SaveAnswer(r)
    PROVE  Inv'
  <1> USE HistoryAssumption DEF HistoryAssumption
  <1>1. VarTypes'
    BY DEF SaveAnswer, Inv, TypeOK, VarTypes
  <1>2. pump' = [pump EXCEPT ![r] = "done"] /\ UNCHANGED <<text, sub, live, completed, crashes, others>>
    BY DEF SaveAnswer
  <1>3. \A q \in Requests \ {r} : pump'[q] = pump[q]
    BY <1>2 DEF Inv, TypeOK
  <1>4. CASE UNCHANGED rows /\ failed \subseteq failed' /\ (text[r] => r \in failed')
    <2>1. TypeOK'
      BY <1>1, <1>4 DEF Inv, TypeOK, VarTypes, MessageId
    <2>2. RowsOfRequests' /\ AnswerStored'
      BY <1>2, <1>3, <1>4 DEF Inv, RowsOfRequests, AnswerStored, HasAnswer
    <2>3. QED
      BY <2>1, <2>2 DEF Inv
  <1>5. CASE rows' = append_message(AnswerRow(r)) /\ UNCHANGED failed
    <2>1. /\ rows' \in Seq(Row)
          /\ \A i, j \in DOMAIN rows' :
                rows'[i] # OtherRow /\ MessageId(rows'[i]) = MessageId(rows'[j]) => i = j
          /\ \A i \in DOMAIN rows' : rows'[i] # OtherRow => rows'[i].turn = TurnOf[rows'[i].by]
          /\ \A i \in DOMAIN rows : i \in DOMAIN rows' /\ rows'[i] = rows[i]
          /\ \E i \in DOMAIN rows' : MessageId(rows'[i]) = MessageId(AnswerRow(r))
      BY <1>5, AppendKeepsRows, OwnRows DEF Inv, TypeOK, RowTypes
    <2>2. HasAnswer(TurnOf[r])'
      <3>1. PICK i \in DOMAIN rows' : MessageId(rows'[i]) = MessageId(AnswerRow(r))
        BY <2>1
      <3>2. rows'[i] \in Row
        BY <2>1, <3>1, ElementOfSeq
      <3>3. rows'[i].role = "assistant" /\ rows'[i].turn = TurnOf[r]
        BY <3>1, <3>2, AnswerKey
      <3>4. QED
        BY <3>1, <3>3 DEF HasAnswer
    <2>3. TypeOK'
      BY <1>1, <2>1 DEF TypeOK, VarTypes, MessageId
    <2>4. RowsOfRequests' /\ AnswerStored'
      BY <1>2, <1>3, <1>5, <2>1, <2>2 DEF Inv, RowsOfRequests, AnswerStored, HasAnswer
    <2>5. QED
      BY <2>3, <2>4 DEF Inv
  <1>6. QED
    BY <1>4, <1>5 DEF SaveAnswer

\* Every step between two awaits, and a crash, keeps the invariant.
LEMMA StepInv == Inv /\ [Next]_vars => Inv'
  <1> SUFFICES ASSUME Inv, [Next]_vars PROVE Inv'
    OBVIOUS
  <1> USE HistoryAssumption DEF HistoryAssumption
  <1>1. ASSUME NEW r \in Requests, Post(r) PROVE Inv'
    <2>1. VarTypes'
      BY <1>1 DEF Post, begin, Inv, TypeOK, VarTypes
    <2>2. QED
      BY <1>1, <2>1, QuietSteps DEF Post
  <1>2. ASSUME NEW r \in Requests, StartPump(r) PROVE Inv'
    <2>1. VarTypes'
      BY <1>2 DEF StartPump, Inv, TypeOK, VarTypes
    <2>2. \A q \in Requests : pump'[q] = "done" => pump[q] = "done" /\ text'[q] = text[q]
      BY <1>2 DEF StartPump, Inv, TypeOK
    <2>3. QED
      BY <1>2, <2>1, <2>2, UserRowStep DEF StartPump
  <1>3. ASSUME NEW r \in Requests, DisconnectEarly(r) PROVE Inv'
    <2>1. VarTypes'
      BY <1>3 DEF DisconnectEarly, Inv, TypeOK, VarTypes
    <2>2. QED
      BY <1>3, <2>1, UserRowStep DEF DisconnectEarly
  <1>4. ASSUME NEW r \in Requests, Disconnect(r) \/ StreamEnds(r) PROVE Inv'
    <2>1. VarTypes'
      BY <1>4 DEF Disconnect, StreamEnds, Inv, TypeOK, VarTypes
    <2>2. QED
      BY <1>4, <2>1, QuietSteps DEF Disconnect, StreamEnds
  <1>5. ASSUME NEW r \in Requests, IngestText(r) PROVE Inv'
    <2>1. VarTypes'
      BY <1>5 DEF IngestText, Inv, TypeOK, VarTypes
    <2>2. \A q \in Requests : pump'[q] = "done" => pump[q] = "done" /\ text'[q] = text[q]
      BY <1>5 DEF IngestText, Inv, TypeOK
    <2>3. QED
      BY <1>5, <2>1, <2>2, QuietSteps DEF IngestText
  <1>6. ASSUME NEW r \in Requests, FinishTurn(r) PROVE Inv'
    <2>1. VarTypes'
      BY <1>6 DEF FinishTurn, finish, Inv, TypeOK, VarTypes
    <2>2. \A q \in Requests : pump'[q] = "done" => pump[q] = "done" /\ text'[q] = text[q]
      BY <1>6 DEF FinishTurn, Inv, TypeOK
    <2>3. QED
      BY <1>6, <2>1, <2>2, QuietSteps DEF FinishTurn
  <1>7. ASSUME NEW r \in Requests, SaveAnswer(r) PROVE Inv'
    BY <1>7, SaveAnswerStep
  <1>8. CASE ExpireRecord
    <2>1. VarTypes'
      BY <1>8 DEF ExpireRecord, Inv, TypeOK, VarTypes
    <2>2. QED
      BY <1>8, <2>1, QuietSteps DEF ExpireRecord
  <1>9. CASE Crash
    <2>1. VarTypes'
      BY <1>9 DEF Crash, Inv, TypeOK, VarTypes
    <2>2. \A q \in Requests : pump'[q] = "done" => pump[q] = "done" /\ text'[q] = text[q]
      BY <1>9 DEF Crash, Inv, TypeOK
    <2>3. QED
      BY <1>9, <2>1, <2>2, QuietSteps DEF Crash
  <1>10. CASE OtherSession
    <2>1. VarTypes' /\ rows' = Append(rows, OtherRow) /\ UNCHANGED <<pump, text, failed>>
      BY <1>10 DEF OtherSession, Inv, TypeOK, VarTypes
    <2>2. /\ rows' \in Seq(Row) /\ DOMAIN rows' = DOMAIN rows \cup {Len(rows) + 1}
          /\ \A i \in DOMAIN rows : rows'[i] = rows[i]
          /\ rows'[Len(rows) + 1] = OtherRow
      <3>1. rows \in Seq(Row) /\ OtherRow \in Row
        BY DEF Inv, TypeOK, Row
      <3>2. QED
        BY <2>1, <3>1, OneMoreRow
    <2>3. \A i, j \in DOMAIN rows' :
             rows'[i] # OtherRow /\ MessageId(rows'[i]) = MessageId(rows'[j]) => i = j
      <3>1. \A row \in Row : row # OtherRow => MessageId(row) # MessageId(OtherRow)
        <4>1. \A row \in Row : row # OtherRow => MessageId(row)[1] \in {"user", "assistant"}
          BY DEF Row, MessageId
        <4>2. MessageId(OtherRow)[1] = "other"
          BY DEF OtherRow, MessageId
        <4>3. QED
          BY <4>1, <4>2
      <3>2. \A i \in DOMAIN rows : rows[i] \in Row
        BY ElementOfSeq DEF Inv, TypeOK
      <3>3. QED
        BY <2>2, <3>1, <3>2 DEF Inv, TypeOK
    <2>4. TypeOK'
      BY <2>1, <2>2, <2>3 DEF TypeOK, VarTypes, MessageId
    <2>5. RowsOfRequests' /\ AnswerStored'
      BY <2>1, <2>2 DEF Inv, RowsOfRequests, AnswerStored, HasAnswer
    <2>6. QED
      BY <2>4, <2>5 DEF Inv
  <1>11. CASE UNCHANGED vars
    <2>1. VarTypes'
      BY <1>11 DEF vars, Inv, TypeOK, VarTypes
    <2>2. QED
      BY <1>11, <2>1, QuietSteps DEF vars
  <1>12. QED
    BY <1>1, <1>2, <1>3, <1>4, <1>5, <1>6, <1>7, <1>8, <1>9, <1>10, <1>11 DEF Next, Done

\* The invariant holds throughout.
LEMMA SpecInv == Spec => []Inv
  BY InitInv, StepInv, PTL DEF Spec

\* The history's variables keep their types, and no two stored messages share
\* a key.
THEOREM HistoryTypeCorrect == Spec => []TypeOK
  <1>1. Inv => TypeOK
    BY DEF Inv
  <1>2. QED
    BY <1>1, SpecInv, PTL

---------------------------------------------------------------------------
(* Reading answers back                                                    *)

\* A finished answer that a full read of the history does not show is not
\* stood in for by the record, and was not written, came second to a duplicate
\* of its turn, or is too old for the read.
LEMMA InvReadable == Inv => AnswerReadable
  <1> SUFFICES ASSUME Inv, NEW r \in Requests, NEW readable \in BOOLEAN,
                      pump[r] = "done", text[r], r \notin channel_messages(readable)
               PROVE  /\ completed # r \/ Shadowed(r)
                      /\ completed = r => readable
                      /\ readable => r \in failed \/ Duplicated(r) \/ PushedOut(r)
    BY DEF AnswerReadable
  <1>1. completed = r => r \in Recorded
    BY HistoryAssumption DEF HistoryAssumption, Recorded
  <1>2. completed # r \/ Shadowed(r)
    BY <1>1 DEF channel_messages, Shadowed
  <1>3. completed = r => readable
    BY <1>1 DEF channel_messages
  <1>4. ASSUME readable, r \notin failed PROVE Duplicated(r) \/ PushedOut(r)
    <2>1. PICK i \in DOMAIN rows : rows[i].role = "assistant" /\ rows[i].turn = TurnOf[r]
      BY <1>4 DEF Inv, AnswerStored, HasAnswer
    <2>2. PICK row : row = rows[i]
      OBVIOUS
    <2>3. row \in Row /\ row.role = "assistant" /\ row.turn = TurnOf[r]
      BY <2>1, <2>2, ElementOfSeq DEF Inv, TypeOK
    <2>4. row # OtherRow
      BY <2>3 DEF OtherRow
    <2>5. row.by \in Requests /\ row.turn = TurnOf[row.by] /\ row = AnswerRow(row.by)
      BY <2>1, <2>2, <2>3, <2>4 DEF Inv, Row, RowsOfRequests, AnswerRow
    <2>6. CASE row.by # r
      BY <2>1, <2>2, <2>3, <2>5, <2>6 DEF Duplicated
    <2>7. CASE row.by = r
      <3>1. row \notin FullRead
        BY <1>4, <2>3, <2>7 DEF channel_messages
      <3>2. ~(i + FullLimit > Len(rows))
        BY <2>1, <2>2, <3>1 DEF FullRead
      <3>3. i + FullLimit <= Len(rows)
        <4>1. rows \in Seq(Row)
          BY DEF Inv, TypeOK
        <4>2. Len(rows) \in Nat /\ i \in Nat
          BY <2>1, <4>1, LenProperties
        <4>3. QED
          BY <3>2, <4>2, HistoryAssumption DEF HistoryAssumption
      <3>4. QED
        BY <2>1, <2>2, <2>5, <2>7, <3>3 DEF PushedOut
    <2>8. QED
      BY <2>6, <2>7
  <1>5. QED
    BY <1>2, <1>3, <1>4

\* drive_detached_local_stream and the channel-messages route: once a turn is
\* over, a refresh shows its answer except in the cases the property names.
THEOREM FinishedAnswerReadable == Spec => []AnswerReadable
  BY SpecInv, InvReadable, PTL

\* A step leaves the table alone or adds one row behind the others; text never
\* goes away.
LEMMA HistoryGrows ==
    ASSUME Inv, [Next]_vars
    PROVE  /\ rows' = rows \/ \E row \in Row : rows' = Append(rows, row)
           /\ \A r \in Requests : text[r] => text'[r]
  <1> USE HistoryAssumption DEF HistoryAssumption
  <1>1. ASSUME NEW row \in Row
        PROVE  append_message(row) = rows \/ append_message(row) = Append(rows, row)
    BY DEF append_message
  <1>2. \A r \in Requests : UserRow(r) \in Row /\ AnswerRow(r) \in Row
    BY OwnRows
  <1>3. CASE \E r \in Requests : IngestText(r)
    BY <1>3 DEF IngestText, Inv, TypeOK
  <1>4. CASE \E r \in Requests : StartPump(r) \/ DisconnectEarly(r) \/ SaveAnswer(r)
    BY <1>1, <1>2, <1>4 DEF StartPump, DisconnectEarly, SaveAnswer
  <1>5. CASE OtherSession
    BY <1>5 DEF OtherSession, Row
  <1>6. CASE \/ ExpireRecord \/ Crash \/ UNCHANGED vars
             \/ \E r \in Requests : Post(r) \/ Disconnect(r) \/ FinishTurn(r) \/ StreamEnds(r)
    BY <1>6 DEF ExpireRecord, Crash, vars, Post, Disconnect, FinishTurn, StreamEnds
  <1>7. QED
    BY <1>3, <1>4, <1>5, <1>6 DEF Next, Done

\* Only an expiry, a restart and a turn that finishes change the record, and
\* they leave the table alone; a turn that finishes again records itself.
LEMMA RecordKept ==
    ASSUME Inv, [Next]_vars
    PROVE  /\ \/ completed' = completed
              \/ rows' = rows /\ (ExpireRecord \/ Crash \/ \E q \in Requests : FinishTurn(q))
           /\ \A q \in Requests : FinishTurn(q) => completed' \in {q, completed}
  <1>1. \A q \in Requests : FinishTurn(q) => completed' \in {q, completed}
    BY DEF FinishTurn, finish
  <1>2. CASE ExpireRecord \/ Crash \/ \E q \in Requests : FinishTurn(q)
    BY <1>1, <1>2 DEF ExpireRecord, Crash, FinishTurn
  <1>3. CASE \/ OtherSession \/ UNCHANGED vars
             \/ \E r \in Requests :
                   \/ Post(r) \/ StartPump(r) \/ DisconnectEarly(r) \/ Disconnect(r)
                   \/ IngestText(r) \/ SaveAnswer(r) \/ StreamEnds(r)
    <2>1. (OtherSession \/ UNCHANGED vars) => completed' = completed
      BY DEF OtherSession, vars
    <2>2. ASSUME NEW r \in Requests, Post(r) \/ Disconnect(r) \/ IngestText(r) \/ StreamEnds(r)
          PROVE  completed' = completed
      BY <2>2 DEF Post, begin, Disconnect, IngestText, StreamEnds
    <2>3. ASSUME NEW r \in Requests, StartPump(r) \/ DisconnectEarly(r) \/ SaveAnswer(r)
          PROVE  completed' = completed
      BY <2>3 DEF StartPump, DisconnectEarly, SaveAnswer
    <2>4. completed' = completed
      BY <1>3, <2>1, <2>2, <2>3
    <2>5. QED
      BY <1>1, <2>4
  <1>4. QED
    BY <1>2, <1>3 DEF Next, Done

\* One more row: a full read loses at most the oldest of its rows.
LEMMA ReadMoves ==
    ASSUME Inv, NEW new \in Row, rows' = Append(rows, new)
    PROVE  /\ Len(rows') = Len(rows) + 1 /\ rows'[Len(rows')] = new
           /\ \A row \in FullRead' : row \in FullRead \/ row = new
           /\ \A row \in FullRead :
                 row \in FullRead' \/ (Len(rows) >= FullLimit /\ rows[Len(rows') - FullLimit] = row)
  <1> USE HistoryAssumption DEF HistoryAssumption
  <1>1. /\ Len(rows) \in Nat /\ Len(rows') = Len(rows) + 1
        /\ DOMAIN rows = 1..Len(rows) /\ DOMAIN rows' = 1..(Len(rows) + 1)
        /\ \A i \in 1..Len(rows) : rows'[i] = rows[i]
        /\ rows'[Len(rows) + 1] = new
    <2>1. rows \in Seq(Row)
      BY DEF Inv, TypeOK
    <2>2. QED
      BY <2>1, OneMoreRow
  <1>2. ASSUME NEW row \in FullRead', row # new PROVE row \in FullRead
    <2>1. PICK i \in DOMAIN rows' : row = rows'[i] /\ i + FullLimit > Len(rows')
      BY <1>2 DEF FullRead
    <2>2. i \in 1..Len(rows) /\ i + FullLimit > Len(rows)
      BY <1>1, <1>2, <2>1
    <2>3. QED
      BY <1>1, <2>1, <2>2 DEF FullRead
  <1>3. ASSUME NEW row \in FullRead, row \notin FullRead'
        PROVE  Len(rows) >= FullLimit /\ rows[Len(rows') - FullLimit] = row
    <2>1. PICK i \in DOMAIN rows : row = rows[i] /\ i + FullLimit > Len(rows)
      BY <1>3 DEF FullRead
    <2>2. i \in DOMAIN rows' /\ rows'[i] = row
      BY <1>1, <2>1
    <2>3. ~(i + FullLimit > Len(rows'))
      BY <1>3, <2>2 DEF FullRead
    <2>4. i = Len(rows') - FullLimit /\ Len(rows) >= FullLimit
      BY <1>1, <2>1, <2>3
    <2>5. QED
      BY <2>1, <2>4
  <1>4. QED
    BY <1>1, <1>2, <1>3

\* What a read shows of a turn: its own answer row, or the record.
LEMMA Shown ==
    ASSUME Inv, NEW readable \in BOOLEAN, NEW r \in channel_messages(readable)
    PROVE  \/ readable /\ r \in Requests /\ AnswerRow(r) \in FullRead
           \/ r \in Recorded /\ r \in Requests /\ (readable => \A row \in FullRead : row.turn # TurnOf[r])
  <1>1. r \in Recorded => r \in Requests
    BY DEF Recorded, Inv, TypeOK
  <1>2. CASE readable /\ \E row \in FullRead : row.role = "assistant" /\ row.by = r
    <2>1. PICK i \in DOMAIN rows : /\ rows[i].role = "assistant" /\ rows[i].by = r
                                   /\ i + FullLimit > Len(rows)
      BY <1>2 DEF FullRead
    <2>2. PICK row : row = rows[i]
      OBVIOUS
    <2>3. row \in Row /\ row.role = "assistant" /\ row.by = r
      BY <2>1, <2>2, ElementOfSeq DEF Inv, TypeOK
    <2>4. row # OtherRow
      BY <2>3 DEF OtherRow
    <2>5. r \in Requests /\ row = AnswerRow(r)
      BY <2>1, <2>2, <2>3, <2>4 DEF Inv, Row, RowsOfRequests, AnswerRow
    <2>6. QED
      BY <1>2, <2>1, <2>2, <2>5 DEF FullRead
  <1>3. QED
    BY <1>1, <1>2 DEF channel_messages

\* A readable answer stays readable while later turns begin and store rows.
LEMMA StepStays ==
    Inv /\ [Next]_vars =>
       [\A readable \in BOOLEAN : \A r \in channel_messages(readable) :
         \/ r \in channel_messages(readable)'
         \/ /\ readable => AnswerRow(r) \notin FullRead
            /\ ExpireRecord \/ Crash \/ \E q \in Requests \ {r} : FinishTurn(q)
         \/ /\ readable /\ Len(rows') = Len(rows) + 1
            /\ \/ rows'[Len(rows')].turn = TurnOf[r]
               \/ Len(rows) >= FullLimit /\ rows[Len(rows') - FullLimit] = AnswerRow(r)]_vars
  <1> SUFFICES ASSUME Inv, [Next]_vars, NEW readable \in BOOLEAN,
                      NEW r \in channel_messages(readable), r \notin channel_messages(readable)'
               PROVE  \/ /\ readable => AnswerRow(r) \notin FullRead
                         /\ ExpireRecord \/ Crash \/ \E q \in Requests \ {r} : FinishTurn(q)
                      \/ /\ readable /\ Len(rows') = Len(rows) + 1
                         /\ \/ rows'[Len(rows')].turn = TurnOf[r]
                            \/ /\ Len(rows) >= FullLimit
                               /\ rows[Len(rows') - FullLimit] = AnswerRow(r)
    OBVIOUS
  <1>1. AnswerRow(r).role = "assistant" /\ AnswerRow(r).by = r /\ AnswerRow(r).turn = TurnOf[r]
    BY DEF AnswerRow
  <1>2. CASE readable /\ AnswerRow(r) \in FullRead
    <2>1. AnswerRow(r) \notin FullRead'
      BY <1>1, <1>2 DEF channel_messages
    <2>2. PICK new \in Row : rows' = Append(rows, new)
      <3>1. rows' # rows
        BY <1>2, <2>1 DEF FullRead
      <3>2. QED
        BY <3>1, HistoryGrows
    <2>3. QED
      BY <1>2, <2>1, <2>2, ReadMoves
  <1>3. CASE /\ r \in Recorded /\ r \in Requests
             /\ readable => \A row \in FullRead : row.turn # TurnOf[r]
    <2>1. readable => AnswerRow(r) \notin FullRead
      BY <1>1, <1>3
    <2>2. completed = r /\ text[r] /\ text'[r] /\ r # None
      BY <1>3, HistoryGrows DEF Recorded
    <2>3. CASE completed' = completed
      <3>1. r \in Recorded'
        BY <2>2, <2>3 DEF Recorded
      <3>2. readable /\ \E row \in FullRead' : row.turn = TurnOf[r]
        BY <3>1 DEF channel_messages
      <3>3. PICK row \in FullRead' : row.turn = TurnOf[r]
        BY <3>2
      <3>4. row \notin FullRead
        BY <1>3, <3>2, <3>3
      <3>5. PICK new \in Row : rows' = Append(rows, new)
        <4>1. rows' # rows
          BY <3>3, <3>4 DEF FullRead
        <4>2. QED
          BY <4>1, HistoryGrows
      <3>6. row = new /\ Len(rows') = Len(rows) + 1 /\ rows'[Len(rows')] = new
        BY <3>3, <3>4, <3>5, ReadMoves
      <3>7. QED
        BY <3>2, <3>3, <3>6
    <2>4. CASE completed' # completed
      <3>1. ExpireRecord \/ Crash \/ \E q \in Requests : FinishTurn(q) /\ q # r
        BY <2>2, <2>4, RecordKept
      <3>2. QED
        BY <2>1, <3>1
    <2>5. QED
      BY <2>3, <2>4
  <1>4. QED
    BY <1>2, <1>3, Shown

\* What a refresh shows is taken back by nothing but the end of the record it
\* is shown from (an expiry, a restart, another turn that finishes), another
\* message of the same turn id, or so many newer rows that the read ends
\* before it.
THEOREM ShownAnswersStay == Spec => AnswersStayReadable
  BY SpecInv, StepStays, PTL DEF Spec, AnswersStayReadable
=============================================================================
