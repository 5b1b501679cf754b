---------------------- MODULE CompletionNoticesProofs ----------------------
(***************************************************************************)
(* Notes and outcomes of background tasks, for any number of tasks, turns, *)
(* restarts and dropped ticks and any size of a batch.                     *)
(*                                                                         *)
(* One dispatcher runs one task at a time, so its claim is the last event  *)
(* (OneRun).  A note that was or will be folded into a prompt is heard;    *)
(* heard notes differ because the next note is of a later turn or run      *)
(* (FreshNote), and one that says "completed" ends its task once the       *)
(* outcome is written (AnnouncedIsFinal).  A batch is a prefix of what     *)
(* lies behind the cursor (BatchPrefix).                                   *)
(***************************************************************************)
EXTENDS CompletionNotices, SequenceTheorems, FiniteSetTheorems, WellFoundedInduction, TLAPS

\* The claim of the running task is the last event, and the task has not
\* failed before.
OneRun ==
    /\ pc # "idle" =>
          /\ run = Len(events) /\ run > 0
          /\ events[run] = [kind |-> "claimed", run |-> run, task |-> task]
          /\ failures[task] = 0
    /\ pc = "appending" => held # 0

\* A claimed event names its run by its own index, a terminal event by an
\* earlier one.
RunNames ==
    \A id \in 1..Len(events) :
        IF events[id].kind = "claimed" THEN events[id].run = id ELSE events[id].run < id

\* The lists whose notes will be folded into a prompt, and the notes that are
\* or will be.
Undrained == {i \in {current, popped} : i # 0}
Heard == Range(told) \cup UNION {Range(buckets[i]) : i \in Undrained}

\* A heard note is of a run that was claimed.
HeardRuns ==
    \A n \in Heard : n.run \in 1..Len(events) /\ events[n.run].kind = "claimed"

\* The next note is new: heard ones of the same run are of earlier turns.
FreshNote ==
    pc \in {"running", "appending"} => \A n \in Heard : n.run = run => n.turn < turn

\* No note is heard twice, and nothing of a drained list is lost but what came
\* late.
NotesApart ==
    /\ current # 0 => current # popped
    /\ IsInjective(told)
    /\ \A i \in Undrained : IsInjective(buckets[i]) /\ Range(buckets[i]) \cap Range(told) = {}
    /\ \A i, j \in Undrained : i # j => Range(buckets[i]) \cap Range(buckets[j]) = {}
    /\ \A i \in 1..Len(buckets) :
          i \notin Undrained => Range(buckets[i]) \subseteq Range(told) \cup late

NotesInv == HeardRuns /\ FreshNote /\ NotesApart

\* A task that announced its completion outside a goal loop completes: its run
\* is about to be recorded, or it was and the task is not claimed again, or it
\* never will be.
Announcement(n) ==
    n \in Heard /\ n.says = "completed" /\ events[n.run].task \notin GoalTasks
AnnouncedIsFinal ==
    \A n : Announcement(n) =>
        /\ pc # "idle" /\ n.run = run => pc = "recording" /\ result = "completed"
        /\ (\E id \in TerminalIds : events[id].run = n.run) =>
              /\ status[events[n.run].task] = "completed"
              /\ \A id \in 1..Len(events) :
                    id > n.run /\ events[id].kind = "claimed"
                        => events[id].task # events[n.run].task

\* What was handed over are terminal events in their order.
TriedInOrder ==
    /\ \A i, j \in 1..Len(tried) : i < j => tried[i] < tried[j]
    /\ \A i \in 1..Len(tried) : tried[i] \in TerminalIds

\* The batch lies behind the cursor and behind what was handed over, and has
\* no gaps; the cursor covers what was handed over when no batch is open.
BatchPrefix ==
    /\ cursor = None => batch = {}
    /\ \A id \in batch : cursor < id /\ \A i \in 1..Len(tried) : tried[i] < id
    /\ \A id \in batch, other \in TerminalIds :
          cursor < other /\ other < id => other \in batch \/ other \in Range(tried)
    /\ cursor # None /\ batch = {} => \A i \in 1..Len(tried) : tried[i] <= cursor

\* The cursor names no event of the future and leaves no outcome out.
CursorReached ==
    cursor # None =>
        /\ base <= cursor /\ cursor <= Len(events)
        /\ \A id \in TerminalIds : base < id /\ id <= cursor => id \in Range(tried)

PollInv == TriedInOrder /\ BatchPrefix /\ CursorReached

Inv == TypeOK /\ OneRun /\ RunNames /\ NotesInv /\ AnnouncedIsFinal /\ PollInv

---------------------------------------------------------------------------
(* Sequences, maxima and events                                            *)

\* Appending adds one element, and keeps a sequence without repetition so when
\* the element is new.
LEMMA AppendApart ==
    ASSUME NEW S, NEW s \in Seq(S), NEW e \in S
    PROVE  /\ Append(s, e) \in Seq(S)
           /\ Range(Append(s, e)) = Range(s) \cup {e}
           /\ IsInjective(s) /\ e \notin Range(s) => IsInjective(Append(s, e))
  <1>1. /\ Append(s, e) \in Seq(S) /\ Len(Append(s, e)) = Len(s) + 1 /\ Len(s) \in Nat
        /\ \A i \in 1..Len(s) : Append(s, e)[i] = s[i]
        /\ Append(s, e)[Len(s) + 1] = e
    BY AppendProperties, LenProperties
  <1>2. DOMAIN s = 1..Len(s) /\ DOMAIN Append(s, e) = 1..(Len(s) + 1)
    BY <1>1, LenProperties
  <1>3. PICK t : t = Append(s, e)
    OBVIOUS
  <1>4. Range(t) = Range(s) \cup {e}
    BY <1>1, <1>2, <1>3 DEF Range
  <1>5. IsInjective(s) /\ e \notin Range(s) => IsInjective(t)
    BY <1>1, <1>2, <1>3 DEF Range, IsInjective
  <1>6. QED
    BY <1>1, <1>3, <1>4, <1>5

\* Joining sequences without common elements.
LEMMA ConcatApart ==
    ASSUME NEW S, NEW s \in Seq(S), NEW t \in Seq(S)
    PROVE  /\ s \o t \in Seq(S)
           /\ Range(s \o t) = Range(s) \cup Range(t)
           /\ IsInjective(s) /\ IsInjective(t) /\ Range(s) \cap Range(t) = {}
                 => IsInjective(s \o t)
  <1>1. PICK u : u = s \o t
    OBVIOUS
  <1>2. /\ u \in Seq(S) /\ Len(u) = Len(s) + Len(t)
        /\ Len(s) \in Nat /\ Len(t) \in Nat
        /\ \A i \in 1..Len(s) + Len(t) : u[i] = IF i <= Len(s) THEN s[i] ELSE t[i - Len(s)]
    BY <1>1, ConcatProperties, LenProperties
  <1>3. DOMAIN s = 1..Len(s) /\ DOMAIN t = 1..Len(t) /\ DOMAIN u = 1..Len(u)
    BY <1>2, LenProperties
  <1>4. ASSUME NEW i \in DOMAIN u
        PROVE  \/ i \in DOMAIN s /\ u[i] = s[i]
               \/ i - Len(s) \in DOMAIN t /\ u[i] = t[i - Len(s)]
    BY <1>2, <1>3
  <1>5. \A i \in DOMAIN s : i \in DOMAIN u /\ u[i] = s[i]
    BY <1>2, <1>3
  <1>6. \A i \in DOMAIN t : i + Len(s) \in DOMAIN u /\ u[i + Len(s)] = t[i]
    BY <1>2, <1>3
  <1>7. Range(u) = Range(s) \cup Range(t)
    BY <1>4, <1>5, <1>6 DEF Range
  <1>8. ASSUME IsInjective(s), IsInjective(t), Range(s) \cap Range(t) = {}
        PROVE  IsInjective(u)
    <2> SUFFICES ASSUME NEW i \in DOMAIN u, NEW j \in DOMAIN u, u[i] = u[j]
                 PROVE  i = j
      BY DEF IsInjective
    <2>1. i \in Nat /\ j \in Nat /\ Len(s) \in Nat
      BY <1>2, <1>3
    <2>2. CASE i \in DOMAIN s /\ u[i] = s[i] /\ j \in DOMAIN s /\ u[j] = s[j]
      BY <1>8, <2>2 DEF IsInjective
    <2>3. CASE /\ i - Len(s) \in DOMAIN t /\ u[i] = t[i - Len(s)]
               /\ j - Len(s) \in DOMAIN t /\ u[j] = t[j - Len(s)]
      <3>1. i - Len(s) = j - Len(s)
        BY <1>8, <2>3 DEF IsInjective
      <3>2. QED
        BY <2>1, <3>1
    <2>4. QED
      BY <1>4, <1>8, <2>2, <2>3 DEF Range
  <1>9. QED
    BY <1>1, <1>2, <1>7, <1>8

\* A bounded, non-empty set of numbers has a maximum.
LEMMA MaxOfBounded ==
    ASSUME NEW n \in Nat, NEW T \in SUBSET (0..n), T # {}
    PROVE  Max(T) \in T /\ \A i \in T : Max(T) >= i
  <1> DEFINE less == {p \in Nat \X Nat : p[1] < p[2]}
  <1> DEFINE fromTop == {n - i : i \in T}
  <1>1. IsWellFoundedOn(less, Nat)
    BY NatLessThanWellFounded DEF OpToRel
  <1>2. fromTop \subseteq Nat /\ fromTop # {}
    <2>1. \A i \in T : i \in 0..n /\ n - i \in Nat
      OBVIOUS
    <2>2. fromTop \subseteq Nat
      BY <2>1
    <2>3. PICK i : i \in T
      OBVIOUS
    <2>4. n - i \in fromTop
      BY <2>3
    <2>5. QED
      BY <2>2, <2>4
  <1>3. PICK d \in fromTop : \A e \in fromTop : ~(<<e, d>> \in less)
    <2> HIDE DEF less, fromTop
    <2>1. QED
      BY <1>1, <1>2, WFMin
  <1>4. PICK m \in T : d = n - m
    OBVIOUS
  <1>5. \A i \in T : m >= i
    <2> SUFFICES ASSUME NEW i \in T, ~(m >= i) PROVE FALSE
      OBVIOUS
    <2>1. n - i \in fromTop /\ n - i \in Nat /\ n - m \in Nat /\ n - i < n - m
      OBVIOUS
    <2>2. <<n - i, n - m>> \in less
      BY <2>1
    <2>3. QED
      BY <1>3, <1>4, <2>1, <2>2
  <1>6. QED
    BY <1>5 DEF Max

EventsGrow == events' = events \/ \E e \in Event : events' = Append(events, e)

\* Terminal events stay what they are; a new one is behind all others.
LEMMA EventsKept ==
    ASSUME TypeOK, EventsGrow
    PROVE  /\ events' \in Seq(Event) /\ Len(events) \in Nat /\ Len(events') \in Nat
           /\ Len(events) <= Len(events')
           /\ \A id \in 1..Len(events) : events'[id] = events[id]
           /\ TerminalIds \subseteq 1..Len(events) /\ TerminalIds' \subseteq 1..Len(events')
           /\ TerminalIds \subseteq TerminalIds'
           /\ \A id \in TerminalIds' \ TerminalIds : id = Len(events) + 1 /\ Len(events) < id
  <1>1. events \in Seq(Event) /\ Len(events) \in Nat /\ DOMAIN events = 1..Len(events)
    BY LenProperties DEF TypeOK
  <1>2. /\ events' \in Seq(Event) /\ Len(events') \in {Len(events), Len(events) + 1}
        /\ \A id \in 1..Len(events) : events'[id] = events[id]
    BY <1>1, AppendProperties DEF EventsGrow
  <1>3. DOMAIN events' = 1..Len(events')
    BY <1>2, LenProperties
  <1>4. /\ TerminalIds = {id \in 1..Len(events) : events[id].kind \in Terminal}
        /\ TerminalIds' = {id \in 1..Len(events') : events'[id].kind \in Terminal}
    BY <1>1, <1>3 DEF TerminalIds
  <1>5. TerminalIds \subseteq TerminalIds'
    BY <1>1, <1>2, <1>4
  <1>6. ASSUME NEW id \in TerminalIds' \ TerminalIds
        PROVE  id = Len(events) + 1 /\ Len(events) < id
    BY <1>1, <1>2, <1>4
  <1>7. QED
    BY <1>1, <1>2, <1>4, <1>5, <1>6

\* What the notifier relies on is not disturbed by new events.
LEMMA PollKept ==
    ASSUME TypeOK, PollInv, EventsGrow, UNCHANGED pollVars
    PROVE  PollInv'
  <1>1. /\ UNCHANGED <<cursor, base, batch, tried>>
        /\ cursor \in Nat \cup {None} /\ base \in Nat /\ batch \subseteq TerminalIds
        /\ tried \in Seq(Nat)
    BY DEF pollVars, TypeOK
  <1>2. /\ Len(events) \in Nat /\ Len(events') \in Nat /\ Len(events) <= Len(events')
        /\ TerminalIds \subseteq 1..Len(events)
        /\ TerminalIds \subseteq TerminalIds'
        /\ \A id \in TerminalIds' \ TerminalIds : Len(events) < id /\ id \in Nat
    BY EventsKept
  <1>3. TriedInOrder'
    BY <1>1, <1>2 DEF PollInv, TriedInOrder
  <1>4. BatchPrefix'
    <2>1. \A id \in batch : id \in 1..Len(events)
      BY <1>1, <1>2
    <2>2. \A id \in batch, other \in TerminalIds' \ TerminalIds : ~(other < id)
      BY <1>2, <2>1
    <2>3. QED
      BY <1>1, <1>2, <2>2 DEF PollInv, BatchPrefix
  <1>5. CursorReached'
    BY <1>1, <1>2 DEF PollInv, CursorReached
  <1>6. QED
    BY <1>3, <1>4, <1>5 DEF PollInv

---------------------------------------------------------------------------
(* The notifier                                                            *)

\* tail_from_now is an event id that no terminal event exceeds.
LEMMA LatestTerminal ==
    ASSUME TypeOK
    PROVE  /\ latest_terminal_event_id \in Nat /\ latest_terminal_event_id <= Len(events)
           /\ \A id \in TerminalIds : id <= latest_terminal_event_id
  <1>1. Len(events) \in Nat /\ TerminalIds \subseteq 1..Len(events)
    BY LenProperties DEF TypeOK, TerminalIds
  <1>2. CASE TerminalIds = {}
    BY <1>1, <1>2 DEF latest_terminal_event_id
  <1>3. CASE TerminalIds # {}
    <2>1. TerminalIds \in SUBSET (0..Len(events))
      BY <1>1
    <2>2. Max(TerminalIds) \in TerminalIds /\ \A id \in TerminalIds : Max(TerminalIds) >= id
      BY <1>1, <1>3, <2>1, MaxOfBounded
    <2>3. latest_terminal_event_id = Max(TerminalIds)
      BY <1>3 DEF latest_terminal_event_id
    <2>4. \A id \in TerminalIds : id \in Nat /\ id <= Len(events)
      BY <1>1
    <2>5. QED
      BY <2>2, <2>3, <2>4
  <1>4. QED
    BY <1>2, <1>3

\* A fetched batch is a prefix of the terminal events behind the cursor.
LEMMA FetchedPrefix ==
    ASSUME TypeOK, NEW since \in Nat, NEW id \in terminal_events_since(since),
           NEW other \in TerminalIds, since < other, other < id
    PROVE  other \in terminal_events_since(since)
  <1> DEFINE ids == {e \in TerminalIds : e > since}
  <1> DEFINE before(e) == {o \in ids : o < e}
  <1>1. id \in ids /\ other \in ids /\ Cardinality(before(id)) < BatchLimit
    BY DEF terminal_events_since, TerminalIds, TypeOK
  <1>2. TerminalIds \subseteq 1..Len(events) /\ Len(events) \in Nat
    BY LenProperties DEF TypeOK, TerminalIds
  <1>3. \A e \in TerminalIds : e \in Nat
    BY <1>2
  <1>4. before(other) \in SUBSET before(id)
    BY <1>1, <1>3
  <1>5. IsFiniteSet(before(id))
    <2>1. before(id) \in SUBSET (1..Len(events))
      BY <1>2
    <2>2. IsFiniteSet(1..Len(events))
      BY <1>2, FS_Interval
    <2>3. QED
      BY <2>1, <2>2, FS_Subset
  <1>6. /\ Cardinality(before(id)) \in Nat /\ Cardinality(before(other)) \in Nat
        /\ Cardinality(before(other)) <= Cardinality(before(id))
    <2> HIDE DEF before
    <2>1. IsFiniteSet(before(other)) /\ Cardinality(before(other)) <= Cardinality(before(id))
      BY <1>4, <1>5, FS_Subset
    <2>2. QED
      BY <1>5, <2>1, FS_CardinalityType
  <1>7. Cardinality(before(other)) < BatchLimit
    BY <1>1, <1>6, NoticesAssumption DEF NoticesAssumption
  <1>8. QED
    BY <1>1, <1>7 DEF terminal_events_since

\* The first poll of a process starts behind all that was recorded before.
LEMMA FirstPollStep ==
    ASSUME TypeOK, PollInv, FirstPoll
    PROVE  PollInv' /\ cursor' \in Nat /\ base' \in Nat
  <1>1. /\ cursor = None /\ batch = {}
        /\ cursor' = latest_terminal_event_id /\ base' = cursor'
        /\ batch' = batch /\ tried' = tried /\ events' = events
    BY DEF FirstPoll, tail_from_now, storeVars, PollInv, BatchPrefix
  <1>2. TerminalIds' = TerminalIds
    BY <1>1 DEF TerminalIds
  <1>3. /\ cursor' \in Nat /\ cursor' <= Len(events)
        /\ \A id \in TerminalIds : id <= cursor'
    BY <1>1, LatestTerminal
  <1>4. TriedInOrder'
    BY <1>1, <1>2 DEF PollInv, TriedInOrder
  <1>5. BatchPrefix'
    BY <1>1, <1>2, <1>3 DEF PollInv, TriedInOrder, BatchPrefix
  <1>6. CursorReached'
    <2>1. TerminalIds \subseteq Nat
      BY LenProperties DEF TypeOK, TerminalIds
    <2>2. QED
      BY <1>1, <1>2, <1>3, <2>1 DEF CursorReached
  <1>7. QED
    BY <1>1, <1>3, <1>4, <1>5, <1>6 DEF PollInv

\* A new batch continues behind the cursor.
LEMMA FetchStep ==
    ASSUME TypeOK, PollInv, Fetch
    PROVE  PollInv' /\ batch' \subseteq TerminalIds
  <1>1. /\ cursor \in Nat /\ batch = {} /\ batch' # {}
        /\ batch' = terminal_events_since(cursor)
        /\ UNCHANGED <<cursor, base, tried, events>>
    BY DEF Fetch, storeVars, TypeOK
  <1>2. TerminalIds' = TerminalIds
    BY <1>1 DEF TerminalIds
  <1>3. \A id \in batch' : id \in TerminalIds /\ cursor < id
    BY <1>1 DEF terminal_events_since
  <1>4. TerminalIds \subseteq Nat /\ \A i \in 1..Len(tried) : tried[i] \in Nat
    <2>1. TerminalIds \subseteq Nat
      BY LenProperties DEF TypeOK, TerminalIds
    <2>2. tried \in Seq(Nat)
      BY DEF TypeOK
    <2>3. \A i \in 1..Len(tried) : tried[i] \in Nat
      BY <2>2, ElementOfSeq
    <2>4. QED
      BY <2>1, <2>3
  <1>5. TriedInOrder' /\ CursorReached'
    BY <1>1, <1>2 DEF PollInv, TriedInOrder, CursorReached
  <1>6. BatchPrefix'
    <2>1. cursor # None
      BY <1>1, NoticesAssumption DEF NoticesAssumption
    <2>2. \A id \in batch', i \in 1..Len(tried) : tried[i] < id
      <3>1. \A i \in 1..Len(tried) : tried[i] <= cursor /\ tried[i] \in Nat
        BY <1>1, <1>4, <2>1 DEF PollInv, BatchPrefix
      <3>2. \A id \in batch' : id \in Nat /\ cursor < id
        BY <1>3, <1>4
      <3>3. QED
        BY <1>1, <3>1, <3>2
    <2>3. \A id \in batch', other \in TerminalIds : cursor < other /\ other < id => other \in batch'
      BY <1>1, FetchedPrefix
    <2>4. QED
      BY <1>1, <1>2, <1>3, <2>1, <2>2, <2>3 DEF BatchPrefix
  <1>7. QED
    BY <1>3, <1>5, <1>6 DEF PollInv

\* The smallest id of the batch is handed over; the cursor follows the last.
LEMMA DeliverStep ==
    ASSUME TypeOK, PollInv, Deliver
    PROVE  PollInv' /\ batch' \subseteq TerminalIds /\ tried' \in Seq(Nat)
           /\ cursor' \in Nat
  <1>1. PICK id \in batch :
             /\ \A other \in batch : id <= other
             /\ tried' = Append(tried, id)
             /\ batch' = batch \ {id}
             /\ cursor' = IF batch' = {} THEN id ELSE cursor
             /\ UNCHANGED <<base, events>>
    BY DEF Deliver, storeVars, cursor_after
  <1>2. /\ id \in TerminalIds /\ TerminalIds' = TerminalIds
        /\ TerminalIds \subseteq 1..Len(events) /\ Len(events) \in Nat
        /\ batch \subseteq TerminalIds
        /\ cursor \in Nat /\ base \in Nat /\ cursor # None
        /\ cursor < id
    BY <1>1, LenProperties, NoticesAssumption
    DEF NoticesAssumption, TypeOK, TerminalIds, PollInv, BatchPrefix
  <1>3. \A e \in TerminalIds : e \in Nat /\ e <= Len(events)
    BY <1>2
  <1>4. /\ tried \in Seq(Nat) /\ tried' \in Seq(Nat)
        /\ Len(tried) \in Nat /\ Len(tried') = Len(tried) + 1
        /\ \A i \in 1..Len(tried) : tried'[i] = tried[i]
        /\ tried'[Len(tried) + 1] = id
        /\ Range(tried') = Range(tried) \cup {id}
    <2>1. tried \in Seq(Nat) /\ id \in Nat
      BY <1>2, <1>3 DEF TypeOK
    <2>2. QED
      BY <1>1, <2>1, AppendProperties, AppendApart, LenProperties
  <1>5. \A i \in 1..Len(tried) : tried[i] < id /\ tried[i] \in TerminalIds
    BY <1>1 DEF PollInv, BatchPrefix, TriedInOrder
  <1>6. TriedInOrder'
    <2>1. \A i, j \in 1..Len(tried) : i < j => tried[i] < tried[j]
      BY DEF PollInv, TriedInOrder
    <2>2. QED
      <3>1. \A i \in 1..Len(tried') : IF i = Len(tried) + 1 THEN tried'[i] = id
                                       ELSE i \in 1..Len(tried) /\ tried'[i] = tried[i]
        BY <1>4
      <3>2. ASSUME NEW i \in 1..Len(tried'), NEW j \in 1..Len(tried'), i < j
            PROVE  tried'[i] < tried'[j]
        <4>1. i \in 1..Len(tried) /\ tried'[i] = tried[i]
          BY <1>4, <3>1, <3>2
        <4>2. CASE j = Len(tried) + 1
          BY <1>5, <3>1, <4>1, <4>2
        <4>3. CASE j # Len(tried) + 1
          BY <2>1, <3>1, <3>2, <4>1, <4>3
        <4>4. QED
          BY <4>2, <4>3
      <3>3. \A i \in 1..Len(tried') : tried'[i] \in TerminalIds
        BY <1>2, <1>5, <3>1
      <3>4. QED
        BY <1>2, <3>2, <3>3 DEF TriedInOrder
  <1>7. \A e \in batch \ {id} : id < e
    BY <1>1, <1>2, <1>3
  <1>8. cursor' \in Nat /\ cursor' # None /\ (cursor' = id \/ cursor' = cursor)
    BY <1>1, <1>2, <1>3, NoticesAssumption DEF NoticesAssumption
  <1>9. \A other \in TerminalIds : cursor < other /\ other < id => other \in Range(tried)
    <2> SUFFICES ASSUME NEW other \in TerminalIds, cursor < other, other < id
                 PROVE  other \in Range(tried)
      OBVIOUS
    <2>1. other \in batch \/ other \in Range(tried)
      BY <1>1 DEF PollInv, BatchPrefix
    <2>2. other \notin batch
      BY <1>1, <1>2, <1>3
    <2>3. QED
      BY <2>1, <2>2
  <1>10. BatchPrefix'
    <2>1. \A e \in batch' : cursor' < e /\ \A i \in 1..Len(tried') : tried'[i] < e
      <3> SUFFICES ASSUME NEW e \in batch'
                   PROVE  cursor' < e /\ \A i \in 1..Len(tried') : tried'[i] < e
        OBVIOUS
      <3>1. e \in batch \ {id} /\ cursor' = cursor
        BY <1>1
      <3>2. cursor < e /\ id < e /\ \A i \in 1..Len(tried) : tried[i] < e
        BY <1>7, <3>1 DEF PollInv, BatchPrefix
      <3>3. QED
        BY <1>4, <3>1, <3>2
    <2>2. \A e \in batch', other \in TerminalIds :
             cursor' < other /\ other < e => other \in batch' \/ other \in Range(tried')
      <3> SUFFICES ASSUME NEW e \in batch', NEW other \in TerminalIds, cursor' < other, other < e
                   PROVE  other \in batch' \/ other \in Range(tried')
        OBVIOUS
      <3>1. e \in batch /\ cursor' = cursor
        BY <1>1
      <3>2. other \in batch \/ other \in Range(tried)
        BY <3>1 DEF PollInv, BatchPrefix
      <3>3. QED
        BY <1>1, <1>4, <3>2
    <2>3. batch' = {} => \A i \in 1..Len(tried') : tried'[i] <= cursor'
      <3> SUFFICES ASSUME batch' = {}, NEW i \in 1..Len(tried') PROVE tried'[i] <= cursor'
        OBVIOUS
      <3>1. cursor' = id /\ id \in Nat
        BY <1>1, <1>2, <1>3
      <3>2. CASE i = Len(tried) + 1
        BY <1>4, <3>1, <3>2
      <3>3. CASE i # Len(tried) + 1
        BY <1>3, <1>4, <1>5, <3>1, <3>3
      <3>4. QED
        BY <3>2, <3>3
    <2>4. QED
      BY <1>2, <1>8, <2>1, <2>2, <2>3 DEF BatchPrefix
  <1>11. CursorReached'
    <2>1. /\ base <= cursor /\ cursor <= Len(events)
          /\ \A e \in TerminalIds : base < e /\ e <= cursor => e \in Range(tried)
      BY <1>2 DEF PollInv, CursorReached
    <2>2. base <= cursor' /\ cursor' <= Len(events)
      BY <1>2, <1>3, <1>8, <2>1
    <2>3. \A e \in TerminalIds : base < e /\ e <= cursor' => e \in Range(tried')
      <3> SUFFICES ASSUME NEW e \in TerminalIds, base < e, e <= cursor'
                   PROVE  e \in Range(tried')
        OBVIOUS
      <3>1. CASE e <= cursor
        BY <1>4, <2>1, <3>1
      <3>2. CASE cursor < e /\ cursor' = id
        BY <1>2, <1>3, <1>4, <1>9, <3>2
      <3>3. QED
        BY <1>2, <1>3, <1>8, <3>1, <3>2
    <2>4. QED
      BY <1>1, <1>2, <2>2, <2>3 DEF CursorReached
  <1>12. QED
    BY <1>1, <1>2, <1>4, <1>6, <1>8, <1>10, <1>11 DEF PollInv

---------------------------------------------------------------------------
(* The dispatcher                                                          *)

\* TypeOK, thread by thread.
DriverTypes ==
    /\ pc \in {"idle", "running", "appending", "recording"}
    /\ task \in Tasks \cup {None}
    /\ (pc = "idle") <=> (task = None)
    /\ run \in 0..Len(events)
    /\ turn \in 1..MaxTurns
    /\ result \in Outcomes
    /\ held \in 0..Len(buckets)
StoreTypes ==
    /\ status \in [Tasks -> {"ready", "running", "completed", "blocked"}]
    /\ task # None => status[task] = "running"
    /\ failures \in [Tasks -> Nat]
    /\ \A t \in Tasks : failures[t] <= FailureLimit[t]
    /\ events \in Seq(Event)
BufferTypes ==
    /\ buckets \in Seq(Seq(Note))
    /\ current \in 0..Len(buckets)
    /\ popped \in 0..Len(buckets)
    /\ told \in Seq(Note)
    /\ late \subseteq Note
PollTypes ==
    /\ cursor \in Nat \cup {None}
    /\ base \in Nat
    /\ batch \subseteq TerminalIds
    /\ tried \in Seq(Nat)
    /\ faults \in 0..MaxFaults

LEMMA TypeParts ==
    TypeOK <=> DriverTypes /\ StoreTypes /\ BufferTypes /\ PollTypes
  BY DEF TypeOK, DriverTypes, StoreTypes, BufferTypes, PollTypes

LEMMA TypePartsNext ==
    TypeOK' <=> DriverTypes' /\ StoreTypes' /\ BufferTypes' /\ PollTypes'
  BY DEF TypeOK, DriverTypes, StoreTypes, BufferTypes, PollTypes, TerminalIds

\* The running task and its claim.
LEMMA Running ==
    ASSUME TypeOK, OneRun, RunNames, pc # "idle"
    PROVE  /\ task \in Tasks /\ status[task] = "running" /\ failures[task] = 0
           /\ run = Len(events) /\ run \in 1..Len(events)
           /\ events[run].kind = "claimed" /\ events[run].task = task
           /\ \A id \in TerminalIds : events[id].run # run
  <1>1. Len(events) \in Nat /\ DOMAIN events = 1..Len(events)
    BY LenProperties DEF TypeOK
  <1>2. /\ task \in Tasks /\ status[task] = "running" /\ failures[task] = 0
        /\ run = Len(events) /\ run \in 1..Len(events)
        /\ events[run].kind = "claimed" /\ events[run].task = task
    BY <1>1 DEF TypeOK, OneRun
  <1>3. \A id \in TerminalIds : events[id].run # run
    <2> SUFFICES ASSUME NEW id \in TerminalIds PROVE events[id].run # run
      OBVIOUS
    <2>1. id \in 1..Len(events) /\ events[id].kind # "claimed"
      BY <1>1 DEF TerminalIds, Terminal
    <2>2. events[id].run < id
      BY <2>1 DEF RunNames
    <2>3. events[id].run \in Nat
      <3>1. events[id] \in Event
        BY <2>1, ElementOfSeq DEF TypeOK
      <3>2. QED
        BY <3>1 DEF Event
    <2>4. QED
      BY <1>1, <1>2, <2>1, <2>2, <2>3
  <1>4. QED
    BY <1>2, <1>3

\* A note is a note of a bucket or of a prompt.
LEMMA HeardNotes ==
    ASSUME BufferTypes
    PROVE  Heard \subseteq Note
  <1>1. Range(told) \subseteq Note
    BY LenProperties, ElementOfSeq DEF BufferTypes, Range
  <1>2. ASSUME NEW i \in Undrained
        PROVE  Range(buckets[i]) \subseteq Note
    <2>1. i \in 1..Len(buckets)
      BY LenProperties DEF BufferTypes, Undrained
    <2>2. buckets[i] \in Seq(Note)
      BY <2>1, ElementOfSeq DEF BufferTypes
    <2>3. QED
      BY <2>2, LenProperties, ElementOfSeq DEF Range
  <1>3. QED
    BY <1>1, <1>2 DEF Heard

\* The empty store and the empty buffer satisfy the invariant.
LEMMA InitInv == Init => Inv
  <1> SUFFICES ASSUME Init PROVE Inv
    OBVIOUS
  <1> USE DEF Init
  <1>1. /\ DriverTypes /\ BufferTypes
    BY NoticesAssumption DEF NoticesAssumption, DriverTypes, BufferTypes, Outcomes
  <1>2. StoreTypes
    BY NoticesAssumption DEF NoticesAssumption, StoreTypes
  <1>3. PollTypes
    BY NoticesAssumption DEF NoticesAssumption, PollTypes
  <1>4. TypeOK
    BY <1>1, <1>2, <1>3, TypeParts
  <1>5. OneRun /\ RunNames
    BY DEF OneRun, RunNames
  <1>6. Undrained = {} /\ Heard = {}
    BY DEF Undrained, Heard, Range
  <1>7. NotesInv
    BY <1>6 DEF NotesInv, HeardRuns, FreshNote, NotesApart, IsInjective
  <1>8. AnnouncedIsFinal
    BY <1>6 DEF AnnouncedIsFinal, Announcement
  <1>9. PollInv
    BY DEF PollInv, TriedInOrder, BatchPrefix, CursorReached
  <1>10. QED
    BY <1>4, <1>5, <1>7, <1>8, <1>9 DEF Inv

\* A task is claimed: its run is new, and it has not announced anything final.
LEMMA ClaimStep ==
    ASSUME Inv, NEW t \in Tasks, Claim(t)
    PROVE  Inv'
  <1> USE DEF Inv
  <1> DEFINE e == [kind |-> "claimed", run |-> Len(events) + 1, task |-> t]
  <1>1. /\ pc = "idle" /\ status[t] = "ready" /\ failures[t] = 0
        /\ status' = [status EXCEPT ![t] = "running"]
        /\ events' = Append(events, e)
        /\ run' = Len(events) + 1 /\ task' = t /\ turn' = 1 /\ pc' = "running"
        /\ UNCHANGED <<result, held, failures, buckets, current, popped, told, late,
                       cursor, base, batch, tried, faults>>
    BY DEF Claim, Claimable, bufferVars, pollVars
  <1>2. e \in Event /\ events \in Seq(Event) /\ Len(events) \in Nat
    BY LenProperties DEF Event, TypeOK
  <1>3. /\ events' \in Seq(Event) /\ Len(events') = Len(events) + 1
        /\ \A id \in 1..Len(events) : events'[id] = events[id]
        /\ events'[Len(events) + 1] = e
    BY <1>1, <1>2, AppendProperties
  <1>4. EventsGrow
    BY <1>1, <1>2 DEF EventsGrow
  <1>5. TerminalIds' = TerminalIds
    <2>1. DOMAIN events = 1..Len(events) /\ DOMAIN events' = 1..(Len(events) + 1)
      BY <1>2, <1>3, LenProperties
    <2>2. e.kind \notin Terminal
      BY DEF Terminal
    <2>3. QED
      BY <1>2, <1>3, <2>1, <2>2 DEF TerminalIds
  <1>6. \A u \in Tasks : u # None
    BY NoticesAssumption DEF NoticesAssumption
  <1>7. TypeOK'
    <2>1. DriverTypes' /\ BufferTypes'
      BY <1>1, <1>2, <1>3, <1>6, NoticesAssumption
      DEF NoticesAssumption, TypeOK, DriverTypes, BufferTypes
    <2>2. StoreTypes'
      <3>1. status' \in [Tasks -> {"ready", "running", "completed", "blocked"}]
        BY <1>1 DEF TypeOK
      <3>2. status'[task'] = "running"
        BY <1>1 DEF TypeOK
      <3>3. QED
        BY <1>1, <1>3, <3>1, <3>2 DEF TypeOK, StoreTypes
    <2>3. PollTypes'
      BY <1>1, <1>5 DEF TypeOK, PollTypes
    <2>4. QED
      BY <2>1, <2>2, <2>3, TypePartsNext
  <1>8. OneRun'
    BY <1>1, <1>2, <1>3 DEF OneRun
  <1>9. RunNames'
    BY <1>2, <1>3 DEF RunNames
  <1>10. Heard' = Heard /\ Undrained' = Undrained
    BY <1>1 DEF Heard, Undrained
  <1>11. \A n \in Heard : /\ n.run \in 1..Len(events) /\ events[n.run].kind = "claimed"
                          /\ events'[n.run] = events[n.run] /\ n.run # run'
    BY <1>1, <1>2, <1>3 DEF NotesInv, HeardRuns
  <1>12. NotesInv'
    <2>1. HeardRuns' /\ FreshNote'
      BY <1>2, <1>3, <1>10, <1>11 DEF HeardRuns, FreshNote
    <2>2. NotesApart'
      BY <1>1, <1>10 DEF NotesInv, NotesApart
    <2>3. QED
      BY <2>1, <2>2 DEF NotesInv
  <1>13. AnnouncedIsFinal'
    <2> SUFFICES ASSUME NEW n, n \in Heard, n.says = "completed",
                        events[n.run].task \notin GoalTasks,
                        NEW i \in TerminalIds, events'[i].run = n.run
                 PROVE  /\ status'[events[n.run].task] = "completed"
                        /\ \A id \in 1..Len(events') :
                              id > n.run /\ events'[id].kind = "claimed"
                                  => events'[id].task # events[n.run].task
      BY <1>5, <1>10, <1>11 DEF AnnouncedIsFinal, Announcement
    <2>1. i \in 1..Len(events) /\ events'[i] = events[i]
      BY <1>2, <1>3, LenProperties DEF TerminalIds
    <2>2. /\ status[events[n.run].task] = "completed"
          /\ \A id \in 1..Len(events) :
                id > n.run /\ events[id].kind = "claimed"
                    => events[id].task # events[n.run].task
      BY <2>1 DEF AnnouncedIsFinal, Announcement
    <2>3. events[n.run].task # t
      BY <1>1, <2>2
    <2>4. events[n.run].task \in Tasks
      <3>1. n.run \in 1..Len(events)
        BY <1>11
      <3>2. events[n.run] \in Event
        BY <1>2, <3>1, ElementOfSeq
      <3>3. QED
        BY <3>2 DEF Event
    <2>5. status'[events[n.run].task] = "completed"
      BY <1>1, <2>2, <2>3, <2>4 DEF TypeOK
    <2>6. ASSUME NEW id \in 1..Len(events'), id > n.run, events'[id].kind = "claimed"
          PROVE  events'[id].task # events[n.run].task
      <3>1. CASE id = Len(events) + 1
        BY <1>3, <2>3, <3>1
      <3>2. CASE id # Len(events) + 1
        BY <1>2, <1>3, <2>2, <2>6, <3>2
      <3>3. QED
        BY <3>1, <3>2
    <2>7. QED
      BY <2>5, <2>6
  <1>14. PollInv'
    BY <1>1, <1>4, PollKept DEF pollVars
  <1>15. QED
    BY <1>7, <1>8, <1>9, <1>12, <1>13, <1>14

\* The end of a run is recorded: a completion is final for its task, and no
\* other announcement is concerned.
LEMMA RecordStep ==
    ASSUME Inv, Record
    PROVE  Inv'
  <1> USE DEF Inv
  <1>1. /\ pc = "recording" /\ pc # "idle"
        /\ pc' = "idle" /\ task' = None /\ run' = 0 /\ turn' = 1
        /\ result' = "failed" /\ held' = 0
        /\ UNCHANGED <<buckets, current, popped, told, late,
                       cursor, base, batch, tried, faults>>
    BY DEF Record, Idle, bufferVars, pollVars
  <1>2. /\ task \in Tasks /\ status[task] = "running" /\ failures[task] = 0
        /\ run = Len(events) /\ run \in 1..Len(events)
        /\ events[run].kind = "claimed" /\ events[run].task = task
    BY <1>1, Running
  <1>3. /\ FailureLimit[task] \in Nat \ {0}
        /\ events \in Seq(Event) /\ Len(events) \in Nat
    BY <1>2, LenProperties, NoticesAssumption DEF NoticesAssumption, TypeOK
  <1>4. \E kind \in Terminal, end \in {"ready", "completed", "blocked"}, f \in {0, 1} :
           /\ events' = Append(events, [kind |-> kind, run |-> run, task |-> task])
           /\ status' = [status EXCEPT ![task] = end]
           /\ failures' = [failures EXCEPT ![task] = f]
           /\ f <= FailureLimit[task]
           /\ result = "completed" => end = "completed"
    <2>1. CASE result = "completed" /\ complete
      <3>1. "completed" \in Terminal /\ 0 <= FailureLimit[task]
        BY <1>3 DEF Terminal
      <3>2. QED
        BY <2>1, <3>1 DEF complete
    <2>2. CASE result # "completed" /\ record_failure
      <3>1. /\ "blocked" \in Terminal /\ "failed" \in Terminal
            /\ failures[task] + 1 = 1 /\ 1 <= FailureLimit[task]
        BY <1>2, <1>3 DEF Terminal
      <3>2. QED
        BY <2>2, <3>1 DEF record_failure
    <2>3. QED
      BY <2>1, <2>2 DEF Record
  <1>5. PICK kind \in Terminal, end \in {"ready", "completed", "blocked"}, f \in {0, 1} :
           /\ events' = Append(events, [kind |-> kind, run |-> run, task |-> task])
           /\ status' = [status EXCEPT ![task] = end]
           /\ failures' = [failures EXCEPT ![task] = f]
           /\ f <= FailureLimit[task]
           /\ result = "completed" => end = "completed"
    BY <1>4
  <1>6. PICK e : e = [kind |-> kind, run |-> run, task |-> task]
    OBVIOUS
  <1>7. e \in Event /\ e.kind # "claimed" /\ e.run = run /\ e.task = task
    BY <1>2, <1>6 DEF Event, Terminal
  <1>8. /\ events' \in Seq(Event) /\ Len(events') = Len(events) + 1
        /\ \A id \in 1..Len(events) : events'[id] = events[id]
        /\ events'[Len(events) + 1] = e
    BY <1>3, <1>5, <1>6, <1>7, AppendProperties
  <1>9. EventsGrow
    BY <1>5, <1>6, <1>7 DEF EventsGrow
  <1>10. /\ TerminalIds \subseteq TerminalIds'
         /\ \A id \in TerminalIds' : id \in TerminalIds \/ id = Len(events) + 1
    BY <1>9, EventsKept
  <1>11. \A u \in Tasks : u # None
    BY NoticesAssumption DEF NoticesAssumption
  <1>12. TypeOK'
    <2>1. DriverTypes' /\ BufferTypes'
      BY <1>1, <1>3, <1>8, NoticesAssumption
      DEF NoticesAssumption, TypeOK, DriverTypes, BufferTypes, Outcomes
    <2>2. StoreTypes'
      <3>1. status' \in [Tasks -> {"ready", "running", "completed", "blocked"}]
        BY <1>2, <1>5 DEF TypeOK
      <3>2. /\ failures' \in [Tasks -> Nat]
            /\ \A u \in Tasks : failures'[u] <= FailureLimit[u]
        BY <1>2, <1>5 DEF TypeOK
      <3>3. QED
        BY <1>1, <1>8, <3>1, <3>2 DEF StoreTypes
    <2>3. PollTypes'
      BY <1>1, <1>10 DEF TypeOK, PollTypes
    <2>4. QED
      BY <2>1, <2>2, <2>3, TypePartsNext
  <1>13. OneRun'
    BY <1>1 DEF OneRun
  <1>14. RunNames'
    BY <1>2, <1>3, <1>7, <1>8 DEF RunNames
  <1>15. Heard' = Heard /\ Undrained' = Undrained
    BY <1>1 DEF Heard, Undrained
  <1>16. \A n \in Heard : /\ n.run \in 1..Len(events) /\ events[n.run].kind = "claimed"
                          /\ events'[n.run] = events[n.run]
    BY <1>3, <1>8 DEF NotesInv, HeardRuns
  <1>17. NotesInv'
    <2>1. HeardRuns' /\ FreshNote'
      BY <1>1, <1>3, <1>8, <1>15, <1>16 DEF HeardRuns, FreshNote
    <2>2. NotesApart'
      BY <1>1, <1>15 DEF NotesInv, NotesApart
    <2>3. QED
      BY <2>1, <2>2 DEF NotesInv
  <1>18. AnnouncedIsFinal'
    <2> SUFFICES ASSUME NEW n, n \in Heard, n.says = "completed",
                        events[n.run].task \notin GoalTasks,
                        NEW i \in TerminalIds', events'[i].run = n.run
                 PROVE  /\ status'[events[n.run].task] = "completed"
                        /\ \A id \in 1..Len(events') :
                              id > n.run /\ events'[id].kind = "claimed"
                                  => events'[id].task # events[n.run].task
      BY <1>1, <1>15, <1>16 DEF AnnouncedIsFinal, Announcement
    <2>1. Announcement(n)
      BY DEF Announcement
    <2>2. CASE i \in TerminalIds
      <3>1. i \in 1..Len(events) /\ events'[i] = events[i]
        BY <1>3, <1>8, <2>2, LenProperties DEF TerminalIds
      <3>2. /\ status[events[n.run].task] = "completed"
            /\ \A id \in 1..Len(events) :
                  id > n.run /\ events[id].kind = "claimed"
                      => events[id].task # events[n.run].task
        BY <2>1, <2>2, <3>1 DEF AnnouncedIsFinal
      <3>3. events[n.run].task # task
        BY <1>2, <3>2
      <3>4. events[n.run] \in Event
        BY <1>3, <1>16, ElementOfSeq
      <3>5. status'[events[n.run].task] = "completed"
        BY <1>5, <3>2, <3>3, <3>4 DEF TypeOK, Event
      <3>6. QED
        BY <1>3, <1>7, <1>8, <3>2, <3>5
    <2>3. CASE i = Len(events) + 1
      <3>1. n.run = run
        BY <1>7, <1>8, <2>3
      <3>2. result = "completed"
        BY <1>1, <2>1, <3>1 DEF AnnouncedIsFinal
      <3>3. status'[task] = "completed"
        BY <1>2, <1>5, <3>2 DEF TypeOK
      <3>4. \A id \in 1..Len(events') : id > run => events'[id].kind # "claimed"
        BY <1>2, <1>3, <1>7, <1>8
      <3>5. QED
        BY <1>2, <3>1, <3>3, <3>4
    <2>4. QED
      BY <1>10, <2>2, <2>3
  <1>19. PollInv'
    BY <1>1, <1>9, PollKept DEF pollVars
  <1>20. QED
    BY <1>12, <1>13, <1>14, <1>17, <1>18, <1>19

---------------------------------------------------------------------------
(* The buffer                                                              *)

\* Steps that touch neither store nor notifier.
LEMMA StoreKept ==
    ASSUME Inv, UNCHANGED <<storeVars, pollVars>>, faults' \in 0..MaxFaults
    PROVE  /\ TerminalIds' = TerminalIds /\ events' = events
           /\ status' = status /\ failures' = failures
           /\ RunNames' /\ PollInv' /\ PollTypes'
           /\ task' = task => StoreTypes'
  <1> USE DEF Inv
  <1>1. /\ TerminalIds' = TerminalIds /\ events' = events /\ EventsGrow
        /\ status' = status /\ failures' = failures
    BY DEF storeVars, TerminalIds, EventsGrow
  <1>2. PollInv'
    BY <1>1, PollKept
  <1>3. RunNames'
    BY <1>1 DEF RunNames
  <1>4. PollTypes'
    BY <1>1 DEF pollVars, TypeOK, PollTypes
  <1>5. task' = task => StoreTypes'
    BY <1>1 DEF TypeOK, StoreTypes
  <1>6. QED
    BY <1>1, <1>2, <1>3, <1>4, <1>5

\* No announcement is heard of a run before its last note.
LEMMA NotYetAnnounced ==
    ASSUME Inv, pc \in {"running", "appending"}
    PROVE  \A n : Announcement(n) => n.run # run
  BY DEF Inv, AnnouncedIsFinal

\* What was announced stays final while the store and what is heard do not
\* change and the current run makes no step past its announcement.
LEMMA FinalKept ==
    ASSUME Inv, UNCHANGED <<storeVars, pollVars>>, Heard' \subseteq Heard,
           \/ pc' = pc /\ run' = run /\ result' = result
           \/ pc \in {"running", "appending"} /\ run' = run
           \/ pc' = "idle"
    PROVE  AnnouncedIsFinal'
  <1>1. TerminalIds' = TerminalIds /\ events' = events /\ status' = status
    BY DEF storeVars, TerminalIds
  <1>2. \A n : Announcement(n)' => Announcement(n)
    BY <1>1 DEF Announcement
  <1>3. CASE pc' = pc /\ run' = run /\ result' = result
    BY <1>1, <1>2, <1>3 DEF Inv, AnnouncedIsFinal
  <1>4. CASE pc \in {"running", "appending"} /\ run' = run
    BY <1>1, <1>2, <1>4, NotYetAnnounced DEF Inv, AnnouncedIsFinal
  <1>5. CASE pc' = "idle"
    BY <1>1, <1>2, <1>5 DEF Inv, AnnouncedIsFinal
  <1>6. QED
    BY <1>3, <1>4, <1>5

\* The inner runner raises: no note.
LEMMA RaisesStep ==
    ASSUME Inv, RunnerRaises
    PROVE  Inv'
  <1> USE DEF Inv
  <1>1. /\ pc = "running" /\ pc' = "recording" /\ result' = "failed"
        /\ UNCHANGED <<task, run, turn, held, storeVars, pollVars, faults>>
        /\ UNCHANGED <<buckets, current, popped, told, late>>
    BY DEF RunnerRaises, bufferVars
  <1>2. /\ TerminalIds' = TerminalIds /\ events' = events /\ failures' = failures
        /\ RunNames' /\ PollInv' /\ PollTypes' /\ StoreTypes'
    BY <1>1, StoreKept DEF TypeOK
  <1>3. TypeOK'
    <2>1. DriverTypes' /\ BufferTypes'
      BY <1>1, <1>2 DEF TypeOK, DriverTypes, BufferTypes, Outcomes
    <2>2. QED
      BY <1>2, <2>1, TypePartsNext
  <1>4. OneRun'
    BY <1>1, <1>2 DEF OneRun
  <1>5. Heard' = Heard /\ Undrained' = Undrained
    BY <1>1 DEF Heard, Undrained
  <1>6. NotesInv'
    BY <1>1, <1>2, <1>5 DEF NotesInv, HeardRuns, FreshNote, NotesApart
  <1>7. AnnouncedIsFinal'
    BY <1>1, <1>5, FinalKept
  <1>8. QED
    BY <1>2, <1>3, <1>4, <1>6, <1>7

\* enqueue's setdefault: the session's list, or a new empty one.
LEMMA FindBucketStep ==
    ASSUME Inv, FindBucket
    PROVE  Inv'
  <1> USE DEF Inv
  <1>1. /\ pc = "running" /\ pc' = "appending" /\ result' \in Outcomes
        /\ held' = current'
        /\ UNCHANGED <<task, run, turn, popped, told, late, storeVars, pollVars, faults>>
    BY DEF FindBucket
  <1>2. /\ TerminalIds' = TerminalIds /\ events' = events /\ failures' = failures
        /\ RunNames' /\ PollInv' /\ PollTypes' /\ StoreTypes'
    BY <1>1, StoreKept DEF TypeOK
  <1>3. /\ buckets \in Seq(Seq(Note)) /\ Len(buckets) \in Nat
        /\ current \in 0..Len(buckets) /\ popped \in 0..Len(buckets)
        /\ <<>> \in Seq(Note) /\ Range(<<>>) = {} /\ IsInjective(<<>>)
    BY LenProperties DEF TypeOK, Range, IsInjective
  <1>4. /\ buckets' \in Seq(Seq(Note)) /\ Len(buckets') \in Nat
        /\ Len(buckets) <= Len(buckets')
        /\ \A i \in 1..Len(buckets) : buckets'[i] = buckets[i]
        /\ current' \in 1..Len(buckets')
        /\ \/ current # 0 /\ current' = current /\ Len(buckets') = Len(buckets)
           \/ /\ current = 0 /\ current' = Len(buckets) + 1 /\ buckets'[current'] = <<>>
              /\ Len(buckets') = Len(buckets) + 1
    <2>1. CASE current # 0
      BY <1>3, <2>1 DEF FindBucket, setdefault
    <2>2. CASE current = 0
      <3>1. buckets' = Append(buckets, <<>>) /\ current' = Len(buckets) + 1
        BY <2>2 DEF FindBucket, setdefault
      <3>2. QED
        BY <1>3, <2>2, <3>1, AppendProperties
    <2>3. QED
      BY <2>1, <2>2
  <1>5. TypeOK'
    <2>1. popped' \in 0..Len(buckets')
      BY <1>1, <1>3, <1>4
    <2>2. DriverTypes'
      BY <1>1, <1>2, <1>4 DEF TypeOK, DriverTypes
    <2>3. BufferTypes'
      BY <1>1, <1>4, <2>1 DEF TypeOK, BufferTypes
    <2>4. QED
      BY <1>2, <2>2, <2>3, TypePartsNext
  <1>6. OneRun'
    BY <1>1, <1>2, <1>4 DEF OneRun
  <1>7. /\ Undrained \subseteq Undrained'
        /\ \A i \in Undrained : i \in 1..Len(buckets) /\ buckets'[i] = buckets[i]
        /\ \A i \in Undrained' : \/ i \in Undrained
                                 \/ i = Len(buckets) + 1 /\ buckets'[i] = <<>>
    <2>1. \A i : i \in Undrained <=> i # 0 /\ (i = current \/ i = popped)
      BY DEF Undrained
    <2>2. \A i : i \in Undrained' <=> i # 0 /\ (i = current' \/ i = popped)
      BY <1>1 DEF Undrained
    <2>3. \A i \in Undrained : i \in 1..Len(buckets) /\ buckets'[i] = buckets[i]
      <3>1. \A i \in 0..Len(buckets) : i # 0 => i \in 1..Len(buckets)
        BY <1>3
      <3>2. \A i \in Undrained : i \in 1..Len(buckets)
        BY <1>3, <2>1, <3>1, Zenon
      <3>3. QED
        BY <1>4, <3>2, Zenon
    <2>4. QED
      BY <1>4, <2>1, <2>2, <2>3
  <1>8. Heard' = Heard
    BY <1>1, <1>3, <1>7 DEF Heard
  <1>9. NotesInv'
    <2>1. HeardRuns' /\ FreshNote'
      BY <1>1, <1>2, <1>8 DEF NotesInv, HeardRuns, FreshNote
    <2>2. current' # 0 => current' # popped'
      BY <1>1, <1>3, <1>4 DEF NotesInv, NotesApart
    <2>3. /\ \A i \in Undrained' : /\ IsInjective(buckets'[i])
                                   /\ Range(buckets'[i]) \cap Range(told) = {}
          /\ \A i, j \in Undrained' : i # j => Range(buckets'[i]) \cap Range(buckets'[j]) = {}
      BY <1>3, <1>7 DEF NotesInv, NotesApart
    <2>4. \A i \in 1..Len(buckets') :
             i \notin Undrained' => Range(buckets'[i]) \subseteq Range(told) \cup late
      <3> SUFFICES ASSUME NEW i \in 1..Len(buckets'), i \notin Undrained'
                   PROVE  Range(buckets'[i]) \subseteq Range(told) \cup late
        OBVIOUS
      <3>1. CASE i \in 1..Len(buckets)
        BY <1>4, <1>7, <3>1 DEF NotesInv, NotesApart
      <3>2. CASE i \notin 1..Len(buckets)
        BY <1>3, <1>4, <3>2
      <3>3. QED
        BY <3>1, <3>2
    <2>5. NotesApart'
      BY <1>1, <2>2, <2>3, <2>4 DEF NotesInv, NotesApart
    <2>6. QED
      BY <2>1, <2>5 DEF NotesInv
  <1>10. AnnouncedIsFinal'
    BY <1>1, <1>8, FinalKept
  <1>11. QED
    BY <1>2, <1>5, <1>6, <1>9, <1>10

\* drain's pop: the list leaves the table and is still to be copied.
LEMMA PopStep ==
    ASSUME Inv, PopBucket
    PROVE  Inv'
  <1> USE DEF Inv
  <1>1. /\ popped = 0 /\ current # 0 /\ popped' = current /\ current' = 0
        /\ UNCHANGED <<pc, task, run, turn, result, held, buckets, told, late,
                       storeVars, pollVars, faults>>
    BY DEF PopBucket, pop, driverVars
  <1>2. /\ events' = events /\ failures' = failures
        /\ RunNames' /\ PollInv' /\ PollTypes' /\ StoreTypes'
    BY <1>1, StoreKept DEF TypeOK
  <1>3. TypeOK'
    <2>1. DriverTypes' /\ BufferTypes'
      BY <1>1, <1>2, LenProperties DEF TypeOK, DriverTypes, BufferTypes
    <2>2. QED
      BY <1>2, <2>1, TypePartsNext
  <1>4. OneRun'
    BY <1>1, <1>2 DEF OneRun
  <1>5. Undrained' = Undrained
    BY <1>1 DEF Undrained
  <1>6. Heard' = Heard
    BY <1>1, <1>5 DEF Heard
  <1>7. NotesInv'
    BY <1>1, <1>2, <1>5, <1>6 DEF NotesInv, HeardRuns, FreshNote, NotesApart
  <1>8. AnnouncedIsFinal'
    BY <1>1, <1>6, FinalKept
  <1>9. QED
    BY <1>2, <1>3, <1>4, <1>7, <1>8

\* drain's copy: the notes of the popped list are folded into a prompt.
LEMMA FoldStep ==
    ASSUME Inv, FoldNotes
    PROVE  Inv'
  <1> USE DEF Inv
  <1>1. /\ popped # 0 /\ told' = told \o buckets[popped] /\ popped' = 0
        /\ UNCHANGED <<pc, task, run, turn, result, held, buckets, current, late,
                       storeVars, pollVars, faults>>
    BY DEF FoldNotes, driverVars
  <1>2. /\ events' = events /\ failures' = failures
        /\ RunNames' /\ PollInv' /\ PollTypes' /\ StoreTypes'
    BY <1>1, StoreKept DEF TypeOK
  <1>3. /\ popped \in 1..Len(buckets) /\ buckets[popped] \in Seq(Note) /\ told \in Seq(Note)
        /\ popped \in Undrained
    <2>1. popped \in 1..Len(buckets)
      BY <1>1, LenProperties DEF TypeOK
    <2>2. QED
      BY <1>1, <2>1, ElementOfSeq DEF TypeOK, Undrained
  <1>4. /\ told' \in Seq(Note)
        /\ Range(told') = Range(told) \cup Range(buckets[popped])
        /\ IsInjective(told')
    BY <1>1, <1>3, ConcatApart DEF NotesInv, NotesApart
  <1>5. TypeOK'
    <2>1. DriverTypes' /\ BufferTypes'
      BY <1>1, <1>2, <1>4, LenProperties DEF TypeOK, DriverTypes, BufferTypes
    <2>2. QED
      BY <1>2, <2>1, TypePartsNext
  <1>6. OneRun'
    BY <1>1, <1>2 DEF OneRun
  <1>7. Undrained' = Undrained \ {popped}
    BY <1>1 DEF Undrained, NotesInv, NotesApart
  <1>8. Heard' = Heard
    BY <1>1, <1>3, <1>4, <1>7 DEF Heard
  <1>9. NotesInv'
    <2>1. HeardRuns' /\ FreshNote'
      BY <1>1, <1>2, <1>8 DEF NotesInv, HeardRuns, FreshNote
    <2>2. NotesApart'
      BY <1>1, <1>3, <1>4, <1>7 DEF NotesInv, NotesApart
    <2>3. QED
      BY <2>1, <2>2 DEF NotesInv
  <1>10. AnnouncedIsFinal'
    BY <1>1, <1>8, FinalKept
  <1>11. QED
    BY <1>2, <1>5, <1>6, <1>9, <1>10

\* enqueue's append: the note is new.  It joins the heard notes, or comes late
\* when its list was drained in between.
LEMMA AppendStep ==
    ASSUME Inv, AppendNote
    PROVE  Inv'
  <1> USE DEF Inv
  <1> DEFINE note == [run |-> run, turn |-> turn, says |-> result]
  <1>1. /\ pc = "appending" /\ pc # "idle" /\ held' = 0 /\ GoalStep
        /\ buckets' = [buckets EXCEPT ![held] = Append(@, note)]
        /\ late' = IF held \in {current, popped} THEN late ELSE late \cup {note}
        /\ UNCHANGED <<task, run, current, popped, told, storeVars, pollVars, faults>>
    BY DEF AppendNote
  <1>2. \/ /\ pc' = "recording" /\ turn' = turn /\ result' \in Outcomes
           /\ task \notin GoalTasks => result' = result
        \/ /\ pc' = "running" /\ turn' = turn + 1 /\ turn < MaxTurns
           /\ result' = result /\ task \in GoalTasks
    BY <1>1 DEF GoalStep, TypeOK, Outcomes
  <1>3. /\ TerminalIds' = TerminalIds /\ events' = events /\ failures' = failures
        /\ status' = status
        /\ RunNames' /\ PollInv' /\ PollTypes' /\ StoreTypes'
    BY <1>1, StoreKept DEF TypeOK
  <1>4. /\ task \in Tasks /\ run = Len(events) /\ run \in 1..Len(events)
        /\ events[run].kind = "claimed" /\ events[run].task = task
        /\ \A id \in TerminalIds : events[id].run # run
    BY <1>1, Running
  <1>5. PICK m \in Note : m = note
    <2>1. run \in Nat /\ turn \in 1..MaxTurns /\ result \in Outcomes
      BY <1>4, LenProperties DEF TypeOK
    <2>2. QED
      BY <2>1 DEF Note
  <1>6. m.run = run /\ m.turn = turn /\ m.says = result
    BY <1>5
  <1>7. Heard \subseteq Note
    BY HeardNotes, TypeParts
  <1>8. \A n \in Heard : n.turn \in Nat /\ (n.run = run => n.turn < turn)
    BY <1>1, <1>7 DEF Note, NotesInv, FreshNote
  <1>9. m \notin Heard /\ turn \in Nat
    BY <1>6, <1>8 DEF TypeOK
  <1>10. held \in 1..Len(buckets) /\ held # 0 /\ buckets[held] \in Seq(Note)
    <2>1. held \in 1..Len(buckets)
      BY <1>1, LenProperties DEF TypeOK, OneRun
    <2>2. QED
      BY <2>1, ElementOfSeq DEF TypeOK
  <1>11. PICK list : list = Append(buckets[held], m)
    OBVIOUS
  <1>12. /\ list \in Seq(Note)
         /\ Range(list) = Range(buckets[held]) \cup {m}
         /\ IsInjective(buckets[held]) /\ m \notin Range(buckets[held]) => IsInjective(list)
    BY <1>10, <1>11, AppendApart
  <1>13. buckets \in Seq(Seq(Note)) /\ Len(buckets) \in Nat
    BY LenProperties DEF TypeOK
  <1>14. /\ buckets' = [buckets EXCEPT ![held] = list]
         /\ buckets' \in Seq(Seq(Note)) /\ Len(buckets') = Len(buckets)
         /\ buckets'[held] = list
         /\ \A i \in 1..Len(buckets) : i # held => buckets'[i] = buckets[i]
    <2>1. buckets' = [buckets EXCEPT ![held] = list]
      BY <1>1, <1>5, <1>11
    <2>2. QED
      BY <1>10, <1>12, <1>13, <2>1, ExceptSeq
  <1>15. Undrained' = Undrained /\ Undrained \subseteq 1..Len(buckets)
    BY <1>1, <1>13 DEF Undrained, TypeOK
  <1>16. IF held \in Undrained THEN late' = late ELSE late' = late \cup {m}
    BY <1>1, <1>5, <1>10 DEF Undrained
  <1>17. TypeOK'
    <2>1. turn' \in 1..MaxTurns
      BY <1>2, NoticesAssumption DEF NoticesAssumption, TypeOK
    <2>2. DriverTypes'
      BY <1>1, <1>2, <1>3, <1>14, <2>1 DEF TypeOK, DriverTypes
    <2>3. BufferTypes'
      BY <1>1, <1>14, <1>16 DEF TypeOK, BufferTypes
    <2>4. QED
      BY <1>3, <2>2, <2>3, TypePartsNext
  <1>18. OneRun'
    BY <1>1, <1>2, <1>3 DEF OneRun
  <1>19. Heard' \subseteq Heard \cup {m}
    <2>1. \A i \in Undrained : Range(buckets'[i]) \subseteq Range(buckets[i]) \cup {m}
      <3>1. ASSUME NEW i \in Undrained, i = held
            PROVE  Range(buckets'[i]) \subseteq Range(buckets[i]) \cup {m}
        BY <1>12, <1>14, <3>1
      <3>2. ASSUME NEW i \in Undrained, i # held
            PROVE  Range(buckets'[i]) \subseteq Range(buckets[i]) \cup {m}
        BY <1>14, <1>15, <3>2
      <3>3. QED
        BY <3>1, <3>2
    <2>2. Heard' = Range(told) \cup UNION {Range(buckets'[i]) : i \in Undrained}
      BY <1>1, <1>15 DEF Heard
    <2>3. QED
      BY <2>1, <2>2 DEF Heard
  <1>20. HeardRuns'
    BY <1>3, <1>4, <1>6, <1>19 DEF NotesInv, HeardRuns
  <1>21. FreshNote'
    <2> SUFFICES ASSUME pc' \in {"running", "appending"}, NEW n \in Heard', n.run = run
                 PROVE  n.turn < turn'
      BY <1>1 DEF FreshNote
    <2>1. turn' = turn + 1
      BY <1>2
    <2>2. CASE n \in Heard
      BY <1>8, <1>9, <2>1, <2>2
    <2>3. CASE n = m
      BY <1>6, <1>9, <2>1, <2>3
    <2>4. QED
      BY <1>19, <2>2, <2>3
  <1>22. NotesApart'
    <2>1. \A i \in Undrained : Range(buckets[i]) \subseteq Heard /\ m \notin Range(buckets[i])
      BY <1>9 DEF Heard
    <2>2. m \notin Range(told)
      BY <1>9 DEF Heard
    <2>3. \A i \in Undrained : IsInjective(buckets'[i]) /\ Range(buckets'[i]) \cap Range(told) = {}
      <3> SUFFICES ASSUME NEW i \in Undrained
                   PROVE  IsInjective(buckets'[i]) /\ Range(buckets'[i]) \cap Range(told) = {}
        OBVIOUS
      <3>1. IsInjective(buckets[i]) /\ Range(buckets[i]) \cap Range(told) = {}
        BY DEF NotesInv, NotesApart
      <3>2. CASE i = held
        BY <1>12, <1>14, <2>1, <2>2, <3>1, <3>2
      <3>3. CASE i # held
        BY <1>14, <1>15, <3>1, <3>3
      <3>4. QED
        BY <3>2, <3>3
    <2>4. ASSUME NEW i \in Undrained, NEW j \in Undrained, i # j
          PROVE  Range(buckets'[i]) \cap Range(buckets'[j]) = {}
      <3>1. Range(buckets[i]) \cap Range(buckets[j]) = {}
        BY <2>4 DEF NotesInv, NotesApart
      <3>2. i \in 1..Len(buckets) /\ j \in 1..Len(buckets)
        BY <1>15
      <3>3. CASE i = held
        BY <1>12, <1>14, <2>1, <2>4, <3>1, <3>2, <3>3
      <3>4. CASE j = held
        BY <1>12, <1>14, <2>1, <2>4, <3>1, <3>2, <3>4
      <3>5. CASE i # held /\ j # held
        BY <1>14, <3>1, <3>2, <3>5
      <3>6. QED
        BY <3>3, <3>4, <3>5
    <2>5. ASSUME NEW i \in 1..Len(buckets), i \notin Undrained
          PROVE  Range(buckets'[i]) \subseteq Range(told) \cup late'
      <3>1. Range(buckets[i]) \subseteq Range(told) \cup late
        BY <2>5 DEF NotesInv, NotesApart
      <3>2. CASE i = held
        BY <1>12, <1>14, <1>16, <2>5, <3>1, <3>2
      <3>3. CASE i # held
        BY <1>14, <1>16, <3>1, <3>3
      <3>4. QED
        BY <3>2, <3>3
    <2>6. (current # 0 => current # popped) /\ IsInjective(told)
      BY DEF NotesInv, NotesApart
    <2>7. QED
      BY <1>1, <1>14, <1>15, <2>3, <2>4, <2>5, <2>6 DEF NotesApart
  <1>23. AnnouncedIsFinal'
    <2> SUFFICES ASSUME NEW n, n \in Heard', n.says = "completed",
                        events[n.run].task \notin GoalTasks
                 PROVE  /\ n.run = run => pc' = "recording" /\ result' = "completed"
                        /\ (\E id \in TerminalIds : events[id].run = n.run) =>
                              /\ status[events[n.run].task] = "completed"
                              /\ \A id \in 1..Len(events) :
                                    id > n.run /\ events[id].kind = "claimed"
                                        => events[id].task # events[n.run].task
      BY <1>1, <1>3 DEF AnnouncedIsFinal, Announcement
    <2>1. CASE n \in Heard
      <3>1. Announcement(n)
        BY <2>1 DEF Announcement
      <3>2. n.run # run
        BY <1>1, <3>1, NotYetAnnounced
      <3>3. QED
        BY <3>1, <3>2 DEF AnnouncedIsFinal
    <2>2. CASE n = m
      <3>1. task \notin GoalTasks /\ result = "completed"
        BY <1>4, <1>6, <2>2
      <3>2. pc' = "recording" /\ result' = "completed"
        BY <1>2, <3>1
      <3>3. QED
        BY <1>4, <1>6, <2>2, <3>2
    <2>3. QED
      BY <1>19, <2>1, <2>2
  <1>24. QED
    BY <1>3, <1>17, <1>18, <1>20, <1>21, <1>22, <1>23 DEF NotesInv

---------------------------------------------------------------------------
(* Polls, restarts and the theorems                                        *)

\* The notifier disturbs neither the dispatcher nor the buffer.
LEMMA PollStep ==
    ASSUME Inv, Poll
    PROVE  Inv'
  <1> USE DEF Inv
  <1>1. UNCHANGED <<driverVars, storeVars, bufferVars, faults>>
    BY DEF Poll, FirstPoll, Fetch, Deliver
  <1>2. /\ UNCHANGED <<pc, task, run, turn, result, held, status, failures, events>>
        /\ UNCHANGED <<buckets, current, popped, told, late, faults>>
    BY <1>1 DEF driverVars, storeVars, bufferVars
  <1>3. TerminalIds' = TerminalIds
    BY <1>2 DEF TerminalIds
  <1>4. PollInv' /\ PollTypes'
    <2>1. CASE FirstPoll
      <3>1. batch' = batch /\ tried' = tried
        BY <2>1 DEF FirstPoll
      <3>2. QED
        BY <1>2, <1>3, <2>1, <3>1, FirstPollStep DEF TypeOK, PollTypes
    <2>2. CASE Fetch
      <3>1. cursor' = cursor /\ base' = base /\ tried' = tried
        BY <2>2 DEF Fetch
      <3>2. QED
        BY <1>2, <1>3, <2>2, <3>1, FetchStep DEF TypeOK, PollTypes
    <2>3. CASE Deliver
      <3>1. base' = base
        BY <2>3 DEF Deliver
      <3>2. QED
        BY <1>2, <1>3, <2>3, <3>1, DeliverStep DEF TypeOK, PollTypes
    <2>4. QED
      BY <2>1, <2>2, <2>3 DEF Poll
  <1>5. TypeOK'
    <2>1. DriverTypes' /\ StoreTypes' /\ BufferTypes'
      BY <1>2 DEF TypeOK, DriverTypes, StoreTypes, BufferTypes
    <2>2. QED
      BY <1>4, <2>1, TypePartsNext
  <1>6. OneRun' /\ RunNames'
    BY <1>2 DEF OneRun, RunNames
  <1>7. Heard' = Heard /\ Undrained' = Undrained
    BY <1>2 DEF Heard, Undrained
  <1>8. NotesInv'
    BY <1>2, <1>7 DEF NotesInv, HeardRuns, FreshNote, NotesApart
  <1>9. AnnouncedIsFinal'
    BY <1>2, <1>3, <1>7 DEF AnnouncedIsFinal, Announcement
  <1>10. QED
    BY <1>4, <1>5, <1>6, <1>8, <1>9

\* A dropped tick forgets the run; nothing was written of it.
LEMMA DropStep ==
    ASSUME Inv, TickDropped
    PROVE  Inv'
  <1> USE DEF Inv
  <1>1. /\ pc' = "idle" /\ task' = None /\ run' = 0 /\ turn' = 1
        /\ result' = "failed" /\ held' = 0
        /\ UNCHANGED <<buckets, current, popped, told, late>>
        /\ UNCHANGED <<storeVars, pollVars>>
        /\ faults \in Nat /\ faults < MaxFaults /\ faults' = faults + 1
    BY DEF TickDropped, Idle, TypeOK, bufferVars
  <1>2. faults' \in 0..MaxFaults
    BY <1>1, NoticesAssumption DEF NoticesAssumption
  <1>3. /\ TerminalIds' = TerminalIds /\ events' = events
        /\ status' = status /\ failures' = failures
        /\ RunNames' /\ PollInv' /\ PollTypes'
    BY <1>1, <1>2, StoreKept
  <1>4. TypeOK'
    <2>1. DriverTypes' /\ BufferTypes'
      BY <1>1, <1>3, LenProperties, NoticesAssumption
      DEF NoticesAssumption, TypeOK, DriverTypes, BufferTypes, Outcomes
    <2>2. StoreTypes'
      BY <1>1, <1>3 DEF TypeOK, StoreTypes
    <2>3. QED
      BY <1>3, <2>1, <2>2, TypePartsNext
  <1>5. OneRun'
    BY <1>1 DEF OneRun
  <1>6. Heard' = Heard /\ Undrained' = Undrained
    BY <1>1 DEF Heard, Undrained
  <1>7. NotesInv'
    BY <1>1, <1>3, <1>6 DEF NotesInv, HeardRuns, FreshNote, NotesApart
  <1>8. AnnouncedIsFinal'
    BY <1>1, <1>6, FinalKept
  <1>9. QED
    BY <1>3, <1>4, <1>5, <1>7, <1>8

\* The sweep releases a claim whose run has no outcome.
LEMMA SweepStep ==
    ASSUME Inv, NEW t \in Tasks, Sweep(t)
    PROVE  Inv'
  <1> USE DEF Inv
  <1>1. /\ pc = "idle" /\ status[t] = "running"
        /\ status' = [status EXCEPT ![t] = "ready"]
        /\ UNCHANGED <<pc, task, run, turn, result, held, failures, events>>
        /\ UNCHANGED <<buckets, current, popped, told, late, cursor, base, batch, tried, faults>>
    BY DEF Sweep, driverVars, bufferVars, pollVars
  <1>2. TerminalIds' = TerminalIds /\ EventsGrow
    BY <1>1 DEF TerminalIds, EventsGrow
  <1>3. TypeOK'
    <2>1. DriverTypes' /\ BufferTypes'
      BY <1>1 DEF TypeOK, DriverTypes, BufferTypes
    <2>2. StoreTypes'
      BY <1>1 DEF TypeOK, StoreTypes
    <2>3. PollTypes'
      BY <1>1, <1>2 DEF TypeOK, PollTypes
    <2>4. QED
      BY <2>1, <2>2, <2>3, TypePartsNext
  <1>4. OneRun' /\ RunNames'
    BY <1>1 DEF OneRun, RunNames
  <1>5. Heard' = Heard /\ Undrained' = Undrained
    BY <1>1 DEF Heard, Undrained
  <1>6. NotesInv'
    BY <1>1, <1>5 DEF NotesInv, HeardRuns, FreshNote, NotesApart
  <1>7. AnnouncedIsFinal'
    <2> SUFFICES ASSUME NEW n, Announcement(n), NEW i \in TerminalIds, events[i].run = n.run
                 PROVE  /\ status'[events[n.run].task] = "completed"
                        /\ \A id \in 1..Len(events) :
                              id > n.run /\ events[id].kind = "claimed"
                                  => events[id].task # events[n.run].task
      BY <1>1, <1>2, <1>5 DEF AnnouncedIsFinal, Announcement
    <2>1. /\ status[events[n.run].task] = "completed"
          /\ \A id \in 1..Len(events) :
                id > n.run /\ events[id].kind = "claimed"
                    => events[id].task # events[n.run].task
      BY DEF AnnouncedIsFinal
    <2>2. events[n.run].task # t
      BY <1>1, <2>1
    <2>3. QED
      BY <1>1, <2>1, <2>2 DEF TypeOK
  <1>8. PollInv'
    BY <1>1, <1>2, PollKept DEF pollVars
  <1>9. QED
    BY <1>3, <1>4, <1>6, <1>7, <1>8

\* A new process starts with the store and what the chat already read.
LEMMA RestartStep ==
    ASSUME Inv, Restart
    PROVE  Inv'
  <1> USE DEF Inv
  <1>1. /\ pc' = "idle" /\ task' = None /\ run' = 0 /\ turn' = 1
        /\ result' = "failed" /\ held' = 0
        /\ status' = [t \in Tasks |-> IF status[t] = "running" THEN "ready" ELSE status[t]]
        /\ buckets' = <<>> /\ current' = 0 /\ popped' = 0 /\ late' = {}
        /\ cursor' = None /\ base' = 0 /\ batch' = {}
        /\ faults \in Nat /\ faults < MaxFaults /\ faults' = faults + 1
        /\ UNCHANGED <<failures, events, told, tried>>
    BY DEF Restart, Idle, TypeOK
  <1>2. TerminalIds' = TerminalIds
    BY <1>1 DEF TerminalIds
  <1>3. TypeOK'
    <2>1. DriverTypes' /\ BufferTypes'
      BY <1>1, NoticesAssumption DEF NoticesAssumption, TypeOK, DriverTypes, BufferTypes, Outcomes
    <2>2. StoreTypes'
      <3>1. \A t \in Tasks : t # None
        BY NoticesAssumption DEF NoticesAssumption
      <3>2. QED
        BY <1>1, <3>1 DEF TypeOK, StoreTypes
    <2>3. PollTypes'
      BY <1>1, NoticesAssumption DEF NoticesAssumption, TypeOK, PollTypes
    <2>4. QED
      BY <2>1, <2>2, <2>3, TypePartsNext
  <1>4. OneRun' /\ RunNames'
    BY <1>1 DEF OneRun, RunNames
  <1>5. Undrained' = {} /\ Heard' = Range(told) /\ Heard' \subseteq Heard
    BY <1>1 DEF Undrained, Heard
  <1>6. NotesInv'
    <2>1. HeardRuns' /\ FreshNote'
      BY <1>1, <1>5 DEF NotesInv, HeardRuns, FreshNote
    <2>2. NotesApart'
      BY <1>1, <1>5 DEF NotesInv, NotesApart
    <2>3. QED
      BY <2>1, <2>2 DEF NotesInv
  <1>7. AnnouncedIsFinal'
    <2> SUFFICES ASSUME NEW n, Announcement(n), NEW i \in TerminalIds, events[i].run = n.run
                 PROVE  /\ status'[events[n.run].task] = "completed"
                        /\ \A id \in 1..Len(events) :
                              id > n.run /\ events[id].kind = "claimed"
                                  => events[id].task # events[n.run].task
      BY <1>1, <1>2, <1>5 DEF AnnouncedIsFinal, Announcement
    <2>1. /\ status[events[n.run].task] = "completed"
          /\ \A id \in 1..Len(events) :
                id > n.run /\ events[id].kind = "claimed"
                    => events[id].task # events[n.run].task
      BY DEF AnnouncedIsFinal
    <2>2. events[n.run].task \in Tasks
      <3>1. n.run \in 1..Len(events)
        BY DEF Announcement, NotesInv, HeardRuns
      <3>2. events[n.run] \in Event
        BY <3>1, ElementOfSeq DEF TypeOK
      <3>3. QED
        BY <3>2 DEF Event
    <2>3. QED
      BY <1>1, <2>1, <2>2
  <1>8. PollInv'
    BY <1>1, <1>2 DEF PollInv, TriedInOrder, BatchPrefix, CursorReached
  <1>9. QED
    BY <1>3, <1>4, <1>6, <1>7, <1>8

\* Every step keeps the invariant.
LEMMA StepInv == Inv /\ [Next]_vars => Inv'
  <1> SUFFICES ASSUME Inv, [Next]_vars PROVE Inv'
    OBVIOUS
  <1>1. CASE Next
    BY <1>1, ClaimStep, FindBucketStep, RaisesStep, AppendStep, RecordStep, PopStep, FoldStep,
       PollStep, DropStep, SweepStep, RestartStep DEF Next
  <1>2. CASE UNCHANGED vars
    <2>1. /\ UNCHANGED <<pc, task, run, turn, result, held, status, failures, events>>
          /\ UNCHANGED <<buckets, current, popped, told, late, cursor, base, batch, tried, faults>>
      BY <1>2 DEF vars, driverVars, storeVars, bufferVars, pollVars
    <2>2. TerminalIds' = TerminalIds /\ Heard' = Heard /\ Undrained' = Undrained
      BY <2>1 DEF TerminalIds, Heard, Undrained
    <2>3. TypeOK' /\ OneRun' /\ RunNames'
      BY <2>1, <2>2 DEF Inv, TypeOK, OneRun, RunNames
    <2>4. NotesInv'
      BY <2>1, <2>2 DEF Inv, NotesInv, HeardRuns, FreshNote, NotesApart
    <2>5. AnnouncedIsFinal'
      BY <2>1, <2>2 DEF Inv, AnnouncedIsFinal, Announcement
    <2>6. PollInv'
      BY <2>1, <2>2 DEF Inv, PollInv, TriedInOrder, BatchPrefix, CursorReached
    <2>7. QED
      BY <2>3, <2>4, <2>5, <2>6 DEF Inv
  <1>3. QED
    BY <1>1, <1>2

LEMMA SpecInv == Spec => []Inv
  BY InitInv, StepInv, PTL DEF Spec

\* The dispatcher, the buffer and the notifier keep to their types.
THEOREM NoticesTypeCorrect == Spec => []TypeOK
  <1>1. Inv => TypeOK
    BY DEF Inv
  <1>2. QED
    BY <1>1, SpecInv, PTL

\* inject_buffer.enqueue / drain: no note is folded into two prompts, and one
\* that left the table is in a prompt unless it was appended after the drain.
THEOREM NoNoteTwice == Spec => []NotesToldOnce
  <1>1. Inv => NotesToldOnce
    <2> SUFFICES ASSUME Inv PROVE NotesToldOnce
      OBVIOUS
    <2>1. DOMAIN buckets = 1..Len(buckets) /\ Len(buckets) \in Nat
      BY LenProperties DEF Inv, TypeOK
    <2>2. \A i \in 1..Len(buckets) : i \notin {current, popped} => i \notin Undrained
      BY DEF Undrained
    <2>3. QED
      BY <2>1, <2>2 DEF Inv, NotesInv, NotesApart, NotesToldOnce
  <1>2. QED
    BY <1>1, SpecInv, PTL

\* InjectingWorkTaskRunner: the chat is told twice that one task completed only
\* when the first run's outcome was never written.
THEOREM CompletionToldTwiceUnrecorded == Spec => []AnnouncedAgainOnlyUnrecorded
  <1>1. Inv => AnnouncedAgainOnlyUnrecorded
    <2> SUFFICES ASSUME Inv, NEW n \in Range(told), NEW m \in Range(told),
                        n.says = "completed", n.run < m.run,
                        events[n.run].task = events[m.run].task,
                        events[n.run].task \notin GoalTasks,
                        NEW id \in TerminalIds, events[id].run = n.run
                 PROVE  FALSE
      BY DEF AnnouncedAgainOnlyUnrecorded
    <2>1. n \in Heard /\ m \in Heard
      BY DEF Heard
    <2>2. /\ n.run \in Nat /\ m.run \in 1..Len(events)
          /\ events[m.run].kind = "claimed"
      BY <2>1 DEF Inv, NotesInv, HeardRuns
    <2>3. Announcement(n)
      BY <2>1 DEF Announcement
    <2>4. events[m.run].task # events[n.run].task
      BY <2>2, <2>3 DEF Inv, AnnouncedIsFinal
    <2>5. QED
      BY <2>4
  <1>2. QED
    BY <1>1, SpecInv, PTL

\* WorkQueueNotifier.poll_once: outcomes are handed over in order, each once,
\* and none is passed over, over batches and restarts.
THEOREM OutcomesHandedOverInOrder == Spec => []OutcomesInOrder
  <1>1. Inv => OutcomesInOrder
    <2> SUFFICES ASSUME Inv PROVE OutcomesInOrder
      OBVIOUS
    <2>1. DOMAIN tried = 1..Len(tried)
      BY LenProperties DEF Inv, TypeOK
    <2>2. cursor # None => \A id \in TerminalIds :
                              base < id /\ id <= cursor => id \in Range(tried)
      BY DEF Inv, PollInv, CursorReached
    <2>3. \A i, j \in 1..Len(tried) : i < j => tried[i] < tried[j]
      BY DEF Inv, PollInv, TriedInOrder
    <2>4. QED
      BY <2>1, <2>2, <2>3 DEF OutcomesInOrder
  <1>2. QED
    BY <1>1, SpecInv, PTL
=============================================================================
