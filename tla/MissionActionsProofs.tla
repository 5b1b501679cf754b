------------------------ MODULE MissionActionsProofs ------------------------
(***************************************************************************)
(* The reconciler's cursor, for any number of missions, actions and        *)
(* faults, any page size and any trimming of the remembered ids.           *)
(*                                                                         *)
(* The page is a prefix of what is left (PagePrefix) and the time stamp of *)
(* the cursor is that of a handled action (CursorStamp), so that handled   *)
(* actions are always a prefix of the raised ones.  That an action is      *)
(* requested once but for faults rests on more: the remembered ids must    *)
(* reach back to the cursor's own time stamp, which they do when no stamp  *)
(* is shared by more than MaxProcessed actions (FewPerStamp).              *)
(***************************************************************************)
EXTENDS MissionActions, FiniteSetTheorems, SequenceTheorems, TLAPS

\* The chat-proxy stores finitely many events.
RaisedFinite == IsFiniteSet(raised)

\* The cursor, the remembered ids, the page and the outstanding event speak of
\* stored events; what is remembered was handled.
KnownEvents ==
    /\ page \subseteq raised
    /\ \A e \in Events : Handled(e) => e \in raised
    /\ \A e \in Ids(processed) : Handled(e)
    /\ current # NoEvent => Handled(current)

\* The cursor's stamp is one of a stored event, and everything before it was
\* handled (set_mission_action_cursor follows _apply).
CursorStamp ==
    /\ last = 0 \/ \E e \in raised : At[e] = last
    /\ \A f \in raised : At[f] < last => Handled(f)

\* What the page holds no more was handled: pages are cut behind, not before.
PagePrefix ==
    \A e \in page, f \in raised : Pos[f] < Pos[e] => f \in page \/ Handled(f)

Inv == TypeOK /\ RaisedFinite /\ KnownEvents /\ CursorStamp /\ PagePrefix /\ NoActionPassedOver

---------------------------------------------------------------------------
(* Pages and remembered ids                                                *)

\* The ids of a sequence are its elements.
LEMMA IdsOfSeq ==
    ASSUME NEW s \in Seq(Events), NEW e
    PROVE  e \in Ids(s) <=> \E i \in 1..Len(s) : s[i] = e
  BY DEF Ids

\* processed_ids[-n:] after one more id drops at most the oldest one.
LEMMA TrimmedAppend ==
    ASSUME NEW s \in Seq(Events), NEW e \in Events, NEW n \in Nat \ {0}, Len(s) <= n
    PROVE  LET t == LastOf(Append(s, e), n)
           IN  /\ t \in Seq(Events)
               /\ Len(t) <= n
               /\ \A i \in 1..Len(t) :
                     t[i] = IF i = Len(t) THEN e
                            ELSE IF Len(s) = n THEN s[i + 1] ELSE s[i]
               /\ Len(t) = IF Len(s) = n THEN n ELSE Len(s) + 1
  <1> DEFINE t == LastOf(Append(s, e), n)
  <1> DEFINE a == Append(s, e)
  <1>1. /\ a \in Seq(Events)
        /\ Len(a) = Len(s) + 1
        /\ \A i \in 1..Len(s) : a[i] = s[i]
        /\ a[Len(s) + 1] = e
        /\ Len(s) \in Nat
    BY AppendProperties, LenProperties
  <1>2. CASE Len(s) = n
    <2>1. t = SubSeq(a, 2, n + 1)
      BY <1>1, <1>2 DEF LastOf
    <2>2. \A i \in 2..(n + 1) : a[i] \in Events
      BY <1>1, <1>2, ElementOfSeq
    <2>3. /\ t \in Seq(Events)
          /\ Len(t) = n
          /\ \A i \in 1..n : t[i] = a[i + 1]
      <3> HIDE DEF a
      <3>1. 2 \in Int /\ n + 1 \in Int
        OBVIOUS
      <3>2. QED
        BY <2>1, <2>2, <3>1, SubSeqProperties, Z3
    <2>4. QED
      BY <1>1, <1>2, <2>3
  <1>3. CASE Len(s) < n
    <2>1. t = a
      BY <1>1, <1>3 DEF LastOf
    <2>2. QED
      BY <1>1, <1>3, <2>1
  <1>4. QED
    BY <1>1, <1>2, <1>3

\* A page is a prefix of the events at or after the cursor: when it holds an
\* event it holds every earlier one that `since` admits.
LEMMA PageIsPrefix ==
    ASSUME TypeOK, RaisedFinite, NEW e \in ListActionEvents, NEW f \in raised,
           At[f] >= last, Pos[f] < Pos[e]
    PROVE  f \in ListActionEvents
  <1> DEFINE since == {g \in raised : At[g] >= last}
  <1> DEFINE before(g) == {h \in since : Pos[h] < Pos[g]}
  <1>1. e \in since /\ f \in since /\ Cardinality(before(e)) < Limit
    BY DEF ListActionEvents
  <1>2. before(f) \subseteq before(e)
    <2>1. \A g \in raised : Pos[g] \in Nat
      BY ActionsAssumption DEF ActionsAssumption, TypeOK
    <2>2. QED
      BY <1>1, <2>1
  <1>3. IsFiniteSet(before(e)) 
    <2>1. before(e) \in SUBSET raised
      OBVIOUS
    <2>2. QED
      BY <2>1, FS_Subset DEF RaisedFinite
  <1>4. /\ Cardinality(before(e)) \in Nat /\ Cardinality(before(f)) \in Nat
        /\ Cardinality(before(f)) <= Cardinality(before(e))
    <2>1. before(f) \in SUBSET before(e)
      BY <1>2
    <2> HIDE DEF before
    <2>2. IsFiniteSet(before(f)) /\ Cardinality(before(f)) <= Cardinality(before(e))
      BY <1>3, <2>1, FS_Subset
    <2>3. QED
      BY <1>3, <2>2, FS_CardinalityType
  <1>5. Cardinality(before(f)) < Limit
    BY <1>1, <1>4, ActionsAssumption DEF ActionsAssumption
  <1>6. QED
    BY <1>1, <1>5 DEF ListActionEvents

---------------------------------------------------------------------------
(* Handled actions are a prefix of the raised ones                         *)

\* An empty cursor and no events satisfy the invariant.
LEMMA InitInv == Init => Inv
  <1> SUFFICES ASSUME Init PROVE Inv
    OBVIOUS
  <1>1. TypeOK
    BY ActionsAssumption, EmptySeq DEF ActionsAssumption, Init, TypeOK
  <1>2. RaisedFinite
    BY FS_EmptySet DEF Init, RaisedFinite
  <1>3. KnownEvents
    BY DEF Init, KnownEvents, Handled, Ids
  <1>4. CursorStamp /\ PagePrefix /\ NoActionPassedOver
    BY DEF Init, CursorStamp, PagePrefix, NoActionPassedOver
  <1>5. QED
    BY <1>1, <1>2, <1>3, <1>4 DEF Inv

\* The projector's steps touch neither events nor cursor.
LEMMA ProjectorStep ==
    ASSUME Inv, NEW m \in Missions, CreateMission(m) \/ PersistMapping(m)
    PROVE  Inv'
  <1>1. UNCHANGED <<raised, last, processed, page, current, requests, skipped, faults>>
    BY DEF CreateMission, PersistMapping
  <1>2. TypeOK'
    BY DEF CreateMission, PersistMapping, Inv, TypeOK
  <1>3. QED
    BY <1>1, <1>2 DEF Inv, RaisedFinite, KnownEvents, CursorStamp, PagePrefix,
                      NoActionPassedOver, Handled

\* A new event comes behind all stored ones, so at or after the cursor's stamp
\* and behind everything handled.
LEMMA RaiseStep ==
    ASSUME Inv, NEW e \in Events, RaiseAction(e)
    PROVE  Inv'
  <1>1. /\ raised' = raised \cup {e} /\ e \notin raised
        /\ \A f \in raised : Pos[f] < Pos[e]
        /\ UNCHANGED <<created, mapped, last, processed, page, current, requests, skipped, faults>>
    BY DEF RaiseAction
  <1>2. TypeOK'
    BY <1>1 DEF Inv, TypeOK
  <1>3. RaisedFinite'
    BY <1>1, FS_AddElement DEF Inv, RaisedFinite
  <1>4. KnownEvents'
    BY <1>1 DEF Inv, KnownEvents, Handled
  <1>5. last <= At[e]
    <2>1. \A f \in raised : At[f] <= At[e]
      <3>1. \A f, g \in Events : /\ At[f] \in Nat /\ Pos[f] \in Nat
                                 /\ At[g] < At[f] => Pos[g] < Pos[f]
        BY ActionsAssumption DEF ActionsAssumption
      <3>2. raised \subseteq Events
        BY DEF Inv, TypeOK
      <3>3. QED
        BY <1>1, <3>1, <3>2
    <2>2. QED
      BY <2>1, ActionsAssumption DEF ActionsAssumption, Inv, CursorStamp, TypeOK
  <1>6. CursorStamp'
    BY <1>1, <1>5, ActionsAssumption
    DEF ActionsAssumption, Inv, TypeOK, CursorStamp, Handled
  <1>7. \A f \in raised : ~(Pos[e] < Pos[f])
    BY <1>1, ActionsAssumption DEF ActionsAssumption, Inv, TypeOK
  <1>8. PagePrefix'
    BY <1>1, <1>7 DEF Inv, KnownEvents, PagePrefix, Handled
  <1>9. NoActionPassedOver'
    BY <1>1, <1>7, ActionsAssumption
    DEF ActionsAssumption, Inv, KnownEvents, NoActionPassedOver, Handled
  <1>10. QED
    BY <1>2, <1>3, <1>4, <1>6, <1>8, <1>9 DEF Inv

\* A new page is a prefix; what it leaves out in front lies before the cursor.
LEMMA PollStepInv ==
    ASSUME Inv, Poll
    PROVE  Inv'
  <1>1. /\ page' = ListActionEvents
        /\ UNCHANGED <<hosted, last, processed, current, requests, skipped, faults>>
    BY DEF Poll
  <1>2. ListActionEvents \subseteq raised
    BY DEF ListActionEvents
  <1>3. TypeOK'
    BY <1>1, <1>2 DEF Inv, TypeOK, hosted
  <1>4. RaisedFinite' /\ KnownEvents' /\ CursorStamp' /\ NoActionPassedOver'
    BY <1>1, <1>2
    DEF hosted, Inv, RaisedFinite, KnownEvents, CursorStamp, NoActionPassedOver, Handled
  <1>5. PagePrefix'
    <2> SUFFICES ASSUME NEW e \in ListActionEvents, NEW f \in raised, Pos[f] < Pos[e]
                 PROVE  f \in ListActionEvents \/ Handled(f)
      BY <1>1 DEF hosted, PagePrefix, Handled
    <2>1. CASE At[f] < last
      BY <2>1 DEF Inv, CursorStamp
    <2>2. CASE At[f] >= last
      BY <2>2, PageIsPrefix DEF Inv
    <2>3. QED
      BY <2>1, <2>2, ActionsAssumption DEF ActionsAssumption, Inv, TypeOK
  <1>6. QED
    BY <1>3, <1>4, <1>5 DEF Inv

\* An event passed over was handled.
LEMMA PassOverStep ==
    ASSUME Inv, NEW e \in Events, PassOver(e)
    PROVE  Inv'
  <1>1. /\ page' = page \ {e}
        /\ Handled(e)
        /\ UNCHANGED <<hosted, last, processed, current, requests, skipped, faults>>
    BY DEF PassOver, Inv, KnownEvents
  <1>2. TypeOK'
    BY <1>1 DEF Inv, TypeOK, hosted
  <1>3. QED
    BY <1>1, <1>2 DEF hosted, Inv, RaisedFinite, KnownEvents, CursorStamp, PagePrefix,
                      NoActionPassedOver, Handled

\* The page's first event is behind handled ones only.
LEMMA FirstIsNext ==
    ASSUME Inv, NEW e, FirstOf(page, e), NEW f \in raised, Pos[f] < Pos[e]
    PROVE  Handled(f)
  <1>1. e \in page /\ (f \in page => Pos[e] <= Pos[f])
    BY DEF FirstOf
  <1>2. Pos[e] \in Nat /\ Pos[f] \in Nat
    BY <1>1, ActionsAssumption DEF ActionsAssumption, Inv, TypeOK
  <1>3. QED
    BY <1>1, <1>2 DEF Inv, PagePrefix

\* _apply makes its event handled, and no other.
LEMMA ApplyHandles ==
    ASSUME TypeOK, NEW e \in Events, Apply(e)
    PROVE  /\ Handled(e)'
           /\ \A f \in Events \ {e} : Handled(f)' <=> Handled(f)
           /\ \A f \in Events : Handled(f) => Handled(f)'
           /\ \A f \in Events \ {e} : requests'[f] = requests[f]
           /\ requests'[e] \in {requests[e], requests[e] + 1}
           /\ requests' \in [Events -> Nat]
  <1>1. CASE requests' = [requests EXCEPT ![e] = @ + 1] /\ UNCHANGED skipped
    BY <1>1 DEF TypeOK, Handled
  <1>2. CASE skipped' = skipped \cup {e} /\ UNCHANGED requests
    BY <1>2 DEF TypeOK, Handled
  <1>3. QED
    BY <1>1, <1>2 DEF Apply

\* _apply handles the page's first event: handled actions stay a prefix.
LEMMA ApplyStep ==
    ASSUME Inv, NEW e \in Events, Apply(e)
    PROVE  Inv'
  <1>1. /\ FirstOf(page, e) /\ e \in page
        /\ page' = page \ {e} /\ current' = e
        /\ UNCHANGED <<hosted, last, processed, faults>>
    BY DEF Apply, FirstOf
  <1>2. /\ Handled(e)'
        /\ \A f \in Events \ {e} : Handled(f)' <=> Handled(f)
        /\ \A f \in Events : Handled(f) => Handled(f)'
        /\ requests' \in [Events -> Nat]
    BY ApplyHandles DEF Inv
  <1>3. TypeOK'
    BY <1>1, <1>2 DEF Apply, Inv, TypeOK, hosted
  <1>4. RaisedFinite'
    BY <1>1 DEF hosted, Inv, RaisedFinite
  <1>5. KnownEvents'
    <2>1. \A f \in Ids(processed) : f \in Events
      BY DEF Inv, TypeOK, Ids
    <2>2. /\ page' \subseteq raised'
          /\ \A f \in Events : Handled(f)' => f \in raised'
          /\ current' # NoEvent => Handled(e)'
      BY <1>1, <1>2 DEF hosted, Inv, KnownEvents
    <2>3. \A f \in Ids(processed') : Handled(f)'
      BY <1>1, <1>2, <2>1 DEF Inv, KnownEvents
    <2>4. Handled(current)'
      BY <1>1, <1>2 DEF Handled
    <2>5. QED
      BY <2>2, <2>3, <2>4 DEF KnownEvents
  <1>6. CursorStamp'
    BY <1>1, <1>2 DEF hosted, Inv, TypeOK, CursorStamp
  <1>7. PagePrefix'
    BY <1>1, <1>2 DEF hosted, Inv, TypeOK, PagePrefix
  <1>8. NoActionPassedOver'
    <2> SUFFICES ASSUME NEW g \in raised, NEW f \in raised, Handled(g)', Pos[f] < Pos[g]
                 PROVE  Handled(f)'
      BY <1>1 DEF hosted, NoActionPassedOver
    <2>1. CASE g = e
      BY <1>1, <1>2, <2>1, FirstIsNext DEF Inv, TypeOK
    <2>2. CASE g # e
      BY <1>2, <2>2 DEF Inv, TypeOK, NoActionPassedOver
    <2>3. QED
      BY <2>1, <2>2
  <1>9. QED
    BY <1>3, <1>4, <1>5, <1>6, <1>7, <1>8 DEF Inv

\* set_mission_action_cursor remembers the outstanding event and forgets at
\* most the oldest id, that one only when the list is full.
LEMMA RememberedIds ==
    ASSUME Inv, Advance
    PROVE  /\ Len(processed) \in Nat /\ Len(processed) <= MaxProcessed /\ MaxProcessed \in Nat
           /\ processed' \in Seq(Events) /\ Len(processed') <= MaxProcessed
           /\ Len(processed') = IF Len(processed) = MaxProcessed
                                THEN MaxProcessed ELSE Len(processed) + 1
           /\ \A i \in 1..Len(processed') :
                 processed'[i] = IF i = Len(processed') THEN current
                                 ELSE IF Len(processed) = MaxProcessed
                                 THEN processed[i + 1] ELSE processed[i]
  <1>1. /\ processed \in Seq(Events) /\ Len(processed) <= MaxProcessed
        /\ MaxProcessed \in Nat \ {0} /\ Len(processed) \in Nat
    BY ActionsAssumption, LenProperties DEF ActionsAssumption, Inv, TypeOK
  <1>2. /\ current \in Events
        /\ processed' = LastOf(Append(processed, current), MaxProcessed)
    BY DEF Advance, Inv, TypeOK
  <1>3. LET t == LastOf(Append(processed, current), MaxProcessed)
        IN  /\ t \in Seq(Events)
            /\ Len(t) <= MaxProcessed
            /\ \A i \in 1..Len(t) :
                  t[i] = IF i = Len(t) THEN current
                         ELSE IF Len(processed) = MaxProcessed THEN processed[i + 1] ELSE processed[i]
            /\ Len(t) = IF Len(processed) = MaxProcessed THEN MaxProcessed ELSE Len(processed) + 1
    BY <1>1, <1>2, TrimmedAppend, Zenon
  <1>4. PICK t : t = LastOf(Append(processed, current), MaxProcessed)
    OBVIOUS
  <1>5. QED
    BY <1>1, <1>2, <1>3, <1>4

\* The cursor moves to an event whose predecessors were all handled.
LEMMA AdvanceStep ==
    ASSUME Inv, Advance
    PROVE  Inv'
  <1>1. /\ current \in Events /\ Handled(current) /\ current \in raised
        /\ processed' = LastOf(Append(processed, current), MaxProcessed)
        /\ last' = IF At[current] > last THEN At[current] ELSE last
        /\ current' = NoEvent
        /\ UNCHANGED <<hosted, page, requests, skipped, faults>>
    BY DEF Advance, Inv, TypeOK, KnownEvents
  <1>2. /\ processed' \in Seq(Events) /\ Len(processed') <= MaxProcessed
        /\ \A i \in 1..Len(processed') :
              processed'[i] = current \/ \E j \in 1..Len(processed) : processed'[i] = processed[j]
    BY <1>1, RememberedIds
  <1>3. TypeOK'
    BY <1>1, <1>2 DEF Inv, TypeOK, hosted
  <1>4. \A f : Handled(f)' <=> Handled(f)
    BY <1>1 DEF Handled
  <1>5. RaisedFinite'
    BY <1>1 DEF hosted, Inv, RaisedFinite
  <1>6. KnownEvents'
    <2>1. \A f \in Ids(processed') : f = current \/ f \in Ids(processed)
      <3> SUFFICES ASSUME NEW f \in Ids(processed') PROVE f = current \/ f \in Ids(processed)
        OBVIOUS
      <3>1. PICK i \in 1..Len(processed') : processed'[i] = f
        BY <1>2, IdsOfSeq
      <3>2. QED
        BY <1>2, <3>1, IdsOfSeq DEF Inv, TypeOK
    <2>2. \A f \in Ids(processed') : Handled(f)'
      BY <1>1, <1>4, <2>1 DEF Inv, KnownEvents
    <2>3. QED
      BY <1>1, <1>4, <2>2 DEF hosted, Inv, KnownEvents
  <1>7. CursorStamp'
    <2>1. \A f \in raised : At[f] < At[current] => Handled(f)
      <3> SUFFICES ASSUME NEW f \in raised, At[f] < At[current] PROVE Handled(f)
        OBVIOUS
      <3>1. Pos[f] < Pos[current]
        BY <1>1, ActionsAssumption DEF ActionsAssumption, Inv, TypeOK
      <3>2. QED
        BY <1>1, <3>1 DEF Inv, NoActionPassedOver
    <2>2. QED
      BY <1>1, <1>4, <2>1 DEF hosted, Inv, CursorStamp
  <1>8. PagePrefix' /\ NoActionPassedOver'
    BY <1>1, <1>4 DEF hosted, Inv, PagePrefix, NoActionPassedOver
  <1>9. QED
    BY <1>3, <1>5, <1>6, <1>7, <1>8 DEF Inv

\* A fault abandons the page and the outstanding cursor write.
LEMMA FaultStep ==
    ASSUME Inv, Fault
    PROVE  Inv'
  <1>1. /\ page' = {} /\ current' = NoEvent
        /\ UNCHANGED <<hosted, last, processed, requests, skipped>>
    BY DEF Fault
  <1>2. TypeOK'
    BY <1>1, ActionsAssumption DEF ActionsAssumption, Fault, Inv, TypeOK, hosted
  <1>3. QED
    BY <1>1, <1>2 DEF hosted, Inv, RaisedFinite, KnownEvents, CursorStamp, PagePrefix,
                      NoActionPassedOver, Handled

\* Every step keeps the invariant.
LEMMA StepInv == Inv /\ [Next]_vars => Inv'
  <1> SUFFICES ASSUME Inv, [Next]_vars PROVE Inv'
    OBVIOUS
  <1>1. CASE UNCHANGED vars
    BY <1>1 DEF vars, hosted, Inv, TypeOK, RaisedFinite, KnownEvents, CursorStamp, PagePrefix,
                NoActionPassedOver, Handled
  <1>2. CASE Next
    BY <1>2, ProjectorStep, RaiseStep, PollStepInv, PassOverStep, ApplyStep, AdvanceStep, FaultStep
    DEF Next, PollStep
  <1>3. QED
    BY <1>1, <1>2

\* The invariant holds throughout.
LEMMA SpecInv == Spec => []Inv
  BY InitInv, StepInv, PTL DEF Spec

\* The cursor table and the reconciler keep their types: no more than
\* max_processed_ids ids are remembered.
THEOREM ActionsTypeCorrect == Spec => []TypeOK
  <1>1. Inv => TypeOK
    BY DEF Inv
  <1>2. QED
    BY <1>1, SpecInv, PTL

\* poll_once passes over no action, whatever the page size, the trimming and
\* the faults.
THEOREM NothingPassedOver == Spec => []NoActionPassedOver
  <1>1. Inv => NoActionPassedOver
    BY DEF Inv
  <1>2. QED
    BY <1>1, SpecInv, PTL

---------------------------------------------------------------------------
(* Requested once but for faults, in the order of the users                *)

\* No created_at is shared by more events than the cursor remembers ids
\* (max_processed_ids is 500; the code relies on it without checking).
FewPerStamp ==
    \A S \in SUBSET Events :
        IsFiniteSet(S) /\ (\A e, f \in S : At[e] = At[f]) => Cardinality(S) <= MaxProcessed

\* The cursor knows that the event was handled.
Recorded(e) == At[e] < last \/ e \in Ids(processed)

\* The page lies at or after the cursor and behind what is recorded, and the
\* outstanding event comes just before it.
PageAhead ==
    /\ \A e \in page : At[e] >= last
    /\ \A e \in page, f \in raised : Pos[f] < Pos[e] => f \in page \/ f = current \/ Recorded(f)
    /\ current # NoEvent => ~Recorded(current) /\ \A e \in page : Pos[current] < Pos[e]

\* processed_ids is in the order of the events, none after the cursor's stamp.
IdsInOrder ==
    /\ \A i, j \in 1..Len(processed) : i < j => Pos[processed[i]] < Pos[processed[j]]
    /\ \A i \in 1..Len(processed) : At[processed[i]] <= last

\* Only the newest handled event may be missing from the cursor.
OnlyNewestUnrecorded ==
    \A e, f \in raised : Handled(e) /\ Pos[f] < Pos[e] => Recorded(f)

\* Each request beyond the first was paid for by a fault, and so is the next
\* one of an event whose cursor write was lost.
RequestsPaid ==
    \A e \in Events :
        /\ requests[e] <= 1 + faults
        /\ Handled(e) /\ ~Recorded(e) /\ e # current => requests[e] <= faults

OrderInv == Inv /\ PageAhead /\ IdsInOrder /\ OnlyNewestUnrecorded /\ RequestsPaid

\* A sequence without repetition has as many ids as elements.
LEMMA DistinctIds ==
    ASSUME NEW s \in Seq(Events),
           \A i, j \in 1..Len(s) : i # j => s[i] # s[j]
    PROVE  IsFiniteSet(Ids(s)) /\ Cardinality(Ids(s)) = Len(s)
  <1>1. Len(s) \in Nat /\ s \in [1..Len(s) -> Ids(s)]
    BY LenProperties DEF Ids
  <1>2. \A e \in Ids(s) : \E i \in 1..Len(s) : s[i] = e
    BY DEF Ids
  <1>3. s \in Bijection(1..Len(s), Ids(s))
    BY <1>1, <1>2 DEF Bijection, Injection, Surjection, IsInjective
  <1>4. ExistsBijection(1..Len(s), Ids(s))
    BY <1>3 DEF ExistsBijection
  <1>5. QED
    BY <1>1, <1>4, FS_NatBijection, FS_CountingElements

\* Stamps follow the order of the events.
LEMMA StampsInOrder ==
    ASSUME NEW e \in Events, NEW f \in Events, Pos[e] <= Pos[f]
    PROVE  At[e] <= At[f]
  <1>1. /\ At[e] \in Nat /\ At[f] \in Nat /\ Pos[e] \in Nat /\ Pos[f] \in Nat
        /\ At[f] < At[e] => Pos[f] < Pos[e]
    BY ActionsAssumption DEF ActionsAssumption
  <1>2. QED
    BY <1>1

\* The outstanding event comes after every remembered id.
LEMMA CurrentIsNewest ==
    ASSUME OrderInv, current # NoEvent
    PROVE  /\ current \in Events /\ current \in raised /\ last <= At[current]
           /\ \A i \in 1..Len(processed) : Pos[processed[i]] < Pos[current]
  <1>1. /\ current \in Events /\ current \in raised /\ ~Recorded(current)
        /\ last \in Nat /\ At[current] \in Nat
    BY ActionsAssumption
    DEF ActionsAssumption, OrderInv, Inv, TypeOK, KnownEvents, PageAhead
  <1>2. ASSUME NEW i \in 1..Len(processed)
        PROVE  Pos[processed[i]] < Pos[current]
    <2>1. processed[i] \in Events /\ processed[i] \in Ids(processed)
      BY ElementOfSeq, IdsOfSeq DEF OrderInv, Inv, TypeOK
    <2>2. Handled(processed[i]) /\ processed[i] \in raised
      BY <2>1 DEF OrderInv, Inv, KnownEvents
    <2>3. ~(Pos[current] < Pos[processed[i]])
      BY <1>1, <2>2 DEF OrderInv, OnlyNewestUnrecorded
    <2>4. processed[i] # current
      BY <1>1, <2>1 DEF Recorded
    <2>5. QED
      BY <1>1, <2>1, <2>3, <2>4, ActionsAssumption DEF ActionsAssumption
  <1>3. QED
    BY <1>1, <1>2 DEF Recorded

\* A full list of ids reaches back before the stamp of the outstanding event.
LEMMA OldestIsOlder ==
    ASSUME OrderInv, FewPerStamp, current # NoEvent, Len(processed) = MaxProcessed
    PROVE  At[processed[1]] < At[current]
  <1> DEFINE s == Append(processed, current)
  <1>1. /\ processed \in Seq(Events) /\ current \in Events
        /\ MaxProcessed \in Nat \ {0}
    BY ActionsAssumption DEF ActionsAssumption, OrderInv, Inv, TypeOK
  <1>2. /\ s \in Seq(Events)
        /\ Len(s) = MaxProcessed + 1
        /\ \A i \in 1..MaxProcessed : s[i] = processed[i]
        /\ s[MaxProcessed + 1] = current
    BY <1>1, AppendProperties
  <1>3. \A i, j \in 1..Len(s) : i < j => Pos[s[i]] < Pos[s[j]]
    <2>1. \A i, j \in 1..MaxProcessed : i < j => Pos[processed[i]] < Pos[processed[j]]
      BY DEF OrderInv, IdsInOrder
    <2>2. \A i \in 1..MaxProcessed : Pos[processed[i]] < Pos[current]
      BY CurrentIsNewest
    <2> HIDE DEF s
    <2>3. QED
      BY <1>1, <1>2, <2>1, <2>2
  <1> HIDE DEF s
  <1>4. \A i \in 1..Len(s) : s[i] \in Events /\ Pos[s[i]] \in Nat /\ At[s[i]] \in Nat
    BY <1>2, ElementOfSeq, ActionsAssumption DEF ActionsAssumption
  <1>5. \A i, j \in 1..Len(s) : i # j => s[i] # s[j]
    BY <1>1, <1>2, <1>3, <1>4
  <1>6. SUFFICES ASSUME ~(At[s[1]] < At[s[Len(s)]]) PROVE FALSE
    BY <1>1, <1>2
  <1>7. \A i \in 1..Len(s) : At[s[1]] <= At[s[i]] /\ At[s[i]] <= At[s[Len(s)]]
    <2> SUFFICES ASSUME NEW i \in 1..Len(s)
                 PROVE  At[s[1]] <= At[s[i]] /\ At[s[i]] <= At[s[Len(s)]]
      OBVIOUS
    <2>1. 1 \in 1..Len(s) /\ Len(s) \in 1..Len(s)
      BY <1>1, <1>2
    <2>2. Pos[s[1]] <= Pos[s[i]] /\ Pos[s[i]] <= Pos[s[Len(s)]]
      BY <1>1, <1>2, <1>3, <1>4, <2>1
    <2>3. QED
      BY <1>4, <2>1, <2>2, StampsInOrder
  <1>8. \A i \in 1..Len(s) : At[s[i]] = At[s[1]]
    <2>1. 1 \in 1..Len(s) /\ Len(s) \in 1..Len(s)
      BY <1>1, <1>2
    <2>2. QED
      BY <1>4, <1>6, <1>7, <2>1
  <1>9. \A e, f \in Ids(s) : At[e] = At[f]
    BY <1>2, <1>8, IdsOfSeq
  <1>10. Ids(s) \subseteq Events
    BY <1>2, <1>4, IdsOfSeq
  <1>11. IsFiniteSet(Ids(s)) /\ Cardinality(Ids(s)) = MaxProcessed + 1
    BY <1>2, <1>5, DistinctIds
  <1>12. Cardinality(Ids(s)) <= MaxProcessed
    BY <1>9, <1>10, <1>11 DEF FewPerStamp
  <1>13. QED
    BY <1>1, <1>11, <1>12

\* Moving the cursor records the outstanding event and forgets none.
LEMMA AdvanceRecords ==
    ASSUME OrderInv, FewPerStamp, Advance,
           NEW f \in Events, Recorded(f) \/ f = current
    PROVE  Recorded(f)'
  <1> USE DEF OrderInv
  <1>1. /\ current # NoEvent /\ current \in Events
        /\ last' = At[current] /\ last <= At[current]
        /\ last \in Nat /\ At[current] \in Nat /\ At[f] \in Nat
    <2>1. last' = IF At[current] > last THEN At[current] ELSE last
      BY DEF Advance
    <2>2. QED
      BY <2>1, CurrentIsNewest, ActionsAssumption
      DEF ActionsAssumption, Advance, Inv, TypeOK
  <1>2. CASE At[f] < last
    BY <1>1, <1>2 DEF Recorded
  <1>3. CASE f = current
    <2>1. Len(processed') \in 1..Len(processed') /\ processed'[Len(processed')] = current
      BY RememberedIds, ActionsAssumption DEF ActionsAssumption
    <2>2. current \in Ids(processed')
      BY <2>1, RememberedIds, IdsOfSeq
    <2>3. QED
      BY <1>3, <2>2 DEF Recorded
  <1>4. CASE f \in Ids(processed)
    <2>1. PICK i \in 1..Len(processed) : processed[i] = f
      BY <1>4, IdsOfSeq DEF Inv, TypeOK
    <2>2. CASE Len(processed) = MaxProcessed /\ i = 1
      <3>1. At[f] < At[current]
        BY <1>1, <2>1, <2>2, OldestIsOlder
      <3>2. QED
        BY <1>1, <3>1 DEF Recorded
    <2>3. CASE Len(processed) = MaxProcessed /\ i # 1
      <3>1. i - 1 \in 1..Len(processed') /\ processed'[i - 1] = f
        BY <2>1, <2>3, RememberedIds
      <3>2. QED
        BY <3>1, RememberedIds, IdsOfSeq DEF Recorded
    <2>4. CASE Len(processed) # MaxProcessed
      <3>1. i \in 1..Len(processed') /\ processed'[i] = f
        BY <2>1, <2>4, RememberedIds
      <3>2. QED
        BY <3>1, RememberedIds, IdsOfSeq DEF Recorded
    <2>5. QED
      BY <2>2, <2>3, <2>4
  <1>5. QED
    BY <1>2, <1>3, <1>4 DEF Recorded

\* The steps that leave cursor and requests alone and take nothing into the
\* page; what leaves the page is recorded.
LEMMA CursorKept ==
    ASSUME OrderInv, Inv', UNCHANGED <<raised, last, processed, requests, skipped>>,
           page' \subseteq page,
           \/ current' = current /\ faults' = faults /\ \A e \in page \ page' : Recorded(e)
           \/ page' = {} /\ current' = NoEvent /\ faults' = faults + 1
    PROVE  OrderInv'
  <1> USE DEF OrderInv
  <1>1. \A e : (Recorded(e)' <=> Recorded(e)) /\ (Handled(e)' <=> Handled(e))
    BY DEF Recorded, Handled
  <1>2. PageAhead'
    BY <1>1 DEF PageAhead
  <1>3. IdsInOrder' /\ OnlyNewestUnrecorded'
    BY <1>1 DEF IdsInOrder, OnlyNewestUnrecorded
  <1>4. \A e \in Events : requests[e] \in Nat
    BY DEF Inv, TypeOK
  <1>5. faults \in Nat
    BY ActionsAssumption DEF ActionsAssumption, Inv, TypeOK
  <1>6. RequestsPaid'
    BY <1>1, <1>4, <1>5 DEF RequestsPaid
  <1>7. QED
    BY <1>2, <1>3, <1>6

\* A new event is behind everything, and nothing of it is handled yet.
LEMMA RaiseOrder ==
    ASSUME OrderInv, Inv', NEW e \in Events, RaiseAction(e)
    PROVE  OrderInv'
  <1> USE DEF OrderInv
  <1>1. /\ raised' = raised \cup {e} /\ e \notin raised
        /\ \A f \in raised : Pos[f] < Pos[e]
        /\ UNCHANGED <<last, processed, page, current, requests, skipped, faults>>
    BY DEF RaiseAction
  <1>2. \A f : (Recorded(f)' <=> Recorded(f)) /\ (Handled(f)' <=> Handled(f))
    BY <1>1 DEF Recorded, Handled
  <1>3. \A f \in raised : ~(Pos[e] < Pos[f])
    BY <1>1, ActionsAssumption DEF ActionsAssumption, Inv, TypeOK
  <1>4. page \subseteq raised /\ ~Handled(e)
    BY <1>1 DEF Inv, KnownEvents
  <1>5. PageAhead'
    BY <1>1, <1>2, <1>3, <1>4 DEF PageAhead
  <1>6. OnlyNewestUnrecorded'
    BY <1>1, <1>2, <1>3, <1>4 DEF OnlyNewestUnrecorded
  <1>7. IdsInOrder' /\ RequestsPaid'
    BY <1>1, <1>2 DEF IdsInOrder, RequestsPaid
  <1>8. QED
    BY <1>5, <1>6, <1>7

\* A fresh page starts at the cursor; what lies before it is recorded.
LEMMA PollOrder ==
    ASSUME OrderInv, Inv', Poll
    PROVE  OrderInv'
  <1> USE DEF OrderInv
  <1>1. /\ page' = ListActionEvents /\ current = NoEvent
        /\ UNCHANGED <<raised, last, processed, current, requests, skipped, faults>>
    BY DEF Poll, hosted
  <1>2. \A f : (Recorded(f)' <=> Recorded(f)) /\ (Handled(f)' <=> Handled(f))
    BY <1>1 DEF Recorded, Handled
  <1>3. PageAhead'
    <2>1. \A e \in ListActionEvents : At[e] >= last
      BY DEF ListActionEvents
    <2>2. ASSUME NEW e \in ListActionEvents, NEW f \in raised, Pos[f] < Pos[e]
          PROVE  f \in ListActionEvents \/ Recorded(f)
      <3>1. CASE At[f] < last
        BY <3>1 DEF Recorded
      <3>2. CASE At[f] >= last
        BY <2>2, <3>2, PageIsPrefix DEF Inv
      <3>3. QED
        BY <3>1, <3>2, ActionsAssumption DEF ActionsAssumption, Inv, TypeOK
    <2>3. QED
      BY <1>1, <1>2, <2>1, <2>2 DEF PageAhead
  <1>4. IdsInOrder' /\ OnlyNewestUnrecorded' /\ RequestsPaid'
    BY <1>1, <1>2 DEF IdsInOrder, OnlyNewestUnrecorded, RequestsPaid
  <1>5. QED
    BY <1>3, <1>4

\* When an event of the page is applied the cursor knows nothing of it, and no
\* later event was handled: what was would have recorded it.
LEMMA AppliedIsNewest ==
    ASSUME OrderInv, NEW e \in Events, Apply(e)
    PROVE  /\ ~Recorded(e)
           /\ \A f \in Events : Pos[e] < Pos[f] => ~Handled(f)
           /\ \A f \in raised : Pos[f] < Pos[e] => Recorded(f)
  <1> USE DEF OrderInv
  <1>1. /\ e \in page /\ e \in raised /\ e \notin Ids(processed) /\ current = NoEvent
        /\ \A f \in page : Pos[e] <= Pos[f]
    BY DEF Apply, FirstOf, Inv, KnownEvents
  <1>2. ~Recorded(e)
    <2>1. At[e] >= last /\ At[e] \in Nat /\ last \in Nat
      BY <1>1, ActionsAssumption DEF ActionsAssumption, Inv, TypeOK, PageAhead
    <2>2. QED
      BY <1>1, <2>1 DEF Recorded
  <1>3. \A f \in Events : Pos[e] < Pos[f] => ~Handled(f)
    BY <1>1, <1>2 DEF Inv, KnownEvents, OnlyNewestUnrecorded
  <1>4. \A f \in raised : Pos[f] < Pos[e] => Recorded(f)
    <2>1. \A f \in raised : f \in Events /\ Pos[f] \in Nat /\ Pos[e] \in Nat /\ f # NoEvent
      BY ActionsAssumption DEF ActionsAssumption, Inv, TypeOK
    <2>2. QED
      BY <1>1, <2>1 DEF PageAhead
  <1>5. QED
    BY <1>2, <1>3, <1>4

\* _apply makes its event the newest handled one.  If it was handled before,
\* that time was paid for by a fault.
LEMMA ApplyOrder ==
    ASSUME OrderInv, Inv', NEW e \in Events, Apply(e)
    PROVE  OrderInv'
  <1> USE DEF OrderInv
  <1>1. /\ e \in page /\ \A f \in page : Pos[e] <= Pos[f]
        /\ page' = page \ {e} /\ current' = e /\ current = NoEvent
        /\ UNCHANGED <<raised, last, processed, faults>>
    BY DEF Apply, FirstOf, hosted
  <1>2. /\ \A f \in Events \ {e} : (Handled(f)' <=> Handled(f)) /\ requests'[f] = requests[f]
        /\ requests'[e] \in {requests[e], requests[e] + 1}
    BY ApplyHandles DEF Inv
  <1>3. \A f : Recorded(f)' <=> Recorded(f)
    BY <1>1 DEF Recorded
  <1>4. /\ ~Recorded(e)
        /\ \A f \in Events : Pos[e] < Pos[f] => ~Handled(f)
        /\ \A f \in raised : Pos[f] < Pos[e] => Recorded(f)
    BY AppliedIsNewest
  <1>5. \A f \in raised : f \in Events /\ f # NoEvent
    BY ActionsAssumption DEF ActionsAssumption, Inv, TypeOK
  <1>6. PageAhead'
    <2>1. \A f \in page \ {e} : Pos[e] < Pos[f]
      BY <1>1, ActionsAssumption DEF ActionsAssumption, Inv, TypeOK
    <2>2. \A f \in page \ {e}, g \in raised :
             Pos[g] < Pos[f] => g \in page \ {e} \/ g = e \/ Recorded(g)
      BY <1>1, <1>5 DEF PageAhead
    <2>3. QED
      BY <1>1, <1>3, <1>4, <2>1, <2>2 DEF PageAhead
  <1>7. IdsInOrder'
    BY <1>1 DEF IdsInOrder
  <1>8. OnlyNewestUnrecorded'
    <2> SUFFICES ASSUME NEW g \in raised, NEW f \in raised, Handled(g)', Pos[f] < Pos[g]
                 PROVE  Recorded(f)
      BY <1>1, <1>3 DEF OnlyNewestUnrecorded
    <2>1. CASE g = e
      BY <1>4, <2>1
    <2>2. CASE g # e
      BY <1>2, <1>5, <2>2 DEF OnlyNewestUnrecorded
    <2>3. QED
      BY <2>1, <2>2
  <1>9. RequestsPaid'
    <2>1. requests[e] \in Nat /\ faults \in Nat
      BY ActionsAssumption DEF ActionsAssumption, Inv, TypeOK
    <2>2. requests[e] <= faults
      BY <1>1, <1>4, <2>1, ActionsAssumption DEF ActionsAssumption, RequestsPaid, Handled
    <2>3. requests'[e] <= 1 + faults
      BY <1>2, <2>1, <2>2
    <2>4. ASSUME NEW f \in Events \ {e}
          PROVE  /\ requests'[f] <= 1 + faults
                 /\ Handled(f)' /\ ~Recorded(f) => requests'[f] <= faults
      <3>1. f # current
        BY <1>1, ActionsAssumption DEF ActionsAssumption
      <3>2. QED
        BY <1>2, <3>1 DEF RequestsPaid
    <2>5. QED
      BY <1>1, <1>3, <2>3, <2>4 DEF RequestsPaid
  <1>10. QED
    BY <1>6, <1>7, <1>8, <1>9

\* Writing the cursor records the outstanding event and keeps the ids in order.
LEMMA AdvanceOrder ==
    ASSUME OrderInv, Inv', FewPerStamp, Advance
    PROVE  OrderInv'
  <1> USE DEF OrderInv
  <1>1. /\ current # NoEvent /\ current' = NoEvent
        /\ UNCHANGED <<raised, page, requests, skipped, faults>>
    BY DEF Advance, hosted
  <1>2. /\ current \in Events /\ current \in raised
        /\ last' = At[current] /\ last <= At[current]
        /\ \A i \in 1..Len(processed) : Pos[processed[i]] < Pos[current]
    <2>1. /\ last' = IF At[current] > last THEN At[current] ELSE last
          /\ last \in Nat /\ At \in [Events -> Nat]
      BY ActionsAssumption DEF ActionsAssumption, Advance, Inv, TypeOK
    <2>2. QED
      BY <1>1, <2>1, CurrentIsNewest
  <1>3. \A f \in Events : Recorded(f) \/ f = current => Recorded(f)'
    BY AdvanceRecords
  <1>4. \A f : Handled(f)' <=> Handled(f)
    BY <1>1 DEF Handled
  <1>5. \A f \in raised : f \in Events
    BY DEF Inv, TypeOK
  <1>6. PageAhead'
    <2>1. \A f \in page : At[current] <= At[f]
      <3>1. \A f \in page : f \in Events /\ Pos[current] <= Pos[f]
        BY <1>1, <1>2, ActionsAssumption DEF ActionsAssumption, Inv, TypeOK, PageAhead
      <3>2. QED
        BY <1>2, <3>1, StampsInOrder
    <2>2. \A f \in page : At[f] \in Nat /\ At[current] \in Nat
      BY <1>2, ActionsAssumption DEF ActionsAssumption, Inv, TypeOK
    <2>3. \A f \in page, g \in raised : Pos[g] < Pos[f] => g \in page \/ Recorded(g)'
      BY <1>3, <1>5 DEF PageAhead
    <2>4. QED
      BY <1>1, <1>2, <2>1, <2>2, <2>3 DEF PageAhead
  <1>7. IdsInOrder'
    <2>1. /\ Len(processed) \in Nat /\ processed \in Seq(Events)
          /\ \A i, j \in 1..Len(processed) : i < j => Pos[processed[i]] < Pos[processed[j]]
          /\ \A i \in 1..Len(processed) : At[processed[i]] <= last
      BY LenProperties DEF Inv, TypeOK, IdsInOrder
    <2>2. \A i \in 1..Len(processed) : processed[i] \in Events
      BY <2>1, ElementOfSeq
    <2>3. \A i \in 1..Len(processed) : At[processed[i]] <= At[current]
      <3>1. \A i \in 1..Len(processed) : Pos[processed[i]] <= Pos[current]
        BY <1>2, <2>2, ActionsAssumption DEF ActionsAssumption
      <3>2. QED
        BY <1>2, <2>2, <3>1, StampsInOrder
    <2>4. At[current] <= At[current]
      BY <1>2, ActionsAssumption DEF ActionsAssumption
    <2>5. \A i, j \in 1..Len(processed') : i < j => Pos[processed'[i]] < Pos[processed'[j]]
      <3> SUFFICES ASSUME NEW i \in 1..Len(processed'), NEW j \in 1..Len(processed'), i < j
                   PROVE  Pos[processed'[i]] < Pos[processed'[j]]
        OBVIOUS
      <3> DEFINE k == IF Len(processed) = MaxProcessed THEN 1 ELSE 0
      <3>1. /\ i + k \in 1..Len(processed) /\ processed'[i] = processed[i + k]
            /\ IF j = Len(processed') THEN processed'[j] = current
               ELSE j + k \in 1..Len(processed) /\ processed'[j] = processed[j + k]
        BY <2>1, RememberedIds
      <3>2. i + k < j + k
        OBVIOUS
      <3> HIDE DEF k
      <3>3. CASE j = Len(processed')
        BY <1>2, <3>1, <3>3
      <3>4. CASE j # Len(processed')
        BY <2>1, <3>1, <3>2, <3>4
      <3>5. QED
        BY <3>3, <3>4
    <2>6. \A i \in 1..Len(processed') : At[processed'[i]] <= last'
      BY <1>2, <2>1, <2>3, <2>4, RememberedIds
    <2>7. QED
      BY <2>5, <2>6 DEF IdsInOrder
  <1>8. OnlyNewestUnrecorded'
    BY <1>1, <1>3, <1>4, <1>5 DEF OnlyNewestUnrecorded
  <1>9. RequestsPaid'
    BY <1>1, <1>3, <1>4 DEF RequestsPaid
  <1>10. QED
    BY <1>6, <1>7, <1>8, <1>9

\* With few events per stamp every step keeps order and bounds.
LEMMA OrderStep ==
    ASSUME FewPerStamp
    PROVE  OrderInv /\ [Next]_vars => OrderInv'
  <1> SUFFICES ASSUME OrderInv, [Next]_vars PROVE OrderInv'
    OBVIOUS
  <1>0. Inv'
    BY StepInv DEF OrderInv
  <1>1. ASSUME NEW m \in Missions, CreateMission(m) \/ PersistMapping(m) PROVE OrderInv'
    BY <1>0, <1>1, CursorKept DEF CreateMission, PersistMapping
  <1>2. ASSUME NEW e \in Events, PassOver(e) PROVE OrderInv'
    <2>1. Recorded(e)
      BY <1>2 DEF PassOver, Recorded
    <2>2. QED
      BY <1>0, <1>2, <2>1, CursorKept DEF PassOver, hosted
  <1>3. ASSUME Fault PROVE OrderInv'
    BY <1>0, <1>3, CursorKept DEF Fault, hosted
  <1>4. ASSUME UNCHANGED vars PROVE OrderInv'
    BY <1>0, <1>4, CursorKept DEF vars, hosted
  <1>5. QED
    BY <1>0, <1>1, <1>2, <1>3, <1>4, RaiseOrder, PollOrder, ApplyOrder, AdvanceOrder
    DEF Next, PollStep

\* The order invariant holds from the start.
LEMMA OrderInit == Init => OrderInv
  <1> SUFFICES ASSUME Init PROVE OrderInv
    OBVIOUS
  <1>1. PageAhead /\ IdsInOrder /\ OnlyNewestUnrecorded
    BY EmptySeq DEF Init, PageAhead, IdsInOrder, OnlyNewestUnrecorded
  <1>2. RequestsPaid
    BY DEF Init, RequestsPaid
  <1>3. QED
    BY <1>1, <1>2, InitInv DEF OrderInv

\* Where no stamp outgrows the remembered ids, the transition of an action is
\* requested once, and once more for each fault at most.
THEOREM RequestedOnce == ASSUME FewPerStamp PROVE Spec => []RequestedOncePerFault
  <1>1. OrderInv /\ [Next]_vars => OrderInv'
    BY OrderStep
  <1>2. OrderInv => RequestedOncePerFault
    BY DEF OrderInv, RequestsPaid, RequestedOncePerFault
  <1>3. QED
    BY <1>1, <1>2, OrderInit, PTL DEF Spec

\* Only _apply requests, and only the newest event.
LEMMA RequestsNewest ==
    OrderInv /\ [Next]_vars =>
        [\A e, f \in Events :
            requests'[e] > requests[e] /\ Pos[f] > Pos[e] => requests[f] = 0]_vars
  <1> SUFFICES ASSUME OrderInv, [Next]_vars, NEW e \in Events, NEW f \in Events,
                      requests'[e] > requests[e], Pos[f] > Pos[e]
               PROVE  requests[f] = 0
    OBVIOUS
  <1>1. requests \in [Events -> Nat]
    BY DEF OrderInv, Inv, TypeOK
  <1>2. CASE Apply(e)
    <2>1. ~Handled(f)
      BY <1>2, AppliedIsNewest, ActionsAssumption DEF ActionsAssumption
    <2>2. QED
      BY <1>1, <2>1 DEF Handled
  <1>3. CASE ~Apply(e)
    <2>1. requests'[e] = requests[e]
      <3>1. CASE \E g \in Events : Apply(g)
        BY <1>3, <3>1, ApplyHandles DEF OrderInv, Inv
      <3>2. CASE \A g \in Events : ~Apply(g)
        BY <3>2 DEF vars, Next, PollStep, Poll, PassOver, Advance, Fault, CreateMission,
                    PersistMapping, RaiseAction
      <3>3. QED
        BY <3>1, <3>2
    <2>2. QED
      BY <1>1, <2>1
  <1>4. QED
    BY <1>2, <1>3

\* A user's actions are requested in the order they were taken.
THEOREM RequestsKeepOrder == ASSUME FewPerStamp PROVE Spec => RequestsInOrder
  <1>1. OrderInv /\ [Next]_vars => OrderInv'
    BY OrderStep
  <1>2. QED
    BY <1>1, OrderInit, RequestsNewest, PTL DEF Spec, RequestsInOrder
=============================================================================
