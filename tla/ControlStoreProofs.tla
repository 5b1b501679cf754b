------------------------- MODULE ControlStoreProofs -------------------------
(***************************************************************************)
(* The log of permission requests, for any number of gates, requests,      *)
(* crashes and failed file operations and any length of the log.           *)
(*                                                                         *)
(* A gate's memory is what its part of the log says, except where its      *)
(* offset jumped over an entry, where an append of its own failed and      *)
(* where a torn write swallowed an entry, or else there is more about the  *)
(* request to read (Synced); what it knows is written somewhere or was     *)
(* lost (Knows); between an append and its stat the entry is behind the    *)
(* offset and says what the maps say (Wrote).                              *)
(***************************************************************************)
EXTENDS ControlStore, WellFoundedInduction, TLAPS

\* The snapshots of k among the first n entries, readable or not.
About(k, n) == {i \in 1..n : log[i] # Torn /\ log[i].key = k}

\* None of them is glued to a torn write.
NoneGlued(k, n) == \A i \in About(k, n) : ~Glued(i)

\* What the last of them says.
LastSays(k, n) == IF About(k, n) = {} THEN "absent" ELSE log[Max(About(k, n))].state

\* What a gate knows of a request was written (persist follows the change of
\* the maps), or the append failed.
Knows(g) == \A k \in Keys : mem[g][k] # "absent" => About(k, Len(log)) # {} \/ k \in lost[g]

\* A gate has something about k left to read.
Behind(g, k) == \E i \in About(k, Len(log)) : i > offset[g]

\* A gate's maps agree with the log up to its offset, where it read all of it.
Synced(g) ==
    \A k \in Keys :
        k \notin jumped[g] \cup lost[g] /\ NoneGlued(k, offset[g])
            => mem[g][k] = LastSays(k, offset[g]) \/ Behind(g, k)

\* An entry whose append waits for its stat.
Wrote(g) ==
    writing[g] # 0 =>
        /\ g \in up /\ writing[g] > offset[g] /\ writing[g] <= Len(log)
        /\ log[writing[g]] # Torn
        /\ log[writing[g]].key \notin lost[g]
        /\ mem[g][log[writing[g]].key] = log[writing[g]].state

GateOK(g) == Knows(g) /\ Synced(g) /\ Wrote(g)

Inv == TypeOK /\ \A g \in Gates : GateOK(g)

---------------------------------------------------------------------------
(* Maxima and entries                                                      *)

\* A bounded, non-empty set of numbers has a maximum.
LEMMA MaxOfBounded ==
    ASSUME NEW n \in Nat, NEW T \in SUBSET (0..n), T # {}
    PROVE  Max(T) \in T /\ \A i \in T : Max(T) >= i
  <1> DEFINE less == {p \in Nat \X Nat : p[1] < p[2]}
  <1> DEFINE fromTop == {n - i : i \in T}
  <1>1. IsWellFoundedOn(less, Nat)
    BY NatLessThanWellFounded DEF OpToRel
  <1>2. fromTop \subseteq Nat /\ fromTop # {}
    <2>1. \A i \in T : i \in 0..n /\ n - i \in Nat
      OBVIOUS
    <2>2. fromTop \subseteq Nat
      BY <2>1
    <2>3. PICK i : i \in T
      OBVIOUS
    <2>4. n - i \in fromTop
      BY <2>3
    <2>5. QED
      BY <2>2, <2>4
  <1>3. PICK d \in fromTop : \A e \in fromTop : ~(<<e, d>> \in less)
    <2> HIDE DEF less, fromTop
    <2>1. QED
      BY <1>1, <1>2, WFMin
  <1>4. PICK m \in T : d = n - m
    OBVIOUS
  <1>5. \A i \in T : m >= i
    <2> SUFFICES ASSUME NEW i \in T, ~(m >= i) PROVE FALSE
      OBVIOUS
    <2>1. n - i \in fromTop /\ n - i \in Nat /\ n - m \in Nat /\ n - i < n - m
      OBVIOUS
    <2>2. <<n - i, n - m>> \in less
      BY <2>1
    <2>3. QED
      BY <1>3, <1>4, <2>1, <2>2
  <1>6. QED
    BY <1>5 DEF Max

\* A snapshot is not a torn write, and the log's other entries are snapshots.
LEMMA Entries ==
    ASSUME TypeOK
    PROVE  /\ Len(log) \in Nat /\ DOMAIN log = 1..Len(log)
           /\ \A i \in 1..Len(log) : log[i] # Torn => log[i] \in Snapshot
           /\ \A k \in Keys, s \in State \ {"absent"} :
                 Entry(k, s) \in Snapshot /\ Entry(k, s) # Torn
  <1>1. log \in Seq(Snapshot \cup {Torn})
    BY DEF TypeOK
  <1>2. \A k \in Keys, s \in State \ {"absent"} : Entry(k, s) \in Snapshot
    BY DEF Entry, Snapshot
  <1>3. QED
    BY <1>1, <1>2, ControlAssumption DEF ControlAssumption

\* The last snapshot is one of them, and none comes after it.
LEMMA LastAbout ==
    ASSUME NEW n \in Nat, NEW T \in SUBSET (1..n), T # {}
    PROVE  Max(T) \in T /\ \A i \in T : Max(T) >= i
  <1>1. T \in SUBSET (0..n)
    OBVIOUS
  <1>2. QED
    BY <1>1, MaxOfBounded

\* A set's maximum is the maximum of every part of it that keeps its large
\* elements.
LEMMA SameMax ==
    ASSUME NEW n \in Nat, NEW T \in SUBSET (1..n), NEW o \in Nat,
           {i \in T : i > o} # {}
    PROVE  Max({i \in T : i > o}) = Max(T)
  <1> DEFINE U == {i \in T : i > o}
  <1>1. /\ Max(T) \in T /\ \A i \in T : Max(T) >= i
        /\ Max(U) \in U /\ \A i \in U : Max(U) >= i
    <2>1. T # {} /\ U \in SUBSET (1..n)
      OBVIOUS
    <2>2. QED
      BY <2>1, LastAbout
  <1>2. Max(T) \in Nat /\ Max(U) \in Nat
    <2>1. \A i \in T : i \in Nat
      OBVIOUS
    <2>2. \A i \in U : i \in Nat
      OBVIOUS
    <2> HIDE DEF U
    <2>3. QED
      BY <1>1, <2>1, <2>2
  <1>3. Max(T) \in U
    BY <1>1, <1>2
  <1>4. QED
    BY <1>1, <1>2, <1>3

\* Where no snapshot of k is glued, a reader applies those behind its offset.
LEMMA AppliedAbout ==
    ASSUME TypeOK, NEW k \in Keys, NEW o \in 0..Len(log), NoneGlued(k, Len(log))
    PROVE  Applied(k, o) = {i \in About(k, Len(log)) : i > o}
  <1>1. Len(log) \in Nat
    BY Entries
  <1>2. ASSUME NEW i \in Applied(k, o)
        PROVE  i \in About(k, Len(log)) /\ i > o
    BY <1>1, <1>2 DEF Applied, Parses, About
  <1>3. ASSUME NEW i \in About(k, Len(log)), i > o
        PROVE  i \in Applied(k, o)
    BY <1>1, <1>3 DEF Applied, Parses, About, NoneGlued, Glued
  <1>4. QED
    BY <1>2, <1>3

\* Replaying keeps views well-typed.
LEMMA ReplayType ==
    ASSUME TypeOK, NEW view \in View, NEW o \in 0..Len(log)
    PROVE  /\ Replay(view, o) \in View
           /\ \A k \in Keys : Replay(view, o)[k] # "absent" =>
                 \/ About(k, Len(log)) # {}
                 \/ Applied(k, o) = {} /\ view[k] # "absent"
  <1>1. Len(log) \in Nat
    BY Entries
  <1>2. ASSUME NEW k \in Keys, Applied(k, o) # {}
        PROVE  log[Max(Applied(k, o))].state \in State /\ About(k, Len(log)) # {}
    <2>1. Applied(k, o) \in SUBSET (1..Len(log))
      BY <1>1 DEF Applied
    <2>2. Max(Applied(k, o)) \in Applied(k, o)
      BY <1>1, <1>2, <2>1, LastAbout
    <2>3. PICK i \in 1..Len(log) : /\ i = Max(Applied(k, o))
                                   /\ log[i] # Torn /\ log[i].key = k
      BY <2>1, <2>2 DEF Applied, Parses
    <2>4. log[i] \in Snapshot
      BY <2>3, Entries
    <2>5. QED
      BY <2>3, <2>4 DEF Snapshot, About
  <1>3. QED
    BY <1>2 DEF Replay, View

\* A reader that is in sync at its offset, or has more to read, is in sync at
\* the end of the log when it has replayed the rest.
LEMMA ReplaySyncs ==
    ASSUME TypeOK, NEW k \in Keys, NEW o \in 0..Len(log), NEW view \in View,
           NoneGlued(k, Len(log)),
           view[k] = LastSays(k, o) \/ Applied(k, o) # {}
    PROVE  Replay(view, o)[k] = LastSays(k, Len(log))
  <1> DEFINE all == About(k, Len(log))
  <1>1. Len(log) \in Nat /\ o \in Nat
    BY Entries
  <1>2. Applied(k, o) = {i \in all : i > o}
    BY AppliedAbout
  <1>3. all \in SUBSET (1..Len(log))
    BY DEF About
  <1>4. CASE Applied(k, o) = {}
    <2>1. About(k, o) = all
      BY <1>1, <1>2, <1>4 DEF About
    <2>2. QED
      BY <1>4, <2>1 DEF Replay, LastSays
  <1>5. CASE Applied(k, o) # {}
    <2>1. Max(Applied(k, o)) = Max(all) /\ all # {}
      <3> HIDE DEF all
      <3>1. {i \in all : i > o} # {}
        BY <1>2, <1>5
      <3>2. Max({i \in all : i > o}) = Max(all)
        BY <1>1, <1>3, <3>1, SameMax
      <3>3. QED
        BY <1>2, <3>1, <3>2
    <2>2. QED
      BY <1>5, <2>1 DEF Replay, LastSays
  <1>6. QED
    BY <1>4, <1>5

\* A fresh store recovers what the last snapshot of a request says.
LEMMA RecoveredSays ==
    ASSUME TypeOK, NEW k \in Keys, NoneGlued(k, Len(log))
    PROVE  Recovered[k] = LastSays(k, Len(log))
  <1>1. 0 \in 0..Len(log)
    BY Entries
  <1>2. Empty \in View /\ Empty[k] = "absent"
    BY DEF Empty, View, State
  <1>3. About(k, 0) = {}
    BY DEF About
  <1>4. LastSays(k, 0) = "absent"
    BY <1>3 DEF LastSays
  <1>5. QED
    BY <1>1, <1>2, <1>4, ReplaySyncs DEF Recovered

---------------------------------------------------------------------------
(* The log grows                                                           *)

LogGrows ==
    \/ log' = log
    \/ \E x \in Snapshot \cup {Torn} : log' = Append(log, x) /\ Len(log) < MaxLog

\* Appending changes no entry and nothing that is said of the old part.
LEMMA Grown ==
    ASSUME TypeOK, LogGrows
    PROVE  /\ log' \in Seq(Snapshot \cup {Torn}) /\ Len(log') <= MaxLog
           /\ Len(log') \in Nat /\ Len(log) <= Len(log')
           /\ \A i \in 1..Len(log) : log'[i] = log[i]
           /\ \A k, n : n \in 0..Len(log) =>
                 /\ About(k, n)' = About(k, n)
                 /\ NoneGlued(k, n)' <=> NoneGlued(k, n)
                 /\ LastSays(k, n)' = LastSays(k, n)
           /\ \A k : About(k, Len(log)) \subseteq About(k, Len(log))'
  <1>1. log \in Seq(Snapshot \cup {Torn}) /\ Len(log) <= MaxLog /\ Len(log) \in Nat
    BY Entries DEF TypeOK
  <1>2. /\ log' \in Seq(Snapshot \cup {Torn}) /\ Len(log') <= MaxLog
        /\ Len(log') \in Nat /\ Len(log) <= Len(log')
        /\ \A i \in 1..Len(log) : log'[i] = log[i]
    <2>1. CASE log' = log
      BY <1>1, <2>1
    <2>2. CASE \E x \in Snapshot \cup {Torn} : log' = Append(log, x) /\ Len(log) < MaxLog
      BY <1>1, <2>2, ControlAssumption DEF ControlAssumption
    <2>3. QED
      BY <2>1, <2>2 DEF LogGrows
  <1>3. ASSUME NEW k, NEW n \in 0..Len(log)
        PROVE  /\ About(k, n)' = About(k, n)
               /\ NoneGlued(k, n)' <=> NoneGlued(k, n)
               /\ LastSays(k, n)' = LastSays(k, n)
    <2>1. \A i \in 1..n : log'[i] = log[i]
      BY <1>1, <1>2
    <2>2. About(k, n)' = About(k, n)
      BY <2>1 DEF About
    <2>3. \A i \in 1..n : Glued(i)' <=> Glued(i)
      BY <1>1, <2>1 DEF Glued
    <2>4. NoneGlued(k, n)' <=> NoneGlued(k, n)
      BY <2>2, <2>3 DEF NoneGlued, About
    <2>5. LastSays(k, n)' = LastSays(k, n)
      <3>1. CASE About(k, n) = {}
        BY <2>2, <3>1 DEF LastSays
      <3>2. CASE About(k, n) # {}
        <4>1. About(k, n) \in SUBSET (1..n) /\ n \in Nat
          BY <1>1 DEF About
        <4>2. Max(About(k, n)) \in 1..n
          BY <3>2, <4>1, LastAbout
        <4>3. QED
          BY <2>1, <2>2, <3>2, <4>2 DEF LastSays
      <3>3. QED
        BY <3>1, <3>2
    <2>6. QED
      BY <2>2, <2>4, <2>5
  <1>4. \A k : About(k, Len(log)) \subseteq About(k, Len(log))'
    BY <1>1, <1>2 DEF About
  <1>5. QED
    BY <1>2, <1>3, <1>4

\* A gate that neither reads nor writes stays as it was.
LEMMA GateKept ==
    ASSUME TypeOK, LogGrows, NEW g \in Gates, GateOK(g), g \in up => g \in up',
           mem'[g] = mem[g], offset'[g] = offset[g], jumped'[g] = jumped[g],
           lost'[g] = lost[g], writing'[g] \in {writing[g], 0}
    PROVE  GateOK(g)'
  <1> USE DEF GateOK
  <1>1. Knows(g)'
    BY Grown DEF Knows
  <1>2. PICK n : n = offset[g]
    OBVIOUS
  <1>3. n \in 0..Len(log)
    BY <1>2, Entries DEF TypeOK
  <1>4. \A k : /\ About(k, n)' = About(k, n)
               /\ NoneGlued(k, n)' <=> NoneGlued(k, n)
               /\ LastSays(k, n)' = LastSays(k, n)
    BY <1>3, Grown
  <1>5. \A k : Behind(g, k) => Behind(g, k)'
    <2>1. \A k : About(k, Len(log)) \subseteq About(k, Len(log))'
      BY Grown
    <2>2. QED
      BY <2>1 DEF Behind
  <1>6. Synced(g)'
    BY <1>2, <1>4, <1>5 DEF Synced
  <1>7. Wrote(g)'
    <2> SUFFICES ASSUME writing'[g] # 0 PROVE Wrote(g)'
      BY DEF Wrote
    <2>1. PICK w : w = writing[g]
      OBVIOUS
    <2>2. w \in 1..Len(log) /\ writing'[g] = w
      BY <2>1, Entries DEF TypeOK, Wrote
    <2>3. log'[w] = log[w] /\ w <= Len(log')
      BY <2>2, Grown, Entries
    <2>4. QED
      BY <2>1, <2>2, <2>3 DEF Wrote
  <1>8. QED
    BY <1>1, <1>6, <1>7

\* A gate that changes what it knows of k: the change is appended or lost.
LEMMA WriterKept ==
    ASSUME TypeOK, LogGrows, NEW g \in Gates, Knows(g), Synced(g), NEW k \in Keys,
           \A j \in Keys \ {k} : mem'[g][j] = mem[g][j] /\ (j \in lost'[g] <=> j \in lost[g]),
           offset'[g] = offset[g], jumped'[g] = jumped[g],
           \/ k \in lost'[g]
           \/ Len(log') = Len(log) + 1 /\ Len(log') \in About(k, Len(log))'
    PROVE  Knows(g)' /\ Synced(g)'
  <1>1. PICK n : n = offset[g]
    OBVIOUS
  <1>2. n \in 0..Len(log) /\ Len(log) \in Nat
    BY <1>1, Entries DEF TypeOK
  <1>3. \A j : /\ About(j, n)' = About(j, n)
               /\ NoneGlued(j, n)' <=> NoneGlued(j, n)
               /\ LastSays(j, n)' = LastSays(j, n)
               /\ About(j, Len(log)) \subseteq About(j, Len(log))'
    BY <1>2, Grown
  <1>4. \A j : Behind(g, j) => Behind(g, j)'
    BY <1>3 DEF Behind
  <1>5. ASSUME NEW j \in Keys, j # k
        PROVE  /\ mem'[g][j] # "absent" => About(j, Len(log))' # {} \/ j \in lost'[g]
               /\ j \notin jumped'[g] \cup lost'[g] /\ NoneGlued(j, offset[g])'
                     => mem'[g][j] = LastSays(j, offset[g])' \/ Behind(g, j)'
    BY <1>1, <1>3, <1>4, <1>5 DEF Knows, Synced
  <1>6. k \in lost'[g] \/ (About(k, Len(log))' # {} /\ Behind(g, k)')
    BY <1>1, <1>2 DEF Behind
  <1>7. QED
    BY <1>5, <1>6 DEF Knows, Synced

\* A stat puts the offset behind everything that is in the file.
LEMMA StatSynced ==
    ASSUME TypeOK, NEW g \in Gates, GateOK(g), writing[g] # 0, log' = log,
           mem'[g] = mem[g], lost'[g] = lost[g], offset'[g] = Len(log),
           jumped'[g] = jumped[g] \cup Unread(g)
    PROVE  Knows(g)' /\ Synced(g)'
  <1>1. PICK n \in Nat : n = Len(log)
    BY Entries
  <1>2. PICK o \in 0..n : o = offset[g]
    BY <1>1 DEF TypeOK
  <1>3. PICK w \in o + 1 .. n : w = writing[g]
    BY <1>1, <1>2 DEF GateOK, Wrote, TypeOK
  <1>4. log[w] # Torn /\ mem[g][log[w].key] = log[w].state
    BY <1>3 DEF GateOK, Wrote
  <1>5. \A k : /\ About(k, n)' = About(k, n)
               /\ NoneGlued(k, n)' <=> NoneGlued(k, n)
               /\ LastSays(k, n)' = LastSays(k, n)
    BY DEF About, NoneGlued, Glued, LastSays
  <1>6. Knows(g)'
    BY <1>1, <1>5 DEF GateOK, Knows
  <1>7. ASSUME NEW k \in Keys, k \notin jumped[g] \cup lost[g], k \notin Unread(g), NoneGlued(k, n)
        PROVE  mem[g][k] = LastSays(k, n)
    <2>1. \A i \in About(k, n) : i \in 1..n /\ (i <= o \/ i = w)
      BY <1>1, <1>2, <1>3, <1>7 DEF Unread, About
    <2>2. CASE w \in About(k, n)
      <3>1. log[w].key = k
        BY <2>2 DEF About
      <3>2. PICK T : T = About(k, n)
        OBVIOUS
      <3>3. T \in SUBSET (1..n) /\ T # {}
        BY <2>1, <2>2, <3>2
      <3>4. Max(T) \in T /\ \A i \in T : Max(T) >= i
        BY <3>3, LastAbout
      <3>5. Max(T) = w
        BY <1>3, <2>1, <2>2, <3>2, <3>4
      <3>6. QED
        BY <1>4, <2>2, <3>1, <3>2, <3>5 DEF LastSays
    <2>3. CASE w \notin About(k, n)
      <3>1. About(k, n) = About(k, o)
        BY <1>2, <2>1, <2>3 DEF About
      <3>2. NoneGlued(k, o) /\ ~Behind(g, k)
        BY <1>1, <1>2, <1>7, <2>1, <2>3 DEF NoneGlued, Behind, About
      <3>3. mem[g][k] = LastSays(k, o)
        BY <1>2, <1>7, <3>2 DEF GateOK, Synced
      <3>4. QED
        BY <3>1, <3>3 DEF LastSays
    <2>4. QED
      BY <2>2, <2>3
  <1>8. Synced(g)'
    BY <1>1, <1>5, <1>7 DEF Synced
  <1>9. QED
    BY <1>6, <1>8

\* _consume_from_offset brings a gate in sync with the whole log.
LEMMA ReaderSynced ==
    ASSUME TypeOK, NEW g \in Gates, log' = log, offset'[g] = Len(log),
           \/ /\ mem'[g] = Replay(mem[g], offset[g])
              /\ jumped'[g] = {k \in jumped[g] : Applied(k, offset[g]) = {}}
              /\ lost'[g] = {k \in lost[g] : Applied(k, offset[g]) = {}}
              /\ Knows(g) /\ Synced(g)
           \/ mem'[g] = Recovered
    PROVE  Knows(g)' /\ Synced(g)'
  <1>1. PICK n \in Nat : n = Len(log)
    BY Entries
  <1>2. \A k : /\ About(k, n)' = About(k, n)
               /\ NoneGlued(k, n)' <=> NoneGlued(k, n)
               /\ LastSays(k, n)' = LastSays(k, n)
    BY DEF About, NoneGlued, Glued, LastSays
  <1>3. CASE mem'[g] = Recovered
    <2>1. /\ 0 \in 0..Len(log) /\ Empty \in View
          /\ \A k \in Keys : Empty[k] = "absent"
      BY <1>1 DEF Empty, View, State
    <2>2. \A k \in Keys : Recovered[k] # "absent" => About(k, n) # {}
      BY <1>1, <2>1, ReplayType DEF Recovered
    <2>3. Knows(g)'
      BY <1>1, <1>2, <1>3, <2>2 DEF Knows
    <2>4. \A k \in Keys : NoneGlued(k, n) => Recovered[k] = LastSays(k, n)
      BY <1>1, RecoveredSays
    <2>5. Synced(g)'
      BY <1>1, <1>2, <1>3, <2>4 DEF Synced
    <2>6. QED
      BY <2>3, <2>5
  <1>4. CASE /\ mem'[g] = Replay(mem[g], offset[g])
             /\ jumped'[g] = {k \in jumped[g] : Applied(k, offset[g]) = {}}
             /\ lost'[g] = {k \in lost[g] : Applied(k, offset[g]) = {}}
             /\ Knows(g) /\ Synced(g)
    <2>1. PICK o \in 0..n : o = offset[g]
      BY <1>1 DEF TypeOK
    <2>2. mem[g] \in View /\ o \in 0..Len(log)
      BY <1>1, <2>1 DEF TypeOK
    <2>3. ASSUME NEW k \in Keys, mem'[g][k] # "absent"
          PROVE  About(k, n) # {} \/ k \in lost'[g]
      <3>1. About(k, n) # {} \/ (Applied(k, o) = {} /\ mem[g][k] # "absent")
        BY <1>1, <1>4, <2>1, <2>2, <2>3, ReplayType
      <3>2. QED
        BY <1>1, <1>4, <2>1, <3>1 DEF Knows
    <2>4. Knows(g)'
      BY <1>1, <1>2, <2>3 DEF Knows
    <2>5. ASSUME NEW k \in Keys, k \notin jumped'[g] \cup lost'[g], NoneGlued(k, n)
          PROVE  mem'[g][k] = LastSays(k, n)
      <3>1. NoneGlued(k, o)
        BY <1>1, <2>1, <2>5 DEF About, NoneGlued
      <3>2. Behind(g, k) => Applied(k, o) # {}
        BY <1>1, <2>1, <2>2, <2>5, AppliedAbout DEF Behind
      <3>3. mem[g][k] = LastSays(k, o) \/ Applied(k, o) # {}
        BY <1>4, <2>1, <2>5, <3>1, <3>2 DEF Synced
      <3>4. QED
        BY <1>1, <1>4, <2>1, <2>2, <2>5, <3>3, ReplaySyncs
    <2>6. Synced(g)'
      BY <1>1, <1>2, <2>5 DEF Synced
    <2>7. QED
      BY <2>4, <2>6
  <1>5. QED
    BY <1>3, <1>4

---------------------------------------------------------------------------
(* The invariant                                                           *)

\* An empty log and empty maps are in sync.
LEMMA InitInv == Init => Inv
  <1> SUFFICES ASSUME Init PROVE Inv
    OBVIOUS
  <1>1. TypeOK
    BY ControlAssumption DEF ControlAssumption, Init, TypeOK, Empty, View, State
  <1>2. \A k : About(k, 0) = {}
    BY DEF About
  <1>3. ASSUME NEW g \in Gates PROVE Knows(g) /\ Synced(g) /\ Wrote(g)
    BY <1>2 DEF Init, Knows, Synced, Wrote, LastSays, Empty
  <1>4. QED
    BY <1>1, <1>3 DEF Inv, GateOK

\* The stores of the other processes.
Others(g) ==
    \A h \in Gates \ {g} :
        /\ mem'[h] = mem[h] /\ offset'[h] = offset[h] /\ jumped'[h] = jumped[h]
        /\ lost'[h] = lost[h] /\ writing'[h] = writing[h]
        /\ h \in up => h \in up'

\* A step of one gate concerns its own store only.
LEMMA OneGate ==
    ASSUME Inv, LogGrows, NEW g \in Gates, Others(g), TypeOK', GateOK(g)'
    PROVE  Inv'
  <1>1. ASSUME NEW h \in Gates \ {g} PROVE GateOK(h)'
    BY GateKept DEF Inv, Others
  <1>2. QED
    BY <1>1 DEF Inv

\* A change of the maps and its append.
LEMMA WriteStep ==
    ASSUME Inv, NEW g \in Gates, NEW k \in Keys, NEW s \in State \ {"absent"},
           Write(g, k, s), g \in up, writing[g] = 0,
           up' = up, oob' = oob, offset' = offset, jumped' = jumped,
           asking' \in [Gates -> Keys \cup {None}]
    PROVE  Inv'
  <1>1. /\ TypeOK /\ GateOK(g) /\ Len(log) \in Nat /\ MaxLog \in Nat /\ MaxFaults \in Nat
        /\ Entry(k, s) \in Snapshot /\ Entry(k, s) # Torn
        /\ Entry(k, s).key = k /\ Entry(k, s).state = s
    BY Entries, ControlAssumption DEF Inv, ControlAssumption, Entry
  <1>2. /\ mem' = [mem EXCEPT ![g][k] = s] /\ Len(log) < MaxLog
        /\ Appended(g, k, s) \/ AppendFails(g, k)
    BY DEF Write, persist
  <1>3. LogGrows
    BY <1>1, <1>2 DEF LogGrows, Appended, AppendFails
  <1>4. /\ mem' \in [Gates -> View]
        /\ mem'[g][k] = s /\ \A j \in Keys \ {k} : mem'[g][j] = mem[g][j]
        /\ \A h \in Gates \ {g} : mem'[h] = mem[h]
    BY <1>1, <1>2 DEF TypeOK, View
  <1>5. /\ lost' \in [Gates -> SUBSET Keys]
        /\ \A j \in Keys \ {k} : j \in lost'[g] <=> j \in lost[g]
        /\ \A h \in Gates \ {g} : lost'[h] = lost[h]
    <2>1. lost \in [Gates -> SUBSET Keys]
      BY <1>1 DEF TypeOK
    <2>2. CASE lost' = [lost EXCEPT ![g] = @ \ {k}]
      BY <2>1, <2>2
    <2>3. CASE lost' = [lost EXCEPT ![g] = @ \cup {k}]
      BY <2>1, <2>3
    <2>4. QED
      BY <1>2, <2>2, <2>3 DEF Appended, AppendFails
  <1>6. faults' \in 0..MaxFaults
    BY <1>1, <1>2 DEF TypeOK, Appended, AppendFails, Fault
  <1>7. log' \in Seq(Snapshot \cup {Torn}) /\ Len(log') <= MaxLog
        /\ Len(log) <= Len(log') /\ Len(log') \in Nat
    BY <1>1, <1>3, Grown
  <1>8. CASE Appended(g, k, s)
    <2>1. /\ log' = Append(log, Entry(k, s)) /\ Len(log') = Len(log) + 1
          /\ log'[Len(log) + 1] = Entry(k, s)
          /\ k \notin lost'[g]
      BY <1>1, <1>8 DEF Appended, TypeOK
    <2>2. /\ writing' \in [Gates -> 0..MaxLog] /\ writing'[g] = Len(log) + 1
          /\ \A h \in Gates \ {g} : writing'[h] = writing[h]
      BY <1>1, <1>2, <1>8, <2>1 DEF Appended, TypeOK
    <2>3. Len(log') \in About(k, Len(log))'
      BY <1>1, <2>1 DEF About
    <2>4. Knows(g)' /\ Synced(g)'
      BY <1>1, <1>3, <1>4, <1>5, <2>1, <2>3, WriterKept DEF GateOK
    <2>5. Wrote(g)'
      <3>1. offset'[g] < Len(log) + 1
        BY <1>1 DEF TypeOK
      <3>2. QED
        BY <1>1, <1>4, <2>1, <2>2, <3>1 DEF Wrote
    <2>6. TypeOK'
      <3>1. \A h \in Gates : offset'[h] <= Len(log')
        BY <1>1, <1>7 DEF TypeOK
      <3>2. QED
        BY <1>1, <1>4, <1>5, <1>6, <1>7, <2>2, <3>1 DEF TypeOK
    <2>7. QED
      BY <1>3, <1>4, <1>5, <2>2, <2>4, <2>5, <2>6, OneGate DEF Others, GateOK
  <1>9. CASE AppendFails(g, k)
    <2>1. writing' = writing /\ k \in lost'[g]
      BY <1>1, <1>9 DEF AppendFails, TypeOK
    <2>2. Knows(g)' /\ Synced(g)'
      BY <1>1, <1>3, <1>4, <1>5, <2>1, WriterKept DEF GateOK
    <2>3. Wrote(g)'
      BY <2>1 DEF Wrote
    <2>4. TypeOK'
      <3>1. \A h \in Gates : offset'[h] <= Len(log')
        BY <1>1, <1>7 DEF TypeOK
      <3>2. QED
        BY <1>1, <1>4, <1>5, <1>6, <1>7, <2>1, <3>1 DEF TypeOK
    <2>5. QED
      BY <1>3, <1>4, <1>5, <2>1, <2>2, <2>3, <2>4, OneGate DEF Others, GateOK
  <1>10. QED
    BY <1>2, <1>8, <1>9

\* A stat ends the write, with or without the file's size.
LEMMA StatStep ==
    ASSUME Inv, NEW g \in Gates, Stat(g)
    PROVE  Inv'
  <1>1. /\ TypeOK /\ GateOK(g) /\ Len(log) \in Nat /\ MaxLog \in Nat /\ MaxFaults \in Nat
        /\ UNCHANGED <<up, mem, log, oob, lost>> /\ writing[g] # 0
        /\ writing' = [writing EXCEPT ![g] = 0]
    BY Entries, ControlAssumption DEF Inv, ControlAssumption, Stat
  <1>2. LogGrows
    BY <1>1 DEF LogGrows
  <1>3. /\ writing' \in [Gates -> 0..MaxLog] /\ writing'[g] = 0
        /\ \A h \in Gates \ {g} : writing'[h] = writing[h]
    BY <1>1 DEF TypeOK
  <1>4. Wrote(g)'
    BY <1>3 DEF Wrote
  <1>5. CASE /\ offset' = [offset EXCEPT ![g] = Len(log)]
             /\ jumped' = [jumped EXCEPT ![g] = @ \cup Unread(g)]
             /\ UNCHANGED <<asking, faults>>
    <2>1. Unread(g) \subseteq Keys
      BY DEF Unread
    <2>2. /\ offset' \in [Gates -> 0..MaxLog] /\ offset'[g] = Len(log)
          /\ jumped' \in [Gates -> SUBSET Keys] /\ jumped'[g] = jumped[g] \cup Unread(g)
          /\ \A h \in Gates \ {g} : offset'[h] = offset[h] /\ jumped'[h] = jumped[h]
      BY <1>1, <1>5, <2>1 DEF TypeOK
    <2>3. Knows(g)' /\ Synced(g)'
      BY <1>1, <2>2, StatSynced
    <2>4. TypeOK'
      <3>1. \A h \in Gates : offset[h] <= Len(log) /\ offset[h] \in Nat
        BY <1>1 DEF TypeOK
      <3>2. \A h \in Gates : offset'[h] <= Len(log')
        BY <1>1, <2>2, <3>1
      <3>3. QED
        BY <1>1, <1>3, <1>5, <2>2, <3>2 DEF TypeOK
    <2>5. QED
      BY <1>1, <1>2, <1>3, <1>4, <2>2, <2>3, <2>4, OneGate DEF Others, GateOK
  <1>6. CASE /\ Fault /\ asking' = [asking EXCEPT ![g] = None]
             /\ UNCHANGED <<offset, jumped>>
    <2>1. TypeOK'
      <3>1. faults' \in 0..MaxFaults /\ asking' \in [Gates -> Keys \cup {None}]
        BY <1>1, <1>6 DEF TypeOK, Fault
      <3>2. QED
        BY <1>1, <1>3, <1>6, <3>1 DEF TypeOK
    <2>2. GateOK(g)'
      BY <1>1, <1>2, <1>3, <1>6, GateKept
    <2>3. QED
      BY <1>1, <1>2, <1>3, <1>6, <2>1, <2>2, OneGate DEF Others
  <1>7. QED
    BY <1>5, <1>6 DEF Stat

\* Steps that touch no store: the log may grow.
LEMMA StoresKept ==
    ASSUME Inv, LogGrows, UNCHANGED <<up, mem, offset, writing, jumped, lost>>,
           asking' \in [Gates -> Keys \cup {None}],
           oob' \in OobCall \cup {None}, faults' \in 0..MaxFaults
    PROVE  Inv'
  <1>1. TypeOK
    BY DEF Inv
  <1>2. \A h \in Gates : GateOK(h)'
    BY <1>1, GateKept DEF Inv
  <1>3. TypeOK'
    <2>1. log' \in Seq(Snapshot \cup {Torn}) /\ Len(log') <= MaxLog
          /\ Len(log) <= Len(log') /\ Len(log) \in Nat /\ Len(log') \in Nat
      BY <1>1, Grown, Entries
    <2>2. \A h \in Gates : offset[h] <= Len(log) /\ offset[h] \in Nat
      BY <1>1 DEF TypeOK
    <2>3. \A h \in Gates : offset'[h] <= Len(log')
      BY <2>1, <2>2
    <2>4. QED
      BY <1>1, <2>1, <2>3 DEF TypeOK
  <1>4. QED
    BY <1>2, <1>3 DEF Inv

\* One gate reads the rest of the log, or all of it after a restart.
LEMMA ReadStep ==
    ASSUME Inv, NEW g \in Gates, refresh_from_log(g) \/ Restart(g)
    PROVE  Inv'
  <1>1. TypeOK /\ GateOK(g)
    BY DEF Inv
  <1>2. log' = log /\ Len(log) \in 0..MaxLog
    BY <1>1, Entries, ControlAssumption DEF ControlAssumption, TypeOK, refresh_from_log, Restart
  <1>3. /\ offset' = [offset EXCEPT ![g] = Len(log)]
        /\ UNCHANGED <<asking, oob, writing, faults>>
        /\ up' \subseteq Gates /\ up \subseteq up'
    BY <1>1 DEF TypeOK, refresh_from_log, Restart
  <1>4. /\ offset'[g] = Len(log) /\ offset' \in [Gates -> 0..MaxLog]
        /\ \A h \in Gates \ {g} : offset'[h] = offset[h]
    BY <1>1, <1>2, <1>3 DEF TypeOK
  <1>5. /\ Replay(mem[g], offset[g]) \in View
        /\ Recovered \in View
    <2>1. mem[g] \in View /\ offset[g] \in 0..Len(log) /\ 0 \in 0..Len(log) /\ Empty \in View
      BY <1>1, <1>2 DEF TypeOK, Empty, View, State
    <2>2. QED
      BY <1>1, <2>1, ReplayType DEF Recovered
  <1>6. writing'[g] = 0
    BY <1>1, <1>3 DEF refresh_from_log, Ready, Restart, GateOK, Wrote
  <1>7. /\ mem' \in [Gates -> View] /\ jumped' \in [Gates -> SUBSET Keys]
        /\ lost' \in [Gates -> SUBSET Keys]
        /\ \A h \in Gates \ {g} : /\ mem'[h] = mem[h] /\ jumped'[h] = jumped[h]
                                  /\ lost'[h] = lost[h]
        /\ Knows(g)' /\ Synced(g)'
    <2>1. CASE refresh_from_log(g)
      <3>1. /\ mem' = [mem EXCEPT ![g] = Replay(mem[g], offset[g])]
            /\ jumped' = [jumped EXCEPT ![g] = {k \in jumped[g] : Applied(k, offset[g]) = {}}]
            /\ lost' = [lost EXCEPT ![g] = {k \in lost[g] : Applied(k, offset[g]) = {}}]
        BY <2>1 DEF refresh_from_log
      <3>2. /\ mem' \in [Gates -> View] /\ mem'[g] = Replay(mem[g], offset[g])
            /\ \A h \in Gates \ {g} : mem'[h] = mem[h]
        BY <1>1, <1>5, <3>1 DEF TypeOK
      <3>3. /\ jumped' \in [Gates -> SUBSET Keys] /\ lost' \in [Gates -> SUBSET Keys]
            /\ jumped'[g] = {k \in jumped[g] : Applied(k, offset[g]) = {}}
            /\ lost'[g] = {k \in lost[g] : Applied(k, offset[g]) = {}}
            /\ \A h \in Gates \ {g} : jumped'[h] = jumped[h] /\ lost'[h] = lost[h]
        BY <1>1, <3>1 DEF TypeOK
      <3>4. Knows(g)' /\ Synced(g)'
        BY <1>1, <1>2, <1>4, <3>2, <3>3, ReaderSynced DEF GateOK
      <3>5. QED
        BY <3>2, <3>3, <3>4
    <2>2. CASE Restart(g)
      <3>1. mem' = [mem EXCEPT ![g] = Recovered] /\ UNCHANGED <<jumped, lost>>
        BY <2>2 DEF Restart
      <3>2. /\ mem' \in [Gates -> View] /\ mem'[g] = Recovered
            /\ \A h \in Gates \ {g} : mem'[h] = mem[h]
        BY <1>1, <1>5, <3>1 DEF TypeOK
      <3>3. Knows(g)' /\ Synced(g)'
        BY <1>1, <1>2, <1>4, <3>2, ReaderSynced
      <3>4. QED
        BY <1>1, <3>1, <3>2, <3>3 DEF TypeOK
    <2>3. QED
      BY <2>1, <2>2
  <1>8. TypeOK'
    <2>1. \A h \in Gates : offset[h] <= Len(log) /\ offset[h] \in Nat
      BY <1>1 DEF TypeOK
    <2>2. \A h \in Gates : offset'[h] <= Len(log')
      BY <1>2, <1>4, <2>1
    <2>3. QED
      BY <1>1, <1>2, <1>3, <1>4, <1>7, <2>2 DEF TypeOK
  <1>9. QED
    <2>1. LogGrows
      BY <1>2 DEF LogGrows
    <2>2. Wrote(g)'
      BY <1>6 DEF Wrote
    <2>3. QED
      BY <1>3, <1>4, <1>7, <1>8, <2>1, <2>2, OneGate DEF Others, GateOK

\* A process that dies forgets its store.
LEMMA CrashStep ==
    ASSUME Inv, NEW g \in Gates, Crash(g)
    PROVE  Inv'
  <1>1. /\ TypeOK /\ Len(log) \in Nat /\ MaxFaults \in Nat /\ MaxLog \in Nat
        /\ Empty \in View /\ \A k \in Keys : Empty[k] = "absent"
    BY Entries, ControlAssumption DEF Inv, ControlAssumption, Empty, View, State
  <1>2. LogGrows
    BY DEF Crash, LogGrows
  <1>3. /\ mem' \in [Gates -> View] /\ mem'[g] = Empty
        /\ offset' \in [Gates -> 0..MaxLog] /\ offset'[g] = 0
        /\ writing' \in [Gates -> 0..MaxLog] /\ writing'[g] = 0
        /\ \A h \in Gates \ {g} : /\ mem'[h] = mem[h] /\ offset'[h] = offset[h]
                                  /\ writing'[h] = writing[h]
    BY <1>1 DEF Crash, TypeOK
  <1>4. /\ jumped' \in [Gates -> SUBSET Keys] /\ lost' \in [Gates -> SUBSET Keys]
        /\ \A h \in Gates \ {g} : jumped'[h] = jumped[h] /\ lost'[h] = lost[h]
    BY <1>1 DEF Crash, TypeOK
  <1>5. \A k : LastSays(k, 0)' = "absent"
    BY DEF LastSays, About
  <1>6. GateOK(g)'
    BY <1>1, <1>3, <1>5 DEF GateOK, Knows, Synced, Wrote
  <1>7. TypeOK'
    <2>1. log' \in Seq(Snapshot \cup {Torn}) /\ Len(log') <= MaxLog
          /\ Len(log) <= Len(log') /\ Len(log') \in Nat
      BY <1>1, <1>2, Grown
    <2>2. \A h \in Gates : offset'[h] <= Len(log')
      <3>1. \A h \in Gates : offset[h] <= Len(log) /\ offset[h] \in Nat
        BY <1>1 DEF TypeOK
      <3>2. PICK m \in Nat : m = Len(log') /\ Len(log) <= m
        BY <2>1
      <3>3. \A h \in Gates : offset'[h] = 0 \/ offset'[h] = offset[h]
        BY <1>3
      <3>4. QED
        BY <1>1, <3>1, <3>2, <3>3
    <2>3. faults' \in 0..MaxFaults /\ up' \subseteq Gates /\ oob' = oob
      BY <1>1 DEF Crash, Fault, TypeOK
    <2>4. asking' \in [Gates -> Keys \cup {None}]
      BY <1>1 DEF Crash, TypeOK
    <2>5. QED
      BY <1>1, <1>3, <1>4, <2>1, <2>2, <2>3, <2>4 DEF TypeOK
  <1>8. \A h \in Gates \ {g} : h \in up => h \in up'
    BY DEF Crash
  <1>9. QED
    BY <1>2, <1>3, <1>4, <1>6, <1>7, <1>8, OneGate DEF Others

\* Every step keeps the invariant.
LEMMA StepInv == Inv /\ [Next]_vars => Inv'
  <1> SUFFICES ASSUME Inv, [Next]_vars PROVE Inv'
    OBVIOUS
  <1>1. /\ asking \in [Gates -> Keys \cup {None}] /\ up \subseteq Gates
        /\ oob \in OobCall \cup {None} /\ faults \in 0..MaxFaults
        /\ MaxFaults \in Nat
    BY ControlAssumption DEF ControlAssumption, Inv, TypeOK
  <1>2. Decisions \subseteq Terminal /\ Terminal \subseteq State \ {"absent"}
    BY DEF Decisions, Terminal, State
  <1>3. ASSUME NEW g \in Gates, NEW k \in Keys, Ask(g, k) PROVE Inv'
    <2>1. /\ UNCHANGED <<up, offset, oob, jumped>> /\ g \in up /\ writing[g] = 0
          /\ asking' \in [Gates -> Keys \cup {None}]
      BY <1>1, <1>3 DEF Ask, Ready
    <2>2. CASE Write(g, k, "pending")
      <3>1. "pending" \in State \ {"absent"}
        BY DEF State
      <3>2. QED
        BY <2>1, <2>2, <3>1, WriteStep
    <2>3. CASE NoWrite
      BY <1>1, <2>1, <2>3, StoresKept DEF NoWrite, LogGrows
    <2>4. QED
      BY <1>3, <2>2, <2>3 DEF Ask
  <1>4. ASSUME NEW g \in Gates, NEW s \in Terminal, Settle(g, s) PROVE Inv'
    <2>1. /\ UNCHANGED <<up, offset, oob, jumped>> /\ g \in up /\ writing[g] = 0
          /\ asking' \in [Gates -> Keys \cup {None}]
          /\ asking[g] \in Keys
      BY <1>1, <1>4 DEF Settle, Ready
    <2>2. CASE Write(g, asking[g], s)
      BY <1>2, <2>1, <2>2, WriteStep
    <2>3. CASE NoWrite
      BY <1>1, <2>1, <2>3, StoresKept DEF NoWrite, LogGrows
    <2>4. QED
      BY <1>4, <2>2, <2>3 DEF Settle, settle
  <1>5. ASSUME NEW g \in Gates, Abandon(g) PROVE Inv'
    BY <1>1, <1>5, StoresKept DEF Abandon, LogGrows
  <1>6. ASSUME NEW g \in Gates, refresh_from_log(g) \/ Restart(g) PROVE Inv'
    BY <1>6, ReadStep
  <1>7. ASSUME NEW g \in Gates, Crash(g) PROVE Inv'
    BY <1>7, CrashStep
  <1>8. ASSUME NEW k \in Keys, NEW d \in Decisions, OobOpen(k, d) PROVE Inv'
    <2>1. Recovered \in View
      <3>1. 0 \in 0..Len(log) /\ Empty \in View /\ TypeOK
        BY Entries DEF Inv, Empty, View, State
      <3>2. QED
        BY <3>1, ReplayType DEF Recovered
    <2>2. oob' \in OobCall
      BY <1>8, <2>1 DEF OobOpen, OobCall
    <2>3. QED
      BY <1>1, <1>8, <2>2, StoresKept DEF OobOpen, LogGrows
  <1>9. CASE OobResolve
    <2>1. oob.key \in Keys /\ oob.decision \in Decisions
      BY <1>1, <1>9 DEF OobResolve, OobCall
    <2>2. Entry(oob.key, oob.decision) \in Snapshot
      BY <1>2, <2>1 DEF Entry, Snapshot
    <2>3. LogGrows
      BY <1>9, <2>2 DEF OobResolve, LogGrows
    <2>4. faults' \in 0..MaxFaults
      BY <1>1, <1>9 DEF OobResolve, Fault
    <2>5. QED
      BY <1>1, <1>9, <2>3, <2>4, StoresKept DEF OobResolve
  <1>10. ASSUME NEW g \in Gates, Stat(g) PROVE Inv'
    BY <1>10, StatStep
  <1>11. CASE UNCHANGED vars
    BY <1>1, <1>11, StoresKept DEF vars, LogGrows
  <1>12. QED
    BY <1>3, <1>4, <1>5, <1>6, <1>7, <1>8, <1>9, <1>10, <1>11 DEF Next

\* The invariant holds throughout.
LEMMA SpecInv == Spec => []Inv
  BY InitInv, StepInv, PTL DEF Spec

\* The stores and the log keep their types; no offset lies behind the end of
\* the file.
THEOREM StoreTypeCorrect == Spec => []TypeOK
  <1>1. Inv => TypeOK
    BY DEF Inv
  <1>2. QED
    BY <1>1, SpecInv, PTL

---------------------------------------------------------------------------
(* What a restart recovers and a refresh reads                             *)

\* A snapshot that is not glued is applied by a fresh store.
LEMMA InvSurvive == Inv => RequestsSurviveRestart
  <1> DEFINE about(k) == {i \in 1..Len(log) : log[i] # Torn /\ log[i].key = k}
  <1> SUFFICES ASSUME Inv, NEW g \in up, NEW k \in Keys, mem[g][k] # "absent",
                      ~((about(k) # {} \/ k \in lost[g]) /\ \A i \in about(k) : Glued(i))
               PROVE  Recovered[k] # "absent"
    BY DEF RequestsSurviveRestart
  <1>1. TypeOK /\ Len(log) \in Nat
    BY Entries DEF Inv
  <1>2. about(k) # {} \/ k \in lost[g]
    BY DEF Inv, TypeOK, GateOK, Knows, About
  <1>3. PICK i \in about(k) : ~Glued(i)
    BY <1>2
  <1>4. i \in Applied(k, 0) /\ Applied(k, 0) \in SUBSET (1..Len(log))
    BY <1>1, <1>3 DEF Applied, Parses, Glued
  <1>5. Max(Applied(k, 0)) \in Applied(k, 0)
    BY <1>1, <1>4, LastAbout
  <1>6. PICK j \in 1..Len(log) : j = Max(Applied(k, 0)) /\ log[j] # Torn
    BY <1>4, <1>5 DEF Applied, Parses
  <1>7. log[j].state # "absent"
    BY <1>1, <1>6, Entries DEF Snapshot
  <1>8. QED
    BY <1>4, <1>6, <1>7 DEF Recovered, Replay

\* persist and _replay: what a running gate knows is recovered by a restart, at
\* least as a pending request, unless torn writes swallowed all of it or the
\* gate's append failed and nobody else wrote about the request.
THEOREM RequestsAreDurable == Spec => []RequestsSurviveRestart
  BY SpecInv, InvSurvive, PTL

\* A refresh in a state of the invariant catches up.
LEMMA StepCatchesUp ==
    Inv /\ [Next]_vars =>
        [\A g \in Gates : refresh_from_log(g) =>
            \A k \in Keys :
              \/ mem'[g][k] = Recovered[k]
              \/ k \in jumped[g] \cup lost[g] /\ Applied(k, offset[g]) = {}
              \/ \E i \in 1..Len(log) : Glued(i) /\ log[i].key = k]_vars
  <1> SUFFICES ASSUME Inv, NEW g \in Gates, refresh_from_log(g), NEW k \in Keys,
                      k \notin jumped[g] \cup lost[g] \/ Applied(k, offset[g]) # {},
                      ~\E i \in 1..Len(log) : Glued(i) /\ log[i].key = k
               PROVE  mem'[g][k] = Recovered[k]
    OBVIOUS
  <1>1. TypeOK /\ Len(log) \in Nat
    BY Entries DEF Inv
  <1>2. PICK o \in 0..Len(log) : o = offset[g]
    BY <1>1 DEF TypeOK
  <1>3. mem'[g] = Replay(mem[g], o) /\ mem[g] \in View
    BY <1>1, <1>2 DEF refresh_from_log, TypeOK
  <1>4. NoneGlued(k, Len(log)) /\ NoneGlued(k, o)
    BY <1>1, <1>2 DEF NoneGlued, About
  <1>5. mem[g][k] = LastSays(k, o) \/ Applied(k, o) # {}
    <2>1. Synced(g)
      BY DEF Inv, GateOK
    <2>2. Behind(g, k) => Applied(k, o) # {}
      BY <1>1, <1>2, <1>4, AppliedAbout DEF Behind
    <2>3. QED
      BY <1>2, <1>4, <2>1, <2>2 DEF Synced
  <1>6. Replay(mem[g], o)[k] = LastSays(k, Len(log))
    BY <1>1, <1>2, <1>3, <1>4, <1>5, ReplaySyncs
  <1>7. Recovered[k] = LastSays(k, Len(log))
    BY <1>1, <1>4, RecoveredSays
  <1>8. QED
    BY <1>3, <1>6, <1>7

\* refresh_from_log: a gate that jumped over nothing, lost nothing and met no
\* torn write, or finds something new, knows what a fresh store would recover.
THEOREM RefreshIsComplete == Spec => RefreshCatchesUp
  BY SpecInv, StepCatchesUp, PTL DEF Spec, RefreshCatchesUp

---------------------------------------------------------------------------
(* Decisions                                                               *)

\* An entry that is torn or about another request changes nothing that a fresh
\* store recovers of k.
LEMMA OtherEntry ==
    ASSUME TypeOK, NEW x, log' = Append(log, x), NEW k \in Keys,
           x = Torn \/ x.key # k
    PROVE  Recovered'[k] = Recovered[k]
  <1>1. PICK n \in Nat : n = Len(log)
    BY Entries
  <1>2. /\ Len(log') = n + 1 /\ log'[n + 1] = x
        /\ \A i \in 1..n : log'[i] = log[i]
    BY <1>1 DEF TypeOK
  <1>3. Applied(k, 0)' = Applied(k, 0)
    BY <1>1, <1>2 DEF Applied, Parses
  <1>4. CASE Applied(k, 0) = {}
    BY <1>3, <1>4 DEF Recovered, Replay, Empty
  <1>5. CASE Applied(k, 0) # {}
    <2>1. Applied(k, 0) \in SUBSET (1..n)
      BY <1>1 DEF Applied
    <2>2. Max(Applied(k, 0)) \in 1..n
      BY <1>5, <2>1, LastAbout
    <2>3. QED
      BY <1>2, <1>3, <1>5, <2>2 DEF Recovered, Replay
  <1>6. QED
    BY <1>4, <1>5

\* Steps that leave the log alone recover the same.
LEMMA SameLog ==
    ASSUME log' = log
    PROVE  Recovered' = Recovered
  BY DEF Recovered, Replay, Applied, Parses, Empty

\* Only a store that takes a request for open writes a decision about it.
LEMMA StepBlind ==
    Inv /\ [Next]_vars =>
        [\A k \in Keys :
            Recovered[k] \in Terminal /\ Recovered'[k] # Recovered[k] =>
              \/ \E g \in up : mem[g][k] \notin Terminal /\ mem'[g] # mem[g]
              \/ oob # None /\ oob.key = k /\ oob.view[k] = "pending" /\ oob' = None]_vars
  <1> SUFFICES ASSUME Inv, [Next]_vars, NEW k \in Keys, Recovered'[k] # Recovered[k]
               PROVE  \/ \E g \in up : mem[g][k] \notin Terminal /\ mem'[g] # mem[g]
                      \/ oob # None /\ oob.key = k /\ oob.view[k] = "pending" /\ oob' = None
    OBVIOUS
  <1>1. TypeOK
    BY DEF Inv
  <1>2. log' # log
    BY SameLog
  <1>3. ASSUME NEW g \in up, NEW j \in Keys, NEW s \in State \ {"absent"},
               Write(g, j, s), mem[g][j] \notin Terminal, s # mem[g][j]
        PROVE  mem[g][k] \notin Terminal /\ mem'[g] # mem[g]
    <2>1. /\ g \in Gates /\ mem' = [mem EXCEPT ![g][j] = s]
          /\ log' = Append(log, Entry(j, s)) \/ log' = Append(log, Torn)
      BY <1>1, <1>2, <1>3 DEF Write, persist, Appended, AppendFails, TypeOK
    <2>2. j = k
      BY <1>1, <2>1, OtherEntry DEF Entry
    <2>3. mem'[g][j] = s
      BY <1>1, <2>1 DEF TypeOK, View
    <2>4. QED
      BY <1>3, <2>2, <2>3
  <1>4. ASSUME NEW g \in Gates, NEW j \in Keys, Ask(g, j)
        PROVE  \E h \in up : mem[h][k] \notin Terminal /\ mem'[h] # mem[h]
    BY <1>2, <1>3, <1>4 DEF Ask, Ready, NoWrite, State, Terminal, Decisions
  <1>5. ASSUME NEW g \in Gates, NEW s \in Terminal, Settle(g, s)
        PROVE  \E h \in up : mem[h][k] \notin Terminal /\ mem'[h] # mem[h]
    <2>1. asking[g] \in Keys /\ g \in up
      BY <1>1, <1>5 DEF Settle, Ready, TypeOK
    <2>2. Write(g, asking[g], s) /\ mem[g][asking[g]] = "pending"
      BY <1>2, <1>5 DEF Settle, settle, NoWrite
    <2>3. s \in State \ {"absent"} /\ s # "pending" /\ "pending" \notin Terminal
      BY DEF State, Terminal, Decisions
    <2>4. QED
      BY <1>3, <2>1, <2>2, <2>3
  <1>6. CASE OobResolve
    <2>1. /\ oob # None /\ oob' = None /\ oob.view[oob.key] = "pending"
          /\ log' = Append(log, Entry(oob.key, oob.decision)) \/ log' = Append(log, Torn)
      BY <1>2, <1>6 DEF OobResolve
    <2>2. oob.key = k
      BY <1>1, <2>1, OtherEntry DEF Entry
    <2>3. QED
      BY <2>1, <2>2
  <1>7. ASSUME NEW g \in Gates, Crash(g) PROVE FALSE
    BY <1>1, <1>2, <1>7, OtherEntry DEF Crash
  <1>8. QED
    BY <1>2, <1>4, <1>5, <1>6, <1>7
    DEF Next, Stat, Abandon, refresh_from_log, Restart, OobOpen, vars

\* resolve_request, cancel_request and resolve_pending: a decision in the log
\* is changed only by a store that has not seen it.
THEOREM DecisionsStand == Spec => DecisionsChangeOnlyBlindly
  BY SpecInv, StepBlind, PTL DEF Spec, DecisionsChangeOnlyBlindly
=============================================================================
