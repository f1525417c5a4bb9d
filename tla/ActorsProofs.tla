----------------------------- MODULE ActorsProofs -----------------------------
(***************************************************************************)
(* Actors' safety, for any number of processes, threads, messages and      *)
(* timers and with no bound a limit: inboxes are numbered without gap or   *)
(* double, messages take effect once, timers are delivered as often as     *)
(* they were scheduled.                                                    *)
(***************************************************************************)
EXTENDS Actors, FiniteSetTheorems, SequenceTheorems, WellFoundedInduction, TLAPS

USE ActorsAssumption, ActorsContract

----------------------------------------------------------------------------
(* The inductive invariant: what the world holds ...                       *)

Answers == [by : Senders, actor : Procs, seq : Seqs, body : Bodies]
Steps == [actor : Procs, seq : Seqs, body : Bodies]

(* Nothing was ever filed for process a. *)
Blank(a) ==
  /\ \A n \in Seqs : world[CounterRow(a, n)] = 0
  /\ \A n \in Seqs, b \in Bodies : world[InboxRow(a, n, b)] = 0

(* The inbox of a holds one message under each number below k. *)
NumberedTo(a, k) ==
  /\ \A m \in Seqs : world[CounterRow(a, m)] = IF m = k THEN 1 ELSE 0
  /\ \A n \in Seqs : n < k =>
       \E b \in Bodies : \A c \in Bodies : world[InboxRow(a, n, c)] = IF c = b THEN 1 ELSE 0
  /\ \A n \in Seqs, b \in Bodies : n >= k => world[InboxRow(a, n, b)] = 0

Numbered(a) == \E k \in Seqs : NumberedTo(a, k)
Numbering == \A a \in Procs : Numbered(a) \/ (Blank(a) /\ a \notin Seeded)

(* The cursor of a stands at c: one row, or none for 0. *)
CursorAt(a, c) ==
  \A n \in Seqs : world[CursorRow(a, n)] = IF n = c /\ n # 0 THEN 1 ELSE 0
Cursors == \A a \in Procs : \E c \in Seqs : CursorAt(a, c)

(* ... and where every thread is, with what it read still true of the      *)
(* world or required by its patch.                                         *)

SealedAt(a, k, b) ==
  [pre |-> {CounterRow(a, k)}, dels |-> {CounterRow(a, k)},
   adds |-> {InboxRow(a, k, b), CounterRow(a, k + 1)}]

SeedPatch(a) == [NoPatch EXCEPT !.adds = {CounterRow(a, 0)}]

FireAt(t, k) ==
  [SealedAt(Target[t], k, t) EXCEPT !.pre = @ \cup {TimerRow(t)}, !.dels = @ \cup {TimerRow(t)}]

(* A step's patch, as it was built when the thing was there or not. *)
StepAt(a, n, b, takes) ==
  [pre |-> IF takes THEN {Thing} ELSE {},
   dels |-> (IF takes THEN {Thing} ELSE {}) \cup (IF n > 0 THEN {CursorRow(a, n)} ELSE {}),
   adds |-> {TimerRow(t) : t \in Schedules[b]} \cup (IF takes THEN {Got(a)} ELSE {})
              \cup {CursorRow(a, n + 1)}]

Sending(s, a, b) == call[s] = <<a, b>> /\ Numbered(a)

Seeding(s, a) ==
  /\ pc[s] = "seed" /\ patch[s] = SeedPatch(a)
  /\ a \in SeedLater /\ Blank(a)
  /\ \A o \in Senders : pc[o] = "seed" /\ patch[o] = SeedPatch(a) => o = s

SenderOK(s) ==
  \/ pc[s] = "idle"
  \/ pc[s] = "number" /\ \E a \in Procs, b \in Commands : Sending(s, a, b)
  \/ /\ pc[s] = "commit" /\ num[s] < MaxSeq
     /\ \E a \in Procs, b \in Commands :
          Sending(s, a, b) /\ patch[s] = SealedAt(a, num[s], b)
  \/ \E a \in Procs : Seeding(s, a)

Placed(d, n) == num[d] = n /\ CursorAt(Drives[d], n)

DriverOK(d) ==
  \/ pc[d] \in {"idle", "position"}
  \/ pc[d] = "prepare" /\ \E n \in Seqs : Placed(d, n)
  \/ /\ pc[d] = "commit"
     /\ \E n \in Seqs, b \in Bodies, takes \in BOOLEAN :
          /\ Placed(d, n)
          /\ call[d] = <<Drives[d], b>>
          /\ world[InboxRow(Drives[d], n, b)] > 0
          /\ patch[d] = StepAt(Drives[d], n, b, takes)

FirerOK(f) ==
  /\ \A t \in due[f] : Due[t] <= clock
  /\ \/ pc[f] = "idle"
     \/ pc[f] \in {"live", "number"} /\ due[f] # {}
     \/ /\ pc[f] = "commit" /\ due[f] # {}
        /\ \E k \in Seqs : k < MaxSeq /\ patch[f] = FireAt(Current(f), k)

(* A thread that may try again has attempts left. *)
MayTry(th) == pc[th] \notin {"idle", "seed"} => left[th] > 0

PCs == {"idle", "number", "commit", "seed", "position", "prepare", "live"}
PatchRecord == [pre : SUBSET RowSet, adds : SUBSET RowSet, dels : SUBSET RowSet]

TypeOK ==
  /\ world \in [RowSet -> Int]
  /\ clock \in Nat
  /\ pc \in [Threads -> PCs]
  /\ call \in [Threads -> {NoCall} \cup (Procs \X Bodies)]
  /\ num \in [Threads -> Seqs]
  /\ patch \in [Threads -> PatchRecord]
  /\ left \in [Threads -> 0 .. MaxTries]
  /\ due \in [Firers -> SUBSET Timers]
  /\ sends \in Nat /\ crashes \in Nat
  /\ answered \subseteq Answers
  /\ done \in Seq(Steps)

ThreadsOK ==
  /\ \A s \in Senders : SenderOK(s)
  /\ \A d \in Drivers : DriverOK(d)
  /\ \A f \in Firers : FirerOK(f)
  /\ \A th \in Threads : MayTry(th)

WorldOK == Numbering /\ Cursors /\ AnswersStand /\ ProcessedOnce /\ OneTaker /\ TimersConserved

IInv == TypeOK /\ ThreadsOK /\ WorldOK

----------------------------------------------------------------------------
(* Rows of different relations, or with different columns, are different.  *)

(* A row's relation and columns can be read off it. *)
LEMMA InboxColumns ==
  ASSUME NEW a, NEW n, NEW b
  PROVE  /\ InboxRow(a, n, b)[1] = "inbox" /\ InboxRow(a, n, b)[2] = a
         /\ InboxRow(a, n, b)[3] = n /\ InboxRow(a, n, b)[4] = b
  BY DEF InboxRow

LEMMA OtherColumns ==
  ASSUME NEW a, NEW n, NEW t
  PROVE  /\ CursorRow(a, n)[1] = "cursor" /\ CursorRow(a, n)[2] = a /\ CursorRow(a, n)[3] = n
         /\ CounterRow(a, n)[1] = "seq" /\ CounterRow(a, n)[2] = a /\ CounterRow(a, n)[3] = n
         /\ TimerRow(t)[1] = "timer" /\ TimerRow(t)[2] = t
         /\ Thing[1] = "thing"
         /\ Got(a)[1] = "got" /\ Got(a)[2] = a
  BY DEF CursorRow, CounterRow, TimerRow, Thing, Got

LEMMA InboxApart ==
  ASSUME NEW a, NEW n, NEW b, NEW a2, NEW n2, NEW b2, NEW t
  PROVE  /\ InboxRow(a, n, b) = InboxRow(a2, n2, b2) <=> a = a2 /\ n = n2 /\ b = b2
         /\ InboxRow(a, n, b) # CursorRow(a2, n2)
         /\ InboxRow(a, n, b) # CounterRow(a2, n2)
         /\ InboxRow(a, n, b) # TimerRow(t)
         /\ InboxRow(a, n, b) # Thing
         /\ InboxRow(a, n, b) # Got(a2)
<1>1. InboxRow(a, n, b) = InboxRow(a2, n2, b2) => a = a2 /\ n = n2 /\ b = b2
  BY InboxColumns
<1>2. /\ InboxRow(a, n, b) # CursorRow(a2, n2)
      /\ InboxRow(a, n, b) # CounterRow(a2, n2)
      /\ InboxRow(a, n, b) # TimerRow(t)
      /\ InboxRow(a, n, b) # Thing
      /\ InboxRow(a, n, b) # Got(a2)
  BY InboxColumns, OtherColumns
<1> QED
  BY <1>1, <1>2

LEMMA CounterApart ==
  ASSUME NEW a, NEW n, NEW a2, NEW n2, NEW t
  PROVE  /\ CounterRow(a, n) = CounterRow(a2, n2) <=> a = a2 /\ n = n2
         /\ CounterRow(a, n) # CursorRow(a2, n2)
         /\ CounterRow(a, n) # TimerRow(t)
         /\ CounterRow(a, n) # Thing
         /\ CounterRow(a, n) # Got(a2)
<1>1. CounterRow(a, n) = CounterRow(a2, n2) => a = a2 /\ n = n2
  BY OtherColumns
<1>2. /\ CounterRow(a, n) # CursorRow(a2, n2)
      /\ CounterRow(a, n) # TimerRow(t)
      /\ CounterRow(a, n) # Thing
      /\ CounterRow(a, n) # Got(a2)
  BY OtherColumns
<1> QED
  BY <1>1, <1>2

LEMMA CursorApart ==
  ASSUME NEW a, NEW n, NEW a2, NEW n2, NEW t
  PROVE  /\ CursorRow(a, n) = CursorRow(a2, n2) <=> a = a2 /\ n = n2
         /\ CursorRow(a, n) # TimerRow(t)
         /\ CursorRow(a, n) # Thing
         /\ CursorRow(a, n) # Got(a2)
<1>1. CursorRow(a, n) = CursorRow(a2, n2) => a = a2 /\ n = n2
  BY OtherColumns
<1>2. /\ CursorRow(a, n) # TimerRow(t)
      /\ CursorRow(a, n) # Thing
      /\ CursorRow(a, n) # Got(a2)
  BY OtherColumns
<1> QED
  BY <1>1, <1>2

LEMMA TimerApart ==
  ASSUME NEW t, NEW u, NEW a, NEW a2
  PROVE  /\ TimerRow(t) = TimerRow(u) <=> t = u
         /\ TimerRow(t) # Thing
         /\ TimerRow(t) # Got(a)
         /\ Thing # Got(a)
         /\ Got(a) = Got(a2) <=> a = a2
<1>1. TimerRow(t) = TimerRow(u) => t = u
  BY OtherColumns
<1>2. Got(a) = Got(a2) => a = a2
  BY OtherColumns
<1>3. TimerRow(t) # Thing /\ TimerRow(t) # Got(a) /\ Thing # Got(a)
  BY OtherColumns
<1> QED
  BY <1>1, <1>2, <1>3

LEMMA RowsIn ==
  /\ \A a \in Procs, n \in Seqs :
       /\ CursorRow(a, n) \in RowSet /\ CounterRow(a, n) \in RowSet
       /\ \A b \in Bodies : InboxRow(a, n, b) \in RowSet
  /\ \A a \in Procs : Got(a) \in RowSet
  /\ \A t \in Timers : TimerRow(t) \in RowSet
  /\ Thing \in RowSet
  BY DEF RowSet, InboxRows

LEMMA SeqsType == Seqs \subseteq Nat /\ 0 \in Seqs /\ \A n \in Seqs : n <= MaxSeq
  BY DEF Seqs

LEMMA NextSeq == ASSUME NEW n \in Seqs, n < MaxSeq PROVE n + 1 \in Seqs
  BY DEF Seqs

----------------------------------------------------------------------------
(* What a thread reads where the invariant holds.                          *)

(* The cursor that is there is the one that is read. *)
LEMMA PositionIs == \A a \in Procs, c \in Seqs : CursorAt(a, c) => Position(a) = c
<1> SUFFICES ASSUME NEW a \in Procs, NEW c \in Seqs, CursorAt(a, c)
             PROVE  Position(a) = c
  OBVIOUS
<1> DEFINE rows == {n \in Seqs : world[CursorRow(a, n)] > 0}
<1>0. \A n \in Seqs : IF n = c /\ n # 0 THEN world[CursorRow(a, n)] = 1
                                         ELSE world[CursorRow(a, n)] = 0
  BY DEF CursorAt
<1>1. rows = IF c = 0 THEN {} ELSE {c}
  BY <1>0
<1>2. CASE c = 0
  BY <1>1, <1>2 DEF Position
<1>3. CASE c # 0
  <2>1. rows = {c} /\ c <= c
    BY <1>1, <1>3, SeqsType
  <2>2. (CHOOSE n \in rows : \A m \in rows : n <= m) = c
    BY <2>1
  <2> QED
    BY <2>1, <2>2 DEF Position
<1> QED
  BY <1>2, <1>3

LEMMA PositionNext == (\A a \in Procs, c \in Seqs : CursorAt(a, c) => Position(a) = c)'
  BY PositionIs, PTL

(* Of a numbered inbox the one counter row is read. *)
LEMMA StartIs ==
  ASSUME NEW a \in Procs, NEW k \in Seqs, NumberedTo(a, k)
  PROVE  Counters(a) = {k} /\ Start(a) = k
<1>0. \A n \in Seqs : IF n = k THEN world[CounterRow(a, n)] = 1
                               ELSE world[CounterRow(a, n)] = 0
  BY DEF NumberedTo
<1>1. Counters(a) = {k}
  BY <1>0 DEF Counters
<1>2. k <= k
  BY SeqsType
<1>3. (CHOOSE n \in Counters(a) : \A m \in Counters(a) : m <= n) = k
  BY <1>1, <1>2
<1> QED
  BY <1>1, <1>3 DEF Start

(* An inbox with a counter is numbered, one without is blank. *)
LEMMA CountersNumbered ==
  ASSUME Numbering, NEW a \in Procs
  PROVE  /\ Counters(a) # {} => Numbered(a)
         /\ Counters(a) = {} => Blank(a)
<1>1. CASE Numbered(a)
  <2>1. PICK k \in Seqs : NumberedTo(a, k)
    BY <1>1 DEF Numbered
  <2> QED
    BY <1>1, <2>1, StartIs
<1>2. CASE Blank(a)
  <2>1. \A n \in Seqs : world[CounterRow(a, n)] = 0
    BY <1>2 DEF Blank
  <2>2. Counters(a) = {}
    BY <2>1 DEF Counters
  <2> QED
    BY <1>2, <2>2
<1> QED
  BY <1>1, <1>2 DEF Numbering

(* The patch that numbers a message is built of the counter there is. *)
LEMMA SealedIs ==
  ASSUME NEW a \in Procs, NEW b, Numbered(a), Room(a)
  PROVE  \E k \in Seqs : /\ k < MaxSeq /\ Start(a) = k
                         /\ Sealed(a, b) = SealedAt(a, k, b)
<1>1. PICK k \in Seqs : NumberedTo(a, k)
  BY DEF Numbered
<1>2. Counters(a) = {k} /\ Start(a) = k
  BY <1>1, StartIs
<1> QED
  BY <1>2 DEF Sealed, SealedAt, Room

(* Some timer is due first. *)
LEMMA EarliestThere ==
  ASSUME NEW T \in SUBSET Timers, T # {}
  PROVE  Earliest(T) # {} /\ Earliest(T) \subseteq T
<1> DEFINE N == {Due[t] : t \in T}
           R == OpToRel(<, Nat)
<1>1. N \subseteq Nat /\ N # {}
  OBVIOUS
<1>2. IsWellFoundedOn(R, Nat)
  BY NatLessThanWellFounded
<1>3. \E x \in N : \A y \in N : ~ (<<y, x>> \in R)
  <2> HIDE DEF R, N
  <2> QED BY <1>1, <1>2, WFMin
<1>4. \A x, y \in Nat : <<y, x>> \in R <=> y < x
  BY DEF OpToRel
<1>5. PICK x \in N : \A y \in N : ~ (y < x)
  BY <1>1, <1>3, <1>4
<1>6. PICK t \in T : Due[t] = x
  OBVIOUS
<1>7. ASSUME NEW u \in T PROVE Due[t] <= Due[u]
  <2>1. Due[u] \in N
    OBVIOUS
  <2> HIDE DEF N
  <2> QED BY <1>1, <1>5, <1>6, <2>1
<1> QED
  BY <1>7 DEF Earliest

----------------------------------------------------------------------------
(* What a commit does to the rows, relation by relation.                   *)

InboxesSame ==
  \A a \in Procs, n \in Seqs, b \in Bodies : world'[InboxRow(a, n, b)] = world[InboxRow(a, n, b)]
CountersSame ==
  \A a \in Procs, n \in Seqs : world'[CounterRow(a, n)] = world[CounterRow(a, n)]
CursorsSame ==
  \A a \in Procs, n \in Seqs : world'[CursorRow(a, n)] = world[CursorRow(a, n)]
TimersSame == \A t \in Timers : world'[TimerRow(t)] = world[TimerRow(t)]
ThingSame ==
  world'[Thing] = world[Thing] /\ \A a \in Procs : world'[Got(a)] = world[Got(a)]

(* Message b is filed for a under k, taking the timers T. *)
Filed(a, k, b, T) ==
  /\ \A c \in Procs, n \in Seqs, e \in Bodies : world'[InboxRow(c, n, e)] =
       world[InboxRow(c, n, e)] + IF c = a /\ n = k /\ e = b THEN 1 ELSE 0
  /\ \A c \in Procs, n \in Seqs : world'[CounterRow(c, n)] =
       world[CounterRow(c, n)] + (IF c = a /\ n = k + 1 THEN 1 ELSE 0)
                               - (IF c = a /\ n = k THEN 1 ELSE 0)
  /\ \A t \in Timers : world'[TimerRow(t)] = world[TimerRow(t)] - IF t \in T THEN 1 ELSE 0
  /\ CursorsSame /\ ThingSame

(* The counter of a is seeded. *)
SeededNow(a) ==
  /\ \A c \in Procs, n \in Seqs : world'[CounterRow(c, n)] =
       world[CounterRow(c, n)] + IF c = a /\ n = 0 THEN 1 ELSE 0
  /\ InboxesSame /\ CursorsSame /\ TimersSame /\ ThingSame

(* Process a steps over message b at n. *)
Stepped(a, n, b, takes) ==
  /\ \A c \in Procs, m \in Seqs : world'[CursorRow(c, m)] =
       world[CursorRow(c, m)] + (IF c = a /\ m = n + 1 THEN 1 ELSE 0)
                              - (IF c = a /\ m = n /\ n > 0 THEN 1 ELSE 0)
  /\ \A t \in Timers :
       world'[TimerRow(t)] = world[TimerRow(t)] + IF t \in Schedules[b] THEN 1 ELSE 0
  /\ world'[Thing] = world[Thing] - IF takes THEN 1 ELSE 0
  /\ \A c \in Procs :
       world'[Got(c)] = world[Got(c)] + IF takes /\ c = a THEN 1 ELSE 0
  /\ InboxesSame /\ CountersSame

(* A patch changes the rows it names, each by one. *)
LEMMA AppliedRows ==
  ASSUME TypeOK, NEW p
  PROVE  /\ Applied(world, p) \in [RowSet -> Int]
         /\ \A r \in RowSet :
              Applied(world, p)[r] = world[r] + (IF r \in p.adds THEN 1 ELSE 0)
                                              - (IF r \in p.dels THEN 1 ELSE 0)
<1>1. world \in [RowSet -> Int]
  BY DEF TypeOK
<1>2. DOMAIN world = RowSet
  BY <1>1
<1>3. \A r \in RowSet : world[r] + (IF r \in p.adds THEN 1 ELSE 0)
                                 - (IF r \in p.dels THEN 1 ELSE 0) \in Int
  BY <1>1
<1> QED
  BY <1>2, <1>3 DEF Applied

LEMMA FilingEffect ==
  ASSUME TypeOK, NEW a \in Procs, NEW k \in Seqs, k < MaxSeq, NEW b \in Bodies,
         NEW T \in SUBSET Timers, NEW p,
         p.adds = {InboxRow(a, k, b), CounterRow(a, k + 1)},
         p.dels = {CounterRow(a, k)} \cup {TimerRow(t) : t \in T},
         world' = Applied(world, p)
  PROVE  Filed(a, k, b, T)
<1>1. \A r \in RowSet :
        world'[r] = world[r] + (IF r \in p.adds THEN 1 ELSE 0)
                             - (IF r \in p.dels THEN 1 ELSE 0)
  BY AppliedRows
<1>0. world \in [RowSet -> Int]
  BY DEF TypeOK
<1>2. ASSUME NEW c \in Procs, NEW n \in Seqs, NEW e \in Bodies
      PROVE  world'[InboxRow(c, n, e)] =
               world[InboxRow(c, n, e)] + IF c = a /\ n = k /\ e = b THEN 1 ELSE 0
  <2>1. InboxRow(c, n, e) \in p.adds <=> c = a /\ n = k /\ e = b
    BY InboxApart
  <2>2. InboxRow(c, n, e) \notin p.dels
    BY InboxApart
  <2>3. InboxRow(c, n, e) \in RowSet
    BY RowsIn
  <2> QED
    BY <1>0, <1>1, <2>1, <2>2, <2>3
<1>3. ASSUME NEW c \in Procs, NEW n \in Seqs
      PROVE  world'[CounterRow(c, n)] =
               world[CounterRow(c, n)] + (IF c = a /\ n = k + 1 THEN 1 ELSE 0)
                                       - (IF c = a /\ n = k THEN 1 ELSE 0)
  <2>1. CounterRow(c, n) \in p.adds <=> c = a /\ n = k + 1
    BY InboxApart, CounterApart
  <2>2. CounterRow(c, n) \in p.dels <=> c = a /\ n = k
    BY CounterApart
  <2>3. CounterRow(c, n) \in RowSet
    BY RowsIn
  <2> QED
    BY <1>0, <1>1, <2>1, <2>2, <2>3
<1>4. ASSUME NEW t \in Timers
      PROVE  world'[TimerRow(t)] = world[TimerRow(t)] - IF t \in T THEN 1 ELSE 0
  <2>1. TimerRow(t) \notin p.adds
    BY InboxApart, CounterApart
  <2>2. TimerRow(t) \in p.dels <=> t \in T
    BY CounterApart, TimerApart
  <2>3. TimerRow(t) \in RowSet
    BY RowsIn
  <2> QED
    BY <1>0, <1>1, <2>1, <2>2, <2>3
<1>5. ASSUME NEW c \in Procs, NEW n \in Seqs
      PROVE  world'[CursorRow(c, n)] = world[CursorRow(c, n)]
  <2>1. CursorRow(c, n) \notin p.adds /\ CursorRow(c, n) \notin p.dels
    BY InboxApart, CounterApart, CursorApart
  <2>2. CursorRow(c, n) \in RowSet
    BY RowsIn
  <2> QED
    BY <1>0, <1>1, <2>1, <2>2
<1>6. ThingSame
  <2>1. Thing \notin p.adds /\ Thing \notin p.dels
    BY InboxApart, CounterApart, TimerApart
  <2>2. \A c \in Procs : Got(c) \notin p.adds /\ Got(c) \notin p.dels
    BY InboxApart, CounterApart, TimerApart
  <2>3. world'[Thing] = world[Thing]
    BY <1>0, <1>1, <2>1, RowsIn
  <2>4. ASSUME NEW c \in Procs PROVE world'[Got(c)] = world[Got(c)]
    <3>1. Got(c) \in RowSet
      BY RowsIn
    <3> QED
      BY <1>0, <1>1, <2>2, <3>1
  <2> QED
    BY <2>3, <2>4 DEF ThingSame
<1> QED
  BY <1>2, <1>3, <1>4, <1>5, <1>6 DEF Filed, CursorsSame

LEMMA SeedEffect ==
  ASSUME TypeOK, NEW a \in Procs, world' = Applied(world, SeedPatch(a))
  PROVE  SeededNow(a)
<1> DEFINE p == SeedPatch(a)
<1>1. p.adds = {CounterRow(a, 0)} /\ p.dels = {}
  BY DEF SeedPatch, NoPatch
<1>2. \A r \in RowSet : world'[r] = world[r] + (IF r = CounterRow(a, 0) THEN 1 ELSE 0)
  <2>1. \A r \in RowSet :
          world'[r] = world[r] + (IF r \in p.adds THEN 1 ELSE 0)
                               - (IF r \in p.dels THEN 1 ELSE 0)
    BY AppliedRows
  <2>2. world \in [RowSet -> Int]
    BY DEF TypeOK
  <2> HIDE DEF p
  <2> QED
    BY <1>1, <2>1, <2>2
<1>3. world \in [RowSet -> Int]
  BY DEF TypeOK
<1>4. ASSUME NEW r \in RowSet, r # CounterRow(a, 0) PROVE world'[r] = world[r]
  BY <1>2, <1>3, <1>4
<1>5. ASSUME NEW c \in Procs, NEW n \in Seqs
      PROVE  world'[CounterRow(c, n)] = world[CounterRow(c, n)] + IF c = a /\ n = 0 THEN 1 ELSE 0
  <2>1. CounterRow(c, n) = CounterRow(a, 0) <=> c = a /\ n = 0
    BY CounterApart
  <2>2. CounterRow(c, n) \in RowSet
    BY RowsIn
  <2> QED
    BY <1>2, <2>1, <2>2
<1>6. ASSUME NEW c \in Procs, NEW n \in Seqs, NEW e \in Bodies
      PROVE  world'[InboxRow(c, n, e)] = world[InboxRow(c, n, e)]
  <2>1. InboxRow(c, n, e) \in RowSet
    BY RowsIn
  <2>2. InboxRow(c, n, e) # CounterRow(a, 0)
    BY InboxApart
  <2> QED
    BY <1>4, <2>1, <2>2
<1>7. ASSUME NEW c \in Procs, NEW n \in Seqs
      PROVE  world'[CursorRow(c, n)] = world[CursorRow(c, n)]
  <2>1. CursorRow(c, n) \in RowSet /\ CursorRow(c, n) # CounterRow(a, 0)
    BY RowsIn, CounterApart
  <2> QED
    BY <1>4, <2>1
<1>8. TimersSame
  <2>1. \A t \in Timers : TimerRow(t) \in RowSet /\ TimerRow(t) # CounterRow(a, 0)
    BY RowsIn, CounterApart
  <2> QED
    BY <1>4, <2>1 DEF TimersSame
<1>9. ThingSame
  <2>1. \A c \in Procs : Got(c) \in RowSet /\ Got(c) # CounterRow(a, 0)
    BY RowsIn, CounterApart
  <2>2. Thing \in RowSet /\ Thing # CounterRow(a, 0)
    BY RowsIn, CounterApart
  <2> QED
    BY <1>4, <2>1, <2>2 DEF ThingSame
<1> QED
  BY <1>5, <1>6, <1>7, <1>8, <1>9 DEF SeededNow, InboxesSame, CursorsSame

LEMMA StepEffect ==
  ASSUME TypeOK, NEW a \in Procs, NEW n \in Seqs, NEW b \in Bodies, NEW takes \in BOOLEAN,
         world' = Applied(world, StepAt(a, n, b, takes))
  PROVE  Stepped(a, n, b, takes)
<1> DEFINE p == StepAt(a, n, b, takes)
<1>0. world \in [RowSet -> Int]
  BY DEF TypeOK
<1>1. \A r \in RowSet :
        world'[r] = world[r] + (IF r \in p.adds THEN 1 ELSE 0)
                             - (IF r \in p.dels THEN 1 ELSE 0)
  BY AppliedRows
<1>2. /\ p.dels = (IF takes THEN {Thing} ELSE {}) \cup (IF n > 0 THEN {CursorRow(a, n)} ELSE {})
      /\ p.adds = {TimerRow(t) : t \in Schedules[b]} \cup (IF takes THEN {Got(a)} ELSE {})
                    \cup {CursorRow(a, n + 1)}
  BY DEF StepAt
<1> HIDE DEF p
<1>3. ASSUME NEW c \in Procs, NEW m \in Seqs
      PROVE  world'[CursorRow(c, m)] =
               world[CursorRow(c, m)] + (IF c = a /\ m = n + 1 THEN 1 ELSE 0)
                                      - (IF c = a /\ m = n /\ n > 0 THEN 1 ELSE 0)
  <2>1. CursorRow(c, m) \in p.adds <=> c = a /\ m = n + 1
    BY <1>2, CursorApart
  <2>2. CursorRow(c, m) \in p.dels <=> c = a /\ m = n /\ n > 0
    BY <1>2, CursorApart
  <2>3. CursorRow(c, m) \in RowSet
    BY RowsIn
  <2> QED
    BY <1>0, <1>1, <2>1, <2>2, <2>3
<1>4. ASSUME NEW t \in Timers
      PROVE  world'[TimerRow(t)] = world[TimerRow(t)] + IF t \in Schedules[b] THEN 1 ELSE 0
  <2>1. TimerRow(t) \in p.adds <=> t \in Schedules[b]
    BY <1>2, TimerApart, CursorApart
  <2>2. TimerRow(t) \notin p.dels
    BY <1>2, TimerApart, CursorApart
  <2>3. TimerRow(t) \in RowSet
    BY RowsIn
  <2> QED
    BY <1>0, <1>1, <2>1, <2>2, <2>3
<1>5. world'[Thing] = world[Thing] - IF takes THEN 1 ELSE 0
  <2>1. Thing \notin p.adds
    BY <1>2, TimerApart, CursorApart
  <2>2. Thing \in p.dels <=> takes
    BY <1>2, CursorApart
  <2> QED
    BY <1>0, <1>1, <2>1, <2>2, RowsIn
<1>6. ASSUME NEW c \in Procs
      PROVE  world'[Got(c)] = world[Got(c)] + IF takes /\ c = a THEN 1 ELSE 0
  <2>1. Got(c) \in p.adds <=> takes /\ c = a
    <3>1. Got(c) # CursorRow(a, n + 1) /\ (Got(c) = Got(a) <=> c = a)
      BY TimerApart, CursorApart
    <3>2. \A t : Got(c) # TimerRow(t)
      BY TimerApart
    <3>3. CASE takes
      BY <1>2, <3>1, <3>2, <3>3
    <3>4. CASE ~ takes
      BY <1>2, <3>1, <3>2, <3>4
    <3> QED
      BY <3>3, <3>4
  <2>2. Got(c) \notin p.dels
    BY <1>2, TimerApart, CursorApart
  <2>3. Got(c) \in RowSet
    BY RowsIn
  <2> QED
    BY <1>0, <1>1, <2>1, <2>2, <2>3
<1>7. ASSUME NEW c \in Procs, NEW m \in Seqs, NEW e \in Bodies
      PROVE  world'[InboxRow(c, m, e)] = world[InboxRow(c, m, e)]
  <2>1. InboxRow(c, m, e) \notin p.adds
    BY <1>2, InboxApart
  <2>2. InboxRow(c, m, e) \notin p.dels
    BY <1>2, InboxApart
  <2>3. InboxRow(c, m, e) \in RowSet
    BY RowsIn
  <2> QED
    BY <1>0, <1>1, <2>1, <2>2, <2>3
<1>8. ASSUME NEW c \in Procs, NEW m \in Seqs
      PROVE  world'[CounterRow(c, m)] = world[CounterRow(c, m)]
  <2>1. CounterRow(c, m) \notin p.adds
    BY <1>2, CounterApart
  <2>2. CounterRow(c, m) \notin p.dels
    BY <1>2, CounterApart
  <2>3. CounterRow(c, m) \in RowSet
    BY RowsIn
  <2> QED
    BY <1>0, <1>1, <2>1, <2>2, <2>3
<1> QED
  BY <1>3, <1>4, <1>5, <1>6, <1>7, <1>8 DEF Stepped, InboxesSame, CountersSame

----------------------------------------------------------------------------
(* A message filed under the next number.                                  *)

(* The inbox it is filed in has one message more; no other is disturbed. *)
LEMMA FiledNumbering ==
  ASSUME TypeOK, NEW a \in Procs, NEW k \in Seqs, k < MaxSeq, NumberedTo(a, k),
         NEW b \in Bodies, NEW T, Filed(a, k, b, T)
  PROVE  /\ NumberedTo(a, k + 1)'
         /\ \A c \in Procs, m \in Seqs : c # a /\ NumberedTo(c, m) => NumberedTo(c, m)'
         /\ \A c \in Procs : c # a /\ Blank(c) => Blank(c)'
<1>0. world \in [RowSet -> Int] /\ k + 1 \in Seqs
  BY NextSeq DEF TypeOK
<1>1. ASSUME NEW m \in Seqs
      PROVE  world'[CounterRow(a, m)] = IF m = k + 1 THEN 1 ELSE 0
  <2>1. world[CounterRow(a, m)] = IF m = k THEN 1 ELSE 0
    BY DEF NumberedTo
  <2>2. world'[CounterRow(a, m)] = world[CounterRow(a, m)] + (IF m = k + 1 THEN 1 ELSE 0)
                                                           - (IF m = k THEN 1 ELSE 0)
    BY DEF Filed
  <2> QED
    BY <2>1, <2>2, SeqsType
<1>2. ASSUME NEW n \in Seqs, n < k + 1
      PROVE  \E e \in Bodies : \A c \in Bodies :
               world'[InboxRow(a, n, c)] = IF c = e THEN 1 ELSE 0
  <2>1. \A c \in Bodies : world'[InboxRow(a, n, c)] =
          world[InboxRow(a, n, c)] + IF n = k /\ c = b THEN 1 ELSE 0
    BY DEF Filed
  <2>2. CASE n = k
    <3>1. \A c \in Bodies : world[InboxRow(a, n, c)] = 0
      BY <2>2, SeqsType DEF NumberedTo
    <3>2. \A c \in Bodies : world'[InboxRow(a, n, c)] = IF c = b THEN 1 ELSE 0
      BY <2>1, <2>2, <3>1
    <3> QED
      BY <3>2
  <2>3. CASE n # k
    <3>1. n < k
      BY <1>2, <2>3, SeqsType
    <3>2. PICK e \in Bodies : \A c \in Bodies : world[InboxRow(a, n, c)] = IF c = e THEN 1 ELSE 0
      BY <3>1 DEF NumberedTo
    <3>3. \A c \in Bodies : world'[InboxRow(a, n, c)] = IF c = e THEN 1 ELSE 0
      BY <2>1, <2>3, <3>2
    <3> QED
      BY <3>3
  <2> QED
    BY <2>2, <2>3
<1>3. ASSUME NEW n \in Seqs, NEW c \in Bodies, n >= k + 1
      PROVE  world'[InboxRow(a, n, c)] = 0
  <2>1. n >= k /\ n # k
    BY <1>3, SeqsType
  <2>2. world[InboxRow(a, n, c)] = 0
    BY <2>1 DEF NumberedTo
  <2> QED
    BY <2>1, <2>2 DEF Filed
<1>4. NumberedTo(a, k + 1)'
  BY <1>1, <1>2, <1>3 DEF NumberedTo
<1>5. ASSUME NEW c \in Procs, c # a
      PROVE  /\ \A n \in Seqs : world'[CounterRow(c, n)] = world[CounterRow(c, n)]
             /\ \A n \in Seqs, e \in Bodies : world'[InboxRow(c, n, e)] = world[InboxRow(c, n, e)]
  <2>1. \A n \in Seqs, e \in Bodies :
          InboxRow(c, n, e) \in RowSet /\ CounterRow(c, n) \in RowSet
    BY RowsIn
  <2>2. \A n \in Seqs, e \in Bodies : world[InboxRow(c, n, e)] \in Int
    BY <1>0, <2>1
  <2>3. \A n \in Seqs : world[CounterRow(c, n)] \in Int
    BY <1>0, RowsIn
  <2> QED
    BY <1>5, <2>2, <2>3 DEF Filed
<1>6. ASSUME NEW c \in Procs, NEW m \in Seqs, c # a, NumberedTo(c, m)
      PROVE  NumberedTo(c, m)'
  BY <1>5, <1>6 DEF NumberedTo
<1>7. ASSUME NEW c \in Procs, c # a, Blank(c)
      PROVE  Blank(c)'
  BY <1>5, <1>7 DEF Blank
<1> QED
  BY <1>4, <1>6, <1>7

(* Whoever read a numbered inbox, or a message, still finds it. *)
Grows ==
  /\ \A c \in Procs : Numbered(c) => Numbered(c)'
  /\ \A c \in Procs, n \in Seqs, e \in Bodies :
       world'[InboxRow(c, n, e)] >= world[InboxRow(c, n, e)]

LEMMA FiledGrows ==
  ASSUME TypeOK, Numbering, NEW a \in Procs, NEW k \in Seqs, k < MaxSeq, NumberedTo(a, k),
         NEW b \in Bodies, NEW T, Filed(a, k, b, T)
  PROVE  Numbering' /\ Grows
<1>1. k + 1 \in Seqs
  BY NextSeq
<1>2. \A c \in Procs : Numbered(c) => Numbered(c)'
  BY <1>1, FiledNumbering DEF Numbered
<1>3. \A c \in Procs : Blank(c) /\ c # a => Blank(c)'
  BY FiledNumbering
<1>4. Numbered(a)
  BY DEF Numbered
<1>5. Numbering'
  BY <1>2, <1>3, <1>4 DEF Numbering
<1>6. ASSUME NEW c \in Procs, NEW n \in Seqs, NEW e \in Bodies
      PROVE  world'[InboxRow(c, n, e)] >= world[InboxRow(c, n, e)]
  <2>1. world[InboxRow(c, n, e)] \in Int
    BY RowsIn DEF TypeOK
  <2> QED
    BY <2>1 DEF Filed
<1> QED
  BY <1>2, <1>5, <1>6 DEF Grows

(* Where the cursors do not move, a position read stands. *)
LEMMA CursorsStand ==
  ASSUME CursorsSame
  PROVE  /\ Cursors => Cursors'
         /\ \A a \in Procs, c \in Seqs : CursorAt(a, c) => CursorAt(a, c)'
         /\ \A a \in Procs : Position(a)' = Position(a)
<1>1. \A a \in Procs, c \in Seqs : CursorAt(a, c) => CursorAt(a, c)'
  BY DEF CursorsSame, CursorAt
<1>2. ASSUME NEW a \in Procs PROVE Position(a)' = Position(a)
  <2>1. {n \in Seqs : world'[CursorRow(a, n)] > 0} = {n \in Seqs : world[CursorRow(a, n)] > 0}
    BY DEF CursorsSame
  <2> DEFINE first(S) == IF S = {} THEN 0 ELSE CHOOSE n \in S : \A m \in S : n <= m
  <2>2. /\ Position(a) = first({n \in Seqs : world[CursorRow(a, n)] > 0})
        /\ Position(a)' = first({n \in Seqs : world'[CursorRow(a, n)] > 0})
    BY DEF Position
  <2> HIDE DEF first
  <2> QED
    BY <2>1, <2>2
<1> QED
  BY <1>1, <1>2 DEF Cursors

(* Every message done was some process's. *)
LEMMA DoneParts ==
  ASSUME TypeOK, NEW i \in DOMAIN done
  PROVE  /\ done[i] \in Steps
         /\ done[i].actor \in Procs /\ done[i].seq \in Seqs /\ done[i].body \in Bodies
<1>1. done[i] \in Steps
  BY DEF TypeOK
<1> QED
  BY <1>1 DEF Steps

LEMMA ProcessedStands ==
  ASSUME TypeOK, ProcessedOnce, CursorsSame, UNCHANGED done,
         \A c \in Procs, n \in Seqs, e \in Bodies :
           world'[InboxRow(c, n, e)] >= world[InboxRow(c, n, e)],
         world' \in [RowSet -> Int]
  PROVE  ProcessedOnce'
<1>1. \A a \in Procs : Position(a)' = Position(a)
  BY CursorsStand
<1>2. \A i \in DOMAIN done :
        done[i].actor \in Procs /\ done[i].seq \in Seqs /\ done[i].body \in Bodies
  BY DoneParts
<1>3. ASSUME NEW i \in DOMAIN done
      PROVE  /\ done[i].seq < Position(done[i].actor)'
             /\ world'[InboxRow(done[i].actor, done[i].seq, done[i].body)] > 0
  <2> DEFINE r == InboxRow(done[i].actor, done[i].seq, done[i].body)
  <2>1. world[r] > 0 /\ world'[r] >= world[r]
    BY <1>2 DEF ProcessedOnce
  <2>2. r \in RowSet
    BY <1>2, RowsIn
  <2>3. world[r] \in Int /\ world'[r] \in Int
    BY <2>2 DEF TypeOK
  <2>4. world'[r] > 0
    BY <2>1, <2>3
  <2>5. done[i].seq < Position(done[i].actor)'
    BY <1>1, <1>2 DEF ProcessedOnce
  <2> QED
    BY <2>4, <2>5
<1>4. \A a \in Procs : \A n \in Seqs : n < Position(a)' =>
        \E i \in DOMAIN done : done[i].actor = a /\ done[i].seq = n
  BY <1>1 DEF ProcessedOnce
<1> QED
  BY <1>3, <1>4 DEF ProcessedOnce

(* Nobody's taking, nobody's loss. *)
LEMMA TakerStands ==
  ASSUME OneTaker, ThingSame
  PROVE  OneTaker'
<1> DEFINE Holders == {Thing} \cup {Got(a) : a \in Procs}
<1>1. PICK r \in Holders : \A q \in Holders : world[q] = IF q = r THEN 1 ELSE 0
  BY DEF OneTaker
<1>2. \A q \in Holders : world'[q] = world[q]
  BY DEF ThingSame
<1> QED
  BY <1>1, <1>2 DEF OneTaker

(* A number answered stands, and the one just filed was nobody's. *)
LEMMA FiledAnswers ==
  ASSUME TypeOK, AnswersStand, NEW a \in Procs, NEW k \in Seqs, NumberedTo(a, k),
         NEW b \in Bodies, NEW T, Filed(a, k, b, T), NEW s \in Senders,
         answered' \subseteq answered \cup {[by |-> s, actor |-> a, seq |-> k, body |-> b]}
  PROVE  AnswersStand'
<1> DEFINE z == [by |-> s, actor |-> a, seq |-> k, body |-> b]
<1>1. ASSUME NEW x \in answered
      PROVE  x.actor \in Procs /\ x.seq \in Seqs /\ x.body \in Bodies
  BY DEF TypeOK, Answers
<1>2. k >= k
  BY SeqsType
<1>3. \A c \in Bodies : world[InboxRow(a, k, c)] = 0
  BY <1>2 DEF NumberedTo
<1>4. ASSUME NEW x \in answered
      PROVE  ~ (x.actor = a /\ x.seq = k) /\ world'[InboxRow(x.actor, x.seq, x.body)] = 1
  <2>1. world[InboxRow(x.actor, x.seq, x.body)] = 1
    BY DEF AnswersStand
  <2>2. ~ (x.actor = a /\ x.seq = k)
    BY <1>1, <1>3, <2>1
  <2> QED
    BY <1>1, <2>1, <2>2 DEF Filed
<1>5. world'[InboxRow(z.actor, z.seq, z.body)] = 1
  BY <1>3 DEF Filed
<1>6. \A x \in answered' : x \in answered \/ x = z
  OBVIOUS
<1>7. \A x \in answered' : world'[InboxRow(x.actor, x.seq, x.body)] = 1
  BY <1>4, <1>5, <1>6
<1>8. ASSUME NEW x \in answered', NEW y \in answered', x.actor = y.actor, x.seq = y.seq
      PROVE  x = y
  <2>1. z.actor = a /\ z.seq = k
    OBVIOUS
  <2>2. CASE x \in answered /\ y \in answered
    BY <1>8, <2>2 DEF AnswersStand
  <2>3. CASE x = z \/ y = z
    <3> HIDE DEF z
    <3> QED
      BY <1>4, <1>6, <1>8, <2>1, <2>3
  <2> QED
    BY <1>6, <2>2, <2>3
<1> QED
  BY <1>7, <1>8 DEF AnswersStand

(* Timer t is scheduled by these steps, delivered under these numbers. *)
Scheduled(t) == {i \in DOMAIN done : t \in Schedules[done[i].body]}
Delivered(t) == {n \in Seqs : world[InboxRow(Target[t], n, t)] > 0}
Conserved(t) ==
  /\ Cardinality(Scheduled(t)) = world[TimerRow(t)] + Cardinality(Delivered(t))
  /\ Delivered(t) # {} => Due[t] <= clock

LEMMA TimersConservedIs == TimersConserved <=> \A t \in Timers : Conserved(t)
  BY DEF TimersConserved, Conserved, Scheduled, Delivered

LEMMA TimersConservedNext == (TimersConserved <=> \A t \in Timers : Conserved(t))'
  BY TimersConservedIs, PTL

LEMMA DeliveredFinite == \A t : IsFiniteSet(Delivered(t))
<1>1. IsFiniteSet(Seqs)
  BY FS_Interval DEF Seqs
<1>2. \A t : Delivered(t) \in SUBSET Seqs
  BY DEF Delivered
<1> QED
  BY <1>1, <1>2, FS_Subset

(* A command filed is no timer's delivery. *)
LEMMA CommandConserves ==
  ASSUME TypeOK, TimersConserved, NEW a \in Procs, NEW k \in Seqs,
         NEW b \in Commands, Filed(a, k, b, {}), UNCHANGED <<done, clock>>
  PROVE  TimersConserved'
<1>1. ASSUME NEW t \in Timers PROVE Conserved(t)'
  <2>1. t # b /\ t \in Bodies /\ Target[t] \in Procs
    BY DEF Bodies
  <2>2. \A n \in Seqs : world'[InboxRow(Target[t], n, t)] = world[InboxRow(Target[t], n, t)]
    <3>1. \A n \in Seqs : world[InboxRow(Target[t], n, t)] \in Int
      BY <2>1, RowsIn DEF TypeOK
    <3> QED
      BY <2>1, <3>1 DEF Filed
  <2>3. Delivered(t)' = Delivered(t)
    BY <2>2 DEF Delivered
  <2>4. world'[TimerRow(t)] = world[TimerRow(t)]
    <3>1. world[TimerRow(t)] \in Int
      BY RowsIn DEF TypeOK
    <3> QED
      BY <3>1 DEF Filed
  <2>5. Scheduled(t)' = Scheduled(t)
    BY DEF Scheduled
  <2> QED
    BY <2>3, <2>4, <2>5, TimersConservedIs DEF Conserved
<1> QED
  BY <1>1, TimersConservedNext

(* A timer that is fired is delivered once more and has one row less. *)
LEMMA FireConserves ==
  ASSUME TypeOK, TimersConserved, NEW t \in Timers, NEW k \in Seqs,
         NumberedTo(Target[t], k), Filed(Target[t], k, t, {t}),
         Due[t] <= clock, UNCHANGED <<done, clock>>
  PROVE  TimersConserved'
<1>0. \A u \in Timers : Target[u] \in Procs /\ u \in Bodies /\ world[TimerRow(u)] \in Int
  <2>1. \A u \in Timers : TimerRow(u) \in RowSet
    BY RowsIn
  <2> QED
    BY <2>1 DEF Bodies, TypeOK
<1>1. ASSUME NEW u \in Timers PROVE Conserved(u)'
  <2>1. Scheduled(u)' = Scheduled(u)
    BY DEF Scheduled
  <2>2. Conserved(u)
    BY TimersConservedIs
  <2>3. \A n \in Seqs : world'[InboxRow(Target[u], n, u)] =
          world[InboxRow(Target[u], n, u)] + IF u = t /\ n = k THEN 1 ELSE 0
    BY <1>0 DEF Filed
  <2>4. \A n \in Seqs : world[InboxRow(Target[u], n, u)] \in Int
    BY <1>0, RowsIn DEF TypeOK
  <2>5. CASE u # t
    <3>1. Delivered(u)' = Delivered(u)
      BY <2>3, <2>4, <2>5 DEF Delivered
    <3>2. world'[TimerRow(u)] = world[TimerRow(u)]
      BY <1>0, <2>5 DEF Filed
    <3> QED
      BY <2>1, <2>2, <3>1, <3>2 DEF Conserved
  <2>6. CASE u = t
    <3>1. world[InboxRow(Target[t], k, t)] = 0
      BY <1>0, SeqsType DEF NumberedTo
    <3>2. k \notin Delivered(t)
      BY <3>1 DEF Delivered
    <3>3. Delivered(t)' = Delivered(t) \cup {k}
      BY <2>3, <2>4, <2>6, <3>1 DEF Delivered
    <3>4. Cardinality(Delivered(t)') = Cardinality(Delivered(t)) + 1
      BY <3>2, <3>3, DeliveredFinite, FS_AddElement
    <3>5. world'[TimerRow(t)] = world[TimerRow(t)] - 1
      BY DEF Filed
    <3>6. Cardinality(Delivered(t)) \in Nat
      BY DeliveredFinite, FS_CardinalityType
    <3>7. Cardinality(Scheduled(t)) = world'[TimerRow(t)] + Cardinality(Delivered(t)')
      BY <1>0, <2>2, <2>6, <3>4, <3>5, <3>6 DEF Conserved
    <3> QED
      BY <2>1, <2>6, <3>7 DEF Conserved
  <2> QED
    BY <2>5, <2>6
<1> QED
  BY <1>1, TimersConservedNext

----------------------------------------------------------------------------
(* A message stepped over.                                                 *)

(* Inboxes and their counters are not a step's to change. *)
LEMMA NumberingStands ==
  ASSUME InboxesSame, CountersSame
  PROVE  /\ \A c \in Procs, m \in Seqs : NumberedTo(c, m) => NumberedTo(c, m)'
         /\ \A c \in Procs : Numbered(c) => Numbered(c)'
         /\ \A c \in Procs : Blank(c) => Blank(c)'
         /\ Numbering => Numbering'
<1>1. ASSUME NEW c \in Procs, NEW m \in Seqs, NumberedTo(c, m) PROVE NumberedTo(c, m)'
  BY <1>1 DEF NumberedTo, InboxesSame, CountersSame
<1>2. \A c \in Procs : Numbered(c) => Numbered(c)'
  BY <1>1 DEF Numbered
<1>3. \A c \in Procs : Blank(c) => Blank(c)'
  BY DEF Blank, InboxesSame, CountersSame
<1> QED
  BY <1>1, <1>2, <1>3 DEF Numbering

LEMMA AnswersKept ==
  ASSUME TypeOK, AnswersStand, InboxesSame, UNCHANGED answered
  PROVE  AnswersStand'
<1>1. ASSUME NEW x \in answered
      PROVE  x.actor \in Procs /\ x.seq \in Seqs /\ x.body \in Bodies
  BY DEF TypeOK, Answers
<1> QED
  BY <1>1 DEF AnswersStand, InboxesSame

(* The cursor of the process that stepped is one further. *)
LEMMA SteppedCursors ==
  ASSUME TypeOK, NEW a \in Procs, NEW n \in Seqs, n < MaxSeq, CursorAt(a, n),
         NEW b, NEW takes, Stepped(a, n, b, takes)
  PROVE  /\ CursorAt(a, n + 1)'
         /\ \A c \in Procs, m \in Seqs : c # a /\ CursorAt(c, m) => CursorAt(c, m)'
<1>0. \A c \in Procs, m \in Seqs : world[CursorRow(c, m)] \in Int
  <2>1. \A c \in Procs, m \in Seqs : CursorRow(c, m) \in RowSet
    BY RowsIn
  <2> QED
    BY <2>1 DEF TypeOK
<1>1. ASSUME NEW m \in Seqs
      PROVE  world'[CursorRow(a, m)] = IF m = n + 1 /\ m # 0 THEN 1 ELSE 0
  <2>1. world[CursorRow(a, m)] = IF m = n /\ m # 0 THEN 1 ELSE 0
    BY DEF CursorAt
  <2>2. world'[CursorRow(a, m)] = world[CursorRow(a, m)] + (IF m = n + 1 THEN 1 ELSE 0)
                                   - (IF m = n /\ n > 0 THEN 1 ELSE 0)
    BY DEF Stepped
  <2> QED
    BY <2>1, <2>2, SeqsType
<1>2. ASSUME NEW c \in Procs, NEW m \in Seqs, c # a, CursorAt(c, m)
      PROVE  CursorAt(c, m)'
  BY <1>0, <1>2 DEF CursorAt, Stepped
<1> QED
  BY <1>1, <1>2 DEF CursorAt

LEMMA CursorsAdvance ==
  ASSUME TypeOK, Cursors, NEW a \in Procs, NEW n \in Seqs, n < MaxSeq, CursorAt(a, n),
         NEW b, NEW takes, Stepped(a, n, b, takes)
  PROVE  /\ Cursors'
         /\ Position(a) = n /\ Position(a)' = n + 1
         /\ \A c \in Procs : c # a => Position(c)' = Position(c)
<1>0. n + 1 \in Seqs
  BY NextSeq
<1>1. Position(a) = n /\ Position(a)' = n + 1
  BY <1>0, SteppedCursors, PositionIs, PositionNext
<1>2. ASSUME NEW c \in Procs, c # a
      PROVE  Position(c)' = Position(c) /\ \E m \in Seqs : CursorAt(c, m)'
  <2>1. PICK m \in Seqs : CursorAt(c, m)
    BY DEF Cursors
  <2>2. CursorAt(c, m)'
    BY <1>2, <2>1, SteppedCursors
  <2> QED
    BY <2>1, <2>2, PositionIs, PositionNext
<1>3. \E m \in Seqs : CursorAt(a, m)'
  BY <1>0, SteppedCursors
<1> QED
  BY <1>1, <1>2, <1>3 DEF Cursors

(* ProcessedOnce, process by process. *)
Processed(a) ==
  /\ \A i \in DOMAIN done : done[i].actor = a =>
       done[i].seq < Position(a) /\ world[InboxRow(a, done[i].seq, done[i].body)] > 0
  /\ \A n \in Seqs : n < Position(a) =>
       \E i \in DOMAIN done : done[i].actor = a /\ done[i].seq = n
  /\ \A i, j \in DOMAIN done :
       i < j /\ done[i].actor = a /\ done[j].actor = a => done[i].seq < done[j].seq

LEMMA ProcessedIs == done \in Seq(Steps) => (ProcessedOnce <=> \A a \in Procs : Processed(a))
<1> SUFFICES ASSUME done \in Seq(Steps)
             PROVE  ProcessedOnce <=> \A a \in Procs : Processed(a)
  OBVIOUS
<1>1. \A i \in DOMAIN done : done[i] \in Steps
  OBVIOUS
<1>2. \A i \in DOMAIN done : done[i].actor \in Procs
  BY <1>1 DEF Steps
<1>3. ProcessedOnce => \A a \in Procs : Processed(a)
  BY <1>2 DEF ProcessedOnce, Processed
<1>4. (\A a \in Procs : Processed(a)) => ProcessedOnce
  BY <1>2 DEF ProcessedOnce, Processed
<1> QED
  BY <1>3, <1>4

LEMMA ProcessedNext ==
  (done \in Seq(Steps) => (ProcessedOnce <=> \A a \in Procs : Processed(a)))'
  BY ProcessedIs, PTL

LEMMA SteppedProcessed ==
  ASSUME TypeOK, ProcessedOnce, Cursors, NEW a \in Procs, NEW n \in Seqs, n < MaxSeq,
         CursorAt(a, n), NEW b \in Bodies, NEW takes, Stepped(a, n, b, takes),
         world[InboxRow(a, n, b)] > 0,
         done' = Append(done, [actor |-> a, seq |-> n, body |-> b])
  PROVE  ProcessedOnce'
<1> DEFINE e == [actor |-> a, seq |-> n, body |-> b]
           last == Len(done) + 1
<1>1. /\ Position(a) = n /\ Position(a)' = n + 1
      /\ \A c \in Procs : c # a => Position(c)' = Position(c)
  BY CursorsAdvance
<1>2. /\ done \in Seq(Steps) /\ e \in Steps /\ done' \in Seq(Steps)
      /\ last \notin DOMAIN done /\ last \in Nat
      /\ DOMAIN done' = DOMAIN done \cup {last} /\ DOMAIN done \subseteq Nat
      /\ \A i \in DOMAIN done : done'[i] = done[i] /\ i < last
      /\ done'[last] = e
  BY DEF TypeOK, Steps
<1>3. \A i \in DOMAIN done :
        done[i].actor \in Procs /\ done[i].seq \in Nat /\ done[i].seq \in Seqs
        /\ done[i].body \in Bodies
  BY DoneParts, SeqsType
<1>4. e.actor = a /\ e.seq = n /\ e.body = b
  OBVIOUS
<1> HIDE DEF e, last
<1>5. InboxesSame /\ n \in Nat
  BY SeqsType DEF Stepped
<1>6. ASSUME NEW c \in Procs
      PROVE  Processed(c)'
  <2>1. Processed(c)
    BY <1>2, ProcessedIs
  <2>2. Position(c)' = IF c = a THEN n + 1 ELSE Position(c)
    BY <1>1
  <2>3. ASSUME NEW i \in DOMAIN done', done'[i].actor = c
        PROVE  done'[i].seq < Position(c)' /\ world'[InboxRow(c, done'[i].seq, done'[i].body)] > 0
    <3>1. CASE i = last
      <4>1. c = a /\ done'[i].seq = n /\ done'[i].body = b
        BY <1>2, <1>4, <2>3, <3>1
      <4>2. world'[InboxRow(a, n, b)] > 0
        BY <1>5 DEF InboxesSame
      <4> QED
        BY <1>5, <2>2, <4>1, <4>2
    <3>2. CASE i \in DOMAIN done
      <4>1. done'[i] = done[i] /\ done[i].actor = c
        BY <1>2, <2>3, <3>2
      <4>2. done[i].seq < Position(c) /\ world[InboxRow(c, done[i].seq, done[i].body)] > 0
        BY <2>1, <3>2, <4>1 DEF Processed
      <4>3. done[i].seq < Position(c)'
        BY <1>1, <1>3, <1>5, <2>2, <3>2, <4>2
      <4>4. world'[InboxRow(c, done[i].seq, done[i].body)] > 0
        BY <1>3, <1>5, <3>2, <4>2 DEF InboxesSame
      <4> QED
        BY <4>1, <4>3, <4>4
    <3> QED
      BY <1>2, <3>1, <3>2
  <2>4. ASSUME NEW m \in Seqs, m < Position(c)'
        PROVE  \E i \in DOMAIN done' : done'[i].actor = c /\ done'[i].seq = m
    <3>1. CASE c = a /\ m = n
      BY <1>2, <1>4, <3>1
    <3>2. CASE ~ (c = a /\ m = n)
      <4>1. m < Position(c)
        BY <1>1, <1>5, <2>2, <2>4, <3>2, SeqsType
      <4>2. PICK i \in DOMAIN done : done[i].actor = c /\ done[i].seq = m
        BY <2>1, <4>1 DEF Processed
      <4> QED
        BY <1>2, <4>2
    <3> QED
      BY <3>1, <3>2
  <2>5. ASSUME NEW i \in DOMAIN done', NEW j \in DOMAIN done', i < j,
               done'[i].actor = c, done'[j].actor = c
        PROVE  done'[i].seq < done'[j].seq
    <3>1. i \in DOMAIN done
      BY <1>2, <2>5
    <3>2. CASE j \in DOMAIN done
      BY <1>2, <2>1, <2>5, <3>1, <3>2 DEF Processed
    <3>3. CASE j = last
      <4>1. c = a /\ done'[j].seq = n
        BY <1>2, <1>4, <2>5, <3>3
      <4>2. done[i].seq < n
        BY <1>1, <1>2, <2>1, <2>5, <3>1, <4>1 DEF Processed
      <4> QED
        BY <1>2, <3>1, <4>1, <4>2
    <3> QED
      BY <1>2, <3>2, <3>3
  <2>6. \A i, j \in DOMAIN done' :
          i < j /\ done'[i].actor = c /\ done'[j].actor = c => done'[i].seq < done'[j].seq
    BY <2>5
  <2> QED
    BY <2>3, <2>4, <2>6 DEF Processed
<1> QED
  BY <1>2, <1>6, ProcessedNext

(* The thing goes to the process that found it, if it is there still. *)
LEMMA SteppedTaker ==
  ASSUME TypeOK, OneTaker, NEW a \in Procs, NEW n, NEW b, NEW takes \in BOOLEAN,
         takes => world[Thing] > 0, Stepped(a, n, b, takes)
  PROVE  OneTaker'
<1> DEFINE Holders == {Thing} \cup {Got(c) : c \in Procs}
<1>0. \A q \in Holders : world[q] \in Int
  BY RowsIn DEF TypeOK
<1>1. PICK r \in Holders : \A q \in Holders : world[q] = IF q = r THEN 1 ELSE 0
  BY DEF OneTaker
<1>2. CASE ~ takes
  <2>1. \A q \in Holders : world'[q] = world[q]
    BY <1>0, <1>2 DEF Stepped
  <2> QED
    BY <1>1, <2>1 DEF OneTaker
<1>3. CASE takes
  <2>1. r = Thing /\ world[Thing] = 1
    BY <1>1, <1>3
  <2>2. \A c \in Procs : world[Got(c)] = 0
    BY <1>1, <2>1, TimerApart
  <2>3. \A c \in Procs : world'[Got(c)] = IF c = a THEN 1 ELSE 0
    BY <1>3, <2>2 DEF Stepped
  <2>4. world'[Thing] = 0
    BY <1>3, <2>1 DEF Stepped
  <2>5. \A q \in Holders : world'[q] = IF q = Got(a) THEN 1 ELSE 0
    BY <2>3, <2>4, TimerApart
  <2> QED
    BY <2>5 DEF OneTaker
<1> QED
  BY <1>2, <1>3

(* What a message's behaviour schedules is there to be delivered. *)
LEMMA StepConserves ==
  ASSUME TypeOK, TimersConserved, NEW a \in Procs, NEW n \in Seqs, NEW b \in Bodies,
         NEW takes, Stepped(a, n, b, takes), UNCHANGED clock,
         done' = Append(done, [actor |-> a, seq |-> n, body |-> b])
  PROVE  TimersConserved'
<1> DEFINE last == Len(done) + 1
<1>1. /\ last \notin DOMAIN done
      /\ DOMAIN done' = DOMAIN done \cup {last}
      /\ \A i \in DOMAIN done : done'[i] = done[i]
      /\ done'[last].body = b
  BY DEF TypeOK
<1> HIDE DEF last
<1>2. IsFiniteSet(DOMAIN done)
  <2>1. DOMAIN done = 1 .. Len(done) /\ Len(done) \in Nat
    BY DEF TypeOK
  <2> QED
    BY <2>1, FS_Interval
<1>3. ASSUME NEW t \in Timers PROVE Conserved(t)'
  <2>1. Conserved(t) /\ Target[t] \in Procs /\ t \in Bodies
    BY TimersConservedIs DEF Bodies
  <2>2. Delivered(t)' = Delivered(t)
    BY <2>1 DEF Delivered, Stepped, InboxesSame
  <2>3. IsFiniteSet(Scheduled(t)) /\ last \notin Scheduled(t)
    BY <1>1, <1>2, FS_Subset DEF Scheduled
  <2>4. Scheduled(t)' = Scheduled(t) \cup (IF t \in Schedules[b] THEN {last} ELSE {})
    BY <1>1 DEF Scheduled
  <2>5. Cardinality(Scheduled(t)') =
          Cardinality(Scheduled(t)) + (IF t \in Schedules[b] THEN 1 ELSE 0)
    <3>1. Cardinality(Scheduled(t)) \in Nat
      BY <2>3, FS_CardinalityType
    <3>2. CASE t \in Schedules[b]
      BY <2>3, <2>4, <3>2, FS_AddElement
    <3>3. CASE t \notin Schedules[b]
      BY <2>4, <3>1, <3>3
    <3> QED
      BY <3>2, <3>3
  <2>6. world'[TimerRow(t)] = world[TimerRow(t)] + IF t \in Schedules[b] THEN 1 ELSE 0
    BY DEF Stepped
  <2>7. world[TimerRow(t)] \in Int /\ Cardinality(Delivered(t)) \in Nat
    BY RowsIn, DeliveredFinite, FS_CardinalityType DEF TypeOK
  <2> QED
    BY <2>1, <2>2, <2>5, <2>6, <2>7 DEF Conserved
<1> QED
  BY <1>3, TimersConservedNext

----------------------------------------------------------------------------
(* One thread's step leaves the others where they were.                    *)

OnlyAt(th) ==
  \A o \in Threads \ {th} :
    /\ pc'[o] = pc[o] /\ call'[o] = call[o] /\ num'[o] = num[o]
    /\ patch'[o] = patch[o] /\ left'[o] = left[o]
    /\ o \in Firers => due'[o] = due[o]

LEMMA SenderStands ==
  ASSUME NEW th \in Threads, OnlyAt(th), NEW s \in Senders \ {th}, SenderOK(s),
         \A c \in Procs : Numbered(c) => Numbered(c)',
         \A c \in Procs : Seeding(s, c) =>
           Blank(c)' /\ ~ (pc'[th] = "seed" /\ patch'[th] = SeedPatch(c))
  PROVE  SenderOK(s)'
<1>0. /\ s \in Threads \ {th}
      /\ pc'[s] = pc[s] /\ call'[s] = call[s] /\ num'[s] = num[s] /\ patch'[s] = patch[s]
  BY DEF OnlyAt, Threads
<1>1. CASE pc[s] = "idle"
  BY <1>0, <1>1 DEF SenderOK
<1>2. CASE pc[s] = "number" /\ \E a \in Procs, b \in Commands : Sending(s, a, b)
  BY <1>0, <1>2 DEF SenderOK, Sending
<1>3. CASE /\ pc[s] = "commit" /\ num[s] < MaxSeq
           /\ \E a \in Procs, b \in Commands :
                Sending(s, a, b) /\ patch[s] = SealedAt(a, num[s], b)
  BY <1>0, <1>3 DEF SenderOK, Sending
<1>4. CASE \E a \in Procs : Seeding(s, a)
  <2>1. PICK a \in Procs : Seeding(s, a)
    BY <1>4
  <2>2. Blank(a)' /\ ~ (pc'[th] = "seed" /\ patch'[th] = SeedPatch(a))
    BY <2>1
  <2>3. \A o \in Senders : pc'[o] = "seed" /\ patch'[o] = SeedPatch(a) => o = s
    <3>1. \A o \in Senders \ {th} : pc'[o] = pc[o] /\ patch'[o] = patch[o]
      BY DEF OnlyAt, Threads
    <3> QED
      BY <2>1, <2>2, <3>1 DEF Seeding
  <2>4. Seeding(s, a)'
    BY <1>0, <2>1, <2>2, <2>3 DEF Seeding
  <2> QED
    BY <2>4 DEF SenderOK
<1> QED
  BY <1>1, <1>2, <1>3, <1>4 DEF SenderOK

LEMMA DriverStands ==
  ASSUME NEW th \in Threads, OnlyAt(th), NEW d \in Drivers \ {th}, DriverOK(d),
         TypeOK, world' \in [RowSet -> Int], Grows,
         \A n \in Seqs : CursorAt(Drives[d], n) => CursorAt(Drives[d], n)'
  PROVE  DriverOK(d)'
<1>0. /\ d \in Threads \ {th} /\ Drives[d] \in Procs
      /\ pc'[d] = pc[d] /\ call'[d] = call[d] /\ num'[d] = num[d] /\ patch'[d] = patch[d]
  BY DEF OnlyAt, Threads
<1>1. \A n \in Seqs : Placed(d, n) => Placed(d, n)'
  BY <1>0 DEF Placed
<1>2. CASE pc[d] \in {"idle", "position"}
  BY <1>0, <1>2 DEF DriverOK
<1>3. CASE pc[d] = "prepare" /\ \E n \in Seqs : Placed(d, n)
  BY <1>0, <1>1, <1>3 DEF DriverOK
<1>4. CASE pc[d] = "commit" /\ ~ (pc[d] \in {"idle", "position"})
  <2>1. PICK n \in Seqs, b \in Bodies, takes \in BOOLEAN :
          /\ Placed(d, n)
          /\ call[d] = <<Drives[d], b>>
          /\ world[InboxRow(Drives[d], n, b)] > 0
          /\ patch[d] = StepAt(Drives[d], n, b, takes)
    BY <1>4 DEF DriverOK
  <2>2. InboxRow(Drives[d], n, b) \in RowSet
    BY <1>0, RowsIn
  <2>3. world[InboxRow(Drives[d], n, b)] \in Int /\ world'[InboxRow(Drives[d], n, b)] \in Int
    BY <2>2 DEF TypeOK
  <2>4. world'[InboxRow(Drives[d], n, b)] >= world[InboxRow(Drives[d], n, b)]
    BY <1>0 DEF Grows
  <2>5. world'[InboxRow(Drives[d], n, b)] > 0
    BY <2>1, <2>3, <2>4
  <2>6. Placed(d, n)'
    BY <1>1, <2>1
  <2> QED
    BY <1>0, <1>4, <2>1, <2>5, <2>6 DEF DriverOK
<1> QED
  BY <1>2, <1>3, <1>4 DEF DriverOK

LEMMA FirerStands ==
  ASSUME NEW th \in Threads, OnlyAt(th), NEW f \in Firers \ {th}, FirerOK(f),
         TypeOK, clock' \in Nat, clock' >= clock
  PROVE  FirerOK(f)'
<1>0. /\ f \in Threads \ {th} /\ due[f] \in SUBSET Timers
      /\ pc'[f] = pc[f] /\ patch'[f] = patch[f] /\ due'[f] = due[f]
  BY DEF OnlyAt, Threads, TypeOK
<1>1. \A t \in due'[f] : Due[t] <= clock'
  <2>1. \A t \in due[f] : Due[t] \in Nat /\ Due[t] <= clock
    BY <1>0 DEF FirerOK
  <2> QED
    BY <1>0, <2>1 DEF TypeOK
<1>2. Current(f)' = Current(f)
  BY <1>0 DEF Current
<1> QED
  BY <1>0, <1>1, <1>2 DEF FirerOK

LEMMA MayTryStands ==
  ASSUME NEW th \in Threads, OnlyAt(th), NEW o \in Threads \ {th}, MayTry(o)
  PROVE  MayTry(o)'
  BY DEF MayTry, OnlyAt

(* A thread is one kind of thread. *)
ThreadOK(th) ==
  /\ th \in Senders => SenderOK(th)
  /\ th \in Drivers => DriverOK(th)
  /\ th \in Firers => FirerOK(th)
  /\ MayTry(th)

LEMMA ThreadsStand ==
  ASSUME TypeOK, ThreadsOK, NEW th \in Threads, OnlyAt(th), ThreadOK(th)',
         world' \in [RowSet -> Int], clock' \in Nat, clock' >= clock, Grows,
         \A s \in Senders \ {th}, c \in Procs : Seeding(s, c) =>
           Blank(c)' /\ ~ (pc'[th] = "seed" /\ patch'[th] = SeedPatch(c)),
         \A d \in Drivers \ {th}, n \in Seqs :
           CursorAt(Drives[d], n) => CursorAt(Drives[d], n)'
  PROVE  ThreadsOK'
<1>1. \A s \in Senders : SenderOK(s)'
  BY SenderStands DEF ThreadsOK, ThreadOK, Grows
<1>2. \A d \in Drivers : DriverOK(d)'
  BY DriverStands DEF ThreadsOK, ThreadOK
<1>3. \A f \in Firers : FirerOK(f)'
  BY FirerStands DEF ThreadsOK, ThreadOK
<1>4. \A o \in Threads : MayTry(o)'
  BY MayTryStands DEF ThreadsOK, ThreadOK
<1> QED
  BY <1>1, <1>2, <1>3, <1>4 DEF ThreadsOK

----------------------------------------------------------------------------
(* Steps that read.                                                        *)

LEMMA WorldStands ==
  ASSUME TypeOK, WorldOK, UNCHANGED <<world, answered, done>>, clock' \in Nat, clock' >= clock
  PROVE  WorldOK'
<1>1. Numbering' /\ Cursors'
  BY DEF WorldOK, Numbering, Numbered, NumberedTo, Blank, Cursors, CursorAt
<1>2. AnswersStand' /\ OneTaker'
  BY DEF WorldOK, AnswersStand, OneTaker
<1>3. ProcessedOnce'
  <2>1. CursorsSame
    BY DEF CursorsSame
  <2>2. world' \in [RowSet -> Int]
    BY DEF TypeOK
  <2>3. \A c \in Procs, n \in Seqs, e \in Bodies :
          world'[InboxRow(c, n, e)] >= world[InboxRow(c, n, e)]
    <3>1. \A c \in Procs, n \in Seqs, e \in Bodies : InboxRow(c, n, e) \in RowSet
      BY RowsIn
    <3> QED
      BY <3>1 DEF TypeOK
  <2> QED
    BY <2>1, <2>2, <2>3, ProcessedStands DEF WorldOK
<1>4. ASSUME NEW t \in Timers PROVE Conserved(t)'
  <2>1. Conserved(t)
    BY TimersConservedIs DEF WorldOK
  <2>2. Scheduled(t)' = Scheduled(t) /\ Delivered(t)' = Delivered(t)
    BY DEF Scheduled, Delivered
  <2>3. Due[t] \in Nat
    OBVIOUS
  <2>4. Due[t] <= clock => Due[t] <= clock'
    BY <2>3 DEF TypeOK
  <2> QED
    BY <2>1, <2>2, <2>4 DEF Conserved
<1>5. TimersConserved'
  BY <1>4, TimersConservedNext
<1> QED
  BY <1>1, <1>2, <1>3, <1>5 DEF WorldOK

LEMMA QuietGrows ==
  ASSUME TypeOK, UNCHANGED world
  PROVE  /\ Grows /\ world' \in [RowSet -> Int]
         /\ \A c \in Procs : Blank(c) => Blank(c)'
         /\ \A c \in Procs, n \in Seqs : CursorAt(c, n) => CursorAt(c, n)'
<1>1. \A c \in Procs, n \in Seqs, e \in Bodies :
        world'[InboxRow(c, n, e)] >= world[InboxRow(c, n, e)]
  <2>1. \A c \in Procs, n \in Seqs, e \in Bodies : InboxRow(c, n, e) \in RowSet
    BY RowsIn
  <2> QED
    BY <2>1 DEF TypeOK
<1>2. \A c \in Procs : (Numbered(c) => Numbered(c)') /\ (Blank(c) => Blank(c)')
  BY DEF Numbered, NumberedTo, Blank
<1>3. \A c \in Procs, n \in Seqs : CursorAt(c, n) => CursorAt(c, n)'
  BY DEF CursorAt
<1> QED
  BY <1>1, <1>2, <1>3 DEF Grows, TypeOK

(* A thread that only read keeps the invariant if it knows what it read. *)
LEMMA QuietStep ==
  ASSUME IInv, NEW th \in Threads, OnlyAt(th), ThreadOK(th)',
         UNCHANGED <<world, clock, answered, done>>,
         \A s \in Senders \ {th}, c \in Procs :
           Seeding(s, c) => ~ (pc'[th] = "seed" /\ patch'[th] = SeedPatch(c))
  PROVE  ThreadsOK' /\ WorldOK'
<1>1. TypeOK /\ ThreadsOK /\ WorldOK
  BY DEF IInv
<1>2. clock' \in Nat /\ clock' >= clock
  BY <1>1 DEF TypeOK
<1>3. /\ Grows /\ world' \in [RowSet -> Int]
      /\ \A c \in Procs : Blank(c) => Blank(c)'
      /\ \A c \in Procs, n \in Seqs : CursorAt(c, n) => CursorAt(c, n)'
  BY <1>1, QuietGrows
<1>4. \A d \in Drivers \ {th}, n \in Seqs : CursorAt(Drives[d], n) => CursorAt(Drives[d], n)'
  BY <1>3
<1>5. \A s \in Senders \ {th}, c \in Procs : Seeding(s, c) =>
        Blank(c)' /\ ~ (pc'[th] = "seed" /\ patch'[th] = SeedPatch(c))
  BY <1>3 DEF Seeding
<1> QED
  BY <1>1, <1>2, <1>3, <1>4, <1>5, WorldStands, ThreadsStand

LEMMA NoPatchType == NoPatch \in PatchRecord
  BY DEF NoPatch, PatchRecord

LEMMA TriesType == MaxTries \in 0 .. MaxTries /\ 0 \in 0 .. MaxTries /\ MaxTries > 0
  OBVIOUS

LEMMA SettleParts ==
  ASSUME TypeOK, NEW th \in Threads, NEW at \in PCs, NEW l \in 0 .. MaxTries, Settle(th, at, l)
  PROVE  /\ pc' \in [Threads -> PCs] /\ left' \in [Threads -> 0 .. MaxTries]
         /\ patch' \in [Threads -> PatchRecord] /\ num' \in [Threads -> Seqs]
         /\ pc'[th] = at /\ left'[th] = l /\ patch'[th] = NoPatch
         /\ \A o \in Threads \ {th} :
              /\ pc'[o] = pc[o] /\ left'[o] = left[o]
              /\ patch'[o] = patch[o] /\ num'[o] = num[o]
  BY NoPatchType, SeqsType DEF Settle, TypeOK

LEMMA GoParts ==
  ASSUME TypeOK, NEW th \in Threads, NEW at \in PCs, Go(th, at)
  PROVE  /\ pc' \in [Threads -> PCs] /\ left' = left
         /\ pc'[th] = at /\ \A o \in Threads \ {th} : pc'[o] = pc[o]
  BY DEF Go, TypeOK

LEMMA KindsApart ==
  /\ \A s \in Senders : s \in Threads /\ s \notin Drivers /\ s \notin Firers
  /\ \A d \in Drivers : d \in Threads /\ d \notin Senders /\ d \notin Firers
  /\ \A f \in Firers : f \in Threads /\ f \notin Senders /\ f \notin Drivers
  BY DEF Threads

(* A thread that is done, or gives up, claims nothing. *)
LEMMA IdleOK ==
  ASSUME NEW th \in Threads, pc'[th] = "idle",
         th \in Firers => \A t \in due'[th] : Due[t] <= clock'
  PROVE  ThreadOK(th)'
  BY DEF ThreadOK, SenderOK, DriverOK, FirerOK, MayTry

(* The patches that are built are patches. *)
LEMMA PatchTypes ==
  /\ \A a \in Procs : SeedPatch(a) \in PatchRecord
  /\ \A a \in Procs, k \in Seqs, b \in Bodies :
       k < MaxSeq => SealedAt(a, k, b) \in PatchRecord
  /\ \A t \in Timers, k \in Seqs : k < MaxSeq => FireAt(t, k) \in PatchRecord
  /\ \A a \in Procs, n \in Seqs, b \in Bodies, takes \in BOOLEAN :
       n < MaxSeq => StepAt(a, n, b, takes) \in PatchRecord
<1>1. ASSUME NEW a \in Procs PROVE SeedPatch(a) \in PatchRecord
  BY RowsIn, SeqsType DEF SeedPatch, NoPatch, PatchRecord
<1>2. ASSUME NEW a \in Procs, NEW k \in Seqs, NEW b \in Bodies, k < MaxSeq
      PROVE  SealedAt(a, k, b) \in PatchRecord
  <2>1. k + 1 \in Seqs
    BY <1>2, NextSeq
  <2>2. CounterRow(a, k) \in RowSet /\ CounterRow(a, k + 1) \in RowSet /\ InboxRow(a, k, b) \in RowSet
    BY <2>1, RowsIn
  <2> QED
    BY <2>2 DEF SealedAt, PatchRecord
<1>3. ASSUME NEW t \in Timers, NEW k \in Seqs, k < MaxSeq
      PROVE  FireAt(t, k) \in PatchRecord
  <2>1. Target[t] \in Procs /\ t \in Bodies
    BY DEF Bodies
  <2>2. SealedAt(Target[t], k, t) \in PatchRecord /\ TimerRow(t) \in RowSet
    BY <1>2, <1>3, <2>1, RowsIn
  <2> QED
    BY <2>2 DEF FireAt, PatchRecord
<1>4. ASSUME NEW a \in Procs, NEW n \in Seqs, NEW b \in Bodies, NEW takes \in BOOLEAN, n < MaxSeq
      PROVE  StepAt(a, n, b, takes) \in PatchRecord
  <2>1. n + 1 \in Seqs
    BY <1>4, NextSeq
  <2>2. CursorRow(a, n) \in RowSet /\ CursorRow(a, n + 1) \in RowSet /\ Got(a) \in RowSet
        /\ Thing \in RowSet
    BY <2>1, RowsIn
  <2>3. \A t \in Schedules[b] : TimerRow(t) \in RowSet
    BY RowsIn
  <2> QED
    BY <2>2, <2>3 DEF StepAt, PatchRecord
<1> QED
  BY <1>1, <1>2, <1>3, <1>4

----------------------------------------------------------------------------
(* Senders' steps.                                                         *)

LEMMA SendStartStep ==
  ASSUME IInv, NEW s \in Senders, NEW a \in Procs, NEW b \in Commands, SendStart(s, a, b)
  PROVE  IInv'
<1>0. /\ TypeOK /\ WorldOK /\ s \in Threads /\ s \notin Drivers /\ s \notin Firers
      /\ b \in Bodies /\ "number" \in PCs
  BY KindsApart DEF IInv, Bodies, PCs
<1>1. /\ pc' \in [Threads -> PCs] /\ left' \in [Threads -> 0 .. MaxTries]
      /\ patch' \in [Threads -> PatchRecord] /\ num' \in [Threads -> Seqs]
      /\ pc'[s] = "number" /\ left'[s] = MaxTries /\ patch'[s] = NoPatch
      /\ \A o \in Threads \ {s} : pc'[o] = pc[o] /\ left'[o] = left[o]
                                  /\ patch'[o] = patch[o] /\ num'[o] = num[o]
  BY <1>0, TriesType, SettleParts DEF SendStart
<1>2. /\ call' \in [Threads -> {NoCall} \cup (Procs \X Bodies)]
      /\ call'[s] = <<a, b>> /\ \A o \in Threads \ {s} : call'[o] = call[o]
  BY <1>0 DEF SendStart, TypeOK
<1>3. TypeOK'
  BY <1>0, <1>1, <1>2 DEF TypeOK, SendStart
<1>4. OnlyAt(s)
  BY <1>1, <1>2 DEF OnlyAt, SendStart
<1>5. Numbered(a)'
  <2>1. Numbered(a)
    BY <1>0, CountersNumbered DEF WorldOK, SendStart
  <2> QED
    BY <1>0, <2>1, QuietGrows DEF SendStart, Grows
<1>6. ThreadOK(s)'
  BY <1>0, <1>1, <1>2, <1>5, TriesType DEF ThreadOK, SenderOK, Sending, MayTry
<1>7. ThreadsOK' /\ WorldOK'
  BY <1>0, <1>1, <1>4, <1>6, QuietStep DEF SendStart
<1> QED
  BY <1>3, <1>7 DEF IInv

LEMMA SendNumberStep ==
  ASSUME IInv, NEW s \in Senders, SendNumber(s)
  PROVE  IInv'
<1>0. /\ TypeOK /\ WorldOK /\ s \in Threads /\ s \notin Drivers /\ s \notin Firers
      /\ SenderOK(s) /\ MayTry(s) /\ "commit" \in PCs
  BY KindsApart DEF IInv, ThreadsOK, PCs
<1>1. PICK a \in Procs, b \in Commands : Sending(s, a, b)
  BY <1>0 DEF SendNumber, SenderOK, Seeding
<1>2. call[s] = <<a, b>> /\ Numbered(a) /\ call[s][1] = a /\ call[s][2] = b /\ b \in Bodies
  BY <1>1 DEF Sending, Bodies
<1>3. PICK k \in Seqs : k < MaxSeq /\ Start(a) = k /\ Sealed(a, b) = SealedAt(a, k, b)
  BY <1>2, SealedIs DEF SendNumber
<1>4. /\ pc' \in [Threads -> PCs] /\ left' = left
      /\ pc'[s] = "commit" /\ \A o \in Threads \ {s} : pc'[o] = pc[o]
  BY <1>0, GoParts DEF SendNumber
<1>5. num' = [num EXCEPT ![s] = k] /\ patch' = [patch EXCEPT ![s] = SealedAt(a, k, b)]
  BY <1>2, <1>3 DEF SendNumber
<1>6. /\ num' \in [Threads -> Seqs] /\ num'[s] = k
      /\ \A o \in Threads \ {s} : num'[o] = num[o]
  BY <1>0, <1>5 DEF TypeOK
<1>7. /\ patch' \in [Threads -> PatchRecord] /\ patch'[s] = SealedAt(a, k, b)
      /\ \A o \in Threads \ {s} : patch'[o] = patch[o]
  BY <1>0, <1>2, <1>3, <1>5, PatchTypes DEF TypeOK
<1>8. TypeOK'
  BY <1>0, <1>4, <1>6, <1>7 DEF TypeOK, SendNumber, history
<1>9. OnlyAt(s)
  BY <1>4, <1>6, <1>7 DEF OnlyAt, SendNumber
<1>10. Sending(s, a, b)'
  BY <1>0, <1>2, QuietGrows DEF SendNumber, Grows, Sending
<1>11. ThreadOK(s)'
  BY <1>0, <1>3, <1>4, <1>6, <1>7, <1>10 DEF ThreadOK, SenderOK, MayTry, SendNumber
<1>12. ThreadsOK' /\ WorldOK'
  BY <1>0, <1>4, <1>9, <1>11, QuietStep DEF SendNumber, history
<1> QED
  BY <1>8, <1>12 DEF IInv

LEMMA SendRejectedStep ==
  ASSUME IInv, NEW s \in Senders, SendRejected(s)
  PROVE  IInv'
<1>0. /\ TypeOK /\ WorldOK /\ s \in Threads /\ s \notin Drivers /\ s \notin Firers
      /\ SenderOK(s) /\ MayTry(s) /\ "number" \in PCs /\ "idle" \in PCs
      /\ pc[s] = "commit" /\ left[s] \in 0 .. MaxTries /\ left[s] > 0
  BY KindsApart DEF IInv, ThreadsOK, PCs, SendRejected, Rejected, MayTry, TypeOK
<1>1. CASE left[s] = 1
  <2>1. /\ Settle(s, "idle", 0) /\ call' = [call EXCEPT ![s] = NoCall]
        /\ UNCHANGED <<world, clock, due, history>>
    BY <1>1 DEF SendRejected, Rejected
  <2>2. /\ pc' \in [Threads -> PCs] /\ left' \in [Threads -> 0 .. MaxTries]
        /\ patch' \in [Threads -> PatchRecord] /\ num' \in [Threads -> Seqs]
        /\ pc'[s] = "idle"
        /\ \A o \in Threads \ {s} : pc'[o] = pc[o] /\ left'[o] = left[o]
                                    /\ patch'[o] = patch[o] /\ num'[o] = num[o]
    BY <1>0, <2>1, TriesType, SettleParts
  <2>3. /\ call' \in [Threads -> {NoCall} \cup (Procs \X Bodies)]
        /\ \A o \in Threads \ {s} : call'[o] = call[o]
    BY <1>0, <2>1 DEF TypeOK
  <2>4. TypeOK'
    BY <1>0, <2>1, <2>2, <2>3 DEF TypeOK, history
  <2>5. OnlyAt(s)
    BY <2>1, <2>2, <2>3 DEF OnlyAt
  <2>6. ThreadOK(s)'
    BY <1>0, <2>2, IdleOK
  <2>7. ThreadsOK' /\ WorldOK'
    BY <1>0, <2>1, <2>2, <2>5, <2>6, QuietStep DEF history
  <2> QED
    BY <2>4, <2>7 DEF IInv
<1>2. CASE left[s] # 1
  <2>1. /\ Settle(s, "number", left[s] - 1) /\ UNCHANGED <<world, clock, call, due, history>>
        /\ left[s] - 1 \in 0 .. MaxTries /\ left[s] - 1 > 0
    BY <1>0, <1>2 DEF SendRejected, Rejected
  <2>2. /\ pc' \in [Threads -> PCs] /\ left' \in [Threads -> 0 .. MaxTries]
        /\ patch' \in [Threads -> PatchRecord] /\ num' \in [Threads -> Seqs]
        /\ pc'[s] = "number" /\ left'[s] = left[s] - 1
        /\ \A o \in Threads \ {s} : pc'[o] = pc[o] /\ left'[o] = left[o]
                                    /\ patch'[o] = patch[o] /\ num'[o] = num[o]
    BY <1>0, <2>1, SettleParts
  <2>3. TypeOK'
    BY <1>0, <2>1, <2>2 DEF TypeOK, history
  <2>4. OnlyAt(s)
    BY <2>1, <2>2 DEF OnlyAt
  <2>5. PICK a \in Procs, b \in Commands : Sending(s, a, b)
    BY <1>0 DEF SenderOK, Seeding
  <2>6. Sending(s, a, b)'
    BY <1>0, <2>1, <2>5, QuietGrows DEF Grows, Sending
  <2>7. ThreadOK(s)'
    BY <1>0, <2>1, <2>2, <2>6 DEF ThreadOK, SenderOK, MayTry
  <2>8. ThreadsOK' /\ WorldOK'
    BY <1>0, <2>1, <2>2, <2>4, <2>7, QuietStep DEF history
  <2> QED
    BY <2>3, <2>8 DEF IInv
<1> QED
  BY <1>1, <1>2

LEMMA SeedStartStep ==
  ASSUME IInv, NEW s \in Senders, NEW a \in Procs, SeedStart(s, a)
  PROVE  IInv'
<1>0. /\ TypeOK /\ WorldOK /\ s \in Threads /\ s \notin Drivers /\ s \notin Firers
      /\ "seed" \in PCs
  BY KindsApart DEF IInv, PCs
<1>1. /\ pc' \in [Threads -> PCs] /\ left' = left
      /\ pc'[s] = "seed" /\ \A o \in Threads \ {s} : pc'[o] = pc[o]
  BY <1>0, GoParts DEF SeedStart
<1>2. patch' = [patch EXCEPT ![s] = SeedPatch(a)]
  BY DEF SeedStart, SeedPatch
<1>3. /\ patch' \in [Threads -> PatchRecord] /\ patch'[s] = SeedPatch(a)
      /\ \A o \in Threads \ {s} : patch'[o] = patch[o]
  BY <1>0, <1>2, PatchTypes DEF TypeOK
<1>4. TypeOK'
  BY <1>0, <1>1, <1>3 DEF TypeOK, SeedStart, history
<1>5. OnlyAt(s)
  BY <1>1, <1>3 DEF OnlyAt, SeedStart
<1>6. \A o \in Senders : patch[o] # SeedPatch(a)
  <2>1. CounterRow(a, 0) \in SeedPatch(a).adds
    BY DEF SeedPatch, NoPatch
  <2> QED
    BY <2>1 DEF SeedStart
<1>7. Blank(a)'
  <2>1. Blank(a)
    BY <1>0, CountersNumbered DEF WorldOK, SeedStart
  <2> QED
    BY <1>0, <2>1, QuietGrows DEF SeedStart
<1>8. Seeding(s, a)'
  <2>1. \A o \in Senders : pc'[o] = "seed" /\ patch'[o] = SeedPatch(a) => o = s
    BY <1>3, <1>6, KindsApart
  <2> QED
    BY <1>1, <1>3, <1>7, <2>1 DEF Seeding, SeedStart
<1>9. ThreadOK(s)'
  BY <1>0, <1>1, <1>8 DEF ThreadOK, SenderOK, MayTry
<1>10. \A o \in Senders \ {s}, c \in Procs :
         Seeding(o, c) => ~ (pc'[s] = "seed" /\ patch'[s] = SeedPatch(c))
  BY <1>3, <1>6 DEF Seeding
<1>11. ThreadsOK' /\ WorldOK'
  BY <1>0, <1>5, <1>9, <1>10, QuietStep DEF SeedStart, history
<1> QED
  BY <1>4, <1>11 DEF IInv

----------------------------------------------------------------------------
(* Drivers' steps that read.                                               *)

(* A thread that settles without a commit. *)
LEMMA SettledStep ==
  ASSUME IInv, NEW th \in Threads, NEW at \in PCs \ {"seed"}, NEW l \in 0 .. MaxTries,
         Settle(th, at, l), UNCHANGED <<world, clock, history>>,
         call' = call \/ call' = [call EXCEPT ![th] = NoCall],
         due' \in [Firers -> SUBSET Timers], \A f \in Firers \ {th} : due'[f] = due[f],
         ThreadOK(th)'
  PROVE  IInv'
<1>0. TypeOK
  BY DEF IInv
<1>1. /\ pc' \in [Threads -> PCs] /\ left' \in [Threads -> 0 .. MaxTries]
      /\ patch' \in [Threads -> PatchRecord] /\ num' \in [Threads -> Seqs]
      /\ pc'[th] = at
      /\ \A o \in Threads \ {th} : pc'[o] = pc[o] /\ left'[o] = left[o]
                                   /\ patch'[o] = patch[o] /\ num'[o] = num[o]
  BY <1>0, SettleParts
<1>2. /\ call' \in [Threads -> {NoCall} \cup (Procs \X Bodies)]
      /\ \A o \in Threads \ {th} : call'[o] = call[o]
  BY <1>0 DEF TypeOK
<1>3. TypeOK'
  BY <1>0, <1>1, <1>2 DEF TypeOK, history
<1>4. OnlyAt(th)
  BY <1>1, <1>2 DEF OnlyAt
<1>5. ThreadsOK' /\ WorldOK'
  BY <1>1, <1>4, QuietStep DEF history
<1> QED
  BY <1>3, <1>5 DEF IInv

(* A driver that does: whatever attempts it has left, there are some. *)
LEMMA DriverSettles ==
  ASSUME IInv, NEW d \in Drivers, NEW at \in {"idle", "position"}, NEW l \in 0 .. MaxTries,
         at = "idle" \/ l > 0,
         Settle(d, at, l), UNCHANGED <<world, clock, history, due>>,
         call' = call \/ call' = [call EXCEPT ![d] = NoCall]
  PROVE  IInv'
<1>0. /\ TypeOK /\ d \in Threads /\ d \notin Senders /\ d \notin Firers /\ at \in PCs \ {"seed"}
      /\ due' \in [Firers -> SUBSET Timers]
  BY KindsApart DEF IInv, PCs, TypeOK
<1>1. pc'[d] = at /\ left'[d] = l
  BY <1>0, SettleParts
<1>2. ThreadOK(d)'
  BY <1>0, <1>1 DEF ThreadOK, DriverOK, MayTry
<1> QED
  BY <1>0, <1>2, SettledStep

LEMMA DriveStartStep == ASSUME IInv, NEW d \in Drivers, DriveStart(d) PROVE IInv'
  BY DriverSettles, TriesType DEF DriveStart

LEMMA InboxIdleStep == ASSUME IInv, NEW d \in Drivers, InboxIdle(d) PROVE IInv'
  BY DriverSettles, TriesType DEF InboxIdle

LEMMA StepRejectedStep ==
  ASSUME IInv, NEW d \in Drivers, StepRejected(d)
  PROVE  IInv'
<1>1. left[d] \in 0 .. MaxTries /\ left[d] > 0
  BY KindsApart DEF IInv, TypeOK, ThreadsOK, MayTry, StepRejected, Rejected
<1>2. /\ UNCHANGED <<world, clock, history, due>> /\ call' = [call EXCEPT ![d] = NoCall]
      /\ IF left[d] = 1 THEN Settle(d, "idle", 0) ELSE Settle(d, "position", left[d] - 1)
  BY DEF StepRejected, Rejected
<1>3. CASE left[d] = 1
  BY <1>2, <1>3, DriverSettles, TriesType
<1>4. CASE left[d] # 1
  <2>1. left[d] - 1 \in 0 .. MaxTries /\ left[d] - 1 > 0
    BY <1>1, <1>4
  <2> QED
    BY <1>2, <1>4, <2>1, DriverSettles
<1> QED
  BY <1>3, <1>4

LEMMA ReadPositionStep ==
  ASSUME IInv, NEW d \in Drivers, ReadPosition(d)
  PROVE  IInv'
<1>0. /\ TypeOK /\ WorldOK /\ d \in Threads /\ d \notin Senders /\ d \notin Firers
      /\ "prepare" \in PCs /\ MayTry(d) /\ Drives[d] \in Procs
  BY KindsApart DEF IInv, PCs, ThreadsOK
<1>1. PICK n \in Seqs : CursorAt(Drives[d], n)
  BY <1>0 DEF WorldOK, Cursors
<1>2. Position(Drives[d]) = n
  BY <1>0, <1>1, PositionIs
<1>3. /\ pc' \in [Threads -> PCs] /\ left' = left
      /\ pc'[d] = "prepare" /\ \A o \in Threads \ {d} : pc'[o] = pc[o]
  BY <1>0, GoParts DEF ReadPosition
<1>4. /\ num' \in [Threads -> Seqs] /\ num'[d] = n
      /\ \A o \in Threads \ {d} : num'[o] = num[o]
  BY <1>0, <1>2 DEF ReadPosition, TypeOK
<1>5. TypeOK'
  BY <1>0, <1>3, <1>4 DEF TypeOK, ReadPosition, history
<1>6. OnlyAt(d)
  BY <1>3, <1>4 DEF OnlyAt, ReadPosition
<1>7. Placed(d, n)'
  <2>1. CursorAt(Drives[d], n)'
    BY <1>0, <1>1, QuietGrows DEF ReadPosition
  <2> QED
    BY <1>4, <2>1 DEF Placed
<1>8. ThreadOK(d)'
  BY <1>0, <1>3, <1>7 DEF ThreadOK, DriverOK, MayTry, ReadPosition
<1>9. ThreadsOK' /\ WorldOK'
  BY <1>3, <1>6, <1>8, <1>0, QuietStep DEF ReadPosition, history
<1> QED
  BY <1>5, <1>9 DEF IInv

(* The patch a message's behaviour makes, whatever it finds. *)
LEMMA PatchAtIs ==
  ASSUME NEW a, NEW n, NEW b
  PROVE  \E takes \in BOOLEAN : PatchAt(a, n, b) = StepAt(a, n, b, takes)
<1> DEFINE found == b \in Takes /\ world[Thing] > 0
           B == Behavior(a, b)
           cursor == IF n > 0 THEN {CursorRow(a, n)} ELSE {}
<1>1. B = [pre |-> IF found THEN {Thing} ELSE {},
           dels |-> IF found THEN {Thing} ELSE {},
           adds |-> {TimerRow(t) : t \in Schedules[b]} \cup (IF found THEN {Got(a)} ELSE {})]
  BY DEF Behavior
<1>2. PatchAt(a, n, b) = [B EXCEPT !.dels = @ \cup cursor, !.adds = @ \cup {CursorRow(a, n + 1)}]
  BY DEF PatchAt
<1> HIDE DEF B
<1>3. PatchAt(a, n, b) = [pre |-> B.pre, dels |-> B.dels \cup cursor,
                          adds |-> B.adds \cup {CursorRow(a, n + 1)}]
  BY <1>1, <1>2
<1>4. PatchAt(a, n, b) = StepAt(a, n, b, found)
  BY <1>1, <1>3 DEF StepAt
<1>5. found \in BOOLEAN
  OBVIOUS
<1> QED
  BY <1>4, <1>5

(* There is room for the cursor past a message that is there. *)
LEMMA PendingBelow ==
  ASSUME Numbering, NEW a \in Procs, NEW n \in Seqs, NEW b \in Bodies,
         world[InboxRow(a, n, b)] > 0
  PROVE  n < MaxSeq
<1>1. ~ Blank(a)
  BY DEF Blank
<1>2. PICK k \in Seqs : NumberedTo(a, k)
  BY <1>1 DEF Numbering, Numbered
<1>3. ~ (n >= k)
  BY <1>2 DEF NumberedTo
<1> QED
  BY <1>3, SeqsType

LEMMA PrepareStep ==
  ASSUME IInv, NEW d \in Drivers, Prepare(d)
  PROVE  IInv'
<1>0. /\ TypeOK /\ WorldOK /\ d \in Threads /\ d \notin Senders /\ d \notin Firers
      /\ "commit" \in PCs /\ MayTry(d) /\ DriverOK(d) /\ Drives[d] \in Procs
  BY KindsApart DEF IInv, PCs, ThreadsOK
<1>1. PICK n \in Seqs : Placed(d, n)
  BY <1>0 DEF Prepare, DriverOK
<1>2. PICK b \in Pending(Drives[d], n) :
        /\ call' = [call EXCEPT ![d] = <<Drives[d], b>>]
        /\ patch' = [patch EXCEPT ![d] = PatchAt(Drives[d], n, b)]
  BY <1>1 DEF Prepare, Placed
<1>3. b \in Bodies /\ world[InboxRow(Drives[d], n, b)] > 0
  BY DEF Pending
<1>4. n < MaxSeq
  BY <1>0, <1>3, PendingBelow DEF WorldOK
<1>5. PICK takes \in BOOLEAN : PatchAt(Drives[d], n, b) = StepAt(Drives[d], n, b, takes)
  BY PatchAtIs
<1>6. /\ pc' \in [Threads -> PCs] /\ left' = left
      /\ pc'[d] = "commit" /\ \A o \in Threads \ {d} : pc'[o] = pc[o]
  BY <1>0, GoParts DEF Prepare
<1>7. /\ patch' \in [Threads -> PatchRecord] /\ patch'[d] = StepAt(Drives[d], n, b, takes)
      /\ \A o \in Threads \ {d} : patch'[o] = patch[o]
  BY <1>0, <1>2, <1>3, <1>4, <1>5, PatchTypes DEF TypeOK
<1>8. /\ call' \in [Threads -> {NoCall} \cup (Procs \X Bodies)]
      /\ call'[d] = <<Drives[d], b>> /\ \A o \in Threads \ {d} : call'[o] = call[o]
  BY <1>0, <1>2, <1>3 DEF TypeOK
<1>9. TypeOK'
  BY <1>0, <1>6, <1>7, <1>8 DEF TypeOK, Prepare, history
<1>10. OnlyAt(d)
  BY <1>6, <1>7, <1>8 DEF OnlyAt, Prepare
<1>11. Placed(d, n)'
  <2>1. CursorAt(Drives[d], n)'
    BY <1>0, <1>1, QuietGrows DEF Prepare, Placed
  <2> QED
    BY <1>1, <2>1 DEF Placed, Prepare
<1>12. world'[InboxRow(Drives[d], n, b)] > 0
  BY <1>3 DEF Prepare
<1>13. ThreadOK(d)'
  <2>1. DriverOK(d)'
    BY <1>3, <1>6, <1>7, <1>8, <1>11, <1>12 DEF DriverOK
  <2> QED
    BY <1>0, <1>6, <2>1 DEF ThreadOK, MayTry, Prepare
<1>14. ThreadsOK' /\ WorldOK'
  BY <1>0, <1>6, <1>10, <1>13, QuietStep DEF Prepare, history
<1> QED
  BY <1>9, <1>14 DEF IInv

----------------------------------------------------------------------------
(* Firers' steps that read, the clock and the crash.                       *)

LEMMA CurrentIs ==
  ASSUME TypeOK, NEW f \in Firers, due[f] # {}
  PROVE  Current(f) \in due[f] /\ Current(f) \in Timers
<1>1. due[f] \in SUBSET Timers
  BY DEF TypeOK
<1>2. Earliest(due[f]) # {} /\ Earliest(due[f]) \subseteq due[f]
  BY <1>1, EarliestThere
<1> QED
  BY <1>1, <1>2 DEF Current

(* What fire_one's list leaves is due as it was, and never nothing. *)
LEMMA ThroughOK ==
  ASSUME TypeOK, NEW f \in Firers, FirerOK(f), due[f] # {}, Through(f), UNCHANGED clock
  PROVE  /\ ThreadOK(f)'
         /\ due' \in [Firers -> SUBSET Timers] /\ \A g \in Firers \ {f} : due'[g] = due[g]
         /\ \/ Settle(f, "idle", 0) /\ pc'[f] = "idle"
            \/ Settle(f, "live", MaxTries) /\ pc'[f] = "live"
<1>0. /\ f \in Threads /\ f \notin Senders /\ f \notin Drivers
      /\ "idle" \in PCs /\ "live" \in PCs /\ due[f] \in SUBSET Timers
  BY KindsApart DEF PCs, TypeOK
<1>1. /\ due' \in [Firers -> SUBSET Timers] /\ due'[f] = due[f] \ {Current(f)}
      /\ \A g \in Firers \ {f} : due'[g] = due[g]
  BY <1>0 DEF Through, TypeOK
<1>2. \A t \in due'[f] : Due[t] <= clock'
  BY <1>1 DEF FirerOK
<1>3. CASE due[f] = {Current(f)}
  <2>1. Settle(f, "idle", 0)
    BY <1>3 DEF Through
  <2>2. pc'[f] = "idle"
    BY <1>0, <2>1, SettleParts, TriesType
  <2> QED
    BY <1>1, <1>2, <2>1, <2>2, IdleOK, <1>0
<1>4. CASE due[f] # {Current(f)}
  <2>1. Settle(f, "live", MaxTries)
    BY <1>4 DEF Through
  <2>2. pc'[f] = "live" /\ left'[f] = MaxTries
    BY <1>0, <2>1, SettleParts, TriesType
  <2>3. due'[f] # {}
    BY <1>1, <1>4
  <2> QED
    BY <1>0, <1>1, <1>2, <2>1, <2>2, <2>3, TriesType DEF ThreadOK, FirerOK, MayTry
<1> QED
  BY <1>3, <1>4

LEMMA FireStartStep ==
  ASSUME IInv, NEW f \in Firers, FireStart(f)
  PROVE  IInv'
<1>0. /\ TypeOK /\ f \in Threads /\ f \notin Senders /\ f \notin Drivers
      /\ "live" \in PCs \ {"seed"}
  BY KindsApart DEF IInv, PCs
<1>1. PICK now \in 0 .. clock :
        \E T \in {Overdue(now)} \cup {{t} : t \in Earliest(Overdue(now))} :
          T # {} /\ due' = [due EXCEPT ![f] = T]
  BY DEF FireStart
<1>2. PICK T : /\ T \in {Overdue(now)} \cup {{t} : t \in Earliest(Overdue(now))}
               /\ T # {} /\ due' = [due EXCEPT ![f] = T]
  BY <1>1
<1>3. T \subseteq Overdue(now)
  BY <1>2 DEF Earliest
<1>4. T \in SUBSET Timers
  BY <1>3 DEF Overdue
<1>5. \A t \in T : Due[t] <= clock
  <2>1. \A t \in T : Due[t] \in Nat /\ Due[t] <= now
    BY <1>3, <1>4 DEF Overdue
  <2>2. clock \in Nat /\ now \in Nat /\ now <= clock
    BY <1>0, <1>1 DEF TypeOK
  <2> QED
    BY <2>1, <2>2
<1>6. /\ due' \in [Firers -> SUBSET Timers] /\ due'[f] = T
      /\ \A g \in Firers \ {f} : due'[g] = due[g]
  BY <1>0, <1>2, <1>4 DEF TypeOK
<1>7. Settle(f, "live", MaxTries) /\ UNCHANGED <<world, clock, call, history>>
  BY DEF FireStart
<1>8. pc'[f] = "live" /\ left'[f] = MaxTries
  BY <1>0, <1>7, SettleParts, TriesType
<1>9. ThreadOK(f)'
  BY <1>0, <1>2, <1>5, <1>6, <1>7, <1>8, TriesType DEF ThreadOK, FirerOK, MayTry
<1> QED
  BY <1>0, <1>6, <1>7, <1>9, SettledStep, TriesType

LEMMA FireGoneStep ==
  ASSUME IInv, NEW f \in Firers, FireGone(f)
  PROVE  IInv'
<1>0. /\ TypeOK /\ f \in Threads /\ FirerOK(f) /\ {"idle", "live"} \subseteq PCs \ {"seed"}
      /\ due[f] # {} /\ Through(f) /\ UNCHANGED <<world, clock, call, history>>
  BY KindsApart DEF IInv, PCs, ThreadsOK, FireGone, FirerOK
<1>1. /\ ThreadOK(f)'
      /\ due' \in [Firers -> SUBSET Timers] /\ \A g \in Firers \ {f} : due'[g] = due[g]
      /\ Settle(f, "idle", 0) \/ Settle(f, "live", MaxTries)
  BY <1>0, ThroughOK
<1> QED
  BY <1>0, <1>1, SettledStep, TriesType

LEMMA FireRejectedStep ==
  ASSUME IInv, NEW f \in Firers, FireRejected(f)
  PROVE  IInv'
<1>0. /\ TypeOK /\ f \in Threads /\ f \notin Senders /\ f \notin Drivers
      /\ FirerOK(f) /\ {"idle", "live"} \subseteq PCs \ {"seed"}
      /\ pc[f] = "commit" /\ due[f] # {} /\ left[f] \in 0 .. MaxTries /\ left[f] > 0
      /\ UNCHANGED <<world, clock, call, history>>
  BY KindsApart DEF IInv, PCs, ThreadsOK, MayTry, FireRejected, Rejected, FirerOK, TypeOK
<1>1. CASE left[f] = 1
  <2>1. Through(f)
    BY <1>1 DEF FireRejected
  <2>2. /\ ThreadOK(f)'
        /\ due' \in [Firers -> SUBSET Timers] /\ \A g \in Firers \ {f} : due'[g] = due[g]
        /\ Settle(f, "idle", 0) \/ Settle(f, "live", MaxTries)
    BY <1>0, <2>1, ThroughOK
  <2> QED
    BY <1>0, <2>2, SettledStep, TriesType
<1>2. CASE left[f] # 1
  <2>1. /\ Settle(f, "live", left[f] - 1) /\ UNCHANGED due
        /\ left[f] - 1 \in 0 .. MaxTries /\ left[f] - 1 > 0
    BY <1>0, <1>2 DEF FireRejected
  <2>2. pc'[f] = "live" /\ left'[f] = left[f] - 1
    BY <1>0, <2>1, SettleParts
  <2>3. ThreadOK(f)'
    BY <1>0, <2>1, <2>2 DEF ThreadOK, FirerOK, MayTry
  <2>4. due' \in [Firers -> SUBSET Timers]
    BY <1>0, <2>1 DEF TypeOK
  <2> QED
    BY <1>0, <2>1, <2>3, <2>4, SettledStep
<1> QED
  BY <1>1, <1>2

LEMMA FireLiveStep ==
  ASSUME IInv, NEW f \in Firers, FireLive(f)
  PROVE  IInv'
<1>0. /\ TypeOK /\ f \in Threads /\ f \notin Senders /\ f \notin Drivers /\ "number" \in PCs
      /\ FirerOK(f) /\ MayTry(f) /\ due[f] # {} /\ pc[f] = "live"
  BY KindsApart DEF IInv, PCs, ThreadsOK, FireLive, FirerOK
<1>1. /\ pc' \in [Threads -> PCs] /\ left' = left
      /\ pc'[f] = "number" /\ \A o \in Threads \ {f} : pc'[o] = pc[o]
  BY <1>0, GoParts DEF FireLive
<1>2. TypeOK'
  BY <1>0, <1>1 DEF TypeOK, FireLive, history
<1>3. OnlyAt(f)
  BY <1>1 DEF OnlyAt, FireLive
<1>4. ThreadOK(f)'
  BY <1>0, <1>1 DEF ThreadOK, FirerOK, MayTry, FireLive
<1>5. ThreadsOK' /\ WorldOK'
  BY <1>0, <1>1, <1>3, <1>4, QuietStep DEF FireLive, history
<1> QED
  BY <1>2, <1>5 DEF IInv

(* A timer's target was spawned with its counter. *)
LEMMA TargetNumbered ==
  ASSUME Numbering, NEW t \in Timers
  PROVE  Target[t] \in Procs /\ Numbered(Target[t]) /\ t \in Bodies
  BY DEF Numbering, Bodies

(* Fire(t), the counter read standing at k. *)
LEMMA FireIs ==
  ASSUME Numbering, NEW t \in Timers, Room(Target[t])
  PROVE  \E k \in Seqs : k < MaxSeq /\ Fire(t) = FireAt(t, k)
<1>1. PICK k \in Seqs : k < MaxSeq /\ Sealed(Target[t], t) = SealedAt(Target[t], k, t)
  BY TargetNumbered, SealedIs
<1>2. Fire(t) = FireAt(t, k)
  BY <1>1 DEF Fire, FireAt
<1> QED
  BY <1>1, <1>2

LEMMA FireNumberStep ==
  ASSUME IInv, NEW f \in Firers, FireNumber(f)
  PROVE  IInv'
<1>0. /\ TypeOK /\ f \in Threads /\ f \notin Senders /\ f \notin Drivers /\ "commit" \in PCs
      /\ FirerOK(f) /\ MayTry(f) /\ due[f] # {} /\ pc[f] = "number" /\ Numbering
  BY KindsApart DEF IInv, PCs, ThreadsOK, WorldOK, FireNumber, FirerOK
<1>1. Current(f) \in Timers
  BY <1>0, CurrentIs
<1>2. PICK k \in Seqs : k < MaxSeq /\ Fire(Current(f)) = FireAt(Current(f), k)
  BY <1>0, <1>1, FireIs DEF FireNumber
<1>3. /\ pc' \in [Threads -> PCs] /\ left' = left
      /\ pc'[f] = "commit" /\ \A o \in Threads \ {f} : pc'[o] = pc[o]
  BY <1>0, GoParts DEF FireNumber
<1>4. /\ patch' \in [Threads -> PatchRecord] /\ patch'[f] = FireAt(Current(f), k)
      /\ \A o \in Threads \ {f} : patch'[o] = patch[o]
  BY <1>0, <1>1, <1>2, PatchTypes DEF TypeOK, FireNumber
<1>5. TypeOK'
  BY <1>0, <1>3, <1>4 DEF TypeOK, FireNumber, history
<1>6. OnlyAt(f)
  BY <1>3, <1>4 DEF OnlyAt, FireNumber
<1>7. Current(f)' = Current(f)
  BY DEF Current, FireNumber
<1>8. ThreadOK(f)'
  BY <1>0, <1>2, <1>3, <1>4, <1>7 DEF ThreadOK, FirerOK, MayTry, FireNumber
<1>9. ThreadsOK' /\ WorldOK'
  BY <1>0, <1>3, <1>6, <1>8, QuietStep DEF FireNumber, history
<1> QED
  BY <1>5, <1>9 DEF IInv

LEMMA SampleStep ==
  ASSUME IInv, NEW ms \in 1 .. MaxTime, Sample(ms)
  PROVE  IInv'
<1>0. TypeOK /\ ThreadsOK /\ WorldOK
  BY DEF IInv
<1>1. clock \in Nat /\ clock' \in Nat /\ clock' >= clock /\ UNCHANGED <<world, locals, history>>
  BY <1>0 DEF Sample, TypeOK
<1>2. TypeOK'
  BY <1>0, <1>1 DEF TypeOK, locals, history
<1>3. WorldOK'
  BY <1>0, <1>1, WorldStands DEF history
<1>4. ASSUME NEW f \in Firers PROVE FirerOK(f)'
  <2>1. due[f] \in SUBSET Timers /\ FirerOK(f)
    BY <1>0 DEF TypeOK, ThreadsOK
  <2>2. \A t \in due[f] : Due[t] \in Nat /\ Due[t] <= clock
    BY <2>1 DEF FirerOK
  <2>3. \A t \in due'[f] : Due[t] <= clock'
    BY <1>1, <2>2 DEF locals
  <2>4. Current(f)' = Current(f)
    BY <1>1 DEF Current, locals
  <2> QED
    BY <1>1, <2>1, <2>3, <2>4 DEF FirerOK, locals
<1>5. ASSUME NEW s \in Senders PROVE SenderOK(s)'
  <2>1. /\ \A c \in Procs : Numbered(c) => Numbered(c)'
        /\ \A c \in Procs : Blank(c) => Blank(c)'
    BY <1>0, <1>1, QuietGrows DEF Grows
  <2>2. SenderOK(s)
    BY <1>0 DEF ThreadsOK
  <2> QED
    BY <1>1, <2>1, <2>2 DEF SenderOK, Sending, Seeding, locals
<1>6. ASSUME NEW d \in Drivers PROVE DriverOK(d)'
  <2>1. DriverOK(d)
    BY <1>0 DEF ThreadsOK
  <2> QED
    BY <1>1, <2>1 DEF DriverOK, Placed, CursorAt, locals
<1>7. \A th \in Threads : MayTry(th)'
  BY <1>0, <1>1 DEF ThreadsOK, MayTry, locals
<1> QED
  BY <1>2, <1>3, <1>4, <1>5, <1>6, <1>7 DEF IInv, ThreadsOK

LEMMA CrashStep ==
  ASSUME IInv, Crash
  PROVE  IInv'
<1>0. TypeOK /\ WorldOK /\ clock' \in Nat /\ clock' >= clock
  BY DEF IInv, TypeOK, Crash
<1>1. TypeOK'
  BY <1>0, NoPatchType, SeqsType, TriesType DEF TypeOK, Crash, PCs
<1>2. WorldOK'
  BY <1>0, WorldStands DEF Crash
<1>3. ASSUME NEW th \in Threads PROVE ThreadOK(th)'
  BY IdleOK DEF Crash
<1>4. ThreadsOK'
  BY <1>3, KindsApart DEF ThreadsOK, ThreadOK
<1> QED
  BY <1>1, <1>2, <1>4 DEF IInv

----------------------------------------------------------------------------
(* Commits.                                                                *)

LEMMA SendCommitStep ==
  ASSUME IInv, NEW s \in Senders, SendCommit(s)
  PROVE  IInv'
<1>0. /\ TypeOK /\ ThreadsOK /\ WorldOK /\ Numbering /\ s \in Threads
      /\ s \notin Drivers /\ s \notin Firers
      /\ SenderOK(s) /\ "idle" \in PCs /\ pc[s] = "commit"
      /\ Holds(world, patch[s]) /\ world' = Applied(world, patch[s])
  BY KindsApart DEF IInv, ThreadsOK, WorldOK, PCs, SendCommit, Committed
<1>1. PICK a \in Procs, b \in Commands : Sending(s, a, b) /\ patch[s] = SealedAt(a, num[s], b)
  BY <1>0 DEF SenderOK, Seeding
<1>2. num[s] \in Seqs /\ num[s] < MaxSeq
  BY <1>0 DEF SenderOK, Seeding, TypeOK
<1>3. PICK k \in Seqs : k = num[s] /\ k < MaxSeq /\ patch[s] = SealedAt(a, k, b)
  BY <1>1, <1>2
<1>4. b \in Bodies /\ call[s][1] = a /\ call[s][2] = b
  BY <1>1 DEF Sending, Bodies
<1>5. NumberedTo(a, k)
  <2>1. world[CounterRow(a, k)] > 0
    BY <1>0, <1>3 DEF Holds, SealedAt
  <2>2. PICK m \in Seqs : NumberedTo(a, m)
    BY <1>1 DEF Sending, Numbered
  <2>3. k \in Counters(a)
    BY <2>1 DEF Counters
  <2>4. k = m
    BY <2>2, <2>3, StartIs
  <2> QED
    BY <2>2, <2>4
<1>6. Filed(a, k, b, {})
  <2>1. /\ patch[s].adds = {InboxRow(a, k, b), CounterRow(a, k + 1)}
        /\ patch[s].dels = {CounterRow(a, k)} \cup {TimerRow(t) : t \in {}}
    BY <1>3 DEF SealedAt
  <2> QED
    BY <1>0, <1>3, <1>4, <2>1, FilingEffect
<1>7. world' \in [RowSet -> Int]
  BY <1>0, AppliedRows
<1>8. /\ Settle(s, "idle", 0) /\ call' = [call EXCEPT ![s] = NoCall]
      /\ UNCHANGED <<clock, due, sends, crashes, done>>
      /\ answered' = answered \cup {[by |-> s, actor |-> a, seq |-> k, body |-> b]}
  BY <1>3, <1>4 DEF SendCommit
<1>9. /\ pc' \in [Threads -> PCs] /\ left' \in [Threads -> 0 .. MaxTries]
      /\ patch' \in [Threads -> PatchRecord] /\ num' \in [Threads -> Seqs]
      /\ pc'[s] = "idle"
      /\ \A o \in Threads \ {s} : pc'[o] = pc[o] /\ left'[o] = left[o]
                                  /\ patch'[o] = patch[o] /\ num'[o] = num[o]
  BY <1>0, <1>8, SettleParts, TriesType
<1>10. /\ call' \in [Threads -> {NoCall} \cup (Procs \X Bodies)]
       /\ \A o \in Threads \ {s} : call'[o] = call[o]
  BY <1>0, <1>8 DEF TypeOK
<1>11. TypeOK'
  <2>1. [by |-> s, actor |-> a, seq |-> k, body |-> b] \in Answers
    BY <1>4 DEF Answers
  <2> QED
    BY <1>0, <1>7, <1>8, <1>9, <1>10, <2>1 DEF TypeOK
<1>12. OnlyAt(s)
  BY <1>8, <1>9, <1>10 DEF OnlyAt
<1>13. ThreadOK(s)'
  BY <1>0, <1>9, IdleOK
<1>14. Numbering' /\ Grows
  BY <1>0, <1>3, <1>4, <1>5, <1>6, FiledGrows
<1>15. CursorsSame /\ ThingSame
  BY <1>6 DEF Filed
<1>16. \A c \in Procs : Blank(c) => Blank(c)'
  <2>1. ~ Blank(a)
    BY <1>5 DEF Blank, NumberedTo
  <2> QED
    BY <1>0, <1>3, <1>4, <1>5, <1>6, <2>1, FiledNumbering
<1>17. ThreadsOK'
  <2>1. \A o \in Senders \ {s}, c \in Procs : Seeding(o, c) =>
          Blank(c)' /\ ~ (pc'[s] = "seed" /\ patch'[s] = SeedPatch(c))
    BY <1>9, <1>16 DEF Seeding
  <2>2. \A d \in Drivers \ {s}, n \in Seqs : CursorAt(Drives[d], n) => CursorAt(Drives[d], n)'
    BY <1>15, CursorsStand
  <2>3. clock' \in Nat /\ clock' >= clock
    BY <1>0, <1>8 DEF TypeOK
  <2> QED
    BY <1>0, <1>7, <1>12, <1>13, <1>14, <2>1, <2>2, <2>3, ThreadsStand
<1>18. WorldOK'
  <2>1. Cursors'
    BY <1>0, <1>15, CursorsStand DEF WorldOK
  <2>2. AnswersStand'
    BY <1>0, <1>4, <1>5, <1>6, <1>8, FiledAnswers DEF WorldOK
  <2>3. ProcessedOnce'
    BY <1>0, <1>7, <1>8, <1>14, <1>15, ProcessedStands DEF WorldOK, Grows
  <2>4. OneTaker'
    BY <1>0, <1>15, TakerStands DEF WorldOK
  <2>5. TimersConserved'
    BY <1>0, <1>6, <1>8, CommandConserves DEF WorldOK
  <2> QED
    BY <1>14, <2>1, <2>2, <2>3, <2>4, <2>5 DEF WorldOK
<1> QED
  BY <1>11, <1>17, <1>18 DEF IInv

LEMMA FireCommitStep ==
  ASSUME IInv, NEW f \in Firers, FireCommit(f)
  PROVE  IInv'
<1>0. /\ TypeOK /\ ThreadsOK /\ WorldOK /\ Numbering /\ f \in Threads
      /\ f \notin Senders /\ f \notin Drivers
      /\ FirerOK(f) /\ {"idle", "live"} \subseteq PCs \ {"seed"} /\ pc[f] = "commit"
      /\ due[f] # {} /\ Through(f) /\ UNCHANGED <<clock, call, history>>
      /\ Holds(world, patch[f]) /\ world' = Applied(world, patch[f])
  BY KindsApart DEF IInv, ThreadsOK, WorldOK, PCs, FireCommit, Committed, FirerOK
<1>1. PICK t \in Timers : t = Current(f) /\ t \in due[f]
  BY <1>0, CurrentIs
<1>2. Due[t] <= clock
  BY <1>0, <1>1 DEF FirerOK
<1>3. PICK k \in Seqs : k < MaxSeq /\ patch[f] = FireAt(t, k)
  BY <1>0, <1>1 DEF FirerOK
<1>4. Target[t] \in Procs /\ Numbered(Target[t]) /\ t \in Bodies
  BY <1>0, TargetNumbered
<1>5. PICK a \in Procs : a = Target[t]
  BY <1>4
<1>6. NumberedTo(a, k)
  <2>1. world[CounterRow(a, k)] > 0
    BY <1>0, <1>3, <1>5 DEF Holds, FireAt, SealedAt
  <2>2. PICK m \in Seqs : NumberedTo(a, m)
    BY <1>4, <1>5 DEF Numbered
  <2>3. k \in Counters(a)
    BY <2>1 DEF Counters
  <2>4. k = m
    BY <2>2, <2>3, StartIs
  <2> QED
    BY <2>2, <2>4
<1>7. Filed(a, k, t, {t})
  <2>1. /\ patch[f].adds = {InboxRow(a, k, t), CounterRow(a, k + 1)}
        /\ patch[f].dels = {CounterRow(a, k)} \cup {TimerRow(u) : u \in {t}}
    BY <1>3, <1>5 DEF FireAt, SealedAt
  <2> QED
    BY <1>0, <1>3, <1>4, <2>1, FilingEffect
<1>8. world' \in [RowSet -> Int]
  BY <1>0, AppliedRows
<1>9. /\ ThreadOK(f)'
      /\ due' \in [Firers -> SUBSET Timers] /\ \A g \in Firers \ {f} : due'[g] = due[g]
      /\ \/ Settle(f, "idle", 0) /\ pc'[f] = "idle"
         \/ Settle(f, "live", MaxTries) /\ pc'[f] = "live"
  BY <1>0, ThroughOK
<1>10. /\ pc' \in [Threads -> PCs] /\ left' \in [Threads -> 0 .. MaxTries]
       /\ patch' \in [Threads -> PatchRecord] /\ num' \in [Threads -> Seqs]
       /\ \A o \in Threads \ {f} : pc'[o] = pc[o] /\ left'[o] = left[o]
                                   /\ patch'[o] = patch[o] /\ num'[o] = num[o]
  BY <1>0, <1>9, SettleParts, TriesType
<1>11. TypeOK'
  BY <1>0, <1>8, <1>9, <1>10 DEF TypeOK, history
<1>12. OnlyAt(f)
  BY <1>0, <1>9, <1>10 DEF OnlyAt
<1>14. Numbering' /\ Grows
  BY <1>0, <1>3, <1>4, <1>6, <1>7, FiledGrows
<1>15. CursorsSame /\ ThingSame
  BY <1>7 DEF Filed
<1>16. \A c \in Procs : Blank(c) => Blank(c)'
  <2>1. ~ Blank(a)
    BY <1>6 DEF Blank, NumberedTo
  <2> QED
    BY <1>0, <1>3, <1>4, <1>6, <1>7, <2>1, FiledNumbering
<1>17. ThreadsOK'
  <2>1. \A o \in Senders \ {f}, c \in Procs : Seeding(o, c) =>
          Blank(c)' /\ ~ (pc'[f] = "seed" /\ patch'[f] = SeedPatch(c))
    BY <1>9, <1>16 DEF Seeding
  <2>2. \A d \in Drivers \ {f}, n \in Seqs : CursorAt(Drives[d], n) => CursorAt(Drives[d], n)'
    BY <1>15, CursorsStand
  <2>3. clock' \in Nat /\ clock' >= clock
    BY <1>0 DEF TypeOK
  <2> QED
    BY <1>0, <1>8, <1>9, <1>12, <1>14, <2>1, <2>2, <2>3, ThreadsStand
<1>18. WorldOK'
  <2>1. Cursors'
    BY <1>0, <1>15, CursorsStand DEF WorldOK
  <2>2. AnswersStand'
    <3>1. AnswersStand
      BY <1>0 DEF WorldOK
    <3>2. ASSUME NEW x \in answered
          PROVE  world'[InboxRow(x.actor, x.seq, x.body)] = 1
      <4>1. x.actor \in Procs /\ x.seq \in Seqs /\ x.body \in Bodies
        BY <1>0 DEF TypeOK, Answers
      <4>2. world[InboxRow(x.actor, x.seq, x.body)] = 1
        BY <3>1 DEF AnswersStand
      <4>3. ~ (x.actor = a /\ x.seq = k)
        BY <1>6, <4>1, <4>2, SeqsType DEF NumberedTo
      <4> QED
        BY <1>7, <4>1, <4>2, <4>3 DEF Filed
    <3> QED
      BY <1>0, <3>1, <3>2 DEF AnswersStand, history
  <2>3. ProcessedOnce'
    BY <1>0, <1>8, <1>14, <1>15, ProcessedStands DEF WorldOK, Grows, history
  <2>4. OneTaker'
    BY <1>0, <1>15, TakerStands DEF WorldOK
  <2>5. TimersConserved'
    BY <1>0, <1>2, <1>5, <1>6, <1>7, FireConserves DEF WorldOK, history
  <2> QED
    BY <1>14, <2>1, <2>2, <2>3, <2>4, <2>5 DEF WorldOK
<1> QED
  BY <1>11, <1>17, <1>18 DEF IInv

(* A blank inbox that is seeded is numbered from 0; no other is disturbed. *)
LEMMA SeededNumbering ==
  ASSUME TypeOK, Numbering, NEW a \in Procs, Blank(a), SeededNow(a)
  PROVE  /\ Numbering' /\ Grows
         /\ \A c \in Procs : c # a /\ Blank(c) => Blank(c)'
<1>0. 0 \in Seqs /\ InboxesSame
  BY SeqsType DEF SeededNow
<1>1. NumberedTo(a, 0)'
  <2>1. \A m \in Seqs : world'[CounterRow(a, m)] = IF m = 0 THEN 1 ELSE 0
    BY DEF SeededNow, Blank
  <2>2. \A n \in Seqs : ~ (n < 0)
    BY SeqsType
  <2>3. \A n \in Seqs, b \in Bodies : world'[InboxRow(a, n, b)] = 0
    BY <1>0 DEF Blank, InboxesSame
  <2> QED
    BY <2>1, <2>2, <2>3 DEF NumberedTo
<1>2. ASSUME NEW c \in Procs, c # a
      PROVE  \A n \in Seqs : world'[CounterRow(c, n)] = world[CounterRow(c, n)]
  <2>1. \A n \in Seqs : CounterRow(c, n) \in RowSet
    BY RowsIn
  <2>2. \A n \in Seqs : world[CounterRow(c, n)] \in Int
    BY <2>1 DEF TypeOK
  <2> QED
    BY <1>2, <2>2 DEF SeededNow
<1>3. ASSUME NEW c \in Procs, c # a
      PROVE  /\ \A m \in Seqs : NumberedTo(c, m) => NumberedTo(c, m)'
             /\ Blank(c) => Blank(c)'
  BY <1>0, <1>2, <1>3 DEF NumberedTo, Blank, InboxesSame
<1>4. \A c \in Procs : Numbered(c) => Numbered(c)'
  BY <1>0, <1>1, <1>3 DEF Numbered
<1>5. Numbered(a)'
  BY <1>0, <1>1 DEF Numbered
<1>6. Numbering'
  BY <1>3, <1>4, <1>5 DEF Numbering
<1>7. \A c \in Procs, n \in Seqs, e \in Bodies :
        world'[InboxRow(c, n, e)] >= world[InboxRow(c, n, e)]
  <2>1. \A c \in Procs, n \in Seqs, e \in Bodies : InboxRow(c, n, e) \in RowSet
    BY RowsIn
  <2> QED
    BY <1>0, <2>1 DEF TypeOK, InboxesSame
<1> QED
  BY <1>3, <1>4, <1>6, <1>7 DEF Grows

LEMMA SeedCommitStep ==
  ASSUME IInv, NEW s \in Senders, SeedCommit(s)
  PROVE  IInv'
<1>0. /\ TypeOK /\ ThreadsOK /\ WorldOK /\ Numbering /\ s \in Threads
      /\ s \notin Drivers /\ s \notin Firers
      /\ SenderOK(s) /\ "idle" \in PCs /\ pc[s] = "seed"
      /\ Settle(s, "idle", 0) /\ UNCHANGED <<clock, call, due, history>>
  BY KindsApart DEF IInv, ThreadsOK, WorldOK, PCs, SeedCommit
<1>1. PICK a \in Procs : Seeding(s, a)
  BY <1>0 DEF SenderOK
<1>2. Blank(a) /\ world' = Applied(world, SeedPatch(a))
  BY <1>1 DEF Seeding, SeedCommit
<1>3. SeededNow(a)
  BY <1>0, <1>2, SeedEffect
<1>4. /\ world' \in [RowSet -> Int]
      /\ Numbering' /\ Grows
      /\ \A c \in Procs : c # a /\ Blank(c) => Blank(c)'
      /\ InboxesSame /\ CursorsSame /\ ThingSame /\ TimersSame
  BY <1>0, <1>2, <1>3, AppliedRows, SeededNumbering DEF SeededNow
<1>5. /\ pc' \in [Threads -> PCs] /\ left' \in [Threads -> 0 .. MaxTries]
      /\ patch' \in [Threads -> PatchRecord] /\ num' \in [Threads -> Seqs]
      /\ pc'[s] = "idle"
      /\ \A o \in Threads \ {s} : pc'[o] = pc[o] /\ left'[o] = left[o]
                                  /\ patch'[o] = patch[o] /\ num'[o] = num[o]
  BY <1>0, SettleParts, TriesType
<1>6. TypeOK'
  BY <1>0, <1>4, <1>5 DEF TypeOK, history
<1>7. OnlyAt(s)
  BY <1>0, <1>5 DEF OnlyAt
<1>8. ThreadOK(s)'
  BY <1>0, <1>5, IdleOK
<1>9. ThreadsOK'
  <2>1. \A o \in Senders \ {s}, c \in Procs : Seeding(o, c) =>
          Blank(c)' /\ ~ (pc'[s] = "seed" /\ patch'[s] = SeedPatch(c))
    BY <1>1, <1>4, <1>5 DEF Seeding
  <2>2. \A d \in Drivers \ {s}, n \in Seqs : CursorAt(Drives[d], n) => CursorAt(Drives[d], n)'
    BY <1>4, CursorsStand
  <2>3. clock' \in Nat /\ clock' >= clock
    BY <1>0 DEF TypeOK
  <2> QED
    BY <1>0, <1>4, <1>7, <1>8, <2>1, <2>2, <2>3, ThreadsStand
<1>10. WorldOK'
  <2>1. Cursors'
    BY <1>0, <1>4, CursorsStand DEF WorldOK
  <2>2. AnswersStand'
    BY <1>0, <1>4, AnswersKept DEF WorldOK, history
  <2>3. ProcessedOnce'
    BY <1>0, <1>4, ProcessedStands DEF WorldOK, Grows, history
  <2>4. OneTaker'
    BY <1>0, <1>4, TakerStands DEF WorldOK
  <2>5. ASSUME NEW t \in Timers PROVE Conserved(t)'
    <3>1. Conserved(t) /\ Target[t] \in Procs /\ t \in Bodies
      BY <1>0, TimersConservedIs DEF WorldOK, Bodies
    <3>2. Scheduled(t)' = Scheduled(t) /\ Delivered(t)' = Delivered(t)
      BY <1>0, <1>4, <3>1 DEF Scheduled, Delivered, InboxesSame, history
    <3> QED
      BY <1>0, <1>4, <3>1, <3>2 DEF Conserved, TimersSame
  <2>6. TimersConserved'
    BY <2>5, TimersConservedNext
  <2> QED
    BY <1>4, <2>1, <2>2, <2>3, <2>4, <2>6 DEF WorldOK
<1> QED
  BY <1>6, <1>9, <1>10 DEF IInv

LEMMA StepCommitStep ==
  ASSUME IInv, NEW d \in Drivers, StepCommit(d)
  PROVE  IInv'
<1>0. /\ TypeOK /\ ThreadsOK /\ WorldOK /\ Numbering /\ d \in Threads
      /\ d \notin Senders /\ d \notin Firers /\ Drives[d] \in Procs
      /\ DriverOK(d) /\ {"idle", "position"} \subseteq PCs /\ pc[d] = "commit"
      /\ Holds(world, patch[d]) /\ world' = Applied(world, patch[d])
  BY KindsApart DEF IInv, ThreadsOK, WorldOK, PCs, StepCommit, Committed
<1>1. PICK n \in Seqs, b \in Bodies, takes \in BOOLEAN :
        /\ Placed(d, n)
        /\ call[d] = <<Drives[d], b>>
        /\ world[InboxRow(Drives[d], n, b)] > 0
        /\ patch[d] = StepAt(Drives[d], n, b, takes)
  BY <1>0 DEF DriverOK
<1>2. PICK a \in Procs : a = Drives[d]
  BY <1>0
<1>3. CursorAt(a, n) /\ num[d] = n /\ n < MaxSeq /\ world[InboxRow(a, n, b)] > 0
  BY <1>0, <1>1, <1>2, PendingBelow DEF Placed
<1>4. Stepped(a, n, b, takes)
  BY <1>0, <1>1, <1>2, StepEffect
<1>5. takes => world[Thing] > 0
  BY <1>0, <1>1 DEF Holds, StepAt
<1>6. /\ done' = Append(done, [actor |-> a, seq |-> n, body |-> b])
      /\ call' = [call EXCEPT ![d] = NoCall]
      /\ Settle(d, "idle", 0) \/ Settle(d, "position", MaxTries)
      /\ UNCHANGED <<clock, due, sends, crashes, answered>>
  BY <1>1, <1>2, <1>3 DEF StepCommit
<1>7. InboxesSame /\ CountersSame
  BY <1>4 DEF Stepped
<1>8. world' \in [RowSet -> Int]
  BY <1>0, AppliedRows
<1>9. /\ pc' \in [Threads -> PCs] /\ left' \in [Threads -> 0 .. MaxTries]
      /\ patch' \in [Threads -> PatchRecord] /\ num' \in [Threads -> Seqs]
      /\ \/ pc'[d] = "idle"
         \/ pc'[d] = "position" /\ left'[d] > 0
      /\ \A o \in Threads \ {d} : pc'[o] = pc[o] /\ left'[o] = left[o]
                                  /\ patch'[o] = patch[o] /\ num'[o] = num[o]
  <2>1. CASE Settle(d, "idle", 0)
    BY <1>0, <2>1, SettleParts, TriesType
  <2>2. CASE Settle(d, "position", MaxTries)
    BY <1>0, <2>2, SettleParts, TriesType
  <2> QED
    BY <1>6, <2>1, <2>2
<1>10. /\ call' \in [Threads -> {NoCall} \cup (Procs \X Bodies)]
       /\ \A o \in Threads \ {d} : call'[o] = call[o]
  BY <1>0, <1>6 DEF TypeOK
<1>11. done' \in Seq(Steps)
  BY <1>0, <1>6 DEF TypeOK, Steps
<1>12. TypeOK'
  BY <1>0, <1>6, <1>8, <1>9, <1>10, <1>11 DEF TypeOK
<1>13. OnlyAt(d)
  BY <1>6, <1>9, <1>10 DEF OnlyAt
<1>14. ThreadOK(d)'
  BY <1>0, <1>9 DEF ThreadOK, DriverOK, MayTry
<1>15. Numbering' /\ Grows /\ \A c \in Procs : Blank(c) => Blank(c)'
  <2>1. \A c \in Procs, m \in Seqs, e \in Bodies :
          world'[InboxRow(c, m, e)] >= world[InboxRow(c, m, e)]
    <3>1. \A c \in Procs, m \in Seqs, e \in Bodies : InboxRow(c, m, e) \in RowSet
      BY RowsIn
    <3> QED
      BY <1>0, <1>7, <3>1 DEF TypeOK, InboxesSame
  <2> QED
    BY <1>0, <1>7, <2>1, NumberingStands DEF Grows
<1>16. ThreadsOK'
  <2>1. \A o \in Senders \ {d}, c \in Procs : Seeding(o, c) =>
          Blank(c)' /\ ~ (pc'[d] = "seed" /\ patch'[d] = SeedPatch(c))
    BY <1>9, <1>15 DEF Seeding
  <2>2. ASSUME NEW e \in Drivers \ {d}, NEW m \in Seqs, CursorAt(Drives[e], m)
        PROVE  CursorAt(Drives[e], m)'
    <3>1. Drives[e] # a /\ Drives[e] \in Procs
      BY <1>2
    <3> QED
      BY <1>0, <1>3, <1>4, <2>2, <3>1, SteppedCursors
  <2>3. clock' \in Nat /\ clock' >= clock
    BY <1>0, <1>6 DEF TypeOK
  <2> QED
    BY <1>0, <1>8, <1>13, <1>14, <1>15, <2>1, <2>2, <2>3, ThreadsStand
<1>17. WorldOK'
  <2>1. Cursors'
    BY <1>0, <1>3, <1>4, CursorsAdvance DEF WorldOK
  <2>2. AnswersStand'
    BY <1>0, <1>6, <1>7, AnswersKept DEF WorldOK
  <2>3. ProcessedOnce'
    BY <1>0, <1>3, <1>4, <1>6, SteppedProcessed DEF WorldOK
  <2>4. OneTaker'
    BY <1>0, <1>4, <1>5, SteppedTaker DEF WorldOK
  <2>5. TimersConserved'
    BY <1>0, <1>4, <1>6, StepConserves DEF WorldOK
  <2> QED
    BY <1>15, <2>1, <2>2, <2>3, <2>4, <2>5 DEF WorldOK
<1> QED
  BY <1>12, <1>16, <1>17 DEF IInv

----------------------------------------------------------------------------
(* The invariant holds.                                                    *)

LEMMA InitIInv == Init => IInv
<1> SUFFICES ASSUME Init PROVE IInv
  OBVIOUS
<1>0. 0 \in Seqs /\ \A n \in Seqs : n = 0 \/ n > 0
  BY SeqsType
<1>1. TypeOK
  BY <1>0, NoPatchType, TriesType DEF Init, TypeOK, PCs
<1>2. ThreadsOK
  BY DEF Init, ThreadsOK, SenderOK, DriverOK, FirerOK, MayTry, Threads
<1>3. \A r \in RowSet : world[r] =
        IF r = Thing \/ r \in {CounterRow(a, 0) : a \in Seeded} THEN 1 ELSE 0
  BY DEF Init
<1>4. \A a \in Procs, n \in Seqs : world[CounterRow(a, n)] = IF a \in Seeded /\ n = 0 THEN 1 ELSE 0
  <2>1. ASSUME NEW a \in Procs, NEW n \in Seqs
        PROVE  /\ CounterRow(a, n) \in RowSet /\ CounterRow(a, n) # Thing
               /\ CounterRow(a, n) \in {CounterRow(c, 0) : c \in Seeded} <=> a \in Seeded /\ n = 0
    BY RowsIn, CounterApart
  <2> QED
    BY <1>3, <2>1
<1>5. \A a \in Procs, n \in Seqs, b \in Bodies : world[InboxRow(a, n, b)] = 0
  <2>1. ASSUME NEW a \in Procs, NEW n \in Seqs, NEW b \in Bodies
        PROVE  /\ InboxRow(a, n, b) \in RowSet /\ InboxRow(a, n, b) # Thing
               /\ InboxRow(a, n, b) \notin {CounterRow(c, 0) : c \in Seeded}
    <3>1. InboxRow(a, n, b) \in RowSet
      BY RowsIn
    <3> QED
      BY <3>1, InboxApart
  <2> QED
    BY <1>3, <2>1
<1>6. \A a \in Procs, n \in Seqs : world[CursorRow(a, n)] = 0
  <2>1. ASSUME NEW a \in Procs, NEW n \in Seqs
        PROVE  /\ CursorRow(a, n) \in RowSet /\ CursorRow(a, n) # Thing
               /\ CursorRow(a, n) \notin {CounterRow(c, 0) : c \in Seeded}
    BY RowsIn, CursorApart, CounterApart
  <2> QED
    BY <1>3, <2>1
<1>7. \A t \in Timers : world[TimerRow(t)] = 0
  <2>1. ASSUME NEW t \in Timers
        PROVE  /\ TimerRow(t) \in RowSet /\ TimerRow(t) # Thing
               /\ TimerRow(t) \notin {CounterRow(c, 0) : c \in Seeded}
    <3>1. TimerRow(t) \in RowSet
      BY RowsIn
    <3> QED
      BY <3>1, TimerApart, CounterApart
  <2> QED
    BY <1>3, <2>1
<1>8. Numbering
  <2>1. ASSUME NEW a \in Procs, a \in Seeded PROVE Numbered(a)
    <3>1. \A m \in Seqs : world[CounterRow(a, m)] = IF m = 0 THEN 1 ELSE 0
      BY <1>4, <2>1
    <3>2. \A n \in Seqs : ~ (n < 0)
      BY SeqsType
    <3>3. NumberedTo(a, 0)
      BY <1>5, <3>1, <3>2 DEF NumberedTo
    <3> QED
      BY <1>0, <3>3 DEF Numbered
  <2>2. ASSUME NEW a \in Procs, a \notin Seeded PROVE Blank(a)
    BY <1>4, <1>5, <2>2 DEF Blank
  <2> QED
    BY <2>1, <2>2 DEF Numbering
<1>9. \A a \in Procs : CursorAt(a, 0)
  BY <1>6 DEF CursorAt
<1>10. Cursors
  BY <1>0, <1>9 DEF Cursors
<1>11. AnswersStand
  BY DEF Init, AnswersStand
<1>12. done = << >> /\ DOMAIN done = {} /\ answered = {}
  BY DEF Init
<1>13. ProcessedOnce
  <2>1. \A a \in Procs : Position(a) = 0
    BY <1>0, <1>9, PositionIs
  <2>2. \A a \in Procs : \A n \in Seqs : ~ (n < Position(a))
    BY <1>0, <2>1, SeqsType
  <2> QED
    BY <1>12, <2>2 DEF ProcessedOnce
<1>14. OneTaker
  <2>1. world[Thing] = 1
    BY <1>3, RowsIn
  <2>2. \A a \in Procs : world[Got(a)] = 0
    <3>1. ASSUME NEW a \in Procs
          PROVE  /\ Got(a) \in RowSet /\ Got(a) # Thing
                 /\ Got(a) \notin {CounterRow(c, 0) : c \in Seeded}
      <4>1. Got(a) \in RowSet
        BY RowsIn
      <4> QED
        BY <4>1, TimerApart, CounterApart
    <3> QED
      BY <1>3, <3>1
  <2> QED
    BY <2>1, <2>2, TimerApart DEF OneTaker
<1>15. ASSUME NEW t \in Timers PROVE Conserved(t)
  <2>1. Scheduled(t) = {}
    BY <1>12 DEF Scheduled
  <2>2. Delivered(t) = {}
    BY <1>5 DEF Delivered, Bodies
  <2> QED
    BY <1>7, <2>1, <2>2, FS_EmptySet DEF Conserved
<1>16. TimersConserved
  BY <1>15, TimersConservedIs
<1> QED
  BY <1>1, <1>2, <1>8, <1>10, <1>11, <1>13, <1>14, <1>16 DEF IInv, WorldOK

LEMMA StutterStep ==
  ASSUME IInv, UNCHANGED vars
  PROVE  IInv'
<1>0. TypeOK /\ ThreadsOK /\ WorldOK
  BY DEF IInv
<1>1. UNCHANGED <<world, clock, pc, call, num, patch, left, due, sends, crashes, answered, done>>
  BY DEF vars, locals, history
<1>2. TypeOK'
  BY <1>0, <1>1 DEF TypeOK
<1>3. WorldOK'
  BY <1>0, <1>1, WorldStands DEF TypeOK
<1>4. ThreadsOK'
  <2>1. ASSUME NEW s \in Senders PROVE SenderOK(s)'
    <3>1. SenderOK(s)
      BY <1>0 DEF ThreadsOK
    <3> QED BY <1>1, <3>1 DEF SenderOK, Sending, Seeding, Numbered, NumberedTo, Blank
  <2>2. ASSUME NEW d \in Drivers PROVE DriverOK(d)'
    <3>1. DriverOK(d)
      BY <1>0 DEF ThreadsOK
    <3> QED BY <1>1, <3>1 DEF DriverOK, Placed, CursorAt
  <2>3. ASSUME NEW f \in Firers PROVE FirerOK(f)'
    <3>1. FirerOK(f)
      BY <1>0 DEF ThreadsOK
    <3> QED BY <1>1, <3>1 DEF FirerOK, Current
  <2>4. ASSUME NEW th \in Threads PROVE MayTry(th)'
    BY <1>0, <1>1 DEF ThreadsOK, MayTry
  <2> QED BY <2>1, <2>2, <2>3, <2>4 DEF ThreadsOK
<1> QED
  BY <1>2, <1>3, <1>4 DEF IInv

LEMMA Inductive == IInv /\ [Next]_vars => IInv'
<1> SUFFICES ASSUME IInv, [Next]_vars PROVE IInv'
  OBVIOUS
<1>1. ASSUME NEW s \in Senders, Send(s) PROVE IInv'
  BY <1>1, SendNumberStep, SendCommitStep, SendRejectedStep, SeedCommitStep DEF Send
<1>2. ASSUME NEW s \in Senders, NEW a \in Procs,
             SeedStart(s, a) \/ \E b \in Commands : SendStart(s, a, b)
      PROVE  IInv'
  BY <1>2, SeedStartStep, SendStartStep
<1>3. ASSUME NEW d \in Drivers, Drive(d) \/ DriveStart(d) PROVE IInv'
  BY <1>3, DriveStartStep, ReadPositionStep, PrepareStep, InboxIdleStep, StepCommitStep,
     StepRejectedStep DEF Drive
<1>4. ASSUME NEW f \in Firers, FireAll(f) \/ FireStart(f) PROVE IInv'
  BY <1>4, FireStartStep, FireLiveStep, FireGoneStep, FireNumberStep, FireCommitStep,
     FireRejectedStep DEF FireAll
<1>5. ASSUME NEW ms \in 1 .. MaxTime, Sample(ms) PROVE IInv'
  BY <1>5, SampleStep
<1>6. CASE Crash
  BY <1>6, CrashStep
<1>7. CASE UNCHANGED vars
  BY <1>7, StutterStep
<1> QED
  BY <1>1, <1>2, <1>3, <1>4, <1>5, <1>6, <1>7 DEF Next

LEMMA SpecIInv == Spec => []IInv
  BY InitIInv, Inductive, PTL DEF Spec

(* A world whose numbering is as the invariant says is as the run's        *)
(* property says.                                                          *)
LEMMA NumberingContiguous == TypeOK /\ Numbering => NumbersContiguous
<1> SUFFICES ASSUME TypeOK, Numbering, NEW a \in Procs, NEW k \in Counters(a)
             PROVE  NumberedTo(a, k)
  BY DEF NumbersContiguous, NumberedTo
<1>1. Numbered(a)
  BY CountersNumbered
<1>2. PICK m \in Seqs : NumberedTo(a, m)
  BY <1>1 DEF Numbered
<1>3. k = m
  BY <1>2, StartIs
<1> QED
  BY <1>2, <1>3

(* Every reachable state is well typed.                                    *)
THEOREM ActorsTypeCorrect == Spec => []TypeOK
<1>1. IInv => TypeOK
  BY DEF IInv
<1> QED
  BY <1>1, SpecIInv, PTL

(* However senders, firers and a seeding race and whatever crashes, an     *)
(* inbox's numbers have no gap and no double and every number enqueue_seq  *)
(* returned is its message's alone (SeqAlloc::seal's guard).               *)
THEOREM InboxStaysNumbered == Spec => []InboxNumbered
<1>1. IInv => InboxNumbered
  BY NumberingContiguous DEF IInv, WorldOK, InboxNumbered
<1> QED
  BY <1>1, SpecIInv, PTL

(* Every message before the cursor was processed once and in order, though *)
(* the cursor move requires nothing; and the contested thing goes to one.  *)
THEOREM MessagesTakeEffectOnce == Spec => []ExactlyOnce
<1>1. IInv => ExactlyOnce
  BY DEF IInv, WorldOK, ExactlyOnce
<1> QED
  BY <1>1, SpecIInv, PTL

(* A timer is delivered exactly as often as it was scheduled and never     *)
(* early, whoever races to fire it (Scheduler::fire_one).                  *)
THEOREM TimersStayConserved == Spec => []TimersConserved
<1>1. IInv => TimersConserved
  BY DEF IInv, WorldOK
<1> QED
  BY <1>1, SpecIInv, PTL
============================================================================
