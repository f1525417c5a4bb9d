--------------------------- MODULE SessionsProofs ---------------------------
(***************************************************************************)
(* Three properties of the sessions, for any connections, names, commands, *)
(* lost sockets and crashes.                                               *)
(*                                                                         *)
(* Identities (IInv): whoever gives out an id requires the row of the      *)
(* counter it read, so of two that read one number one commits.  That no   *)
(* other login has taken the name meanwhile follows from the same row:     *)
(* every birth moves the counter, hence a patch whose number is still the  *)
(* counter's was made after the last birth.                                *)
(*                                                                         *)
(* AnsweredOnce (AInv): a player's inbox is numbered without a gap up to   *)
(* its counter; the lines below its cursor were handled, and each was told *)
(* of in an edition of its own.  A connection has heard what was told from *)
(* the edition it was bound at to its place, each once.                    *)
(*                                                                         *)
(* NothingSkipped (PInv): a player's mail is numbered without a gap up to  *)
(* its counter and holds what the editions up to its watch cursor named;   *)
(* the two rows are moved by one commit that requires both.  A place in    *)
(* the mail is only stored once everything below it is written.            *)
(***************************************************************************)
EXTENDS Sessions, MultisetsProofs, FiniteSetTheorems, WellFoundedInduction

USE SessionsAssumption

IdRow(k) == <<"ids", NoOne, k>>
PlayerRow(e, name) == <<"player", e, name>>
NamedRow(e) == <<"named", e, 0>>

(* The rows that ids are given out by, and to. *)
Ours(S) == {r \in S : r[1] \in {"ids", "player", "named"}}

PCs == {"closed", "login", "spawn", "spawning", "bind", "line", "number", "enqueue",
        "position", "prepare", "step", "drain", "replies", "watch", "install",
        "push", "pump", "delivery", "mail", "advance"}

TypeOK ==
  /\ Proper(world)
  /\ pc \in [Conns -> PCs]
  /\ who = [c \in Conns |-> who[c]]
  /\ job = [c \in Conns |-> job[c]]

Once == \A r \in Ours(DOMAIN world) : world[r] = 1

Known(name) == \E r \in Rows("player") : r[3] = name
OneEach == \A r, q \in Rows("player") : r[3] = q[3] => r = q
Ident == \A c \in Conns : who[c] # NoOne => PlayerRow(who[c], Name[c]) \in DOMAIN world

(* The ids below k have been given out. *)
GivenTo(k) ==
  /\ \A r \in Rows("ids") : r = IdRow(k)
  /\ IdRow(k) \in DOMAIN world
  /\ \A r \in Rows("player") : \E e \in 1 .. k - 1 : \E name : r = PlayerRow(e, name)
  /\ \A r \in Rows("named") : \E e \in 1 .. k - 1 : r = NamedRow(e)

(* A patch under way takes an id that was the counter's; a birth whose     *)
(* number still is, is of a name nobody has.                               *)
Takes(p, e, rows) ==
  /\ IdRow(e) \in p.pre /\ Ours(p.dels) = {IdRow(e)}
  /\ Ours(p.adds) = {IdRow(e + 1), NamedRow(e)} \cup rows
Spawning(c, k) ==
  \E e \in 1 .. k : /\ job[c].at = e
                    /\ Takes(job[c], e, {PlayerRow(e, Name[c])})
                    /\ e = k => ~ Known(Name[c])
Naming(c, k) == \E e \in 1 .. k : Takes(job[c], e, {})
Aside(c) == Ours(job[c].adds) = {} /\ Ours(job[c].dels) = {}
Fits(c, k) ==
  /\ pc[c] = "spawning" => Spawning(c, k)
  /\ pc[c] = "step" => Naming(c, k)
  /\ pc[c] \in {"enqueue", "install", "pump", "advance"} => Aside(c)

Numbered(k) == GivenTo(k) /\ \A c \in Conns : Fits(c, k)

IInv == /\ TypeOK /\ Once /\ OneEach /\ Ident
        /\ \E k \in Nat \ {0} : Numbered(k)

-----------------------------------------------------------------------------
(* What a commit does to the rows.                                         *)

(* A commit adds one to each row it asserts and takes one from each it     *)
(* retracts.                                                               *)
LEMMA CommitWeight ==
  ASSUME TypeOK, NEW c \in Conns, Committed(c)
  PROVE  /\ Proper(world')
         /\ \A r : Weight(world', r) = Weight(world, r) + One(r \in job[c].adds)
                                         - One(r \in job[c].dels)
<1> DEFINE A == [r \in job[c].adds |-> 1]
           D == [r \in job[c].dels |-> -1]
           M == Merge(A, D)
<1>0. Proper(world)
  BY DEF TypeOK
<1>1. Proper(A) /\ \A r : Weight(A, r) = One(r \in job[c].adds)
  BY DEF Proper, Weight, One
<1>2. Proper(D) /\ \A r : Weight(D, r) = 0 - One(r \in job[c].dels)
  BY DEF Proper, Weight, One
<1>3. Proper(M) /\ \A r : Weight(M, r) = Weight(A, r) + Weight(D, r)
  <2> HIDE DEF A, D
  <2> QED BY <1>1, <1>2, MergeWeight
<1>4. world' = Merge(world, M)
  BY DEF Committed
<1>5. /\ Proper(Merge(world, M))
      /\ \A r : Weight(Merge(world, M), r) = Weight(world, r) + Weight(M, r)
  <2> HIDE DEF M
  <2> QED BY <1>0, <1>3, MergeWeight
<1>6. ASSUME NEW r
      PROVE  Weight(world', r) = Weight(world, r) + One(r \in job[c].adds)
                                   - One(r \in job[c].dels)
  <2>1. Weight(world', r) = Weight(world, r) + (Weight(A, r) + Weight(D, r))
    <3> HIDE DEF M, A, D
    <3> QED BY <1>3, <1>4, <1>5
  <2>2. Weight(world, r) \in Int
    BY <1>0, WeightIn
  <2>3. Weight(A, r) = One(r \in job[c].adds) /\ Weight(D, r) = 0 - One(r \in job[c].dels)
    BY <1>1, <1>2
  <2>4. One(r \in job[c].adds) \in Int /\ One(r \in job[c].dels) \in Int
    BY DEF One
  <2> HIDE DEF A, D
  <2> QED BY <2>1, <2>2, <2>3, <2>4
<1> QED
  BY <1>4, <1>5, <1>6

(* One row: as it was, asserted, or retracted. *)
LEMMA CommitRow ==
  ASSUME TypeOK, NEW c \in Conns, Committed(c), NEW r, r \in DOMAIN world => world[r] = 1
  PROVE  /\ r \notin job[c].adds /\ r \notin job[c].dels =>
              (r \in DOMAIN world' <=> r \in DOMAIN world)
         /\ r \in job[c].adds /\ r \notin job[c].dels /\ r \notin DOMAIN world =>
              r \in DOMAIN world' /\ world'[r] = 1
         /\ r \notin job[c].adds /\ r \in job[c].dels /\ r \in DOMAIN world =>
              r \notin DOMAIN world'
         /\ r \notin job[c].adds /\ r \notin job[c].dels /\ r \in DOMAIN world =>
              world'[r] = 1
<1>1. Weight(world', r) = Weight(world, r) + One(r \in job[c].adds) - One(r \in job[c].dels)
  BY CommitWeight
<1>2. /\ Proper(world) /\ Proper(world')
  BY CommitWeight DEF TypeOK
<1>3. /\ Weight(world, r) \in Int
      /\ r \in DOMAIN world <=> Weight(world, r) # 0
      /\ r \in DOMAIN world => world[r] = Weight(world, r)
  BY <1>2, WeightIn
<1>4. /\ r \in DOMAIN world' <=> Weight(world', r) # 0
      /\ r \in DOMAIN world' => world'[r] = Weight(world', r)
  BY <1>2, WeightIn
<1>5. r \in DOMAIN world => Weight(world, r) = 1
  BY <1>3
<1>6. CASE r \notin job[c].adds /\ r \notin job[c].dels
  <2>1. Weight(world', r) = Weight(world, r)
    BY <1>1, <1>3, <1>6 DEF One
  <2> QED BY <2>1, <1>3, <1>4, <1>5, <1>6
<1>7. CASE r \in job[c].adds /\ r \notin job[c].dels
  <2>1. Weight(world', r) = Weight(world, r) + 1
    BY <1>1, <1>3, <1>7 DEF One
  <2> QED BY <2>1, <1>3, <1>4, <1>7
<1>8. CASE r \notin job[c].adds /\ r \in job[c].dels
  <2>1. Weight(world', r) = Weight(world, r) - 1
    BY <1>1, <1>3, <1>8 DEF One
  <2> QED BY <2>1, <1>3, <1>4, <1>5, <1>8
<1> QED
  BY <1>6, <1>7, <1>8

(* Rows that nothing of a patch touches stay. *)
LEMMA AsideCommit ==
  ASSUME TypeOK, Once, NEW c \in Conns, Committed(c), Aside(c)
  PROVE  Proper(world') /\ Ours(DOMAIN world') = Ours(DOMAIN world) /\ Once'
<1>1. Proper(world')
  BY CommitWeight
<1>2. ASSUME NEW r, r[1] \in {"ids", "player", "named"}
      PROVE  /\ r \in DOMAIN world' <=> r \in DOMAIN world
             /\ r \in DOMAIN world => world'[r] = 1
  <2>1. r \notin job[c].adds /\ r \notin job[c].dels
    BY <1>2 DEF Aside, Ours
  <2>2. r \in DOMAIN world => world[r] = 1
    BY <1>2 DEF Once, Ours
  <2> QED BY <2>1, <2>2, CommitRow
<1>3. Ours(DOMAIN world') = Ours(DOMAIN world)
  BY <1>2 DEF Ours
<1>4. Once'
  BY <1>2 DEF Once, Ours
<1> QED
  BY <1>1, <1>3, <1>4

(* A patch that takes an id commits only while the id is the counter's,    *)
(* and leaves the rows it found, the counter's moved on, and its own.      *)
LEMMA TakesCommit ==
  ASSUME TypeOK, Once, NEW k \in Nat \ {0}, GivenTo(k), NEW c \in Conns, Committed(c),
         NEW e \in 1 .. k, NEW rows, Takes(job[c], e, rows),
         rows = {} \/ \E name : rows = {PlayerRow(e, name)}
  PROVE  /\ e = k /\ Proper(world') /\ Once'
         /\ Ours(DOMAIN world') = (Ours(DOMAIN world) \ {IdRow(k)})
                                     \cup {IdRow(k + 1), NamedRow(k)} \cup rows
<1>0. Proper(world')
  BY CommitWeight
<1>1. e = k
  <2>1. Weight(world, IdRow(e)) > 0
    BY DEF Committed, Holds, Takes
  <2>2. IdRow(e) \in Rows("ids")
    BY <2>1 DEF Weight, Rows, IdRow
  <2>3. IdRow(e) = IdRow(k)
    BY <2>2 DEF GivenTo
  <2> QED BY <2>3 DEF IdRow
<1>2. IdRow(k) \in DOMAIN world /\ IdRow(k + 1) \notin DOMAIN world
  BY DEF GivenTo, Rows, IdRow
<1>3. NamedRow(k) \notin DOMAIN world
  <2>1. ASSUME NamedRow(k) \in DOMAIN world PROVE FALSE
    <3>1. NamedRow(k) \in Rows("named")
      BY <2>1 DEF Rows, NamedRow
    <3>2. PICK f \in 1 .. k - 1 : NamedRow(k) = NamedRow(f)
      BY <3>1 DEF GivenTo
    <3> QED BY <3>2 DEF NamedRow
  <2> QED BY <2>1
<1>4. ASSUME NEW name PROVE PlayerRow(k, name) \notin DOMAIN world
  <2>1. ASSUME PlayerRow(k, name) \in DOMAIN world PROVE FALSE
    <3>1. PlayerRow(k, name) \in Rows("player")
      BY <2>1 DEF Rows, PlayerRow
    <3>2. PICK f \in 1 .. k - 1 : \E nm : PlayerRow(k, name) = PlayerRow(f, nm)
      BY <3>1 DEF GivenTo
    <3> QED BY <3>2 DEF PlayerRow
  <2> QED BY <2>1
<1>5. \A r \in rows : r \notin DOMAIN world /\ r[1] = "player"
  BY <1>1, <1>4 DEF PlayerRow
<1>6. /\ IdRow(k)[1] = "ids" /\ IdRow(k + 1)[1] = "ids" /\ NamedRow(k)[1] = "named"
      /\ IdRow(k) # IdRow(k + 1) /\ IdRow(k) # NamedRow(k)
  BY DEF IdRow, NamedRow
<1> DEFINE New == {IdRow(k + 1), NamedRow(k)} \cup rows
<1>7. /\ Ours(job[c].adds) = New /\ Ours(job[c].dels) = {IdRow(k)}
  BY <1>1 DEF Takes
<1>8. \A r \in New : r \notin DOMAIN world /\ r[1] \in {"ids", "player", "named"} /\ r # IdRow(k)
  BY <1>2, <1>3, <1>5, <1>6
<1>9. ASSUME NEW r, r[1] \in {"ids", "player", "named"}
      PROVE  /\ r \in DOMAIN world' <=> (r \in DOMAIN world /\ r # IdRow(k)) \/ r \in New
             /\ r \in DOMAIN world' => world'[r] = 1
  <2>1. /\ r \in job[c].adds <=> r \in New
        /\ r \in job[c].dels <=> r = IdRow(k)
    <3> HIDE DEF New
    <3> QED BY <1>7, <1>9 DEF Ours
  <2>2. r \in DOMAIN world => world[r] = 1
    BY <1>9 DEF Once, Ours
  <2> HIDE DEF New
  <2> QED BY <1>2, <1>8, <1>9, <2>1, <2>2, CommitRow
<1>10. Once'
  BY <1>9 DEF Once, Ours
<1>11. Ours(DOMAIN world') = (Ours(DOMAIN world) \ {IdRow(k)}) \cup New
  <2> HIDE DEF New
  <2> QED BY <1>8, <1>9 DEF Ours
<1> QED
  BY <1>0, <1>1, <1>10, <1>11

-----------------------------------------------------------------------------
(* Steps that give out nothing.                                            *)

Busy == {"spawning", "step", "enqueue", "install", "pump", "advance"}

(* A thread that did not move, or has no patch in hand any more. *)
Rests(d) == \/ pc'[d] = pc[d] /\ job'[d] = job[d]
            \/ pc'[d] \notin Busy

(* A patch still fits while no counter and no name it goes by has moved. *)
LEMMA FitsKept ==
  ASSUME NEW k \in Nat \ {0}, NEW d \in Conns, Fits(d, k), Rests(d),
         Known(Name[d])' => Known(Name[d])
  PROVE  Fits(d, k)'
<1>1. CASE pc'[d] \notin Busy
  BY <1>1 DEF Fits, Busy
<1>2. CASE pc'[d] = pc[d] /\ job'[d] = job[d]
  <2>1. Spawning(d, k) => Spawning(d, k)'
    BY <1>2 DEF Spawning
  <2>2. Naming(d, k) => Naming(d, k)'
    BY <1>2 DEF Naming
  <2>3. Aside(d) => Aside(d)'
    BY <1>2 DEF Aside
  <2> QED BY <1>2, <2>1, <2>2, <2>3 DEF Fits
<1> QED
  BY <1>1, <1>2 DEF Rests

(* Nobody's identity is another's. *)
Keeps(d) == \/ who'[d] = who[d] \/ who'[d] = NoOne
            \/ PlayerRow(who'[d], Name[d]) \in DOMAIN world

(* The rows are as they were but for others than Ours. *)
LEMMA SameRows ==
  ASSUME IInv, TypeOK', Once', Ours(DOMAIN world') = Ours(DOMAIN world),
         \A d \in Conns : Keeps(d),
         \A k \in Nat \ {0} : \A d \in Conns : Numbered(k) => Rests(d) \/ Fits(d, k)'
  PROVE  IInv'
<1>1. PICK k \in Nat \ {0} : Numbered(k)
  BY DEF IInv
<1>2. /\ Rows("ids")' = Rows("ids") /\ Rows("player")' = Rows("player")
      /\ Rows("named")' = Rows("named")
  BY DEF Rows, Ours
<1>3. OneEach'
  BY <1>2 DEF IInv, OneEach
<1>4. Ident'
  <2> SUFFICES ASSUME NEW c \in Conns, who'[c] # NoOne
               PROVE  PlayerRow(who'[c], Name[c]) \in DOMAIN world'
    BY DEF Ident
  <2>1. PlayerRow(who'[c], Name[c]) \in DOMAIN world
    BY DEF IInv, Ident, Keeps
  <2> QED BY <2>1 DEF Ours, PlayerRow
<1>5. GivenTo(k)'
  <2>1. IdRow(k) \in DOMAIN world'
    BY <1>1 DEF Numbered, GivenTo, Ours, IdRow
  <2> QED BY <1>1, <1>2, <2>1 DEF Numbered, GivenTo
<1>6. \A name : Known(name)' <=> Known(name)
  BY <1>2 DEF Known
<1>7. ASSUME NEW d \in Conns PROVE Fits(d, k)'
  <2>1. CASE Rests(d)
    BY <1>1, <1>6, <2>1, FitsKept DEF Numbered
  <2>2. CASE Fits(d, k)'
    BY <2>2
  <2> QED BY <1>1, <2>1, <2>2
<1>8. Numbered(k)'
  BY <1>5, <1>7 DEF Numbered
<1> QED
  BY <1>3, <1>4, <1>8 DEF IInv

(* A step that commits nothing keeps the invariant. *)
LEMMA QuietStep ==
  ASSUME IInv, UNCHANGED world, pc' \in [Conns -> PCs],
         job' = [c \in Conns |-> job'[c]], who' = [c \in Conns |-> who'[c]],
         \A d \in Conns : Keeps(d) /\ Rests(d)
  PROVE  IInv'
<1>1. TypeOK' /\ Once' /\ Ours(DOMAIN world') = Ours(DOMAIN world)
  BY DEF IInv, TypeOK, Once
<1> QED
  BY <1>1, SameRows

(* A thread goes on with no patch to commit. *)
LEMMA MoveStep ==
  ASSUME IInv, NEW c \in Conns, NEW at \in PCs \ Busy, UNCHANGED <<world, who>>,
         pc' = [pc EXCEPT ![c] = at],
         job' = job \/ \E p : job' = [job EXCEPT ![c] = p]
  PROVE  IInv'
<1>1. TypeOK
  BY DEF IInv
<1>2. /\ pc' \in [Conns -> PCs] /\ pc'[c] = at
      /\ \A d \in Conns \ {c} : pc'[d] = pc[d]
  BY <1>1 DEF TypeOK
<1>3. job' = [d \in Conns |-> job'[d]] /\ \A d \in Conns \ {c} : job'[d] = job[d]
  BY <1>1 DEF TypeOK
<1>4. who' = [d \in Conns |-> who'[d]]
  BY <1>1 DEF TypeOK
<1>5. \A d \in Conns : Keeps(d) /\ Rests(d)
  BY <1>2, <1>3 DEF Keeps, Rests
<1> QED
  BY <1>2, <1>3, <1>4, <1>5, QuietStep

(* Connections end. *)
LEMMA ForgetStep ==
  ASSUME IInv, NEW S \in SUBSET Conns, UNCHANGED world, Forget(S)
  PROVE  IInv'
<1>1. TypeOK
  BY DEF IInv
<1>2. pc' \in [Conns -> PCs]
  BY <1>1 DEF TypeOK, Forget, PCs
<1>3. job' = [d \in Conns |-> job'[d]] /\ who' = [d \in Conns |-> who'[d]]
  BY DEF Forget
<1>4. \A d \in Conns : Keeps(d) /\ Rests(d)
  BY DEF Forget, Keeps, Rests, Busy
<1> QED
  BY <1>2, <1>3, <1>4, QuietStep

(* A thread has a patch in hand. *)
LEMMA ProposeStep ==
  ASSUME IInv, NEW c \in Conns, NEW at \in Busy, NEW p, UNCHANGED <<world, who>>,
         Propose(c, p), Go(c, at),
         \A k \in Nat \ {0} : Numbered(k) => Fits(c, k)'
  PROVE  IInv'
<1>1. TypeOK
  BY DEF IInv
<1>2. pc' \in [Conns -> PCs] /\ \A d \in Conns \ {c} : pc'[d] = pc[d]
  BY <1>1 DEF TypeOK, Go, Busy, PCs
<1>3. job' = [d \in Conns |-> job'[d]] /\ \A d \in Conns \ {c} : job'[d] = job[d]
  BY <1>1 DEF TypeOK, Propose
<1>4. TypeOK' /\ Once' /\ Ours(DOMAIN world') = Ours(DOMAIN world)
  BY <1>2, <1>3 DEF IInv, TypeOK, Once
<1>5. \A d \in Conns \ {c} : Rests(d)
  BY <1>2, <1>3 DEF Rests
<1>6. \A d \in Conns : Keeps(d)
  BY DEF Keeps
<1>7. \A k \in Nat \ {0} : \A d \in Conns : Numbered(k) => Rests(d) \/ Fits(d, k)'
  BY <1>5
<1> QED
  BY <1>4, <1>6, <1>7, SameRows

(* A commit that touches none of our rows keeps it. *)
LEMMA ProposeAside ==
  ASSUME IInv, NEW c \in Conns, NEW at \in Busy \ {"spawning", "step"}, NEW p,
         UNCHANGED <<world, who>>, Propose(c, p), Go(c, at),
         \A r \in p.adds \cup p.dels : r[1] \notin {"ids", "player", "named"}
  PROVE  IInv'
<1>1. job'[c] = p /\ pc'[c] = at
  BY DEF IInv, TypeOK, Propose, Go
<1>2. Aside(c)'
  BY <1>1 DEF Aside, Ours
<1>3. ASSUME NEW k \in Nat \ {0} PROVE Fits(c, k)'
  BY <1>1, <1>2 DEF Fits
<1> QED
  BY <1>3, ProposeStep

(* A patch that has nothing of Ours commits. *)
LEMMA AsideStep ==
  ASSUME IInv, NEW c \in Conns, pc[c] \in Busy \ {"spawning", "step"}, Committed(c),
         NEW at \in PCs \ Busy, Drop(c), Begin(c, at), UNCHANGED who
  PROVE  IInv'
<1>1. TypeOK /\ Once
  BY DEF IInv
<1>2. PICK k \in Nat \ {0} : Numbered(k)
  BY DEF IInv
<1>3. Aside(c)
  BY <1>2 DEF Numbered, Fits, Busy
<1>4. Proper(world') /\ Ours(DOMAIN world') = Ours(DOMAIN world) /\ Once'
  BY <1>1, <1>3, AsideCommit
<1>5. /\ pc' \in [Conns -> PCs] /\ pc'[c] = at
      /\ \A d \in Conns \ {c} : pc'[d] = pc[d]
  BY <1>1 DEF TypeOK, Begin
<1>6. job' = [d \in Conns |-> job'[d]] /\ \A d \in Conns \ {c} : job'[d] = job[d]
  BY <1>1 DEF TypeOK, Drop, Propose
<1>7. TypeOK'
  BY <1>1, <1>4, <1>5, <1>6 DEF TypeOK
<1>8. \A d \in Conns : Keeps(d) /\ Rests(d)
  BY <1>5, <1>6 DEF Keeps, Rests
<1> QED
  BY <1>4, <1>7, <1>8, SameRows

-----------------------------------------------------------------------------
(* Patches. *)

IsPatch(p) == DOMAIN p = {"pre", "adds", "dels", "at"}

(* The parts of a patch with its counter moved on. *)
LEMMA BumpedParts ==
  ASSUME NEW p, IsPatch(p), NEW rel, NEW e, NEW k
  PROVE  LET row == IF Numbers(rel, e) = {} THEN {} ELSE {<<rel, e, Counter(rel, e)>>}
             b == Bumped(p, rel, e, k)
         IN  /\ IsPatch(b) /\ b.at = p.at
             /\ b.pre = p.pre \cup row /\ b.dels = p.dels \cup row
             /\ b.adds = p.adds \cup {<<rel, e, Counter(rel, e) + k>>}
BY DEF Bumped, IsPatch

(* The counter of ids is its one row's number. *)
LEMMA IdsCounter ==
  ASSUME Once, NEW k \in Nat \ {0}, GivenTo(k)
  PROVE  Numbers("ids", NoOne) = {k} /\ Counter("ids", NoOne) = k
<1>1. Rows("ids") = {IdRow(k)}
  BY DEF GivenTo, Rows, IdRow
<1>2. world[IdRow(k)] = 1
  BY DEF GivenTo, Once, Ours, IdRow
<1>3. Held("ids", NoOne) = {IdRow(k)}
  BY <1>1, <1>2 DEF Held, IdRow
<1>4. Numbers("ids", NoOne) = {k}
  <2>1. Numbers("ids", NoOne) = {r[3] : r \in {IdRow(k)}}
    BY <1>3 DEF Numbers
  <2>2. IdRow(k)[3] = k
    BY DEF IdRow
  <2> QED BY <2>1, <2>2
<1>5. Max({k}) = k
  BY DEF Max
<1> QED
  BY <1>4, <1>5 DEF Counter

(* What a bump of the counter of ids makes of a patch. *)
LEMMA BumpTakes ==
  ASSUME Once, NEW k \in Nat \ {0}, GivenTo(k), NEW p, IsPatch(p)
  PROVE  LET b == Bumped(p, "ids", NoOne, 1) IN
         /\ IsPatch(b) /\ b.at = p.at
         /\ b.pre = p.pre \cup {IdRow(k)} /\ b.dels = p.dels \cup {IdRow(k)}
         /\ b.adds = p.adds \cup {IdRow(k + 1)}
<1>1. Numbers("ids", NoOne) = {k} /\ Counter("ids", NoOne) = k
  BY IdsCounter
<1> QED
  BY <1>1, BumpedParts DEF IdRow

(* Who has a name, if anyone. *)
LEMMA PlayerFound ==
  ASSUME IInv, NEW name
  PROVE  /\ Player(name) = {} => ~ Known(name)
         /\ \A e \in Player(name) : PlayerRow(e, name) \in DOMAIN world
<1> DEFINE R == {x \in Rows("player") : x[3] = name /\ world[x] > 0}
<1>1. \A x \in Rows("player") : world[x] = 1
  BY DEF IInv, Once, Ours, Rows
<1>2. Player(name) = IF R = {} THEN {} ELSE {Min({x[2] : x \in R})}
  BY DEF Player
<1>3. PICK k \in Nat \ {0} : GivenTo(k)
  BY DEF IInv, Numbered
<1>4. CASE R = {}
  BY <1>1, <1>2, <1>4 DEF Known
<1>5. CASE R # {}
  <2>1. PICK x \in R : TRUE
    BY <1>5
  <2>2. \A y \in R : y = x
    BY DEF IInv, OneEach
  <2>3. PICK e \in 1 .. k - 1 : \E nm : x = PlayerRow(e, nm)
    BY <1>3 DEF GivenTo
  <2>4. x = PlayerRow(e, name)
    BY <2>3 DEF PlayerRow
  <2>5. {y[2] : y \in R} = {e}
    BY <2>2, <2>4 DEF PlayerRow
  <2>6. Min({e}) = e
    BY DEF Min
  <2>7. Player(name) = {e}
    <3> HIDE DEF R
    <3> QED BY <1>2, <1>5, <2>5, <2>6
  <2>8. PlayerRow(e, name) \in DOMAIN world
    BY <2>4 DEF Rows
  <2> QED BY <2>7, <2>8
<1> QED
  BY <1>4, <1>5

-----------------------------------------------------------------------------
(* Steps that give out an id. *)

(* A birth is of a name nobody has while its number is the counter's.      *)
LEMMA SpawnStep ==
  ASSUME IInv, NEW c \in Conns, Spawn(c)
  PROVE  IInv'
<1>1. ASSUME NEW k \in Nat \ {0}, Numbered(k) PROVE Fits(c, k)'
  <2> DEFINE q == [NoJob EXCEPT !.adds = {<<"player", k, Name[c]>>, <<"named", k, 0>>,
                                          <<"inboxseq", k, 0>>},
                                !.at = k]
             p == Bumped(q, "ids", NoOne, 1)
  <2>1. Once /\ GivenTo(k)
    BY <1>1 DEF IInv, Numbered
  <2>2. Counter("ids", NoOne) = k
    BY <2>1, IdsCounter
  <2>3. /\ IsPatch(q) /\ q.at = k /\ q.pre = {} /\ q.dels = {}
        /\ q.adds = {PlayerRow(k, Name[c]), NamedRow(k), <<"inboxseq", k, 0>>}
    BY DEF IsPatch, NoJob, PlayerRow, NamedRow
  <2>4. SpawnPatch(Name[c]) = p
    BY <2>2 DEF SpawnPatch
  <2>5. job'[c] = p /\ pc'[c] = "spawning"
    BY <2>4 DEF IInv, TypeOK, Spawn, Propose, Go
  <2>6. /\ p.at = k /\ p.pre = {IdRow(k)} /\ p.dels = {IdRow(k)}
        /\ p.adds = {PlayerRow(k, Name[c]), NamedRow(k), <<"inboxseq", k, 0>>, IdRow(k + 1)}
    <3> HIDE DEF q
    <3> QED BY <2>1, <2>3, BumpTakes
  <2> HIDE DEF p
  <2>7. Takes(p, k, {PlayerRow(k, Name[c])})
    BY <2>6 DEF Takes, Ours, IdRow, PlayerRow, NamedRow
  <2>8. ~ Known(Name[c])
    BY PlayerFound DEF Spawn, Adopted
  <2>9. ~ Known(Name[c])'
    BY <2>8 DEF Known, Rows, Spawn
  <2>10. Spawning(c, k)'
    <3> HIDE DEF q
    <3>1. /\ k \in 1 .. k /\ job'[c].at = k
          /\ Takes(job'[c], k, {PlayerRow(k, Name[c])})
      BY <2>5, <2>6, <2>7
    <3> QED BY <2>9, <3>1 DEF Spawning
  <2> QED BY <2>5, <2>10 DEF Fits
<1>2. UNCHANGED <<world, who>> /\ Propose(c, SpawnPatch(Name[c])) /\ Go(c, "spawning")
  BY DEF Spawn
<1> QED
  BY <1>1, <1>2, ProposeStep DEF Busy

(* A command names its thing under the counter's number. *)
LEMMA PrepareStep ==
  ASSUME IInv, NEW c \in Conns, Prepare(c)
  PROVE  IInv'
<1> DEFINE w == who[c]
           n == job[c].at
<1>1. ASSUME NEW k \in Nat \ {0}, Numbered(k) PROVE Fits(c, k)'
  <2> DEFINE q == [NoJob EXCEPT !.adds = {<<"tell", w, n>>, <<"named", k, 0>>}]
             b == Bumped(q, "ids", NoOne, 1)
             moved == IF n > 0 THEN {<<"cursor", w, n>>} ELSE {}
             p == [b EXCEPT !.dels = @ \cup moved, !.adds = @ \cup {<<"cursor", w, n + 1>>},
                            !.at = n]
  <2>1. Once /\ GivenTo(k)
    BY <1>1 DEF IInv, Numbered
  <2>2. Counter("ids", NoOne) = k
    BY <2>1, IdsCounter
  <2>3. /\ IsPatch(q) /\ q.pre = {} /\ q.dels = {}
        /\ q.adds = {<<"tell", w, n>>, NamedRow(k)}
    BY DEF IsPatch, NoJob, NamedRow
  <2>4. Step(w, n) = p
    BY <2>2 DEF Step, Behavior
  <2>5. job'[c] = p /\ pc'[c] = "step"
    BY <2>4 DEF IInv, TypeOK, Prepare, Propose, Go
  <2>6. /\ IsPatch(b) /\ b.pre = {IdRow(k)} /\ b.dels = {IdRow(k)}
        /\ b.adds = {<<"tell", w, n>>, NamedRow(k), IdRow(k + 1)}
    <3> HIDE DEF q
    <3> QED BY <2>1, <2>3, BumpTakes
  <2>7. /\ p.pre = {IdRow(k)} /\ p.dels = {IdRow(k)} \cup moved
        /\ p.adds = {<<"tell", w, n>>, NamedRow(k), IdRow(k + 1)} \cup {<<"cursor", w, n + 1>>}
    <3> HIDE DEF b, moved
    <3> QED BY <2>6 DEF IsPatch
  <2>8. \A r \in moved : r[1] = "cursor"
    OBVIOUS
  <2> HIDE DEF p, moved, w, n
  <2>9. Ours(p.dels) = {IdRow(k)}
    BY <2>7, <2>8 DEF Ours, IdRow
  <2>10. Takes(p, k, {})
    BY <2>7, <2>9 DEF Takes, Ours, IdRow, NamedRow
  <2>11. Naming(c, k)'
    BY <2>5, <2>10 DEF Naming
  <2> QED BY <2>5, <2>11 DEF Fits
<1>2. UNCHANGED <<world, who>> /\ Propose(c, Step(w, n)) /\ Go(c, "step")
  BY DEF Prepare
<1> QED
  BY <1>1, <1>2, ProposeStep DEF Busy

(* The id is taken: every other patch in hand is behind the counter now.   *)
LEMMA TakenStep ==
  ASSUME IInv, NEW c \in Conns, NEW k \in Nat \ {0}, Numbered(k), Committed(c),
         NEW e \in 1 .. k, NEW rows, Takes(job[c], e, rows),
         \/ rows = {} /\ UNCHANGED who
         \/ /\ rows = {PlayerRow(e, Name[c])} /\ who' = [who EXCEPT ![c] = e]
            /\ e = k => ~ Known(Name[c]),
         NEW at \in PCs \ Busy, Drop(c), Begin(c, at)
  PROVE  IInv'
<1>1. TypeOK /\ Once /\ OneEach /\ Ident /\ GivenTo(k)
  BY DEF IInv, Numbered
<1>2. /\ e = k /\ Proper(world') /\ Once'
      /\ Ours(DOMAIN world') = (Ours(DOMAIN world) \ {IdRow(k)})
                                  \cup {IdRow(k + 1), NamedRow(k)} \cup rows
  BY <1>1, TakesCommit
<1>3. /\ pc' \in [Conns -> PCs] /\ pc'[c] = at
      /\ \A d \in Conns \ {c} : pc'[d] = pc[d]
  BY <1>1 DEF TypeOK, Begin
<1>4. job' = [d \in Conns |-> job'[d]] /\ \A d \in Conns \ {c} : job'[d] = job[d]
  BY <1>1 DEF TypeOK, Drop, Propose
<1>5. who' = [d \in Conns |-> who'[d]] /\ \A d \in Conns \ {c} : who'[d] = who[d]
  BY <1>1 DEF TypeOK
<1>6. TypeOK'
  BY <1>2, <1>3, <1>4, <1>5 DEF TypeOK
<1>7. \A r \in rows : r = PlayerRow(k, Name[c]) /\ r[1] = "player"
  BY <1>2 DEF PlayerRow
<1>8. /\ IdRow(k)[1] = "ids" /\ IdRow(k + 1)[1] = "ids" /\ NamedRow(k)[1] = "named"
  BY DEF IdRow, NamedRow
<1>9. /\ Rows("ids")' = {IdRow(k + 1)}
      /\ Rows("player")' = Rows("player") \cup rows
      /\ Rows("named")' = Rows("named") \cup {NamedRow(k)}
  <2>1. ASSUME NEW r, r[1] \in {"ids", "player", "named"}
        PROVE  r \in DOMAIN world' <=>
                 \/ r \in DOMAIN world /\ r # IdRow(k)
                 \/ r = IdRow(k + 1) \/ r = NamedRow(k) \/ r \in rows
    BY <1>2, <1>7, <1>8, <2>1 DEF Ours
  <2>2. \A r \in DOMAIN world : r[1] = "ids" => r = IdRow(k)
    BY <1>1 DEF GivenTo, Rows
  <2>3. Rows("ids")' = {IdRow(k + 1)}
    BY <2>1, <2>2, <1>7, <1>8 DEF Rows
  <2>4. Rows("player")' = Rows("player") \cup rows
    BY <2>1, <1>7, <1>8 DEF Rows
  <2>5. Rows("named")' = Rows("named") \cup {NamedRow(k)}
    BY <2>1, <1>7, <1>8 DEF Rows
  <2> QED BY <2>3, <2>4, <2>5
<1>10. GivenTo(k + 1)'
  <2>1. IdRow(k + 1) \in DOMAIN world'
    BY <1>9 DEF Rows
  <2>2. ASSUME NEW r \in Rows("player")'
        PROVE  \E f \in 1 .. (k + 1) - 1 : \E name : r = PlayerRow(f, name)
    <3>1. CASE r \in rows
      BY <3>1, <1>7
    <3>2. CASE r \in Rows("player")
      <4>1. PICK f \in 1 .. k - 1 : \E name : r = PlayerRow(f, name)
        BY <3>2, <1>1 DEF GivenTo
      <4> QED BY <4>1
    <3> QED BY <2>2, <3>1, <3>2, <1>9
  <2>3. ASSUME NEW r \in Rows("named")' PROVE \E f \in 1 .. (k + 1) - 1 : r = NamedRow(f)
    <3>1. CASE r = NamedRow(k)
      BY <3>1
    <3>2. CASE r \in Rows("named")
      <4>1. PICK f \in 1 .. k - 1 : r = NamedRow(f)
        BY <3>2, <1>1 DEF GivenTo
      <4> QED BY <4>1
    <3> QED BY <2>3, <3>1, <3>2, <1>9
  <2> QED BY <1>9, <2>1, <2>2, <2>3 DEF GivenTo
<1>11. OneEach'
  <2>1. rows # {} => ~ Known(Name[c])
    BY <1>2
  <2>2. \A r \in rows : r[3] = Name[c]
    BY <1>7 DEF PlayerRow
  <2> QED BY <1>1, <1>7, <1>9, <2>1, <2>2 DEF OneEach, Known
<1>12. Ident'
  <2> SUFFICES ASSUME NEW d \in Conns, who'[d] # NoOne
               PROVE  PlayerRow(who'[d], Name[d]) \in DOMAIN world'
    BY DEF Ident
  <2>1. PlayerRow(who'[d], Name[d]) \in Rows("player") \cup rows
    <3>1. CASE who'[d] = who[d]
      BY <1>1, <3>1 DEF Ident, Rows, PlayerRow
    <3>2. CASE who'[d] # who[d]
      <4>1. d = c /\ rows = {PlayerRow(e, Name[c])} /\ who' = [who EXCEPT ![c] = e]
        BY <1>5, <3>2
      <4>2. who'[c] = e
        BY <1>1, <4>1 DEF TypeOK
      <4> QED BY <4>1, <4>2
    <3> QED BY <3>1, <3>2
  <2> QED BY <1>9, <2>1 DEF Rows
<1>13. ASSUME NEW d \in Conns PROVE Fits(d, k + 1)'
  <2>1. CASE d = c
    BY <1>3, <2>1 DEF Fits, Busy
  <2>2. CASE d # c
    <3>1. Fits(d, k) /\ pc'[d] = pc[d] /\ job'[d] = job[d]
      BY <1>3, <1>4, <2>2 DEF Numbered
    <3>2. ASSUME Spawning(d, k) PROVE Spawning(d, k + 1)'
      <4>1. PICK f \in 1 .. k : /\ job[d].at = f
                                /\ Takes(job[d], f, {PlayerRow(f, Name[d])})
        BY <3>2 DEF Spawning
      <4>2. f \in 1 .. k + 1 /\ f # k + 1
        OBVIOUS
      <4> QED BY <3>1, <4>1, <4>2 DEF Spawning
    <3>3. ASSUME Naming(d, k) PROVE Naming(d, k + 1)'
      <4>1. PICK f \in 1 .. k : Takes(job[d], f, {})
        BY <3>3 DEF Naming
      <4>2. f \in 1 .. k + 1
        OBVIOUS
      <4> QED BY <3>1, <4>1, <4>2 DEF Naming
    <3>4. Aside(d) => Aside(d)'
      BY <3>1 DEF Aside
    <3> QED BY <3>1, <3>2, <3>3, <3>4 DEF Fits
  <2> QED BY <2>1, <2>2
<1>14. Numbered(k + 1)' /\ k + 1 \in Nat \ {0}
  BY <1>10, <1>13 DEF Numbered
<1> QED
  BY <1>2, <1>6, <1>11, <1>12, <1>14 DEF IInv

-----------------------------------------------------------------------------
(* Every step keeps the invariant. *)

(* A login finds the name taken. *)
LEMMA HeirStep ==
  ASSUME IInv, NEW c \in Conns, NEW e \in Player(Name[c]), UNCHANGED <<world, job>>,
         who' = [who EXCEPT ![c] = e], pc' = [pc EXCEPT ![c] = "bind"]
  PROVE  IInv'
<1>1. TypeOK
  BY DEF IInv
<1>2. PlayerRow(e, Name[c]) \in DOMAIN world
  BY PlayerFound
<1>3. /\ pc' \in [Conns -> PCs] /\ pc'[c] = "bind"
      /\ \A d \in Conns \ {c} : pc'[d] = pc[d]
  BY <1>1 DEF TypeOK, PCs
<1>4. /\ who' = [d \in Conns |-> who'[d]] /\ who'[c] = e
      /\ \A d \in Conns \ {c} : who'[d] = who[d]
  BY <1>1 DEF TypeOK
<1>5. job' = [d \in Conns |-> job'[d]]
  BY <1>1 DEF TypeOK
<1>6. \A d \in Conns : Keeps(d) /\ Rests(d)
  BY <1>2, <1>3, <1>4 DEF Keeps, Rests, Busy
<1> QED
  BY <1>3, <1>4, <1>5, <1>6, QuietStep

(* Every step of the login keeps it, *)
LEMMA LoginStep ==
  ASSUME IInv, NEW c \in Conns, Login(c)
  PROVE  IInv'
<1>1. CASE Accept(c)
  BY <1>1, MoveStep DEF Accept, Begin, PCs, Busy
<1>2. CASE Lookup(c)
  <2>1. CASE Go(c, "spawn") /\ UNCHANGED who
    BY <1>2, <2>1, MoveStep DEF Lookup, Go, PCs, Busy
  <2>2. CASE \E e \in Player(Name[c]) : who' = [who EXCEPT ![c] = e] /\ Go(c, "bind")
    BY <1>2, <2>2, HeirStep DEF Lookup, Go
  <2> QED BY <1>2, <2>1, <2>2 DEF Lookup
<1>3. CASE Adopt(c)
  BY <1>3, HeirStep DEF Adopt, Adopted, Begin
<1>4. CASE Spawn(c)
  BY <1>4, SpawnStep
<1>5. CASE SpawnCommit(c)
  <2>1. PICK k \in Nat \ {0} : Numbered(k)
    BY DEF IInv
  <2>2. PICK e \in 1 .. k : /\ job[c].at = e
                            /\ Takes(job[c], e, {PlayerRow(e, Name[c])})
                            /\ e = k => ~ Known(Name[c])
    BY <1>5, <2>1 DEF Numbered, Fits, Spawning, SpawnCommit
  <2> DEFINE rows == {PlayerRow(e, Name[c])}
  <2>3. /\ Committed(c) /\ Drop(c) /\ Begin(c, "bind")
        /\ who' = [who EXCEPT ![c] = e]
    BY <1>5, <2>2 DEF SpawnCommit
  <2>4. "bind" \in PCs \ Busy
    BY DEF PCs, Busy
  <2>5. rows = {PlayerRow(e, Name[c])} /\ Takes(job[c], e, rows)
    BY <2>2
  <2> HIDE DEF rows
  <2> QED BY <2>1, <2>2, <2>3, <2>4, <2>5, TakenStep
<1>6. CASE SpawnRejected(c)
  BY <1>6, MoveStep DEF SpawnRejected, Rejected, Drop, Propose, Retry, PCs, Busy
<1>7. CASE LoginFails(c)
  <2>1. {c} \in SUBSET Conns
    OBVIOUS
  <2> QED BY <1>7, <2>1, ForgetStep DEF LoginFails, Rejected
<1>8. CASE Bind(c)
  BY <1>8, MoveStep DEF Bind, Begin, PCs, Busy
<1>9. CASE Quit(c)
  <2>1. {c} \in SUBSET Conns
    OBVIOUS
  <2> QED BY <1>9, <2>1, ForgetStep DEF Quit
<1> QED
  BY <1>1, <1>2, <1>3, <1>4, <1>5, <1>6, <1>7, <1>8, <1>9 DEF Login

(* every step of an answer, *)
LEMMA AnswerStep ==
  ASSUME IInv, NEW c \in Conns, Answer(c)
  PROVE  IInv'
<1>1. CASE Submit(c)
  BY <1>1, MoveStep DEF Submit, Begin, PCs, Busy
<1>2. CASE EnqueueNumber(c)
  <2> DEFINE e == who[c]
             n == Counter("inboxseq", e)
             q == [NoJob EXCEPT !.adds = {<<"inbox", e, n>>}, !.at = n]
             p == Bumped(q, "inboxseq", e, 1)
  <2>1. IsPatch(q) /\ q.pre = {} /\ q.dels = {} /\ q.adds = {<<"inbox", e, n>>}
    BY DEF IsPatch, NoJob
  <2>2. \A r \in p.adds \cup p.dels : r[1] \in {"inbox", "inboxseq"}
    <3> HIDE DEF q, e
    <3> QED BY <2>1, BumpedParts
  <2>3. /\ UNCHANGED <<world, who>> /\ Propose(c, p) /\ Go(c, "enqueue")
    BY <1>2 DEF EnqueueNumber
  <2> HIDE DEF p
  <2>4. \A r \in p.adds \cup p.dels : r[1] \notin {"ids", "player", "named"}
    BY <2>2
  <2> QED BY <2>3, <2>4, ProposeAside DEF Busy
<1>3. CASE EnqueueCommit(c)
  BY <1>3, AsideStep DEF EnqueueCommit, PCs, Busy
<1>4. CASE EnqueueRejected(c)
  <2>1. CASE Retry(c, "number")
    BY <1>4, <2>1, MoveStep DEF EnqueueRejected, Rejected, Drop, Propose, Retry, PCs, Busy
  <2>2. CASE SubmitFails(c)
    BY <1>4, <2>2, MoveStep
       DEF EnqueueRejected, Rejected, Drop, Propose, SubmitFails, Begin, PCs, Busy
  <2> QED BY <1>4, <2>1, <2>2 DEF EnqueueRejected
<1>5. CASE Position(c)
  BY <1>5, MoveStep DEF Position, Propose, Go, PCs, Busy
<1>6. CASE Prepare(c)
  BY <1>6, PrepareStep
<1>7. CASE InboxIdle(c)
  BY <1>7, MoveStep DEF InboxIdle, Drop, Propose, Begin, PCs, Busy
<1>8. CASE StepCommit(c)
  <2>1. PICK k \in Nat \ {0} : Numbered(k)
    BY DEF IInv
  <2>2. PICK e \in 1 .. k : Takes(job[c], e, {})
    BY <1>8, <2>1 DEF Numbered, Fits, Naming, StepCommit
  <2> DEFINE rows == {}
  <2>3. /\ Committed(c) /\ Drop(c) /\ Begin(c, "position") /\ UNCHANGED who
    BY <1>8 DEF StepCommit
  <2>4. "position" \in PCs \ Busy
    BY DEF PCs, Busy
  <2>5. rows = {} /\ Takes(job[c], e, rows)
    BY <2>2
  <2> HIDE DEF rows
  <2> QED BY <2>1, <2>3, <2>4, <2>5, TakenStep
<1>9. CASE StepRejected(c)
  <2>1. CASE Retry(c, "position")
    BY <1>9, <2>1, MoveStep DEF StepRejected, Rejected, Drop, Propose, Retry, PCs, Busy
  <2>2. CASE SubmitFails(c)
    BY <1>9, <2>2, MoveStep
       DEF StepRejected, Rejected, Drop, Propose, SubmitFails, Begin, PCs, Busy
  <2> QED BY <1>9, <2>1, <2>2 DEF StepRejected
<1>10. CASE DrainStart(c)
  BY <1>10, MoveStep DEF DrainStart, Propose, Go, PCs, Busy
<1>11. CASE Drain(c)
  BY <1>11, MoveStep DEF Drain, Drop, Propose, Begin, PCs, Busy
<1> QED
  BY <1>1, <1>2, <1>3, <1>4, <1>5, <1>6, <1>7, <1>8, <1>9, <1>10, <1>11 DEF Answer

(* and every step of the push. *)
LEMMA PushStep ==
  ASSUME IInv, NEW c \in Conns, Push(c)
  PROVE  IInv'
<1>1. CASE Resume(c)
  <2>1. TypeOK
    BY DEF IInv
  <2>2. UNCHANGED <<world, pc, job, who>>
    BY <1>1 DEF Resume
  <2>3. /\ pc' \in [Conns -> PCs]
        /\ job' = [d \in Conns |-> job'[d]] /\ who' = [d \in Conns |-> who'[d]]
    BY <2>1, <2>2 DEF TypeOK
  <2>4. \A d \in Conns : Keeps(d) /\ Rests(d)
    BY <2>2 DEF Keeps, Rests
  <2> QED BY <2>2, <2>3, <2>4, QuietStep
<1>2. CASE Subscribe(c)
  BY <1>2, MoveStep DEF Subscribe, Go, PCs, Busy
<1>3. CASE InstallAt(c)
  <2> DEFINE e == who[c]
             p == [NoJob EXCEPT
                     !.adds = {<<"wcursor", e, Current>>}
                        \cup (IF Numbers("wseq", e) = {} THEN {<<"wseq", e, 0>>} ELSE {}),
                     !.at = Current]
  <2>1. UNCHANGED <<world, who>> /\ Propose(c, p) /\ Go(c, "install")
    BY <1>3 DEF InstallAt
  <2>2. \A r \in p.adds \cup p.dels : r[1] \in {"wcursor", "wseq"}
    BY DEF NoJob
  <2> HIDE DEF p
  <2>3. \A r \in p.adds \cup p.dels : r[1] \notin {"ids", "player", "named"}
    BY <2>2
  <2> QED BY <2>1, <2>3, ProposeAside DEF Busy
<1>4. CASE Install(c)
  BY <1>4, AsideStep DEF Install, PCs, Busy
<1>5. CASE Pump(c)
  <2> DEFINE e == who[c]
             from == Cursor("wcursor", e)
             new == NewNames(from, Current)
             place(x) == Cardinality({y \in new : y < x})
             mail == {<<"wmail", e, Counter("wseq", e) + place(x), x>> : x \in new}
             q == [NoJob EXCEPT
                     !.pre = {<<"wcursor", e, from>>}, !.dels = {<<"wcursor", e, from>>},
                     !.adds = {<<"wcursor", e, Current>>} \cup mail]
             p == Bumped(q, "wseq", e, Cardinality(new))
  <2>1. PumpPatch(e) = p
    BY DEF PumpPatch
  <2>2. \A r \in mail : r[1] = "wmail"
    <3> HIDE DEF new, place, e
    <3> QED OBVIOUS
  <2>3. /\ IsPatch(q) /\ q.dels = {<<"wcursor", e, from>>}
        /\ q.adds = {<<"wcursor", e, Current>>} \cup mail
    <3> HIDE DEF mail, from, e
    <3> QED BY DEF IsPatch, NoJob
  <2>4. \A r \in p.adds \cup p.dels : r[1] \in {"wmail", "wcursor", "wseq"}
    <3> DEFINE m == Cardinality(new)
               row == IF Numbers("wseq", e) = {} THEN {} ELSE {<<"wseq", e, Counter("wseq", e)>>}
    <3> HIDE DEF q, from, new, mail, e, m
    <3>1. /\ p.dels = q.dels \cup row
          /\ p.adds = q.adds \cup {<<"wseq", e, Counter("wseq", e) + m>>}
      BY <2>3, BumpedParts DEF m
    <3> QED BY <2>2, <2>3, <3>1
  <2>5. UNCHANGED <<world, who>> /\ Propose(c, p) /\ Go(c, "pump")
    BY <1>5, <2>1 DEF Pump
  <2> HIDE DEF p
  <2>6. \A r \in p.adds \cup p.dels : r[1] \notin {"ids", "player", "named"}
    BY <2>4
  <2> QED BY <2>5, <2>6, ProposeAside DEF Busy
<1>6. CASE PumpQuiet(c)
  BY <1>6, MoveStep DEF PumpQuiet, Begin, PCs, Busy
<1>7. CASE PumpCommit(c)
  BY <1>7, AsideStep DEF PumpCommit, PCs, Busy
<1>8. CASE PumpRejected(c)
  <2>1. CASE Retry(c, "push")
    BY <1>8, <2>1, MoveStep DEF PumpRejected, Rejected, Drop, Propose, Retry, PCs, Busy
  <2>2. CASE Begin(c, "delivery")
    BY <1>8, <2>2, MoveStep DEF PumpRejected, Rejected, Drop, Propose, Begin, PCs, Busy
  <2> QED BY <1>8, <2>1, <2>2 DEF PumpRejected
<1>9. CASE DeliveredThrough(c)
  BY <1>9, MoveStep DEF DeliveredThrough, Propose, Go, PCs, Busy
<1>10. CASE Deliver(c)
  <2> DEFINE e == who[c]
             from == job[c].at
             row == IF from > 0 THEN {<<"wdelivery", e, from>>} ELSE {}
             to == from + Cardinality(Undelivered(e, from))
             p == DeliveryPatch(e, from)
  <2>1. p = [NoJob EXCEPT !.pre = row, !.dels = row, !.adds = {<<"wdelivery", e, to>>}]
    BY DEF DeliveryPatch
  <2>2. \A r \in p.adds \cup p.dels : r[1] = "wdelivery"
    <3>1. \A r \in row : r[1] = "wdelivery"
      OBVIOUS
    <3>2. p.adds = {<<"wdelivery", e, to>>} /\ p.dels = row
      <4> HIDE DEF p, row, e, from, to
      <4> QED BY <2>1 DEF NoJob
    <3> HIDE DEF p, row, to
    <3> QED BY <3>1, <3>2
  <2>3. UNCHANGED <<world, who>> /\ Propose(c, p) /\ Go(c, "advance")
    BY <1>10 DEF Deliver
  <2> HIDE DEF p
  <2>4. \A r \in p.adds \cup p.dels : r[1] \notin {"ids", "player", "named"}
    BY <2>2
  <2> QED BY <2>3, <2>4, ProposeAside DEF Busy
<1>11. CASE NothingToDeliver(c)
  BY <1>11, MoveStep DEF NothingToDeliver, Drop, Propose, Begin, PCs, Busy
<1>12. CASE SocketFails(c)
  <2>1. {c} \in SUBSET Conns
    OBVIOUS
  <2> QED BY <1>12, <2>1, ForgetStep DEF SocketFails
<1>13. CASE DeliveryCommit(c)
  BY <1>13, AsideStep DEF DeliveryCommit, PCs, Busy
<1>14. CASE DeliveryRejected(c)
  <2>1. CASE Retry(c, "delivery")
    BY <1>14, <2>1, MoveStep DEF DeliveryRejected, Rejected, Drop, Propose, Retry, PCs, Busy
  <2>2. CASE Begin(c, "line")
    BY <1>14, <2>2, MoveStep DEF DeliveryRejected, Rejected, Drop, Propose, Begin, PCs, Busy
  <2> QED BY <1>14, <2>1, <2>2 DEF DeliveryRejected
<1> QED
  BY <1>1, <1>2, <1>3, <1>4, <1>5, <1>6, <1>7, <1>8, <1>9, <1>10, <1>11, <1>12, <1>13, <1>14
     DEF Push

(* The counter begins at 1, and nobody has a name. *)
LEMMA InitInv == Init => IInv
<1> SUFFICES ASSUME Init PROVE IInv
  OBVIOUS
<1>1. DOMAIN world = {IdRow(1)} /\ world[IdRow(1)] = 1
  BY DEF Init, IdRow
<1>2. TypeOK
  <2>1. Proper(world)
    BY <1>1 DEF Proper
  <2> QED BY <2>1 DEF Init, TypeOK, PCs
<1>3. Once
  BY <1>1 DEF Once, Ours
<1>4. Rows("player") = {} /\ Rows("named") = {} /\ Rows("ids") = {IdRow(1)}
  BY <1>1 DEF Rows, IdRow
<1>5. OneEach
  BY <1>4 DEF OneEach
<1>6. Ident
  BY DEF Ident, Init
<1>7. GivenTo(1)
  BY <1>1, <1>4 DEF GivenTo
<1>8. \A c \in Conns : Fits(c, 1)
  BY DEF Init, Fits
<1>9. Numbered(1) /\ 1 \in Nat \ {0}
  BY <1>7, <1>8 DEF Numbered
<1> QED
  BY <1>2, <1>3, <1>5, <1>6, <1>9 DEF IInv

(* So every step does. *)
LEMMA NextInv == IInv /\ [Next]_vars => IInv'
<1> SUFFICES ASSUME IInv, [Next]_vars PROVE IInv'
  OBVIOUS
<1>1. CASE Crash
  <2> DEFINE S == {c \in Conns : pc[c] # "closed"}
  <2>1. S \in SUBSET Conns /\ Forget(S) /\ UNCHANGED world
    BY <1>1 DEF Crash
  <2> HIDE DEF S
  <2> QED BY <2>1, ForgetStep
<1>2. ASSUME NEW c \in Conns, Login(c) \/ Answer(c) \/ Push(c) PROVE IInv'
  BY <1>2, LoginStep, AnswerStep, PushStep
<1>3. CASE UNCHANGED vars
  <2>1. UNCHANGED <<world, pc, job, who>>
    BY <1>3 DEF vars, mine
  <2>2. TypeOK
    BY DEF IInv
  <2>3. /\ pc' \in [Conns -> PCs]
        /\ job' = [d \in Conns |-> job'[d]] /\ who' = [d \in Conns |-> who'[d]]
    BY <2>1, <2>2 DEF TypeOK
  <2>4. \A d \in Conns : Keeps(d) /\ Rests(d)
    BY <2>1 DEF Keeps, Rests
  <2> QED BY <2>1, <2>3, <2>4, QuietStep
<1> QED
  BY <1>1, <1>2, <1>3 DEF Next

(* The invariant says what was to be shown. *)
LEMMA InvIdentities == IInv => Identities
<1> SUFFICES ASSUME IInv PROVE Identities
  OBVIOUS
<1>1. ASSUME NEW r \in Rows("player") \cup Rows("named") PROVE world[r] = 1
  BY DEF IInv, Once, Ours, Rows
<1>2. \A r, q \in Rows("player") : r[3] = q[3] <=> r = q
  BY DEF IInv, OneEach
<1>3. ASSUME NEW c \in Conns, who[c] # NoOne
      PROVE  Weight(world, <<"player", who[c], Name[c]>>) = 1
  <2>1. PlayerRow(who[c], Name[c]) \in Rows("player")
    BY <1>3 DEF IInv, Ident, Rows, PlayerRow
  <2> QED BY <1>1, <2>1 DEF Weight, PlayerRow, Rows
<1> QED
  BY <1>1, <1>2, <1>3 DEF Identities

(* However many connections race to log in under one name, in one attempt  *)
(* or many, through crashes and lost sockets: a name is one player, a      *)
(* connection's player is the one of its name, and no id is given out      *)
(* twice (spawn_player, Alloc).                                            *)
THEOREM OneNameOneIdentity == Spec => []Identities
<1>1. Init => IInv
  BY InitInv
<1>2. IInv /\ [Next]_vars => IInv'
  BY NextInv
<1>3. IInv => Identities
  BY InvIdentities
<1> QED
  BY <1>1, <1>2, <1>3, PTL DEF Spec
-----------------------------------------------------------------------------

NatLess == {ss \in Nat \X Nat : ss[1] < ss[2]}

(* Numbers are well ordered: a set of them has a least one. *)
LEMMA LeastExists ==
  ASSUME NEW T \in SUBSET Nat, T # {}
  PROVE  \E x \in T : \A y \in T : x <= y
<1>0. IsWellFoundedOn(NatLess, Nat)
  BY NatLessThanWellFounded DEF OpToRel, NatLess
<1>1. \E t \in T : \A u \in T : ~ (<<u, t>> \in NatLess)
  <2> HIDE DEF NatLess
  <2> QED BY <1>0, WFMin, Zenon
<1>2. PICK t \in T : \A u \in T : ~ (<<u, t>> \in NatLess)
  BY <1>1, Zenon
<1>3. ASSUME NEW u \in T PROVE t <= u
  <2>1. t \in Nat /\ u \in Nat /\ <<u, t>> \in Nat \X Nat
    OBVIOUS
  <2>2. ~ (u < t)
    BY <1>2, <2>1 DEF NatLess
  <2> QED BY <2>1, <2>2
<1> QED
  BY <1>3

(* What FlattenSeq's function is, up to n. *)
IsFlat(f, s, n) == f = [i \in 1 .. n |-> IF i = 1 THEN s[i] ELSE f[i - 1] \o s[i]]

(* The function FlattenSeq defines exists up to any length. *)
LEMMA FlatExists ==
  ASSUME NEW s, NEW N \in Nat
  PROVE  \E f : IsFlat(f, s, N)
<1> DEFINE T == {n \in 0 .. N : ~ \E f : IsFlat(f, s, n)}
<1>1. CASE T = {}
  BY <1>1
<1>2. CASE T # {}
  <2>1. PICK t \in T : \A u \in T : t <= u
    <3>1. T \in SUBSET Nat
      OBVIOUS
    <3> HIDE DEF T
    <3> QED BY <1>2, <3>1, LeastExists
  <2>2. CASE t = 0
    <3> DEFINE f == [i \in 1 .. 0 |-> s[i]]
    <3>1. IsFlat(f, s, 0)
      BY DEF IsFlat
    <3> QED BY <2>2, <3>1
  <2>3. CASE t # 0
    <3>1. t - 1 \in 0 .. N /\ t - 1 \notin T
      BY <2>1, <2>3
    <3>2. PICK g : IsFlat(g, s, t - 1)
      BY <3>1
    <3> DEFINE f == [i \in 1 .. t |-> IF i = t THEN (IF t = 1 THEN s[t] ELSE g[t - 1] \o s[t])
                                               ELSE g[i]]
    <3>3. \A i \in 1 .. t - 1 : g[i] = IF i = 1 THEN s[i] ELSE g[i - 1] \o s[i]
      BY <3>2 DEF IsFlat
    <3>4. ASSUME NEW i \in 1 .. t PROVE f[i] = IF i = 1 THEN s[i] ELSE f[i - 1] \o s[i]
      <4>1. CASE i = t
        <5>1. CASE t = 1
          BY <4>1, <5>1
        <5>2. CASE t # 1
          <6>1. i - 1 \in 1 .. t /\ i - 1 # t
            BY <4>1, <5>2
          <6> QED BY <4>1, <5>2, <6>1
        <5> QED BY <5>1, <5>2
      <4>2. CASE i # t
        <5>1. i \in 1 .. t - 1 /\ f[i] = g[i]
          BY <4>2
        <5>2. CASE i = 1
          BY <3>3, <5>1, <5>2
        <5>3. CASE i # 1
          <6>1. f[i - 1] = g[i - 1]
            BY <4>2, <5>3
          <6> HIDE DEF f
          <6> QED BY <3>3, <5>1, <5>3, <6>1
        <5> QED BY <5>2, <5>3
      <4> QED BY <4>1, <4>2
    <3>5. f = [i \in 1 .. t |-> f[i]]
      OBVIOUS
    <3>6. IsFlat(f, s, t)
      <4> HIDE DEF f
      <4> QED BY <3>4, <3>5 DEF IsFlat
    <3> QED BY <2>1, <3>6
  <2> QED BY <2>2, <2>3
<1> QED
  BY <1>1, <1>2

(* FlattenSeq of a non-empty sequence is that function's last value. *)
LEMMA FlatIs ==
  ASSUME NEW X, NEW N \in Nat \ {0}, NEW s \in [1 .. N -> X]
  PROVE  \E f : IsFlat(f, s, N) /\ FlattenSeq(s) = f[N]
<1> DEFINE g == CHOOSE f : IsFlat(f, s, N)
<1>1. IsFlat(g, s, N)
  BY FlatExists, Zenon
<1>2. Len(s) = N
  OBVIOUS
<1>3. FlattenSeq(s) = g[N]
  BY <1>2 DEF FlattenSeq, IsFlat
<1> QED
  BY <1>1, <1>3

(* A sequence made of the entries of others, each entry once. *)
Joins(w, s, n, S) ==
  /\ w \in Seq(S)
  /\ \A a, b \in DOMAIN w : w[a] = w[b] => a = b
  /\ \A a \in DOMAIN w : \E i \in 1 .. n : \E p \in DOMAIN s[i] : w[a] = s[i][p]
  /\ \A i \in 1 .. n : \A p \in DOMAIN s[i] : \E a \in DOMAIN w : w[a] = s[i][p]

Distinct(w) == \A a, b \in DOMAIN w : w[a] = w[b] => a = b

(* One sequence after another: its entries are theirs. *)
LEMMA OneAfter ==
  ASSUME NEW S, NEW u \in Seq(S), NEW z \in Seq(S)
  PROVE  LET v == u \o z IN
         /\ v \in Seq(S)
         /\ \A a \in DOMAIN v : \/ a \in DOMAIN u /\ v[a] = u[a]
                                \/ \E p \in DOMAIN z : v[a] = z[p]
         /\ \A a \in DOMAIN u : \E b \in DOMAIN v : v[b] = u[a]
         /\ \A p \in DOMAIN z : \E b \in DOMAIN v : v[b] = z[p]
         /\ Distinct(u) /\ Distinct(z) /\ (\A a \in DOMAIN u, p \in DOMAIN z : u[a] # z[p]) =>
              Distinct(v)
<1> DEFINE v == u \o z
<1>1. /\ v \in Seq(S) /\ Len(v) = Len(u) + Len(z)
      /\ \A a \in 1 .. Len(u) : v[a] = u[a]
      /\ \A a \in Len(u) + 1 .. Len(v) : v[a] = z[a - Len(u)]
  OBVIOUS
<1>2. /\ Len(u) \in Nat /\ Len(z) \in Nat /\ DOMAIN u = 1 .. Len(u) /\ DOMAIN z = 1 .. Len(z)
      /\ DOMAIN v = 1 .. Len(v)
  <2> HIDE DEF v
  <2> QED BY <1>1
<1> HIDE DEF v
<1>3. ASSUME NEW a \in DOMAIN v
      PROVE  \/ a \in DOMAIN u /\ v[a] = u[a]
             \/ \E p \in DOMAIN z : a = Len(u) + p /\ v[a] = z[p]
  <2>1. CASE a <= Len(u)
    BY <1>1, <1>2, <2>1
  <2>2. CASE a > Len(u)
    <3>1. a - Len(u) \in DOMAIN z /\ v[a] = z[a - Len(u)] /\ a = Len(u) + (a - Len(u))
      BY <1>1, <1>2, <1>3, <2>2
    <3> QED BY <3>1
  <2> QED BY <1>2, <2>1, <2>2
<1>4. \A a \in DOMAIN u : a \in DOMAIN v /\ v[a] = u[a]
  BY <1>1, <1>2
<1>5. ASSUME NEW p \in DOMAIN z PROVE \E b \in DOMAIN v : v[b] = z[p]
  <2>1. Len(u) + p \in Len(u) + 1 .. Len(v) /\ (Len(u) + p) - Len(u) = p
    BY <1>1, <1>2
  <2> QED BY <1>1, <1>2, <2>1
<1>6. ASSUME Distinct(u), Distinct(z), \A a \in DOMAIN u, p \in DOMAIN z : u[a] # z[p],
             NEW a \in DOMAIN v, NEW b \in DOMAIN v, v[a] = v[b]
      PROVE  a = b
  <2>1. CASE a \in DOMAIN u /\ v[a] = u[a] /\ b \in DOMAIN u /\ v[b] = u[b]
    BY <1>6, <2>1 DEF Distinct
  <2>2. CASE /\ \E p \in DOMAIN z : a = Len(u) + p /\ v[a] = z[p]
             /\ \E p \in DOMAIN z : b = Len(u) + p /\ v[b] = z[p]
    <3>1. PICK p \in DOMAIN z : a = Len(u) + p /\ v[a] = z[p]
      BY <2>2
    <3>2. PICK q \in DOMAIN z : b = Len(u) + q /\ v[b] = z[q]
      BY <2>2
    <3>3. p = q
      BY <1>6, <3>1, <3>2 DEF Distinct
    <3> QED BY <3>1, <3>2, <3>3
  <2> QED BY <1>3, <1>6, <2>1, <2>2
<1>7. \A a \in DOMAIN v : (a \in DOMAIN u /\ v[a] = u[a]) \/ \E p \in DOMAIN z : v[a] = z[p]
  BY <1>3
<1>8. \A a \in DOMAIN u : \E b \in DOMAIN v : v[b] = u[a]
  BY <1>4
<1>9. Distinct(u) /\ Distinct(z) /\ (\A a \in DOMAIN u, p \in DOMAIN z : u[a] # z[p]) =>
        Distinct(v)
  BY <1>6 DEF Distinct
<1> QED
  BY <1>1, <1>5, <1>7, <1>8, <1>9 DEF v

(* One more piece keeps what Joins says of the pieces joined so far. *)
LEMMA JoinMore ==
  ASSUME NEW S, NEW N \in Nat, NEW s \in [1 .. N -> Seq(S)],
         \A i, j \in 1 .. N : \A p \in DOMAIN s[i], q \in DOMAIN s[j] :
           s[i][p] = s[j][q] => i = j /\ p = q,
         NEW n \in 1 .. N, n > 1, NEW w, Joins(w, s, n - 1, S)
  PROVE  Joins(w \o s[n], s, n, S)
<1> DEFINE z == s[n]
           v == w \o z
<1>1. w \in Seq(S) /\ z \in Seq(S) /\ Distinct(w)
  BY DEF Joins, Distinct
<1>2. Distinct(z)
  BY DEF Distinct
<1>3. \A i \in 1 .. n : i # n => i \in 1 .. n - 1
  OBVIOUS
<1>4. ASSUME NEW a \in DOMAIN w, NEW p \in DOMAIN z PROVE w[a] # z[p]
  <2>1. PICK i \in 1 .. n - 1 : \E q \in DOMAIN s[i] : w[a] = s[i][q]
    BY DEF Joins
  <2>2. PICK q \in DOMAIN s[i] : w[a] = s[i][q]
    BY <2>1
  <2>3. i \in 1 .. N /\ i # n
    OBVIOUS
  <2> QED BY <2>2, <2>3
<1>5. /\ v \in Seq(S)
      /\ \A a \in DOMAIN v : \/ a \in DOMAIN w /\ v[a] = w[a]
                             \/ \E p \in DOMAIN z : v[a] = z[p]
      /\ \A a \in DOMAIN w : \E b \in DOMAIN v : v[b] = w[a]
      /\ \A p \in DOMAIN z : \E b \in DOMAIN v : v[b] = z[p]
      /\ Distinct(v)
  <2>1. \A a \in DOMAIN w, p \in DOMAIN z : w[a] # z[p]
    BY <1>4
  <2> HIDE DEF z
  <2>2. /\ v \in Seq(S)
        /\ \A a \in DOMAIN v : \/ a \in DOMAIN w /\ v[a] = w[a]
                               \/ \E p \in DOMAIN z : v[a] = z[p]
        /\ \A a \in DOMAIN w : \E b \in DOMAIN v : v[b] = w[a]
        /\ \A p \in DOMAIN z : \E b \in DOMAIN v : v[b] = z[p]
        /\ Distinct(w) /\ Distinct(z) /\ (\A a \in DOMAIN w, p \in DOMAIN z : w[a] # z[p]) =>
             Distinct(v)
    BY <1>1, OneAfter
  <2> HIDE DEF v
  <2> QED BY <1>1, <1>2, <2>1, <2>2
<1> HIDE DEF v
<1>6. ASSUME NEW a \in DOMAIN v PROVE \E i \in 1 .. n : \E p \in DOMAIN s[i] : v[a] = s[i][p]
  <2>1. CASE a \in DOMAIN w /\ v[a] = w[a]
    <3>1. PICK i \in 1 .. n - 1 : \E q \in DOMAIN s[i] : w[a] = s[i][q]
      BY <2>1 DEF Joins
    <3>2. i \in 1 .. n
      OBVIOUS
    <3> QED BY <2>1, <3>1, <3>2
  <2>2. CASE \E p \in DOMAIN z : v[a] = z[p]
    <3>1. n \in 1 .. n
      OBVIOUS
    <3> QED BY <2>2, <3>1
  <2> QED BY <1>5, <2>1, <2>2
<1>7. ASSUME NEW i \in 1 .. n, NEW p \in DOMAIN s[i] PROVE \E a \in DOMAIN v : v[a] = s[i][p]
  <2>1. CASE i = n
    BY <1>5, <1>7, <2>1
  <2>2. CASE i # n
    <3>1. PICK a \in DOMAIN w : w[a] = s[i][p]
      BY <1>3, <1>7, <2>2 DEF Joins
    <3> QED BY <1>5, <3>1
  <2> QED BY <2>1, <2>2
<1>8. Joins(v, s, n, S)
  BY <1>5, <1>6, <1>7 DEF Joins, Distinct
<1> QED
  BY <1>8 DEF v

(* The entries of a sequence of sequences, in one. *)
LEMMA FlattenJoins ==
  ASSUME NEW S, NEW N \in Nat, NEW s \in [1 .. N -> Seq(S)],
         \A i, j \in 1 .. N : \A p \in DOMAIN s[i], q \in DOMAIN s[j] :
           s[i][p] = s[j][q] => i = j /\ p = q
  PROVE  Joins(FlattenSeq(s), s, N, S)
<1>1. CASE N = 0
  <2>1. Len(s) = 0 /\ s = << >>
    BY <1>1
  <2>2. FlattenSeq(s) = << >>
    BY <2>1 DEF FlattenSeq
  <2> QED BY <1>1, <2>2 DEF Joins
<1>2. CASE N # 0
  <2>0. N \in Nat \ {0}
    BY <1>2
  <2>1. PICK f : IsFlat(f, s, N) /\ FlattenSeq(s) = f[N]
    BY <2>0, FlatIs
  <2>2. \A i \in 1 .. N : f[i] = IF i = 1 THEN s[i] ELSE f[i - 1] \o s[i]
    BY <2>1 DEF IsFlat
  <2> DEFINE T == {n \in 1 .. N : ~ Joins(f[n], s, n, S)}
  <2>3. CASE T = {}
    <3>1. N \in 1 .. N /\ N \notin T
      <4>1. N \in 1 .. N
        BY <2>0
      <4>2. N \notin T
        BY <2>3, Zenon
      <4> QED BY <4>1, <4>2
    <3>2. Joins(f[N], s, N, S)
      BY <3>1
    <3> QED BY <2>1, <3>2
  <2>4. CASE T # {}
    <3>1. PICK t \in T : \A u \in T : t <= u
      <4>1. T \in SUBSET Nat
        OBVIOUS
      <4> HIDE DEF T
      <4> QED BY <2>4, <4>1, LeastExists
    <3>2. t \in 1 .. N
      OBVIOUS
    <3>3. CASE t = 1
      <4>1. f[1] = s[1]
        BY <2>2, <3>2, <3>3
      <4>2. s[1] \in Seq(S)
        BY <3>2, <3>3
      <4>3. Joins(s[1], s, 1, S)
        BY <4>2, <3>2, <3>3 DEF Joins
      <4> QED BY <3>1, <3>3, <4>1, <4>3
    <3>4. CASE t # 1
      <4>1. t - 1 \in 1 .. N /\ t - 1 \notin T
        BY <3>1, <3>2, <3>4
      <4>2. Joins(f[t - 1], s, t - 1, S)
        BY <4>1
      <4>3. f[t] = f[t - 1] \o s[t]
        BY <2>2, <3>2, <3>4
      <4>4. t > 1
        BY <3>2, <3>4
      <4>5. Joins(f[t - 1] \o s[t], s, t, S)
        BY <3>2, <4>2, <4>4, JoinMore
      <4> QED BY <3>1, <4>3, <4>5
    <3> QED BY <3>3, <3>4
  <2> QED BY <2>3, <2>4
<1> QED
  BY <1>1, <1>2

-----------------------------------------------------------------------------
(* A player's account: its mail, its place in it, and what it was told.    *)

MailRels == {"inbox", "inboxseq", "cursor"}
At(rel, e) == {r \in DOMAIN world : r[1] = rel /\ r[2] = e}
TellRow(e, n) == <<"tell", e, n>>
InboxRow(e, n) == <<"inbox", e, n>>
SeqRow(e, n) == <<"inboxseq", e, n>>
CursorRow(e, n) == <<"cursor", e, n>>

Told(e, n, i) == TellRow(e, n) \in log[i]
Singly == \A r \in DOMAIN world : r[1] \in MailRels => world[r] = 1

Blank(e) ==
  /\ At("inbox", e) = {} /\ At("inboxseq", e) = {} /\ At("cursor", e) = {}
  /\ \A i \in 1 .. Current : \A r \in log[i] : r[1] = "tell" => r[2] # e

(* Lines 0 to m - 1 are in the inbox; those below k were handled, and each *)
(* was told of in an edition of its own.                                   *)
RowsTo(e, k, m) ==
  /\ At("inboxseq", e) = {SeqRow(e, m)}
  /\ At("inbox", e) = {InboxRow(e, n) : n \in 0 .. m - 1}
  /\ At("cursor", e) = IF k = 0 THEN {} ELSE {CursorRow(e, k)}
ToldTo(e, k) ==
  /\ \A i \in 1 .. Current : \A r \in log[i] :
       r[1] = "tell" /\ r[2] = e => \E n \in 0 .. k - 1 : r = TellRow(e, n)
  /\ \A n \in 0 .. k - 1 : \E i \in 1 .. Current : Told(e, n, i)
  /\ \A i, j \in 1 .. Current : \A n, p \in 0 .. k - 1 :
       Told(e, n, i) /\ Told(e, p, j) => (i = j <=> n = p)
KeptTo(e, k, m) == k <= m /\ RowsTo(e, k, m) /\ ToldTo(e, k)
Kept(e) == \E k, m \in Nat : KeptTo(e, k, m)

Born(e) == \E name : PlayerRow(e, name) \in DOMAIN world
Accounts == \A e \in Nat \ {0} : (Born(e) => Kept(e)) /\ (~ Born(e) => Blank(e))

Touched(S) == {r \in S : r[1] \in MailRels \cup {"tell"}}

(* The patches in hand, as far as they touch an account. *)
InHand(c) ==
  LET p == job[c]
      e == who[c]
      n == job[c].at
  IN /\ pc[c] = "spawning" => Touched(p.adds) = {SeqRow(n, 0)} /\ Touched(p.dels) = {}
     /\ pc[c] = "enqueue" =>
          /\ n \in Nat /\ SeqRow(e, n) \in p.pre
          /\ Touched(p.adds) = {InboxRow(e, n), SeqRow(e, n + 1)}
          /\ Touched(p.dels) = {SeqRow(e, n)}
     /\ pc[c] \in {"prepare", "step"} => n = Cursor("cursor", e)
     /\ pc[c] = "step" =>
          /\ InboxRow(e, n) \in DOMAIN world
          /\ Touched(p.adds) = {TellRow(e, n), CursorRow(e, n + 1)}
          /\ Touched(p.dels) = IF n = 0 THEN {} ELSE {CursorRow(e, n)}
     /\ pc[c] \in {"install", "pump", "advance"} =>
          Touched(p.adds) = {} /\ Touched(p.dels) = {}

Outside == {"closed", "login", "spawn", "spawning"}
Placed(c) ==
  /\ who[c] = NoOne <=> pc[c] \in Outside
  /\ bound[c] \in Nat /\ outFrom[c] \in Nat /\ bound[c] <= outFrom[c] /\ outFrom[c] <= Current
  /\ pc[c] \in Outside \cup {"bind"} => outFrom[c] = 0

(* What was heard is what was told since the session began, once each.     *)
Hears(c) ==
  /\ heard[c] \in Seq(Nat)
  /\ \A i, j \in DOMAIN heard[c] : heard[c][i] = heard[c][j] => i = j
  /\ \A j \in DOMAIN heard[c] :
       \E i \in bound[c] + 1 .. outFrom[c] : Told(who[c], heard[c][j], i)
  /\ \A i \in bound[c] + 1 .. outFrom[c] : \A r \in log[i] :
       r[1] = "tell" /\ r[2] = who[c] => \E j \in DOMAIN heard[c] : heard[c][j] = r[3]
  /\ \A n \in replied[c] : \E j \in DOMAIN heard[c] : heard[c][j] = n

(* The command being answered is in the inbox, is told of if at all in     *)
(* what is still to be heard, and is told of once the inbox is idle.       *)
Asked(c) ==
  /\ line[c] \in Nat /\ InboxRow(who[c], line[c]) \in DOMAIN world
  /\ \A i \in 1 .. Current : Told(who[c], line[c], i) => i > outFrom[c]
Asks(c) ==
  /\ pc[c] \in {"position", "prepare", "step", "drain", "replies"} => Asked(c)
  /\ pc[c] \in {"drain", "replies"} => \E i \in 1 .. Current : Told(who[c], line[c], i)
  /\ pc[c] = "replies" =>
       /\ job[c].at \in outFrom[c] .. Current
       /\ \E i \in 1 .. job[c].at : Told(who[c], line[c], i)

Session(c) == InHand(c) /\ Placed(c) /\ Hears(c) /\ Asks(c)

Functions ==
  /\ outFrom = [c \in Conns |-> outFrom[c]] /\ bound = [c \in Conns |-> bound[c]]
  /\ line = [c \in Conns |-> line[c]] /\ heard = [c \in Conns |-> heard[c]]
  /\ replied = [c \in Conns |-> replied[c]]

AInv ==
  /\ (\E S : log \in Seq(S)) /\ Functions /\ Singly /\ Accounts
  /\ \A c \in Conns : Session(c)

-----------------------------------------------------------------------------
(* What an account says of the counter, the cursor and the inbox.          *)

(* What a player's account reads as: its place, the next line's number,    *)
(* and the lines it holds.                                                 *)
LEMMA AccountReads ==
  ASSUME Singly, NEW e, NEW k \in Nat, NEW m \in Nat, KeptTo(e, k, m)
  PROVE  /\ Cursor("cursor", e) = k
         /\ Numbers("inboxseq", e) # {} /\ Counter("inboxseq", e) = m
         /\ \A n : Pending(e, n) <=> n \in 0 .. m - 1
         /\ \A n : InboxRow(e, n) \in DOMAIN world <=> n \in 0 .. m - 1
         /\ \A n : SeqRow(e, n) \in DOMAIN world <=> n = m
         /\ \A n : CursorRow(e, n) \in DOMAIN world <=> n = k /\ k # 0
<1>1. ASSUME NEW rel \in MailRels PROVE Held(rel, e) = At(rel, e)
  BY DEF Held, Rows, At, Singly
<1>2. Numbers("inboxseq", e) = {m}
  <2>1. Held("inboxseq", e) = {SeqRow(e, m)}
    BY <1>1 DEF MailRels, KeptTo, RowsTo
  <2>2. SeqRow(e, m)[3] = m
    BY DEF SeqRow
  <2> QED BY <2>1, <2>2 DEF Numbers
<1>3. Max({m}) = m /\ Min({k}) = k
  BY DEF Max, Min
<1>4. Counter("inboxseq", e) = m
  BY <1>2, <1>3 DEF Counter
<1>5. Cursor("cursor", e) = k
  <2>1. CASE k = 0
    <3>1. Numbers("cursor", e) = {}
      BY <1>1, <2>1 DEF MailRels, KeptTo, RowsTo, Numbers
    <3> QED BY <2>1, <3>1 DEF Cursor, Fresh
  <2>2. CASE k # 0
    <3>1. Held("cursor", e) = {CursorRow(e, k)}
      BY <1>1, <2>2 DEF MailRels, KeptTo, RowsTo
    <3>2. CursorRow(e, k)[3] = k
      BY DEF CursorRow
    <3>3. Numbers("cursor", e) = {k}
      BY <3>1, <3>2 DEF Numbers
    <3> QED BY <1>3, <3>3 DEF Cursor
  <2> QED BY <2>1, <2>2
<1>6. ASSUME NEW n PROVE Pending(e, n) <=> n \in 0 .. m - 1
  <2>1. Held("inbox", e) = {InboxRow(e, p) : p \in 0 .. m - 1}
    BY <1>1 DEF MailRels, KeptTo, RowsTo
  <2>2. \A p : InboxRow(e, p)[3] = p
    BY DEF InboxRow
  <2>3. Numbers("inbox", e) = 0 .. m - 1
    BY <2>1, <2>2 DEF Numbers
  <2> QED BY <2>3 DEF Pending
<1>7. ASSUME NEW n PROVE InboxRow(e, n) \in DOMAIN world <=> n \in 0 .. m - 1
  <2>1. InboxRow(e, n) \in DOMAIN world <=> InboxRow(e, n) \in At("inbox", e)
    BY DEF At, InboxRow
  <2>2. InboxRow(e, n) \in {InboxRow(e, p) : p \in 0 .. m - 1} <=> n \in 0 .. m - 1
    BY DEF InboxRow
  <2> QED BY <2>1, <2>2 DEF KeptTo, RowsTo
<1>8. ASSUME NEW n PROVE SeqRow(e, n) \in DOMAIN world <=> n = m
  <2>1. SeqRow(e, n) \in DOMAIN world <=> SeqRow(e, n) \in At("inboxseq", e)
    BY DEF At, SeqRow
  <2> QED BY <2>1 DEF KeptTo, RowsTo, SeqRow
<1>9. ASSUME NEW n PROVE CursorRow(e, n) \in DOMAIN world <=> n = k /\ k # 0
  <2>1. CursorRow(e, n) \in DOMAIN world <=> CursorRow(e, n) \in At("cursor", e)
    BY DEF At, CursorRow
  <2>2. CursorRow(e, n) \in At("cursor", e) <=> n = k /\ k # 0
    <3>1. CASE k = 0
      BY <3>1 DEF KeptTo, RowsTo
    <3>2. CASE k # 0
      BY <3>2 DEF KeptTo, RowsTo, CursorRow
    <3> QED BY <3>1, <3>2
  <2> QED BY <2>1, <2>2
<1> QED
  BY <1>2, <1>4, <1>5, <1>6, <1>7, <1>8, <1>9

-----------------------------------------------------------------------------
(* What stays as the log grows.                                            *)

InboxGrows ==
  \A e, n : InboxRow(e, n) \in DOMAIN world => InboxRow(e, n) \in DOMAIN world'
LogGrows == log' = log \/ \E S : log' = Append(log, S)

(* A log that grows stays a sequence and keeps its editions. *)
LEMMA LogOnward ==
  ASSUME \E S : log \in Seq(S), LogGrows
  PROVE  /\ \E S : log' \in Seq(S)
         /\ Current \in Nat /\ Current' \in Nat /\ Current <= Current'
         /\ \A i \in 1 .. Current : log'[i] = log[i]
<1>1. PICK S : log \in Seq(S)
  OBVIOUS
<1>2. Current \in Nat
  BY <1>1 DEF Current
<1>3. CASE log' = log
  BY <1>1, <1>2, <1>3 DEF Current
<1>4. CASE \E T : log' = Append(log, T)
  <2>1. PICK T : log' = Append(log, T)
    BY <1>4
  <2> DEFINE U == S \cup {T}
  <2>2. log \in Seq(U) /\ T \in U
    BY <1>1
  <2> HIDE DEF U
  <2>3. log' \in Seq(U) /\ Len(log') = Len(log) + 1 /\ \A i \in 1 .. Len(log) : log'[i] = log[i]
    BY <2>1, <2>2
  <2> QED BY <1>2, <2>3 DEF Current
<1> QED
  BY <1>3, <1>4 DEF LogGrows

(* The rows of an account stay, and nothing is told to its player.         *)
SameAt(e) ==
  /\ At("inbox", e)' = At("inbox", e) /\ At("inboxseq", e)' = At("inboxseq", e)
  /\ At("cursor", e)' = At("cursor", e)
NotTold(e) ==
  \/ log' = log
  \/ \E S : log' = Append(log, S) /\ \A r \in S : r[1] = "tell" => r[2] # e

(* The replies to a player are those of before. *)
LEMMA SameTells ==
  ASSUME \E S : log \in Seq(S), NEW e, NotTold(e)
  PROVE  /\ LogGrows
         /\ \A i \in 1 .. Current' : \A r \in log'[i] :
              r[1] = "tell" /\ r[2] = e => i \in 1 .. Current /\ r \in log[i]
<1>1. LogGrows
  BY DEF NotTold, LogGrows
<1>2. /\ Current \in Nat /\ Current' \in Nat /\ Current <= Current'
      /\ \A i \in 1 .. Current : log'[i] = log[i]
  BY <1>1, LogOnward
<1>3. CASE log' = log
  BY <1>1, <1>3 DEF Current
<1>4. CASE log' # log
  <2>1. PICK T : log' = Append(log, T) /\ \A r \in T : r[1] = "tell" => r[2] # e
    BY <1>4 DEF NotTold
  <2>2. PICK S : log \in Seq(S)
    OBVIOUS
  <2> DEFINE U == S \cup {T}
  <2>3. log \in Seq(U) /\ T \in U
    BY <2>2
  <2> HIDE DEF U
  <2>4. Len(log') = Len(log) + 1 /\ log'[Len(log) + 1] = T
    BY <2>1, <2>3
  <2>5. ASSUME NEW i \in 1 .. Current', NEW r \in log'[i], r[1] = "tell" /\ r[2] = e
        PROVE  i \in 1 .. Current /\ r \in log[i]
    <3>1. i # Len(log) + 1
      BY <2>1, <2>4, <2>5
    <3>2. i \in 1 .. Current
      BY <1>2, <2>4, <3>1 DEF Current
    <3> QED BY <1>2, <2>5, <3>2
  <2> QED BY <1>1, <2>5
<1> QED
  BY <1>3, <1>4

(* A commit that tells a player nothing leaves what it was told. *)
LEMMA SameTold ==
  ASSUME \E S : log \in Seq(S), NEW e, NotTold(e), NEW k \in Nat, ToldTo(e, k)
  PROVE  ToldTo(e, k)'
<1>1. /\ LogGrows
      /\ \A i \in 1 .. Current' : \A r \in log'[i] :
           r[1] = "tell" /\ r[2] = e => i \in 1 .. Current /\ r \in log[i]
  BY SameTells
<1>2. /\ Current \in Nat /\ Current' \in Nat /\ Current <= Current'
      /\ \A i \in 1 .. Current : log'[i] = log[i]
  BY <1>1, LogOnward
<1>3. \A n : TellRow(e, n)[1] = "tell" /\ TellRow(e, n)[2] = e
  BY DEF TellRow
<1>4. \A i \in 1 .. Current' : \A n : TellRow(e, n) \in log'[i] =>
        i \in 1 .. Current /\ TellRow(e, n) \in log[i]
  BY <1>1, <1>3
<1>5. ASSUME NEW i \in 1 .. Current', NEW r \in log'[i], r[1] = "tell" /\ r[2] = e
      PROVE  \E n \in 0 .. k - 1 : r = TellRow(e, n)
  <2>1. i \in 1 .. Current /\ r \in log[i]
    BY <1>1, <1>5
  <2> QED BY <1>5, <2>1 DEF ToldTo
<1>6. ASSUME NEW n \in 0 .. k - 1 PROVE \E i \in 1 .. Current' : TellRow(e, n) \in log'[i]
  <2>1. PICK i \in 1 .. Current : TellRow(e, n) \in log[i]
    BY DEF ToldTo, Told
  <2>2. i \in 1 .. Current' /\ log'[i] = log[i]
    BY <1>2
  <2> QED BY <2>1, <2>2
<1>7. ASSUME NEW i \in 1 .. Current', NEW j \in 1 .. Current', NEW n \in 0 .. k - 1,
             NEW p \in 0 .. k - 1, TellRow(e, n) \in log'[i], TellRow(e, p) \in log'[j]
      PROVE  i = j <=> n = p
  <2>1. /\ i \in 1 .. Current /\ j \in 1 .. Current
        /\ TellRow(e, n) \in log[i] /\ TellRow(e, p) \in log[j]
    BY <1>4, <1>7
  <2> QED BY <2>1 DEF ToldTo, Told
<1> QED
  BY <1>5, <1>6, <1>7 DEF ToldTo, Told

(* A commit that touches none of a player's rows leaves its account. *)
LEMMA SameAccount ==
  ASSUME \E S : log \in Seq(S), NEW e, SameAt(e), NotTold(e)
  PROVE  /\ Blank(e) => Blank(e)'
         /\ \A k, m \in Nat : KeptTo(e, k, m) => KeptTo(e, k, m)'
<1>1. ASSUME Blank(e) PROVE Blank(e)'
  <2>1. \A i \in 1 .. Current' : \A r \in log'[i] :
          r[1] = "tell" /\ r[2] = e => i \in 1 .. Current /\ r \in log[i]
    BY SameTells
  <2> QED BY <1>1, <2>1 DEF Blank, SameAt
<1>2. ASSUME NEW k \in Nat, NEW m \in Nat, KeptTo(e, k, m) PROVE KeptTo(e, k, m)'
  BY <1>2, SameTold DEF KeptTo, RowsTo, SameAt
<1> QED
  BY <1>1, <1>2

(* A cursor whose rows stay, stays. *)
LEMMA SameCursor ==
  ASSUME Singly, Singly', NEW e, At("cursor", e)' = At("cursor", e)
  PROVE  Cursor("cursor", e)' = Cursor("cursor", e)
<1>1. Held("cursor", e) = At("cursor", e)
  BY DEF Held, Rows, At, Singly, MailRels
<1>2. Held("cursor", e)' = At("cursor", e)'
  BY DEF Held, Rows, At, Singly, MailRels
<1>3. Numbers("cursor", e)' = Numbers("cursor", e)
  BY <1>1, <1>2 DEF Numbers
<1> QED
  BY <1>3 DEF Cursor

-----------------------------------------------------------------------------
(* What a commit does to the rows of accounts.                             *)

(* Nothing is asserted twice, and what is retracted is there.              *)
Clean(c) ==
  \A r : r[1] \in MailRels =>
    /\ r \in job[c].adds => r \notin DOMAIN world /\ r \notin job[c].dels
    /\ r \in job[c].dels => r \in DOMAIN world

(* The mail's rows after a commit that meets its preconditions: those it   *)
(* did not retract, and those it asserts.                                  *)
LEMMA MailCommit ==
  ASSUME TypeOK, Singly, NEW c \in Conns, Committed(c), Clean(c)
  PROVE  /\ Singly'
         /\ \A r : r[1] \in MailRels =>
              (r \in DOMAIN world' <=>
                 (r \in DOMAIN world /\ r \notin job[c].dels) \/ r \in job[c].adds)
<1>1. ASSUME NEW r, r[1] \in MailRels
      PROVE  /\ r \in DOMAIN world' <=>
                  (r \in DOMAIN world /\ r \notin job[c].dels) \/ r \in job[c].adds
             /\ r \in DOMAIN world' => world'[r] = 1
  <2>1. r \in DOMAIN world => world[r] = 1
    BY <1>1 DEF Singly
  <2> QED BY <1>1, <2>1, CommitRow DEF Clean
<1>2. Singly'
  BY <1>1 DEF Singly
<1> QED
  BY <1>1, <1>2

Leaves(c, e) == \A r \in Touched(job[c].adds \cup job[c].dels) : r[2] # e

(* A commit that touches nothing of an account leaves it. *)
LEMMA LeftAlone ==
  ASSUME TypeOK, Singly, NEW c \in Conns, Committed(c), Clean(c), NEW e, Leaves(c, e)
  PROVE  SameAt(e) /\ NotTold(e)
<1>1. ASSUME NEW r, r[1] \in MailRels, r[2] = e
      PROVE  r \in DOMAIN world' <=> r \in DOMAIN world
  <2>1. r \notin job[c].adds /\ r \notin job[c].dels
    BY <1>1 DEF Leaves, Touched
  <2> QED BY <1>1, <2>1, MailCommit
<1>2. SameAt(e)
  BY <1>1 DEF SameAt, At, MailRels
<1>3. NotTold(e)
  <2>1. log' = Append(log, Recorded(job[c].adds))
    BY DEF Committed
  <2>2. \A r \in Recorded(job[c].adds) : r[1] = "tell" => r[2] # e
    BY DEF Recorded, Leaves, Touched
  <2> QED BY <2>1, <2>2 DEF NotTold
<1> QED
  BY <1>2, <1>3

(* What is in an inbox stays when no patch retracts it. *)
LEMMA InboxStays ==
  ASSUME TypeOK, Singly, NEW c \in Conns, Committed(c), Clean(c),
         \A e, n : InboxRow(e, n) \notin job[c].dels
  PROVE  InboxGrows /\ LogGrows
<1>1. \A e, n : InboxRow(e, n)[1] = "inbox"
  BY DEF InboxRow
<1>2. InboxGrows
  BY <1>1, MailCommit DEF InboxGrows, MailRels
<1> QED
  BY <1>2 DEF LogGrows, Committed

-----------------------------------------------------------------------------
(* What a session keeps.                                                   *)

Listens(d) ==
  /\ who'[d] = who[d] /\ outFrom'[d] = outFrom[d] /\ bound'[d] = bound[d]
  /\ heard'[d] = heard[d] /\ replied'[d] = replied[d]
Stays(d) == Listens(d) /\ pc'[d] = pc[d] /\ line'[d] = line[d] /\ job'[d] = job[d]

(* What a connection heard stays true of a longer log. *)
LEMMA HearsKept ==
  ASSUME \E S : log \in Seq(S), LogGrows, NEW d \in Conns, Placed(d), Hears(d), Listens(d)
  PROVE  Hears(d)'
<1>1. Current \in Nat /\ \A i \in 1 .. Current : log'[i] = log[i]
  BY LogOnward
<1>2. \A i \in bound[d] + 1 .. outFrom[d] : i \in 1 .. Current
  BY <1>1 DEF Placed
<1>3. \A i \in bound[d] + 1 .. outFrom[d] : log'[i] = log[i]
  BY <1>1, <1>2
<1>4. \A n, i : i \in bound[d] + 1 .. outFrom[d] => (Told(who[d], n, i)' <=> Told(who[d], n, i))
  BY <1>3 DEF Told, Listens
<1> QED
  BY <1>3 DEF Hears, Listens, Told

(* A connection's place stays within a longer log. *)
LEMMA PlacedKept ==
  ASSUME \E S : log \in Seq(S), LogGrows, NEW d \in Conns, Placed(d), Listens(d),
         pc'[d] \in Outside <=> pc[d] \in Outside,
         pc'[d] = "bind" => pc[d] \in Outside \cup {"bind"}
  PROVE  Placed(d)'
<1>1. Current \in Nat /\ Current' \in Nat /\ Current <= Current'
  BY LogOnward
<1>2. pc'[d] \in Outside \cup {"bind"} => outFrom'[d] = 0
  BY DEF Placed, Listens
<1>3. who'[d] = NoOne <=> pc'[d] \in Outside
  BY DEF Placed, Listens
<1>4. /\ bound'[d] \in Nat /\ outFrom'[d] \in Nat /\ bound'[d] <= outFrom'[d]
      /\ outFrom'[d] <= Current'
  BY <1>1 DEF Placed, Listens
<1> QED
  BY <1>2, <1>3, <1>4 DEF Placed

(* The command under way stays in the inbox, unheard of so far. *)
LEMMA AskedKept ==
  ASSUME \E S : log \in Seq(S), LogGrows, InboxGrows, NEW d \in Conns, Placed(d), Asked(d),
         Listens(d), line'[d] = line[d]
  PROVE  Asked(d)'
<1>1. /\ Current \in Nat /\ Current' \in Nat /\ Current <= Current'
      /\ \A i \in 1 .. Current : log'[i] = log[i]
  BY LogOnward
<1>2. line'[d] \in Nat /\ InboxRow(who'[d], line'[d]) \in DOMAIN world'
  BY DEF Asked, Listens, InboxGrows
<1>3. ASSUME NEW i \in 1 .. Current', TellRow(who'[d], line'[d]) \in log'[i]
      PROVE  i > outFrom'[d]
  <2>1. CASE i \in 1 .. Current
    <3>1. TellRow(who[d], line[d]) \in log[i]
      BY <1>1, <1>3, <2>1 DEF Listens
    <3> QED BY <2>1, <3>1 DEF Asked, Told, Listens
  <2>2. CASE i \notin 1 .. Current
    <3>1. i > Current /\ outFrom'[d] = outFrom[d] /\ outFrom[d] \in Nat /\ outFrom[d] <= Current
      BY <1>1, <2>2 DEF Listens, Placed
    <3> QED BY <1>1, <3>1
  <2> QED BY <2>1, <2>2
<1> QED
  BY <1>2, <1>3 DEF Asked, Told

(* A thread that stays where it is goes on asking for its command. *)
LEMMA AsksKept ==
  ASSUME \E S : log \in Seq(S), LogGrows, InboxGrows, NEW d \in Conns, Placed(d), Asks(d), Stays(d)
  PROVE  Asks(d)'
<1>1. /\ Current \in Nat /\ Current' \in Nat /\ Current <= Current'
      /\ \A i \in 1 .. Current : log'[i] = log[i]
  BY LogOnward
<1>2. Asked(d) => Asked(d)'
  BY AskedKept DEF Stays
<1>3. ASSUME pc[d] \in {"drain", "replies"}
      PROVE  \E i \in 1 .. Current' : TellRow(who'[d], line'[d]) \in log'[i]
  <2>1. PICK i \in 1 .. Current : Told(who[d], line[d], i)
    BY <1>3 DEF Asks
  <2> QED BY <1>1, <2>1 DEF Told, Stays, Listens
<1>4. ASSUME pc[d] = "replies"
      PROVE  /\ job'[d].at \in outFrom'[d] .. Current'
             /\ \E i \in 1 .. job'[d].at : TellRow(who'[d], line'[d]) \in log'[i]
  <2>1. job[d].at \in outFrom[d] .. Current /\ outFrom[d] \in Nat
    BY <1>4 DEF Asks, Placed
  <2>2. PICK i \in 1 .. job[d].at : Told(who[d], line[d], i)
    BY <1>4 DEF Asks
  <2>3. i \in 1 .. Current
    BY <1>1, <2>1
  <2>4. TellRow(who[d], line[d]) \in log'[i]
    BY <1>1, <2>2, <2>3 DEF Told
  <2> QED BY <1>1, <2>1, <2>2, <2>4 DEF Stays, Listens
<1> QED
  BY <1>2, <1>3, <1>4 DEF Asks, Stays, Told

(* The patch in a thread's hand stays what it was while the thread         *)
(* stays.                                                                  *)
LEMMA InHandKept ==
  ASSUME InboxGrows, NEW d \in Conns, InHand(d), Stays(d),
         pc[d] \in {"prepare", "step"} =>
           \A e : e = who[d] => Cursor("cursor", e)' = Cursor("cursor", e)
  PROVE  InHand(d)'
<1> DEFINE e == who[d]
<1>1. who'[d] = e /\ job'[d] = job[d] /\ pc'[d] = pc[d]
  BY DEF Stays, Listens
<1>2. pc[d] \in {"prepare", "step"} => Cursor("cursor", who[d])' = Cursor("cursor", who[d])
  <2> SUFFICES ASSUME pc[d] \in {"prepare", "step"}
               PROVE  Cursor("cursor", who[d])' = Cursor("cursor", who[d])
    OBVIOUS
  <2>1. PICK f : f = who[d]
    OBVIOUS
  <2>2. Cursor("cursor", f)' = Cursor("cursor", f)
    BY <2>1
  <2>3. Cursor("cursor", who[d])' = Cursor("cursor", f)'
    BY <1>1, <2>1 DEF Cursor, Numbers, Held, Rows
  <2> QED BY <2>1, <2>2, <2>3
<1>3. pc[d] = "step" => InboxRow(who[d], job[d].at) \in DOMAIN world'
  BY DEF InHand, InboxGrows
<1> QED
  BY <1>1, <1>2, <1>3 DEF InHand

(* A session that takes no step keeps all of this while others commit. *)
LEMMA SessionKept ==
  ASSUME \E S : log \in Seq(S), LogGrows, InboxGrows, NEW d \in Conns, Session(d), Stays(d),
         pc[d] \in {"prepare", "step"} =>
           \A e : e = who[d] => Cursor("cursor", e)' = Cursor("cursor", e)
  PROVE  Session(d)'
<1>1. Placed(d)'
  BY PlacedKept DEF Stays, Session
<1> QED
  BY <1>1, HearsKept, AsksKept, InHandKept DEF Stays, Session

-----------------------------------------------------------------------------
(* Steps that leave the world alone.                                       *)

(* A step that commits nothing leaves every account. *)
LEMMA StillWorld ==
  ASSUME AInv, UNCHANGED <<world, log>>
  PROVE  /\ \E S : log \in Seq(S)
         /\ \E S : log' \in Seq(S)
         /\ Singly' /\ Accounts' /\ LogGrows /\ InboxGrows
         /\ \A e : Cursor("cursor", e)' = Cursor("cursor", e)
<1>1. \A e : SameAt(e) /\ NotTold(e) /\ (Born(e)' <=> Born(e))
  BY DEF SameAt, At, NotTold, Born
<1>2. (\E S : log \in Seq(S)) /\ (\E S : log' \in Seq(S))
  BY DEF AInv
<1>3. ASSUME NEW e \in Nat \ {0} PROVE (Born(e)' => Kept(e)') /\ (~ Born(e)' => Blank(e)')
  <2>1. ASSUME Born(e) PROVE Kept(e)'
    <3>1. PICK k \in Nat, m \in Nat : KeptTo(e, k, m)
      BY <2>1 DEF AInv, Accounts, Kept
    <3>2. KeptTo(e, k, m)'
      BY <1>1, <1>2, <3>1, SameAccount
    <3> QED BY <3>2 DEF Kept
  <2>2. ASSUME ~ Born(e) PROVE Blank(e)'
    BY <1>1, <1>2, <2>2, SameAccount DEF AInv, Accounts
  <2> QED BY <1>1, <2>1, <2>2
<1>4. Accounts'
  BY <1>3 DEF Accounts
<1>5. Singly' /\ LogGrows /\ InboxGrows
  BY DEF AInv, Singly, LogGrows, InboxGrows
<1>6. \A e : Cursor("cursor", e)' = Cursor("cursor", e)
  BY DEF Cursor, Numbers, Held, Rows
<1> QED
  BY <1>2, <1>4, <1>5, <1>6

(* One session moves. *)
LEMMA OneMoves ==
  ASSUME AInv, UNCHANGED <<world, log>>, Functions', NEW c \in Conns,
         \A d \in Conns \ {c} : Stays(d), Session(c)'
  PROVE  AInv'
<1>1. ASSUME NEW d \in Conns \ {c} PROVE Session(d)'
  <2>1. Session(d) /\ Stays(d)
    BY DEF AInv
  <2> QED BY <2>1, StillWorld, SessionKept
<1>2. (\E S : log' \in Seq(S)) /\ Singly' /\ Accounts'
  BY StillWorld
<1> QED
  BY <1>1, <1>2 DEF AInv

Holding == {"spawning", "enqueue", "prepare", "step", "install", "pump", "advance"}
Asking == {"position", "prepare", "step", "drain", "replies"}

(* A thread goes on, and hears nothing by that. *)
Goes(c, at) ==
  /\ pc' = [pc EXCEPT ![c] = at]
  /\ line' = [line EXCEPT ![c] = line'[c]] /\ job' = [job EXCEPT ![c] = job'[c]]
  /\ UNCHANGED <<who, outFrom, bound, heard, replied>>

(* A connection that goes to its next step leaves the others alone. *)
LEMMA GoesParts ==
  ASSUME TypeOK, Functions, NEW c \in Conns, NEW at, Goes(c, at)
  PROVE  /\ Functions' /\ pc'[c] = at /\ Listens(c)
         /\ \A d \in Conns \ {c} : Stays(d)
  BY DEF TypeOK, Functions, Goes, Stays, Listens

(* A step that commits nothing and only moves its thread keeps AInv. *)
LEMMA GoesOn ==
  ASSUME AInv, TypeOK, UNCHANGED <<world, log>>, NEW c \in Conns, NEW at, Goes(c, at),
         at \in Outside <=> pc[c] \in Outside, at # "bind", InHand(c)', Asks(c)'
  PROVE  AInv'
<1>1. Functions' /\ pc'[c] = at /\ Listens(c) /\ \A d \in Conns \ {c} : Stays(d)
  BY GoesParts DEF AInv
<1>2. (\E S : log \in Seq(S)) /\ LogGrows
  BY StillWorld
<1>3. Placed(c) /\ Hears(c)
  BY DEF AInv, Session
<1>4. Placed(c)' /\ Hears(c)'
  BY <1>1, <1>2, <1>3, PlacedKept, HearsKept
<1> QED
  BY <1>1, <1>4, OneMoves DEF Session

(* A thread that holds no patch and asks for no reply has nothing to       *)
(* keep.                                                                   *)
LEMMA IdleThread ==
  ASSUME NEW c \in Conns, pc'[c] \notin Holding \cup Asking
  PROVE  InHand(c)' /\ Asks(c)'
  BY DEF InHand, Asks, Holding, Asking

(* So such a thread keeps AInv whatever it does next. *)
LEMMA GoesIdle ==
  ASSUME AInv, TypeOK, UNCHANGED <<world, log>>, NEW c \in Conns,
         NEW at \in PCs \ (Holding \cup Asking), Goes(c, at),
         at \in Outside <=> pc[c] \in Outside, at # "bind"
  PROVE  AInv'
<1>1. pc'[c] = at
  BY GoesParts DEF AInv
<1>2. InHand(c)' /\ Asks(c)'
  BY <1>1, IdleThread
<1> QED
  BY <1>2, GoesOn

(* A session ends, or was none. *)
LEMMA Closed ==
  ASSUME NEW c \in Conns, \E S : log' \in Seq(S), pc'[c] = "closed", who'[c] = NoOne,
         outFrom'[c] = 0, bound'[c] = 0, heard'[c] = << >>, replied'[c] = {}
  PROVE  Session(c)'
<1>1. InHand(c)' /\ Asks(c)'
  BY IdleThread DEF Holding, Asking
<1>2. Current' \in Nat
  BY DEF Current
<1>3. Placed(c)'
  BY <1>2 DEF Placed, Outside
<1>4. Hears(c)'
  <2>1. heard'[c] \in Seq(Nat) /\ DOMAIN heard'[c] = {}
    OBVIOUS
  <2>2. bound'[c] + 1 .. outFrom'[c] = {}
    OBVIOUS
  <2> QED BY <2>1, <2>2 DEF Hears
<1> QED
  BY <1>1, <1>3, <1>4 DEF Session

(* Connections that are lost, one or all of them, keep AInv. *)
LEMMA Ended ==
  ASSUME AInv, TypeOK, UNCHANGED <<world, log>>, NEW S \in SUBSET Conns, Forget(S)
  PROVE  AInv'
<1>1. (\E T : log' \in Seq(T)) /\ (\E T : log \in Seq(T)) /\ Singly' /\ Accounts'
      /\ LogGrows /\ InboxGrows /\ \A e : Cursor("cursor", e)' = Cursor("cursor", e)
  BY StillWorld
<1>2. Functions'
  BY DEF Forget, Functions
<1>3. ASSUME NEW d \in Conns PROVE Session(d)'
  <2>1. CASE d \in S
    BY <1>1, <2>1, Closed DEF Forget
  <2>2. CASE d \notin S
    <3>1. Session(d) /\ Stays(d)
      BY <2>2 DEF AInv, Forget, Stays, Listens
    <3> QED BY <1>1, <3>1, SessionKept
  <2> QED BY <2>1, <2>2
<1> QED
  BY <1>1, <1>2, <1>3 DEF AInv

(* A login finds its player: nothing was heard before.                     *)
LEMMA Unheard ==
  ASSUME \E S : log \in Seq(S), NEW c \in Conns, Placed(c), Hears(c), outFrom[c] = 0
  PROVE  DOMAIN heard[c] = {} /\ replied[c] = {} /\ bound[c] = 0
<1>1. bound[c] = 0
  BY DEF Placed
<1>2. DOMAIN heard[c] = {}
  <2>1. bound[c] + 1 .. outFrom[c] = {}
    BY <1>1
  <2> QED BY <2>1 DEF Hears
<1>3. replied[c] = {}
  BY <1>2 DEF Hears
<1> QED
  BY <1>1, <1>2, <1>3

-----------------------------------------------------------------------------
(* The steps of logging in, answering and pushing that commit nothing.     *)

(* An entity with a player's row is born. *)
LEMMA BornPlayer ==
  ASSUME IInv, NEW e, NEW name, PlayerRow(e, name) \in DOMAIN world
  PROVE  e \in Nat \ {0} /\ Born(e)
<1>1. PICK k \in Nat \ {0} : GivenTo(k)
  BY DEF IInv, Numbered
<1>2. PlayerRow(e, name) \in Rows("player")
  BY DEF Rows, PlayerRow
<1>3. PICK f \in 1 .. k - 1 : \E nm : PlayerRow(e, name) = PlayerRow(f, nm)
  BY <1>1, <1>2 DEF GivenTo
<1>4. e = f
  BY <1>3 DEF PlayerRow
<1> QED
  BY <1>4 DEF Born

(* A session's player has an account. *)
LEMMA PlayersAccount ==
  ASSUME IInv, AInv, NEW c \in Conns, pc[c] \notin Outside
  PROVE  /\ who[c] \in Nat \ {0} /\ Born(who[c])
         /\ \E e \in Nat \ {0}, k, m \in Nat : who[c] = e /\ KeptTo(e, k, m)
<1>1. who[c] # NoOne
  BY DEF AInv, Session, Placed
<1>2. PlayerRow(who[c], Name[c]) \in DOMAIN world
  BY <1>1 DEF IInv, Ident
<1>3. who[c] \in Nat \ {0} /\ Born(who[c])
  BY <1>2, BornPlayer
<1>4. Kept(who[c])
  BY <1>3 DEF AInv, Accounts
<1> QED
  BY <1>3, <1>4 DEF Kept

(* A session that has a player and is not yet bound. *)
LEMMA NewSession ==
  ASSUME (\E S : log \in Seq(S)), Current' \in Nat, NEW c \in Conns, Placed(c), Hears(c),
         pc[c] \in Outside, pc'[c] = "bind", NEW e, e # NoOne, who'[c] = e,
         outFrom'[c] = outFrom[c], bound'[c] = bound[c], heard'[c] = heard[c],
         replied'[c] = replied[c]
  PROVE  Session(c)'
<1>1. outFrom[c] = 0
  BY DEF Placed
<1>2. DOMAIN heard[c] = {} /\ replied[c] = {} /\ bound[c] = 0
  BY <1>1, Unheard
<1>3. InHand(c)' /\ Asks(c)'
  BY IdleThread DEF Holding, Asking
<1>4. Placed(c)'
  BY <1>1, <1>2 DEF Placed, Outside
<1>5. Hears(c)'
  <2>1. bound[c] + 1 .. outFrom[c] = {}
    BY <1>1, <1>2
  <2> QED BY <1>2, <2>1 DEF Hears
<1> QED
  BY <1>3, <1>4, <1>5 DEF Session

(* A login finds its player. *)
LEMMA HeirReplies ==
  ASSUME IInv, AInv, NEW c \in Conns, NEW e \in Player(Name[c]), UNCHANGED <<world, log>>,
         pc[c] \in {"login", "spawn"}, pc' = [pc EXCEPT ![c] = "bind"],
         who' = [who EXCEPT ![c] = e],
         UNCHANGED <<outFrom, line, job, bound, heard, replied>>
  PROVE  AInv'
<1>1. PlayerRow(e, Name[c]) \in DOMAIN world
  BY PlayerFound
<1>2. e # NoOne
  BY <1>1, BornPlayer DEF NoOne
<1>3. TypeOK /\ Functions /\ Session(c) /\ \E S : log \in Seq(S)
  BY DEF IInv, AInv
<1>4. Functions' /\ pc'[c] = "bind" /\ who'[c] = e /\ \A d \in Conns \ {c} : Stays(d)
  BY <1>3 DEF TypeOK, Functions, Stays, Listens
<1>5. Current' \in Nat
  BY <1>3 DEF Current
<1>6. Session(c)'
  BY <1>2, <1>3, <1>4, <1>5, NewSession DEF Session, Outside
<1> QED
  BY <1>4, <1>6, OneMoves

(* Entering the world: the session's replies start at the newest edition   *)
(* (enter_world).                                                          *)
LEMMA BindReplies ==
  ASSUME IInv, AInv, NEW c \in Conns, Bind(c)
  PROVE  AInv'
<1>1. TypeOK /\ Functions /\ Session(c) /\ \E S : log \in Seq(S)
  BY DEF IInv, AInv
<1>2. /\ Functions' /\ pc'[c] = "line" /\ who'[c] = who[c]
      /\ outFrom'[c] = Current /\ bound'[c] = Current /\ heard'[c] = heard[c]
      /\ replied'[c] = replied[c] /\ \A d \in Conns \ {c} : Stays(d)
  BY <1>1 DEF TypeOK, Functions, Stays, Listens, Bind, Begin
<1>3. outFrom[c] = 0 /\ who[c] # NoOne
  BY <1>1 DEF Session, Placed, Outside, Bind
<1>4. DOMAIN heard[c] = {} /\ replied[c] = {} /\ bound[c] = 0
  BY <1>1, <1>3, Unheard DEF Session
<1>5. InHand(c)' /\ Asks(c)'
  BY <1>2, IdleThread DEF Holding, Asking
<1>6. Current' = Current /\ Current \in Nat
  BY <1>1 DEF Current, Bind
<1>7. Placed(c)'
  BY <1>2, <1>3, <1>6 DEF Placed, Outside
<1>8. Hears(c)'
  <2>1. bound'[c] + 1 .. outFrom'[c] = {}
    BY <1>2, <1>6
  <2> QED BY <1>1, <1>2, <1>4, <2>1 DEF Session, Hears
<1>9. UNCHANGED <<world, log>>
  BY DEF Bind
<1> QED
  BY <1>2, <1>5, <1>7, <1>8, <1>9, OneMoves DEF Session

(* A birth's patch gives the player its inbox's counter. *)
LEMMA SpawnReplies ==
  ASSUME IInv, AInv, NEW c \in Conns, Spawn(c)
  PROVE  AInv'
<1>1. PICK k \in Nat \ {0} : Numbered(k)
  BY DEF IInv
<1>2. Once /\ GivenTo(k) /\ TypeOK /\ Functions
  BY <1>1 DEF IInv, Numbered, AInv
<1>3. Counter("ids", NoOne) = k
  BY <1>2, IdsCounter
<1> DEFINE q == [NoJob EXCEPT !.adds = {<<"player", k, Name[c]>>, <<"named", k, 0>>,
                                        <<"inboxseq", k, 0>>},
                              !.at = k]
           p == Bumped(q, "ids", NoOne, 1)
<1>4. /\ IsPatch(q) /\ q.at = k /\ q.pre = {} /\ q.dels = {}
      /\ q.adds = {PlayerRow(k, Name[c]), NamedRow(k), SeqRow(k, 0)}
  BY DEF IsPatch, NoJob, PlayerRow, NamedRow, SeqRow
<1>5. SpawnPatch(Name[c]) = p
  BY <1>3 DEF SpawnPatch
<1>6. /\ p.at = k /\ p.dels = {IdRow(k)}
      /\ p.adds = {PlayerRow(k, Name[c]), NamedRow(k), SeqRow(k, 0), IdRow(k + 1)}
  <2> HIDE DEF q
  <2> QED BY <1>2, <1>4, BumpTakes
<1>7. job' = [job EXCEPT ![c] = p] /\ pc' = [pc EXCEPT ![c] = "spawning"]
  BY <1>5 DEF Spawn, Propose, Go
<1> HIDE DEF p
<1>8. Goes(c, "spawning")
  BY <1>2, <1>7 DEF Goes, Spawn, history, TypeOK, Functions
<1>9. job'[c] = p /\ pc'[c] = "spawning"
  BY <1>2, <1>7 DEF TypeOK
<1>10. Touched(p.adds) = {SeqRow(k, 0)} /\ Touched(p.dels) = {}
  BY <1>6 DEF Touched, MailRels, PlayerRow, NamedRow, SeqRow, IdRow
<1>11. InHand(c)'
  BY <1>6, <1>9, <1>10 DEF InHand
<1>12. Asks(c)'
  BY <1>9 DEF Asks
<1>13. pc[c] = "spawn" /\ UNCHANGED <<world, log>>
  BY DEF Spawn
<1> QED
  BY <1>2, <1>8, <1>11, <1>12, <1>13, GoesOn DEF Outside

(* A line's patch bumps the counter of the inbox, and requires it.         *)
LEMMA NumberReplies ==
  ASSUME IInv, AInv, NEW c \in Conns, EnqueueNumber(c)
  PROVE  AInv'
<1>1. pc[c] = "number" /\ UNCHANGED <<world, log, who>>
  BY DEF EnqueueNumber
<1>2. TypeOK /\ Functions /\ Singly
  BY DEF IInv, AInv
<1>3. PICK e \in Nat \ {0}, k \in Nat, m \in Nat : who[c] = e /\ KeptTo(e, k, m)
  BY <1>1, PlayersAccount DEF Outside
<1>4. Numbers("inboxseq", e) # {} /\ Counter("inboxseq", e) = m
  BY <1>2, <1>3, AccountReads
<1> DEFINE q == [NoJob EXCEPT !.adds = {<<"inbox", e, m>>}, !.at = m]
           p == Bumped(q, "inboxseq", e, 1)
<1>5. IsPatch(q) /\ q.at = m /\ q.pre = {} /\ q.dels = {} /\ q.adds = {InboxRow(e, m)}
  BY DEF IsPatch, NoJob, InboxRow
<1>6. job' = [job EXCEPT ![c] = p] /\ pc' = [pc EXCEPT ![c] = "enqueue"]
  BY <1>3, <1>4 DEF EnqueueNumber, Propose, Go
<1>7. /\ p.at = m /\ p.pre = {SeqRow(e, m)} /\ p.dels = {SeqRow(e, m)}
      /\ p.adds = {InboxRow(e, m), SeqRow(e, m + 1)}
  <2> HIDE DEF q
  <2> QED BY <1>4, <1>5, BumpedParts DEF SeqRow
<1> HIDE DEF p
<1>8. Goes(c, "enqueue")
  BY <1>2, <1>6 DEF Goes, EnqueueNumber, history, TypeOK, Functions
<1>9. job'[c] = p /\ pc'[c] = "enqueue" /\ who'[c] = e
  BY <1>1, <1>2, <1>3, <1>6 DEF TypeOK
<1>10. Touched(p.adds) = {InboxRow(e, m), SeqRow(e, m + 1)} /\ Touched(p.dels) = {SeqRow(e, m)}
  BY <1>7 DEF Touched, MailRels, InboxRow, SeqRow
<1>11. InHand(c)'
  BY <1>7, <1>9, <1>10 DEF InHand
<1>12. Asks(c)'
  BY <1>9 DEF Asks
<1> QED
  BY <1>1, <1>2, <1>8, <1>11, <1>12, GoesOn DEF Outside

(* A patch that touches no account is in hand. *)
LEMMA ProposesAside ==
  ASSUME AInv, TypeOK, UNCHANGED <<world, log>>, NEW c \in Conns, pc[c] \notin Outside,
         NEW at \in {"install", "pump", "advance"}, NEW p,
         job' = [job EXCEPT ![c] = p], pc' = [pc EXCEPT ![c] = at],
         UNCHANGED <<who, outFrom, line, bound, heard, replied>>,
         \A r \in p.adds \cup p.dels : r[1] \notin MailRels \cup {"tell"}
  PROVE  AInv'
<1>1. Functions
  BY DEF AInv
<1>2. Goes(c, at)
  BY <1>1 DEF Goes, TypeOK, Functions
<1>3. job'[c] = p /\ pc'[c] = at
  BY DEF TypeOK
<1>4. Touched(p.adds) = {} /\ Touched(p.dels) = {}
  BY DEF Touched
<1>5. InHand(c)' /\ Asks(c)'
  BY <1>3, <1>4 DEF InHand, Asks
<1> QED
  BY <1>2, <1>5, GoesOn DEF Outside


(* Waiting for the inbox to be idle commits nothing. *)
LEMMA PositionReplies ==
  ASSUME IInv, AInv, NEW c \in Conns, Position(c)
  PROVE  AInv'
<1>1. pc[c] = "position" /\ UNCHANGED <<world, log, who, line>>
  BY DEF Position
<1>2. TypeOK /\ Functions /\ Session(c)
  BY DEF IInv, AInv
<1>3. PICK at : at = Cursor("cursor", who[c])
  OBVIOUS
<1>4. job' = [job EXCEPT ![c] = [NoJob EXCEPT !.at = at]] /\ pc' = [pc EXCEPT ![c] = "prepare"]
  BY <1>3 DEF Position, Propose, Go
<1>5. Goes(c, "prepare")
  BY <1>2, <1>4 DEF Goes, Position, history, TypeOK, Functions
<1>6. job'[c].at = at /\ pc'[c] = "prepare"
  BY <1>2, <1>4 DEF TypeOK, NoJob
<1>7. /\ (\E S : log \in Seq(S)) /\ LogGrows /\ InboxGrows
      /\ \A e : Cursor("cursor", e)' = Cursor("cursor", e)
  BY <1>1, StillWorld
<1>8. Cursor("cursor", who[c])' = Cursor("cursor", who[c])
  BY <1>1 DEF Cursor, Numbers, Held, Rows
<1>9. InHand(c)'
  BY <1>3, <1>6, <1>8 DEF InHand
<1>10. Listens(c) /\ line'[c] = line[c]
  BY <1>1, <1>5 DEF Goes, Listens
<1>11. Asked(c)'
  BY <1>1, <1>2, <1>7, <1>10, AskedKept DEF Session, Asks
<1>12. Asks(c)'
  BY <1>6, <1>11 DEF Asks
<1> QED
  BY <1>1, <1>2, <1>5, <1>9, <1>12, GoesOn DEF Outside

(* The patch of a step tells, and moves the cursor it was prepared at.     *)
LEMMA PrepareReplies ==
  ASSUME IInv, AInv, NEW c \in Conns, Prepare(c)
  PROVE  AInv'
<1>1. pc[c] = "prepare" /\ UNCHANGED <<world, log, who, line>>
  BY DEF Prepare
<1>2. TypeOK /\ Functions /\ Singly /\ Session(c)
  BY DEF IInv, AInv
<1>3. PICK e \in Nat \ {0}, k \in Nat, m \in Nat : who[c] = e /\ KeptTo(e, k, m)
  BY <1>1, PlayersAccount DEF Outside
<1>4. /\ Cursor("cursor", e) = k
      /\ \A n : Pending(e, n) <=> n \in 0 .. m - 1
      /\ \A n : InboxRow(e, n) \in DOMAIN world <=> n \in 0 .. m - 1
  BY <1>2, <1>3, AccountReads
<1>5. job[c].at = k
  BY <1>1, <1>2, <1>3, <1>4 DEF Session, InHand
<1>6. InboxRow(e, k) \in DOMAIN world
  BY <1>3, <1>4, <1>5 DEF Prepare
<1>7. PICK i \in Nat \ {0} : GivenTo(i)
  BY DEF IInv, Numbered
<1>8. Counter("ids", NoOne) = i
  BY <1>7, IdsCounter DEF IInv
<1> DEFINE q == [NoJob EXCEPT !.adds = {<<"tell", e, k>>, <<"named", i, 0>>}]
           b == Bumped(q, "ids", NoOne, 1)
           moved == IF k > 0 THEN {<<"cursor", e, k>>} ELSE {}
           p == [b EXCEPT !.dels = @ \cup moved, !.adds = @ \cup {<<"cursor", e, k + 1>>},
                          !.at = k]
<1>9. IsPatch(q) /\ q.dels = {} /\ q.adds = {TellRow(e, k), NamedRow(i)}
  BY DEF IsPatch, NoJob, TellRow, NamedRow
<1>10. IsPatch(b) /\ b.dels = {IdRow(i)} /\ b.adds = {TellRow(e, k), NamedRow(i), IdRow(i + 1)}
  <2> HIDE DEF q
  <2> QED BY <1>7, <1>9, BumpTakes DEF IInv
<1>11. /\ p.at = k /\ p.dels = {IdRow(i)} \cup moved
       /\ p.adds = {TellRow(e, k), NamedRow(i), IdRow(i + 1), CursorRow(e, k + 1)}
  <2> HIDE DEF b, moved
  <2> QED BY <1>10 DEF IsPatch, CursorRow
<1>12. moved = IF k = 0 THEN {} ELSE {CursorRow(e, k)}
  BY DEF CursorRow
<1>13. Step(e, k) = p
  BY <1>8 DEF Step, Behavior
<1>14. job' = [job EXCEPT ![c] = p] /\ pc' = [pc EXCEPT ![c] = "step"]
  BY <1>3, <1>5, <1>13 DEF Prepare, Propose, Go
<1> HIDE DEF p, moved
<1>15. Goes(c, "step")
  BY <1>2, <1>14 DEF Goes, Prepare, history, TypeOK, Functions
<1>16. job'[c] = p /\ pc'[c] = "step" /\ who'[c] = e
  BY <1>1, <1>2, <1>3, <1>14 DEF TypeOK
<1>17. Touched(p.adds) = {TellRow(e, k), CursorRow(e, k + 1)}
  BY <1>11 DEF Touched, MailRels, TellRow, CursorRow, NamedRow, IdRow
<1>18. Touched(p.dels) = IF k = 0 THEN {} ELSE {CursorRow(e, k)}
  <2>1. \A r \in moved : r[1] = "cursor"
    BY <1>12 DEF CursorRow
  <2>2. Touched(p.dels) = moved
    BY <1>11, <2>1 DEF Touched, MailRels, IdRow
  <2> QED BY <1>12, <2>2
<1>19. Cursor("cursor", e)' = k
  BY <1>1, <1>4 DEF Cursor, Numbers, Held, Rows
<1>20. InHand(c)'
  <2>1. Cursor("cursor", who[c])' = Cursor("cursor", e)'
    BY <1>16 DEF Cursor, Numbers, Held, Rows
  <2> QED BY <1>1, <1>6, <1>11, <1>16, <1>17, <1>18, <1>19, <2>1 DEF InHand
<1>21. (\E S : log \in Seq(S)) /\ LogGrows /\ InboxGrows
  BY <1>1, StillWorld
<1>22. Listens(c) /\ line'[c] = line[c]
  BY <1>1, <1>15 DEF Goes, Listens
<1>23. Asked(c)'
  BY <1>1, <1>2, <1>21, <1>22, AskedKept DEF Session, Asks
<1>24. Asks(c)'
  BY <1>16, <1>23 DEF Asks
<1> QED
  BY <1>1, <1>2, <1>15, <1>20, <1>24, GoesOn DEF Outside

(* Once the inbox is idle the command was handled, and told of. *)
LEMMA IdleReplies ==
  ASSUME IInv, AInv, NEW c \in Conns, InboxIdle(c)
  PROVE  AInv'
<1>1. pc[c] = "prepare" /\ UNCHANGED <<world, log, who, line>>
  BY DEF InboxIdle
<1>2. TypeOK /\ Functions /\ Singly /\ Session(c)
  BY DEF IInv, AInv
<1>3. PICK e \in Nat \ {0}, k \in Nat, m \in Nat : who[c] = e /\ KeptTo(e, k, m)
  BY <1>1, PlayersAccount DEF Outside
<1>4. /\ Cursor("cursor", e) = k
      /\ \A n : Pending(e, n) <=> n \in 0 .. m - 1
      /\ \A n : InboxRow(e, n) \in DOMAIN world <=> n \in 0 .. m - 1
  BY <1>2, <1>3, AccountReads
<1>5. job[c].at = k
  BY <1>1, <1>2, <1>3, <1>4 DEF Session, InHand
<1>6. k = m
  BY <1>3, <1>4, <1>5 DEF InboxIdle, KeptTo, ToldTo
<1>7. Asked(c)
  BY <1>1, <1>2 DEF Session, Asks
<1>8. line[c] \in 0 .. k - 1
  BY <1>3, <1>4, <1>6, <1>7 DEF Asked
<1>9. PICK i \in 1 .. Current : Told(e, line[c], i)
  BY <1>3, <1>8 DEF KeptTo, ToldTo
<1>10. /\ job' = [job EXCEPT ![c] = NoJob] /\ pc' = [pc EXCEPT ![c] = "drain"]
  BY DEF InboxIdle, Drop, Propose, Begin
<1>11. Goes(c, "drain")
  BY <1>2, <1>10 DEF Goes, InboxIdle, history, TypeOK, Functions
<1>12. pc'[c] = "drain"
  BY <1>2, <1>10 DEF TypeOK
<1>13. InHand(c)'
  BY <1>12 DEF InHand
<1>14. (\E S : log \in Seq(S)) /\ LogGrows /\ InboxGrows
  BY <1>1, StillWorld
<1>15. Listens(c) /\ line'[c] = line[c]
  BY <1>1, <1>11 DEF Goes, Listens
<1>16. Asked(c)'
  BY <1>2, <1>7, <1>14, <1>15, AskedKept DEF Session
<1>17. \E j \in 1 .. Current' : Told(who[c], line[c], j)'
  BY <1>1, <1>3, <1>9 DEF Current, Told
<1>18. Asks(c)'
  BY <1>12, <1>16, <1>17 DEF Asks
<1> QED
  BY <1>1, <1>2, <1>11, <1>13, <1>18, GoesOn DEF Outside

(* Draining begins once the command was told of, up to the newest          *)
(* edition (drain_output).                                                 *)
LEMMA DrainStartReplies ==
  ASSUME IInv, AInv, NEW c \in Conns, DrainStart(c)
  PROVE  AInv'
<1>1. pc[c] = "drain" /\ UNCHANGED <<world, log, who, line>>
  BY DEF DrainStart
<1>2. TypeOK /\ Functions /\ Session(c) /\ \E S : log \in Seq(S)
  BY DEF IInv, AInv
<1>3. /\ job' = [job EXCEPT ![c] = [NoJob EXCEPT !.at = Current]]
      /\ pc' = [pc EXCEPT ![c] = "replies"]
  BY DEF DrainStart, Propose, Go
<1>4. Goes(c, "replies")
  BY <1>2, <1>3 DEF Goes, DrainStart, history, TypeOK, Functions
<1>5. pc'[c] = "replies" /\ job'[c].at = Current
  BY <1>2, <1>3 DEF TypeOK, NoJob
<1>6. InHand(c)'
  BY <1>5 DEF InHand
<1>7. (\E S : log \in Seq(S)) /\ LogGrows /\ InboxGrows
  BY <1>1, StillWorld
<1>8. Listens(c) /\ line'[c] = line[c]
  BY <1>1, <1>4 DEF Goes, Listens
<1>9. Asked(c)'
  BY <1>1, <1>2, <1>7, <1>8, AskedKept DEF Session, Asks
<1>10. PICK i \in 1 .. Current : Told(who[c], line[c], i)
  BY <1>1, <1>2 DEF Session, Asks
<1>11. Current' = Current /\ Current \in Nat /\ outFrom'[c] = outFrom[c]
  BY <1>1, <1>2, <1>8 DEF Current, Listens
<1>12. job'[c].at \in outFrom'[c] .. Current'
  BY <1>2, <1>5, <1>11 DEF Session, Placed
<1>13. Told(who[c], line[c], i)'
  BY <1>1, <1>10 DEF Told
<1>14. Asks(c)'
  BY <1>5, <1>9, <1>10, <1>11, <1>12, <1>13 DEF Asks
<1> QED
  BY <1>1, <1>2, <1>4, <1>6, <1>14, GoesOn DEF Outside

-----------------------------------------------------------------------------
(* The replies read.                                                       *)

(* What SetToSeq makes of at most one member. *)
LEMMA NoneOrOne ==
  ASSUME NEW S
  PROVE  /\ S = {} => SetToSeq(S) \in Seq(S) /\ DOMAIN SetToSeq(S) = {}
         /\ \A x : S = {x} => /\ SetToSeq(S) \in Seq(S) /\ DOMAIN SetToSeq(S) = {1}
                              /\ SetToSeq(S)[1] = x
<1>1. ASSUME S = {} PROVE SetToSeq(S) \in Seq(S) /\ DOMAIN SetToSeq(S) = {}
  <2>1. Cardinality(S) = 0
    BY <1>1, FS_EmptySet
  <2> DEFINE F == [1 .. 0 -> S]
             f0 == [i \in 1 .. 0 |-> i]
  <2>2. f0 \in F /\ IsInjective(f0)
    BY DEF IsInjective
  <2>3. SetToSeq(S) = CHOOSE f \in F : IsInjective(f)
    BY <2>1 DEF SetToSeq
  <2> HIDE DEF f0
  <2>4. SetToSeq(S) \in F
    BY <2>2, <2>3
  <2> QED BY <2>4
<1>2. ASSUME NEW x, S = {x}
      PROVE  /\ SetToSeq(S) \in Seq(S) /\ DOMAIN SetToSeq(S) = {1} /\ SetToSeq(S)[1] = x
  <2>1. Cardinality(S) = 1
    BY <1>2, FS_Singleton
  <2> DEFINE F == [1 .. 1 -> S]
             f0 == [i \in 1 .. 1 |-> x]
  <2>2. f0 \in F /\ IsInjective(f0)
    BY <1>2 DEF IsInjective
  <2>3. SetToSeq(S) = CHOOSE f \in F : IsInjective(f)
    BY <2>1 DEF SetToSeq
  <2> HIDE DEF f0
  <2>4. SetToSeq(S) \in F
    BY <2>2, <2>3
  <2>5. SetToSeq(S) \in Seq(S) /\ DOMAIN SetToSeq(S) = {1}
    <3>1. PICK f : f = SetToSeq(S)
      OBVIOUS
    <3>2. DOMAIN f = {1} /\ f \in [1 .. 1 -> S]
      BY <2>4, <3>1
    <3>3. f \in Seq(S)
      <4>1. \A n \in Nat : [1 .. n -> S] \subseteq Seq(S)
        OBVIOUS
      <4> QED BY <3>2, <4>1
    <3> QED BY <3>1, <3>2, <3>3
  <2>6. SetToSeq(S)[1] \in S
    BY <2>4
  <2> QED BY <1>2, <2>5, <2>6
<1> QED
  BY <1>1, <1>2

(* The numbers told a player in editions (from, to], each once. *)
AllTold(w, e, from, to) ==
  /\ w \in Seq(Nat) /\ Distinct(w)
  /\ \A a \in DOMAIN w : \E i \in from + 1 .. to : Told(e, w[a], i)
  /\ \A i \in from + 1 .. to : \A r \in log[i] :
       r[1] = "tell" /\ r[2] = e => \E a \in DOMAIN w : w[a] = r[3]

(* The tells between two editions, in the order they are read: each        *)
(* once.                                                                   *)
LEMMA TellsJoin ==
  ASSUME NEW e, NEW k \in Nat, NEW m \in Nat, KeptTo(e, k, m),
         NEW from \in Nat, NEW to \in Nat, from <= to, Current \in Nat, to <= Current
  PROVE  AllTold(Tells(e, from, to), e, from, to)
<1> DEFINE N == to - from
           told(i) == {r[3] : r \in {x \in log[from + i] : x[1] = "tell" /\ x[2] = e}}
           s == [i \in 1 .. N |-> SetToSeq(told(i))]
<1>1. N \in Nat /\ \A i \in 1 .. N : from + i \in 1 .. Current /\ from + i \in from + 1 .. to
  OBVIOUS
<1>2. \A n : TellRow(e, n)[1] = "tell" /\ TellRow(e, n)[2] = e /\ TellRow(e, n)[3] = n
  BY DEF TellRow
<1>3. ASSUME NEW i \in 1 .. N
      PROVE  /\ \A n \in told(i) : n \in 0 .. k - 1 /\ Told(e, n, from + i)
             /\ \A n, p \in told(i) : n = p
  <2>1. ASSUME NEW n \in told(i) PROVE n \in 0 .. k - 1 /\ Told(e, n, from + i)
    <3>1. PICK r \in log[from + i] : r[1] = "tell" /\ r[2] = e /\ n = r[3]
      OBVIOUS
    <3>2. PICK p \in 0 .. k - 1 : r = TellRow(e, p)
      BY <1>1, <3>1 DEF KeptTo, ToldTo
    <3>3. n = p
      BY <1>2, <3>1, <3>2
    <3> QED BY <3>1, <3>2, <3>3 DEF Told
  <2>2. ASSUME NEW n \in told(i), NEW p \in told(i) PROVE n = p
    <3>1. n \in 0 .. k - 1 /\ Told(e, n, from + i) /\ p \in 0 .. k - 1 /\ Told(e, p, from + i)
      BY <2>1
    <3> QED BY <1>1, <3>1 DEF KeptTo, ToldTo
  <2> QED BY <2>1, <2>2
<1> HIDE DEF told
<1>4. ASSUME NEW i \in 1 .. N
      PROVE  /\ s[i] \in Seq(Nat)
             /\ \A p \in DOMAIN s[i] : p = 1 /\ s[i][p] \in told(i)
             /\ \A n \in told(i) : 1 \in DOMAIN s[i] /\ s[i][1] = n
  <2>1. s[i] = SetToSeq(told(i)) /\ told(i) \subseteq Nat
    BY <1>3
  <2>2. CASE told(i) = {}
    <3>1. s[i] \in Seq(told(i)) /\ DOMAIN s[i] = {}
      <4> HIDE DEF s
      <4> QED BY <2>1, <2>2, NoneOrOne
    <3> HIDE DEF s
    <3> QED BY <2>1, <2>2, <3>1
  <2>3. CASE told(i) # {}
    <3>0. PICK x \in told(i) : TRUE
      BY <2>3
    <3>1. told(i) = {x}
      <4>1. \A n \in told(i) : n = x
        BY <1>3
      <4> QED BY <4>1, Zenon
    <3>2. s[i] \in Seq(told(i)) /\ DOMAIN s[i] = {1} /\ s[i][1] = x
      <4> HIDE DEF s, told
      <4>1. \A S, y : S = {y} =>
              /\ SetToSeq(S) \in Seq(S) /\ DOMAIN SetToSeq(S) = {1}
              /\ SetToSeq(S)[1] = y
        BY NoneOrOne
      <4> QED BY <2>1, <3>1, <4>1
    <3> HIDE DEF s
    <3>3. x \in Nat
      BY <2>1
    <3>4. s[i] \in Seq(Nat)
      <4>1. told(i) \subseteq Nat
        BY <2>1
      <4>2. Seq(told(i)) \subseteq Seq(Nat)
        <5> HIDE DEF told, s
        <5> QED BY <4>1
      <4> QED BY <3>2, <4>2
    <3>5. \A n \in told(i) : 1 \in DOMAIN s[i] /\ s[i][1] = n
      BY <3>1, <3>2
    <3>6. \A p \in DOMAIN s[i] : p = 1 /\ s[i][p] \in told(i)
      BY <3>2
    <3> QED BY <3>4, <3>5, <3>6
  <2> QED BY <2>2, <2>3
<1>5. s \in [1 .. N -> Seq(Nat)]
  <2>1. \A i \in 1 .. N : s[i] \in Seq(Nat)
    BY <1>4
  <2>2. s = [i \in 1 .. N |-> s[i]]
    OBVIOUS
  <2> HIDE DEF s, N
  <2> QED BY <2>1, <2>2
<1>6. Tells(e, from, to) = FlattenSeq(s)
  BY DEF Tells, told
<1> HIDE DEF s, N
<1>7. ASSUME NEW i \in 1 .. N, NEW j \in 1 .. N, NEW p \in DOMAIN s[i], NEW q \in DOMAIN s[j],
             s[i][p] = s[j][q]
      PROVE  i = j /\ p = q
  <2>1. p = 1 /\ s[i][p] \in told(i) /\ q = 1 /\ s[j][q] \in told(j)
    BY <1>4
  <2>2. PICK n : n = s[i][p]
    OBVIOUS
  <2>3. n \in 0 .. k - 1 /\ Told(e, n, from + i) /\ Told(e, n, from + j)
    BY <1>3, <1>7, <2>1, <2>2
  <2>4. from + i = from + j
    BY <1>1, <2>3 DEF KeptTo, ToldTo
  <2> QED BY <1>1, <2>1, <2>4
<1>8. Joins(FlattenSeq(s), s, N, Nat)
  <2>1. \A i, j \in 1 .. N : \A p \in DOMAIN s[i], q \in DOMAIN s[j] :
          s[i][p] = s[j][q] => i = j /\ p = q
    BY <1>7
  <2> QED BY <1>1, <1>5, <2>1, FlattenJoins
<1> DEFINE w == FlattenSeq(s)
<1>9. w \in Seq(Nat) /\ Distinct(w)
  BY <1>8 DEF Joins, Distinct
<1>10. ASSUME NEW a \in DOMAIN w PROVE \E i \in from + 1 .. to : Told(e, w[a], i)
  <2>1. PICK i \in 1 .. N : \E p \in DOMAIN s[i] : w[a] = s[i][p]
    BY <1>8 DEF Joins
  <2>2. w[a] \in told(i)
    BY <1>4, <2>1
  <2> QED BY <1>1, <1>3, <2>2
<1>11. ASSUME NEW i \in from + 1 .. to, NEW r \in log[i], r[1] = "tell" /\ r[2] = e
       PROVE  \E a \in DOMAIN w : w[a] = r[3]
  <2>1. i - from \in 1 .. N /\ from + (i - from) = i
    BY <1>1 DEF N
  <2>2. PICK j \in 1 .. N : from + j = i
    BY <2>1
  <2>3. r[3] \in told(j)
    BY <1>11, <2>2 DEF told
  <2>4. 1 \in DOMAIN s[j] /\ s[j][1] = r[3]
    BY <1>4, <2>3
  <2> QED BY <1>8, <2>4 DEF Joins
<1> HIDE DEF w
<1>12. Tells(e, from, to) = w
  BY <1>6 DEF w
<1>13. AllTold(w, e, from, to)
  BY <1>9, <1>10, <1>11 DEF AllTold
<1> QED
  BY <1>12, <1>13


(* What is heard now was told after all that was heard before. *)
LEMMA DrainReplies ==
  ASSUME IInv, AInv, NEW c \in Conns, Drain(c)
  PROVE  AInv'
<1>1. pc[c] = "replies" /\ UNCHANGED <<world, log, who>>
  BY DEF Drain
<1>2. TypeOK /\ Functions /\ Singly /\ Session(c) /\ \E S : log \in Seq(S)
  BY DEF IInv, AInv
<1>3. PICK e \in Nat \ {0}, k \in Nat, m \in Nat : who[c] = e /\ KeptTo(e, k, m)
  BY <1>1, PlayersAccount DEF Outside
<1>4. PICK from \in Nat, to \in Nat, lo \in Nat :
        /\ from = outFrom[c] /\ to = job[c].at /\ lo = bound[c]
        /\ lo <= from /\ from <= to /\ to <= Current /\ Current \in Nat
  <2>1. Current \in Nat
    BY <1>2 DEF Current
  <2>2. /\ outFrom[c] \in Nat /\ bound[c] \in Nat /\ bound[c] <= outFrom[c]
        /\ job[c].at \in outFrom[c] .. Current
    BY <1>1, <1>2 DEF Session, Placed, Asks
  <2> QED BY <2>1, <2>2
<1> DEFINE w == Tells(e, from, to)
<1>5. /\ w \in Seq(Nat) /\ Distinct(w)
      /\ \A a \in DOMAIN w : \E i \in from + 1 .. to : Told(e, w[a], i)
      /\ \A i \in from + 1 .. to : \A r \in log[i] :
           r[1] = "tell" /\ r[2] = e => \E a \in DOMAIN w : w[a] = r[3]
  <2>1. AllTold(Tells(e, from, to), e, from, to)
    BY <1>3, <1>4, TellsJoin
  <2> QED BY <2>1 DEF AllTold
<1>6. /\ Functions' /\ pc'[c] = "push" /\ who'[c] = e
      /\ heard'[c] = heard[c] \o w /\ outFrom'[c] = to /\ bound'[c] = lo
      /\ replied'[c] = replied[c] \cup {line[c]}
      /\ \A d \in Conns \ {c} : Stays(d)
  <2>1. /\ pc' = [pc EXCEPT ![c] = "push"] /\ job' = [job EXCEPT ![c] = NoJob]
        /\ heard' = [heard EXCEPT ![c] = heard[c] \o w] /\ outFrom' = [outFrom EXCEPT ![c] = to]
        /\ replied' = [replied EXCEPT ![c] = replied[c] \cup {line[c]}]
        /\ line' = [line EXCEPT ![c] = NoLine] /\ UNCHANGED <<who, bound>>
    BY <1>3, <1>4 DEF Drain, OutCursor, Begin, Drop, Propose
  <2> HIDE DEF w
  <2> QED BY <1>2, <1>3, <1>4, <2>1 DEF TypeOK, Functions, Stays, Listens
<1> HIDE DEF w
<1>7. /\ heard[c] \in Seq(Nat) /\ Distinct(heard[c])
      /\ \A j \in DOMAIN heard[c] : \E i \in lo + 1 .. from : Told(e, heard[c][j], i)
      /\ \A i \in lo + 1 .. from : \A r \in log[i] :
           r[1] = "tell" /\ r[2] = e => \E j \in DOMAIN heard[c] : heard[c][j] = r[3]
      /\ \A n \in replied[c] : \E j \in DOMAIN heard[c] : heard[c][j] = n
  BY <1>2, <1>3, <1>4 DEF Session, Hears, Distinct
<1>8. \A n : TellRow(e, n)[1] = "tell" /\ TellRow(e, n)[2] = e /\ TellRow(e, n)[3] = n
  BY DEF TellRow
<1>9. ASSUME NEW n, NEW i \in 1 .. Current, NEW j \in 1 .. Current, Told(e, n, i), Told(e, n, j)
      PROVE  i = j
  <2>1. PICK p \in 0 .. k - 1 : TellRow(e, n) = TellRow(e, p)
    BY <1>3, <1>8, <1>9 DEF KeptTo, ToldTo, Told
  <2>2. n \in 0 .. k - 1
    BY <1>8, <2>1
  <2> QED BY <1>3, <1>9, <2>2 DEF KeptTo, ToldTo
<1>10. \A a \in DOMAIN heard[c], p \in DOMAIN w : heard[c][a] # w[p]
  <2> SUFFICES ASSUME NEW a \in DOMAIN heard[c], NEW p \in DOMAIN w, heard[c][a] = w[p]
               PROVE  FALSE
    OBVIOUS
  <2>1. PICK i \in lo + 1 .. from : Told(e, heard[c][a], i)
    BY <1>7
  <2>2. PICK j \in from + 1 .. to : Told(e, w[p], j)
    BY <1>5
  <2>3. i \in 1 .. Current /\ j \in 1 .. Current /\ i # j
    BY <1>4
  <2> QED BY <1>9, <2>1, <2>2, <2>3
<1> DEFINE v == heard[c] \o w
<1>11. /\ v \in Seq(Nat)
       /\ \A a \in DOMAIN v : \/ a \in DOMAIN heard[c] /\ v[a] = heard[c][a]
                              \/ \E p \in DOMAIN w : v[a] = w[p]
       /\ \A a \in DOMAIN heard[c] : \E b \in DOMAIN v : v[b] = heard[c][a]
       /\ \A p \in DOMAIN w : \E b \in DOMAIN v : v[b] = w[p]
       /\ Distinct(v)
  <2>1. PICK u : u = heard[c]
    OBVIOUS
  <2>2. /\ u \o w \in Seq(Nat)
        /\ \A a \in DOMAIN (u \o w) : \/ a \in DOMAIN u /\ (u \o w)[a] = u[a]
                                      \/ \E p \in DOMAIN w : (u \o w)[a] = w[p]
        /\ \A a \in DOMAIN u : \E b \in DOMAIN (u \o w) : (u \o w)[b] = u[a]
        /\ \A p \in DOMAIN w : \E b \in DOMAIN (u \o w) : (u \o w)[b] = w[p]
        /\ Distinct(u) /\ Distinct(w) /\ (\A a \in DOMAIN u, p \in DOMAIN w : u[a] # w[p]) =>
             Distinct(u \o w)
    <3>1. u \in Seq(Nat) /\ w \in Seq(Nat)
      BY <1>5, <1>7, <2>1
    <3> QED BY <3>1, OneAfter
  <2>3. Distinct(u \o w)
    BY <1>5, <1>7, <1>10, <2>1, <2>2
  <2> QED BY <2>1, <2>2, <2>3
<1>12. heard'[c] = v
  BY <1>6
<1> HIDE DEF v
<1>13. ASSUME NEW a \in DOMAIN v PROVE \E i \in lo + 1 .. to : Told(e, v[a], i)
  <2>1. CASE a \in DOMAIN heard[c] /\ v[a] = heard[c][a]
    <3>1. PICK i \in lo + 1 .. from : Told(e, heard[c][a], i)
      BY <1>7, <2>1
    <3>2. i \in lo + 1 .. to
      BY <1>4
    <3> QED BY <2>1, <3>1, <3>2
  <2>2. CASE \E p \in DOMAIN w : v[a] = w[p]
    <3>1. PICK p \in DOMAIN w : v[a] = w[p]
      BY <2>2
    <3>2. PICK i \in from + 1 .. to : Told(e, w[p], i)
      BY <1>5
    <3>3. i \in lo + 1 .. to
      BY <1>4
    <3> QED BY <3>1, <3>2, <3>3
  <2> QED BY <1>11, <2>1, <2>2
<1>14. ASSUME NEW i \in lo + 1 .. to, NEW r \in log[i], r[1] = "tell" /\ r[2] = e
       PROVE  \E a \in DOMAIN v : v[a] = r[3]
  <2>1. CASE i \in lo + 1 .. from
    <3>1. PICK j \in DOMAIN heard[c] : heard[c][j] = r[3]
      BY <1>7, <1>14, <2>1
    <3>2. PICK b \in DOMAIN v : v[b] = heard[c][j]
      BY <1>11
    <3> QED BY <3>1, <3>2
  <2>2. CASE i \notin lo + 1 .. from
    <3>1. i \in from + 1 .. to
      BY <1>4, <2>2
    <3>2. PICK p \in DOMAIN w : w[p] = r[3]
      BY <1>5, <1>14, <3>1
    <3>3. PICK b \in DOMAIN v : v[b] = w[p]
      BY <1>11
    <3> QED BY <3>2, <3>3
  <2> QED BY <2>1, <2>2
<1>15. ASSUME NEW n \in replied[c] \cup {line[c]} PROVE \E a \in DOMAIN v : v[a] = n
  <2>1. CASE n \in replied[c]
    BY <1>7, <1>11, <2>1
  <2>2. CASE n = line[c]
    <3>0. Asked(c) /\ \E i \in 1 .. job[c].at : Told(who[c], line[c], i)
      BY <1>1, <1>2 DEF Session, Asks
    <3>1. PICK i \in 1 .. to : Told(e, n, i)
      BY <1>3, <1>4, <2>2, <3>0
    <3>2. i > from
      <4>1. i \in 1 .. Current
        BY <1>4
      <4> QED BY <1>3, <1>4, <2>2, <3>0, <3>1, <4>1 DEF Asked
    <3>3. i \in from + 1 .. to
      BY <1>4, <3>2
    <3>4. PICK a \in DOMAIN w : w[a] = TellRow(e, n)[3]
      BY <1>5, <1>8, <3>1, <3>3 DEF Told
    <3> QED BY <1>8, <1>11, <3>4
  <2> QED BY <1>15, <2>1, <2>2
<1>16. Hears(c)'
  <2>1. \A n, i : Told(e, n, i) <=> TellRow(e, n) \in log'[i]
    BY <1>1 DEF Told
  <2>2. \A j \in DOMAIN heard'[c] :
           \E i \in bound'[c] + 1 .. outFrom'[c] : TellRow(who'[c], heard'[c][j]) \in log'[i]
    BY <1>6, <1>12, <1>13, <2>1
  <2>3. \A i \in bound'[c] + 1 .. outFrom'[c] : \A r \in log'[i] :
          r[1] = "tell" /\ r[2] = who'[c] => \E j \in DOMAIN heard'[c] : heard'[c][j] = r[3]
    BY <1>1, <1>6, <1>12, <1>14
  <2>4. \A n \in replied'[c] : \E j \in DOMAIN heard'[c] : heard'[c][j] = n
    BY <1>6, <1>12, <1>15
  <2>5. /\ heard'[c] \in Seq(Nat)
        /\ \A i, j \in DOMAIN heard'[c] : heard'[c][i] = heard'[c][j] => i = j
    BY <1>11, <1>12 DEF Distinct
  <2> QED BY <2>2, <2>3, <2>4, <2>5 DEF Hears, Told
<1>17. Placed(c)'
  <2>1. Current' = Current
    BY <1>1 DEF Current
  <2> QED BY <1>3, <1>4, <1>6, <2>1 DEF Placed, Outside, NoOne
<1>18. InHand(c)' /\ Asks(c)'
  BY <1>6, IdleThread DEF Holding, Asking
<1>19. UNCHANGED <<world, log>>
  BY <1>1
<1> QED
  BY <1>6, <1>16, <1>17, <1>18, <1>19, OneMoves DEF Session

-----------------------------------------------------------------------------
(* Commits.                                                                *)

(* All accounts but one player's are left, and every session but one.      *)
LEMMA CommitKeeps ==
  ASSUME AInv, TypeOK, Functions', NEW c \in Conns, Committed(c), Clean(c),
         \A e, n : InboxRow(e, n) \notin job[c].dels,
         NEW S \in SUBSET (Nat \ {0}),
         \A e \in (Nat \ {0}) \ S : Leaves(c, e) /\ (Born(e)' <=> Born(e)),
         \A e \in S : Born(e)' /\ Kept(e)',
         \A d \in Conns \ {c} : Stays(d),
         \A d \in Conns \ {c} : pc[d] \in {"prepare", "step"} =>
           \E e : who[d] = e /\ (Leaves(c, e) \/ Cursor("cursor", e)' = Cursor("cursor", e)),
         Session(c)'
  PROVE  AInv'
<1>1. (\E T : log \in Seq(T)) /\ Singly
  BY DEF AInv
<1>2. Singly' /\ InboxGrows /\ LogGrows
  BY <1>1, MailCommit, InboxStays
<1>3. \E T : log' \in Seq(T)
  BY <1>1, <1>2, LogOnward
<1>4. ASSUME NEW e \in Nat \ {0} PROVE (Born(e)' => Kept(e)') /\ (~ Born(e)' => Blank(e)')
  <2>1. CASE e \in S
    BY <2>1
  <2>2. CASE e \notin S
    <3>1. SameAt(e) /\ NotTold(e)
      BY <1>1, <2>2, LeftAlone
    <3>2. /\ Blank(e) => Blank(e)'
          /\ \A k, m \in Nat : KeptTo(e, k, m) => KeptTo(e, k, m)'
      BY <1>1, <3>1, SameAccount
    <3>3. Kept(e) => Kept(e)'
      <4> SUFFICES ASSUME Kept(e) PROVE Kept(e)'
        OBVIOUS
      <4>1. PICK k \in Nat, m \in Nat : KeptTo(e, k, m)
        BY DEF Kept
      <4>2. KeptTo(e, k, m)'
        BY <3>2, <4>1
      <4> QED BY <4>2 DEF Kept
    <3> QED BY <2>2, <3>2, <3>3 DEF AInv, Accounts
  <2> QED BY <2>1, <2>2
<1>5. ASSUME NEW d \in Conns \ {c} PROVE Session(d)'
  <2>1. Session(d) /\ Stays(d)
    BY DEF AInv
  <2>2. ASSUME pc[d] \in {"prepare", "step"}, NEW e, e = who[d]
        PROVE  Cursor("cursor", e)' = Cursor("cursor", e)
    <3>1. CASE Leaves(c, e)
      <4>1. SameAt(e)
        BY <1>1, <3>1, LeftAlone
      <4> QED BY <1>1, <1>2, <4>1, SameCursor DEF SameAt
    <3>2. CASE Cursor("cursor", e)' = Cursor("cursor", e)
      BY <3>2
    <3> QED BY <2>2, <3>1, <3>2
  <2>3. pc[d] \in {"prepare", "step"} =>
          \A e : e = who[d] => Cursor("cursor", e)' = Cursor("cursor", e)
    BY <2>2
  <2> QED BY <1>1, <1>2, <2>1, <2>3, SessionKept
<1>6. Accounts'
  BY <1>4 DEF Accounts
<1> QED
  BY <1>2, <1>3, <1>5, <1>6 DEF AInv

(* A commit that goes on with the thread. *)
Ends(c, at, e) ==
  /\ pc' = [pc EXCEPT ![c] = at] /\ job' = [job EXCEPT ![c] = NoJob]
  /\ who' = [who EXCEPT ![c] = e] /\ line' = [line EXCEPT ![c] = line'[c]]
  /\ UNCHANGED <<outFrom, bound, heard, replied>>

(* A connection that ends a commit leaves the others alone. *)
LEMMA EndsParts ==
  ASSUME TypeOK, Functions, NEW c \in Conns, NEW at, NEW e, Ends(c, at, e)
  PROVE  /\ Functions' /\ pc'[c] = at /\ who'[c] = e
         /\ who[c] = e => Listens(c)
         /\ \A d \in Conns \ {c} : Stays(d)
  BY DEF TypeOK, Functions, Ends, Stays, Listens

(* Nobody is born but by a birth. *)
LEMMA SameBorn ==
  ASSUME IInv, NEW c \in Conns, Committed(c),
         pc[c] \in {"enqueue", "install", "pump", "advance"}
  PROVE  \A e : Born(e)' <=> Born(e)
<1>1. Aside(c)
  BY DEF IInv, Numbered, Fits
<1>2. Ours(DOMAIN world') = Ours(DOMAIN world)
  BY <1>1, AsideCommit DEF IInv
<1>3. \A e, name : PlayerRow(e, name)[1] = "player"
  BY DEF PlayerRow
<1>4. ASSUME NEW e, NEW name
      PROVE  PlayerRow(e, name) \in DOMAIN world' <=> PlayerRow(e, name) \in DOMAIN world
  BY <1>2, <1>3 DEF Ours
<1> QED
  BY <1>4 DEF Born

(* A patch that touches no account. *)
LEMMA AsideReplies ==
  ASSUME IInv, AInv, NEW c \in Conns, pc[c] \in {"install", "pump", "advance"}, Committed(c),
         NEW at \in PCs \ (Holding \cup Asking \cup Outside \cup {"bind"}),
         Ends(c, at, who[c])
  PROVE  AInv'
<1>1. TypeOK /\ Functions /\ Singly /\ Session(c) /\ \E S : log \in Seq(S)
  BY DEF IInv, AInv
<1>2. Functions' /\ pc'[c] = at /\ Listens(c) /\ \A d \in Conns \ {c} : Stays(d)
  <2>1. PICK e : e = who[c]
    OBVIOUS
  <2> QED BY <1>1, <2>1, EndsParts
<1>3. Touched(job[c].adds) = {} /\ Touched(job[c].dels) = {}
  BY <1>1 DEF Session, InHand
<1>4. Clean(c) /\ (\A e, n : InboxRow(e, n) \notin job[c].dels) /\ \A e : Leaves(c, e)
  BY <1>3 DEF Clean, Leaves, Touched, InboxRow, MailRels
<1>5. \A e : Born(e)' <=> Born(e)
  BY SameBorn
<1>6. LogGrows
  BY DEF LogGrows, Committed
<1>7. pc[c] \notin Outside
  BY DEF Outside
<1>8. Placed(c)' /\ Hears(c)'
  BY <1>1, <1>2, <1>6, <1>7, PlacedKept, HearsKept DEF Session
<1>9. InHand(c)' /\ Asks(c)'
  BY <1>2, IdleThread
<1>10. Session(c)'
  BY <1>8, <1>9 DEF Session
<1> DEFINE S == {}
<1>11. /\ S \in SUBSET (Nat \ {0})
       /\ \A e \in (Nat \ {0}) \ S : Leaves(c, e) /\ (Born(e)' <=> Born(e))
       /\ \A e \in S : Born(e)' /\ Kept(e)'
  BY <1>4, <1>5
<1>12. \A d \in Conns \ {c} : pc[d] \in {"prepare", "step"} =>
         \E e : who[d] = e /\ (Leaves(c, e) \/ Cursor("cursor", e)' = Cursor("cursor", e))
  <2> TAKE d \in Conns \ {c}
  <2> HAVE pc[d] \in {"prepare", "step"}
  <2>1. PICK e : who[d] = e
    OBVIOUS
  <2> QED BY <1>4, <2>1
<1> HIDE DEF S
<1> QED
  BY <1>1, <1>2, <1>4, <1>10, <1>11, <1>12, CommitKeeps


(* A birth opens an account. *)
LEMMA BirthReplies ==
  ASSUME IInv, AInv, NEW c \in Conns, SpawnCommit(c)
  PROVE  AInv'
<1>0. pc[c] = "spawning" /\ Committed(c)
  BY DEF SpawnCommit
<1>1. TypeOK /\ Once /\ Functions /\ Singly /\ Session(c) /\ Accounts /\ \E S : log \in Seq(S)
  BY DEF IInv, AInv
<1>2. PICK k \in Nat \ {0} : Numbered(k)
  BY DEF IInv
<1>3. PICK e \in 1 .. k : job[c].at = e /\ Takes(job[c], e, {PlayerRow(e, Name[c])})
  BY <1>0, <1>2 DEF Numbered, Fits, Spawning
<1>4. /\ e = k
      /\ Ours(DOMAIN world') = (Ours(DOMAIN world) \ {IdRow(k)})
                                  \cup {IdRow(k + 1), NamedRow(k)} \cup {PlayerRow(e, Name[c])}
  <2> DEFINE rows == {PlayerRow(e, Name[c])}
  <2>1. rows = {} \/ \E name : rows = {PlayerRow(e, name)}
    OBVIOUS
  <2>2. Takes(job[c], e, rows)
    BY <1>3
  <2>3. GivenTo(k)
    BY <1>2 DEF Numbered
  <2> HIDE DEF rows
  <2>4. /\ e = k
        /\ Ours(DOMAIN world') = (Ours(DOMAIN world) \ {IdRow(k)})
                                    \cup {IdRow(k + 1), NamedRow(k)} \cup rows
    BY <1>0, <1>1, <2>1, <2>2, <2>3, TakesCommit
  <2> QED BY <2>4 DEF rows
<1>5. ~ Born(k)
  <2> SUFFICES ASSUME NEW name, PlayerRow(k, name) \in DOMAIN world PROVE FALSE
    BY DEF Born
  <2>1. PlayerRow(k, name) \in Rows("player")
    BY DEF Rows, PlayerRow
  <2>2. PICK f \in 1 .. k - 1 : \E nm : PlayerRow(k, name) = PlayerRow(f, nm)
    BY <1>2, <2>1 DEF Numbered, GivenTo
  <2> QED BY <2>2 DEF PlayerRow
<1>6. ASSUME NEW f PROVE Born(f)' <=> Born(f) \/ f = k
  <2>1. ASSUME NEW name
        PROVE  PlayerRow(f, name) \in DOMAIN world' <=>
                 PlayerRow(f, name) \in DOMAIN world \/ PlayerRow(f, name) = PlayerRow(k, Name[c])
    <3>1. /\ PlayerRow(f, name)[1] = "player" /\ IdRow(k)[1] = "ids" /\ IdRow(k + 1)[1] = "ids"
          /\ NamedRow(k)[1] = "named"
      BY DEF PlayerRow, IdRow, NamedRow
    <3> QED BY <1>4, <3>1 DEF Ours
  <2>2. \A name : PlayerRow(f, name) = PlayerRow(k, Name[c]) => f = k
    BY DEF PlayerRow
  <2> QED BY <2>1, <2>2 DEF Born
<1>7. Blank(k)
  BY <1>1, <1>5 DEF Accounts
<1>8. Touched(job[c].adds) = {SeqRow(k, 0)} /\ Touched(job[c].dels) = {}
  BY <1>0, <1>1, <1>3, <1>4 DEF Session, InHand
<1>9. \A r : r[1] \in MailRels \cup {"tell"} =>
        /\ r \in job[c].adds <=> r = SeqRow(k, 0)
        /\ r \notin job[c].dels
  <2>1. SeqRow(k, 0) \in job[c].adds
    BY <1>8 DEF Touched
  <2> QED BY <1>8, <2>1 DEF Touched
<1>10. SeqRow(k, 0) \notin DOMAIN world
  <2>1. SeqRow(k, 0)[1] = "inboxseq" /\ SeqRow(k, 0)[2] = k
    BY DEF SeqRow
  <2> QED BY <1>7, <2>1 DEF Blank, At
<1>11. Clean(c)
  BY <1>9, <1>10 DEF Clean
<1>12. \A f, n : InboxRow(f, n) \notin job[c].dels
  BY <1>9 DEF InboxRow, MailRels
<1>13. \A f : f # k => Leaves(c, f)
  <2>1. SeqRow(k, 0)[2] = k
    BY DEF SeqRow
  <2> QED BY <1>9, <2>1 DEF Leaves, Touched
<1>14. \A r : r[1] \in MailRels =>
         (r \in DOMAIN world' <=> (r \in DOMAIN world \/ r = SeqRow(k, 0)))
  BY <1>0, <1>1, <1>9, <1>11, MailCommit
<1>15. KeptTo(k, 0, 0)'
  <2>1. SeqRow(k, 0)[1] = "inboxseq" /\ SeqRow(k, 0)[2] = k
    BY DEF SeqRow
  <2>2. At("inboxseq", k)' = {SeqRow(k, 0)}
    BY <1>7, <1>14, <2>1 DEF At, Blank, MailRels
  <2>3. At("inbox", k)' = {} /\ At("cursor", k)' = {}
    BY <1>7, <1>14, <2>1 DEF At, Blank, MailRels
  <2>4. NotTold(k)
    <3>1. log' = Append(log, Recorded(job[c].adds))
      BY <1>0 DEF Committed
    <3>2. \A r \in Recorded(job[c].adds) : r[1] # "tell"
      BY <1>9, <2>1 DEF Recorded
    <3> QED BY <3>1, <3>2 DEF NotTold
  <2>5. \A i \in 1 .. Current' : \A r \in log'[i] : ~ (r[1] = "tell" /\ r[2] = k)
    BY <1>1, <1>7, <2>4, SameTells DEF Blank
  <2>6. {InboxRow(k, n) : n \in 0 .. 0 - 1} = {}
    OBVIOUS
  <2>7. RowsTo(k, 0, 0)'
    BY <2>2, <2>3, <2>6 DEF RowsTo
  <2>8. ToldTo(k, 0)'
    BY <2>5 DEF ToldTo
  <2> QED BY <2>7, <2>8 DEF KeptTo
<1>16. Kept(k)'
  BY <1>15 DEF Kept
<1>17. Ends(c, "bind", k)
  <2>1. /\ pc' = [pc EXCEPT ![c] = "bind"] /\ job' = [job EXCEPT ![c] = NoJob]
        /\ who' = [who EXCEPT ![c] = k] /\ UNCHANGED <<line, outFrom, bound, heard, replied>>
    BY <1>3, <1>4 DEF SpawnCommit, Drop, Propose, Begin, history
  <2> QED BY <1>1, <2>1 DEF Ends, Functions
<1>18. Functions' /\ pc'[c] = "bind" /\ who'[c] = k /\ \A d \in Conns \ {c} : Stays(d)
  BY <1>1, <1>17, EndsParts
<1>19. Session(c)'
  <2>1. Current' \in Nat
    <3>1. LogGrows
      BY <1>0 DEF LogGrows, Committed
    <3> QED BY <1>1, <3>1, LogOnward
  <2>2. k # NoOne
    BY DEF NoOne
  <2> QED BY <1>0, <1>1, <1>17, <1>18, <2>1, <2>2, NewSession DEF Session, Outside, Ends
<1>20. \A d \in Conns \ {c} : pc[d] \in {"prepare", "step"} =>
         \E f : who[d] = f /\ (Leaves(c, f) \/ Cursor("cursor", f)' = Cursor("cursor", f))
  <2> TAKE d \in Conns \ {c}
  <2> HAVE pc[d] \in {"prepare", "step"}
  <2>1. Born(who[d])
    BY PlayersAccount DEF Outside
  <2>2. PICK f : f = who[d]
    OBVIOUS
  <2>3. f # k
    BY <1>5, <2>1, <2>2
  <2> QED BY <1>13, <2>2, <2>3
<1> DEFINE S == {k}
<1>21. /\ S \in SUBSET (Nat \ {0})
       /\ \A f \in (Nat \ {0}) \ S : Leaves(c, f) /\ (Born(f)' <=> Born(f))
       /\ \A f \in S : Born(f)' /\ Kept(f)'
  BY <1>6, <1>13, <1>16
<1> HIDE DEF S
<1> QED
  BY <1>0, <1>1, <1>11, <1>12, <1>18, <1>19, <1>20, <1>21, CommitKeeps

(* A line is the next of its inbox. *)
LEMMA LineReplies ==
  ASSUME IInv, AInv, NEW c \in Conns, EnqueueCommit(c)
  PROVE  AInv'
<1>0. pc[c] = "enqueue" /\ Committed(c)
  BY DEF EnqueueCommit
<1>1. TypeOK /\ Functions /\ Singly /\ Session(c) /\ \E S : log \in Seq(S)
  BY DEF IInv, AInv
<1>2. PICK e \in Nat \ {0}, k \in Nat, m \in Nat : who[c] = e /\ KeptTo(e, k, m)
  BY <1>0, PlayersAccount DEF Outside
<1>3. /\ \A n : InboxRow(e, n) \in DOMAIN world <=> n \in 0 .. m - 1
      /\ \A n : SeqRow(e, n) \in DOMAIN world <=> n = m
  BY <1>1, <1>2, AccountReads
<1>4. PICK n : n = job[c].at
  OBVIOUS
<1>5. /\ n \in Nat /\ SeqRow(e, n) \in job[c].pre
      /\ Touched(job[c].adds) = {InboxRow(e, n), SeqRow(e, n + 1)}
      /\ Touched(job[c].dels) = {SeqRow(e, n)}
  BY <1>0, <1>1, <1>2, <1>4 DEF Session, InHand
<1>6. n = m
  <2>1. Weight(world, SeqRow(e, n)) > 0
    BY <1>0, <1>5 DEF Committed, Holds
  <2>2. SeqRow(e, n) \in DOMAIN world
    BY <2>1 DEF Weight
  <2> QED BY <1>3, <2>2
<1>7. \A r : r[1] \in MailRels \cup {"tell"} =>
        /\ r \in job[c].adds <=> r = InboxRow(e, m) \/ r = SeqRow(e, m + 1)
        /\ r \in job[c].dels <=> r = SeqRow(e, m)
  <2>1. {InboxRow(e, m), SeqRow(e, m + 1)} \subseteq job[c].adds /\ SeqRow(e, m) \in job[c].dels
    BY <1>5, <1>6 DEF Touched
  <2> QED BY <1>5, <1>6, <2>1 DEF Touched
<1>8. /\ \A p : InboxRow(e, p)[1] = "inbox" /\ InboxRow(e, p)[2] = e
      /\ \A p : SeqRow(e, p)[1] = "inboxseq" /\ SeqRow(e, p)[2] = e
      /\ SeqRow(e, m) # SeqRow(e, m + 1)
      /\ \A f, p : InboxRow(f, p)[1] = "inbox"
  BY DEF InboxRow, SeqRow
<1>9. Clean(c)
  <2>1. InboxRow(e, m) \notin DOMAIN world /\ SeqRow(e, m + 1) \notin DOMAIN world
        /\ SeqRow(e, m) \in DOMAIN world
    BY <1>3
  <2> QED BY <1>7, <1>8, <2>1 DEF Clean
<1>10. \A f, p : InboxRow(f, p) \notin job[c].dels
  BY <1>7, <1>8 DEF MailRels
<1>11. \A f : f # e => Leaves(c, f)
  BY <1>7, <1>8 DEF Leaves, Touched
<1>12. /\ Singly'
       /\ \A r : r[1] \in MailRels =>
         (r \in DOMAIN world' <=>
            (r \in DOMAIN world /\ r # SeqRow(e, m)) \/ r = InboxRow(e, m) \/ r = SeqRow(e, m + 1))
  BY <1>0, <1>1, <1>7, <1>9, MailCommit
<1>13. NotTold(e)
  <2>1. log' = Append(log, Recorded(job[c].adds))
    BY <1>0 DEF Committed
  <2>2. \A r \in Recorded(job[c].adds) : r[1] # "tell"
    BY <1>7, <1>8 DEF Recorded
  <2> QED BY <2>1, <2>2 DEF NotTold
<1>14. At("cursor", e)' = At("cursor", e)
  BY <1>8, <1>12 DEF At, MailRels
<1>15. At("inboxseq", e)' = {SeqRow(e, m + 1)}
  <2>1. \A r \in DOMAIN world : r[1] = "inboxseq" /\ r[2] = e => r = SeqRow(e, m)
    BY <1>2 DEF KeptTo, RowsTo, At
  <2> QED BY <1>8, <1>12, <2>1 DEF At, MailRels
<1>16. At("inbox", e)' = {InboxRow(e, p) : p \in 0 .. (m + 1) - 1}
  <2>1. \A r : r \in DOMAIN world /\ r[1] = "inbox" /\ r[2] = e <=>
               \E p \in 0 .. m - 1 : r = InboxRow(e, p)
    <3>1. At("inbox", e) = {InboxRow(e, p) : p \in 0 .. m - 1}
      BY <1>2 DEF KeptTo, RowsTo
    <3> QED BY <3>1 DEF At
  <2>2. \A r : r \in At("inbox", e)' <=>
               (\E p \in 0 .. m - 1 : r = InboxRow(e, p)) \/ r = InboxRow(e, m)
    BY <1>8, <1>12, <2>1 DEF At, MailRels
  <2>3. \A p : p \in 0 .. (m + 1) - 1 <=> p \in 0 .. m - 1 \/ p = m
    OBVIOUS
  <2> QED BY <2>2, <2>3
<1>17. ToldTo(e, k)'
  BY <1>1, <1>2, <1>13, SameTold DEF KeptTo
<1>18. KeptTo(e, k, m + 1)'
  <2>1. RowsTo(e, k, m + 1)'
    BY <1>2, <1>14, <1>15, <1>16 DEF KeptTo, RowsTo
  <2> QED BY <1>2, <1>17, <2>1 DEF KeptTo
<1>19. Kept(e)'
  BY <1>18 DEF Kept
<1>20. \A f : Born(f)' <=> Born(f)
  BY <1>0, SameBorn
<1>21. Born(e)
  BY <1>0, <1>2, PlayersAccount DEF Outside
<1>22. Ends(c, "position", e) /\ line'[c] = m
  <2>1. /\ pc' = [pc EXCEPT ![c] = "position"] /\ job' = [job EXCEPT ![c] = NoJob]
        /\ line' = [line EXCEPT ![c] = m] /\ UNCHANGED <<who, outFrom, bound, heard, replied>>
    BY <1>4, <1>6 DEF EnqueueCommit, Drop, Propose, Begin, history
  <2> QED BY <1>1, <1>2, <2>1 DEF Ends, Functions, TypeOK
<1>23. /\ Functions' /\ pc'[c] = "position" /\ who'[c] = e /\ Listens(c)
       /\ \A d \in Conns \ {c} : Stays(d)
  BY <1>1, <1>2, <1>22, EndsParts
<1>24. LogGrows
  BY <1>0 DEF LogGrows, Committed
<1>25. Placed(c)' /\ Hears(c)'
  BY <1>0, <1>1, <1>23, <1>24, PlacedKept, HearsKept DEF Session, Outside
<1>26. Asks(c)'
  <2>1. InboxRow(e, m) \in DOMAIN world'
    BY <1>8, <1>12 DEF MailRels
  <2>2. ASSUME NEW i \in 1 .. Current', TellRow(e, m) \in log'[i] PROVE FALSE
    <3>1. TellRow(e, m)[1] = "tell" /\ TellRow(e, m)[2] = e
      BY DEF TellRow
    <3>2. PICK p \in 0 .. k - 1 : TellRow(e, m) = TellRow(e, p)
      BY <1>17, <2>2, <3>1 DEF ToldTo
    <3>3. m = p
      BY <3>2 DEF TellRow
    <3> QED BY <1>2, <3>3 DEF KeptTo
  <2>3. Asked(c)'
    BY <1>22, <1>23, <2>1, <2>2 DEF Asked, Told
  <2> QED BY <1>23, <2>3 DEF Asks
<1>27. InHand(c)'
  BY <1>23 DEF InHand
<1>28. Session(c)'
  BY <1>25, <1>26, <1>27 DEF Session
<1>29. Cursor("cursor", e)' = Cursor("cursor", e)
  BY <1>1, <1>12, <1>14, SameCursor
<1>30. \A d \in Conns \ {c} : pc[d] \in {"prepare", "step"} =>
         \E f : who[d] = f /\ (Leaves(c, f) \/ Cursor("cursor", f)' = Cursor("cursor", f))
  <2> TAKE d \in Conns \ {c}
  <2> HAVE pc[d] \in {"prepare", "step"}
  <2>1. PICK f : f = who[d]
    OBVIOUS
  <2>2. CASE f = e
    <3>1. who[d] = e
      BY <2>1, <2>2
    <3> QED BY <1>29, <3>1
  <2>3. CASE f # e
    BY <1>11, <2>1, <2>3
  <2> QED BY <2>2, <2>3
<1> DEFINE S == {e}
<1>31. /\ S \in SUBSET (Nat \ {0})
       /\ \A f \in (Nat \ {0}) \ S : Leaves(c, f) /\ (Born(f)' <=> Born(f))
       /\ \A f \in S : Born(f)' /\ Kept(f)'
  BY <1>11, <1>19, <1>20, <1>21
<1> HIDE DEF S
<1> QED
  BY <1>0, <1>1, <1>9, <1>10, <1>23, <1>28, <1>30, <1>31, CommitKeeps


(* A told line is the last of those told. *)
LEMMA ToldNext ==
  ASSUME \E S : log \in Seq(S), NEW e, NEW k \in Nat, ToldTo(e, k),
         NEW T, log' = Append(log, T), TellRow(e, k) \in T,
         \A r \in T : r[1] = "tell" /\ r[2] = e => r = TellRow(e, k)
  PROVE  ToldTo(e, k + 1)'
<1>1. LogGrows
  BY DEF LogGrows
<1>2. /\ Current \in Nat /\ \A i \in 1 .. Current : log'[i] = log[i]
  BY <1>1, LogOnward
<1>3. Current' = Current + 1 /\ log'[Current + 1] = T
  <2>1. PICK S : log \in Seq(S)
    OBVIOUS
  <2> DEFINE U == S \cup {T}
  <2>2. log \in Seq(U) /\ T \in U
    BY <2>1
  <2> HIDE DEF U
  <2> QED BY <2>2 DEF Current
<1>4. \A n, p : TellRow(e, n)[1] = "tell" /\ TellRow(e, n)[2] = e
                /\ (TellRow(e, n) = TellRow(e, p) => n = p)
  BY DEF TellRow
<1>5. ASSUME NEW i \in 1 .. Current + 1, NEW r \in log'[i], r[1] = "tell" /\ r[2] = e
      PROVE  \/ i = Current + 1 /\ r = TellRow(e, k)
             \/ i \in 1 .. Current /\ r \in log[i] /\ \E n \in 0 .. k - 1 : r = TellRow(e, n)
  <2>1. CASE i = Current + 1
    BY <1>3, <1>5, <2>1
  <2>2. CASE i # Current + 1
    <3>1. i \in 1 .. Current
      BY <1>2, <2>2
    <3>2. r \in log[i]
      BY <1>2, <1>5, <3>1
    <3> QED BY <1>5, <3>1, <3>2 DEF ToldTo
  <2> QED BY <2>1, <2>2
<1>6. ASSUME NEW n, NEW i \in 1 .. Current + 1, TellRow(e, n) \in log'[i]
      PROVE  \/ i = Current + 1 /\ n = k
             \/ i \in 1 .. Current /\ n \in 0 .. k - 1 /\ Told(e, n, i)
  <2>1. \/ i = Current + 1 /\ TellRow(e, n) = TellRow(e, k)
        \/ /\ i \in 1 .. Current /\ TellRow(e, n) \in log[i]
           /\ \E p \in 0 .. k - 1 : TellRow(e, n) = TellRow(e, p)
    BY <1>4, <1>5, <1>6
  <2> QED BY <1>4, <2>1 DEF Told
<1>7. \A i \in 1 .. Current' : \A r \in log'[i] :
        r[1] = "tell" /\ r[2] = e => \E n \in 0 .. (k + 1) - 1 : r = TellRow(e, n)
  <2>1. k \in 0 .. (k + 1) - 1 /\ \A n \in 0 .. k - 1 : n \in 0 .. (k + 1) - 1
    OBVIOUS
  <2> QED BY <1>3, <1>5, <2>1
<1>8. ASSUME NEW n \in 0 .. (k + 1) - 1 PROVE \E i \in 1 .. Current' : TellRow(e, n) \in log'[i]
  <2>1. CASE n = k
    <3>1. Current + 1 \in 1 .. Current'
      BY <1>2, <1>3
    <3> QED BY <1>3, <2>1, <3>1
  <2>2. CASE n # k
    <3>1. n \in 0 .. k - 1
      BY <2>2
    <3>2. PICK i \in 1 .. Current : TellRow(e, n) \in log[i]
      BY <3>1 DEF ToldTo, Told
    <3>3. i \in 1 .. Current' /\ TellRow(e, n) \in log'[i]
      <4>1. i \in 1 .. Current'
        BY <1>2, <1>3
      <4>2. log'[i] = log[i]
        BY <1>2
      <4> QED BY <3>2, <4>1, <4>2
    <3> QED BY <3>3
  <2> QED BY <2>1, <2>2
<1>9. ASSUME NEW i \in 1 .. Current', NEW j \in 1 .. Current', NEW n \in 0 .. (k + 1) - 1,
             NEW p \in 0 .. (k + 1) - 1, TellRow(e, n) \in log'[i], TellRow(e, p) \in log'[j]
      PROVE  i = j <=> n = p
  <2>1. \/ i = Current + 1 /\ n = k
        \/ i \in 1 .. Current /\ n \in 0 .. k - 1 /\ Told(e, n, i)
    BY <1>3, <1>6, <1>9
  <2>2. \/ j = Current + 1 /\ p = k
        \/ j \in 1 .. Current /\ p \in 0 .. k - 1 /\ Told(e, p, j)
    BY <1>3, <1>6, <1>9
  <2>3. \A x \in 1 .. Current : x # Current + 1
    BY <1>2
  <2>4. \A x \in 0 .. k - 1 : x # k
    OBVIOUS
  <2> QED BY <2>1, <2>2, <2>3, <2>4 DEF ToldTo
<1> QED
  BY <1>7, <1>8, <1>9 DEF ToldTo, Told

(* A step tells the line it handles, and nobody else is at it. *)
LEMMA StepReplies ==
  ASSUME IInv, AInv, OneDriver, NEW c \in Conns, StepCommit(c)
  PROVE  AInv'
<1>0. pc[c] = "step" /\ Committed(c) /\ UNCHANGED <<who, line>>
  BY DEF StepCommit
<1>1. TypeOK /\ Once /\ Functions /\ Singly /\ Session(c) /\ \E S : log \in Seq(S)
  BY DEF IInv, AInv
<1>2. PICK e \in Nat \ {0}, k \in Nat, m \in Nat : who[c] = e /\ KeptTo(e, k, m)
  BY <1>0, PlayersAccount DEF Outside
<1>3. /\ Cursor("cursor", e) = k
      /\ \A n : InboxRow(e, n) \in DOMAIN world <=> n \in 0 .. m - 1
      /\ \A n : CursorRow(e, n) \in DOMAIN world <=> n = k /\ k # 0
  BY <1>1, <1>2, AccountReads
<1>4. job[c].at = k
  BY <1>0, <1>1, <1>2, <1>3 DEF Session, InHand
<1>5. /\ InboxRow(e, k) \in DOMAIN world
      /\ Touched(job[c].adds) = {TellRow(e, k), CursorRow(e, k + 1)}
      /\ Touched(job[c].dels) = IF k = 0 THEN {} ELSE {CursorRow(e, k)}
  BY <1>0, <1>1, <1>2, <1>4 DEF Session, InHand
<1>6. k < m
  BY <1>3, <1>5
<1>7. \A r : r[1] \in MailRels \cup {"tell"} =>
        /\ r \in job[c].adds <=> r = TellRow(e, k) \/ r = CursorRow(e, k + 1)
        /\ r \in job[c].dels <=> k # 0 /\ r = CursorRow(e, k)
  <2>1. TellRow(e, k) \in job[c].adds /\ CursorRow(e, k + 1) \in job[c].adds
    BY <1>5 DEF Touched
  <2>2. \A r : r[1] \in MailRels \cup {"tell"} =>
          (r \in job[c].adds <=> r = TellRow(e, k) \/ r = CursorRow(e, k + 1))
    BY <1>5, <2>1 DEF Touched
  <2>3. \A r : r[1] \in MailRels \cup {"tell"} =>
          (r \in job[c].dels <=> k # 0 /\ r = CursorRow(e, k))
    <3>1. CASE k = 0
      BY <1>5, <3>1 DEF Touched
    <3>2. CASE k # 0
      <4>1. Touched(job[c].dels) = {CursorRow(e, k)}
        BY <1>5, <3>2
      <4>2. CursorRow(e, k) \in job[c].dels
        BY <4>1 DEF Touched
      <4> QED BY <3>2, <4>1, <4>2 DEF Touched
    <3> QED BY <3>1, <3>2
  <2> QED BY <2>2, <2>3
<1>8. /\ TellRow(e, k)[1] = "tell" /\ TellRow(e, k)[2] = e
      /\ \A n : CursorRow(e, n)[1] = "cursor" /\ CursorRow(e, n)[2] = e
      /\ CursorRow(e, k) # CursorRow(e, k + 1)
      /\ \A f, n : InboxRow(f, n)[1] = "inbox"
  BY DEF TellRow, CursorRow, InboxRow
<1>9. Clean(c)
  <2>1. CursorRow(e, k + 1) \notin DOMAIN world
    BY <1>3
  <2>2. k # 0 => CursorRow(e, k) \in DOMAIN world
    BY <1>3
  <2>3. \A r : r[1] \in MailRels => r # TellRow(e, k)
    BY <1>8 DEF MailRels
  <2> QED BY <1>7, <1>8, <2>1, <2>2, <2>3 DEF Clean
<1>10. \A f, n : InboxRow(f, n) \notin job[c].dels
  BY <1>7, <1>8 DEF MailRels
<1>11. \A f : f # e => Leaves(c, f)
  BY <1>7, <1>8 DEF Leaves, Touched
<1>12. \A r : r[1] \in MailRels =>
         (r \in DOMAIN world' <=>
            (r \in DOMAIN world /\ ~ (k # 0 /\ r = CursorRow(e, k))) \/ r = CursorRow(e, k + 1))
  <2>1. \A r : r[1] \in MailRels => r # TellRow(e, k)
    BY <1>8 DEF MailRels
  <2> QED BY <1>0, <1>1, <1>7, <1>9, <2>1, MailCommit
<1>13. At("inbox", e)' = At("inbox", e) /\ At("inboxseq", e)' = At("inboxseq", e)
  BY <1>8, <1>12 DEF At, MailRels
<1>14. At("cursor", e)' = {CursorRow(e, k + 1)}
  <2>1. \A r \in DOMAIN world : r[1] = "cursor" /\ r[2] = e => k # 0 /\ r = CursorRow(e, k)
    <3>1. At("cursor", e) = IF k = 0 THEN {} ELSE {CursorRow(e, k)}
      BY <1>2 DEF KeptTo, RowsTo
    <3>2. CASE k = 0
      BY <3>1, <3>2 DEF At
    <3>3. CASE k # 0
      BY <3>1, <3>3 DEF At
    <3> QED BY <3>2, <3>3
  <2> QED BY <1>8, <1>12, <2>1 DEF At, MailRels
<1>15. ToldTo(e, k + 1)'
  <2> DEFINE T == Recorded(job[c].adds)
  <2>1. log' = Append(log, T)
    BY <1>0 DEF Committed
  <2>2. TellRow(e, k) \in T
    BY <1>7, <1>8 DEF Recorded
  <2>3. \A r \in T : r[1] = "tell" /\ r[2] = e => r = TellRow(e, k)
    BY <1>7, <1>8 DEF Recorded
  <2>4. ToldTo(e, k)
    BY <1>2 DEF KeptTo
  <2> HIDE DEF T
  <2> QED BY <1>1, <2>1, <2>2, <2>3, <2>4, ToldNext
<1>16. KeptTo(e, k + 1, m)'
  <2>1. RowsTo(e, k + 1, m)'
    BY <1>2, <1>13, <1>14 DEF KeptTo, RowsTo
  <2> QED BY <1>6, <1>15, <2>1 DEF KeptTo
<1>17. Kept(e)'
  BY <1>16 DEF Kept
<1>18. \A f : Born(f)' <=> Born(f)
  <2>1. PICK j \in Nat \ {0} : Numbered(j)
    BY DEF IInv
  <2>2. PICK i \in 1 .. j : Takes(job[c], i, {})
    BY <1>0, <2>1 DEF Numbered, Fits, Naming
  <2> DEFINE rows == {}
  <2>3. rows = {} /\ Takes(job[c], i, rows) /\ GivenTo(j)
    BY <2>1, <2>2 DEF Numbered
  <2> HIDE DEF rows
  <2>4. Ours(DOMAIN world') = (Ours(DOMAIN world) \ {IdRow(j)})
                                 \cup {IdRow(j + 1), NamedRow(j)} \cup rows
    BY <1>0, <1>1, <2>3, TakesCommit
  <2>5. ASSUME NEW f, NEW name
        PROVE  PlayerRow(f, name) \in DOMAIN world' <=> PlayerRow(f, name) \in DOMAIN world
    <3>1. /\ PlayerRow(f, name)[1] = "player" /\ IdRow(j)[1] = "ids" /\ IdRow(j + 1)[1] = "ids"
          /\ NamedRow(j)[1] = "named"
      BY DEF PlayerRow, IdRow, NamedRow
    <3> QED BY <2>3, <2>4, <3>1 DEF Ours
  <2> QED BY <2>5 DEF Born
<1>19. Born(e)
  BY <1>0, <1>2, PlayersAccount DEF Outside
<1>20. Ends(c, "position", e)
  <2>1. /\ pc' = [pc EXCEPT ![c] = "position"] /\ job' = [job EXCEPT ![c] = NoJob]
        /\ UNCHANGED <<who, outFrom, line, bound, heard, replied>>
    BY DEF StepCommit, Drop, Propose, Begin, history
  <2> QED BY <1>1, <1>2, <2>1 DEF Ends, Functions, TypeOK
<1>21. /\ Functions' /\ pc'[c] = "position" /\ who'[c] = e /\ Listens(c)
       /\ \A d \in Conns \ {c} : Stays(d)
  BY <1>1, <1>2, <1>20, EndsParts
<1>22. LogGrows /\ InboxGrows
  BY <1>0, <1>1, <1>9, <1>10, InboxStays
<1>23. Placed(c)' /\ Hears(c)'
  BY <1>0, <1>1, <1>21, <1>22, PlacedKept, HearsKept DEF Session, Outside
<1>24. Asks(c)'
  <2>1. line'[c] = line[c]
    BY <1>0
  <2>2. Asked(c)'
    BY <1>0, <1>1, <1>21, <1>22, <2>1, AskedKept DEF Session, Asks
  <2> QED BY <1>21, <2>2 DEF Asks
<1>25. InHand(c)'
  BY <1>21 DEF InHand
<1>26. Session(c)'
  BY <1>23, <1>24, <1>25 DEF Session
<1>27. \A d \in Conns \ {c} : pc[d] \in {"prepare", "step"} =>
         \E f : who[d] = f /\ (Leaves(c, f) \/ Cursor("cursor", f)' = Cursor("cursor", f))
  <2> TAKE d \in Conns \ {c}
  <2> HAVE pc[d] \in {"prepare", "step"}
  <2>1. who[d] # who[c]
    BY <1>0 DEF OneDriver, Driving
  <2>2. PICK f : f = who[d]
    OBVIOUS
  <2> QED BY <1>2, <1>11, <2>1, <2>2
<1> DEFINE S == {e}
<1>28. /\ S \in SUBSET (Nat \ {0})
       /\ \A f \in (Nat \ {0}) \ S : Leaves(c, f) /\ (Born(f)' <=> Born(f))
       /\ \A f \in S : Born(f)' /\ Kept(f)'
  BY <1>11, <1>17, <1>18, <1>19
<1> HIDE DEF S
<1> QED
  BY <1>0, <1>1, <1>9, <1>10, <1>21, <1>26, <1>27, <1>28, CommitKeeps

-----------------------------------------------------------------------------
(* Every step keeps the accounts and the sessions. *)

(* A login that finds its name, or not, keeps AInv. *)
LEMMA LoginReplies ==
  ASSUME IInv, AInv, NEW c \in Conns, Login(c)
  PROVE  AInv'
<1>0. TypeOK /\ Functions
  BY DEF IInv, AInv
<1>1. CASE Accept(c)
  <2>1. Goes(c, "login") /\ pc[c] = "closed" /\ UNCHANGED <<world, log>>
    BY <1>0, <1>1 DEF Accept, Begin, Goes, TypeOK, Functions
  <2> QED BY <1>0, <2>1, GoesIdle DEF PCs, Holding, Asking, Outside
<1>2. CASE Lookup(c)
  <2>1. CASE Go(c, "spawn") /\ UNCHANGED who
    <3>1. Goes(c, "spawn") /\ pc[c] = "login" /\ UNCHANGED <<world, log>>
      BY <1>0, <1>2, <2>1 DEF Lookup, Go, Goes, TypeOK, Functions, history
    <3> QED BY <1>0, <3>1, GoesIdle DEF PCs, Holding, Asking, Outside
  <2>2. CASE \E e \in Player(Name[c]) : who' = [who EXCEPT ![c] = e] /\ Go(c, "bind")
    BY <1>2, <2>2, HeirReplies DEF Lookup, Go, history
  <2> QED BY <1>2, <2>1, <2>2 DEF Lookup
<1>3. CASE Adopt(c)
  BY <1>3, HeirReplies DEF Adopt, Adopted, Begin, history
<1>4. CASE Spawn(c)
  BY <1>4, SpawnReplies
<1>5. CASE SpawnCommit(c)
  BY <1>5, BirthReplies
<1>6. CASE SpawnRejected(c)
  <2>1. Goes(c, "spawn") /\ pc[c] = "spawning" /\ UNCHANGED <<world, log>>
    BY <1>0, <1>6
       DEF SpawnRejected, Rejected, Drop, Propose, Retry, Goes, TypeOK, Functions, history
  <2> QED BY <1>0, <2>1, GoesIdle DEF PCs, Holding, Asking, Outside
<1>7. CASE LoginFails(c)
  <2>1. {c} \in SUBSET Conns
    OBVIOUS
  <2> QED BY <1>0, <1>7, <2>1, Ended DEF LoginFails, Rejected
<1>8. CASE Bind(c)
  BY <1>8, BindReplies
<1>9. CASE Quit(c)
  <2>1. {c} \in SUBSET Conns
    OBVIOUS
  <2> QED BY <1>0, <1>9, <2>1, Ended DEF Quit
<1> QED
  BY <1>1, <1>2, <1>3, <1>4, <1>5, <1>6, <1>7, <1>8, <1>9 DEF Login

(* An answered command keeps AInv (submit). *)
LEMMA AnswerReplies ==
  ASSUME IInv, AInv, OneDriver, NEW c \in Conns, Answer(c)
  PROVE  AInv'
<1>0. TypeOK /\ Functions
  BY DEF IInv, AInv
<1>1. CASE Submit(c)
  <2>1. Goes(c, "number") /\ pc[c] = "line" /\ UNCHANGED <<world, log>>
    BY <1>0, <1>1 DEF Submit, Begin, Goes, TypeOK, Functions
  <2> QED BY <1>0, <2>1, GoesIdle DEF PCs, Holding, Asking, Outside
<1>2. CASE EnqueueNumber(c)
  BY <1>2, NumberReplies
<1>3. CASE EnqueueCommit(c)
  BY <1>3, LineReplies
<1>4. CASE EnqueueRejected(c)
  <2>1. CASE Retry(c, "number") /\ UNCHANGED line
    <3>1. Goes(c, "number") /\ pc[c] = "enqueue" /\ UNCHANGED <<world, log>>
      BY <1>0, <1>4, <2>1
         DEF EnqueueRejected, Rejected, Drop, Propose, Retry, Goes, TypeOK, Functions, history
    <3> QED BY <1>0, <3>1, GoesIdle DEF PCs, Holding, Asking, Outside
  <2>2. CASE SubmitFails(c)
    <3>1. Goes(c, "push") /\ pc[c] = "enqueue" /\ UNCHANGED <<world, log>>
      BY <1>0, <1>4, <2>2
         DEF EnqueueRejected, Rejected, Drop, Propose, SubmitFails, Begin, Goes, TypeOK,
             Functions, history
    <3> QED BY <1>0, <3>1, GoesIdle DEF PCs, Holding, Asking, Outside
  <2> QED BY <1>4, <2>1, <2>2 DEF EnqueueRejected
<1>5. CASE Position(c)
  BY <1>5, PositionReplies
<1>6. CASE Prepare(c)
  BY <1>6, PrepareReplies
<1>7. CASE InboxIdle(c)
  BY <1>7, IdleReplies
<1>8. CASE StepCommit(c)
  BY <1>8, StepReplies
<1>9. CASE StepRejected(c)
  <2>1. CASE Retry(c, "position") /\ UNCHANGED line
    <3>1. Goes(c, "position") /\ pc[c] = "step" /\ UNCHANGED <<world, log, who, line>>
      BY <1>0, <1>9, <2>1
         DEF StepRejected, Rejected, Drop, Propose, Retry, Goes, TypeOK, Functions, history
    <3>2. pc'[c] = "position" /\ Listens(c) /\ line'[c] = line[c]
      BY <1>0, <3>1, GoesParts
    <3>3. (\E S : log \in Seq(S)) /\ LogGrows /\ InboxGrows
      BY <3>1, StillWorld
    <3>4. Asked(c)'
      BY <3>1, <3>2, <3>3, AskedKept DEF AInv, Session, Asks
    <3>5. InHand(c)' /\ Asks(c)'
      BY <3>2, <3>4 DEF InHand, Asks
    <3> QED BY <1>0, <3>1, <3>5, GoesOn DEF Outside
  <2>2. CASE SubmitFails(c)
    <3>1. Goes(c, "push") /\ pc[c] = "step" /\ UNCHANGED <<world, log>>
      BY <1>0, <1>9, <2>2
         DEF StepRejected, Rejected, Drop, Propose, SubmitFails, Begin, Goes, TypeOK,
             Functions, history
    <3> QED BY <1>0, <3>1, GoesIdle DEF PCs, Holding, Asking, Outside
  <2> QED BY <1>9, <2>1, <2>2 DEF StepRejected
<1>10. CASE DrainStart(c)
  BY <1>10, DrainStartReplies
<1>11. CASE Drain(c)
  BY <1>11, DrainReplies
<1> QED
  BY <1>1, <1>2, <1>3, <1>4, <1>5, <1>6, <1>7, <1>8, <1>9, <1>10, <1>11 DEF Answer


(* Pushing what was told to a quiet connection keeps AInv (push_output). *)
LEMMA PushReplies ==
  ASSUME IInv, AInv, NEW c \in Conns, Push(c)
  PROVE  AInv'
<1>0. TypeOK /\ Functions /\ Session(c)
  BY DEF IInv, AInv
<1>1. CASE Resume(c)
  <2>1. /\ pc[c] = "line" /\ UNCHANGED <<world, log, pc, who, outFrom, line, job>>
        /\ UNCHANGED <<bound, heard, replied>>
    BY <1>1 DEF Resume, history
  <2>2. Goes(c, "line")
    BY <1>0, <2>1 DEF Goes, TypeOK, Functions
  <2> QED BY <1>0, <2>1, <2>2, GoesIdle DEF PCs, Holding, Asking, Outside
<1>2. CASE Subscribe(c)
  <2>1. Goes(c, "watch") /\ pc[c] = "line" /\ UNCHANGED <<world, log>>
    BY <1>0, <1>2 DEF Subscribe, Go, Goes, TypeOK, Functions, history
  <2> QED BY <1>0, <2>1, GoesIdle DEF PCs, Holding, Asking, Outside
<1>3. CASE InstallAt(c)
  <2> DEFINE e == who[c]
             p == [NoJob EXCEPT
                     !.adds = {<<"wcursor", e, Current>>}
                        \cup (IF Numbers("wseq", e) = {} THEN {<<"wseq", e, 0>>} ELSE {}),
                     !.at = Current]
  <2>1. /\ pc[c] = "watch" /\ UNCHANGED <<world, log>>
        /\ job' = [job EXCEPT ![c] = p] /\ pc' = [pc EXCEPT ![c] = "install"]
        /\ UNCHANGED <<who, outFrom, line, bound, heard, replied>>
    BY <1>3 DEF InstallAt, Propose, Go, history
  <2>2. \A r \in p.adds \cup p.dels : r[1] \in {"wcursor", "wseq"}
    BY DEF NoJob
  <2> HIDE DEF p
  <2>3. \A r \in p.adds \cup p.dels : r[1] \notin MailRels \cup {"tell"}
    BY <2>2 DEF MailRels
  <2>4. "install" \in {"install", "pump", "advance"}
    OBVIOUS
  <2> QED BY <1>0, <2>1, <2>3, <2>4, ProposesAside DEF Outside
<1>4. CASE Install(c)
  <2>1. /\ pc[c] = "install" /\ Committed(c) /\ Ends(c, "line", who[c])
    <3>1. /\ pc' = [pc EXCEPT ![c] = "line"] /\ job' = [job EXCEPT ![c] = NoJob]
          /\ UNCHANGED <<who, outFrom, line, bound, heard, replied>>
      BY <1>4 DEF Install, Drop, Propose, Begin
    <3> QED BY <1>0, <1>4, <3>1 DEF Install, Ends, TypeOK, Functions
  <2> QED BY <2>1, AsideReplies DEF PCs, Holding, Asking, Outside
<1>5. CASE Pump(c)
  <2> DEFINE e == who[c]
             from == Cursor("wcursor", e)
             new == NewNames(from, Current)
             place(x) == Cardinality({y \in new : y < x})
             mail == {<<"wmail", e, Counter("wseq", e) + place(x), x>> : x \in new}
             q == [NoJob EXCEPT
                     !.pre = {<<"wcursor", e, from>>}, !.dels = {<<"wcursor", e, from>>},
                     !.adds = {<<"wcursor", e, Current>>} \cup mail]
             p == Bumped(q, "wseq", e, Cardinality(new))
  <2>1. PumpPatch(e) = p
    BY DEF PumpPatch
  <2>2. \A r \in mail : r[1] = "wmail"
    <3> HIDE DEF new, place, e
    <3> QED OBVIOUS
  <2>3. /\ IsPatch(q) /\ q.dels = {<<"wcursor", e, from>>}
        /\ q.adds = {<<"wcursor", e, Current>>} \cup mail
    <3> HIDE DEF mail, from, e
    <3> QED BY DEF IsPatch, NoJob
  <2>4. \A r \in p.adds \cup p.dels : r[1] \in {"wmail", "wcursor", "wseq"}
    <3> DEFINE m == Cardinality(new)
               row == IF Numbers("wseq", e) = {} THEN {} ELSE {<<"wseq", e, Counter("wseq", e)>>}
    <3> HIDE DEF q, from, new, mail, e, m
    <3>1. /\ p.dels = q.dels \cup row
          /\ p.adds = q.adds \cup {<<"wseq", e, Counter("wseq", e) + m>>}
      BY <2>3, BumpedParts DEF m
    <3> QED BY <2>2, <2>3, <3>1
  <2>5. /\ pc[c] = "push" /\ UNCHANGED <<world, log>>
        /\ job' = [job EXCEPT ![c] = p] /\ pc' = [pc EXCEPT ![c] = "pump"]
        /\ UNCHANGED <<who, outFrom, line, bound, heard, replied>>
    BY <1>5, <2>1 DEF Pump, Propose, Go, history
  <2> HIDE DEF p
  <2>6. \A r \in p.adds \cup p.dels : r[1] \notin MailRels \cup {"tell"}
    BY <2>4 DEF MailRels
  <2>7. "pump" \in {"install", "pump", "advance"}
    OBVIOUS
  <2> QED BY <1>0, <2>5, <2>6, <2>7, ProposesAside DEF Outside
<1>6. CASE PumpQuiet(c)
  <2>1. PICK at \in {"delivery", "line"} : pc' = [pc EXCEPT ![c] = at]
    BY <1>6 DEF PumpQuiet, Begin
  <2>2. /\ pc[c] = "push" /\ UNCHANGED <<world, log, who, outFrom, line, job>>
        /\ UNCHANGED <<bound, heard, replied>>
    BY <1>6 DEF PumpQuiet, history
  <2>3. Goes(c, at)
    BY <1>0, <2>1, <2>2 DEF Goes, TypeOK, Functions
  <2> QED BY <1>0, <2>2, <2>3, GoesIdle DEF PCs, Holding, Asking, Outside
<1>7. CASE PumpCommit(c)
  <2>1. /\ pc[c] = "pump" /\ Committed(c) /\ Ends(c, "delivery", who[c])
    <3>1. /\ pc' = [pc EXCEPT ![c] = "delivery"] /\ job' = [job EXCEPT ![c] = NoJob]
          /\ UNCHANGED <<who, outFrom, line, bound, heard, replied>>
      BY <1>7 DEF PumpCommit, Drop, Propose, Begin, history
    <3> QED BY <1>0, <1>7, <3>1 DEF PumpCommit, Ends, TypeOK, Functions
  <2> QED BY <2>1, AsideReplies DEF PCs, Holding, Asking, Outside
<1>8. CASE PumpRejected(c)
  <2>1. PICK at \in {"push", "delivery"} : pc' = [pc EXCEPT ![c] = at]
    BY <1>8 DEF PumpRejected, Retry, Begin
  <2>2. /\ pc[c] = "pump" /\ UNCHANGED <<world, log, who, outFrom, line>>
        /\ job' = [job EXCEPT ![c] = NoJob] /\ UNCHANGED <<bound, heard, replied>>
    BY <1>8 DEF PumpRejected, Rejected, Drop, Propose, history
  <2>3. Goes(c, at)
    BY <1>0, <2>1, <2>2 DEF Goes, TypeOK, Functions
  <2> QED BY <1>0, <2>2, <2>3, GoesIdle DEF PCs, Holding, Asking, Outside
<1>9. CASE DeliveredThrough(c)
  <2>1. Goes(c, "mail") /\ pc[c] = "delivery" /\ UNCHANGED <<world, log>>
    <3>1. PICK p : job' = [job EXCEPT ![c] = p]
      BY <1>9 DEF DeliveredThrough, Propose
    <3> QED BY <1>0, <1>9, <3>1 DEF DeliveredThrough, Go, Goes, TypeOK, Functions, history
  <2> QED BY <1>0, <2>1, GoesIdle DEF PCs, Holding, Asking, Outside
<1>10. CASE Deliver(c)
  <2> DEFINE e == who[c]
             from == job[c].at
             row == IF from > 0 THEN {<<"wdelivery", e, from>>} ELSE {}
             to == from + Cardinality(Undelivered(e, from))
             p == DeliveryPatch(e, from)
  <2>1. p = [NoJob EXCEPT !.pre = row, !.dels = row, !.adds = {<<"wdelivery", e, to>>}]
    BY DEF DeliveryPatch
  <2>2. \A r \in p.adds \cup p.dels : r[1] = "wdelivery"
    <3>1. \A r \in row : r[1] = "wdelivery"
      OBVIOUS
    <3>2. p.adds = {<<"wdelivery", e, to>>} /\ p.dels = row
      <4> HIDE DEF p, row, e, from, to
      <4> QED BY <2>1 DEF NoJob
    <3> HIDE DEF p, row, to
    <3> QED BY <3>1, <3>2
  <2>3. /\ pc[c] = "mail" /\ UNCHANGED <<world, log>>
        /\ job' = [job EXCEPT ![c] = p] /\ pc' = [pc EXCEPT ![c] = "advance"]
        /\ UNCHANGED <<who, outFrom, line, bound, heard, replied>>
    BY <1>10 DEF Deliver, Propose, Go
  <2> HIDE DEF p
  <2>4. \A r \in p.adds \cup p.dels : r[1] \notin MailRels \cup {"tell"}
    BY <2>2 DEF MailRels
  <2>5. "advance" \in {"install", "pump", "advance"}
    OBVIOUS
  <2> QED BY <1>0, <2>3, <2>4, <2>5, ProposesAside DEF Outside
<1>11. CASE NothingToDeliver(c)
  <2>1. Goes(c, "line") /\ pc[c] = "mail" /\ UNCHANGED <<world, log>>
    BY <1>0, <1>11 DEF NothingToDeliver, Drop, Propose, Begin, Goes, TypeOK, Functions, history
  <2> QED BY <1>0, <2>1, GoesIdle DEF PCs, Holding, Asking, Outside
<1>12. CASE SocketFails(c)
  <2>1. {c} \in SUBSET Conns
    OBVIOUS
  <2> QED BY <1>0, <1>12, <2>1, Ended DEF SocketFails
<1>13. CASE DeliveryCommit(c)
  <2>1. /\ pc[c] = "advance" /\ Committed(c) /\ Ends(c, "line", who[c])
    <3>1. /\ pc' = [pc EXCEPT ![c] = "line"] /\ job' = [job EXCEPT ![c] = NoJob]
          /\ UNCHANGED <<who, outFrom, line, bound, heard, replied>>
      BY <1>13 DEF DeliveryCommit, Drop, Propose, Begin, history
    <3> QED BY <1>0, <1>13, <3>1 DEF DeliveryCommit, Ends, TypeOK, Functions
  <2> QED BY <2>1, AsideReplies DEF PCs, Holding, Asking, Outside
<1>14. CASE DeliveryRejected(c)
  <2>1. PICK at \in {"delivery", "line"} : pc' = [pc EXCEPT ![c] = at]
    BY <1>14 DEF DeliveryRejected, Retry, Begin
  <2>2. /\ pc[c] = "advance" /\ UNCHANGED <<world, log, who, outFrom, line>>
        /\ job' = [job EXCEPT ![c] = NoJob] /\ UNCHANGED <<bound, heard, replied>>
    BY <1>14 DEF DeliveryRejected, Rejected, Drop, Propose, history
  <2>3. Goes(c, at)
    BY <1>0, <2>1, <2>2 DEF Goes, TypeOK, Functions
  <2> QED BY <1>0, <2>2, <2>3, GoesIdle DEF PCs, Holding, Asking, Outside
<1> QED
  BY <1>1, <1>2, <1>3, <1>4, <1>5, <1>6, <1>7, <1>8, <1>9, <1>10, <1>11, <1>12, <1>13, <1>14
     DEF Push

(* Before the first connection nobody was told anything. *)
LEMMA InitReplies == Init => AInv
<1> SUFFICES ASSUME Init PROVE AInv
  OBVIOUS
<1>1. DOMAIN world = {IdRow(1)} /\ IdRow(1)[1] = "ids"
  BY DEF Init, IdRow
<1>2. log = <<{}>> /\ Current = 1 /\ log[1] = {}
  BY DEF Init, Current
<1>3. \E S : log \in Seq(S)
  <2>1. log \in Seq({{}})
    BY <1>2
  <2> QED BY <2>1
<1>4. Functions
  BY DEF Functions, Init
<1>5. Singly
  BY <1>1 DEF Singly, MailRels
<1>6. Accounts
  <2>1. ASSUME NEW e PROVE Blank(e) /\ ~ Born(e)
    <3>1. At("inbox", e) = {} /\ At("inboxseq", e) = {} /\ At("cursor", e) = {}
      BY <1>1 DEF At
    <3>2. \A i \in 1 .. Current : log[i] = {}
      BY <1>2
    <3>3. ~ Born(e)
      BY <1>1 DEF Born, PlayerRow
    <3> QED BY <3>1, <3>2, <3>3 DEF Blank
  <2> QED BY <2>1 DEF Accounts
<1>7. ASSUME NEW c \in Conns PROVE Session(c)
  <2>1. /\ pc[c] = "closed" /\ who[c] = NoOne /\ outFrom[c] = 0 /\ bound[c] = 0
        /\ heard[c] = << >> /\ replied[c] = {}
    BY <1>7 DEF Init
  <2>2. Placed(c)
    BY <1>2, <2>1 DEF Placed, Outside
  <2>3. Hears(c)
    <3>1. heard[c] \in Seq(Nat) /\ DOMAIN heard[c] = {} /\ bound[c] + 1 .. outFrom[c] = {}
      BY <2>1
    <3> QED BY <2>1, <3>1 DEF Hears
  <2>4. InHand(c) /\ Asks(c)
    BY <2>1 DEF InHand, Asks
  <2> QED BY <2>2, <2>3, <2>4 DEF Session
<1> QED
  BY <1>3, <1>4, <1>5, <1>6, <1>7 DEF AInv

(* Every step keeps AInv while one connection at a time drives a           *)
(* player's process.                                                       *)
LEMMA NextReplies == IInv /\ AInv /\ OneDriver /\ [Next]_vars => AInv'
<1> SUFFICES ASSUME IInv, AInv, OneDriver, [Next]_vars PROVE AInv'
  OBVIOUS
<1>0. TypeOK
  BY DEF IInv
<1>1. CASE Crash
  <2> DEFINE S == {c \in Conns : pc[c] # "closed"}
  <2>1. S \in SUBSET Conns /\ Forget(S) /\ UNCHANGED <<world, log>>
    BY <1>1 DEF Crash
  <2> HIDE DEF S
  <2> QED BY <1>0, <2>1, Ended
<1>2. ASSUME NEW c \in Conns, Login(c) \/ Answer(c) \/ Push(c) PROVE AInv'
  BY <1>2, LoginReplies, AnswerReplies, PushReplies
<1>3. CASE UNCHANGED vars
  <2>1. UNCHANGED <<world, log, pc, job, who, line, outFrom, bound, heard, replied>>
    BY <1>3 DEF vars, mine, history
  <2>2. Functions'
    BY <2>1 DEF AInv, Functions
  <2>3. ASSUME NEW d \in Conns PROVE Session(d)'
    <3>1. Session(d) /\ Stays(d)
      BY <2>1 DEF AInv, Stays, Listens
    <3> QED BY <2>1, <3>1, StillWorld, SessionKept
  <2>4. (\E S : log' \in Seq(S)) /\ Singly' /\ Accounts'
    BY <2>1, StillWorld
  <2> QED BY <2>2, <2>3, <2>4 DEF AInv
<1> QED
  BY <1>1, <1>2, <1>3 DEF Next

(* The invariant says what was to be shown. *)
LEMMA RepliesAnswered == AInv => AnsweredOnce
<1> SUFFICES ASSUME AInv, NEW c \in Conns
             PROVE  LET times(n) == Cardinality({i \in DOMAIN heard[c] : heard[c][i] = n}) IN
                    /\ \A n \in replied[c] : times(n) = 1
                    /\ \A i \in bound[c] + 1 .. outFrom[c] : \A r \in log[i] :
                         r[1] = "tell" /\ r[2] = who[c] => times(r[3]) = 1
  BY DEF AnsweredOnce
<1> DEFINE times(n) == Cardinality({i \in DOMAIN heard[c] : heard[c][i] = n})
<1>1. Hears(c)
  BY DEF AInv, Session
<1>2. ASSUME NEW n, \E j \in DOMAIN heard[c] : heard[c][j] = n PROVE times(n) = 1
  <2>1. PICK j \in DOMAIN heard[c] : heard[c][j] = n
    BY <1>2
  <2>2. {i \in DOMAIN heard[c] : heard[c][i] = n} = {j}
    BY <1>1, <2>1 DEF Hears
  <2>3. Cardinality({j}) = 1
    BY FS_Singleton
  <2> QED BY <2>2, <2>3
<1>3. ASSUME NEW n \in replied[c] PROVE times(n) = 1
  <2>1. \E j \in DOMAIN heard[c] : heard[c][j] = n
    BY <1>1 DEF Hears
  <2> QED BY <1>2, <2>1
<1>4. ASSUME NEW i \in bound[c] + 1 .. outFrom[c], NEW r \in log[i],
             r[1] = "tell" /\ r[2] = who[c]
      PROVE  times(r[3]) = 1
  <2>1. \E j \in DOMAIN heard[c] : heard[c][j] = r[3]
    BY <1>1, <1>4 DEF Hears
  <2> QED BY <1>2, <2>1
<1> QED
  BY <1>3, <1>4

(* As long as no two connections of a player run its process at once: a    *)
(* command that submit answered was handled once and its reply written to  *)
(* its connection once, and no reply to the player is missed or repeated   *)
(* up to the connection's place in them, whatever other players, pumps,    *)
(* lost sockets and crashes commit or cut short in between (submit,        *)
(* drain_output).                                                          *)
THEOREM EveryAnswerOnce == Spec /\ []OneDriver => []AnsweredOnce
<1>1. Init => IInv /\ AInv
  BY InitInv, InitReplies
<1>2. IInv /\ AInv /\ OneDriver /\ [Next]_vars => (IInv /\ AInv)'
  BY NextInv, NextReplies
<1>3. AInv => AnsweredOnce
  BY RepliesAnswered
<1> QED
  BY <1>1, <1>2, <1>3, PTL DEF Spec

-----------------------------------------------------------------------------
(* A player's watch: its cursor, the count of its changes, its mail, and   *)
(* how far the mail was delivered.                                         *)

PostRels == {"wcursor", "wseq", "wmail"}
WatchRow(e, w) == <<"wcursor", e, w>>
CountRow(e, s) == <<"wseq", e, s>>
PostRow(e, n, x) == <<"wmail", e, n, x>>
PlaceRow(e, k) == <<"wdelivery", e, k>>

Posted(S) == {r \in S : r[1] \in PostRels \cup {"wdelivery"}}
OncePosted == \A r \in DOMAIN world : r[1] \in PostRels => world[r] = 1

Unwatched(e) ==
  /\ At("wcursor", e) = {} /\ At("wseq", e) = {} /\ At("wmail", e) = {}
  /\ e \in Ids => since[e] = 0

(* Its cursor is at w; its mail is one change to a number below s, and has *)
(* what the editions up to w named since it first subscribed.              *)
Box(e, s) ==
  /\ \A r \in At("wmail", e) : \E n \in 0 .. s - 1 : \E x \in Nat : r = PostRow(e, n, x)
  /\ \A n \in 0 .. s - 1 : \E x \in Nat : PostRow(e, n, x) \in DOMAIN world
  /\ \A n \in 0 .. s - 1 : \A x, y \in Nat :
       PostRow(e, n, x) \in DOMAIN world /\ PostRow(e, n, y) \in DOMAIN world => x = y
Mailed(e, w) ==
  e \in Ids =>
    /\ since[e] \in 1 .. w
    /\ \A i \in since[e] + 1 .. w : \A r \in log[i] :
         r[1] = "named" => \E n \in Nat : PostRow(e, n, r[2]) \in DOMAIN world
WatchedTo(e, w, s) ==
  /\ w <= Current
  /\ At("wcursor", e) = {WatchRow(e, w)} /\ At("wseq", e) = {CountRow(e, s)}
  /\ Box(e, s) /\ Mailed(e, w)
Watched(e) == \E w, s \in Nat : WatchedTo(e, w, s)

(* The changes below k are in the mail and were written to a socket.       *)
Reached(e, k) ==
  /\ k \in Nat
  /\ e \in Ids => 0 .. k - 1 \subseteq written[e]
  /\ k = 0 \/ \E s \in Nat : k <= s /\ CountRow(e, s) \in DOMAIN world
Places ==
  \A r \in DOMAIN world :
    r[1] = "wdelivery" => r = PlaceRow(r[2], r[3]) /\ Reached(r[2], r[3])

NamesLogged == \A i \in 1 .. Current : \A r \in log[i] : r[1] = "named" => r \in DOMAIN world

(* The patches in hand, as far as they touch a watch.                      *)
PumpOf(p, e, w, s, to, new) ==
  LET place(x) == Cardinality({y \in new : y < x}) IN
  /\ new # {} /\ {WatchRow(e, w), CountRow(e, s)} \subseteq p.pre
  /\ Posted(p.dels) = {WatchRow(e, w), CountRow(e, s)}
  /\ Posted(p.adds) = {WatchRow(e, to), CountRow(e, s + Cardinality(new))}
                         \cup {PostRow(e, s + place(x), x) : x \in new}
Pumped(p, e) ==
  \E w, s, to \in Nat :
    to \in w + 1 .. Current /\ PumpOf(p, e, w, s, to, NewNames(w, to))
Installs(p, e) ==
  /\ p.at \in 1 .. Current
  /\ Posted(p.adds) = {WatchRow(e, p.at), CountRow(e, 0)} /\ Posted(p.dels) = {}
Advances(p, e) ==
  /\ p.dels \subseteq p.pre
  /\ \E k \in Nat : Reached(e, k) /\ Posted(p.adds) = {PlaceRow(e, k)}
  /\ \E k \in Nat : Posted(p.dels) \subseteq {PlaceRow(e, k)}
Carries(c) ==
  /\ pc[c] \in {"spawning", "enqueue", "step"} =>
       Posted(job[c].adds) = {} /\ Posted(job[c].dels) = {}
  /\ pc[c] = "install" => Installs(job[c], who[c])
  /\ pc[c] = "pump" => Pumped(job[c], who[c])
  /\ pc[c] = "mail" => Reached(who[c], job[c].at)
  /\ pc[c] = "advance" => Advances(job[c], who[c])
Follows(c) ==
  /\ pc[c] \in Outside <=> who[c] = NoOne
  /\ pc[c] \in {"watch", "install"} => Unwatched(who[c])
  /\ sub[c] => who[c] # NoOne /\ Watched(who[c])
Post(c) == Carries(c) /\ Follows(c)

Maps ==
  /\ sub = [c \in Conns |-> sub[c]]
  /\ since = [e \in Ids |-> since[e]] /\ written = [e \in Ids |-> written[e]]

PInv ==
  /\ (\E S : log \in Seq(S)) /\ Current >= 1 /\ Maps /\ OncePosted /\ Places /\ NamesLogged
  /\ \A e \in Nat : Unwatched(e) \/ Watched(e)
  /\ \A c \in Conns : Post(c)

-----------------------------------------------------------------------------
(* What a change of the world leaves of a watch.                           *)

SameBox(e) ==
  /\ At("wcursor", e)' = At("wcursor", e) /\ At("wseq", e)' = At("wseq", e)
  /\ At("wmail", e)' = At("wmail", e)
  /\ e \in Ids => since'[e] = since[e]

(* A watch no row of which is touched stays what it was. *)
LEMMA WatchKept ==
  ASSUME \E S : log \in Seq(S), LogGrows, NEW e, SameBox(e)
  PROVE  /\ Unwatched(e) => Unwatched(e)'
         /\ \A w, s \in Nat : WatchedTo(e, w, s) => WatchedTo(e, w, s)'
         /\ Watched(e) => Watched(e)'
<1>1. /\ Current \in Nat /\ Current' \in Nat /\ Current <= Current'
      /\ \A i \in 1 .. Current : log'[i] = log[i]
  BY LogOnward
<1>2. Unwatched(e) => Unwatched(e)'
  BY DEF SameBox, Unwatched, Ids
<1>3. ASSUME NEW n, NEW x
      PROVE  PostRow(e, n, x) \in DOMAIN world' <=> PostRow(e, n, x) \in DOMAIN world
  <2>1. PostRow(e, n, x)[1] = "wmail" /\ PostRow(e, n, x)[2] = e
    BY DEF PostRow
  <2>2. PostRow(e, n, x) \in At("wmail", e) <=> PostRow(e, n, x) \in DOMAIN world
    BY <2>1 DEF At
  <2>3. PostRow(e, n, x) \in At("wmail", e)' <=> PostRow(e, n, x) \in DOMAIN world'
    BY <2>1 DEF At
  <2> QED BY <2>2, <2>3 DEF SameBox
<1>4. ASSUME NEW w \in Nat, NEW s \in Nat, WatchedTo(e, w, s) PROVE WatchedTo(e, w, s)'
  <2>1. w <= Current'
    BY <1>1, <1>4 DEF WatchedTo
  <2>2. At("wcursor", e)' = {WatchRow(e, w)} /\ At("wseq", e)' = {CountRow(e, s)}
    BY <1>4 DEF WatchedTo, SameBox
  <2>3. Box(e, s)'
    BY <1>3, <1>4 DEF WatchedTo, SameBox, Box
  <2>4. ASSUME e \in Ids
        PROVE  /\ since'[e] \in 1 .. w
               /\ \A i \in since'[e] + 1 .. w : \A r \in log'[i] :
                    r[1] = "named" => \E n \in Nat : PostRow(e, n, r[2]) \in DOMAIN world'
    <3>1. since'[e] = since[e] /\ since[e] \in 1 .. w
      BY <1>4, <2>4 DEF WatchedTo, Mailed, SameBox
    <3>2. \A i \in since[e] + 1 .. w : i \in 1 .. Current /\ log'[i] = log[i]
      BY <1>1, <1>4, <3>1 DEF WatchedTo
    <3> QED BY <1>3, <1>4, <2>4, <3>1, <3>2 DEF WatchedTo, Mailed
  <2>5. Mailed(e, w)'
    BY <2>4 DEF Mailed, Ids
  <2> QED BY <2>1, <2>2, <2>3, <2>5 DEF WatchedTo
<1>5. Watched(e) => Watched(e)'
  BY <1>4 DEF Watched
<1> QED
  BY <1>2, <1>4, <1>5

Still(d) == pc'[d] = pc[d] /\ who'[d] = who[d] /\ job'[d] = job[d] /\ sub'[d] = sub[d]

(* The patch of a pump names the same changes in a longer log. *)
LEMMA NewNamesKept ==
  ASSUME \E S : log \in Seq(S), LogGrows, NEW w \in Nat, NEW to \in w + 1 .. Current
  PROVE  NewNames(w, to)' = NewNames(w, to) /\ to \in w + 1 .. Current'
<1>1. /\ Current \in Nat /\ Current' \in Nat /\ Current <= Current'
      /\ \A i \in 1 .. Current : log'[i] = log[i]
  BY LogOnward
<1>2. \A i \in w + 1 .. to : log'[i] = log[i]
  BY <1>1
<1>3. UNION {log'[i] : i \in w + 1 .. to} = UNION {log[i] : i \in w + 1 .. to}
  BY <1>2
<1> QED
  BY <1>1, <1>3 DEF NewNames

(* A thread that takes no step holds what it held, and follows the watch   *)
(* it followed.                                                            *)
LEMMA PostKept ==
  ASSUME \E S : log \in Seq(S), LogGrows, NEW d \in Conns, Post(d), Still(d),
         \A e : Watched(e) => Watched(e)',
         \A e, k : Reached(e, k) => Reached(e, k)',
         pc[d] \in {"watch", "install"} => \A e : e = who[d] => Unwatched(e)'
  PROVE  Post(d)'
<1>1. /\ Current \in Nat /\ Current' \in Nat /\ Current <= Current'
      /\ \A i \in 1 .. Current : log'[i] = log[i]
  BY LogOnward
<1>2. PICK e, p : e = who[d] /\ p = job[d]
  OBVIOUS
<1>3. who'[d] = e /\ job'[d] = p /\ pc'[d] = pc[d] /\ sub'[d] = sub[d]
  BY <1>2 DEF Still
<1>4. Follows(d)'
  <2>1. pc[d] \in {"watch", "install"} => Unwatched(e)'
    BY <1>2
  <2>2. sub[d] => e # NoOne /\ Watched(e)'
    BY <1>2 DEF Post, Follows
  <2>3. pc[d] \in Outside <=> e = NoOne
    BY <1>2 DEF Post, Follows
  <2> QED BY <1>3, <2>1, <2>2, <2>3 DEF Follows
<1>5. ASSUME pc[d] = "pump" PROVE Pumped(p, e)'
  <2>1. Pumped(p, e)
    BY <1>2, <1>5 DEF Post, Carries
  <2>2. PICK w \in Nat, s \in Nat, to \in Nat :
          to \in w + 1 .. Current /\ PumpOf(p, e, w, s, to, NewNames(w, to))
    BY <2>1 DEF Pumped
  <2>3. NewNames(w, to)' = NewNames(w, to) /\ to \in w + 1 .. Current'
    BY <2>2, NewNamesKept
  <2>4. PumpOf(p, e, w, s, to, NewNames(w, to)')
    BY <2>2, <2>3
  <2> QED BY <2>3, <2>4 DEF Pumped
<1>6. ASSUME pc[d] = "advance" PROVE Advances(p, e)'
  BY <1>2, <1>6 DEF Post, Carries, Advances
<1>7. ASSUME pc[d] = "install" PROVE Installs(p, e)'
  BY <1>1, <1>2, <1>7 DEF Post, Carries, Installs
<1>8. ASSUME pc[d] = "mail" PROVE Reached(e, p.at)'
  <2>1. PICK k : k = p.at
    OBVIOUS
  <2>2. Reached(e, k)'
    BY <1>2, <1>8, <2>1 DEF Post, Carries
  <2> QED BY <2>1, <2>2
<1>9. pc[d] \in {"spawning", "enqueue", "step"} => Posted(p.adds) = {} /\ Posted(p.dels) = {}
  BY <1>2 DEF Post, Carries
<1>10. Carries(d)'
  BY <1>3, <1>5, <1>6, <1>7, <1>8, <1>9 DEF Carries
<1> QED
  BY <1>4, <1>10 DEF Post

-----------------------------------------------------------------------------
(* Steps that commit nothing.                                              *)

Fills == \A e \in Ids : written[e] \subseteq written'[e]

(* What is written to a socket leaves every watch. *)
LEMMA StillWatch ==
  ASSUME PInv, UNCHANGED <<world, log, since>>, Fills
  PROVE  /\ LogGrows /\ (\E S : log' \in Seq(S)) /\ Current' >= 1
         /\ OncePosted' /\ Places' /\ NamesLogged'
         /\ \A e : Unwatched(e) => Unwatched(e)'
         /\ \A e : Watched(e) => Watched(e)'
         /\ \A e, k : Reached(e, k) => Reached(e, k)'
<1>1. /\ LogGrows /\ (\E S : log \in Seq(S)) /\ (\E S : log' \in Seq(S)) /\ Current' >= 1
  BY DEF LogGrows, PInv, Current
<1>2. ASSUME NEW e PROVE SameBox(e)
  BY DEF SameBox, At
<1>3. ASSUME NEW e, NEW k, Reached(e, k) PROVE Reached(e, k)'
  BY <1>3 DEF Reached, Fills, Ids
<1>4. OncePosted' /\ NamesLogged'
  BY DEF PInv, OncePosted, NamesLogged, Current
<1>5. Places'
  <2>1. ASSUME NEW r \in DOMAIN world', r[1] = "wdelivery"
        PROVE  r = PlaceRow(r[2], r[3]) /\ Reached(r[2], r[3])'
    <3>1. r = PlaceRow(r[2], r[3]) /\ Reached(r[2], r[3])
      BY <2>1 DEF PInv, Places
    <3> QED BY <1>3, <3>1
  <2> QED BY <2>1 DEF Places
<1> QED
  BY <1>1, <1>2, <1>3, <1>4, <1>5, WatchKept

(* One thread moves. *)
LEMMA OneFollows ==
  ASSUME PInv, UNCHANGED <<world, log, since>>, Fills, Maps', NEW c \in Conns,
         \A d \in Conns \ {c} : Still(d), Post(c)'
  PROVE  PInv'
<1>1. /\ LogGrows /\ (\E S : log' \in Seq(S)) /\ Current' >= 1
      /\ OncePosted' /\ Places' /\ NamesLogged'
      /\ \A e : Unwatched(e) => Unwatched(e)'
      /\ \A e : Watched(e) => Watched(e)'
      /\ \A e, k : Reached(e, k) => Reached(e, k)'
  BY StillWatch
<1>2. ASSUME NEW d \in Conns \ {c} PROVE Post(d)'
  <2>1. Post(d) /\ Still(d) /\ \E S : log \in Seq(S)
    BY DEF PInv
  <2>2. pc[d] \in {"watch", "install"} => \A e : e = who[d] => Unwatched(e)'
    BY <1>1, <2>1 DEF Post, Follows
  <2> QED BY <1>1, <2>1, <2>2, PostKept
<1>3. \A e \in Nat : Unwatched(e)' \/ Watched(e)'
  BY <1>1 DEF PInv
<1> QED
  BY <1>1, <1>2, <1>3 DEF PInv

Loaded == {"spawning", "enqueue", "step", "install", "pump", "mail", "advance"}

(* A thread that carries nothing has nothing to keep. *)
LEMMA CarriesNothing ==
  ASSUME NEW c \in Conns, pc'[c] \notin Loaded
  PROVE  Carries(c)'
  BY DEF Carries, Loaded

(* A thread goes on, or takes up a patch. *)
LEMMA Moves ==
  ASSUME PInv, TypeOK, NEW c \in Conns, UNCHANGED <<world, log, since, who, sub>>,
         Fills, written' = [e \in Ids |-> written'[e]],
         NEW at, pc' = [pc EXCEPT ![c] = at], job' = [job EXCEPT ![c] = job'[c]],
         at \in Outside <=> pc[c] \in Outside,
         at \in {"watch", "install"} => Unwatched(who[c]), Carries(c)'
  PROVE  PInv'
<1>1. Maps' /\ Fills
  BY DEF PInv, Maps
<1>2. pc'[c] = at /\ \A d \in Conns \ {c} : Still(d)
  BY DEF TypeOK, Still
<1>3. PICK e : e = who[c]
  OBVIOUS
<1>4. /\ \A f : Unwatched(f) => Unwatched(f)'
      /\ \A f : Watched(f) => Watched(f)'
  BY <1>1, StillWatch
<1>5. Post(c)
  BY DEF PInv
<1>6. Follows(c)'
  <2>1. who'[c] = e /\ sub'[c] = sub[c]
    BY <1>3
  <2>2. at \in Outside <=> e = NoOne
    BY <1>3, <1>5 DEF Post, Follows
  <2>3. at \in {"watch", "install"} => Unwatched(e)'
    BY <1>3, <1>4
  <2>4. sub[c] => e # NoOne /\ Watched(e)'
    BY <1>3, <1>4, <1>5 DEF Post, Follows
  <2> QED BY <1>2, <2>1, <2>2, <2>3, <2>4 DEF Follows
<1>7. Post(c)'
  BY <1>6 DEF Post
<1> QED
  BY <1>1, <1>2, <1>7, OneFollows

(* So does one with nothing in hand. *)
LEMMA MovesIdle ==
  ASSUME PInv, TypeOK, NEW c \in Conns, UNCHANGED <<world, log, since, written, who, sub>>,
         NEW at \in PCs \ (Loaded \cup {"watch"}),
         pc' = [pc EXCEPT ![c] = at], job' = [job EXCEPT ![c] = job'[c]],
         at \in Outside <=> pc[c] \in Outside
  PROVE  PInv'
<1>1. pc'[c] = at
  BY DEF TypeOK
<1>2. Carries(c)'
  BY <1>1, CarriesNothing
<1>3. at \notin {"watch", "install"}
  BY DEF Loaded
<1>4. Fills /\ written' = [e \in Ids |-> written'[e]]
  BY DEF PInv, Maps, Fills, Ids
<1> QED
  BY <1>2, <1>3, <1>4, Moves

(* A connection that ends, and all of them that a crash ends. *)
LEMMA PostsEnd ==
  ASSUME PInv, TypeOK, UNCHANGED <<world, log, since>>, Fills,
         written' = [e \in Ids |-> written'[e]], NEW S \in SUBSET Conns, Forget(S)
  PROVE  PInv'
<1>1. Maps'
  BY DEF PInv, Maps, Forget
<1>2. /\ LogGrows /\ (\E T : log' \in Seq(T)) /\ Current' >= 1
      /\ OncePosted' /\ Places' /\ NamesLogged'
      /\ \A e : Unwatched(e) => Unwatched(e)'
      /\ \A e : Watched(e) => Watched(e)'
      /\ \A e, k : Reached(e, k) => Reached(e, k)'
  BY StillWatch
<1>3. ASSUME NEW d \in Conns PROVE Post(d)'
  <2>1. CASE d \in S
    <3>1. pc'[d] = "closed" /\ who'[d] = NoOne /\ sub'[d] = FALSE
      BY <2>1 DEF Forget
    <3> QED BY <3>1 DEF Post, Carries, Follows, Outside
  <2>2. CASE d \notin S
    <3>1. Still(d) /\ Post(d) /\ \E T : log \in Seq(T)
      BY <2>2 DEF Forget, Still, PInv
    <3>2. pc[d] \in {"watch", "install"} => \A e : e = who[d] => Unwatched(e)'
      BY <1>2, <3>1 DEF Post, Follows
    <3> QED BY <1>2, <3>1, <3>2, PostKept
  <2> QED BY <2>1, <2>2
<1>4. \A e \in Nat : Unwatched(e)' \/ Watched(e)'
  BY <1>2 DEF PInv
<1> QED
  BY <1>1, <1>2, <1>3, <1>4 DEF PInv

(* The player a connection finds is nobody's watch yet taken up by it. *)
LEMMA FoundPosts ==
  ASSUME PInv, TypeOK, NEW c \in Conns, UNCHANGED <<world, log, since, written, sub, job>>,
         pc[c] \in Outside, pc' = [pc EXCEPT ![c] = "bind"],
         NEW e, e # NoOne, who' = [who EXCEPT ![c] = e]
  PROVE  PInv'
<1>1. Maps' /\ Fills
  BY DEF PInv, Maps, Fills, Ids
<1>2. pc'[c] = "bind" /\ who'[c] = e /\ sub'[c] = sub[c] /\ \A d \in Conns \ {c} : Still(d)
  BY DEF TypeOK, Still
<1>3. ~ sub[c]
  <2>1. Follows(c)
    BY DEF PInv, Post
  <2> QED BY <2>1 DEF Follows
<1>4. Follows(c)'
  BY <1>2, <1>3 DEF Follows, Outside
<1>5. Carries(c)'
  BY <1>2, CarriesNothing DEF Loaded
<1>6. Post(c)'
  BY <1>4, <1>5 DEF Post
<1> QED
  BY <1>1, <1>2, <1>6, OneFollows

(* A player whose process a connection runs is an entity. *)
LEMMA PlayersNumber ==
  ASSUME IInv, PInv, NEW c \in Conns, pc[c] \notin Outside
  PROVE  who[c] \in Nat \ {0}
<1>1. who[c] # NoOne
  BY DEF PInv, Post, Follows
<1>2. PlayerRow(who[c], Name[c]) \in DOMAIN world
  BY <1>1 DEF IInv, Ident
<1> QED
  BY <1>2, BornPlayer

(* What the bump of a counter adds to a patch. *)
LEMMA BumpedRels ==
  ASSUME NEW p, IsPatch(p), NEW rel, NEW e, NEW k
  PROVE  LET b == Bumped(p, rel, e, k) IN
         /\ IsPatch(b)
         /\ \A r \in b.adds \cup b.dels : r \in p.adds \cup p.dels \/ r[1] = rel
<1> DEFINE row == IF Numbers(rel, e) = {} THEN {} ELSE {<<rel, e, Counter(rel, e)>>}
           b == Bumped(p, rel, e, k)
           up == <<rel, e, Counter(rel, e) + k>>
<1>1. IsPatch(b) /\ b.dels = p.dels \cup row /\ b.adds = p.adds \cup {up}
  BY BumpedParts
<1>2. up[1] = rel /\ \A r \in row : r[1] = rel
  OBVIOUS
<1> HIDE DEF b, row, up
<1>3. \A r \in b.adds \cup b.dels : r \in p.adds \cup p.dels \/ r[1] = rel
  BY <1>1, <1>2
<1> QED
  BY <1>1, <1>3 DEF b

Elsewhere(p) == \A r \in p.adds \cup p.dels : r[1] \notin PostRels \cup {"wdelivery"}

(* A patch that touches no watch is taken up. *)
LEMMA TakesUp ==
  ASSUME PInv, TypeOK, NEW c \in Conns, UNCHANGED <<world, log, since, written, who, sub>>,
         NEW at \in {"spawning", "enqueue", "step"}, pc' = [pc EXCEPT ![c] = at],
         NEW p, Elsewhere(p), job' = [job EXCEPT ![c] = p],
         at \in Outside <=> pc[c] \in Outside
  PROVE  PInv'
<1>1. pc'[c] = at /\ job'[c] = p /\ job' = [job EXCEPT ![c] = job'[c]]
  BY DEF TypeOK
<1>2. Posted(p.adds) = {} /\ Posted(p.dels) = {}
  BY DEF Posted, Elsewhere
<1>3. Carries(c)'
  BY <1>1, <1>2 DEF Carries
<1>4. Fills /\ written' = [e \in Ids |-> written'[e]]
  BY DEF PInv, Maps, Fills, Ids
<1> QED
  BY <1>1, <1>3, <1>4, Moves

(* A player to be spawned has no watch yet. *)
LEMMA SpawnPosts ==
  ASSUME PInv, TypeOK, NEW c \in Conns, Spawn(c)
  PROVE  PInv'
<1> DEFINE k == Counter("ids", NoOne)
           q == [NoJob EXCEPT !.adds = {<<"player", k, Name[c]>>, <<"named", k, 0>>,
                                        <<"inboxseq", k, 0>>},
                              !.at = k]
           p == Bumped(q, "ids", NoOne, 1)
<1>1. IsPatch(q) /\ q.dels = {} /\ \A r \in q.adds : r[1] \in {"player", "named", "inboxseq"}
  BY DEF IsPatch, NoJob
<1>2. \A r \in p.adds \cup p.dels : r[1] \in {"player", "named", "inboxseq", "ids"}
  <2> HIDE DEF q
  <2> QED BY <1>1, BumpedRels
<1>3. SpawnPatch(Name[c]) = p
  BY DEF SpawnPatch
<1>4. /\ job' = [job EXCEPT ![c] = p] /\ pc' = [pc EXCEPT ![c] = "spawning"] /\ pc[c] = "spawn"
      /\ UNCHANGED <<world, log, since, written, who, sub>>
  BY <1>3 DEF Spawn, Propose, Go, history
<1> HIDE DEF p
<1>5. Elsewhere(p)
  BY <1>2 DEF Elsewhere, PostRels
<1> QED
  BY <1>4, <1>5, TakesUp DEF Outside

(* Nor does a line to be enqueued, *)
LEMMA NumberPosts ==
  ASSUME PInv, TypeOK, NEW c \in Conns, EnqueueNumber(c)
  PROVE  PInv'
<1> DEFINE e == who[c]
           n == Counter("inboxseq", e)
           q == [NoJob EXCEPT !.adds = {<<"inbox", e, n>>}, !.at = n]
           p == Bumped(q, "inboxseq", e, 1)
<1>1. IsPatch(q) /\ q.dels = {} /\ \A r \in q.adds : r[1] = "inbox"
  BY DEF IsPatch, NoJob
<1>2. \A r \in p.adds \cup p.dels : r[1] \in {"inbox", "inboxseq"}
  <2> HIDE DEF q, e
  <2> QED BY <1>1, BumpedRels
<1>3. /\ job' = [job EXCEPT ![c] = p] /\ pc' = [pc EXCEPT ![c] = "enqueue"] /\ pc[c] = "number"
      /\ UNCHANGED <<world, log, since, written, who, sub>>
  BY DEF EnqueueNumber, Propose, Go, history
<1> HIDE DEF p
<1>4. Elsewhere(p)
  BY <1>2 DEF Elsewhere, PostRels
<1> QED
  BY <1>3, <1>4, TakesUp DEF Outside

(* nor the reply to a command, touch a watch. *)
LEMMA PreparePosts ==
  ASSUME PInv, TypeOK, NEW c \in Conns, Prepare(c)
  PROVE  PInv'
<1> DEFINE e == who[c]
           n == job[c].at
           id == Counter("ids", NoOne)
           q == [NoJob EXCEPT !.adds = {<<"tell", e, n>>, <<"named", id, 0>>}]
           b == Bumped(q, "ids", NoOne, 1)
           moved == IF n > 0 THEN {<<"cursor", e, n>>} ELSE {}
           next == {<<"cursor", e, n + 1>>}
           p == [b EXCEPT !.dels = @ \cup moved, !.adds = @ \cup next, !.at = n]
<1>1. IsPatch(q) /\ q.dels = {} /\ \A r \in q.adds : r[1] \in {"tell", "named"}
  BY DEF IsPatch, NoJob
<1>2. IsPatch(b) /\ \A r \in b.adds \cup b.dels : r[1] \in {"tell", "named", "ids"}
  <2> HIDE DEF q, e
  <2> QED BY <1>1, BumpedRels
<1>3. \A r \in moved \cup next : r[1] = "cursor"
  OBVIOUS
<1>4. Step(e, n) = p
  BY DEF Step, Behavior
<1>5. \A r \in p.adds \cup p.dels : r[1] \in {"tell", "named", "ids", "cursor"}
  <2> HIDE DEF b, moved, next
  <2>1. p.adds = b.adds \cup next /\ p.dels = b.dels \cup moved
    BY <1>2 DEF IsPatch
  <2> HIDE DEF p
  <2> QED BY <1>2, <1>3, <2>1
<1>6. /\ job' = [job EXCEPT ![c] = p] /\ pc' = [pc EXCEPT ![c] = "step"] /\ pc[c] = "prepare"
      /\ UNCHANGED <<world, log, since, written, who, sub>>
  BY <1>4 DEF Prepare, Propose, Go, history
<1> HIDE DEF p
<1>7. Elsewhere(p)
  BY <1>5 DEF Elsewhere, PostRels
<1> QED
  BY <1>6, <1>7, TakesUp DEF Outside

(* A thread drops or keeps what it has, and carries nothing further. *)
Idles(c, at) ==
  /\ UNCHANGED <<world, log, since, written, who, sub>>
  /\ pc' = [pc EXCEPT ![c] = at] /\ job' = [job EXCEPT ![c] = job'[c]]

(* A connection that closes leaves every watch. *)
LEMMA PostsOver ==
  ASSUME PInv, TypeOK, NEW c \in Conns, Forget({c}), UNCHANGED <<world, log, since, written>>
  PROVE  PInv'
<1>1. Fills /\ written' = [e \in Ids |-> written'[e]]
  BY DEF PInv, Maps, Fills, Ids
<1>2. {c} \in SUBSET Conns
  OBVIOUS
<1> QED
  BY <1>1, <1>2, PostsEnd

(* A step of the login that commits nothing. *)
LEMMA LoginPosts ==
  ASSUME IInv, PInv, NEW c \in Conns, Login(c), ~ SpawnCommit(c)
  PROVE  PInv'
<1>0. TypeOK
  BY DEF IInv
<1> DEFINE Idle == PCs \ (Loaded \cup {"watch"})
<1>1. ASSUME NEW at \in Idle, Idles(c, at), at \in Outside <=> pc[c] \in Outside
      PROVE  PInv'
  BY <1>0, <1>1, MovesIdle DEF Idles
<1>2. \A at \in {"login", "spawn", "bind", "line"} : at \in Idle
  BY DEF PCs, Loaded
<1> HIDE DEF Idle
<1>3. CASE Accept(c)
  <2>1. Idles(c, "login") /\ pc[c] = "closed"
    BY <1>0, <1>3 DEF Accept, Begin, Idles, TypeOK
  <2> QED BY <1>1, <1>2, <2>1 DEF Outside
<1>4. ASSUME NEW e \in Player(Name[c]), pc[c] \in {"login", "spawn"},
             pc' = [pc EXCEPT ![c] = "bind"], who' = [who EXCEPT ![c] = e],
             UNCHANGED <<world, log, since, written, sub, job>>
      PROVE  PInv'
  <2>1. PlayerRow(e, Name[c]) \in DOMAIN world
    BY PlayerFound DEF IInv
  <2>2. e # NoOne
    BY <2>1, BornPlayer DEF NoOne
  <2> QED BY <1>0, <1>4, <2>2, FoundPosts DEF Outside
<1>5. CASE Lookup(c)
  <2>1. CASE Go(c, "spawn") /\ UNCHANGED who
    <3>1. Idles(c, "spawn") /\ pc[c] = "login"
      BY <1>0, <1>5, <2>1 DEF Lookup, Go, Idles, TypeOK, history
    <3> QED BY <1>1, <1>2, <3>1 DEF Outside
  <2>2. CASE \E e \in Player(Name[c]) : who' = [who EXCEPT ![c] = e] /\ Go(c, "bind")
    BY <1>4, <1>5, <2>2 DEF Lookup, Go, history
  <2> QED BY <1>5, <2>1, <2>2 DEF Lookup
<1>6. CASE Adopt(c)
  BY <1>4, <1>6 DEF Adopt, Adopted, Begin, history
<1>7. CASE Spawn(c)
  BY <1>0, <1>7, SpawnPosts
<1>8. CASE SpawnRejected(c)
  <2>1. Idles(c, "spawn") /\ pc[c] = "spawning"
    BY <1>0, <1>8 DEF SpawnRejected, Rejected, Drop, Propose, Retry, Idles, TypeOK, history
  <2> QED BY <1>1, <1>2, <2>1 DEF Outside
<1>9. CASE LoginFails(c)
  BY <1>0, <1>9, PostsOver DEF LoginFails, Rejected
<1>10. CASE Bind(c)
  <2>1. Idles(c, "line") /\ pc[c] = "bind"
    BY <1>0, <1>10 DEF Bind, Begin, Idles, TypeOK
  <2> QED BY <1>1, <1>2, <2>1 DEF Outside
<1>11. CASE Quit(c)
  BY <1>0, <1>11, PostsOver DEF Quit
<1> QED
  BY <1>3, <1>5, <1>6, <1>7, <1>8, <1>9, <1>10, <1>11 DEF Login

(* A step of submit or drain_output that commits nothing. *)
LEMMA AnswerPosts ==
  ASSUME IInv, PInv, NEW c \in Conns, Answer(c), ~ EnqueueCommit(c), ~ StepCommit(c)
  PROVE  PInv'
<1>0. TypeOK
  BY DEF IInv
<1> DEFINE Idle == {"number", "position", "prepare", "drain", "replies", "push"}
           Amid == {"line", "number", "enqueue", "position", "prepare", "step", "drain", "replies"}
<1>1. ASSUME NEW at \in Idle, Idles(c, at), pc[c] \in Amid PROVE PInv'
  <2>1. at \in PCs \ (Loaded \cup {"watch"}) /\ (at \in Outside <=> pc[c] \in Outside)
    BY <1>1 DEF PCs, Loaded, Outside
  <2> HIDE DEF Idle, Amid
  <2> QED BY <1>0, <1>1, <2>1, MovesIdle DEF Idles
<1>2. CASE Submit(c)
  <2>1. Idles(c, "number") /\ pc[c] \in Amid
    BY <1>0, <1>2 DEF Submit, Begin, Idles, TypeOK
  <2> QED BY <1>1, <2>1
<1>3. CASE EnqueueNumber(c)
  BY <1>0, <1>3, NumberPosts
<1>4. CASE EnqueueRejected(c)
  <2>1. PICK at \in {"number", "push"} : pc' = [pc EXCEPT ![c] = at]
    BY <1>4 DEF EnqueueRejected, Retry, SubmitFails, Begin
  <2>2. Idles(c, at) /\ pc[c] \in Amid
    BY <1>0, <1>4, <2>1 DEF EnqueueRejected, Rejected, Drop, Propose, Idles, TypeOK, history
  <2> QED BY <1>1, <2>2
<1>5. CASE Position(c)
  <2>1. PICK p : job' = [job EXCEPT ![c] = p]
    BY <1>5 DEF Position, Propose
  <2>2. Idles(c, "prepare") /\ pc[c] \in Amid
    BY <1>0, <1>5, <2>1 DEF Position, Go, Idles, TypeOK, history
  <2> QED BY <1>1, <2>2
<1>6. CASE Prepare(c)
  BY <1>0, <1>6, PreparePosts
<1>7. CASE InboxIdle(c)
  <2>1. Idles(c, "drain") /\ pc[c] \in Amid
    BY <1>0, <1>7 DEF InboxIdle, Drop, Propose, Begin, Idles, TypeOK, history
  <2> QED BY <1>1, <2>1
<1>8. CASE StepRejected(c)
  <2>1. PICK at \in {"position", "push"} : pc' = [pc EXCEPT ![c] = at]
    BY <1>8 DEF StepRejected, Retry, SubmitFails, Begin
  <2>2. Idles(c, at) /\ pc[c] \in Amid
    BY <1>0, <1>8, <2>1 DEF StepRejected, Rejected, Drop, Propose, Idles, TypeOK, history
  <2> QED BY <1>1, <2>2
<1>9. CASE DrainStart(c)
  <2>1. Idles(c, "replies") /\ pc[c] \in Amid
    BY <1>0, <1>9 DEF DrainStart, Propose, Go, Idles, TypeOK, history
  <2> QED BY <1>1, <2>1
<1>10. CASE Drain(c)
  <2>1. Idles(c, "push") /\ pc[c] \in Amid
    BY <1>0, <1>10 DEF Drain, Drop, Propose, Begin, Idles, TypeOK
  <2> QED BY <1>1, <2>1
<1> QED
  BY <1>2, <1>3, <1>4, <1>5, <1>6, <1>7, <1>8, <1>9, <1>10 DEF Answer

-----------------------------------------------------------------------------
(* Reading a watch, and what its thread takes up.                          *)

(* What a watch reads off its rows. *)
LEMMA WatchReads ==
  ASSUME OncePosted, NEW e, NEW w \in Nat, NEW s \in Nat, WatchedTo(e, w, s)
  PROVE  /\ Numbers("wcursor", e) = {w} /\ Cursor("wcursor", e) = w
         /\ Numbers("wseq", e) = {s} /\ Counter("wseq", e) = s
         /\ Numbers("wmail", e) = 0 .. s - 1
         /\ CountRow(e, s) \in DOMAIN world /\ WatchRow(e, w) \in DOMAIN world
<1>1. ASSUME NEW rel \in PostRels PROVE Held(rel, e) = At(rel, e)
  BY <1>1 DEF Held, At, Rows, OncePosted
<1>2. Numbers("wcursor", e) = {w}
  <2>1. Held("wcursor", e) = {WatchRow(e, w)}
    BY <1>1 DEF PostRels, WatchedTo
  <2>2. WatchRow(e, w)[3] = w
    BY DEF WatchRow
  <2> QED BY <2>1, <2>2 DEF Numbers
<1>3. Numbers("wseq", e) = {s}
  <2>1. Held("wseq", e) = {CountRow(e, s)}
    BY <1>1 DEF PostRels, WatchedTo
  <2>2. CountRow(e, s)[3] = s
    BY DEF CountRow
  <2> QED BY <2>1, <2>2 DEF Numbers
<1>4. Cursor("wcursor", e) = w /\ Counter("wseq", e) = s
  <2>1. Cursor("wcursor", e) = Min({w}) /\ Counter("wseq", e) = Max({s})
    BY <1>2, <1>3 DEF Cursor, Counter
  <2> QED BY <2>1 DEF Min, Max
<1>5. Numbers("wmail", e) = 0 .. s - 1
  <2>1. Held("wmail", e) = At("wmail", e)
    BY <1>1 DEF PostRels
  <2>2. ASSUME NEW r \in At("wmail", e) PROVE r[3] \in 0 .. s - 1
    <3>1. PICK n \in 0 .. s - 1, x \in Nat : r = PostRow(e, n, x)
      BY DEF WatchedTo, Box
    <3> QED BY <3>1 DEF PostRow
  <2>3. ASSUME NEW n \in 0 .. s - 1 PROVE \E r \in At("wmail", e) : r[3] = n
    <3>1. PICK x \in Nat : PostRow(e, n, x) \in DOMAIN world
      BY DEF WatchedTo, Box
    <3>2. PostRow(e, n, x)[1] = "wmail" /\ PostRow(e, n, x)[2] = e /\ PostRow(e, n, x)[3] = n
      BY DEF PostRow
    <3> QED BY <3>1, <3>2 DEF At
  <2>4. \A n : n \in Numbers("wmail", e) <=> \E r \in At("wmail", e) : r[3] = n
    BY <2>1 DEF Numbers
  <2> QED BY <2>2, <2>3, <2>4
<1>6. CountRow(e, s) \in DOMAIN world /\ WatchRow(e, w) \in DOMAIN world
  BY DEF WatchedTo, At
<1> QED
  BY <1>2, <1>3, <1>4, <1>5, <1>6

(* A player without a watch reads nothing. *)
LEMMA UnwatchedReads ==
  ASSUME NEW e, Unwatched(e)
  PROVE  Numbers("wcursor", e) = {} /\ Numbers("wseq", e) = {} /\ Numbers("wmail", e) = {}
BY DEF Unwatched, Numbers, Held, Rows, At

(* The place a delivery begins at was reached. *)
LEMMA PlaceReads ==
  ASSUME PInv, NEW e
  PROVE  Reached(e, Cursor("wdelivery", e))
<1>1. ASSUME NEW n \in Numbers("wdelivery", e) PROVE Reached(e, n)
  <2>1. PICK r \in Held("wdelivery", e) : r[3] = n
    BY DEF Numbers
  <2>2. r \in DOMAIN world /\ r[1] = "wdelivery" /\ r[2] = e
    BY <2>1 DEF Held, Rows
  <2> QED BY <2>1, <2>2 DEF PInv, Places
<1>2. CASE Numbers("wdelivery", e) = {}
  <2>1. Cursor("wdelivery", e) = 0
    BY <1>2 DEF Cursor, Fresh
  <2>2. Reached(e, 0)
    BY DEF Reached
  <2> QED BY <2>1, <2>2
<1>3. CASE Numbers("wdelivery", e) # {}
  <2> DEFINE S == Numbers("wdelivery", e)
  <2>1. S \in SUBSET Nat
    BY <1>1 DEF Reached
  <2>2. Cursor("wdelivery", e) = Min(S)
    BY <1>3 DEF Cursor
  <2> HIDE DEF S
  <2>3. \E x \in S : \A y \in S : x <= y
    BY <1>3, <2>1, LeastExists DEF S
  <2>4. Min(S) \in S
    BY <2>3 DEF Min
  <2> QED BY <1>1, <2>2, <2>4 DEF S
<1> QED
  BY <1>2, <1>3

(* The edition a subscription begins at is chosen. *)
LEMMA InstallAtPosts ==
  ASSUME IInv, PInv, NEW c \in Conns, InstallAt(c)
  PROVE  PInv'
<1>0. TypeOK /\ Current \in Nat /\ Current >= 1
  BY DEF IInv, PInv, Current
<1>1. PICK e, at : e = who[c] /\ at = Current
  OBVIOUS
<1>2. pc[c] = "watch" /\ UNCHANGED <<world, log, since, written, who, sub>>
  BY DEF InstallAt, history
<1>3. Unwatched(e)
  BY <1>1, <1>2 DEF PInv, Post, Follows
<1>4. Numbers("wseq", e) = {}
  BY <1>3, UnwatchedReads
<1> DEFINE p == [NoJob EXCEPT !.adds = {<<"wcursor", e, at>>} \cup {<<"wseq", e, 0>>}, !.at = at]
<1>5. job' = [job EXCEPT ![c] = p] /\ pc' = [pc EXCEPT ![c] = "install"]
  BY <1>1, <1>4 DEF InstallAt, Propose, Go
<1>6. p.at = at /\ p.dels = {} /\ p.adds = {WatchRow(e, at), CountRow(e, 0)}
  BY DEF NoJob, WatchRow, CountRow
<1> HIDE DEF p
<1>7. pc'[c] = "install" /\ job'[c] = p /\ who'[c] = e /\ job' = [job EXCEPT ![c] = job'[c]]
  BY <1>0, <1>1, <1>2, <1>5 DEF TypeOK
<1>8. Posted(p.adds) = {WatchRow(e, at), CountRow(e, 0)} /\ Posted(p.dels) = {}
  BY <1>6 DEF Posted, PostRels, WatchRow, CountRow
<1>9. at \in 1 .. Current'
  BY <1>0, <1>1, <1>2 DEF Current
<1>10. Installs(p, e)'
  BY <1>6, <1>8, <1>9 DEF Installs
<1>11. Carries(c)'
  BY <1>7, <1>10 DEF Carries
<1>12. Fills /\ written' = [f \in Ids |-> written'[f]]
  BY <1>2 DEF PInv, Maps, Fills, Ids
<1> QED
  BY <1>0, <1>1, <1>2, <1>3, <1>5, <1>7, <1>11, <1>12, Moves DEF Outside

(* A subscription that is there is taken up again. *)
LEMMA ResumePosts ==
  ASSUME IInv, PInv, NEW c \in Conns, Resume(c)
  PROVE  PInv'
<1>0. TypeOK
  BY DEF IInv
<1>1. pc[c] = "line" /\ UNCHANGED <<world, log, since, written, who, pc, job>>
  BY DEF Resume, history
<1>2. Maps' /\ Fills /\ sub'[c] = TRUE
  BY <1>1 DEF PInv, Maps, Fills, Ids, Resume
<1>3. PICK e \in Nat \ {0} : e = who[c]
  BY <1>1, PlayersNumber DEF Outside
<1>4. Watched(e)
  <2>1. Numbers("wcursor", e) # {}
    BY <1>3 DEF Resume
  <2>2. ~ Unwatched(e)
    BY <2>1, UnwatchedReads
  <2> QED BY <2>2 DEF PInv
<1>5. \A d \in Conns \ {c} : Still(d)
  BY <1>1 DEF Still, PInv, Maps, Resume
<1>6. Watched(e)'
  BY <1>1, <1>2, <1>4, StillWatch
<1>7. pc'[c] = "line" /\ who'[c] = e
  BY <1>1, <1>3
<1>8. Follows(c)'
  BY <1>2, <1>6, <1>7 DEF Follows, NoOne, Outside
<1>9. Carries(c)'
  BY <1>7, CarriesNothing DEF Loaded
<1>10. Post(c)'
  BY <1>8, <1>9 DEF Post
<1> QED
  BY <1>1, <1>2, <1>5, <1>10, OneFollows

(* A subscription is begun, or found. *)
LEMMA SubscribePosts ==
  ASSUME IInv, PInv, NEW c \in Conns, Subscribe(c)
  PROVE  PInv'
<1>0. TypeOK
  BY DEF IInv
<1>1. pc[c] = "line" /\ UNCHANGED <<world, log, since, written, who, sub, job>>
  BY DEF Subscribe, history
<1>2. pc' = [pc EXCEPT ![c] = "watch"] /\ pc'[c] = "watch"
  BY <1>0 DEF Subscribe, Go, TypeOK
<1>3. PICK e \in Nat \ {0} : e = who[c]
  BY <1>1, PlayersNumber DEF Outside
<1>4. Unwatched(e)
  <2>1. Numbers("wcursor", e) = {}
    BY <1>3 DEF Subscribe
  <2>2. ASSUME Watched(e) PROVE FALSE
    <3>1. PICK w \in Nat, s \in Nat : WatchedTo(e, w, s)
      BY <2>2 DEF Watched
    <3>2. Numbers("wcursor", e) = {w}
      BY <3>1, WatchReads DEF PInv
    <3> QED BY <2>1, <3>2
  <2> QED BY <2>2 DEF PInv
<1>5. Carries(c)'
  BY <1>2, CarriesNothing DEF Loaded
<1>6. Fills /\ written' = [f \in Ids |-> written'[f]] /\ job' = [job EXCEPT ![c] = job'[c]]
  BY <1>0, <1>1 DEF PInv, Maps, Fills, Ids, TypeOK
<1> QED
  BY <1>0, <1>1, <1>2, <1>3, <1>4, <1>5, <1>6, Moves DEF Outside

(* A pump's patch takes the cursor to the newest edition, and numbers the  *)
(* changes on.                                                             *)
LEMMA PumpPosts ==
  ASSUME IInv, PInv, NEW c \in Conns, Pump(c)
  PROVE  PInv'
<1>0. TypeOK /\ Current \in Nat
  BY DEF IInv, PInv, Current
<1>1. pc[c] = "push" /\ sub[c] /\ UNCHANGED <<world, log, since, written, who, sub>>
  BY DEF Pump, Moved, history
<1>2. PICK e \in Nat \ {0} : e = who[c]
  BY <1>1, PlayersNumber DEF Outside
<1>3. PICK w \in Nat, s \in Nat : WatchedTo(e, w, s)
  BY <1>1, <1>2 DEF PInv, Post, Follows, Watched
<1>4. /\ Cursor("wcursor", e) = w /\ Numbers("wseq", e) = {s} /\ Counter("wseq", e) = s
  BY <1>3, WatchReads DEF PInv
<1>5. PICK to \in Nat : to = Current
  BY <1>0
<1> DEFINE new == NewNames(w, to)
           place(x) == Cardinality({y \in new : y < x})
           mail == {<<"wmail", e, s + place(x), x>> : x \in new}
           q == [NoJob EXCEPT
                   !.pre = {<<"wcursor", e, w>>}, !.dels = {<<"wcursor", e, w>>},
                   !.adds = {<<"wcursor", e, to>>} \cup mail]
           b == Bumped(q, "wseq", e, Cardinality(new))
<1>6. PumpPatch(e) = b
  BY <1>4, <1>5 DEF PumpPatch
<1>7. new # {}
  BY <1>1, <1>2, <1>4, <1>5 DEF Pump, Moved
<1>8. to \in w + 1 .. Current
  <2>1. w <= to
    BY <1>3, <1>5 DEF WatchedTo
  <2>2. w # to
    <3>1. ASSUME w = to PROVE FALSE
      <4>1. w + 1 .. to = {}
        BY <3>1
      <4>2. UNION {log[i] : i \in w + 1 .. to} = {}
        BY <4>1
      <4> QED BY <1>7, <4>2 DEF NewNames
    <3> QED BY <3>1
  <2> QED BY <1>5, <2>1, <2>2
<1>9. /\ IsPatch(q) /\ q.pre = {WatchRow(e, w)} /\ q.dels = {WatchRow(e, w)}
      /\ q.adds = {WatchRow(e, to)} \cup mail
  <2> HIDE DEF mail
  <2> QED BY DEF IsPatch, NoJob, WatchRow
<1> DEFINE m == Cardinality(new)
<1>10. /\ b.pre = {WatchRow(e, w), CountRow(e, s)} /\ b.dels = {WatchRow(e, w), CountRow(e, s)}
       /\ b.adds = {WatchRow(e, to), CountRow(e, s + m)} \cup mail
  <2> DEFINE row == IF Numbers("wseq", e) = {} THEN {} ELSE {<<"wseq", e, Counter("wseq", e)>>}
  <2>1. row = {CountRow(e, s)} /\ <<"wseq", e, Counter("wseq", e) + m>> = CountRow(e, s + m)
    <3> HIDE DEF m
    <3> QED BY <1>4 DEF CountRow
  <2> HIDE DEF q, mail, new
  <2>2. /\ b.pre = q.pre \cup row /\ b.dels = q.dels \cup row
        /\ b.adds = q.adds \cup {<<"wseq", e, Counter("wseq", e) + m>>}
    BY <1>9, BumpedParts
  <2> HIDE DEF b, row, m
  <2> QED BY <1>9, <2>1, <2>2
<1>11. /\ job' = [job EXCEPT ![c] = b] /\ pc' = [pc EXCEPT ![c] = "pump"]
  BY <1>2, <1>6 DEF Pump, Propose, Go
<1>12. mail = {PostRow(e, s + place(x), x) : x \in new}
  BY DEF PostRow
<1>13. \A r \in mail : r[1] = "wmail"
  <2> HIDE DEF new, place
  <2> QED OBVIOUS
<1> HIDE DEF b
<1>14. PICK p : p = b
  OBVIOUS
<1>15. /\ Posted(p.dels) = {WatchRow(e, w), CountRow(e, s)}
       /\ Posted(p.adds) = {WatchRow(e, to), CountRow(e, s + m)} \cup mail
  <2> HIDE DEF mail, m
  <2> QED BY <1>10, <1>13, <1>14 DEF Posted, PostRels, WatchRow, CountRow
<1>16. PumpOf(p, e, w, s, to, new)
  BY <1>7, <1>10, <1>12, <1>15, <1>14 DEF PumpOf
<1>17. NewNames(w, to)' = NewNames(w, to) /\ Current' = Current
  BY <1>1 DEF NewNames, Current
<1>18. Pumped(p, e)'
  <2>1. to \in w + 1 .. Current'
    BY <1>8, <1>17
  <2>2. PICK nn : nn = new /\ nn = NewNames(w, to)'
    BY <1>17
  <2>3. PumpOf(p, e, w, s, to, nn)
    BY <1>16, <2>2
  <2> HIDE DEF new, mail, q, m
  <2>4. PumpOf(p, e, w, s, to, NewNames(w, to)')
    BY <2>2, <2>3
  <2> QED BY <2>1, <2>4 DEF Pumped
<1> HIDE DEF new, mail, q, m
<1>19. pc'[c] = "pump" /\ job'[c] = p /\ who'[c] = e /\ job' = [job EXCEPT ![c] = job'[c]]
  BY <1>0, <1>1, <1>2, <1>11, <1>14 DEF TypeOK
<1>20. Carries(c)'
  BY <1>18, <1>19 DEF Carries
<1>21. Fills /\ written' = [f \in Ids |-> written'[f]]
  BY <1>1 DEF PInv, Maps, Fills, Ids
<1> QED
  BY <1>0, <1>1, <1>11, <1>19, <1>20, <1>21, Moves DEF Outside

(* A delivery reads its place. *)
LEMMA DeliveredThroughPosts ==
  ASSUME IInv, PInv, NEW c \in Conns, DeliveredThrough(c)
  PROVE  PInv'
<1>0. TypeOK
  BY DEF IInv
<1>1. pc[c] = "delivery" /\ UNCHANGED <<world, log, since, written, who, sub>>
  BY DEF DeliveredThrough, history
<1>2. PICK e, k : e = who[c] /\ k = Cursor("wdelivery", e)
  OBVIOUS
<1> DEFINE p == [NoJob EXCEPT !.at = k]
<1>3. job' = [job EXCEPT ![c] = p] /\ pc' = [pc EXCEPT ![c] = "mail"] /\ p.at = k
  BY <1>2 DEF DeliveredThrough, Propose, Go, NoJob
<1> HIDE DEF p
<1>4. pc'[c] = "mail" /\ job'[c] = p /\ who'[c] = e /\ job' = [job EXCEPT ![c] = job'[c]]
  BY <1>0, <1>1, <1>2, <1>3 DEF TypeOK
<1>5. Fills /\ written' = [f \in Ids |-> written'[f]]
  BY <1>1 DEF PInv, Maps, Fills, Ids
<1>6. Reached(e, k)'
  BY <1>1, <1>2, <1>5, PlaceReads, StillWatch
<1>7. Carries(c)'
  BY <1>3, <1>4, <1>6 DEF Carries
<1> QED
  BY <1>0, <1>1, <1>3, <1>4, <1>5, <1>7, Moves DEF Outside

(* What is written to the socket is all of the mail from there on. *)
LEMMA DeliverPosts ==
  ASSUME IInv, PInv, NEW c \in Conns, Deliver(c)
  PROVE  PInv'
<1>0. TypeOK
  BY DEF IInv
<1>1. pc[c] = "mail" /\ UNCHANGED <<world, log, since, who, sub>>
  BY DEF Deliver
<1>2. PICK e \in Nat \ {0} : e = who[c]
  BY <1>1, PlayersNumber DEF Outside
<1>3. PICK from \in Nat : from = job[c].at /\ Reached(e, from)
  BY <1>1, <1>2 DEF PInv, Post, Carries, Reached
<1>4. Undelivered(e, from) # {} /\ written' = [written EXCEPT ![e] = @ \cup Undelivered(e, from)]
  BY <1>2, <1>3 DEF Deliver
<1>5. PICK w \in Nat, s \in Nat : WatchedTo(e, w, s)
  <2>1. Numbers("wmail", e) # {}
    BY <1>4 DEF Undelivered
  <2>2. Watched(e)
    BY <2>1, UnwatchedReads DEF PInv
  <2> QED BY <2>2 DEF Watched
<1>6. Numbers("wmail", e) = 0 .. s - 1 /\ CountRow(e, s) \in DOMAIN world
  BY <1>5, WatchReads DEF PInv
<1>7. Undelivered(e, from) = from .. s - 1 /\ from < s
  <2>1. Undelivered(e, from) = from .. s - 1
    BY <1>6 DEF Undelivered
  <2> QED BY <1>4, <2>1
<1>8. from + Cardinality(Undelivered(e, from)) = s
  <2>1. Cardinality(from .. s - 1) = (s - 1) - from + 1
    BY <1>7, FS_Interval
  <2> QED BY <1>7, <2>1
<1> DEFINE row == IF from > 0 THEN {<<"wdelivery", e, from>>} ELSE {}
           p == [NoJob EXCEPT !.pre = row, !.dels = row, !.adds = {<<"wdelivery", e, s>>}]
<1>9. job' = [job EXCEPT ![c] = p] /\ pc' = [pc EXCEPT ![c] = "advance"]
  <2>1. DeliveryPatch(e, from) = p
    BY <1>8 DEF DeliveryPatch
  <2> QED BY <1>2, <1>3, <2>1 DEF Deliver, Propose, Go
<1>10. p.pre = row /\ p.dels = row /\ p.adds = {PlaceRow(e, s)}
  <2> HIDE DEF row
  <2> QED BY DEF NoJob, PlaceRow
<1>11. row \subseteq {PlaceRow(e, from)}
  BY DEF PlaceRow
<1> HIDE DEF p, row
<1>12. pc'[c] = "advance" /\ job'[c] = p /\ who'[c] = e /\ job' = [job EXCEPT ![c] = job'[c]]
  BY <1>0, <1>1, <1>2, <1>9 DEF TypeOK
<1>13. Maps /\ written' = [f \in Ids |-> written'[f]] /\ Fills
  <2>1. Maps
    BY DEF PInv
  <2>2. DOMAIN written = Ids
    BY <2>1 DEF Maps
  <2>3. DOMAIN written' = Ids /\ written' = [f \in Ids |-> written'[f]]
    BY <1>4, <2>2
  <2>4. ASSUME NEW f \in Ids PROVE written[f] \subseteq written'[f]
    <3>1. f = e => written'[f] = written[f] \cup Undelivered(e, from)
      BY <1>4, <2>2
    <3>2. f # e => written'[f] = written[f]
      BY <1>4, <2>2
    <3> QED BY <3>1, <3>2
  <2> QED BY <2>1, <2>3, <2>4 DEF Fills
<1>14. Reached(e, s)'
  <2>1. ASSUME e \in Ids PROVE 0 .. s - 1 \subseteq written'[e]
    <3>1. written'[e] = written[e] \cup Undelivered(e, from)
      BY <1>4, <1>13, <2>1 DEF Maps
    <3>2. 0 .. from - 1 \subseteq written[e]
      BY <1>3, <2>1 DEF Reached
    <3>3. \A i \in 0 .. s - 1 : i \in 0 .. from - 1 \/ i \in from .. s - 1
      OBVIOUS
    <3> QED BY <1>7, <3>1, <3>2, <3>3
  <2>2. CountRow(e, s) \in DOMAIN world'
    BY <1>1, <1>6
  <2> QED BY <2>1, <2>2 DEF Reached, Ids
<1>15. Posted(p.adds) = {PlaceRow(e, s)} /\ Posted(p.dels) \subseteq {PlaceRow(e, from)}
  BY <1>10, <1>11 DEF Posted, PlaceRow
<1>16. Advances(p, e)'
  BY <1>10, <1>14, <1>15 DEF Advances
<1>17. Carries(c)'
  BY <1>12, <1>16 DEF Carries
<1> QED
  BY <1>0, <1>1, <1>9, <1>12, <1>13, <1>17, Moves DEF Outside

(* A step of the push that commits nothing. *)
LEMMA PushQuietPosts ==
  ASSUME IInv, PInv, NEW c \in Conns, Push(c), ~ Install(c), ~ PumpCommit(c), ~ DeliveryCommit(c)
  PROVE  PInv'
<1>0. TypeOK
  BY DEF IInv
<1> DEFINE Idle == {"push", "delivery", "line"}
           Amid == {"push", "pump", "delivery", "mail", "advance"}
<1>1. ASSUME NEW at \in Idle, Idles(c, at), pc[c] \in Amid PROVE PInv'
  <2>1. at \in PCs \ (Loaded \cup {"watch"}) /\ (at \in Outside <=> pc[c] \in Outside)
    BY <1>1 DEF PCs, Loaded, Outside
  <2> HIDE DEF Idle, Amid
  <2> QED BY <1>0, <1>1, <2>1, MovesIdle DEF Idles
<1>2. CASE Resume(c)
  BY <1>2, ResumePosts
<1>3. CASE Subscribe(c)
  BY <1>3, SubscribePosts
<1>4. CASE InstallAt(c)
  BY <1>4, InstallAtPosts
<1>5. CASE Pump(c)
  BY <1>5, PumpPosts
<1>6. CASE PumpQuiet(c)
  <2>1. PICK at \in {"delivery", "line"} : pc' = [pc EXCEPT ![c] = at]
    BY <1>6 DEF PumpQuiet, Begin
  <2>2. Idles(c, at) /\ pc[c] \in Amid
    BY <1>0, <1>6, <2>1 DEF PumpQuiet, Idles, TypeOK, history
  <2> QED BY <1>1, <2>2
<1>7. CASE PumpRejected(c)
  <2>1. PICK at \in {"push", "delivery"} : pc' = [pc EXCEPT ![c] = at]
    BY <1>7 DEF PumpRejected, Retry, Begin
  <2>2. Idles(c, at) /\ pc[c] \in Amid
    BY <1>0, <1>7, <2>1 DEF PumpRejected, Rejected, Drop, Propose, Idles, TypeOK, history
  <2> QED BY <1>1, <2>2
<1>8. CASE DeliveredThrough(c)
  BY <1>8, DeliveredThroughPosts
<1>9. CASE Deliver(c)
  BY <1>9, DeliverPosts
<1>10. CASE NothingToDeliver(c)
  <2>1. Idles(c, "line") /\ pc[c] \in Amid
    BY <1>0, <1>10 DEF NothingToDeliver, Drop, Propose, Begin, Idles, TypeOK, history
  <2> QED BY <1>1, <2>1
<1>11. CASE SocketFails(c)
  <2>1. Maps /\ Forget({c}) /\ UNCHANGED <<world, log, since>> /\ {c} \in SUBSET Conns
    BY <1>11 DEF SocketFails, PInv
  <2>2. written' = written \/ \E e, T : written' = [written EXCEPT ![e] = @ \cup T]
    <3>1. CASE pc[c] = "push" /\ UNCHANGED written
      BY <3>1
    <3>2. CASE \E n \in Undelivered(who[c], job[c].at) :
                 written' = [written EXCEPT ![who[c]] =
                   @ \cup {m \in Undelivered(who[c], job[c].at) : m < n}]
      BY <3>2
    <3> QED BY <1>11, <3>1, <3>2 DEF SocketFails
  <2>3. Fills /\ written' = [f \in Ids |-> written'[f]]
    <3>1. CASE written' = written
      BY <2>1, <3>1 DEF Maps, Fills
    <3>2. CASE written' # written
      <4>1. PICK e, T : written' = [written EXCEPT ![e] = @ \cup T]
        BY <2>2, <3>2
      <4>2. DOMAIN written = Ids
        BY <2>1 DEF Maps
      <4>3. DOMAIN written' = Ids /\ written' = [f \in Ids |-> written'[f]]
        BY <4>1, <4>2
      <4>4. ASSUME NEW f \in Ids PROVE written[f] \subseteq written'[f]
        <5>1. f = e => written'[f] = written[f] \cup T
          BY <4>1, <4>2
        <5>2. f # e => written'[f] = written[f]
          BY <4>1, <4>2
        <5> QED BY <5>1, <5>2
      <4> QED BY <4>3, <4>4 DEF Fills
    <3> QED BY <3>1, <3>2
  <2> QED BY <1>0, <2>1, <2>3, PostsEnd
<1>12. CASE DeliveryRejected(c)
  <2>1. PICK at \in {"delivery", "line"} : pc' = [pc EXCEPT ![c] = at]
    BY <1>12 DEF DeliveryRejected, Retry, Begin
  <2>2. Idles(c, at) /\ pc[c] \in Amid
    BY <1>0, <1>12, <2>1 DEF DeliveryRejected, Rejected, Drop, Propose, Idles, TypeOK, history
  <2> QED BY <1>1, <2>2
<1> QED
  BY <1>2, <1>3, <1>4, <1>5, <1>6, <1>7, <1>8, <1>9, <1>10, <1>11, <1>12 DEF Push

-----------------------------------------------------------------------------
(* What a commit does to the rows of watches.                              *)

CleanPost(c) ==
  \A r : r[1] \in PostRels =>
    /\ r \in job[c].adds => r \notin DOMAIN world /\ r \notin job[c].dels
    /\ r \in job[c].dels => r \in DOMAIN world

(* A commit that asserts no row of a watch twice keeps each once. *)
LEMMA PostCommit ==
  ASSUME TypeOK, OncePosted, NEW c \in Conns, Committed(c), CleanPost(c)
  PROVE  /\ OncePosted'
         /\ \A r : r[1] \in PostRels =>
              (r \in DOMAIN world' <=>
                 (r \in DOMAIN world /\ r \notin job[c].dels) \/ r \in job[c].adds)
<1>1. ASSUME NEW r, r[1] \in PostRels
      PROVE  /\ r \in DOMAIN world' <=>
                  (r \in DOMAIN world /\ r \notin job[c].dels) \/ r \in job[c].adds
             /\ r \in DOMAIN world' => world'[r] = 1
  <2>1. r \in DOMAIN world => world[r] = 1
    BY <1>1 DEF OncePosted
  <2> QED BY <1>1, <2>1, CommitRow DEF CleanPost
<1>2. OncePosted'
  BY <1>1 DEF OncePosted
<1> QED
  BY <1>1, <1>2

(* No row comes from elsewhere than the patch. *)
LEMMA OldOrNew ==
  ASSUME TypeOK, NEW c \in Conns, Committed(c), NEW r \in DOMAIN world'
  PROVE  r \in DOMAIN world \/ r \in job[c].adds \/ r \in job[c].dels
<1>1. /\ Weight(world', r) = Weight(world, r) + One(r \in job[c].adds) - One(r \in job[c].dels)
      /\ Proper(world') /\ Proper(world)
  BY CommitWeight DEF TypeOK
<1>2. Weight(world', r) # 0
  BY <1>1, WeightIn
<1>3. ASSUME r \notin DOMAIN world, r \notin job[c].adds, r \notin job[c].dels PROVE FALSE
  <2>1. Weight(world, r) = 0
    BY <1>3 DEF Weight
  <2>2. One(r \in job[c].adds) = 0 /\ One(r \in job[c].dels) = 0
    BY <1>3 DEF One
  <2> QED BY <1>1, <1>2, <2>1, <2>2
<1> QED
  BY <1>3

(* What an edition names is and stays in the world. *)
LEMMA NamesCommit ==
  ASSUME IInv, NamesLogged, \E S : log \in Seq(S), NEW c \in Conns, Committed(c),
         pc[c] \in {"spawning", "enqueue", "step", "install", "pump", "advance"}
  PROVE  NamesLogged'
<1>1. PICK k \in Nat \ {0} : Numbered(k)
  BY DEF IInv
<1>2. ASSUME NEW e \in 1 .. k, NEW rows, Takes(job[c], e, rows),
             rows = {} \/ \E name : rows = {PlayerRow(e, name)}
      PROVE  /\ \A r \in DOMAIN world : r[1] = "named" => r \in DOMAIN world'
             /\ \A r \in job[c].adds : r[1] = "named" => r \in DOMAIN world'
  <2>1. /\ e = k
        /\ Ours(DOMAIN world') = (Ours(DOMAIN world) \ {IdRow(k)})
                                    \cup {IdRow(k + 1), NamedRow(k)} \cup rows
    BY <1>1, <1>2, TakesCommit DEF IInv, Numbered
  <2>2. Ours(job[c].adds) = {IdRow(k + 1), NamedRow(k)} \cup rows
    BY <1>2, <2>1 DEF Takes
  <2>3. IdRow(k)[1] = "ids"
    BY DEF IdRow
  <2>4. \A S : \A r : r[1] = "named" => (r \in Ours(S) <=> r \in S)
    BY DEF Ours
  <2>5. ASSUME NEW r, r[1] = "named", r \in DOMAIN world \/ r \in job[c].adds
        PROVE  r \in DOMAIN world'
    <3>1. r \in Ours(DOMAIN world) \/ r \in Ours(job[c].adds)
      BY <2>4, <2>5
    <3>2. r \in Ours(DOMAIN world')
      BY <2>1, <2>2, <2>3, <2>5, <3>1
    <3> QED BY <2>4, <2>5, <3>2
  <2> QED BY <2>5
<1>3. ASSUME Aside(c)
      PROVE  /\ \A r \in DOMAIN world : r[1] = "named" => r \in DOMAIN world'
             /\ \A r \in job[c].adds : r[1] = "named" => r \in DOMAIN world'
  <2>1. Ours(DOMAIN world') = Ours(DOMAIN world)
    BY <1>3, AsideCommit DEF IInv
  <2> QED BY <1>3, <2>1 DEF Aside, Ours
<1>4. /\ \A r \in DOMAIN world : r[1] = "named" => r \in DOMAIN world'
      /\ \A r \in job[c].adds : r[1] = "named" => r \in DOMAIN world'
  <2>1. Fits(c, k)
    BY <1>1 DEF Numbered
  <2>2. CASE pc[c] = "spawning"
    <3>1. PICK e \in 1 .. k : Takes(job[c], e, {PlayerRow(e, Name[c])})
      BY <2>1, <2>2 DEF Fits, Spawning
    <3>2. \E name : {PlayerRow(e, Name[c])} = {PlayerRow(e, name)}
      OBVIOUS
    <3> QED BY <1>2, <3>1, <3>2
  <2>3. CASE pc[c] = "step"
    <3>1. PICK e \in 1 .. k : Takes(job[c], e, {})
      BY <2>1, <2>3 DEF Fits, Naming
    <3> QED BY <1>2, <3>1
  <2>4. CASE pc[c] \in {"enqueue", "install", "pump", "advance"}
    <3>1. Aside(c)
      BY <2>1, <2>4 DEF Fits
    <3> QED BY <1>3, <3>1
  <2> QED BY <2>2, <2>3, <2>4
<1>5. PICK S : log \in Seq(S)
  OBVIOUS
<1>6. PICK T : T = Recorded(job[c].adds)
  OBVIOUS
<1>7. log' = Append(log, T)
  BY <1>6 DEF Committed
<1>8. log \in Seq(S \cup {T})
  <2>1. \A n \in Nat : [1 .. n -> S] \subseteq [1 .. n -> S \cup {T}]
    OBVIOUS
  <2>2. log \in [1 .. Len(log) -> S] /\ Len(log) \in Nat
    BY <1>5
  <2>3. log \in [1 .. Len(log) -> S \cup {T}]
    BY <2>1, <2>2
  <2>4. \A n \in Nat : [1 .. n -> S \cup {T}] \subseteq Seq(S \cup {T})
    OBVIOUS
  <2> QED BY <2>2, <2>3, <2>4
<1>9. Current' = Current + 1 /\ Current \in Nat /\ log'[Current + 1] = T
      /\ \A i \in 1 .. Current : log'[i] = log[i]
  <2>1. T \in S \cup {T}
    OBVIOUS
  <2> QED BY <1>7, <1>8, <2>1 DEF Current
<1>10. ASSUME NEW i \in 1 .. Current', NEW r \in log'[i], r[1] = "named" PROVE r \in DOMAIN world'
  <2>1. CASE i \in 1 .. Current
    <3>1. r \in DOMAIN world
      BY <1>9, <1>10, <2>1 DEF NamesLogged
    <3> QED BY <1>4, <1>10, <3>1
  <2>2. CASE i = Current + 1
    <3>1. r \in job[c].adds
      BY <1>6, <1>9, <1>10, <2>2 DEF Recorded
    <3> QED BY <1>4, <1>10, <3>1
  <2> QED BY <1>9, <1>10, <2>1, <2>2
<1> QED
  BY <1>10 DEF NamesLogged

(* A commit of which every watch, place and thread makes the best. *)
LEMMA PostsCommit ==
  ASSUME IInv, PInv, NEW c \in Conns, Committed(c), CleanPost(c), Maps',
         pc[c] \in {"spawning", "enqueue", "step", "install", "pump", "advance"},
         \A d \in Conns \ {c} : Still(d), Post(c)',
         \A e : Watched(e) => Watched(e)',
         \A e \in Nat : Unwatched(e) => Unwatched(e)' \/ Watched(e)',
         \A e, k : Reached(e, k) => Reached(e, k)',
         \A r \in job[c].adds \cup job[c].dels :
           r[1] = "wdelivery" =>
             \E e, k : r = PlaceRow(e, k) /\ (r \in DOMAIN world \/ Reached(e, k)'),
         \A d \in Conns \ {c} : pc[d] \in {"watch", "install"} =>
           \A e : e = who[d] => Unwatched(e)'
  PROVE  PInv'
<1>1. TypeOK /\ OncePosted /\ NamesLogged /\ (\E S : log \in Seq(S))
  BY DEF IInv, PInv
<1>2. LogGrows
  BY DEF LogGrows, Committed
<1>3. (\E S : log' \in Seq(S)) /\ Current' >= 1
  <2>1. /\ \E S : log' \in Seq(S)
        /\ Current \in Nat /\ Current' \in Nat /\ Current <= Current'
    BY <1>1, <1>2, LogOnward
  <2>2. Current >= 1
    BY DEF PInv
  <2> QED BY <2>1, <2>2
<1>4. OncePosted'
  BY <1>1, PostCommit
<1>5. NamesLogged'
  BY <1>1, NamesCommit
<1>6. Places'
  <2>1. ASSUME NEW r \in DOMAIN world', r[1] = "wdelivery"
        PROVE  r = PlaceRow(r[2], r[3]) /\ Reached(r[2], r[3])'
    <3>1. CASE r \in DOMAIN world
      <4>1. r = PlaceRow(r[2], r[3]) /\ Reached(r[2], r[3])
        BY <2>1, <3>1 DEF PInv, Places
      <4> QED BY <4>1
    <3>2. CASE r \notin DOMAIN world
      <4>1. r \in job[c].adds \cup job[c].dels
        BY <1>1, <3>2, OldOrNew
      <4>2. PICK e, k : r = PlaceRow(e, k) /\ Reached(e, k)'
        BY <2>1, <3>2, <4>1
      <4>3. r[2] = e /\ r[3] = k
        BY <4>2 DEF PlaceRow
      <4> QED BY <4>2, <4>3
    <3> QED BY <3>1, <3>2
  <2> QED BY <2>1 DEF Places
<1>7. ASSUME NEW d \in Conns \ {c} PROVE Post(d)'
  <2>1. Post(d)
    BY DEF PInv
  <2> QED BY <1>1, <1>2, <2>1, PostKept
<1>8. \A e \in Nat : Unwatched(e)' \/ Watched(e)'
  BY DEF PInv
<1> QED
  BY <1>3, <1>4, <1>5, <1>6, <1>7, <1>8 DEF PInv

(* A commit that touches no row of a watch. *)
LEMMA ElsewhereCommit ==
  ASSUME IInv, PInv, NEW c \in Conns, Committed(c), UNCHANGED <<since, written>>,
         \A r \in job[c].adds \cup job[c].dels : r[1] \notin PostRels
  PROVE  /\ CleanPost(c)
         /\ \A e : Unwatched(e) => Unwatched(e)'
         /\ \A e : Watched(e) => Watched(e)'
         /\ \A e, k : Reached(e, k) => Reached(e, k)'
<1>1. TypeOK /\ OncePosted /\ \E S : log \in Seq(S)
  BY DEF IInv, PInv
<1>2. CleanPost(c)
  BY DEF CleanPost
<1>3. \A r : r[1] \in PostRels => (r \in DOMAIN world' <=> r \in DOMAIN world)
  BY <1>1, <1>2, PostCommit
<1>4. ASSUME NEW e PROVE SameBox(e)
  <2>1. ASSUME NEW rel \in PostRels PROVE At(rel, e)' = At(rel, e)
    BY <1>3, <2>1 DEF At
  <2>2. e \in Ids => since'[e] = since[e]
    OBVIOUS
  <2> QED BY <2>1, <2>2 DEF SameBox, PostRels
<1>5. LogGrows
  BY DEF LogGrows, Committed
<1>6. ASSUME NEW e, NEW k, Reached(e, k) PROVE Reached(e, k)'
  <2>1. \A s : CountRow(e, s) \in DOMAIN world => CountRow(e, s) \in DOMAIN world'
    BY <1>3 DEF CountRow, PostRels
  <2> QED BY <1>6, <2>1 DEF Reached, Ids
<1> QED
  BY <1>1, <1>2, <1>4, <1>5, <1>6, WatchKept

(* A commit that leaves every watch, after which its thread goes on. *)
LEMMA GoesElsewhere ==
  ASSUME IInv, PInv, NEW c \in Conns, Committed(c), UNCHANGED <<since, written, sub>>,
         pc[c] \in {"spawning", "enqueue", "step", "advance"},
         \A r \in job[c].adds \cup job[c].dels :
           /\ r[1] \notin PostRels
           /\ r[1] = "wdelivery" =>
                \E e, k : r = PlaceRow(e, k) /\ (r \in DOMAIN world \/ Reached(e, k)),
         NEW at \in {"bind", "position", "line"}, NEW f, f # NoOne,
         pc' = [pc EXCEPT ![c] = at], job' = [job EXCEPT ![c] = NoJob],
         who' = [who EXCEPT ![c] = f], who[c] # NoOne => who[c] = f
  PROVE  PInv'
<1>1. /\ CleanPost(c)
      /\ \A e : Unwatched(e) => Unwatched(e)'
      /\ \A e : Watched(e) => Watched(e)'
      /\ \A e, k : Reached(e, k) => Reached(e, k)'
  BY ElsewhereCommit
<1>2. TypeOK /\ Post(c)
  BY DEF IInv, PInv
<1>3. /\ pc'[c] = at /\ who'[c] = f /\ sub'[c] = sub[c] /\ \A d \in Conns \ {c} : Still(d)
  BY <1>2 DEF TypeOK, Still
<1>4. Follows(c)'
  <2>1. at \notin Outside /\ at \notin {"watch", "install"}
    BY DEF Outside
  <2>2. sub[c] => who[c] = f /\ Watched(f)
    BY <1>2 DEF Post, Follows
  <2>3. sub[c] => Watched(f)'
    BY <1>1, <2>2
  <2> QED BY <1>3, <2>1, <2>3 DEF Follows
<1>5. Carries(c)'
  <2>1. pc'[c] \notin Loaded
    BY <1>3 DEF Loaded
  <2> QED BY <2>1, CarriesNothing
<1>6. Post(c)'
  BY <1>4, <1>5 DEF Post
<1>7. Maps'
  BY DEF PInv, Maps, Ids
<1>8. ASSUME NEW d \in Conns \ {c}, pc[d] \in {"watch", "install"}, NEW e, e = who[d]
      PROVE  Unwatched(e)'
  <2>1. Post(d)
    BY DEF PInv
  <2> QED BY <1>1, <1>8, <2>1 DEF Post, Follows
<1>9. ASSUME NEW r \in job[c].adds \cup job[c].dels, r[1] = "wdelivery"
      PROVE  \E e, k : r = PlaceRow(e, k) /\ (r \in DOMAIN world \/ Reached(e, k)')
  BY <1>1, <1>9
<1> QED
  BY <1>1, <1>3, <1>6, <1>7, <1>8, <1>9, PostsCommit

(* A birth, a line, and a message handled touch no watch. *)
LEMMA BirthPosts ==
  ASSUME IInv, PInv, NEW c \in Conns, SpawnCommit(c) \/ EnqueueCommit(c) \/ StepCommit(c)
  PROVE  PInv'
<1>1. Committed(c) /\ pc[c] \in {"spawning", "enqueue", "step"} /\ UNCHANGED <<since, written, sub>>
  BY DEF SpawnCommit, EnqueueCommit, StepCommit, history
<1>2. TypeOK /\ Post(c)
  BY DEF IInv, PInv
<1>3. Posted(job[c].adds) = {} /\ Posted(job[c].dels) = {}
  BY <1>1, <1>2 DEF Post, Carries
<1>4. \A r \in job[c].adds \cup job[c].dels : r[1] \notin PostRels /\ r[1] # "wdelivery"
  BY <1>3 DEF Posted
<1>5. job' = [job EXCEPT ![c] = NoJob]
  BY DEF SpawnCommit, EnqueueCommit, StepCommit, Drop, Propose
<1>6. CASE SpawnCommit(c)
  <2>1. PICK k \in Nat \ {0} : Numbered(k)
    BY DEF IInv
  <2>2. PICK f : f = job[c].at
    OBVIOUS
  <2>3. f \in Nat \ {0}
    <3>1. pc[c] = "spawning"
      BY <1>6 DEF SpawnCommit
    <3>2. Spawning(c, k)
      BY <2>1, <3>1 DEF Numbered, Fits
    <3> QED BY <2>2, <3>2 DEF Spawning
  <2>4. pc' = [pc EXCEPT ![c] = "bind"] /\ who' = [who EXCEPT ![c] = f]
    BY <1>6, <2>2 DEF SpawnCommit, Begin
  <2>5. who[c] = NoOne
    BY <1>2, <1>6 DEF Post, Follows, Outside, SpawnCommit
  <2>6. f # NoOne
    BY <2>3 DEF NoOne
  <2> QED BY <1>1, <1>4, <1>5, <2>4, <2>5, <2>6, GoesElsewhere
<1>7. CASE EnqueueCommit(c) \/ StepCommit(c)
  <2>1. PICK f : f = who[c]
    OBVIOUS
  <2>2. pc' = [pc EXCEPT ![c] = "position"] /\ who' = who /\ pc[c] \in {"enqueue", "step"}
    BY <1>7 DEF EnqueueCommit, StepCommit, Begin
  <2>3. f # NoOne
    BY <1>2, <2>1, <2>2 DEF Post, Follows, Outside
  <2>4. who' = [who EXCEPT ![c] = f]
    BY <1>2, <2>1, <2>2 DEF TypeOK
  <2> QED BY <1>1, <1>4, <1>5, <2>1, <2>2, <2>3, <2>4, GoesElsewhere
<1> QED
  BY <1>6, <1>7

(* A delivery's new place was reached by what was written to the socket. *)
LEMMA DeliveryPosts ==
  ASSUME IInv, PInv, NEW c \in Conns, DeliveryCommit(c)
  PROVE  PInv'
<1>1. /\ Committed(c) /\ pc[c] = "advance" /\ UNCHANGED <<since, written, sub, who>>
      /\ pc' = [pc EXCEPT ![c] = "line"] /\ job' = [job EXCEPT ![c] = NoJob]
  BY DEF DeliveryCommit, Drop, Propose, Begin, history
<1>2. TypeOK /\ Post(c)
  BY DEF IInv, PInv
<1>3. PICK f, p : f = who[c] /\ p = job[c]
  OBVIOUS
<1>4. Advances(p, f)
  BY <1>1, <1>2, <1>3 DEF Post, Carries
<1>5. PICK k \in Nat : Reached(f, k) /\ Posted(p.adds) = {PlaceRow(f, k)}
  BY <1>4 DEF Advances
<1>6. PICK q \in Nat : Posted(p.dels) \subseteq {PlaceRow(f, q)}
  BY <1>4 DEF Advances
<1>7. ASSUME NEW r \in p.adds \cup p.dels, r[1] \in PostRels \cup {"wdelivery"}
      PROVE  \/ r = PlaceRow(f, k)
             \/ r = PlaceRow(f, q) /\ r \in DOMAIN world
  <2>1. CASE r \in p.adds
    BY <1>5, <1>7, <2>1 DEF Posted
  <2>2. CASE r \in p.dels
    <3>1. r = PlaceRow(f, q)
      BY <1>6, <1>7, <2>2 DEF Posted
    <3>2. r \in p.pre
      BY <1>4, <2>2 DEF Advances
    <3>3. Weight(world, r) > 0
      BY <1>1, <1>3, <3>2 DEF Committed, Holds
    <3> QED BY <3>1, <3>3 DEF Weight
  <2> QED BY <1>7, <2>1, <2>2
<1>8. \A n : PlaceRow(f, n)[1] = "wdelivery"
  BY DEF PlaceRow
<1>9. "wdelivery" \notin PostRels
  BY DEF PostRels
<1>10. \A r \in p.adds \cup p.dels :
         /\ r[1] \notin PostRels
         /\ r[1] = "wdelivery" =>
              \E e, n : r = PlaceRow(e, n) /\ (r \in DOMAIN world \/ Reached(e, n))
  BY <1>5, <1>7, <1>8, <1>9
<1>11. f # NoOne /\ who' = [who EXCEPT ![c] = f]
  BY <1>1, <1>2, <1>3 DEF Post, Follows, Outside, TypeOK
<1> QED
  BY <1>1, <1>3, <1>10, <1>11, GoesElsewhere

(* A subscription is made once: no other thread was making it. *)
LEMMA InstallPosts ==
  ASSUME IInv, PInv, OneSubscriber, NEW c \in Conns, Install(c)
  PROVE  PInv'
<1>1. /\ Committed(c) /\ pc[c] = "install" /\ UNCHANGED <<written, who>>
      /\ pc' = [pc EXCEPT ![c] = "line"] /\ job' = [job EXCEPT ![c] = NoJob]
      /\ sub' = [sub EXCEPT ![c] = TRUE]
  BY DEF Install, Drop, Propose, Begin
<1>2. TypeOK /\ OncePosted /\ Maps /\ Post(c) /\ (\E S : log \in Seq(S)) /\ Current \in Nat
  BY DEF IInv, PInv, Current
<1>3. PICK f \in Nat \ {0} : f = who[c]
  BY <1>1, PlayersNumber DEF Outside
<1>4. PICK p, at : p = job[c] /\ at = p.at
  OBVIOUS
<1>5. /\ at \in 1 .. Current
      /\ Posted(p.adds) = {WatchRow(f, at), CountRow(f, 0)} /\ Posted(p.dels) = {}
  BY <1>1, <1>2, <1>3, <1>4 DEF Post, Carries, Installs
<1>6. Unwatched(f)
  BY <1>1, <1>2, <1>3 DEF Post, Follows
<1>7. WatchRow(f, at)[1] = "wcursor" /\ CountRow(f, 0)[1] = "wseq" /\
      WatchRow(f, at)[2] = f /\ CountRow(f, 0)[2] = f
  BY DEF WatchRow, CountRow
<1>8. ASSUME NEW r, r[1] \in PostRels \cup {"wdelivery"}
      PROVE  /\ r \in p.adds <=> r = WatchRow(f, at) \/ r = CountRow(f, 0)
             /\ r \notin p.dels
  BY <1>5, <1>8 DEF Posted
<1>9. WatchRow(f, at) \notin DOMAIN world /\ CountRow(f, 0) \notin DOMAIN world
  BY <1>6, <1>7 DEF Unwatched, At
<1>10. CleanPost(c)
  BY <1>4, <1>8, <1>9 DEF CleanPost
<1>11. \A r : r[1] \in PostRels =>
         (r \in DOMAIN world' <=>
            r \in DOMAIN world \/ r = WatchRow(f, at) \/ r = CountRow(f, 0))
  BY <1>1, <1>2, <1>4, <1>8, <1>10, PostCommit
<1>12. LogGrows /\ Current' \in Nat /\ Current <= Current'
  <2>1. LogGrows
    BY <1>1 DEF LogGrows, Committed
  <2> QED BY <1>2, <2>1, LogOnward
<1>13. since' = [since EXCEPT ![f] = IF @ = 0 THEN at ELSE Min({@, at})]
  BY <1>3, <1>4 DEF Install
<1>14. DOMAIN since' = Ids /\ since' = [e \in Ids |-> since'[e]]
       /\ (f \in Ids => since'[f] = at) /\ \A e \in Ids : e # f => since'[e] = since[e]
  <2>1. DOMAIN since = Ids
    BY <1>2 DEF Maps
  <2>2. f \in Ids => since[f] = 0
    BY <1>6 DEF Unwatched
  <2> QED BY <1>13, <2>1, <2>2
<1>15. Maps'
  BY <1>1, <1>2, <1>14 DEF Maps, Ids
<1>16. ASSUME NEW e, e # f PROVE SameBox(e)
  <2>1. ASSUME NEW rel \in PostRels PROVE At(rel, e)' = At(rel, e)
    BY <1>7, <1>11, <1>16, <2>1 DEF At
  <2> QED BY <1>14, <1>16, <2>1 DEF SameBox, PostRels
<1>17. WatchedTo(f, at, 0)'
  <2>1. /\ At("wcursor", f)' = {WatchRow(f, at)} /\ At("wseq", f)' = {CountRow(f, 0)}
        /\ At("wmail", f)' = {}
    BY <1>6, <1>7, <1>11 DEF At, Unwatched, PostRels
  <2>2. Box(f, 0)'
    BY <2>1 DEF Box
  <2>3. Mailed(f, at)'
    <3>1. f \in Ids => since'[f] \in 1 .. at /\ since'[f] + 1 .. at = {}
      BY <1>5, <1>14
    <3> QED BY <3>1 DEF Mailed, Ids
  <2>4. at <= Current'
    BY <1>2, <1>5, <1>12
  <2> QED BY <2>1, <2>2, <2>3, <2>4 DEF WatchedTo
<1>18. Watched(f)'
  <2>1. at \in Nat /\ 0 \in Nat
    BY <1>5
  <2> QED BY <1>17, <2>1 DEF Watched
<1>19. \A e : Watched(e) => Watched(e)'
  BY <1>2, <1>12, <1>16, <1>18, WatchKept
<1>20. \A e : Unwatched(e) => Unwatched(e)' \/ Watched(e)'
  BY <1>2, <1>12, <1>16, <1>18, WatchKept
<1>21. ASSUME NEW e, NEW k, Reached(e, k) PROVE Reached(e, k)'
  <2>1. \A s : CountRow(e, s) \in DOMAIN world => CountRow(e, s) \in DOMAIN world'
    BY <1>11 DEF CountRow, PostRels
  <2> QED BY <1>1, <1>21, <2>1 DEF Reached, Ids
<1>22. pc'[c] = "line" /\ who'[c] = f /\ \A d \in Conns \ {c} : Still(d)
  BY <1>1, <1>2, <1>3 DEF TypeOK, Still, Maps
<1>23. Follows(c)'
  <2>1. "line" \notin Outside /\ "line" \notin {"watch", "install"} /\ f # NoOne
    BY DEF Outside, NoOne
  <2> QED BY <1>18, <1>22, <2>1 DEF Follows
<1>24. Carries(c)'
  BY <1>22, CarriesNothing DEF Loaded
<1>25. Post(c)'
  BY <1>23, <1>24 DEF Post
<1>26. ASSUME NEW d \in Conns \ {c}, pc[d] \in {"watch", "install"}, NEW e, e = who[d]
       PROVE  Unwatched(e)'
  <2>1. e # f
    BY <1>1, <1>3, <1>26 DEF OneSubscriber, Subscribing
  <2>2. Post(d)
    BY DEF PInv
  <2>3. Unwatched(e)
    BY <1>26, <2>2 DEF Post, Follows
  <2> QED BY <1>2, <1>12, <1>16, <2>1, <2>3, WatchKept
<1>27. \A r \in job[c].adds \cup job[c].dels : r[1] # "wdelivery"
  BY <1>4, <1>7, <1>8
<1> QED
  BY <1>1, <1>10, <1>15, <1>19, <1>20, <1>21, <1>22, <1>25, <1>26, <1>27, PostsCommit

-----------------------------------------------------------------------------
(* What a pump commits.                                                    *)

(* Numbering a set of numbers in order uses each number below its size     *)
(* once.                                                                   *)
LEMMA Ranks ==
  ASSUME NEW S \in SUBSET Nat, IsFiniteSet(S)
  PROVE  LET place(x) == Cardinality({y \in S : y < x})
             N == Cardinality(S)
         IN  /\ N \in Nat
             /\ \A x \in S : place(x) \in 0 .. N - 1
             /\ \A x, y \in S : place(x) = place(y) => x = y
             /\ \A n \in 0 .. N - 1 : \E x \in S : place(x) = n
<1> DEFINE below(x) == {y \in S : y < x}
           place(x) == Cardinality(below(x))
           N == Cardinality(S)
<1>1. N \in Nat
  BY FS_CardinalityType
<1>2. ASSUME NEW x \in S
      PROVE  /\ IsFiniteSet(below(x)) /\ place(x) \in Nat /\ x \notin below(x)
             /\ Cardinality(below(x) \cup {x}) = place(x) + 1
  <2>1. below(x) \in SUBSET S /\ x \notin below(x)
    OBVIOUS
  <2>2. IsFiniteSet(below(x))
    <3> HIDE DEF below
    <3> QED BY <2>1, FS_Subset
  <2>3. place(x) \in Nat
    <3> HIDE DEF below
    <3> QED BY <2>2, FS_CardinalityType
  <2>4. Cardinality(below(x) \cup {x}) = place(x) + 1
    <3> HIDE DEF below
    <3> QED BY <2>1, <2>2, FS_AddElement
  <2> QED BY <2>1, <2>2, <2>3, <2>4
<1>3. ASSUME NEW x \in S PROVE place(x) \in 0 .. N - 1
  <2>1. below(x) \cup {x} \in SUBSET S
    OBVIOUS
  <2>2. Cardinality(below(x) \cup {x}) <= N
    <3> HIDE DEF below
    <3> QED BY <2>1, FS_Subset
  <2>3. place(x) \in Nat /\ N \in Nat
    BY <1>1, <1>2
  <2>4. place(x) + 1 <= N
    BY <1>2, <2>2
  <2> HIDE DEF N, place
  <2> QED BY <2>3, <2>4
<1>4. ASSUME NEW x \in S, NEW y \in S, x < y PROVE place(x) < place(y)
  <2>1. below(x) \cup {x} \in SUBSET below(y)
    <3>1. x \in Nat /\ y \in Nat /\ x \in below(y)
      BY <1>4
    <3>2. ASSUME NEW z \in below(x) PROVE z \in below(y)
      <4>1. z \in S /\ z \in Nat /\ z < x
        OBVIOUS
      <4>2. z < y
        BY <1>4, <3>1, <4>1
      <4> QED BY <4>1, <4>2
    <3> HIDE DEF below
    <3> QED BY <3>1, <3>2
  <2>2. Cardinality(below(x) \cup {x}) <= place(y)
    <3>1. IsFiniteSet(below(y))
      BY <1>2
    <3> HIDE DEF below
    <3> QED BY <2>1, <3>1, FS_Subset
  <2>3. place(x) \in Nat /\ place(y) \in Nat /\ Cardinality(below(x) \cup {x}) = place(x) + 1
    BY <1>2
  <2> HIDE DEF place, below
  <2> QED BY <2>2, <2>3
<1>5. ASSUME NEW x \in S, NEW y \in S, place(x) = place(y) PROVE x = y
  <2>1. x \in Nat /\ y \in Nat
    OBVIOUS
  <2>2. ~ (x < y) /\ ~ (y < x)
    <3>1. place(x) \in Nat /\ place(y) \in Nat
      BY <1>2
    <3> HIDE DEF place
    <3> QED BY <1>4, <1>5, <3>1
  <2> QED BY <2>1, <2>2
<1> DEFINE f == [x \in S |-> place(x)]
           T == 0 .. N - 1
<1>6. f \in Injection(S, T)
  <2>1. f \in [S -> T]
    BY <1>3
  <2>2. \A x, y \in S : f[x] = f[y] => x = y
    <3>1. \A x \in S : f[x] = place(x)
      OBVIOUS
    <3> HIDE DEF place, f
    <3> QED BY <1>5, <3>1
  <2> HIDE DEF f, T
  <2> QED BY <2>1, <2>2 DEF Injection, IsInjective
<1>7. IsFiniteSet(T) /\ Cardinality(T) = N
  <2>1. IsFiniteSet(0 .. N - 1) /\ Cardinality(0 .. N - 1) = IF 0 > N - 1 THEN 0 ELSE N - 1 - 0 + 1
    BY <1>1, FS_Interval
  <2> HIDE DEF N
  <2> QED BY <1>1, <2>1
<1>8. f \in Surjection(S, T)
  <2> HIDE DEF f, T
  <2> QED BY <1>6, <1>7, FS_Injection
<1>9. ASSUME NEW n \in T PROVE \E x \in S : place(x) = n
  <2>1. \E x \in S : f[x] = n
    <3> HIDE DEF f, T
    <3> QED BY <1>8 DEF Surjection
  <2> QED BY <2>1
<1> QED
  BY <1>1, <1>3, <1>5, <1>9

(* The entities some editions named are finitely many numbers. *)
LEMMA NamesFinite ==
  ASSUME IInv, NamesLogged, Current \in Nat, NEW w \in Nat, NEW to \in Nat, to <= Current
  PROVE  NewNames(w, to) \in SUBSET Nat /\ IsFiniteSet(NewNames(w, to))
<1>1. PICK k \in Nat \ {0} : GivenTo(k)
  BY DEF IInv, Numbered
<1>2. ASSUME NEW x \in NewNames(w, to) PROVE x \in 1 .. k - 1
  <2>1. PICK i \in w + 1 .. to : \E r \in log[i] : r[1] = "named" /\ r[2] = x
    BY DEF NewNames
  <2>2. PICK r \in log[i] : r[1] = "named" /\ r[2] = x
    BY <2>1
  <2>3. i \in 1 .. Current
    OBVIOUS
  <2>4. r \in Rows("named")
    BY <2>2, <2>3 DEF NamesLogged, Rows
  <2>5. PICK e \in 1 .. k - 1 : r = NamedRow(e)
    BY <1>1, <2>4 DEF GivenTo
  <2> QED BY <2>2, <2>5 DEF NamedRow
<1>3. NewNames(w, to) \in SUBSET (1 .. k - 1)
  BY <1>2
<1>4. IsFiniteSet(1 .. k - 1)
  BY FS_Interval
<1> QED
  BY <1>3, <1>4, FS_Subset

(* The changes a pump appends follow those of before, without a gap, and   *)
(* are those of the editions its cursor passes.                            *)
LEMMA PumpCommitPosts ==
  ASSUME IInv, PInv, NEW c \in Conns, PumpCommit(c)
  PROVE  PInv'
<1>1. /\ Committed(c) /\ pc[c] = "pump" /\ UNCHANGED <<since, written, sub, who>>
      /\ pc' = [pc EXCEPT ![c] = "delivery"] /\ job' = [job EXCEPT ![c] = NoJob]
  BY DEF PumpCommit, Drop, Propose, Begin, history
<1>2. /\ TypeOK /\ OncePosted /\ NamesLogged /\ Maps /\ Post(c)
      /\ (\E S : log \in Seq(S)) /\ Current \in Nat
  BY DEF IInv, PInv, Current
<1>3. PICK f \in Nat \ {0} : f = who[c]
  BY <1>1, PlayersNumber DEF Outside
<1>4. PICK p : p = job[c]
  OBVIOUS
<1>5. Pumped(p, f)
  BY <1>1, <1>2, <1>3, <1>4 DEF Post, Carries
<1>6. PICK w \in Nat, s \in Nat, to \in Nat :
        to \in w + 1 .. Current /\ PumpOf(p, f, w, s, to, NewNames(w, to))
  BY <1>5 DEF Pumped
<1>7. PICK new : new = NewNames(w, to)
  OBVIOUS
<1>8. new \in SUBSET Nat /\ IsFiniteSet(new) /\ new # {}
  <2>1. new \in SUBSET Nat /\ IsFiniteSet(new)
    BY <1>2, <1>6, <1>7, NamesFinite
  <2> QED BY <1>6, <1>7, <2>1 DEF PumpOf
<1>9. PICK m : m = Cardinality(new)
  OBVIOUS
<1>10. PICK place : place = [x \in new |-> Cardinality({y \in new : y < x})]
  OBVIOUS
<1>11. /\ m \in Nat
       /\ \A x \in new : place[x] \in 0 .. m - 1
       /\ \A x, y \in new : place[x] = place[y] => x = y
       /\ \A n \in 0 .. m - 1 : \E x \in new : place[x] = n
  <2>1. LET at(x) == Cardinality({y \in new : y < x})
            N == Cardinality(new)
        IN  /\ N \in Nat
            /\ \A x \in new : at(x) \in 0 .. N - 1
            /\ \A x, y \in new : at(x) = at(y) => x = y
            /\ \A n \in 0 .. N - 1 : \E x \in new : at(x) = n
    BY <1>8, Ranks
  <2>2. \A x \in new : place[x] = Cardinality({y \in new : y < x})
    BY <1>10
  <2> QED BY <1>9, <2>1, <2>2
<1>12. m > 0
  <2>1. PICK x \in new : TRUE
    BY <1>8
  <2>2. place[x] \in 0 .. m - 1
    BY <1>11
  <2> QED BY <1>11, <2>2
<1>13. /\ {WatchRow(f, w), CountRow(f, s)} \subseteq p.pre
       /\ Posted(p.dels) = {WatchRow(f, w), CountRow(f, s)}
       /\ Posted(p.adds) = {WatchRow(f, to), CountRow(f, s + m)}
                              \cup {PostRow(f, s + place[x], x) : x \in new}
  <2>1. \A x \in new : place[x] = Cardinality({y \in new : y < x})
    BY <1>10
  <2>2. {PostRow(f, s + place[x], x) : x \in new}
          = {PostRow(f, s + Cardinality({y \in new : y < x}), x) : x \in new}
    BY <2>1
  <2> QED BY <1>6, <1>7, <1>9, <2>2 DEF PumpOf
<1>14. PICK mail : mail = {PostRow(f, s + place[x], x) : x \in new}
  OBVIOUS
<1>15. /\ \A n : WatchRow(f, n)[1] = "wcursor" /\ WatchRow(f, n)[2] = f /\ WatchRow(f, n)[3] = n
       /\ \A n : CountRow(f, n)[1] = "wseq" /\ CountRow(f, n)[2] = f /\ CountRow(f, n)[3] = n
       /\ \A n, x : /\ PostRow(f, n, x)[1] = "wmail" /\ PostRow(f, n, x)[2] = f
                    /\ PostRow(f, n, x)[3] = n /\ PostRow(f, n, x)[4] = x
  BY DEF WatchRow, CountRow, PostRow
<1>16. \A r \in mail : r[1] = "wmail" /\ r[2] = f
  <2>1. ASSUME NEW x \in new
        PROVE  PostRow(f, s + place[x], x)[1] = "wmail" /\ PostRow(f, s + place[x], x)[2] = f
    BY <1>15
  <2> QED BY <1>14, <2>1
<1>17. ASSUME NEW n, NEW x
       PROVE  PostRow(f, n, x) \in mail <=> x \in new /\ n = s + place[x]
  <2>1. ASSUME NEW y \in new, PostRow(f, n, x) = PostRow(f, s + place[y], y)
        PROVE  x = y /\ n = s + place[y]
    BY <1>15, <2>1
  <2> QED BY <1>14, <2>1
<1>18. WatchRow(f, w) \in DOMAIN world /\ CountRow(f, s) \in DOMAIN world
  <2>1. Weight(world, WatchRow(f, w)) > 0 /\ Weight(world, CountRow(f, s)) > 0
    BY <1>1, <1>4, <1>13 DEF Committed, Holds
  <2> QED BY <2>1 DEF Weight
<1>19. WatchedTo(f, w, s)
  <2>1. ~ Unwatched(f)
    BY <1>15, <1>18 DEF Unwatched, At
  <2>2. PICK w0 \in Nat, s0 \in Nat : WatchedTo(f, w0, s0)
    BY <2>1 DEF PInv, Watched
  <2>3. WatchRow(f, w) = WatchRow(f, w0) /\ CountRow(f, s) = CountRow(f, s0)
    BY <1>15, <1>18, <2>2 DEF WatchedTo, At
  <2>4. w = w0 /\ s = s0
    BY <2>3 DEF WatchRow, CountRow
  <2> QED BY <2>2, <2>4
<1>20. ASSUME NEW r, r[1] \in PostRels \cup {"wdelivery"}
       PROVE  /\ r \in job[c].adds <=> r = WatchRow(f, to) \/ r = CountRow(f, s + m) \/ r \in mail
              /\ r \in job[c].dels <=> r = WatchRow(f, w) \/ r = CountRow(f, s)
  <2>1. r \in p.adds <=> r \in Posted(p.adds)
    BY <1>20 DEF Posted
  <2>2. r \in p.dels <=> r \in Posted(p.dels)
    BY <1>20 DEF Posted
  <2>3. Posted(p.adds) = {WatchRow(f, to), CountRow(f, s + m)} \cup mail
    BY <1>13, <1>14
  <2> QED BY <1>4, <1>13, <2>1, <2>2, <2>3
<1>21. to # w /\ s + m # s /\ to \in Nat
  BY <1>6, <1>11, <1>12
<1>22. /\ WatchRow(f, to) # WatchRow(f, w) /\ CountRow(f, s + m) # CountRow(f, s)
       /\ WatchRow(f, to) \notin DOMAIN world /\ CountRow(f, s + m) \notin DOMAIN world
  <2>1. WatchRow(f, to) # WatchRow(f, w) /\ CountRow(f, s + m) # CountRow(f, s)
    BY <1>15, <1>21
  <2>2. WatchRow(f, to) \in DOMAIN world => WatchRow(f, to) = WatchRow(f, w)
    BY <1>15, <1>19 DEF WatchedTo, At
  <2>3. CountRow(f, s + m) \in DOMAIN world => CountRow(f, s + m) = CountRow(f, s)
    BY <1>15, <1>19 DEF WatchedTo, At
  <2> QED BY <2>1, <2>2, <2>3
<1>23. ASSUME NEW n, NEW x, PostRow(f, n, x) \in DOMAIN world
       PROVE  n \in 0 .. s - 1 /\ x \in Nat
  <2>1. PostRow(f, n, x) \in At("wmail", f)
    BY <1>15, <1>23 DEF At
  <2>2. PICK i \in 0 .. s - 1, y \in Nat : PostRow(f, n, x) = PostRow(f, i, y)
    BY <1>19, <2>1 DEF WatchedTo, Box
  <2>3. n = i /\ x = y
    BY <2>2 DEF PostRow
  <2> QED BY <2>3
<1>24. \A r \in mail : r \notin DOMAIN world
  <2>1. ASSUME NEW x \in new, PostRow(f, s + place[x], x) \in DOMAIN world PROVE FALSE
    <3>1. s + place[x] \in 0 .. s - 1 /\ place[x] \in Nat
      BY <1>11, <1>23, <2>1
    <3> QED BY <3>1
  <2> QED BY <1>14, <2>1
<1>25. CleanPost(c)
  <2>1. ASSUME NEW r, r[1] \in PostRels, r \in job[c].adds
        PROVE  r \notin DOMAIN world /\ r \notin job[c].dels
    <3>1. r = WatchRow(f, to) \/ r = CountRow(f, s + m) \/ r \in mail
      BY <1>20, <2>1
    <3>2. r \notin DOMAIN world
      BY <1>22, <1>24, <3>1
    <3>3. r \in job[c].dels => r \in DOMAIN world
      BY <1>18, <1>20, <2>1
    <3> QED BY <3>2, <3>3
  <2>2. ASSUME NEW r, r[1] \in PostRels, r \in job[c].dels PROVE r \in DOMAIN world
    BY <1>18, <1>20, <2>2
  <2> QED BY <2>1, <2>2 DEF CleanPost
<1>26. ASSUME NEW r, r[1] \in PostRels
       PROVE  r \in DOMAIN world' <=>
                \/ r \in DOMAIN world /\ r # WatchRow(f, w) /\ r # CountRow(f, s)
                \/ r = WatchRow(f, to) \/ r = CountRow(f, s + m) \/ r \in mail
  <2>1. r \in DOMAIN world' <=> (r \in DOMAIN world /\ r \notin job[c].dels) \/ r \in job[c].adds
    BY <1>1, <1>2, <1>25, <1>26, PostCommit
  <2> QED BY <1>20, <1>26, <2>1
<1>27. /\ LogGrows /\ Current' \in Nat /\ Current <= Current'
       /\ \A i \in 1 .. Current : log'[i] = log[i]
  <2>1. LogGrows
    BY <1>1 DEF LogGrows, Committed
  <2> QED BY <1>2, <2>1, LogOnward
<1>28. ASSUME NEW e, e # f PROVE SameBox(e)
  <2>1. ASSUME NEW rel \in PostRels PROVE At(rel, e)' = At(rel, e)
    <3>1. ASSUME NEW r, r[1] = rel, r[2] = e PROVE r \in DOMAIN world' <=> r \in DOMAIN world
      <4>1. r # WatchRow(f, w) /\ r # CountRow(f, s) /\ r # WatchRow(f, to)
            /\ r # CountRow(f, s + m) /\ r \notin mail
        BY <1>15, <1>16, <1>28, <3>1
      <4> QED BY <1>26, <3>1, <4>1
    <3> QED BY <3>1 DEF At
  <2> QED BY <1>1, <2>1 DEF SameBox, PostRels
<1>29. ASSUME NEW n, NEW x
       PROVE  PostRow(f, n, x) \in DOMAIN world' <=>
                PostRow(f, n, x) \in DOMAIN world \/ (x \in new /\ n = s + place[x])
  <2>1. PostRow(f, n, x)[1] \in PostRels
    BY <1>15 DEF PostRels
  <2>2. /\ PostRow(f, n, x) # WatchRow(f, w) /\ PostRow(f, n, x) # CountRow(f, s)
        /\ PostRow(f, n, x) # WatchRow(f, to) /\ PostRow(f, n, x) # CountRow(f, s + m)
    BY <1>15
  <2> QED BY <1>17, <1>26, <2>1, <2>2
<1>30. At("wcursor", f)' = {WatchRow(f, to)} /\ At("wseq", f)' = {CountRow(f, s + m)}
  <2>1. \A r : r[1] = "wcursor" /\ r[2] = f => (r \in DOMAIN world <=> r = WatchRow(f, w))
    BY <1>15, <1>19 DEF WatchedTo, At
  <2>2. \A r : r[1] = "wseq" /\ r[2] = f => (r \in DOMAIN world <=> r = CountRow(f, s))
    BY <1>15, <1>19 DEF WatchedTo, At
  <2>3. ASSUME NEW r, r[1] = "wcursor", r[2] = f PROVE r \in DOMAIN world' <=> r = WatchRow(f, to)
    <3>1. r # CountRow(f, s) /\ r # CountRow(f, s + m) /\ r \notin mail
      BY <1>15, <1>16, <2>3
    <3> QED BY <1>26, <2>1, <2>3, <3>1 DEF PostRels
  <2>4. ASSUME NEW r, r[1] = "wseq", r[2] = f PROVE r \in DOMAIN world' <=> r = CountRow(f, s + m)
    <3>1. r # WatchRow(f, w) /\ r # WatchRow(f, to) /\ r \notin mail
      BY <1>15, <1>16, <2>4
    <3> QED BY <1>26, <2>2, <2>4, <3>1 DEF PostRels
  <2> QED BY <1>15, <2>3, <2>4 DEF At
<1>31. Box(f, s + m)'
  <2>1. PICK t \in Nat : t = s + m
    BY <1>11
  <2>2. ASSUME NEW r \in At("wmail", f)'
        PROVE  \E n \in 0 .. t - 1 : \E x \in Nat : r = PostRow(f, n, x)
    <3>1. r \in DOMAIN world' /\ r[1] = "wmail" /\ r[2] = f
      BY DEF At
    <3>2. CASE r \in DOMAIN world
      <4>1. PICK n \in 0 .. s - 1, x \in Nat : r = PostRow(f, n, x)
        BY <1>19, <3>1, <3>2 DEF WatchedTo, Box, At
      <4>2. n \in 0 .. t - 1
        BY <1>11, <2>1
      <4> QED BY <4>1, <4>2
    <3>3. CASE r \notin DOMAIN world
      <4>1. r \in mail
        BY <1>15, <1>26, <3>1, <3>3 DEF PostRels
      <4>2. PICK x \in new : r = PostRow(f, s + place[x], x)
        BY <1>14, <4>1
      <4>3. s + place[x] \in 0 .. t - 1
        BY <1>11, <2>1
      <4> QED BY <1>8, <4>2, <4>3
    <3> QED BY <3>2, <3>3
  <2>3. ASSUME NEW n \in 0 .. t - 1 PROVE \E x \in Nat : PostRow(f, n, x) \in DOMAIN world'
    <3>1. CASE n < s
      <4>1. PICK x \in Nat : PostRow(f, n, x) \in DOMAIN world
        BY <1>19, <3>1 DEF WatchedTo, Box
      <4> QED BY <1>29, <4>1
    <3>2. CASE n >= s
      <4>1. n - s \in 0 .. m - 1
        BY <1>11, <2>1, <3>2
      <4>2. PICK x \in new : place[x] = n - s
        BY <1>11, <4>1
      <4>3. n = s + place[x]
        BY <4>2
      <4> QED BY <1>8, <1>29, <4>3
    <3> QED BY <3>1, <3>2
  <2>4. ASSUME NEW n \in 0 .. t - 1, NEW x \in Nat, NEW y \in Nat,
               PostRow(f, n, x) \in DOMAIN world', PostRow(f, n, y) \in DOMAIN world'
        PROVE  x = y
    <3>1. CASE n < s
      <4>1. \A z \in new : n # s + place[z]
        BY <1>11, <3>1
      <4>2. PostRow(f, n, x) \in DOMAIN world /\ PostRow(f, n, y) \in DOMAIN world
        BY <1>29, <2>4, <4>1
      <4>3. n \in 0 .. s - 1
        BY <3>1
      <4> QED BY <1>19, <4>2, <4>3 DEF WatchedTo, Box
    <3>2. CASE n >= s
      <4>1. PostRow(f, n, x) \notin DOMAIN world /\ PostRow(f, n, y) \notin DOMAIN world
        BY <1>23, <3>2
      <4>2. x \in new /\ y \in new /\ n = s + place[x] /\ n = s + place[y]
        BY <1>29, <2>4, <4>1
      <4>3. place[x] \in Nat /\ place[y] \in Nat
        BY <1>11, <4>2
      <4>4. PICK i \in Nat, j \in Nat : i = place[x] /\ j = place[y]
        BY <4>3
      <4>5. place[x] = place[y]
        BY <4>2, <4>4
      <4> QED BY <1>11, <4>2, <4>5
    <3> QED BY <3>1, <3>2
  <2>5. Box(f, t)'
    BY <2>2, <2>3, <2>4, Zenon DEF Box
  <2> QED BY <2>1, <2>5
<1>32. ASSUME f \in Ids
       PROVE  /\ since'[f] \in 1 .. to
              /\ \A i \in since'[f] + 1 .. to : \A r \in log'[i] :
                   r[1] = "named" => \E n \in Nat : PostRow(f, n, r[2]) \in DOMAIN world'
  <2>1. since'[f] = since[f] /\ since[f] \in 1 .. w
    BY <1>1, <1>19, <1>32 DEF WatchedTo, Mailed
  <2>2. ASSUME NEW i \in since[f] + 1 .. to, NEW r \in log[i], r[1] = "named"
        PROVE  \E n \in Nat : PostRow(f, n, r[2]) \in DOMAIN world'
    <3>1. CASE i <= w
      <4>1. i \in since[f] + 1 .. w
        BY <2>1, <3>1
      <4>2. PICK n \in Nat : PostRow(f, n, r[2]) \in DOMAIN world
        BY <1>19, <1>32, <2>2, <4>1 DEF WatchedTo, Mailed
      <4> QED BY <1>29, <4>2
    <3>2. CASE i > w
      <4>1. i \in w + 1 .. to
        BY <2>1, <3>2
      <4>2. r[2] \in new
        BY <1>7, <2>2, <4>1 DEF NewNames
      <4>3. s + place[r[2]] \in Nat
        BY <1>11, <4>2
      <4> QED BY <1>29, <4>2, <4>3
    <3> QED BY <2>1, <3>1, <3>2
  <2>3. ASSUME NEW i \in since[f] + 1 .. to PROVE log'[i] = log[i]
    <3>1. PICK n \in Nat : n = Current
      BY <1>2
    <3>2. i \in 1 .. n
      BY <1>6, <2>1, <3>1
    <3> QED BY <1>27, <3>1, <3>2
  <2>4. since[f] \in 1 .. to
    BY <1>6, <2>1
  <2> QED BY <2>1, <2>2, <2>3, <2>4
<1>33. Mailed(f, to)'
  BY <1>32 DEF Mailed, Ids
<1>34. Watched(f)'
  <2>1. to <= Current' /\ s + m \in Nat
    BY <1>2, <1>6, <1>11, <1>27
  <2>2. WatchedTo(f, to, s + m)'
    BY <1>30, <1>31, <1>33, <2>1 DEF WatchedTo
  <2> QED BY <2>1, <2>2 DEF Watched
<1>35. \A e : Watched(e) => Watched(e)'
  BY <1>2, <1>27, <1>28, <1>34, WatchKept
<1>36. \A e : e # f /\ Unwatched(e) => Unwatched(e)'
  BY <1>2, <1>27, <1>28, WatchKept
<1>37. ~ Unwatched(f)
  BY <1>15, <1>18 DEF Unwatched, At
<1>38. ASSUME NEW e, NEW k, Reached(e, k) PROVE Reached(e, k)'
  <2>1. ASSUME NEW n \in Nat, k <= n, CountRow(e, n) \in DOMAIN world
        PROVE  \E i \in Nat : k <= i /\ CountRow(e, i) \in DOMAIN world'
    <3>0. k \in Nat
      BY <1>38 DEF Reached
    <3>1. CASE e = f
      <4>1. n = s
        <5>1. CountRow(f, n) = CountRow(f, s)
          BY <1>15, <1>19, <2>1, <3>1 DEF WatchedTo, At
        <5> QED BY <5>1 DEF CountRow
      <4>2. k <= s + m /\ s + m \in Nat
        BY <1>11, <2>1, <3>0, <4>1
      <4>3. CountRow(f, s + m) \in DOMAIN world'
        BY <1>30 DEF At
      <4> QED BY <3>1, <4>2, <4>3
    <3>2. CASE e # f
      <4>1. At("wseq", e)' = At("wseq", e)
        BY <1>28, <3>2 DEF SameBox
      <4>2. CountRow(e, n)[1] = "wseq" /\ CountRow(e, n)[2] = e
        BY DEF CountRow
      <4>3. CountRow(e, n) \in DOMAIN world'
        BY <2>1, <4>1, <4>2 DEF At
      <4> QED BY <2>1, <4>3
    <3> QED BY <3>1, <3>2
  <2> QED BY <1>1, <1>38, <2>1 DEF Reached, Ids
<1>39. pc'[c] = "delivery" /\ who'[c] = f /\ sub'[c] = sub[c] /\ \A d \in Conns \ {c} : Still(d)
  BY <1>1, <1>2, <1>3 DEF TypeOK, Still
<1>40. Follows(c)'
  <2>1. "delivery" \notin Outside /\ "delivery" \notin {"watch", "install"} /\ f # NoOne
    BY DEF Outside, NoOne
  <2> QED BY <1>34, <1>39, <2>1 DEF Follows
<1>41. Carries(c)'
  BY <1>39, CarriesNothing DEF Loaded
<1>42. Post(c)'
  BY <1>40, <1>41 DEF Post
<1>43. Maps'
  BY <1>1, <1>2 DEF Maps, Ids
<1>44. ASSUME NEW d \in Conns \ {c}, pc[d] \in {"watch", "install"}, NEW e, e = who[d]
       PROVE  Unwatched(e)'
  <2>1. Post(d)
    BY DEF PInv
  <2>2. Unwatched(e)
    BY <1>44, <2>1 DEF Post, Follows
  <2> QED BY <1>36, <1>37, <2>2
<1>45. \A r \in job[c].adds \cup job[c].dels : r[1] # "wdelivery"
  BY <1>15, <1>16, <1>20
<1>46. \A e \in Nat : Unwatched(e) => Unwatched(e)' \/ Watched(e)'
  BY <1>36, <1>37
<1> QED
  BY <1>1, <1>25, <1>35, <1>38, <1>39, <1>42, <1>43, <1>44, <1>45, <1>46, PostsCommit

-----------------------------------------------------------------------------
(* The whole of it. *)

(* Before anybody logs in nobody is watching. *)
LEMMA InitPosts == Init => PInv
<1> SUFFICES ASSUME Init PROVE PInv
  OBVIOUS
<1>1. DOMAIN world = {IdRow(1)} /\ IdRow(1)[1] = "ids"
  BY DEF Init, IdRow
<1>2. log = <<{}>> /\ Current = 1 /\ log[1] = {}
  BY DEF Init, Current
<1>3. \E S : log \in Seq(S)
  <2>1. log \in Seq({{}})
    BY <1>2
  <2> QED BY <2>1
<1>4. Maps
  BY DEF Maps, Init
<1>5. OncePosted /\ Places
  BY <1>1 DEF OncePosted, Places, PostRels
<1>6. NamesLogged
  BY <1>2 DEF NamesLogged
<1>7. ASSUME NEW e \in Nat PROVE Unwatched(e)
  <2>1. At("wcursor", e) = {} /\ At("wseq", e) = {} /\ At("wmail", e) = {}
    BY <1>1 DEF At
  <2>2. e \in Ids => since[e] = 0
    BY DEF Init
  <2> QED BY <2>1, <2>2 DEF Unwatched
<1>8. ASSUME NEW c \in Conns PROVE Post(c)
  <2>1. pc[c] = "closed" /\ who[c] = NoOne /\ ~ sub[c]
    BY <1>8 DEF Init
  <2> QED BY <2>1 DEF Post, Carries, Follows, Outside
<1> QED
  BY <1>2, <1>3, <1>4, <1>5, <1>6, <1>7, <1>8 DEF PInv

(* Every step keeps PInv while one connection at a time subscribes a       *)
(* player.                                                                 *)
LEMMA NextPosts == IInv /\ PInv /\ OneSubscriber /\ [Next]_vars => PInv'
<1> SUFFICES ASSUME IInv, PInv, OneSubscriber, [Next]_vars PROVE PInv'
  OBVIOUS
<1>0. TypeOK
  BY DEF IInv
<1>1. CASE Crash
  <2> DEFINE S == {c \in Conns : pc[c] # "closed"}
  <2>1. S \in SUBSET Conns /\ Forget(S) /\ UNCHANGED <<world, log, since, written>>
    BY <1>1 DEF Crash
  <2> HIDE DEF S
  <2>2. Fills /\ written' = [e \in Ids |-> written'[e]]
    BY <2>1 DEF Fills, PInv, Maps
  <2> QED BY <1>0, <2>1, <2>2, PostsEnd
<1>2. ASSUME NEW c \in Conns, Login(c) PROVE PInv'
  BY <1>2, LoginPosts, BirthPosts
<1>3. ASSUME NEW c \in Conns, Answer(c) PROVE PInv'
  BY <1>3, AnswerPosts, BirthPosts
<1>4. ASSUME NEW c \in Conns, Push(c) PROVE PInv'
  BY <1>4, PushQuietPosts, InstallPosts, PumpCommitPosts, DeliveryPosts
<1>5. CASE UNCHANGED vars
  <2>1. UNCHANGED <<world, log, since, written, pc, who, job, sub>>
    BY <1>5 DEF vars, mine, history
  <2>2. Fills /\ Maps'
    BY <2>1 DEF Fills, PInv, Maps
  <2>3. /\ LogGrows /\ (\E S : log' \in Seq(S)) /\ Current' >= 1
        /\ OncePosted' /\ Places' /\ NamesLogged'
        /\ \A e : Unwatched(e) => Unwatched(e)'
        /\ \A e : Watched(e) => Watched(e)'
        /\ \A e, k : Reached(e, k) => Reached(e, k)'
    BY <2>1, <2>2, StillWatch
  <2>4. ASSUME NEW d \in Conns PROVE Post(d)'
    <3>1. Post(d) /\ Still(d)
      BY <2>1 DEF PInv, Still
    <3>2. \E S : log \in Seq(S)
      BY DEF PInv
    <3>3. ASSUME pc[d] \in {"watch", "install"}, NEW e, e = who[d] PROVE Unwatched(e)'
      <4>1. Unwatched(e)
        BY <3>1, <3>3 DEF Post, Follows
      <4> QED BY <2>3, <4>1
    <3> QED BY <2>3, <3>1, <3>2, <3>3, PostKept
  <2>5. \A e \in Nat : Unwatched(e)' \/ Watched(e)'
    BY <2>3 DEF PInv
  <2> QED BY <2>2, <2>3, <2>4, <2>5 DEF PInv
<1> QED
  BY <1>1, <1>2, <1>3, <1>4, <1>5 DEF Next

(* A mail that numbers its changes below s holds s of them. *)
LEMMA MailCounts ==
  ASSUME NEW e, NEW s \in Nat, Box(e, s)
  PROVE  Cardinality(At("wmail", e)) = s
<1> DEFINE T == 0 .. s - 1
           M == At("wmail", e)
           row(n) == CHOOSE r \in M : r[3] = n
           g == [n \in T |-> row(n)]
<1>1. \A n, x : /\ PostRow(e, n, x)[1] = "wmail" /\ PostRow(e, n, x)[2] = e
                /\ PostRow(e, n, x)[3] = n
  BY DEF PostRow
<1>2. ASSUME NEW n \in T PROVE row(n) \in M /\ row(n)[3] = n
  <2>1. PICK x \in Nat : PostRow(e, n, x) \in DOMAIN world
    BY DEF Box
  <2>2. PostRow(e, n, x) \in M /\ PostRow(e, n, x)[3] = n
    BY <1>1, <2>1 DEF At
  <2> HIDE DEF M
  <2> QED BY <2>2
<1>3. ASSUME NEW r \in M PROVE \E n \in T : r = row(n)
  <2>1. PICK n \in T, x \in Nat : r = PostRow(e, n, x)
    BY DEF Box
  <2>2. row(n) \in M /\ row(n)[3] = n
    BY <1>2
  <2>3. PICK i \in T, y \in Nat : row(n) = PostRow(e, i, y)
    BY <2>2 DEF Box
  <2>4. i = n
    BY <1>1, <2>2, <2>3
  <2>5. PostRow(e, n, x) \in DOMAIN world /\ PostRow(e, n, y) \in DOMAIN world
    BY <2>1, <2>2, <2>3, <2>4 DEF At
  <2>6. x = y
    BY <2>5 DEF Box
  <2> QED BY <2>1, <2>3, <2>4, <2>6
<1> HIDE DEF M, row
<1>4. g \in Injection(T, M)
  <2>1. g \in [T -> M]
    BY <1>2
  <2>2. \A n, k \in T : g[n] = g[k] => n = k
    <3>1. \A n \in T : g[n] = row(n)
      OBVIOUS
    <3> HIDE DEF g, T
    <3> QED BY <1>2, <3>1
  <2> HIDE DEF g, T
  <2> QED BY <2>1, <2>2 DEF Injection, IsInjective
<1>5. g \in Surjection(T, M)
  <2>1. g \in [T -> M]
    BY <1>2
  <2>2. \A r \in M : \E n \in T : g[n] = r
    BY <1>3
  <2> HIDE DEF g, T
  <2> QED BY <2>1, <2>2 DEF Surjection
<1>6. IsFiniteSet(T) /\ Cardinality(T) = s
  <2>1. IsFiniteSet(0 .. s - 1) /\ Cardinality(0 .. s - 1) = IF 0 > s - 1 THEN 0 ELSE s - 1 - 0 + 1
    BY FS_Interval
  <2> QED BY <2>1
<1>7. g \in Bijection(T, M)
  <2> HIDE DEF g, T
  <2> QED BY <1>4, <1>5 DEF Bijection
<1>8. ExistsBijection(T, M)
  <2> HIDE DEF g, T
  <2> QED BY <1>7 DEF ExistsBijection
<1>9. Cardinality(M) = Cardinality(T)
  <2> HIDE DEF g, T
  <2> QED BY <1>6, <1>8, FS_Bijection
<1> QED
  BY <1>6, <1>9 DEF M

(* The invariant says what was to be shown. *)
LEMMA PostsSkipNothing == PInv => NothingSkipped
<1> SUFFICES ASSUME PInv, NEW e \in Ids, since[e] > 0
             PROVE  /\ Numbers("wmail", e) = 0 .. Cardinality(Held("wmail", e)) - 1
                    /\ \A i \in since[e] + 1 .. Cursor("wcursor", e) : \A r \in log[i] :
                         r[1] = "named" => \E m \in Held("wmail", e) : m[4] = r[2]
                    /\ \A k \in Numbers("wdelivery", e) : 0 .. k - 1 \subseteq written[e]
  BY DEF NothingSkipped
<1>1. e \in Nat
  BY SessionsAssumption DEF Ids
<1>2. ~ Unwatched(e)
  BY DEF Unwatched
<1>3. PICK w \in Nat, s \in Nat : WatchedTo(e, w, s)
  BY <1>1, <1>2 DEF PInv, Watched
<1>4. OncePosted
  BY DEF PInv
<1>5. Held("wmail", e) = At("wmail", e)
  BY <1>4 DEF Held, At, Rows, OncePosted, PostRels
<1>6. Cardinality(Held("wmail", e)) = s
  BY <1>3, <1>5, MailCounts DEF WatchedTo
<1>7. Numbers("wmail", e) = 0 .. s - 1 /\ Cursor("wcursor", e) = w
  BY <1>3, <1>4, WatchReads
<1>8. ASSUME NEW i \in since[e] + 1 .. w, NEW r \in log[i], r[1] = "named"
      PROVE  \E m \in Held("wmail", e) : m[4] = r[2]
  <2>1. PICK n \in Nat : PostRow(e, n, r[2]) \in DOMAIN world
    BY <1>3, <1>8 DEF WatchedTo, Mailed
  <2>2. PostRow(e, n, r[2]) \in At("wmail", e) /\ PostRow(e, n, r[2])[4] = r[2]
    BY <2>1 DEF At, PostRow
  <2> QED BY <1>5, <2>2
<1>9. ASSUME NEW k \in Numbers("wdelivery", e) PROVE 0 .. k - 1 \subseteq written[e]
  <2>1. PICK r \in Held("wdelivery", e) : r[3] = k
    BY DEF Numbers
  <2>2. r \in DOMAIN world /\ r[1] = "wdelivery" /\ r[2] = e
    BY <2>1 DEF Held, Rows
  <2>3. Reached(e, k)
    BY <2>1, <2>2 DEF PInv, Places
  <2> QED BY <2>3 DEF Reached
<1> QED
  BY <1>6, <1>7, <1>8, <1>9

(* As long as no two connections of a player subscribe it at once: what    *)
(* its watch cursor has passed since it first subscribed is in its mail,   *)
(* numbered from 0 without a gap and one change to a number, and what its  *)
(* delivery cursor has passed was written to one of its sockets, whatever  *)
(* its other connections pump and deliver, whichever sockets fail and      *)
(* wherever the server crashes (pump_subscriptions, deliver_once).         *)
THEOREM NothingEverSkipped == Spec /\ []OneSubscriber => []NothingSkipped
<1>1. Init => IInv /\ PInv
  BY InitInv, InitPosts
<1>2. IInv /\ PInv /\ OneSubscriber /\ [Next]_vars => (IInv /\ PInv)'
  BY NextInv, NextPosts
<1>3. PInv => NothingSkipped
  BY PostsSkipNothing
<1> QED
  BY <1>1, <1>2, <1>3, PTL DEF Spec
=============================================================================
