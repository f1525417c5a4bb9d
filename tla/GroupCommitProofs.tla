-------------------------- MODULE GroupCommitProofs --------------------------
(***************************************************************************)
(* GroupCommit's safety, for any number of threads, branches, facts and    *)
(* patches and with neither bound a limit, in three parts: facts about     *)
(* World's operators; TypeOK and the invariants that say what reaches the  *)
(* disk; and that every step of GroupCommit, with its locks, its queue,    *)
(* its leader and its failures, is a step of DurableWorld or none at all.  *)
(***************************************************************************)
EXTENDS GroupCommit, TLAPS, WellFoundedInduction, SequenceTheorems

----------------------------------------------------------------------------
(* Maxima.                                                                 *)

NatLess == {ss \in Nat \X Nat : ss[1] < ss[2]}

(* The library's well-foundedness of < on Nat, as a relation of its own.   *)
LEMMA NatLessWellFounded == IsWellFoundedOn(NatLess, Nat)
  BY NatLessThanWellFounded DEF OpToRel, NatLess

(* A non-empty set of naturals has a least element. *)
LEMMA LeastExists ==
  ASSUME NEW T \in SUBSET Nat, T # {}
  PROVE  \E x \in T : \A y \in T : x <= y
<1>1. \E t \in T : \A u \in T : ~ (<<u, t>> \in NatLess)
  <2> HIDE DEF NatLess
  <2> QED BY NatLessWellFounded, WFMin, Zenon
<1>2. PICK t \in T : \A u \in T : ~ (<<u, t>> \in NatLess)
  BY <1>1, Zenon
<1>3. ASSUME NEW u \in T PROVE t <= u
  <2>1. t \in Nat /\ u \in Nat /\ <<u, t>> \in Nat \X Nat
    OBVIOUS
  <2>2. ~ (u < t)
    BY <1>2, <2>1 DEF NatLess
  <2> QED BY <2>1, <2>2
<1> QED
  BY <1>3

(* Max of a bounded, non-empty set of naturals is its greatest element     *)
(* (what StateOf, NextBranch and LandedThrough rest on).                   *)
LEMMA MaxProperties ==
  ASSUME NEW S \in SUBSET Nat, S # {}, NEW B \in Nat, \A x \in S : x <= B
  PROVE  Max(S) \in S /\ \A y \in S : y <= Max(S)
<1> DEFINE T == {B - x : x \in S}
<1>0. \A x \in S : B - x \in Nat
  OBVIOUS
<1>1. T \in SUBSET Nat /\ T # {}
  BY <1>0
<1>2. PICK t \in T : \A u \in T : t <= u
  <2> HIDE DEF T
  <2> QED BY <1>1, LeastExists
<1>3. PICK m \in S : t = B - m
  OBVIOUS
<1>4. \A y \in S : m >= y
  <2> TAKE y \in S
  <2>1. B - y \in T
    OBVIOUS
  <2> QED BY <2>1, <1>2, <1>3
<1> QED
  BY <1>4 DEF Max

(* Of two naturals one is the greater.                                     *)
LEMMA GreaterExists ==
  ASSUME NEW a \in Nat, NEW b \in Nat
  PROVE  \E c \in Nat : c >= a /\ c >= b
<1>1. CASE a >= b
  BY <1>1
<1>2. CASE b >= a
  BY <1>2
<1> QED
  BY <1>1, <1>2

(* Finitely many naturals have a bound (the editions of one group).        *)
LEMMA SequenceBounded ==
  ASSUME NEW N \in Nat, NEW f \in [1..N -> Nat]
  PROVE  \E B \in Nat : \A i \in 1..N : f[i] <= B
<1> DEFINE Bounded(n) == \E B \in Nat : \A i \in 1..n : f[i] <= B
           T == {n \in 0..N : ~ Bounded(n)}
<1>1. Bounded(0)
  OBVIOUS
<1>2. ASSUME NEW n \in 0..N, n # N, Bounded(n) PROVE Bounded(n + 1)
  <2>1. PICK B \in Nat : \A i \in 1..n : f[i] <= B
    BY <1>2
  <2>2. n + 1 \in 1..N /\ f[n + 1] \in Nat
    BY <1>2
  <2>3. PICK C \in Nat : C >= B /\ C >= f[n + 1]
    BY <2>2, GreaterExists
  <2>4. \A i \in 1..(n + 1) : f[i] <= C
    <3> TAKE i \in 1..(n + 1)
    <3>1. CASE i = n + 1
      BY <2>3, <3>1
    <3>2. CASE i \in 1..n
      <4>1. f[i] <= B /\ f[i] \in Nat
        BY <2>1, <3>2
      <4> QED BY <2>3, <4>1
    <3> QED BY <3>1, <3>2
  <2> QED BY <2>4
<1>3. ASSUME ~ Bounded(N) PROVE FALSE
  <2>0. N \in T
    <3>1. N \in 0..N
      OBVIOUS
    <3> QED BY <1>3, <3>1
  <2>1. T \in SUBSET Nat
    OBVIOUS
  <2>2. PICK t \in T : \A u \in T : t <= u
    <3> HIDE DEF T
    <3> QED BY <2>0, <2>1, LeastExists
  <2>3. t \in 0..N /\ ~ Bounded(t)
    OBVIOUS
  <2>4. t # 0
    BY <1>1, <2>3
  <2>5. t - 1 \in 0..N /\ t - 1 # N /\ (t - 1) + 1 = t
    BY <2>3, <2>4
  <2>6. t - 1 \notin T
    <3> HIDE DEF T
    <3> QED BY <2>2, <2>5
  <2>7. Bounded(t - 1)
    BY <2>5, <2>6
  <2>8. Bounded((t - 1) + 1)
    <3> HIDE DEF Bounded
    <3> QED BY <1>2, <2>5, <2>7
  <2> QED BY <2>3, <2>5, <2>8
<1> QED
  BY <1>3

(* The greater of two naturals. *)
LEMMA MaxOfTwo ==
  ASSUME NEW a \in Nat, NEW b \in Nat
  PROVE  /\ Max({a, b}) \in {a, b}
         /\ a <= Max({a, b}) /\ b <= Max({a, b})
<1>1. PICK B \in Nat : B >= a /\ B >= b
  BY GreaterExists
<1> QED
  BY <1>1, MaxProperties

----------------------------------------------------------------------------
(* Prefixes.                                                               *)

(* One sequence is a prefix of another when they agree as far as it goes.  *)
LEMMA PrefixPointwise ==
  ASSUME NEW S, NEW s \in Seq(S), NEW t \in Seq(S)
  PROVE  IsPrefix(s, t) <=> /\ Len(s) <= Len(t)
                            /\ \A i \in 1..Len(s) : s[i] = t[i]
<1>1. ASSUME Len(s) <= Len(t)
      PROVE  /\ SubSeq(s, 1, Len(s)) \in Seq(S) /\ SubSeq(t, 1, Len(s)) \in Seq(S)
             /\ Len(SubSeq(s, 1, Len(s))) = Len(s) /\ Len(SubSeq(t, 1, Len(s))) = Len(s)
             /\ \A i \in 1..Len(s) : /\ SubSeq(s, 1, Len(s))[i] = s[i]
                                     /\ SubSeq(t, 1, Len(s))[i] = t[i]
  BY <1>1
<1> QED
  BY <1>1 DEF IsPrefix

(* Prefixes of one sequence are prefixes of each other, by length.         *)
LEMMA PrefixesComparable ==
  ASSUME NEW S, NEW r \in Seq(S), NEW s \in Seq(S), NEW t \in Seq(S),
         IsPrefix(r, t), IsPrefix(s, t), Len(r) <= Len(s)
  PROVE  IsPrefix(r, s)
  BY PrefixPointwise

LEMMA PrefixReflexive ==
  ASSUME NEW S, NEW s \in Seq(S)
  PROVE  IsPrefix(s, s)
  BY PrefixPointwise

LEMMA PrefixTransitive ==
  ASSUME NEW S, NEW r \in Seq(S), NEW s \in Seq(S), NEW t \in Seq(S),
         IsPrefix(r, s), IsPrefix(s, t)
  PROVE  IsPrefix(r, t)
  BY PrefixPointwise

(* A root record with one more stage extends the one before it. *)
LEMMA PrefixOfAppend ==
  ASSUME NEW S, NEW s \in Seq(S), NEW x \in S
  PROVE  /\ Append(s, x) \in Seq(S) /\ Len(Append(s, x)) = Len(s) + 1
         /\ IsPrefix(s, Append(s, x))
         /\ x \in ToSet(Append(s, x))
<1>1. /\ Append(s, x) \in Seq(S) /\ Len(Append(s, x)) = Len(s) + 1
      /\ \A i \in 1..Len(s) : Append(s, x)[i] = s[i]
      /\ Append(s, x)[Len(s) + 1] = x
  OBVIOUS
<1>2. IsPrefix(s, Append(s, x))
  <2>1. Len(s) <= Len(Append(s, x))
    BY <1>1
  <2> HIDE DEF Append
  <2> QED BY <1>1, <2>1, PrefixPointwise
<1>3. Len(s) + 1 \in DOMAIN Append(s, x)
  BY <1>1
<1> QED
  BY <1>1, <1>2, <1>3 DEF ToSet

(* What a prefix holds, the longer sequence holds. *)
LEMMA PrefixKeeps ==
  ASSUME NEW S, NEW s \in Seq(S), NEW t \in Seq(S), IsPrefix(s, t)
  PROVE  ToSet(s) \subseteq ToSet(t)
<1>1. /\ Len(s) <= Len(t)
      /\ \A i \in 1..Len(s) : s[i] = t[i]
  BY PrefixPointwise
<1>2. \A i \in DOMAIN s : i \in DOMAIN t /\ s[i] = t[i]
  BY <1>1
<1> QED
  BY <1>2 DEF ToSet

----------------------------------------------------------------------------
(* Types.                                                                  *)

LEMMA EmptyStateType == EmptyState \in BranchState
<1>1. << >> \in Seq(Version) /\ <<Root, 0>> \in Branches \X Nat
  BY WorldAssumption DEF Root, Branches
<1> QED
  BY <1>1, WorldAssumption DEF EmptyState, BranchState

(* A branch's state is the one its newest stage left, or the empty one.    *)
LEMMA StateOfType ==
  ASSUME NEW w \in Seq(StageRecord), NEW b \in Branches
  PROVE  StateOf(w, b) \in BranchState
<1>1. CASE StagesOf(w, b) = {}
  BY <1>1, EmptyStateType DEF StateOf
<1>2. CASE StagesOf(w, b) # {}
  <2>1. StagesOf(w, b) \in SUBSET Nat /\ \A i \in StagesOf(w, b) : i <= Len(w)
    BY DEF StagesOf
  <2>2. Max(StagesOf(w, b)) \in StagesOf(w, b)
    <3>1. Len(w) \in Nat
      OBVIOUS
    <3> QED BY <1>2, <2>1, <3>1, MaxProperties
  <2>3. \A i \in StagesOf(w, b) : w[i] \in StageRecord
    BY DEF StagesOf
  <2>4. w[Max(StagesOf(w, b))].state \in BranchState
    BY <2>2, <2>3 DEF StageRecord
  <2> QED BY <1>2, <2>4 DEF StateOf
<1> QED
  BY <1>1, <1>2

LEMMA CurrentType ==
  ASSUME NEW s \in BranchState
  PROVE  s.log \in Seq(Version) /\ Current(s) \in Nat /\ Current(s) = Len(s.log)
  BY DEF BranchState, Current

LEMMA FactsAtType ==
  ASSUME NEW s \in BranchState, NEW e \in 0..Current(s)
  PROVE  FactsAt(s, e) \in Weights
<1>1. CASE e = 0
  BY <1>1 DEF FactsAt, Weights
<1>2. CASE e # 0
  <2>1. e \in 1..Len(s.log)
    BY <1>2, CurrentType
  <2>2. s.log[e] \in Version
    BY <2>1, CurrentType
  <2> QED BY <1>2, <2>2 DEF FactsAt, Version
<1> QED
  BY <1>1, <1>2

(* Committing a patch makes one more edition. *)
LEMMA AppliedType ==
  ASSUME NEW s \in BranchState, NEW p \in Patches
  PROVE  Applied(s, p) \in BranchState
<1>1. p.pre \in SUBSET Facts /\ p.upd \in Weights
  BY WorldAssumption
<1>2. FactsAt(s, Current(s)) \in Weights
  <2>1. Current(s) \in 0..Current(s)
    BY CurrentType
  <2> QED BY <2>1, FactsAtType
<1> DEFINE facts == [f \in Facts |-> FactsAt(s, Current(s))[f] + p.upd[f]]
<1>3. facts \in Weights
  BY <1>1, <1>2 DEF Weights
<1>4. [pre |-> p.pre, facts |-> facts] \in Version
  <2> HIDE DEF facts
  <2> QED BY <1>1, <1>3 DEF Version
<1>5. Append(s.log, [pre |-> p.pre, facts |-> facts]) \in Seq(Version)
  <2> HIDE DEF facts
  <2> QED BY <1>4, CurrentType
<1> QED
  BY <1>5 DEF Applied, BranchState

(* A fork keeps a prefix of its parent's editions. *)
LEMMA ForkedFromType ==
  ASSUME NEW s \in BranchState, NEW b \in Branches, NEW at \in 0..Current(s)
  PROVE  ForkedFrom(s, b, at) \in BranchState
<1>1. SubSeq(s.log, 1, at) \in Seq(Version)
  <2>1. s.log \in Seq(Version) /\ at \in 0..Len(s.log)
    BY CurrentType
  <2> QED BY <2>1, SubSeqProperties
<1>2. <<b, at>> \in Branches \X Nat
  BY CurrentType
<1> QED
  BY <1>1, <1>2 DEF ForkedFrom, BranchState

USE WorldAssumption, GroupCommitAssumption

----------------------------------------------------------------------------
(* The inductive invariant.                                                *)

Leading(c) == pc[c] \in {"batch", "sync", "land"}

(* A thread writing a group holds one: where Last(group) is read.          *)
GroupHeld == \A c \in Threads : Leading(c) => group # << >>

(* There is one leader, and a group exactly while it leads. *)
Leads ==
  /\ \A c \in Threads : Leading(c) <=> writer = c
  /\ group = << >> <=> writer = NoOne

(* The group's and the queue's writes are numbered without a gap up to     *)
(* `staged`, from what landed or failed; every write's root record is the  *)
(* world as of its own stage.                                              *)
Queued ==
  /\ Len(group) + Len(pending) <= staged /\ staged <= Len(world)
  /\ \/ staged - Len(pending) - Len(group) <= landed
     \/ staged - Len(pending) - Len(group) <= failure
  /\ \A i \in DOMAIN pending :
        /\ pending[i].seq = staged - Len(pending) + i
        /\ IsPrefix(pending[i].root, world)
        /\ Len(pending[i].root) = Len(world) - Len(pending) + i
  /\ \A i \in DOMAIN group :
        /\ group[i].seq = staged - Len(pending) - Len(group) + i
        /\ IsPrefix(group[i].root, world)
        /\ Len(group[i].root) = Len(world) - Len(pending) - Len(group) + i

(* The disk holds a prefix of the world, at least through `landed` and at  *)
(* most through the leader's group; what was batched since extends it.     *)
Hardened ==
  /\ IsPrefix(disk, world)
  /\ \A r \in unsynced : IsPrefix(disk, r) /\ IsPrefix(r, world)
  /\ Len(world) - staged + landed <= Len(disk)
  /\ Len(disk) <= Len(world) - Len(pending)
  /\ \A c \in Threads : pc[c] = "land" => disk = Last(group).root

(* A thread that waits for a stage finds it at that stage's place in the   *)
(* world; one whose wait is over, below `landed`.                          *)
Waits(c) ==
  /\ call[c].target # 0 =>
       /\ call[c].target <= staged
       /\ world[Len(world) - staged + call[c].target]
            = [branch |-> call[c].branch, state |-> call[c].state]
  /\ pc[c] = "return" => call[c].target <= landed
  /\ pc[c] \notin {"idle", "locked"} /\ call[c].op \in {"commit", "reshape"}
       => call[c].target # 0
Waiting == \A c \in Threads : Waits(c)

IInv == TypeOK /\ Leads /\ Queued /\ Hardened /\ Waiting /\ AckedOnDisk

----------------------------------------------------------------------------
(* Types of the pieces the actions share.                                  *)

LEMMA RootBranch == Root \in Branches
  BY DEF Root, Branches

LEMMA CallType ==
  ASSUME NEW op \in Calls, NEW b \in Branches, NEW s \in BranchState, NEW t \in Nat
  PROVE  [op |-> op, branch |-> b, state |-> s, target |-> t] \in CallRecord
  BY DEF CallRecord

LEMMA IdleCallType == IdleCall \in CallRecord
  BY CallType, RootBranch, EmptyStateType DEF IdleCall, Calls

LEMMA CallingType ==
  ASSUME TypeOK, NEW c \in Threads, NEW op \in Calls, NEW b \in Branches,
         NEW s \in BranchState, NEW t \in Nat, Calling(c, op, b, s, t)
  PROVE  call' \in [Threads -> CallRecord]
  BY CallType DEF Calling, TypeOK

LEMMA GotoType ==
  ASSUME TypeOK, NEW c \in Threads, NEW label \in PCs, Goto(c, label)
  PROVE  pc' \in [Threads -> PCs]
  BY DEF Goto, TypeOK

(* Answering a call leaves its thread idle. *)
LEMMA ReturnType ==
  ASSUME TypeOK, NEW c \in Threads, Return(c)
  PROVE  pc' \in [Threads -> PCs] /\ call' \in [Threads -> CallRecord]
  BY IdleCallType DEF Return, Goto, TypeOK, PCs

(* The edition a thread stages is its call's. *)
LEMMA CallParts ==
  ASSUME TypeOK, NEW c \in Threads
  PROVE  /\ call[c] \in CallRecord
         /\ call[c].op \in Calls /\ call[c].branch \in Branches
         /\ call[c].state \in BranchState /\ call[c].target \in Nat
         /\ [branch |-> call[c].branch, state |-> call[c].state] \in StageRecord
  BY DEF TypeOK, CallRecord, StageRecord

(* Every group a leader holds ends in a numbered write with its root.      *)
LEMMA WriteParts ==
  ASSUME TypeOK, NEW i \in DOMAIN group
  PROVE  /\ group[i].seq \in Nat /\ group[i].branch \in Branches
         /\ group[i].edition \in Nat /\ group[i].root \in Seq(StageRecord)
<1>1. group[i] \in PendingRecord
  BY DEF TypeOK
<1> QED
  BY <1>1 DEF PendingRecord

LEMMA QueuedParts ==
  ASSUME TypeOK, NEW i \in DOMAIN pending
  PROVE  pending[i].seq \in Nat /\ pending[i].root \in Seq(StageRecord)
<1>1. pending[i] \in PendingRecord
  BY DEF TypeOK
<1> QED
  BY <1>1 DEF PendingRecord

LEMMA LastWrite ==
  ASSUME TypeOK, group # << >>
  PROVE  /\ Last(group).seq \in Nat /\ Last(group).root \in Seq(StageRecord)
         /\ Len(group) \in DOMAIN group
<1>1. Len(group) \in DOMAIN group
  BY DEF TypeOK
<1> QED
  BY <1>1, WriteParts DEF Last

(* Staging appends one stage to the world and one write to the queue.      *)
LEMMA EnstageType ==
  ASSUME TypeOK, NEW c \in Threads, NEW b \in Branches, NEW s \in BranchState,
         Enstage(c, b, s)
  PROVE  /\ world' \in Seq(StageRecord) /\ staged' \in Nat
         /\ pending' \in Seq(PendingRecord)
         /\ call' \in [Threads -> CallRecord] /\ pc' \in [Threads -> PCs]
<1>1. [branch |-> b, state |-> s] \in StageRecord
  BY DEF StageRecord
<1>2. world' \in Seq(StageRecord) /\ staged' \in Nat
  BY <1>1 DEF Enstage, TypeOK
<1>3. [seq |-> staged + 1, branch |-> b, edition |-> Current(s), root |-> world']
        \in PendingRecord
  BY <1>2, CurrentType DEF PendingRecord, TypeOK, Enstage
<1>4. pending' \in Seq(PendingRecord)
  BY <1>3 DEF Enstage, TypeOK
<1>5. call' \in [Threads -> CallRecord]
  <2>1. call[c].op \in Calls
    BY CallParts
  <2>2. staged + 1 \in Nat
    BY DEF TypeOK
  <2> QED BY <2>1, <2>2, CallingType DEF Enstage
<1>6. pc' \in [Threads -> PCs]
  BY GotoType DEF Enstage, PCs
<1> QED
  BY <1>2, <1>4, <1>5, <1>6

LEMMA ReturnErrType ==
  ASSUME TypeOK, NEW c \in Threads, ReturnErr(c)
  PROVE  /\ edLock' \in [Branches -> Threads \cup {NoOne}]
         /\ rootLock' \in Threads \cup {NoOne}
  BY DEF ReturnErr, TypeOK

LEMMA NotifyAllType ==
  ASSUME TypeOK, NEW c \in Threads, NEW label \in PCs,
         pc' = [NotifyAll(pc) EXCEPT ![c] = label]
  PROVE  pc' \in [Threads -> PCs]
  BY DEF NotifyAll, TypeOK, PCs

(* The editions a group carries are finitely many, so Raised is one of     *)
(* them or the edition already durable.                                    *)
LEMMA RaisedType ==
  ASSUME TypeOK, NEW b \in Branches, NEW e \in Nat
  PROVE  Raised(b, e) \in Nat /\ Raised(b, e) >= e
<1> DEFINE E == {group[i].edition : i \in {j \in DOMAIN group : group[j].branch = b}}
<1>1. E \in SUBSET Nat
  BY WriteParts
<1>2. Len(group) \in Nat /\ DOMAIN group = 1..Len(group)
  BY DEF TypeOK
<1> DEFINE ed == [i \in 1..Len(group) |-> group[i].edition]
<1>3. ed \in [1..Len(group) -> Nat]
  BY <1>2, WriteParts
<1>4. PICK B \in Nat : \A i \in 1..Len(group) : ed[i] <= B
  <2> HIDE DEF ed
  <2> QED BY <1>2, <1>3, SequenceBounded
<1>5. PICK C \in Nat : C >= B /\ C >= e
  BY GreaterExists
<1>6. \A x \in {e} \cup E : x <= C
  <2>1. \A x \in E : x <= B
    BY <1>2, <1>4
  <2> HIDE DEF E
  <2> QED BY <1>1, <1>5, <2>1
<1>7. {e} \cup E \in SUBSET Nat /\ {e} \cup E # {} /\ e \in {e} \cup E
  BY <1>1
<1>8. Max({e} \cup E) \in {e} \cup E /\ \A x \in {e} \cup E : x <= Max({e} \cup E)
  <2> HIDE DEF E
  <2> QED BY <1>6, <1>7, MaxProperties
<1>9. Max({e} \cup E) \in Nat /\ Max({e} \cup E) >= e
  <2> HIDE DEF E
  <2> QED BY <1>7, <1>8
<1> QED
  BY <1>9 DEF Raised

----------------------------------------------------------------------------
(* Type correctness.                                                       *)

LEMMA InitType == Init => TypeOK
<1>1. << >> \in Seq(StageRecord) /\ << >> \in Seq(PendingRecord)
  OBVIOUS
<1> QED
  BY <1>1, IdleCallType, RootBranch DEF Init, TypeOK, PCs

LEMMA BeginType ==
  ASSUME TypeOK, NEW c \in Clients, Begin(c)
  PROVE  TypeOK'
<1> c \in Threads
  BY DEF Threads
<1> USE DEF durVars, diskVars, lockVars, replies
<1>1. ASSUME NEW b \in Branches, NEW p \in Patches, CommitStart(c, b, p)
      PROVE  TypeOK'
  <2>1. Applied(StateOf(world, b), p) \in BranchState
    BY StateOfType, AppliedType DEF TypeOK
  <2>2. call' \in [Threads -> CallRecord] /\ pc' \in [Threads -> PCs]
    BY <1>1, <2>1, CallingType, GotoType DEF CommitStart, Calls, PCs
  <2>3. edLock' \in [Branches -> Threads \cup {NoOne}]
    BY <1>1 DEF CommitStart, TakeEditionLock, TypeOK
  <2> QED BY <1>1, <2>2, <2>3 DEF CommitStart, TypeOK
<1>2. ASSUME NEW b \in Branches, NEW p \in Patches, CommitRejected(c, b, p)
      PROVE  TypeOK'
  BY <1>2 DEF CommitRejected, TypeOK, vars
<1>3. ASSUME NEW b \in Branches, NEW s \in Shapes, ReshapeStart(c, b, s)
      PROVE  TypeOK'
  <2>1. [StateOf(world, b) EXCEPT !.shape = s] \in BranchState
    <3>1. StateOf(world, b) \in BranchState
      BY StateOfType DEF TypeOK
    <3> QED BY <3>1 DEF BranchState
  <2>2. call' \in [Threads -> CallRecord] /\ pc' \in [Threads -> PCs]
    BY <1>3, <2>1, CallingType, GotoType DEF ReshapeStart, Calls, PCs
  <2>3. edLock' \in [Branches -> Threads \cup {NoOne}]
    BY <1>3 DEF ReshapeStart, TakeEditionLock, TypeOK
  <2> QED BY <1>3, <2>2, <2>3 DEF ReshapeStart, TypeOK
<1>4. ASSUME NEW b \in Branches, NEW at \in 0..Current(StateOf(world, b)), ForkStart(c, b, at)
      PROVE  TypeOK'
  <2>1. ForkedFrom(StateOf(world, b), b, at) \in BranchState
    <3>1. StateOf(world, b) \in BranchState
      BY StateOfType DEF TypeOK
    <3> QED BY <1>4, <3>1, ForkedFromType
  <2>2. call' \in [Threads -> CallRecord] /\ pc' \in [Threads -> PCs]
    BY <1>4, <2>1, CallingType, GotoType DEF ForkStart, Calls, PCs
  <2>3. edLock' \in [Branches -> Threads \cup {NoOne}]
    BY <1>4 DEF ForkStart, TakeEditionLock, TypeOK
  <2> QED BY <1>4, <2>2, <2>3 DEF ForkStart, TypeOK
<1>5. CASE GcStart(c)
  <2>1. call' \in [Threads -> CallRecord] /\ pc' \in [Threads -> PCs]
    BY <1>5, CallingType, GotoType, RootBranch, EmptyStateType DEF GcStart, Calls, PCs
  <2> QED BY <1>5, <2>1 DEF GcStart, TypeOK
<1> QED
  BY <1>1, <1>2, <1>3, <1>4, <1>5 DEF Begin

LEMMA BranchStartType ==
  ASSUME TypeOK, NEW c \in Observers, NEW b \in Branches, BranchStart(c, b)
  PROVE  TypeOK'
<1>1. c \in Threads /\ StateOf(world, b) \in BranchState
  BY StateOfType DEF TypeOK, Threads
<1>2. call' \in [Threads -> CallRecord] /\ pc' \in [Threads -> PCs]
  BY <1>1, CallingType, GotoType DEF BranchStart, Calls, PCs
<1> QED
  BY <1>2 DEF BranchStart, TypeOK, durVars, diskVars, lockVars, replies

LEMMA StagingType ==
  ASSUME TypeOK, NEW c \in Threads, Stage(c) \/ StageFork(c)
  PROVE  TypeOK'
<1>1. PICK b \in Branches : Enstage(c, b, call[c].state)
  BY CallParts DEF Stage, StageFork
<1>2. /\ world' \in Seq(StageRecord) /\ staged' \in Nat
      /\ pending' \in Seq(PendingRecord)
      /\ call' \in [Threads -> CallRecord] /\ pc' \in [Threads -> PCs]
  BY <1>1, CallParts, EnstageType
<1>3. edLock' \in [Branches -> Threads \cup {NoOne}]
  BY DEF Stage, StageFork, TypeOK
<1> QED
  BY <1>1, <1>2, <1>3 DEF Enstage, TypeOK, diskVars, replies

LEMMA DriveType ==
  ASSUME TypeOK, NEW c \in Threads, Drive(c)
  PROVE  TypeOK'
<1> USE DEF durVars, diskVars, lockVars, replies
<1>1. CASE DriveDoomed(c)
  <2>1. pc' \in [Threads -> PCs] /\ call' \in [Threads -> CallRecord]
    BY <1>1, IdleCallType DEF DriveDoomed, TypeOK, PCs
  <2> QED BY <1>1, <2>1, ReturnErrType DEF DriveDoomed, TypeOK
<1>2. CASE DriveDone(c)
  <2>1. pc' \in [Threads -> PCs]
    BY <1>2, GotoType DEF DriveDone, PCs
  <2> QED BY <1>2, <2>1 DEF DriveDone, TypeOK
<1>3. CASE DriveSleep(c)
  <2>1. pc' \in [Threads -> PCs]
    BY <1>3, GotoType DEF DriveSleep, PCs
  <2> QED BY <1>3, <2>1 DEF DriveSleep, TypeOK
<1>4. CASE DriveLead(c)
  <2>1. pc' \in [Threads -> PCs]
    BY <1>4, GotoType DEF DriveLead, PCs
  <2>2. pending' \in Seq(PendingRecord)
    BY <1>4 DEF DriveLead
  <2> QED BY <1>4, <2>1, <2>2 DEF DriveLead, TypeOK
<1> QED
  BY <1>1, <1>2, <1>3, <1>4 DEF Drive

LEMMA WriteType ==
  ASSUME TypeOK, GroupHeld, NEW c \in Threads, Write(c)
  PROVE  TypeOK'
<1> USE DEF durVars, diskVars, lockVars, replies
<1>1. Last(group).seq \in Nat /\ Last(group).root \in Seq(StageRecord)
  BY LastWrite DEF Write, WriteBatch, SyncOk, Land, GroupHeld, Leading
<1>2. CASE WriteBatch(c)
  <2>1. pc' \in [Threads -> PCs]
    BY <1>2, GotoType DEF WriteBatch, PCs
  <2>2. unsynced' \subseteq Seq(StageRecord)
    BY <1>1, <1>2 DEF WriteBatch, TypeOK
  <2> QED BY <1>2, <2>1, <2>2 DEF WriteBatch, TypeOK
<1>3. CASE SyncOk(c)
  <2>1. pc' \in [Threads -> PCs]
    BY <1>3, GotoType DEF SyncOk, PCs
  <2> QED BY <1>1, <1>3, <2>1 DEF SyncOk, TypeOK
<1>4. CASE Land(c)
  <2>1. pc' \in [Threads -> PCs]
    BY <1>4, NotifyAllType DEF Land, PCs
  <2>2. landed' \in Nat
    BY <1>1, <1>4, MaxOfTwo DEF Land, LandedThrough, TypeOK
  <2>3. durable' \in [Branches -> Nat]
    BY <1>4, RaisedType DEF Land, TypeOK
  <2>4. group' \in Seq(PendingRecord)
    BY <1>4 DEF Land
  <2> QED BY <1>4, <2>1, <2>2, <2>3, <2>4 DEF Land, TypeOK
<1> QED
  BY <1>2, <1>3, <1>4 DEF Write

LEMMA GroupFailsType ==
  ASSUME TypeOK, GroupHeld, NEW c \in Threads, GroupFails(c)
  PROVE  TypeOK'
<1>1. Last(group).seq \in Nat
  BY LastWrite DEF GroupFails, GroupHeld, Leading
<1>2. pc' \in [Threads -> PCs]
  BY NotifyAllType DEF GroupFails, PCs
<1>3. call' \in [Threads -> CallRecord]
  BY IdleCallType DEF GroupFails, TypeOK
<1>4. group' \in Seq(PendingRecord)
  BY DEF GroupFails
<1>5. /\ edLock' \in [Branches -> Threads \cup {NoOne}]
      /\ rootLock' \in Threads \cup {NoOne}
  BY ReturnErrType DEF GroupFails
<1> QED
  BY <1>1, <1>2, <1>3, <1>4, <1>5
  DEF GroupFails, KeptInMemory, TypeOK, diskVars

(* A handle's durable edition is its branch's current one. *)
LEMMA OnType ==
  ASSUME TypeOK, NEW b \in Branches, NEW s \in BranchState, On(b, s)
  PROVE  durable' \in [Branches -> Nat]
  BY CurrentType DEF On, TypeOK

LEMMA FinishType ==
  ASSUME TypeOK, NEW c \in Threads, Finish(c)
  PROVE  TypeOK'
<1> USE DEF durVars, diskVars, lockVars, replies
<1>1. CASE StageReturns(c)
  <2>1. acked' \subseteq StageRecord
    BY <1>1, CallParts DEF StageReturns, TypeOK
  <2> QED BY <1>1, <2>1, ReturnType DEF StageReturns, TypeOK
<1>2. CASE ForkFlushed(c)
  <2>1. pc' \in [Threads -> PCs]
    BY <1>2, GotoType DEF ForkFlushed, PCs
  <2> QED BY <1>2, <2>1 DEF ForkFlushed, TypeOK
<1>3. CASE ForkReturns(c)
  <2>1. acked' \subseteq StageRecord /\ opened' \subseteq Branches
    BY <1>3, CallParts DEF ForkReturns, TypeOK
  <2>2. durable' \in [Branches -> Nat]
    BY <1>3, CallParts, OnType DEF ForkReturns
  <2> QED BY <1>3, <2>1, <2>2, ReturnType DEF ForkReturns, TypeOK
<1>4. CASE GcReturns(c)
  BY <1>4, ReturnType DEF GcReturns, TypeOK
<1>5. CASE BranchReturns(c)
  <2>1. durable' \in [Branches -> Nat]
    BY <1>5, CallParts, OnType DEF BranchReturns
  <2> QED BY <1>5, <2>1, ReturnType DEF BranchReturns, TypeOK
<1> QED
  BY <1>1, <1>2, <1>3, <1>4, <1>5 DEF Finish

LEMMA CrashType ==
  ASSUME TypeOK, Crash
  PROVE  TypeOK'
<1>1. PICK r \in {disk} \cup unsynced :
        /\ world' = r /\ disk' = r /\ unsynced' = {}
        /\ edLock' = [b \in Branches |-> NoOne] /\ rootLock' = NoOne
        /\ pending' = << >> /\ staged' = 0 /\ landed' = 0
        /\ durable' = [b \in Branches |-> Current(StateOf(r, b))]
        /\ writer' = NoOne /\ group' = << >> /\ failure' = 0
        /\ pc' = [c \in Threads |-> "idle"]
        /\ call' = [c \in Threads |-> IdleCall]
        /\ opened' = {b \in Branches : Known(r, b)}
        /\ UNCHANGED <<replies, failures>>
  BY DEF Crash
<1>2. r \in Seq(StageRecord)
  BY DEF TypeOK
<1>3. \A b \in Branches : Current(StateOf(r, b)) \in Nat
  BY <1>2, StateOfType, CurrentType
<1>4. durable' \in [Branches -> Nat]
  BY <1>1, <1>3
<1>5. call' \in [Threads -> CallRecord] /\ pc' \in [Threads -> PCs]
  BY <1>1, IdleCallType DEF PCs
<1>6. pending' \in Seq(PendingRecord) /\ group' \in Seq(PendingRecord)
  BY <1>1
<1> QED
  BY <1>1, <1>2, <1>4, <1>5, <1>6 DEF TypeOK, replies


----------------------------------------------------------------------------
(* The invariant is inductive.  A step that moves a thread without         *)
(* touching the queue, the group or the disk keeps all that IInv says of   *)
(* them; what is left is its own thread's bookkeeping.                     *)

Store == <<world, pending, staged, landed, failure, writer, group, disk, unsynced>>

LEMMA InitIInv == Init => IInv
<1> SUFFICES ASSUME Init PROVE IInv
  OBVIOUS
<1>1. TypeOK
  BY InitType
<1>2. Leads
  BY DEF Init, Leads, Leading, Threads
<1>3. Queued
  BY DEF Init, Queued
<1>4. Hardened
  <2>1. IsPrefix(disk, world)
    BY <1>1, PrefixReflexive DEF Init, TypeOK
  <2> QED BY <2>1 DEF Init, Hardened
<1>5. Waiting
  BY DEF Init, Waiting, Waits, IdleCall
<1>6. AckedOnDisk
  BY DEF Init, AckedOnDisk
<1> QED
  BY <1>1, <1>2, <1>3, <1>4, <1>5, <1>6 DEF IInv

LEMMA QuietStep ==
  ASSUME IInv, UNCHANGED Store, NEW c \in Threads,
         pc' = [pc EXCEPT ![c] = pc'[c]], pc[c] # "land" => pc'[c] # "land",
         Leading(c)' <=> Leading(c)
  PROVE  Leads' /\ Queued' /\ Hardened'
<1>1. pc \in [Threads -> PCs] /\ \A d \in Threads \ {c} : pc'[d] = pc[d]
  BY DEF IInv, TypeOK
<1>2. Leads'
  BY <1>1 DEF IInv, Leads, Leading, Store
<1>3. Queued'
  BY DEF IInv, Queued, Store
<1>4. Hardened'
  BY <1>1 DEF IInv, Hardened, Store
<1> QED
  BY <1>2, <1>3, <1>4

(* A thread that takes up a call does not wait for a stage yet. *)
LEMMA CallingStep ==
  ASSUME IInv, UNCHANGED <<Store, acked>>, NEW c \in Threads,
         pc[c] = "idle",
         NEW op \in Calls, NEW b \in Branches, NEW s \in BranchState,
         Calling(c, op, b, s, 0),
         NEW label \in {"locked", "drive", "return"}, Goto(c, label),
         label # "locked" => op \notin {"commit", "reshape"}
  PROVE  Leads' /\ Queued' /\ Hardened' /\ Waiting' /\ AckedOnDisk'
<1>1. /\ pc' = [pc EXCEPT ![c] = pc'[c]] /\ pc'[c] = label
      /\ call'[c] = [op |-> op, branch |-> b, state |-> s, target |-> 0]
      /\ \A d \in Threads \ {c} : pc'[d] = pc[d] /\ call'[d] = call[d]
  BY DEF Goto, Calling, IInv, TypeOK
<1>2. Leads' /\ Queued' /\ Hardened'
  BY <1>1, QuietStep DEF Leading, Store
<1>3. Waiting'
  <2>1. \A d \in Threads \ {c} : Waits(d)'
    BY <1>1 DEF IInv, Waiting, Waits, Store
  <2>2. Waits(c)'
    BY <1>1 DEF Waits, IInv, TypeOK, Store
  <2> QED BY <2>1, <2>2 DEF Waiting
<1>4. AckedOnDisk'
  BY DEF IInv, AckedOnDisk, Store
<1> QED
  BY <1>2, <1>3, <1>4

LEMMA BeginStep ==
  ASSUME IInv, NEW c \in Clients, Begin(c)
  PROVE  IInv'
<1> c \in Threads /\ TypeOK
  BY DEF Threads, IInv
<1> USE DEF durVars, diskVars, lockVars, replies
<1>1. TypeOK'
  BY BeginType
<1>2. ASSUME NEW b \in Branches, NEW p \in Patches, CommitStart(c, b, p)
      PROVE  IInv'
  <2>1. Applied(StateOf(world, b), p) \in BranchState
    BY StateOfType, AppliedType DEF TypeOK
  <2> QED
    BY <1>1, <1>2, <2>1, CallingStep DEF CommitStart, Calls, Store, IInv
<1>3. ASSUME NEW b \in Branches, NEW s \in Shapes, ReshapeStart(c, b, s)
      PROVE  IInv'
  <2>1. [StateOf(world, b) EXCEPT !.shape = s] \in BranchState
    <3>1. StateOf(world, b) \in BranchState
      BY StateOfType DEF TypeOK
    <3> QED BY <3>1 DEF BranchState
  <2> QED
    BY <1>1, <1>3, <2>1, CallingStep DEF ReshapeStart, Calls, Store, IInv
<1>4. ASSUME NEW b \in Branches, NEW at \in 0..Current(StateOf(world, b)), ForkStart(c, b, at)
      PROVE  IInv'
  <2>1. ForkedFrom(StateOf(world, b), b, at) \in BranchState
    <3>1. StateOf(world, b) \in BranchState
      BY StateOfType DEF TypeOK
    <3> QED BY <1>4, <3>1, ForkedFromType
  <2> QED
    BY <1>1, <1>4, <2>1, CallingStep DEF ForkStart, Calls, Store, IInv
<1>5. CASE GcStart(c)
  BY <1>1, <1>5, CallingStep, RootBranch, EmptyStateType
  DEF GcStart, Calls, Store, IInv
<1>6. ASSUME NEW b \in Branches, NEW p \in Patches, CommitRejected(c, b, p)
      PROVE  IInv'
  BY <1>6, <1>1 DEF CommitRejected, vars, IInv, Leads, Leading, Queued, Hardened,
     Waiting, Waits, AckedOnDisk
<1> QED
  BY <1>2, <1>3, <1>4, <1>5, <1>6 DEF Begin

LEMMA BranchStartStep ==
  ASSUME IInv, NEW c \in Observers, NEW b \in Branches, BranchStart(c, b)
  PROVE  IInv'
<1>1. c \in Threads /\ StateOf(world, b) \in BranchState
  BY StateOfType DEF TypeOK, Threads, IInv
<1>2. TypeOK'
  BY BranchStartType DEF IInv
<1> QED
  BY <1>1, <1>2, CallingStep
  DEF BranchStart, Calls, Store, IInv, durVars, diskVars, lockVars, replies

(* Staging adds one stage at the end of everything that is numbered. *)
LEMMA StagingStep ==
  ASSUME IInv, NEW c \in Threads, Stage(c) \/ StageFork(c)
  PROVE  IInv'
<1>0. TypeOK /\ pc[c] = "locked"
  BY DEF IInv, Stage, StageFork
<1>1. PICK b \in Branches : Enstage(c, b, call[c].state)
  BY <1>0, CallParts DEF Stage, StageFork
<1> DEFINE x == [branch |-> b, state |-> call[c].state]
           q == [seq |-> staged + 1, branch |-> b,
                 edition |-> Current(call[c].state), root |-> world']
<1>2. x \in StageRecord /\ world \in Seq(StageRecord)
  BY <1>0, CallParts DEF StageRecord, TypeOK
<1>3. /\ world' = Append(world, x) /\ staged' = staged + 1
      /\ pending' = Append(pending, q)
      /\ UNCHANGED <<landed, failure, writer, group, disk, unsynced, acked>>
  BY <1>1 DEF Enstage, diskVars, replies
<1>4. /\ call'[c] = [op |-> call[c].op, branch |-> b, state |-> call[c].state,
                     target |-> staged + 1]
      /\ pc'[c] = "drive"
      /\ \A d \in Threads \ {c} : pc'[d] = pc[d] /\ call'[d] = call[d]
  BY <1>0, <1>1 DEF Enstage, Calling, Goto, TypeOK
<1>5. /\ world' \in Seq(StageRecord) /\ Len(world') = Len(world) + 1
      /\ IsPrefix(world, world')
      /\ \A i \in 1..Len(world) : world'[i] = world[i]
      /\ world'[Len(world) + 1] = x
  <2>1. /\ world' \in Seq(StageRecord) /\ Len(world') = Len(world) + 1
        /\ IsPrefix(world, world')
    BY <1>2, <1>3, PrefixOfAppend
  <2> HIDE DEF x
  <2> QED BY <1>2, <1>3, <2>1
<1>6. ASSUME NEW r \in Seq(StageRecord), IsPrefix(r, world)
      PROVE  IsPrefix(r, world')
  BY <1>2, <1>5, <1>6, PrefixTransitive
<1>7. TypeOK'
  BY <1>0, StagingType
<1>8. Leads'
  BY <1>0, <1>3, <1>4 DEF IInv, Leads, Leading
<1>9. Queued'
  <2>1. /\ staged \in Nat /\ landed \in Nat /\ failure \in Nat
        /\ pending \in Seq(PendingRecord) /\ group \in Seq(PendingRecord)
    BY <1>0 DEF TypeOK
  <2>2. /\ Len(pending') = Len(pending) + 1 /\ DOMAIN pending' = 1..(Len(pending) + 1)
        /\ \A i \in DOMAIN pending : pending'[i] = pending[i]
        /\ pending'[Len(pending) + 1] = q
    <3> HIDE DEF q
    <3> QED BY <2>1, <1>3
  <2>3. /\ Len(group) + Len(pending) <= staged /\ staged <= Len(world)
        /\ \/ staged - Len(pending) - Len(group) <= landed
           \/ staged - Len(pending) - Len(group) <= failure
    BY DEF IInv, Queued
  <2>4. /\ Len(group') + Len(pending') <= staged' /\ staged' <= Len(world')
        /\ \/ staged' - Len(pending') - Len(group') <= landed'
           \/ staged' - Len(pending') - Len(group') <= failure'
    BY <1>2, <1>3, <1>5, <2>1, <2>2, <2>3
  <2>5. ASSUME NEW i \in DOMAIN pending
        PROVE  /\ pending[i].root \in Seq(StageRecord)
               /\ pending[i].seq = staged' - Len(pending') + i
               /\ IsPrefix(pending[i].root, world')
               /\ Len(pending[i].root) = Len(world') - Len(pending') + i
    <3>1. pending[i].root \in Seq(StageRecord)
      BY <1>0, QueuedParts
    <3>2. /\ pending[i].seq = staged - Len(pending) + i
          /\ IsPrefix(pending[i].root, world)
          /\ Len(pending[i].root) = Len(world) - Len(pending) + i
      BY DEF IInv, Queued
    <3>3. IsPrefix(pending[i].root, world')
      BY <1>6, <3>1, <3>2
    <3> QED BY <1>2, <1>3, <1>5, <2>1, <2>2, <3>1, <3>2, <3>3
  <2>6. /\ q.seq = staged' - Len(pending') + (Len(pending) + 1)
        /\ IsPrefix(q.root, world')
        /\ Len(q.root) = Len(world') - Len(pending') + (Len(pending) + 1)
    <3>1. q.seq = staged + 1 /\ q.root = world'
      OBVIOUS
    <3>2. IsPrefix(world', world')
      BY <1>5, PrefixReflexive
    <3>3. /\ staged + 1 = staged' - Len(pending') + (Len(pending) + 1)
          /\ Len(world') = Len(world') - Len(pending') + (Len(pending) + 1)
      BY <1>3, <1>5, <2>1, <2>2
    <3> QED BY <3>1, <3>2, <3>3
  <2>7. \A i \in DOMAIN pending' :
          /\ pending'[i].seq = staged' - Len(pending') + i
          /\ IsPrefix(pending'[i].root, world')
          /\ Len(pending'[i].root) = Len(world') - Len(pending') + i
    <3> TAKE i \in DOMAIN pending'
    <3>1. CASE i \in DOMAIN pending
      BY <2>2, <2>5, <3>1
    <3>2. CASE i = Len(pending) + 1
      <4> HIDE DEF q
      <4> QED BY <2>2, <2>6, <3>2
    <3> QED BY <2>1, <2>2, <3>1, <3>2
  <2>8. \A i \in DOMAIN group' :
          /\ group'[i].seq = staged' - Len(pending') - Len(group') + i
          /\ IsPrefix(group'[i].root, world')
          /\ Len(group'[i].root) = Len(world') - Len(pending') - Len(group') + i
    <3> TAKE i \in DOMAIN group'
    <3>1. i \in DOMAIN group /\ group' = group
      BY <1>3
    <3>2. group[i].root \in Seq(StageRecord)
      BY <1>0, <3>1, WriteParts
    <3>3. /\ group[i].seq = staged - Len(pending) - Len(group) + i
          /\ IsPrefix(group[i].root, world)
          /\ Len(group[i].root) = Len(world) - Len(pending) - Len(group) + i
      BY <3>1 DEF IInv, Queued
    <3>4. IsPrefix(group[i].root, world')
      BY <1>6, <3>2, <3>3
    <3> QED BY <1>2, <1>3, <1>5, <2>1, <2>2, <3>1, <3>2, <3>3, <3>4
  <2> QED BY <2>4, <2>7, <2>8 DEF Queued
<1>10. Hardened'
  <2>1. disk \in Seq(StageRecord) /\ unsynced \subseteq Seq(StageRecord)
    BY <1>0 DEF TypeOK
  <2>2. IsPrefix(disk', world')
    BY <1>3, <1>6, <2>1 DEF IInv, Hardened
  <2>3. \A r \in unsynced' : IsPrefix(disk', r) /\ IsPrefix(r, world')
    BY <1>3, <1>6, <2>1 DEF IInv, Hardened
  <2>4. /\ Len(world') - staged' + landed' <= Len(disk')
        /\ Len(disk') <= Len(world') - Len(pending')
    <3>1. /\ staged \in Nat /\ landed \in Nat /\ pending \in Seq(PendingRecord)
          /\ Len(pending') = Len(pending) + 1
      BY <1>0, <1>3 DEF TypeOK
    <3>2. /\ Len(world) - staged + landed <= Len(disk)
          /\ Len(disk) <= Len(world) - Len(pending)
      BY DEF IInv, Hardened
    <3> QED BY <1>2, <1>3, <1>5, <2>1, <3>1, <3>2
  <2>5. \A d \in Threads : pc'[d] = "land" => disk' = Last(group').root
    BY <1>3, <1>4 DEF IInv, Hardened
  <2> QED BY <2>2, <2>3, <2>4, <2>5 DEF Hardened
<1>11. Waiting'
  <2>1. staged \in Nat /\ staged <= Len(world)
    BY <1>0 DEF IInv, Queued, TypeOK
  <2>2. ASSUME NEW d \in Threads \ {c} PROVE Waits(d)'
    <3>1. Waits(d) /\ call[d].target \in Nat
      BY <1>0, CallParts DEF IInv, Waiting
    <3>2. ASSUME call[d].target # 0
          PROVE  Len(world) - staged + call[d].target \in 1..Len(world)
      BY <1>2, <2>1, <3>1, <3>2 DEF Waits
    <3>3. Len(world') - staged' = Len(world) - staged
      BY <1>2, <1>3, <1>5, <2>1
    <3> QED BY <1>3, <1>4, <1>5, <2>1, <3>1, <3>2, <3>3 DEF Waits
  <2>3. Waits(c)'
    <3>1. Len(world') - staged' + (staged + 1) = Len(world) + 1 /\ staged + 1 # 0
      BY <1>2, <1>3, <1>5, <2>1
    <3> QED BY <1>3, <1>4, <1>5, <2>1, <3>1 DEF Waits
  <2> QED BY <2>2, <2>3 DEF Waiting
<1>12. AckedOnDisk'
  BY <1>3 DEF IInv, AckedOnDisk
<1> QED
  BY <1>7, <1>8, <1>9, <1>10, <1>11, <1>12 DEF IInv

(* The queue becomes the group. *)
LEMMA LeadStep ==
  ASSUME IInv, NEW c \in Threads, DriveLead(c)
  PROVE  Leads' /\ Queued' /\ Hardened' /\ Waiting' /\ AckedOnDisk'
<1>0. /\ TypeOK /\ staged \in Nat /\ landed \in Nat /\ failure \in Nat
      /\ pending \in Seq(PendingRecord)
      /\ world \in Seq(StageRecord) /\ disk \in Seq(StageRecord)
  BY DEF IInv, TypeOK
<1>1. /\ group' = pending /\ pending' = << >> /\ writer' = c
      /\ writer = NoOne /\ pending # << >> /\ group = << >>
      /\ UNCHANGED <<world, staged, landed, failure, disk, unsynced, call, acked>>
  BY DEF DriveLead, IInv, Leads, diskVars, replies
<1>2. /\ pc[c] = "drive" /\ pc'[c] = "batch"
      /\ \A d \in Threads \ {c} : pc'[d] = pc[d]
  BY <1>0 DEF DriveLead, Goto, TypeOK
<1>3. Len(pending') = 0 /\ Len(group) = 0 /\ DOMAIN pending' = {} /\ Len(pending) \in Nat
  BY <1>0, <1>1
<1>4. Leads'
  BY <1>1, <1>2 DEF IInv, Leads, Leading, Threads
<1>5. Queued'
  <2>1. /\ Len(group') + Len(pending') <= staged' /\ staged' <= Len(world')
        /\ \/ staged' - Len(pending') - Len(group') <= landed'
           \/ staged' - Len(pending') - Len(group') <= failure'
    BY <1>0, <1>1, <1>3 DEF IInv, Queued
  <2>2. ASSUME NEW i \in DOMAIN group'
        PROVE  /\ group'[i].seq = staged' - Len(pending') - Len(group') + i
               /\ IsPrefix(group'[i].root, world')
               /\ Len(group'[i].root) = Len(world') - Len(pending') - Len(group') + i
    <3>1. /\ pending[i].seq = staged - Len(pending) + i
          /\ IsPrefix(pending[i].root, world)
          /\ Len(pending[i].root) = Len(world) - Len(pending) + i
      BY <1>1 DEF IInv, Queued
    <3>2. i \in Nat
      BY <1>0, <1>1
    <3> QED BY <1>0, <1>1, <1>3, <3>1, <3>2
  <2> QED BY <1>3, <2>1, <2>2 DEF Queued
<1>6. Hardened'
  <2>1. Len(disk') <= Len(world') - Len(pending')
    <3>1. Len(disk) <= Len(world) - Len(pending)
      BY DEF IInv, Hardened
    <3> QED BY <1>0, <1>1, <1>3, <3>1
  <2>2. \A d \in Threads : pc'[d] # "land"
    BY <1>1, <1>2 DEF IInv, Leads, Leading, Threads
  <2> QED BY <1>1, <2>1, <2>2 DEF IInv, Hardened
<1>7. Waiting'
  BY <1>1, <1>2 DEF IInv, Waiting, Waits
<1>8. AckedOnDisk'
  BY <1>1 DEF IInv, AckedOnDisk
<1> QED
  BY <1>4, <1>5, <1>6, <1>7, <1>8

LEMMA DriveStep ==
  ASSUME IInv, NEW c \in Threads, Drive(c)
  PROVE  IInv'
<1> USE DEF durVars, diskVars, replies
<1>0. TypeOK /\ TypeOK' /\ AckedOnDisk
  BY DriveType DEF IInv
<1>1. CASE DriveDoomed(c)
  <2>1. /\ pc' = [pc EXCEPT ![c] = pc'[c]] /\ pc[c] = "drive" /\ pc'[c] = "idle"
        /\ call'[c] = IdleCall
        /\ \A d \in Threads \ {c} : pc'[d] = pc[d] /\ call'[d] = call[d]
    BY <1>0, <1>1 DEF DriveDoomed, TypeOK
  <2>2. UNCHANGED Store /\ UNCHANGED acked
    BY <1>1 DEF DriveDoomed, Store
  <2>3. Leads' /\ Queued' /\ Hardened'
    BY <2>1, <2>2, QuietStep DEF Leading
  <2>4. Waiting'
    BY <2>1, <2>2 DEF IInv, Waiting, Waits, Store, IdleCall
  <2> QED BY <1>0, <2>2, <2>3, <2>4 DEF IInv, AckedOnDisk, Store
<1>2. CASE DriveDone(c)
  <2>1. /\ pc' = [pc EXCEPT ![c] = pc'[c]] /\ pc[c] = "drive" /\ pc'[c] = "return"
        /\ \A d \in Threads \ {c} : pc'[d] = pc[d]
    BY <1>0, <1>2 DEF DriveDone, Goto, TypeOK
  <2>2. UNCHANGED <<Store, call, acked>>
    BY <1>2 DEF DriveDone, Store
  <2>3. Leads' /\ Queued' /\ Hardened'
    BY <2>1, <2>2, QuietStep DEF Leading
  <2>4. call[c].target <= landed
    BY <1>0, <1>2 DEF DriveDone, Done, TypeOK
  <2>5. Waiting'
    BY <2>1, <2>2, <2>4 DEF IInv, Waiting, Waits, Store
  <2> QED BY <1>0, <2>2, <2>3, <2>5 DEF IInv, AckedOnDisk, Store
<1>3. CASE DriveSleep(c)
  <2>1. /\ pc' = [pc EXCEPT ![c] = pc'[c]] /\ pc[c] = "drive" /\ pc'[c] = "asleep"
        /\ \A d \in Threads \ {c} : pc'[d] = pc[d]
    BY <1>0, <1>3 DEF DriveSleep, Goto, TypeOK
  <2>2. UNCHANGED <<Store, call, acked>>
    BY <1>3 DEF DriveSleep, Store
  <2>3. Leads' /\ Queued' /\ Hardened'
    BY <2>1, <2>2, QuietStep DEF Leading
  <2>4. Waiting'
    BY <2>1, <2>2 DEF IInv, Waiting, Waits, Store
  <2> QED BY <1>0, <2>2, <2>3, <2>4 DEF IInv, AckedOnDisk, Store
<1>4. CASE DriveLead(c)
  BY <1>0, <1>4, LeadStep DEF IInv
<1> QED
  BY <1>1, <1>2, <1>3, <1>4 DEF Drive

(* The leader's newest write is the last one numbered before the queue,    *)
(* and its root is the world as of it.                                     *)
LEMMA LastInGroup ==
  ASSUME IInv, group # << >>
  PROVE  /\ Last(group).seq = staged - Len(pending)
         /\ Last(group).root \in Seq(StageRecord)
         /\ IsPrefix(Last(group).root, world)
         /\ Len(Last(group).root) = Len(world) - Len(pending)
         /\ IsPrefix(disk, Last(group).root)
<1>1. /\ TypeOK /\ staged \in Nat /\ Len(pending) \in Nat /\ Len(group) \in Nat
      /\ world \in Seq(StageRecord) /\ disk \in Seq(StageRecord)
  BY DEF IInv, TypeOK
<1>2. Len(group) \in DOMAIN group /\ Last(group).root \in Seq(StageRecord)
  BY <1>1, LastWrite
<1>3. /\ Last(group).seq = staged - Len(pending) - Len(group) + Len(group)
      /\ IsPrefix(Last(group).root, world)
      /\ Len(Last(group).root) = Len(world) - Len(pending) - Len(group) + Len(group)
  BY <1>2 DEF IInv, Queued, Last
<1>4. /\ Last(group).seq = staged - Len(pending)
      /\ Len(Last(group).root) = Len(world) - Len(pending)
  BY <1>1, <1>3
<1>5. IsPrefix(disk, world) /\ Len(disk) <= Len(Last(group).root)
  BY <1>4 DEF IInv, Hardened
<1>6. IsPrefix(disk, Last(group).root)
  BY <1>1, <1>2, <1>3, <1>5, PrefixesComparable
<1> QED
  BY <1>2, <1>3, <1>4, <1>6

LEMMA WriteStep ==
  ASSUME IInv, NEW c \in Threads, Write(c)
  PROVE  IInv'
<1> USE DEF durVars, lockVars, replies
<1>0. /\ TypeOK /\ Leading(c) /\ writer = c /\ group # << >> /\ GroupHeld
      /\ \A d \in Threads \ {c} : ~ Leading(d)
  BY DEF IInv, Leads, Leading, GroupHeld, Write, WriteBatch, SyncOk, Land, Threads
<1>1. TypeOK'
  BY <1>0, WriteType
<1>2. /\ world \in Seq(StageRecord) /\ disk \in Seq(StageRecord)
      /\ staged \in Nat /\ landed \in Nat /\ failure \in Nat /\ Len(pending) \in Nat
      /\ Len(group) \in Nat
  BY <1>0 DEF TypeOK
<1>3. CASE WriteBatch(c)
  <2>1. /\ pc'[c] = "sync" /\ pc[c] = "batch"
        /\ \A d \in Threads \ {c} : pc'[d] = pc[d]
        /\ unsynced' = unsynced \cup {Last(group).root}
        /\ UNCHANGED <<world, staged, landed, failure, pending, group, writer, disk,
                       call, acked>>
    BY <1>0, <1>3 DEF WriteBatch, Goto, TypeOK
  <2>2. Leads' /\ Queued'
    BY <2>1 DEF IInv, Leads, Leading, Queued
  <2>3. Hardened'
    <3>1. \A r \in unsynced' : IsPrefix(disk, r) /\ IsPrefix(r, world)
      BY <1>0, <2>1, LastInGroup DEF IInv, Hardened
    <3> QED BY <2>1, <3>1 DEF IInv, Hardened
  <2>4. Waiting' /\ AckedOnDisk'
    BY <2>1 DEF IInv, Waiting, Waits, AckedOnDisk
  <2> QED BY <1>1, <2>2, <2>3, <2>4 DEF IInv
<1>4. CASE SyncOk(c)
  <2>1. /\ pc'[c] = "land" /\ pc[c] = "sync"
        /\ \A d \in Threads \ {c} : pc'[d] = pc[d]
        /\ disk' = Last(group).root /\ unsynced' = {}
        /\ UNCHANGED <<world, staged, landed, failure, pending, group, writer,
                       call, acked>>
    BY <1>0, <1>4 DEF SyncOk, Goto, TypeOK
  <2>2. Leads' /\ Queued'
    BY <2>1 DEF IInv, Leads, Leading, Queued
  <2>3. Hardened'
    <3>1. IsPrefix(disk', world') /\ Len(disk') = Len(world') - Len(pending')
      BY <1>0, <2>1, LastInGroup
    <3>2. Len(world) - staged + landed <= Len(disk')
      <4>1. /\ Len(world) - staged + landed <= Len(disk)
            /\ Len(disk) <= Len(world) - Len(pending)
        BY DEF IInv, Hardened
      <4> QED BY <1>2, <2>1, <3>1, <4>1
    <3>3. Len(disk') <= Len(world') - Len(pending')
      BY <1>2, <2>1, <3>1
    <3>4. \A d \in Threads : pc'[d] = "land" => disk' = Last(group').root
      BY <2>1
    <3> QED BY <2>1, <3>1, <3>2, <3>3, <3>4 DEF Hardened
  <2>4. Waiting'
    BY <2>1 DEF IInv, Waiting, Waits
  <2>5. AckedOnDisk'
    <3>1. ToSet(disk) \subseteq ToSet(disk')
      BY <1>0, <1>2, <2>1, LastInGroup, PrefixKeeps
    <3> QED BY <2>1, <3>1 DEF IInv, AckedOnDisk
  <2> QED BY <1>1, <2>2, <2>3, <2>4, <2>5 DEF IInv
<1>5. CASE Land(c)
  <2>1. /\ pc'[c] = "drive" /\ pc[c] = "land"
        /\ \A d \in Threads \ {c} :
              pc'[d] = IF pc[d] = "asleep" THEN "drive" ELSE pc[d]
        /\ writer' = NoOne /\ group' = << >> /\ landed' = LandedThrough
        /\ UNCHANGED <<world, staged, failure, pending, disk, unsynced, call, acked>>
    BY <1>0, <1>5 DEF Land, NotifyAll, TypeOK, diskVars
  <2>2. landed' \in Nat /\ landed <= landed' /\ Last(group).seq <= landed'
        /\ landed' \in {landed, Last(group).seq}
    BY <1>0, <1>2, <2>1, LastWrite, MaxOfTwo DEF LandedThrough
  <2>3. Last(group).seq = staged - Len(pending)
        /\ disk = Last(group).root /\ Len(disk) = Len(world) - Len(pending)
    BY <1>0, <2>1, LastInGroup DEF IInv, Hardened
  <2>4. Leads'
    BY <1>0, <2>1 DEF Leads, Leading, Threads
  <2>5. Queued'
    <3>1. /\ Len(group') = 0 /\ DOMAIN group' = {}
          /\ Len(group) + Len(pending) <= staged /\ staged <= Len(world)
      BY <2>1 DEF IInv, Queued
    <3>2. /\ Len(group') + Len(pending') <= staged' /\ staged' <= Len(world')
          /\ staged' - Len(pending') - Len(group') <= landed'
      BY <1>2, <2>1, <2>2, <2>3, <3>1
    <3> QED BY <2>1, <3>1, <3>2 DEF IInv, Queued
  <2>6. Hardened'
    <3>1. Len(world) - staged + landed' <= Len(disk)
      <4>1. Len(world) - staged + landed <= Len(disk)
        BY DEF IInv, Hardened
      <4> QED BY <1>2, <2>2, <2>3, <4>1
    <3>2. \A d \in Threads : pc'[d] # "land"
      BY <1>0, <2>1 DEF Leading
    <3> QED BY <2>1, <3>1, <3>2 DEF IInv, Hardened
  <2>7. Waiting'
    <3>1. ASSUME NEW d \in Threads PROVE Waits(d)'
      <4>1. Waits(d) /\ call[d].target \in Nat
        BY <1>0, CallParts DEF IInv, Waiting
      <4>2. pc'[d] = "return" => pc[d] = "return"
        BY <2>1
      <4>3. pc'[d] \notin {"idle", "locked"} => pc[d] \notin {"idle", "locked"}
        BY <2>1
      <4> QED BY <1>2, <2>1, <2>2, <4>1, <4>2, <4>3 DEF Waits
    <3> QED BY <3>1 DEF Waiting
  <2>8. AckedOnDisk'
    BY <2>1 DEF IInv, AckedOnDisk
  <2> QED BY <1>1, <2>4, <2>5, <2>6, <2>7, <2>8 DEF IInv
<1> QED
  BY <1>3, <1>4, <1>5 DEF Write

(* A failed group is written off up to its newest number; the world and    *)
(* the disk stay as they are.                                              *)
LEMMA GroupFailsStep ==
  ASSUME IInv, NEW c \in Threads, GroupFails(c)
  PROVE  IInv'
<1>0. /\ TypeOK /\ Leading(c) /\ writer = c /\ group # << >> /\ GroupHeld
      /\ \A d \in Threads \ {c} : ~ Leading(d)
  BY DEF IInv, Leads, Leading, GroupHeld, GroupFails, Threads
<1>1. TypeOK'
  BY <1>0, GroupFailsType
<1>2. /\ staged \in Nat /\ landed \in Nat /\ Len(pending) \in Nat /\ Len(group) \in Nat
      /\ Last(group).seq = staged - Len(pending)
  BY <1>0, LastInGroup DEF TypeOK
<1>3. /\ pc'[c] = "idle" /\ call'[c] = IdleCall
      /\ \A d \in Threads \ {c} :
            /\ pc'[d] = IF pc[d] = "asleep" THEN "drive" ELSE pc[d]
            /\ call'[d] = call[d]
      /\ writer' = NoOne /\ group' = << >> /\ failure' = Last(group).seq
      /\ UNCHANGED <<world, staged, landed, pending, disk, unsynced, acked>>
  BY <1>0 DEF GroupFails, KeptInMemory, NotifyAll, TypeOK, diskVars
<1>4. Leads'
  BY <1>0, <1>3 DEF Leads, Leading, Threads
<1>5. Queued'
  <2>1. /\ Len(group') = 0 /\ DOMAIN group' = {}
        /\ Len(group) + Len(pending) <= staged /\ staged <= Len(world)
    BY <1>3 DEF IInv, Queued
  <2>2. /\ Len(group') + Len(pending') <= staged' /\ staged' <= Len(world')
        /\ staged' - Len(pending') - Len(group') <= failure'
    BY <1>2, <1>3, <2>1
  <2> QED BY <1>3, <2>1, <2>2 DEF IInv, Queued
<1>6. Hardened'
  <2>1. \A d \in Threads : pc'[d] # "land"
    BY <1>0, <1>3 DEF Leading
  <2> QED BY <1>3, <2>1 DEF IInv, Hardened
<1>7. Waiting'
  BY <1>3 DEF IInv, Waiting, Waits, IdleCall
<1>8. AckedOnDisk'
  BY <1>3 DEF IInv, AckedOnDisk
<1> QED
  BY <1>1, <1>4, <1>5, <1>6, <1>7, <1>8 DEF IInv

(* A thread answered about a stage finds that stage on disk. *)
LEMMA AnsweredStage ==
  ASSUME IInv, NEW c \in Threads, pc[c] = "return", call[c].target # 0
  PROVE  [branch |-> call[c].branch, state |-> call[c].state] \in ToSet(disk)
<1>0. TypeOK /\ call[c].target \in Nat
  BY CallParts DEF IInv
<1>1. /\ staged \in Nat /\ landed \in Nat /\ call[c].target \in Nat
      /\ world \in Seq(StageRecord) /\ disk \in Seq(StageRecord)
      /\ Len(pending) \in Nat
  BY <1>0 DEF TypeOK
<1>2. /\ call[c].target <= staged /\ call[c].target <= landed
      /\ world[Len(world) - staged + call[c].target]
           = [branch |-> call[c].branch, state |-> call[c].state]
  BY DEF IInv, Waiting, Waits
<1>3. /\ IsPrefix(disk, world) /\ Len(world) - staged + landed <= Len(disk)
      /\ staged <= Len(world)
  BY DEF IInv, Hardened, Queued
<1> DEFINE i == Len(world) - staged + call[c].target
<1>4. i \in 1..Len(disk)
  BY <1>1, <1>2, <1>3
<1>5. disk[i] = world[i]
  <2> HIDE DEF i
  <2> QED BY <1>1, <1>3, <1>4, PrefixPointwise
<1>6. i \in DOMAIN disk
  <2> HIDE DEF i
  <2> QED BY <1>1, <1>4
<1> QED
  BY <1>2, <1>5, <1>6 DEF ToSet

LEMMA FinishStep ==
  ASSUME IInv, NEW c \in Threads, Finish(c)
  PROVE  IInv'
<1> USE DEF durVars, diskVars, lockVars, replies
<1>0. TypeOK /\ TypeOK' /\ AckedOnDisk /\ pc[c] = "return"
  BY FinishType
  DEF IInv, Finish, StageReturns, ForkFlushed, ForkReturns, GcReturns, BranchReturns
<1>1. CASE ForkFlushed(c)
  <2>1. /\ pc' = [pc EXCEPT ![c] = pc'[c]] /\ pc'[c] = "locked"
        /\ \A d \in Threads \ {c} : pc'[d] = pc[d]
    BY <1>0, <1>1 DEF ForkFlushed, Goto, TypeOK
  <2>2. UNCHANGED <<Store, call, acked>>
    BY <1>1 DEF ForkFlushed, Store
  <2>3. Leads' /\ Queued' /\ Hardened'
    BY <1>0, <2>1, <2>2, QuietStep DEF Leading
  <2>4. Waiting'
    BY <2>1, <2>2 DEF IInv, Waiting, Waits, Store
  <2> QED BY <1>0, <2>2, <2>3, <2>4 DEF IInv, AckedOnDisk, Store
<1>2. CASE StageReturns(c) \/ ForkReturns(c) \/ GcReturns(c) \/ BranchReturns(c)
  <2>1. /\ pc' = [pc EXCEPT ![c] = pc'[c]] /\ pc'[c] = "idle"
        /\ call'[c] = IdleCall
        /\ \A d \in Threads \ {c} : pc'[d] = pc[d] /\ call'[d] = call[d]
    BY <1>0, <1>2 DEF StageReturns, ForkReturns, GcReturns, BranchReturns,
       Return, Goto, TypeOK
  <2>2. UNCHANGED Store
    BY <1>2 DEF StageReturns, ForkReturns, GcReturns, BranchReturns, On, Store
  <2>3. Leads' /\ Queued' /\ Hardened'
    BY <1>0, <2>1, <2>2, QuietStep DEF Leading
  <2>4. Waiting'
    BY <2>1, <2>2 DEF IInv, Waiting, Waits, Store, IdleCall
  <2>5. AckedOnDisk'
    <3>1. CASE StageReturns(c)
      <4>1. call[c].target # 0
        BY <1>0, <3>1 DEF StageReturns, IInv, Waiting, Waits
      <4> QED BY <1>0, <2>2, <3>1, <4>1, AnsweredStage
              DEF StageReturns, AckedOnDisk, Store
    <3>2. CASE ForkReturns(c)
      BY <1>0, <2>2, <3>2, AnsweredStage DEF ForkReturns, AckedOnDisk, Store
    <3>3. CASE GcReturns(c) \/ BranchReturns(c)
      BY <1>0, <2>2, <3>3 DEF GcReturns, BranchReturns, AckedOnDisk, Store
    <3> QED BY <1>2, <3>1, <3>2, <3>3
  <2> QED BY <1>0, <2>3, <2>4, <2>5 DEF IInv
<1> QED
  BY <1>1, <1>2 DEF Finish

(* After a crash the queue is empty and memory is what the disk kept. *)
LEMMA CrashStep ==
  ASSUME IInv, Crash
  PROVE  IInv'
<1>0. TypeOK /\ TypeOK'
  BY CrashType DEF IInv
<1>1. PICK r \in {disk} \cup unsynced :
        /\ world' = r /\ disk' = r /\ unsynced' = {}
        /\ pending' = << >> /\ staged' = 0 /\ landed' = 0
        /\ writer' = NoOne /\ group' = << >> /\ failure' = 0
        /\ pc' = [c \in Threads |-> "idle"]
        /\ call' = [c \in Threads |-> IdleCall]
        /\ acked' = acked
  BY DEF Crash, replies
<1>2. r \in Seq(StageRecord) /\ disk \in Seq(StageRecord) /\ IsPrefix(disk, r)
  <2>1. disk \in Seq(StageRecord) /\ unsynced \subseteq Seq(StageRecord)
    BY <1>0 DEF TypeOK
  <2> QED BY <2>1, PrefixReflexive DEF IInv, Hardened
<1>3. Leads'
  BY <1>1 DEF Leads, Leading, Threads
<1>4. Queued'
  <2>1. Len(pending') = 0 /\ Len(group') = 0 /\ DOMAIN pending' = {} /\ DOMAIN group' = {}
    BY <1>1
  <2>2. Len(world') \in Nat
    BY <1>1, <1>2
  <2> QED BY <1>1, <2>1, <2>2 DEF Queued
<1>5. Hardened'
  <2>1. IsPrefix(disk', world')
    BY <1>1, <1>2, PrefixReflexive
  <2>2. Len(pending') = 0 /\ Len(world') \in Nat /\ Len(disk') = Len(world')
    BY <1>1, <1>2
  <2> QED BY <1>1, <2>1, <2>2 DEF Hardened
<1>6. Waiting'
  BY <1>1 DEF Waiting, Waits, IdleCall
<1>7. AckedOnDisk'
  <2>1. ToSet(disk) \subseteq ToSet(r)
    BY <1>2, PrefixKeeps
  <2> QED BY <1>1, <2>1 DEF IInv, AckedOnDisk
<1> QED
  BY <1>0, <1>3, <1>4, <1>5, <1>6, <1>7 DEF IInv

LEMMA Inductive == IInv /\ [Next]_vars => IInv'
<1> SUFFICES ASSUME IInv, [Next]_vars PROVE IInv'
  OBVIOUS
<1>1. ASSUME NEW c \in Clients, Begin(c) PROVE IInv'
  BY <1>1, BeginStep
<1>2. ASSUME NEW c \in Observers, NEW b \in Branches, BranchStart(c, b) PROVE IInv'
  BY <1>2, BranchStartStep
<1>3. ASSUME NEW c \in Threads, Stage(c) \/ StageFork(c) PROVE IInv'
  BY <1>3, StagingStep
<1>4. ASSUME NEW c \in Threads, Drive(c) PROVE IInv'
  BY <1>4, DriveStep
<1>5. ASSUME NEW c \in Threads, Write(c) PROVE IInv'
  BY <1>5, WriteStep
<1>6. ASSUME NEW c \in Threads, GroupFails(c) PROVE IInv'
  BY <1>6, GroupFailsStep
<1>7. ASSUME NEW c \in Threads, Finish(c) PROVE IInv'
  BY <1>7, FinishStep
<1>8. CASE Crash
  BY <1>8, CrashStep
<1>9. CASE UNCHANGED vars
  BY <1>9 DEF vars, durVars, diskVars, lockVars, replies, IInv, TypeOK, Leads, Leading,
     Queued, Hardened, Waiting, Waits, AckedOnDisk
<1> QED
  BY <1>1, <1>2, <1>3, <1>4, <1>5, <1>6, <1>7, <1>8, <1>9 DEF Next

LEMMA SpecIInv == Spec => []IInv
  BY InitIInv, Inductive, PTL DEF Spec

----------------------------------------------------------------------------
(* The theorems.                                                           *)

(* Every variable keeps its type, through failures and crashes. *)
THEOREM TypeCorrect == Spec => []TypeOK
<1>1. IInv => TypeOK
  BY DEF IInv
<1> QED
  BY <1>1, SpecIInv, PTL

(* Ok means durable: what commit, commit_if, fork_at or reshape_default    *)
(* (the staging ones) returned Ok for is on disk and stays there.          *)
THEOREM AckedStaysOnDisk == Spec => []AckedOnDisk
<1>1. IInv => AckedOnDisk
  BY DEF IInv
<1> QED
  BY <1>1, SpecIInv, PTL

(* Whatever a crash leaves extends what was synced and is an earlier root  *)
(* of the one history the threads share (stage_in queues in staging order, *)
(* write_group writes the newest root of its group).                       *)
THEOREM CrashLeavesPrefix == Spec => []RecoverableIsPrefix
<1>1. IInv => RecoverableIsPrefix
  <2> SUFFICES ASSUME IInv PROVE RecoverableIsPrefix
    OBVIOUS
  <2>1. disk \in Seq(StageRecord)
    BY DEF IInv, TypeOK
  <2> QED BY <2>1, PrefixReflexive DEF IInv, Hardened, RecoverableIsPrefix
<1> QED
  BY <1>1, SpecIInv, PTL

(* drive_durability's last branch, a stage "neither pending nor durable",  *)
(* is never reached: the numbers from what landed or failed up to `staged` *)
(* are all in the group or the queue.                                      *)
THEOREM StageNeverLost == Spec => []NeverLost
<1>1. IInv => NeverLost
  <2> SUFFICES ASSUME IInv, NEW c \in Threads, call[c].target # 0,
                      ~ (landed >= call[c].target), ~ (failure >= call[c].target)
               PROVE  \/ \E i \in DOMAIN pending : pending[i].seq = call[c].target
                      \/ \E i \in DOMAIN group : group[i].seq = call[c].target
    BY DEF NeverLost
  <2> DEFINE t == call[c].target
  <2>0. TypeOK /\ t \in Nat
    BY CallParts DEF IInv
  <2>1. /\ t \in Nat /\ staged \in Nat /\ landed \in Nat /\ failure \in Nat
        /\ Len(pending) \in Nat /\ Len(group) \in Nat
        /\ DOMAIN pending = 1..Len(pending) /\ DOMAIN group = 1..Len(group)
    BY <2>0 DEF TypeOK
  <2>2. t <= staged
    BY DEF IInv, Waiting, Waits
  <2>3. staged - Len(pending) - Len(group) < t
    BY <2>1 DEF IInv, Queued
  <2>4. CASE t > staged - Len(pending)
    <3>1. t - (staged - Len(pending)) \in DOMAIN pending
      BY <2>1, <2>2, <2>4
    <3>2. pending[t - (staged - Len(pending))].seq = t
      BY <2>1, <3>1 DEF IInv, Queued
    <3> QED BY <3>1, <3>2
  <2>5. CASE t <= staged - Len(pending)
    <3>1. t - (staged - Len(pending) - Len(group)) \in DOMAIN group
      BY <2>1, <2>3, <2>5
    <3>2. group[t - (staged - Len(pending) - Len(group))].seq = t
      BY <2>1, <3>1 DEF IInv, Queued
    <3> QED BY <3>1, <3>2
  <2> QED BY <2>1, <2>4, <2>5
<1> QED
  BY <1>1, SpecIInv, PTL

----------------------------------------------------------------------------
(* DurableWorld's promise.  A stage is built under the branch's edition    *)
(* lock and appended to the world some steps later.  That it is then still *)
(* lawful is what the invariant below adds to IInv: the lock keeps the     *)
(* branch as it was when the stage was built.                              *)

(* A thread that has built a stage and not yet staged it: a commit or a    *)
(* reshape on its way to the root lock, a fork landing the queue first.    *)
Reserved(c) ==
  \/ pc[c] = "locked"
  \/ call[c].op = "fork" /\ call[c].target = 0 /\ pc[c] # "idle"

(* What it built follows from the branch as it is now. *)
Built(c) ==
  LET now == StateOf(world, call[c].branch)
  IN \/ /\ call[c].op = "commit"
        /\ \E p \in Patches : /\ Validated(call[c].branch, p)
                              /\ call[c].state = Applied(now, p)
     \/ /\ call[c].op = "reshape" /\ Current(now) = 0
        /\ \E s \in Shapes : call[c].state = [now EXCEPT !.shape = s]
     \/ /\ call[c].op = "fork"
        /\ \E at \in 0..Current(now) : call[c].state = ForkedFrom(now, call[c].branch, at)

Keeps(c) ==
  Reserved(c) => /\ edLock[call[c].branch] = c
                 /\ Known(world, call[c].branch)
                 /\ Built(c)
Reserves == \A c \in Threads : Keeps(c)

(* Handles exist only on branches the dag knows. *)
OpenedKnown == \A b \in opened : Known(world, b)

Lawfully == IInv /\ Reserves /\ OpenedKnown

----------------------------------------------------------------------------
(* The abstract module reads a root record as World does.                  *)

LEMMA SameStages ==
  ASSUME NEW w, NEW b
  PROVE  Promise!StagesOf(w, b) = StagesOf(w, b)
  BY DEF Promise!StagesOf, StagesOf

LEMMA SameKnown ==
  ASSUME NEW w, NEW b
  PROVE  Promise!Known(w, b) <=> Known(w, b)
  BY SameStages DEF Promise!Known, Known, Promise!Root, Root

LEMMA SameMax ==
  ASSUME NEW S
  PROVE  Promise!Max(S) = Max(S)
  BY DEF Promise!Max, Max

LEMMA SameState ==
  ASSUME NEW w, NEW b
  PROVE  Promise!StateOf(w, b) = StateOf(w, b)
  BY SameStages, SameMax
  DEF Promise!StateOf, StateOf, Promise!EmptyState, EmptyState, Promise!Root, Root

LEMMA SameNext ==
  ASSUME NEW w
  PROVE  Promise!NextBranch(w) = NextBranch(w)
<1>1. {b \in Promise!Branches : Promise!Known(w, b)} = {b \in Branches : Known(w, b)}
  BY SameKnown DEF Promise!Branches, Branches
<1> QED
  BY <1>1, SameMax DEF Promise!NextBranch, NextBranch

LEMMA SameCurrent ==
  ASSUME NEW s
  PROVE  Promise!Current(s) = Current(s)
  BY DEF Promise!Current, Current

LEMMA SameFacts ==
  ASSUME NEW s, NEW e
  PROVE  Promise!FactsAt(s, e) = FactsAt(s, e)
  BY DEF Promise!FactsAt, FactsAt

LEMMA SameHolds ==
  ASSUME NEW s, NEW f
  PROVE  Promise!HoldsNow(s, f) <=> HoldsNow(s, f)
  BY SameFacts, SameCurrent DEF Promise!HoldsNow, HoldsNow

LEMMA SameApplied ==
  ASSUME NEW s, NEW p
  PROVE  Promise!Applied(s, p) = Applied(s, p)
  BY SameFacts, SameCurrent DEF Promise!Applied, Applied

LEMMA SameFork ==
  ASSUME NEW s, NEW b, NEW at
  PROVE  Promise!ForkedFrom(s, b, at) = ForkedFrom(s, b, at)
  BY DEF Promise!ForkedFrom, ForkedFrom

LEMMA SamePrefix ==
  ASSUME NEW s, NEW t
  PROVE  Promise!IsPrefix(s, t) <=> IsPrefix(s, t)
  BY DEF Promise!IsPrefix, IsPrefix

----------------------------------------------------------------------------
(* A root record and one more stage.                                       *)

LEMMA StagesAfter ==
  ASSUME NEW w \in Seq(StageRecord), NEW x \in StageRecord, NEW b \in Branches
  PROVE  /\ StagesOf(w, b) \subseteq StagesOf(Append(w, x), b)
         /\ x.branch = b => Len(w) + 1 \in StagesOf(Append(w, x), b)
         /\ x.branch # b => StagesOf(Append(w, x), b) = StagesOf(w, b)
<1>1. /\ Len(Append(w, x)) = Len(w) + 1 /\ Append(w, x)[Len(w) + 1] = x
      /\ \A i \in 1..Len(w) : Append(w, x)[i] = w[i]
  OBVIOUS
<1>2. Len(w) \in Nat /\ 1..(Len(w) + 1) = (1..Len(w)) \cup {Len(w) + 1}
  OBVIOUS
<1> QED
  BY <1>1, <1>2 DEF StagesOf

(* Staging leaves the other branches as they were ... *)
LEMMA OthersStand ==
  ASSUME NEW w \in Seq(StageRecord), NEW x \in StageRecord, NEW b \in Branches,
         x.branch # b
  PROVE  StateOf(Append(w, x), b) = StateOf(w, b)
<1>1. StagesOf(Append(w, x), b) = StagesOf(w, b)
  BY StagesAfter
<1>2. CASE StagesOf(w, b) = {}
  BY <1>1, <1>2 DEF StateOf
<1>3. CASE StagesOf(w, b) # {}
  <2>1. StagesOf(w, b) \in SUBSET Nat /\ \A i \in StagesOf(w, b) : i <= Len(w)
    BY DEF StagesOf
  <2>2. Len(w) \in Nat
    OBVIOUS
  <2>3. Max(StagesOf(w, b)) \in 1..Len(w)
    BY <1>3, <2>1, <2>2, MaxProperties DEF StagesOf
  <2>4. Append(w, x)[Max(StagesOf(w, b))] = w[Max(StagesOf(w, b))]
    BY <2>3
  <2> QED BY <1>1, <1>3, <2>4 DEF StateOf
<1> QED
  BY <1>2, <1>3

(* ... and forgets no branch. *)
LEMMA KnownGrows ==
  ASSUME NEW w \in Seq(StageRecord), NEW x \in StageRecord, NEW b \in Branches,
         Known(w, b) \/ x.branch = b
  PROVE  Known(Append(w, x), b)
  BY StagesAfter DEF Known

(* Dag::fork's id is a new one. *)
LEMMA NextIsFresh ==
  ASSUME NEW w, NEW b \in Branches, Known(w, b)
  PROVE  NextBranch(w) # b
<1> DEFINE K == {k \in Branches : Known(w, k)}
<1>1. K \in SUBSET Nat /\ K # {} /\ b \in K /\ \A k \in K : k <= MaxBranch
  BY DEF Branches
<1>2. MaxBranch \in Nat
  OBVIOUS
<1>3. Max(K) \in K /\ b <= Max(K)
  <2> HIDE DEF K
  <2> QED BY <1>1, <1>2, MaxProperties
<1>4. NextBranch(w) = 1 + Max(K)
  BY DEF NextBranch
<1>5. Max(K) \in Nat /\ b \in Nat
  <2> HIDE DEF K
  <2> QED BY <1>1, <1>3
<1> HIDE DEF K
<1> QED
  BY <1>3, <1>4, <1>5

----------------------------------------------------------------------------
(* The invariant is inductive.                                             *)

(* A thread that keeps its lock, its call and the branch it built on keeps *)
(* what it built good.                                                     *)
LEMMA KeptApart ==
  ASSUME TypeOK, NEW d \in Threads, Keeps(d),
         call'[d] = call[d], Reserved(d)' => Reserved(d),
         edLock[call[d].branch] = d => edLock'[call[d].branch] = d,
         Known(world, call[d].branch) => Known(world, call[d].branch)',
         \/ ~ Reserved(d)
         \/ StateOf(world, call[d].branch)' = StateOf(world, call[d].branch)
  PROVE  Keeps(d)'
<1> SUFFICES ASSUME Reserved(d)' PROVE Keeps(d)'
  BY DEF Keeps
<1>1. Reserved(d) /\ edLock[call[d].branch] = d /\ Known(world, call[d].branch) /\ Built(d)
  BY DEF Keeps
<1>2. StateOf(world', call[d].branch) = StateOf(world, call[d].branch)
  BY <1>1
<1>3. Known(world', call'[d].branch) /\ edLock'[call'[d].branch] = d
  BY <1>1
<1>4. Built(d)'
  BY <1>1, <1>2 DEF Built, Validated
<1> QED
  BY <1>3, <1>4 DEF Keeps

(* Where the world does not move, only locks, labels and calls matter.     *)
LEMMA KeptStill ==
  ASSUME TypeOK, NEW d \in Threads, Keeps(d), UNCHANGED world,
         call'[d] = call[d], Reserved(d)' => Reserved(d),
         edLock[call[d].branch] = d => edLock'[call[d].branch] = d
  PROVE  Keeps(d)'
  BY KeptApart

(* A step of thread c that stages nothing, takes no lock but c's own and   *)
(* leaves the other threads' calls alone.                                  *)
LEMMA KeptByOthers ==
  ASSUME TypeOK, Reserves, NEW c \in Threads, UNCHANGED world,
         (\A d \in Threads \ {c} : /\ call'[d] = call[d]
                                   /\ Reserved(d)' => Reserved(d)),
         \/ UNCHANGED edLock
         \/ (\E b \in Branches : TakeEditionLock(c, b))
         \/ ReturnErr(c),
         Keeps(c)'
  PROVE  Reserves'
<1> SUFFICES ASSUME NEW d \in Threads \ {c} PROVE Keeps(d)'
  BY DEF Reserves
<1>1. call[d].branch \in Branches
  BY CallParts
<1>2. edLock[call[d].branch] = d => edLock'[call[d].branch] = d
  <2>1. d # NoOne
    BY DEF Threads
  <2>2. ASSUME NEW b \in Branches, TakeEditionLock(c, b)
        PROVE  edLock[call[d].branch] = d => edLock'[call[d].branch] = d
    BY <1>1, <2>1, <2>2 DEF TakeEditionLock, TypeOK
  <2>3. CASE ReturnErr(c)
    BY <1>1, <2>3 DEF ReturnErr
  <2> QED BY <2>2, <2>3
<1> QED
  BY <1>2, KeptStill DEF Reserves

LEMMA LawfullyInit == Init => Lawfully
<1> SUFFICES ASSUME Init PROVE Lawfully
  OBVIOUS
<1>1. IInv
  BY InitIInv
<1>2. Reserves
  BY DEF Init, Reserves, Keeps, Reserved, IdleCall
<1>3. OpenedKnown
  BY DEF Init, OpenedKnown, Known
<1> QED
  BY <1>1, <1>2, <1>3 DEF Lawfully

LEMMA BeginKeeps ==
  ASSUME Lawfully, NEW c \in Clients, Begin(c)
  PROVE  Reserves' /\ OpenedKnown'
<1> c \in Threads /\ TypeOK /\ Reserves /\ OpenedKnown
  BY DEF Threads, Lawfully, IInv
<1> USE DEF durVars, diskVars, lockVars, replies
<1>1. ASSUME NEW op \in Calls, NEW b \in Branches, NEW s, NEW label,
             Calling(c, op, b, s, 0), Goto(c, label)
      PROVE  /\ call'[c] = [op |-> op, branch |-> b, state |-> s, target |-> 0]
             /\ pc'[c] = label
             /\ \A d \in Threads \ {c} : call'[d] = call[d] /\ pc'[d] = pc[d]
             /\ \A d \in Threads \ {c} : Reserved(d)' => Reserved(d)
  BY <1>1 DEF Calling, Goto, TypeOK, Reserved
<1>2. ASSUME NEW b \in Branches, NEW p \in Patches, CommitStart(c, b, p)
      PROVE  Reserves' /\ OpenedKnown'
  <2>1. /\ call'[c] = [op |-> "commit", branch |-> b,
                       state |-> Applied(StateOf(world, b), p), target |-> 0]
        /\ pc'[c] = "locked" /\ UNCHANGED <<world, opened>> /\ TakeEditionLock(c, b)
        /\ \A d \in Threads \ {c} : call'[d] = call[d] /\ (Reserved(d)' => Reserved(d))
    BY <1>1, <1>2 DEF CommitStart, Calls
  <2>2. Keeps(c)'
    <3>1. edLock'[b] = c /\ Known(world', b) /\ Validated(b, p)
      BY <1>2, <2>1 DEF CommitStart, TakeEditionLock, TypeOK, OpenedKnown
    <3>2. Built(c)'
      BY <2>1, <3>1 DEF Built, Validated
    <3> QED BY <2>1, <3>1, <3>2 DEF Keeps
  <2> QED BY <2>1, <2>2, KeptByOthers DEF OpenedKnown
<1>3. ASSUME NEW b \in Branches, NEW s \in Shapes, ReshapeStart(c, b, s)
      PROVE  Reserves' /\ OpenedKnown'
  <2>1. /\ call'[c] = [op |-> "reshape", branch |-> b,
                       state |-> [StateOf(world, b) EXCEPT !.shape = s], target |-> 0]
        /\ pc'[c] = "locked" /\ UNCHANGED <<world, opened>> /\ TakeEditionLock(c, b)
        /\ \A d \in Threads \ {c} : call'[d] = call[d] /\ (Reserved(d)' => Reserved(d))
    BY <1>1, <1>3 DEF ReshapeStart, Calls
  <2>2. Keeps(c)'
    <3>1. edLock'[b] = c /\ Known(world', b) /\ Current(StateOf(world, b)) = 0
      BY <1>3, <2>1 DEF ReshapeStart, TakeEditionLock, TypeOK, OpenedKnown
    <3>2. Built(c)'
      BY <2>1, <3>1 DEF Built
    <3> QED BY <2>1, <3>1, <3>2 DEF Keeps
  <2> QED BY <2>1, <2>2, KeptByOthers DEF OpenedKnown
<1>4. ASSUME NEW b \in Branches, NEW at \in 0..Current(StateOf(world, b)), ForkStart(c, b, at)
      PROVE  Reserves' /\ OpenedKnown'
  <2>1. /\ call'[c] = [op |-> "fork", branch |-> b,
                       state |-> ForkedFrom(StateOf(world, b), b, at), target |-> 0]
        /\ pc'[c] = "drive" /\ UNCHANGED <<world, opened>> /\ TakeEditionLock(c, b)
        /\ \A d \in Threads \ {c} : call'[d] = call[d] /\ (Reserved(d)' => Reserved(d))
    BY <1>1, <1>4 DEF ForkStart, Calls
  <2>2. Keeps(c)'
    <3>1. /\ edLock'[b] = c /\ Known(world', b) /\ at <= Current(StateOf(world, b))
          /\ Current(StateOf(world, b)) \in Nat
      BY <1>4, <2>1, StateOfType, CurrentType
      DEF ForkStart, TakeEditionLock, TypeOK, OpenedKnown
    <3>2. at \in 0..Current(StateOf(world', b))
      BY <2>1, <3>1
    <3>3. Built(c)'
      BY <2>1, <3>2 DEF Built
    <3> QED BY <2>1, <3>1, <3>3 DEF Keeps
  <2> QED BY <2>1, <2>2, KeptByOthers DEF OpenedKnown
<1>5. CASE GcStart(c)
  <2>1. /\ call'[c] = [op |-> "gc", branch |-> Root, state |-> EmptyState, target |-> 0]
        /\ pc'[c] = "drive" /\ UNCHANGED <<world, opened, edLock>>
        /\ \A d \in Threads \ {c} : call'[d] = call[d] /\ (Reserved(d)' => Reserved(d))
    BY <1>1, <1>5, RootBranch DEF GcStart, Calls
  <2>2. Keeps(c)'
    BY <2>1 DEF Keeps, Reserved
  <2> QED BY <2>1, <2>2, KeptByOthers DEF OpenedKnown
<1>6. ASSUME NEW b \in Branches, NEW p \in Patches, CommitRejected(c, b, p)
      PROVE  Reserves' /\ OpenedKnown'
  <2>1. UNCHANGED <<world, call, pc, edLock, opened>>
    BY <1>6 DEF CommitRejected, vars
  <2>2. ASSUME NEW d \in Threads PROVE Keeps(d)'
    BY <2>1, KeptStill DEF Reserves, Reserved
  <2> QED BY <2>1, <2>2 DEF Reserves, OpenedKnown
<1> QED
  BY <1>2, <1>3, <1>4, <1>5, <1>6 DEF Begin

(* Staging under one branch's edition lock, or under a new id, leaves what *)
(* the other threads built on other branches good.                         *)
LEMMA StagingKeeps ==
  ASSUME Lawfully, NEW c \in Threads, Stage(c) \/ StageFork(c)
  PROVE  Reserves' /\ OpenedKnown'
<1>0. TypeOK /\ Reserves /\ OpenedKnown /\ pc[c] = "locked" /\ Keeps(c) /\ Reserved(c)
  BY DEF Lawfully, IInv, Stage, StageFork, Reserves, Reserved
<1>1. PICK b \in Branches :
        /\ Enstage(c, b, call[c].state)
        /\ b = call[c].branch \/ b = NextBranch(world)
  BY <1>0, CallParts DEF Stage, StageFork
<1> DEFINE x == [branch |-> b, state |-> call[c].state]
<1>2. x \in StageRecord /\ world \in Seq(StageRecord) /\ world' = Append(world, x)
  BY <1>0, <1>1, CallParts DEF StageRecord, TypeOK, Enstage
<1>3. /\ edLock' = [edLock EXCEPT ![call[c].branch] = NoOne]
      /\ edLock[call[c].branch] = c
  BY <1>0 DEF Stage, StageFork, Keeps
<1>4. /\ pc'[c] = "drive" /\ call'[c].target = staged + 1 /\ staged + 1 # 0
      /\ opened' = opened /\ staged \in Nat
      /\ \A d \in Threads \ {c} : call'[d] = call[d] /\ pc'[d] = pc[d]
  BY <1>0, <1>1 DEF Enstage, Calling, Goto, TypeOK
<1>5. ASSUME NEW k \in Branches, Known(world, k) PROVE Known(world', k)
  BY <1>2, <1>5, KnownGrows
<1>6. ASSUME NEW d \in Threads \ {c} PROVE Keeps(d)'
  <2>1. call[d].branch \in Branches /\ Keeps(d)
    BY <1>0, CallParts DEF Reserves
  <2>2. Reserved(d)' => Reserved(d)
    BY <1>4 DEF Reserved
  <2>3. edLock[call[d].branch] = d => edLock'[call[d].branch] = d
    BY <1>0, <1>3, <2>1 DEF TypeOK
  <2>4. ASSUME Reserved(d)
        PROVE  StateOf(world, call[d].branch)' = StateOf(world, call[d].branch)
    <3>1. edLock[call[d].branch] = d /\ Known(world, call[d].branch)
      BY <2>1, <2>4 DEF Keeps
    <3>2. b # call[d].branch
      BY <1>1, <1>3, <2>1, <3>1, NextIsFresh
    <3>3. StateOf(Append(world, x), call[d].branch) = StateOf(world, call[d].branch)
      <4>1. x.branch # call[d].branch
        BY <3>2
      <4> HIDE DEF x
      <4> QED BY <1>2, <2>1, <4>1, OthersStand
    <3>4. call'[d].branch = call[d].branch
      BY <1>4
    <3> HIDE DEF x
    <3> QED BY <1>2, <3>3, <3>4
  <2>5. Known(world, call[d].branch) => Known(world, call[d].branch)'
    BY <1>4, <1>5, <2>1
  <2>6. call'[d] = call[d]
    BY <1>4
  <2> QED BY <1>0, <2>1, <2>2, <2>3, <2>4, <2>5, <2>6, KeptApart
<1>7. Keeps(c)'
  BY <1>4 DEF Keeps, Reserved
<1>8. Reserves'
  BY <1>6, <1>7 DEF Reserves
<1>9. OpenedKnown'
  BY <1>0, <1>4, <1>5 DEF OpenedKnown, TypeOK
<1> QED
  BY <1>8, <1>9

LEMMA DriveKeeps ==
  ASSUME Lawfully, NEW c \in Threads, Drive(c)
  PROVE  Reserves' /\ OpenedKnown'
<1> USE DEF durVars, diskVars, lockVars, replies
<1>0. TypeOK /\ Reserves /\ OpenedKnown /\ Keeps(c)
  BY DEF Lawfully, IInv, Reserves
<1>1. CASE DriveDoomed(c)
  <2>1. /\ pc'[c] = "idle" /\ call'[c] = IdleCall /\ ReturnErr(c)
        /\ \A d \in Threads \ {c} : call'[d] = call[d] /\ pc'[d] = pc[d]
        /\ UNCHANGED <<world, opened>>
    BY <1>0, <1>1 DEF DriveDoomed, TypeOK
  <2>2. \A d \in Threads \ {c} : call'[d] = call[d] /\ (Reserved(d)' => Reserved(d))
    BY <2>1 DEF Reserved
  <2>3. Keeps(c)'
    BY <2>1 DEF Keeps, Reserved
  <2> QED BY <1>0, <2>1, <2>2, <2>3, KeptByOthers DEF OpenedKnown
<1>2. CASE DriveDone(c) \/ DriveSleep(c) \/ DriveLead(c)
  <2>1. /\ pc[c] = "drive" /\ pc'[c] # "locked"
        /\ \A d \in Threads \ {c} : pc'[d] = pc[d]
        /\ UNCHANGED <<world, opened, edLock, call>>
    BY <1>0, <1>2 DEF DriveDone, DriveSleep, DriveLead, Goto, TypeOK
  <2>2. \A d \in Threads : Reserved(d)' => Reserved(d)
    BY <2>1 DEF Reserved
  <2>3. Keeps(c)'
    BY <1>0, <2>1, <2>2, KeptStill
  <2> QED BY <1>0, <2>1, <2>2, <2>3, KeptByOthers DEF OpenedKnown
<1> QED
  BY <1>1, <1>2 DEF Drive

LEMMA WriteKeeps ==
  ASSUME Lawfully, NEW c \in Threads, Write(c)
  PROVE  Reserves' /\ OpenedKnown'
<1>0. TypeOK /\ Reserves /\ OpenedKnown
  BY DEF Lawfully, IInv
<1>1. UNCHANGED <<world, opened, edLock, call>>
  BY DEF Write, WriteBatch, SyncOk, Land, durVars, diskVars, lockVars, replies
<1>2. /\ pc[c] # "idle" /\ pc'[c] # "locked"
      /\ \A d \in Threads \ {c} :
            pc'[d] = pc[d] \/ (pc[d] = "asleep" /\ pc'[d] = "drive")
  BY <1>0 DEF Write, WriteBatch, SyncOk, Land, Goto, NotifyAll, TypeOK
<1>3. \A d \in Threads : Reserved(d)' => Reserved(d)
  BY <1>1, <1>2 DEF Reserved
<1>4. Keeps(c)'
  BY <1>0, <1>1, <1>3, KeptStill DEF Reserves
<1> QED
  BY <1>0, <1>1, <1>3, <1>4, KeptByOthers DEF OpenedKnown

LEMMA GroupFailsKeeps ==
  ASSUME Lawfully, NEW c \in Threads, GroupFails(c)
  PROVE  Reserves' /\ OpenedKnown'
<1>0. TypeOK /\ Reserves /\ OpenedKnown
  BY DEF Lawfully, IInv
<1>1. /\ UNCHANGED <<world, opened>> /\ ReturnErr(c)
      /\ pc'[c] = "idle" /\ call'[c] = IdleCall
      /\ \A d \in Threads \ {c} :
            /\ call'[d] = call[d]
            /\ pc'[d] = pc[d] \/ (pc[d] = "asleep" /\ pc'[d] = "drive")
  BY <1>0 DEF GroupFails, KeptInMemory, NotifyAll, TypeOK
<1>2. \A d \in Threads \ {c} : call'[d] = call[d] /\ (Reserved(d)' => Reserved(d))
  BY <1>1 DEF Reserved
<1>3. Keeps(c)'
  BY <1>1 DEF Keeps, Reserved
<1> QED
  BY <1>0, <1>1, <1>2, <1>3, KeptByOthers DEF OpenedKnown

(* A fork answered is a branch on record: its handle may be handed out.    *)
LEMMA FinishKeeps ==
  ASSUME Lawfully, NEW c \in Threads, Finish(c)
  PROVE  Reserves' /\ OpenedKnown'
<1> USE DEF durVars, diskVars, lockVars, replies
<1>0. TypeOK /\ Reserves /\ OpenedKnown /\ Keeps(c) /\ IInv
  BY DEF Lawfully, IInv, Reserves
<1>1. CASE ForkFlushed(c)
  <2>1. /\ pc[c] = "return" /\ call[c].op = "fork" /\ call[c].target = 0
        /\ \A d \in Threads \ {c} : pc'[d] = pc[d]
        /\ UNCHANGED <<world, opened, edLock, call>>
    BY <1>0, <1>1 DEF ForkFlushed, Goto, TypeOK
  <2>2. \A d \in Threads : Reserved(d)' => Reserved(d)
    BY <2>1 DEF Reserved
  <2>3. Keeps(c)'
    BY <1>0, <2>1, <2>2, KeptStill
  <2> QED BY <1>0, <2>1, <2>2, <2>3, KeptByOthers DEF OpenedKnown
<1>2. CASE StageReturns(c) \/ ForkReturns(c) \/ GcReturns(c) \/ BranchReturns(c)
  <2>1. /\ pc'[c] = "idle" /\ call'[c] = IdleCall
        /\ \A d \in Threads \ {c} : call'[d] = call[d] /\ pc'[d] = pc[d]
        /\ UNCHANGED <<world, edLock>>
    BY <1>0, <1>2
    DEF StageReturns, ForkReturns, GcReturns, BranchReturns, Return, Goto, TypeOK
  <2>2. \A d \in Threads \ {c} : call'[d] = call[d] /\ (Reserved(d)' => Reserved(d))
    BY <2>1 DEF Reserved
  <2>3. Keeps(c)'
    BY <2>1 DEF Keeps, Reserved
  <2>4. Reserves'
    BY <1>0, <2>1, <2>2, <2>3, KeptByOthers
  <2>5. OpenedKnown'
    <3>1. CASE ForkReturns(c)
      <4>1. /\ opened' = opened \cup {call[c].branch}
            /\ pc[c] = "return" /\ call[c].target # 0
        BY <3>1 DEF ForkReturns
      <4>2. /\ call[c].target <= staged
            /\ world[Len(world) - staged + call[c].target].branch = call[c].branch
        <5>1. Waits(c)
          BY <1>0 DEF IInv, Waiting
        <5> QED BY <4>1, <5>1 DEF Waits
      <4>3. /\ staged \in Nat /\ staged <= Len(world) /\ call[c].target \in Nat
            /\ Len(world) \in Nat
        <5>1. call[c].target \in Nat
          BY <1>0, CallParts
        <5>2. staged <= Len(world)
          BY <1>0 DEF IInv, Queued
        <5> QED BY <1>0, <5>1, <5>2 DEF TypeOK
      <4>4. Len(world) - staged + call[c].target \in StagesOf(world, call[c].branch)
        BY <4>1, <4>2, <4>3 DEF StagesOf
      <4>5. Known(world', call[c].branch)
        BY <2>1, <4>4 DEF Known
      <4> QED BY <1>0, <2>1, <4>1, <4>5 DEF OpenedKnown
    <3>2. CASE ~ ForkReturns(c)
      <4>1. UNCHANGED opened
        BY <1>2, <3>2 DEF StageReturns, GcReturns, BranchReturns
      <4> QED BY <1>0, <2>1, <4>1 DEF OpenedKnown
    <3> QED BY <3>1, <3>2
  <2> QED BY <2>4, <2>5
<1> QED
  BY <1>1, <1>2 DEF Finish

LEMMA LawfullyInductive == Lawfully /\ [Next]_vars => Lawfully'
<1> SUFFICES ASSUME Lawfully, [Next]_vars PROVE Lawfully'
  OBVIOUS
<1>0. IInv' /\ TypeOK /\ Reserves /\ OpenedKnown
  BY Inductive DEF Lawfully, IInv
<1>1. ASSUME NEW c \in Clients, Begin(c) PROVE Reserves' /\ OpenedKnown'
  BY <1>1, BeginKeeps
<1>2. ASSUME NEW c \in Observers, NEW b \in Branches, BranchStart(c, b)
      PROVE  Reserves' /\ OpenedKnown'
  <2>1. c \in Threads
    BY DEF Threads
  <2>2. /\ pc'[c] = "return" /\ call'[c].op = "branch"
        /\ \A d \in Threads \ {c} : call'[d] = call[d] /\ pc'[d] = pc[d]
        /\ UNCHANGED <<world, opened, edLock>>
    BY <1>0, <1>2, <2>1
    DEF BranchStart, Calling, Goto, TypeOK, durVars, diskVars, lockVars, replies
  <2>3. \A d \in Threads \ {c} : call'[d] = call[d] /\ (Reserved(d)' => Reserved(d))
    BY <2>2 DEF Reserved
  <2>4. Keeps(c)'
    BY <2>2 DEF Keeps, Reserved
  <2> QED BY <1>0, <2>1, <2>2, <2>3, <2>4, KeptByOthers DEF OpenedKnown
<1>3. ASSUME NEW c \in Threads, Stage(c) \/ StageFork(c)
      PROVE  Reserves' /\ OpenedKnown'
  BY <1>3, StagingKeeps
<1>4. ASSUME NEW c \in Threads, Drive(c) PROVE Reserves' /\ OpenedKnown'
  BY <1>4, DriveKeeps
<1>5. ASSUME NEW c \in Threads, Write(c) PROVE Reserves' /\ OpenedKnown'
  BY <1>5, WriteKeeps
<1>6. ASSUME NEW c \in Threads, GroupFails(c) PROVE Reserves' /\ OpenedKnown'
  BY <1>6, GroupFailsKeeps
<1>7. ASSUME NEW c \in Threads, Finish(c) PROVE Reserves' /\ OpenedKnown'
  BY <1>7, FinishKeeps
<1>8. ASSUME Crash PROVE Reserves' /\ OpenedKnown'
  <2>1. /\ pc' = [c \in Threads |-> "idle"] /\ call' = [c \in Threads |-> IdleCall]
        /\ opened' = {b \in Branches : Known(world', b)}
    BY <1>8 DEF Crash
  <2>2. Reserves'
    BY <2>1 DEF Reserves, Keeps, Reserved
  <2> QED BY <2>1, <2>2 DEF OpenedKnown
<1>9. ASSUME UNCHANGED vars PROVE Reserves' /\ OpenedKnown'
  <2>1. UNCHANGED <<world, call, pc, edLock, opened>>
    BY <1>9 DEF vars, lockVars
  <2>2. ASSUME NEW d \in Threads PROVE Keeps(d)'
    BY <1>0, <2>1, KeptStill DEF Reserves, Reserved
  <2> QED BY <1>0, <2>1, <2>2 DEF Reserves, OpenedKnown
<1>10. Reserves' /\ OpenedKnown'
  BY <1>1, <1>2, <1>3, <1>4, <1>5, <1>6, <1>7, <1>8, <1>9 DEF Next
<1> QED
  BY <1>0, <1>10 DEF Lawfully

LEMMA SpecLawfully == Spec => []Lawfully
  BY LawfullyInit, LawfullyInductive, PTL DEF Spec

----------------------------------------------------------------------------
(* The refinement.                                                         *)

(* Nothing is staged, hardened or answered. *)
LEMMA Stutters ==
  ASSUME UNCHANGED <<world, disk, acked>>
  PROVE  UNCHANGED Promise!hvars
  BY DEF Promise!hvars

(* What a thread built is one lawful stage of the world it is appended to. *)
LEMMA StagingAllocates ==
  ASSUME Lawfully, NEW c \in Threads, Stage(c) \/ StageFork(c)
  PROVE  Promise!Allocate
<1>0. TypeOK /\ pc[c] = "locked" /\ Keeps(c) /\ Reserved(c)
  BY DEF Lawfully, IInv, Stage, StageFork, Reserves, Reserved
<1>1. Known(world, call[c].branch) /\ Built(c) /\ call[c].branch \in Branches
  BY <1>0, CallParts DEF Keeps
<1>2. PICK b \in Branches :
        /\ Enstage(c, b, call[c].state)
        /\ \/ b = call[c].branch /\ call[c].op \in {"commit", "reshape"}
           \/ b = NextBranch(world) /\ call[c].op = "fork"
  BY <1>1 DEF Stage, StageFork
<1> DEFINE x == [branch |-> b, state |-> call[c].state]
<1>3. x \in StageRecord /\ world \in Seq(StageRecord) /\ world' = Append(world, x)
  BY <1>0, <1>2, CallParts DEF StageRecord, TypeOK, Enstage
<1>4. /\ Len(world') = Len(world) + 1 /\ Promise!IsPrefix(world, world')
      /\ Promise!Last(world') = x
  <2>1. Len(world') = Len(world) + 1 /\ IsPrefix(world, world')
    <3> HIDE DEF x
    <3> QED BY <1>3, PrefixOfAppend
  <2>2. world'[Len(world) + 1] = x
    <3> HIDE DEF x
    <3> QED BY <1>3
  <2> HIDE DEF x
  <2> QED BY <2>1, <2>2, SamePrefix DEF Promise!Last
<1>5. Promise!Lawful(world, b, call[c].state)
  <2> DEFINE now == StateOf(world, call[c].branch)
  <2>0. Promise!StateOf(world, call[c].branch) = now
    BY SameState
  <2>1. CASE call[c].op = "commit"
    <3>1. b = call[c].branch /\ Promise!Known(world, b)
      BY <1>1, <1>2, <2>1, SameKnown
    <3>2. PICK p \in Patches : Validated(b, p) /\ call[c].state = Applied(now, p)
      BY <1>1, <2>1, <3>1 DEF Built
    <3>3. \A f \in p.pre : Promise!HoldsNow(Promise!StateOf(world, b), f)
      BY <2>0, <3>1, <3>2, SameHolds DEF Validated
    <3>4. call[c].state = Promise!Applied(Promise!StateOf(world, b), p)
      BY <2>0, <3>1, <3>2, SameApplied
    <3> QED BY <3>1, <3>3, <3>4 DEF Promise!Lawful, Promise!LawfulCommit
  <2>2. CASE call[c].op = "reshape"
    <3>1. b = call[c].branch /\ Promise!Known(world, b)
      BY <1>1, <1>2, <2>2, SameKnown
    <3>2. PICK s \in Shapes : call[c].state = [now EXCEPT !.shape = s]
      BY <1>1, <2>2 DEF Built
    <3>3. Promise!Current(Promise!StateOf(world, b)) = 0
      BY <1>1, <2>0, <2>2, <3>1, SameCurrent DEF Built
    <3>4. call[c].state = [Promise!StateOf(world, b) EXCEPT !.shape = s]
      BY <2>0, <3>1, <3>2
    <3> QED BY <3>1, <3>3, <3>4 DEF Promise!Lawful, Promise!LawfulReshape
  <2>3. CASE call[c].op = "fork"
    <3>1. b = Promise!NextBranch(world) /\ Promise!Known(world, call[c].branch)
      BY <1>1, <1>2, <2>3, SameKnown, SameNext
    <3>2. PICK at \in 0..Current(now) : call[c].state = ForkedFrom(now, call[c].branch, at)
      BY <1>1, <2>3 DEF Built
    <3>3. at \in 0..Promise!Current(Promise!StateOf(world, call[c].branch))
      BY <2>0, <3>2, SameCurrent
    <3>4. call[c].state
            = Promise!ForkedFrom(Promise!StateOf(world, call[c].branch), call[c].branch, at)
      BY <2>0, <3>2, SameFork
    <3>5. call[c].branch \in Promise!Branches
      BY <1>1 DEF Branches, Promise!Branches
    <3> QED BY <3>1, <3>3, <3>4, <3>5 DEF Promise!Lawful, Promise!LawfulFork
  <2> QED BY <1>2, <2>1, <2>2, <2>3
<1>6. UNCHANGED <<Len(disk), acked>>
  BY <1>2 DEF Enstage, diskVars, replies
<1> QED
  BY <1>4, <1>5, <1>6 DEF Promise!Allocate

(* A group synced moves the hardened part on, never back.                  *)
LEMMA WritingHardens ==
  ASSUME Lawfully, NEW c \in Threads, Write(c)
  PROVE  Promise!Harden \/ UNCHANGED Promise!hvars
<1>0. IInv /\ TypeOK
  BY DEF Lawfully, IInv
<1>1. CASE WriteBatch(c) \/ Land(c)
  BY <1>1, Stutters DEF WriteBatch, Land, diskVars, replies
<1>2. CASE SyncOk(c)
  <2>1. group # << >> /\ disk' = Last(group).root /\ UNCHANGED <<world, acked>>
    <3>1. writer = c /\ c # NoOne
      BY <1>0, <1>2 DEF SyncOk, IInv, Leads, Leading, Threads
    <3>2. group # << >>
      BY <1>0, <3>1 DEF IInv, Leads
    <3> QED BY <1>2, <3>2 DEF SyncOk, replies
  <2>2. /\ disk' \in Seq(StageRecord) /\ IsPrefix(disk', world)
        /\ IsPrefix(disk, disk')
    BY <1>0, <2>1, LastInGroup
  <2>3. disk \in Seq(StageRecord) /\ world \in Seq(StageRecord)
    BY <1>0 DEF TypeOK
  <2>4. Len(disk) <= Len(disk') /\ Len(disk') <= Len(world)
    <3>1. Len(disk') <= Len(world)
      BY <2>2, <2>3, PrefixPointwise
    <3>2. Len(disk) <= Len(disk')
      BY <2>2, <2>3, PrefixPointwise
    <3> QED BY <3>1, <3>2
  <2>5. Len(disk') \in Len(disk)..Len(world)
    BY <2>2, <2>3, <2>4
  <2> QED BY <2>1, <2>5 DEF Promise!Harden
<1> QED
  BY <1>1, <1>2 DEF Write

(* Ok is said of a stage that survives. *)
LEMMA FinishAnswers ==
  ASSUME Lawfully, NEW c \in Threads, Finish(c)
  PROVE  Promise!Answer \/ UNCHANGED Promise!hvars
<1>0. IInv /\ TypeOK
  BY DEF Lawfully, IInv
<1>1. CASE ForkFlushed(c) \/ GcReturns(c) \/ BranchReturns(c)
  BY <1>1, Stutters DEF ForkFlushed, GcReturns, BranchReturns, diskVars, replies
<1>2. CASE StageReturns(c) \/ ForkReturns(c)
  <2> DEFINE x == [branch |-> call[c].branch, state |-> call[c].state]
  <2>1. acked' = acked \cup {x} /\ UNCHANGED <<world, disk>>
    BY <1>2 DEF StageReturns, ForkReturns, diskVars
  <2>2. pc[c] = "return" /\ call[c].target # 0
    <3>1. Waits(c)
      BY <1>0 DEF IInv, Waiting
    <3> QED BY <1>2, <3>1 DEF StageReturns, ForkReturns, Waits
  <2>3. x \in ToSet(disk)
    BY <1>0, <2>2, AnsweredStage
  <2>4. PICK i \in DOMAIN disk : x = disk[i]
    <3> HIDE DEF x
    <3> QED BY <2>3 DEF ToSet
  <2>5. disk \in Seq(StageRecord) /\ world \in Seq(StageRecord) /\ IsPrefix(disk, world)
    BY <1>0 DEF TypeOK, IInv, Hardened
  <2>6. i \in 1..Len(disk) /\ world[i] = x
    <3> HIDE DEF x
    <3> QED BY <2>4, <2>5, PrefixPointwise
  <2> HIDE DEF x
  <2> QED BY <2>1, <2>6 DEF Promise!Answer
<1> QED
  BY <1>1, <1>2 DEF Finish

(* A crash keeps the hardened part and perhaps some stages after it.       *)
LEMMA CrashCrashes ==
  ASSUME Lawfully, Crash
  PROVE  Promise!Crash
<1>0. TypeOK /\ Hardened
  BY DEF Lawfully, IInv
<1>1. PICK r \in {disk} \cup unsynced : world' = r /\ disk' = r /\ acked' = acked
  BY DEF Crash, replies
<1>2. /\ r \in Seq(StageRecord) /\ disk \in Seq(StageRecord)
      /\ world \in Seq(StageRecord)
  BY <1>0 DEF TypeOK
<1>3. IsPrefix(disk, r) /\ IsPrefix(r, world)
  BY <1>0, <1>1, <1>2, PrefixReflexive DEF Hardened
<1>4. Len(disk) <= Len(r) /\ Len(r) <= Len(world) /\ \A i \in 1..Len(r) : r[i] = world[i]
  BY <1>2, <1>3, PrefixPointwise
<1>5. Len(r) \in Len(disk)..Len(world)
  BY <1>2, <1>4
<1>6. r = SubSeq(world, 1, Len(r))
  BY <1>2, <1>4
<1> QED
  BY <1>1, <1>5, <1>6 DEF Promise!Crash

LEMMA StepKeepsPromise == Lawfully /\ [Next]_vars => [Promise!Next]_Promise!hvars
<1> SUFFICES ASSUME Lawfully, [Next]_vars
             PROVE  Promise!Next \/ UNCHANGED Promise!hvars
  OBVIOUS
<1> USE DEF durVars, diskVars, lockVars, replies
<1>1. ASSUME NEW c \in Clients, Begin(c) PROVE UNCHANGED Promise!hvars
  <2>1. UNCHANGED <<world, disk, acked>>
    BY <1>1 DEF Begin, CommitStart, CommitRejected, ReshapeStart, ForkStart, GcStart, vars
  <2> QED BY <2>1, Stutters
<1>2. ASSUME NEW c \in Observers, NEW b \in Branches, BranchStart(c, b)
      PROVE  UNCHANGED Promise!hvars
  BY <1>2, Stutters DEF BranchStart
<1>3. ASSUME NEW c \in Threads, Stage(c) \/ StageFork(c) PROVE Promise!Next
  BY <1>3, StagingAllocates DEF Promise!Next
<1>4. ASSUME NEW c \in Threads, Drive(c) PROVE UNCHANGED Promise!hvars
  <2>1. UNCHANGED <<world, disk, acked>>
    BY <1>4 DEF Drive, DriveDoomed, DriveDone, DriveSleep, DriveLead
  <2> QED BY <2>1, Stutters
<1>5. ASSUME NEW c \in Threads, Write(c) PROVE Promise!Next \/ UNCHANGED Promise!hvars
  BY <1>5, WritingHardens DEF Promise!Next
<1>6. ASSUME NEW c \in Threads, GroupFails(c) PROVE UNCHANGED Promise!hvars
  BY <1>6, Stutters DEF GroupFails, KeptInMemory
<1>7. ASSUME NEW c \in Threads, Finish(c) PROVE Promise!Next \/ UNCHANGED Promise!hvars
  BY <1>7, FinishAnswers DEF Promise!Next
<1>8. ASSUME Crash PROVE Promise!Next
  BY <1>8, CrashCrashes DEF Promise!Next
<1>9. ASSUME UNCHANGED vars PROVE UNCHANGED Promise!hvars
  BY <1>9, Stutters DEF vars
<1> QED
  BY <1>1, <1>2, <1>3, <1>4, <1>5, <1>6, <1>7, <1>8, <1>9 DEF Next

(* The group-committed store is the abstract one: a commit is one lawful   *)
(* edition of a known branch on the newest root, what a crash leaves only  *)
(* grows, and Ok is said of what a crash leaves (store.rs commit, stage_in,*)
(* drive_durability, write_group).                                         *)
THEOREM KeepsPromise == Spec => ImplementsPromise
<1>1. Init => Promise!Init
  BY DEF Init, Promise!Init
<1> QED
  BY <1>1, SpecLawfully, StepKeepsPromise, PTL DEF Spec, ImplementsPromise, Promise!Spec
=============================================================================
