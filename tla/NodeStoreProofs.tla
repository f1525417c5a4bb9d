--------------------------- MODULE NodeStoreProofs --------------------------
(***************************************************************************)
(* The node store never loses a node it still needs, for every set of      *)
(* nodes and every shape of the trees, while the sync that ends a sweep    *)
(* does not fail.                                                          *)
(***************************************************************************)
EXTENDS NodeStore, TLAPS

----------------------------------------------------------------------------
(* Walks.                                                                  *)

(* A walk visits what it starts from, is closed under the step it follows, *)
(* and stays inside every set that is.                                     *)
LEMMA WalkLaws ==
  ASSUME NEW next \in [Nodes -> SUBSET Nodes], NEW R \in SUBSET Nodes
  PROVE  /\ Walk(R, next) \subseteq Nodes
         /\ R \subseteq Walk(R, next)
         /\ ClosedUnder(Walk(R, next), next)
         /\ \A S \in SUBSET Nodes :
              R \subseteq S /\ ClosedUnder(S, next) => Walk(R, next) \subseteq S
<1>1. Walk(R, next) \subseteq Nodes /\ R \subseteq Walk(R, next)
  BY DEF Walk
<1>2. ASSUME NEW n \in Walk(R, next), NEW m \in next[n] PROVE m \in Walk(R, next)
  <2>1. n \in Nodes /\ m \in Nodes
    BY <1>1
  <2>2. ASSUME NEW S \in SUBSET Nodes, R \subseteq S, ClosedUnder(S, next) PROVE m \in S
    BY <2>2 DEF Walk, ClosedUnder
  <2> QED BY <2>1, <2>2 DEF Walk
<1>3. ClosedUnder(Walk(R, next), next)
  BY <1>2 DEF ClosedUnder
<1>4. ASSUME NEW S \in SUBSET Nodes, R \subseteq S, ClosedUnder(S, next)
      PROVE  Walk(R, next) \subseteq S
  BY <1>4 DEF Walk
<1> QED
  BY <1>1, <1>3, <1>4

(* What mark visits is closed under references. *)
LEMMA BeneathLaws ==
  ASSUME NEW R \in SUBSET Nodes
  PROVE  /\ Beneath(R) \subseteq Nodes /\ R \subseteq Beneath(R)
         /\ ClosedUnder(Beneath(R), Refs)
         /\ \A S \in SUBSET Nodes :
              R \subseteq S /\ ClosedUnder(S, Refs) => Beneath(R) \subseteq S
  BY WalkLaws, NodeStoreAssumption DEF Beneath

(* collect_nodes leaves out only what is known: the tree's root and every  *)
(* child of a collected node is collected or known.                        *)
LEMMA CollectedLaws ==
  ASSUME NEW n \in Nodes, NEW known \in SUBSET Nodes
  PROVE  /\ Collected(n, known) \subseteq Nodes
         /\ n \in Collected(n, known) \cup known
         /\ \A m \in Collected(n, known) : Refs[m] \subseteq Collected(n, known) \cup known
<1> DEFINE next == [m \in Nodes |-> Refs[m] \ known]
<1>1. next \in [Nodes -> SUBSET Nodes]
  BY NodeStoreAssumption
<1>2. {n} \ known \in SUBSET Nodes
  OBVIOUS
<1>3. Collected(n, known) = Walk({n} \ known, next)
  BY DEF Collected
<1>4. /\ Collected(n, known) \subseteq Nodes /\ {n} \ known \subseteq Collected(n, known)
      /\ ClosedUnder(Collected(n, known), next)
  <2> HIDE DEF next
  <2> QED BY <1>1, <1>2, <1>3, WalkLaws
<1>5. \A m \in Collected(n, known) : Refs[m] \ known \subseteq Collected(n, known)
  BY <1>4 DEF ClosedUnder
<1> QED
  BY <1>4, <1>5

(* What an edit builds, and what is in memory, are nodes. *)
LEMMA MemoryInNodes ==
  /\ \A n \in Nodes : Built(n) \subseteq Nodes
  /\ \A H, R : InMemory(H, R) \subseteq Nodes
  BY DEF Built, InMemory, Walk

----------------------------------------------------------------------------
(* Types.                                                                  *)

LEMMA InitType == Init => TypeOK
<1> SUFFICES ASSUME Init PROVE TypeOK
  OBVIOUS
<1>1. << >> \in Seq(Writes)
  OBVIOUS
<1>2. db \in Disks /\ safe \in Disks /\ unsynced \subseteq Disks
  BY DEF Init, Disks, Trees
<1>3. top \in Trees
  BY DEF Init, Trees
<1> QED
  BY <1>1, <1>2, <1>3 DEF Init, TypeOK

(* A disk names nodes only, and so do the children of its root. *)
LEMMA DiskType ==
  ASSUME NEW d \in Disks
  PROVE  /\ d.nodes \subseteq Nodes /\ RootOf(d) \subseteq Nodes /\ d.root \in Trees
         /\ Children(RootOf(d)) \subseteq Nodes
  BY NodeStoreAssumption DEF Disks, Trees, RootOf, Children

(* What Hold leaves in memory was there. *)
LEMMA HoldType ==
  ASSUME NEW t \in Trees, NEW h \in SUBSET Nodes, NEW R \in SUBSET Nodes,
         NEW U \in SUBSET Nodes, Hold(t, h, R, U)
  PROVE  /\ top' \in Trees /\ held' \in SUBSET Nodes
         /\ resident' \in SUBSET Nodes /\ unread' \in SUBSET Nodes
         /\ unread' \subseteq U
  BY DEF Hold

LEMMA NextType == TypeOK /\ [Next]_vars => TypeOK'
<1> SUFFICES ASSUME TypeOK, [Next]_vars PROVE TypeOK'
  OBVIOUS
<1> USE NodeStoreAssumption DEF TypeOK, memVars, gcVars
<1>1. ASSUME NEW n \in Edits, Stage(n) PROVE TypeOK'
  <2>1. n \in Nodes /\ n \in Trees
    BY DEF Trees
  <2>2. Known(n) \subseteq Nodes
    BY DEF Known
  <2>3. [nodes |-> Collected(n, Known(n)), root |-> n] \in Writes
    BY <2>1, <2>2, CollectedLaws DEF Writes
  <2>4. resident \cup Built(n) \in SUBSET Nodes
    BY <2>1, MemoryInNodes
  <2>5. Hold(n, held, resident \cup Built(n), unread)
    BY <1>1 DEF Stage
  <2>6. /\ top' \in Trees /\ held' \subseteq Nodes
        /\ resident' \subseteq Nodes /\ unread' \subseteq Nodes
    BY <2>1, <2>4, <2>5, HoldType
  <2>7. pending' \in Seq(Writes)
    BY <1>1, <2>3 DEF Stage
  <2> QED BY <1>1, <2>6, <2>7 DEF Stage
<1>2. ASSUME NEW n \in Nodes, PageIn(n) PROVE TypeOK'
  BY <1>2 DEF PageIn
<1>3. ASSUME NEW n \in Nodes, Release(n) PROVE TypeOK'
  <2>1. Hold(top, held \ {n}, resident, unread)
    BY <1>3 DEF Release
  <2>2. /\ top' \in Trees /\ held' \subseteq Nodes
        /\ resident' \subseteq Nodes /\ unread' \subseteq Nodes
    BY <2>1, HoldType
  <2> QED BY <1>3, <2>2 DEF Release
<1>4. CASE Acquire
  BY <1>4 DEF Acquire, Trees
<1>5. CASE Lead
  <2>1. pending[Len(pending)] \in Writes
    BY <1>5 DEF Lead
  <2>2. \A i \in DOMAIN pending : pending[i].nodes \subseteq Nodes
    <3> TAKE i \in DOMAIN pending
    <3>1. pending[i] \in Writes
      OBVIOUS
    <3> QED BY <3>1 DEF Writes
  <2>3. group' \in Writes
    BY <1>5, <2>1, <2>2 DEF Lead, Writes
  <2> QED BY <1>5, <2>3 DEF Lead
<1>6. CASE WriteBatch
  <2>1. group.nodes \subseteq Nodes /\ group.root \in Nodes
    BY <1>6 DEF WriteBatch, Writes
  <2> QED BY <1>6, <2>1 DEF WriteBatch, Disks, Trees
<1>7. CASE SyncGroup
  BY <1>7 DEF SyncGroup
<1>8. CASE MarkPresent
  BY <1>8 DEF MarkPresent, Writes
<1>9. CASE GroupFails
  BY <1>9 DEF GroupFails
<1>10. CASE Gc
  <2>1. CASE GcSweep
    BY <2>1 DEF GcSweep, Disks
  <2>2. CASE GcStart \/ GcRefused
    BY <2>2 DEF GcStart, GcRefused
  <2>3. CASE GcMark
    <3>1. swept' \subseteq Nodes
      BY <2>3 DEF GcMark, Disks
    <3> QED BY <2>3, <3>1 DEF GcMark
  <2>4. CASE GcSync \/ GcForget \/ GcFails
    BY <2>4 DEF GcSync, GcForget, GcFails, Remembered
  <2> QED BY <1>10, <2>1, <2>2, <2>3, <2>4 DEF Gc
<1>11. CASE Crash
  <2>1. PICK d \in {safe} \cup unsynced :
          /\ db' = d /\ safe' = d /\ unsynced' = {}
          /\ resident' = RootOf(d) /\ unread' = Children(RootOf(d))
          /\ present' = RootOf(d) \cup Children(RootOf(d))
          /\ top' = d.root
    BY <1>11 DEF Crash
  <2>2. d \in Disks
    OBVIOUS
  <2>3. /\ RootOf(d) \subseteq Nodes /\ d.root \in Trees
        /\ Children(RootOf(d)) \subseteq Nodes
    BY <2>2, DiskType
  <2>4. << >> \in Seq(Writes)
    OBVIOUS
  <2> QED BY <1>11, <2>1, <2>2, <2>3, <2>4 DEF Crash
<1>12. CASE UNCHANGED vars
  BY <1>12 DEF vars
<1> QED
  BY <1>1, <1>2, <1>3, <1>4, <1>5, <1>6, <1>7, <1>8, <1>9, <1>10, <1>11, <1>12
     DEF Next, Commit
----------------------------------------------------------------------------
(* The invariant.                                                          *)

(* What a sweep in progress leaves; everything stored outside of one.      *)
Kept == db.nodes \ swept

(* A disk holds the children of every node it holds, and its root.         *)
Whole(d) == ClosedUnder(d.nodes, Refs) /\ RootOf(d) \subseteq d.nodes

(* Whatever a crash may leave is whole. *)
DisksWhole == \A d \in {db, safe} \cup unsynced : Whole(d)

(* A sweep spares the root, the paged nodes and all beneath them. *)
SweepSpares ==
  /\ ClosedUnder(Kept, Refs)
  /\ RootOf(db) \subseteq Kept
  /\ unread \subseteq Kept \cap safe.nodes

(* Only a sweep makes the memo run ahead of the disk. *)
MemoHonest == present \ swept \subseteq db.nodes \cap safe.nodes

(* While a sweep runs nothing is queued or being written. *)
SweepAlone ==
  IF gpc \in {"idle", "flush"} THEN swept = {} ELSE pending = << >> /\ wpc = "idle"

(* A write makes any disk that holds what was stored whole again.          *)
Fits(w) ==
  /\ w.root \in w.nodes \cup db.nodes
  /\ \A n \in w.nodes : Refs[n] \subseteq w.nodes \cup db.nodes

WritesFit ==
  /\ \A i \in DOMAIN pending : Fits(pending[i])
  /\ wpc = "batch" => Fits(group)
  /\ wpc \in {"sync", "present"} => group.nodes \subseteq db.nodes
  /\ wpc = "present" => group.nodes \subseteq safe.nodes

IInv == TypeOK /\ DisksWhole /\ SweepSpares /\ MemoHonest /\ SweepAlone /\ WritesFit

LEMMA InitIInv == Init => IInv
<1> SUFFICES ASSUME Init PROVE IInv
  OBVIOUS
<1>1. TypeOK
  BY InitType
<1>2. RootOf(db) = {} /\ db.nodes = {} /\ safe = db /\ unsynced = {} /\ swept = {}
  BY DEF Init, RootOf
<1>3. DisksWhole /\ SweepSpares /\ MemoHonest
  BY <1>2 DEF Init, DisksWhole, Whole, SweepSpares, MemoHonest, Kept, ClosedUnder
<1>4. SweepAlone /\ WritesFit
  BY <1>2 DEF Init, SweepAlone, WritesFit
<1> QED
  BY <1>1, <1>3, <1>4 DEF IInv

----------------------------------------------------------------------------
(* Each action keeps it.                                                   *)

(* A stage writes what it does not know to be on disk. *)
LEMMA StageKeeps ==
  ASSUME IInv, NEW n \in Edits, Stage(n)
  PROVE  DisksWhole' /\ SweepSpares' /\ MemoHonest' /\ SweepAlone' /\ WritesFit'
<1> USE NodeStoreAssumption
<1>1. n \in Nodes /\ n \in Trees /\ TypeOK
  BY DEF IInv, Trees
<1>2. /\ gpc = "idle" /\ UNCHANGED <<db, safe, unsynced, present, group, wpc, gpc, swept>>
      /\ pending' = Append(pending, [nodes |-> Collected(n, Known(n)), root |-> n])
      /\ Hold(n, held, resident \cup Built(n), unread)
  BY DEF gcVars, Stage
<1>3. unread' \subseteq unread
  <2>1. resident \cup Built(n) \in SUBSET Nodes
    BY <1>1, MemoryInNodes DEF TypeOK
  <2> QED BY <1>1, <1>2, <2>1, HoldType DEF TypeOK
<1>4. swept = {} /\ Known(n) \subseteq Nodes /\ Known(n) \subseteq db.nodes
  BY <1>1, <1>2 DEF IInv, SweepAlone, MemoHonest, Known, TypeOK
<1>5. Fits([nodes |-> Collected(n, Known(n)), root |-> n])
  <2>1. n \in Collected(n, Known(n)) \cup db.nodes
    BY <1>1, <1>4, CollectedLaws
  <2>2. \A m \in Collected(n, Known(n)) : Refs[m] \subseteq Collected(n, Known(n)) \cup db.nodes
    BY <1>1, <1>4, CollectedLaws
  <2> QED BY <2>1, <2>2 DEF Fits
<1>6. \A i \in DOMAIN pending' : Fits(pending'[i])
  <2> TAKE i \in DOMAIN pending'
  <2>1. pending \in Seq(Writes)
    BY <1>1 DEF TypeOK
  <2>2. CASE i \in DOMAIN pending
    BY <1>2, <2>1, <2>2 DEF IInv, WritesFit
  <2>3. CASE i \notin DOMAIN pending
    <3>1. pending'[i] = [nodes |-> Collected(n, Known(n)), root |-> n]
      BY <1>2, <2>1, <2>3
    <3> QED BY <3>1, <1>5
  <2> QED BY <2>2, <2>3
<1>7. WritesFit'
  BY <1>2, <1>6 DEF IInv, WritesFit, Fits
<1>8. DisksWhole' /\ MemoHonest' /\ SweepAlone'
  BY <1>2, <1>4 DEF IInv, DisksWhole, Whole, RootOf, MemoHonest, SweepAlone
<1>9. SweepSpares'
  BY <1>2, <1>3 DEF IInv, SweepSpares, Kept, RootOf
<1> QED
  BY <1>7, <1>8, <1>9

(* Reading a paged node leaves its children paged and on disk. *)
LEMMA PageInKeeps ==
  ASSUME IInv, NEW n \in Nodes, PageIn(n)
  PROVE  DisksWhole' /\ SweepSpares' /\ MemoHonest' /\ SweepAlone' /\ WritesFit'
<1>1. /\ n \in unread
      /\ UNCHANGED <<db, safe, unsynced, pending, group, wpc, gpc, swept>>
      /\ present' = present \cup Refs[n]
      /\ unread' \subseteq unread \cup Refs[n]
  BY DEF gcVars, PageIn
<1>2. n \in Kept /\ n \in safe.nodes
  BY <1>1 DEF IInv, SweepSpares
<1>3. Refs[n] \subseteq Kept
  BY <1>2 DEF IInv, SweepSpares, ClosedUnder
<1>4. Refs[n] \subseteq safe.nodes
  BY <1>2 DEF IInv, DisksWhole, Whole, ClosedUnder
<1>5. SweepSpares'
  BY <1>1, <1>3, <1>4 DEF IInv, SweepSpares, Kept, RootOf
<1>6. MemoHonest'
  BY <1>1, <1>3, <1>4 DEF IInv, MemoHonest, Kept
<1>7. DisksWhole' /\ SweepAlone' /\ WritesFit'
  BY <1>1 DEF IInv, DisksWhole, Whole, RootOf, SweepAlone, WritesFit, Fits
<1> QED
  BY <1>5, <1>6, <1>7

(* Holding on and letting go only forgets paged nodes. *)
LEMMA HoldKeeps ==
  ASSUME IInv, unread' \subseteq unread,
         UNCHANGED <<db, safe, unsynced, present, pending, group, wpc, gpc, swept>>
  PROVE  DisksWhole' /\ SweepSpares' /\ MemoHonest' /\ SweepAlone' /\ WritesFit'
  BY DEF IInv, DisksWhole, Whole, RootOf, SweepSpares, Kept, MemoHonest, SweepAlone,
         WritesFit, Fits

(* The group is fit for the disk, as every write in it is. *)
LEMMA LeadKeeps ==
  ASSUME IInv, Lead
  PROVE  DisksWhole' /\ SweepSpares' /\ MemoHonest' /\ SweepAlone' /\ WritesFit'
<1>1. /\ wpc = "idle" /\ pending # << >> /\ pending' = << >> /\ wpc' = "batch"
      /\ group' = [nodes |-> UNION {pending[i].nodes : i \in DOMAIN pending},
                   root |-> pending[Len(pending)].root]
      /\ UNCHANGED <<db, safe, unsynced, present, unread, gpc, swept>>
  BY DEF Lead, memVars, gcVars
<1>2. pending \in Seq(Writes) /\ Len(pending) \in DOMAIN pending
  BY <1>1 DEF IInv, TypeOK
<1>3. \A i \in DOMAIN pending : Fits(pending[i])
  BY DEF IInv, WritesFit
<1>4. Fits(group')
  <2>1. group'.root \in group'.nodes \cup db.nodes
    BY <1>1, <1>2, <1>3 DEF Fits
  <2>2. \A n \in group'.nodes : Refs[n] \subseteq group'.nodes \cup db.nodes
    BY <1>1, <1>3 DEF Fits
  <2> QED BY <2>1, <2>2 DEF Fits
<1>5. WritesFit'
  <2>1. Fits(group)' <=> Fits(group')
    BY <1>1 DEF Fits
  <2> QED BY <1>1, <1>4, <2>1 DEF WritesFit
<1>6. gpc \in {"idle", "flush"}
  BY <1>1 DEF IInv, SweepAlone
<1>7. DisksWhole' /\ SweepSpares' /\ MemoHonest' /\ SweepAlone'
  BY <1>1, <1>6 DEF IInv, DisksWhole, Whole, RootOf, SweepSpares, Kept, MemoHonest, SweepAlone
<1> QED
  BY <1>5, <1>7

(* A batch adds a fit group to a whole disk. *)
LEMMA WriteBatchKeeps ==
  ASSUME IInv, WriteBatch
  PROVE  DisksWhole' /\ SweepSpares' /\ MemoHonest' /\ SweepAlone' /\ WritesFit'
<1>1. /\ wpc = "batch" /\ wpc' = "sync"
      /\ db' = [nodes |-> db.nodes \cup group.nodes, root |-> group.root]
      /\ unsynced' = unsynced \cup {db'}
      /\ UNCHANGED <<safe, present, unread, pending, group, gpc, swept>>
  BY DEF WriteBatch, memVars, gcVars
<1>2. db'.nodes = db.nodes \cup group.nodes /\ db'.root = group.root
  BY <1>1
<1>3. swept = {} /\ gpc \in {"idle", "flush"}
  BY <1>1 DEF IInv, SweepAlone
<1>4. Fits(group) /\ Whole(db)
  BY <1>1 DEF IInv, WritesFit, DisksWhole
<1>5. Whole(db')
  <2>1. RootOf(db') \subseteq db'.nodes
    BY <1>2, <1>4 DEF Fits, RootOf
  <2>2. ASSUME NEW n \in db'.nodes PROVE Refs[n] \subseteq db'.nodes
    <3>1. CASE n \in db.nodes
      BY <3>1, <1>2, <1>4 DEF Whole, ClosedUnder
    <3>2. CASE n \in group.nodes
      BY <3>2, <1>2, <1>4 DEF Fits
    <3> QED BY <3>1, <3>2, <1>2
  <2> QED BY <2>1, <2>2 DEF Whole, ClosedUnder
<1>6. DisksWhole'
  <2>1. \A d \in {db', safe} \cup unsynced \cup {db'} : Whole(d)
    BY <1>5 DEF IInv, DisksWhole
  <2> QED BY <1>1, <2>1 DEF DisksWhole
<1>7. SweepSpares'
  <2>1. Kept' = db'.nodes
    BY <1>1, <1>3 DEF Kept
  <2>2. unread \subseteq db.nodes \cap safe.nodes
    BY DEF IInv, SweepSpares, Kept
  <2>3. RootOf(db)' = RootOf(db')
    BY DEF RootOf
  <2> QED BY <1>1, <1>2, <1>5, <2>1, <2>2, <2>3 DEF SweepSpares, Whole
<1>8. MemoHonest'
  BY <1>1, <1>2 DEF IInv, MemoHonest
<1>9. SweepAlone'
  BY <1>1, <1>3 DEF SweepAlone
<1>10. WritesFit'
  <2>1. \A i \in DOMAIN pending : Fits(pending[i])
    BY DEF IInv, WritesFit
  <2>2. \A i \in DOMAIN pending' : Fits(pending[i])'
    BY <1>1, <1>2, <2>1 DEF Fits
  <2> QED BY <1>1, <1>2, <2>2 DEF WritesFit
<1> QED
  BY <1>6, <1>7, <1>8, <1>9, <1>10

(* A sync saves what the process reads. *)
LEMMA SyncKeeps ==
  ASSUME IInv, SyncGroup
  PROVE  DisksWhole' /\ SweepSpares' /\ MemoHonest' /\ SweepAlone' /\ WritesFit'
<1>1. /\ wpc = "sync" /\ wpc' = "present" /\ safe' = db /\ unsynced' = {}
      /\ UNCHANGED <<db, present, unread, pending, group, gpc, swept>>
  BY DEF SyncGroup, memVars, gcVars
<1>2. swept = {} /\ gpc \in {"idle", "flush"}
  BY <1>1 DEF IInv, SweepAlone
<1>3. DisksWhole' /\ SweepAlone'
  BY <1>1, <1>2 DEF IInv, DisksWhole, Whole, RootOf, SweepAlone
<1>4. SweepSpares' /\ MemoHonest'
  BY <1>1, <1>2 DEF IInv, SweepSpares, Kept, RootOf, MemoHonest
<1>5. WritesFit'
  BY <1>1 DEF IInv, WritesFit, Fits
<1> QED
  BY <1>3, <1>4, <1>5

(* Then, and only then, its nodes are present. *)
LEMMA MarkPresentKeeps ==
  ASSUME IInv, MarkPresent
  PROVE  DisksWhole' /\ SweepSpares' /\ MemoHonest' /\ SweepAlone' /\ WritesFit'
<1>1. /\ wpc = "present" /\ wpc' = "idle" /\ present' = present \cup group.nodes
      /\ UNCHANGED <<db, safe, unsynced, unread, pending, gpc, swept>>
  BY DEF MarkPresent, memVars, gcVars
<1>2. group.nodes \subseteq db.nodes \cap safe.nodes
  BY <1>1 DEF IInv, WritesFit
<1>3. gpc \in {"idle", "flush"}
  BY <1>1 DEF IInv, SweepAlone
<1>4. MemoHonest'
  BY <1>1, <1>2 DEF IInv, MemoHonest
<1>5. DisksWhole' /\ SweepSpares' /\ SweepAlone' /\ WritesFit'
  BY <1>1, <1>3 DEF IInv, DisksWhole, Whole, RootOf, SweepSpares, Kept, SweepAlone, WritesFit, Fits
<1> QED
  BY <1>4, <1>5

LEMMA GroupFailsKeeps ==
  ASSUME IInv, GroupFails
  PROVE  DisksWhole' /\ SweepSpares' /\ MemoHonest' /\ SweepAlone' /\ WritesFit'
<1>1. /\ wpc \in {"batch", "sync"} /\ wpc' = "idle"
      /\ UNCHANGED <<db, safe, unsynced, present, unread, pending, gpc, swept>>
  BY DEF GroupFails, memVars, gcVars
<1>2. gpc \in {"idle", "flush"}
  BY <1>1 DEF IInv, SweepAlone
<1> QED
  BY <1>1, <1>2 DEF IInv, DisksWhole, Whole, RootOf, SweepSpares, Kept, MemoHonest, SweepAlone,
     WritesFit, Fits

(* The mark spares a set that is closed and holds the root and every paged *)
(* node, so what is swept is missed by neither the disk nor a reader.      *)
LEMMA GcMarkKeeps ==
  ASSUME IInv, GcMark
  PROVE  DisksWhole' /\ SweepSpares' /\ MemoHonest' /\ SweepAlone' /\ WritesFit'
<1>1. /\ gpc = "flush" /\ pending = << >> /\ wpc = "idle" /\ gpc' = "sweep"
      /\ swept' = db.nodes \ Beneath(GcRoots)
      /\ UNCHANGED <<db, safe, unsynced, present, unread, pending, group, wpc>>
  BY DEF GcMark, memVars, gcVars
<1>2. swept = {}
  BY <1>1 DEF IInv, SweepAlone
<1>3. GcRoots \subseteq Nodes /\ GcRoots \subseteq db.nodes
  BY <1>2, DiskType DEF IInv, TypeOK, GcRoots, SweepSpares, Kept
<1>4. GcRoots \subseteq Beneath(GcRoots) /\ ClosedUnder(Beneath(GcRoots), Refs)
  BY <1>3, BeneathLaws
<1>5. Kept' = db.nodes \cap Beneath(GcRoots)
  BY <1>1 DEF Kept
<1>6. ClosedUnder(db.nodes, Refs)
  BY DEF IInv, DisksWhole, Whole
<1>7. ClosedUnder(Kept', Refs)
  BY <1>4, <1>5, <1>6 DEF ClosedUnder
<1>8. SweepSpares'
  <2>1. RootOf(db) \subseteq Kept' /\ unread \subseteq Kept'
    BY <1>3, <1>4, <1>5 DEF GcRoots
  <2>2. unread \subseteq safe.nodes
    BY DEF IInv, SweepSpares
  <2>3. RootOf(db)' = RootOf(db)
    BY <1>1 DEF RootOf
  <2> QED BY <1>1, <1>7, <2>1, <2>2, <2>3 DEF SweepSpares
<1>9. MemoHonest'
  BY <1>1, <1>2 DEF IInv, MemoHonest
<1>10. DisksWhole' /\ SweepAlone' /\ WritesFit'
  BY <1>1 DEF IInv, DisksWhole, Whole, RootOf, SweepAlone, WritesFit, Fits
<1> QED
  BY <1>8, <1>9, <1>10

(* The sweep removes just that, before and after the sync. *)
LEMMA GcSweepKeeps ==
  ASSUME IInv, GcSweep
  PROVE  DisksWhole' /\ SweepSpares' /\ MemoHonest' /\ SweepAlone' /\ WritesFit'
<1>1. /\ gpc = "sweep" /\ gpc' = "sync"
      /\ db' = [db EXCEPT !.nodes = @ \ swept] /\ unsynced' = unsynced \cup {db'}
      /\ UNCHANGED <<safe, present, unread, pending, group, wpc, swept>>
  BY DEF GcSweep, memVars, gcVars
<1>2. db'.nodes = Kept /\ db'.root = db.root
  BY <1>1 DEF IInv, TypeOK, Disks, Kept
<1>3. pending = << >> /\ wpc = "idle"
  BY <1>1 DEF IInv, SweepAlone
<1>4. RootOf(db') = RootOf(db) /\ Kept' = Kept
  BY <1>1, <1>2 DEF RootOf, Kept
<1>5. Whole(db')
  BY <1>2, <1>4 DEF IInv, SweepSpares, Whole
<1>6. DisksWhole'
  <2>1. \A d \in {db', safe} \cup unsynced \cup {db'} : Whole(d)
    BY <1>5 DEF IInv, DisksWhole
  <2> QED BY <1>1, <2>1 DEF DisksWhole
<1>7. SweepSpares'
  <2>1. RootOf(db)' = RootOf(db')
    BY DEF RootOf
  <2> QED BY <1>1, <1>4, <2>1 DEF IInv, SweepSpares
<1>8. MemoHonest'
  BY <1>1, <1>2 DEF IInv, MemoHonest, Kept
<1>9. SweepAlone' /\ WritesFit'
  BY <1>1, <1>3 DEF SweepAlone, WritesFit
<1> QED
  BY <1>6, <1>7, <1>8, <1>9

LEMMA GcSyncKeeps ==
  ASSUME IInv, GcSync
  PROVE  DisksWhole' /\ SweepSpares' /\ MemoHonest' /\ SweepAlone' /\ WritesFit'
<1>1. /\ gpc = "sync" /\ gpc' = "forget" /\ safe' = db /\ unsynced' = {}
      /\ UNCHANGED <<db, present, unread, pending, group, wpc, swept>>
  BY DEF GcSync, memVars, gcVars
<1>2. pending = << >> /\ wpc = "idle"
  BY <1>1 DEF IInv, SweepAlone
<1> QED
  BY <1>1, <1>2 DEF IInv, DisksWhole, Whole, RootOf, SweepSpares, Kept, MemoHonest, SweepAlone, WritesFit

(* The memo forgets what was swept. *)
LEMMA GcForgetKeeps ==
  ASSUME IInv, GcForget
  PROVE  DisksWhole' /\ SweepSpares' /\ MemoHonest' /\ SweepAlone' /\ WritesFit'
<1>1. /\ gpc = "forget" /\ gpc' = "idle" /\ present' = present \ swept /\ swept' = {}
      /\ UNCHANGED <<db, safe, unsynced, unread, pending, group, wpc>>
  BY DEF GcForget, memVars, gcVars, Remembered
<1>2. pending = << >> /\ wpc = "idle"
  BY <1>1 DEF IInv, SweepAlone
<1>3. DisksWhole' /\ MemoHonest' /\ SweepAlone' /\ WritesFit'
  BY <1>1, <1>2 DEF IInv, DisksWhole, Whole, RootOf, MemoHonest, SweepAlone, WritesFit
<1>4. SweepSpares'
  <2>1. ClosedUnder(db.nodes, Refs) /\ RootOf(db) \subseteq db.nodes
    BY DEF IInv, DisksWhole, Whole
  <2> QED BY <1>1, <2>1 DEF IInv, SweepSpares, Kept, RootOf
<1> QED
  BY <1>3, <1>4

(* What a crash leaves is whole, so the root's children can be paged.      *)
LEMMA CrashKeeps ==
  ASSUME IInv, Crash
  PROVE  DisksWhole' /\ SweepSpares' /\ MemoHonest' /\ SweepAlone' /\ WritesFit'
<1>1. PICK d \in {safe} \cup unsynced :
        /\ db' = d /\ safe' = d /\ unsynced' = {}
        /\ unread' = Children(RootOf(d))
        /\ present' = RootOf(d) \cup Children(RootOf(d))
        /\ pending' = << >> /\ wpc' = "idle" /\ gpc' = "idle" /\ swept' = {}
  BY DEF Crash
<1>2. Whole(d)
  BY DEF IInv, DisksWhole
<1>3. RootOf(d) \subseteq d.nodes /\ Children(RootOf(d)) \subseteq d.nodes
  BY <1>2 DEF Whole, ClosedUnder, Children
<1>4. DisksWhole'
  BY <1>1, <1>2 DEF DisksWhole
<1>5. SweepSpares'
  <2>1. Kept' = d.nodes /\ RootOf(db)' = RootOf(d)
    BY <1>1 DEF Kept, RootOf
  <2> QED BY <1>1, <1>2, <1>3, <2>1 DEF SweepSpares, Whole
<1>6. MemoHonest' /\ SweepAlone' /\ WritesFit'
  BY <1>1, <1>3 DEF MemoHonest, SweepAlone, WritesFit
<1> QED
  BY <1>4, <1>5, <1>6

----------------------------------------------------------------------------
(* The theorems.                                                           *)

LEMMA Inductive == IInv /\ [Next]_vars /\ ~ lapsed' => IInv'
<1> SUFFICES ASSUME IInv, [Next]_vars, ~ lapsed' PROVE IInv'
  OBVIOUS
<1> DEFINE Rest == DisksWhole' /\ SweepSpares' /\ MemoHonest' /\ SweepAlone' /\ WritesFit'
<1> SUFFICES Rest
  <2>1. TypeOK'
    BY NextType DEF IInv
  <2> QED BY <2>1 DEF IInv
<1>1. ASSUME NEW n \in Edits, Stage(n) PROVE Rest
  BY <1>1, StageKeeps
<1>2. ASSUME NEW n \in Nodes, PageIn(n) PROVE Rest
  BY <1>2, PageInKeeps
<1>3. ASSUME NEW n \in Nodes, Release(n) PROVE Rest
  <2>1. Hold(top, held \ {n}, resident, unread)
    BY <1>3 DEF Release
  <2>2. unread' \subseteq unread
    BY <2>1, HoldType DEF IInv, TypeOK
  <2> QED BY <1>3, <2>2, HoldKeeps DEF gcVars, Release
<1>4. CASE Acquire
  BY <1>4, HoldKeeps DEF gcVars, Acquire
<1>5. CASE Lead
  BY <1>5, LeadKeeps
<1>6. CASE WriteBatch
  BY <1>6, WriteBatchKeeps
<1>7. CASE SyncGroup
  BY <1>7, SyncKeeps
<1>8. CASE MarkPresent
  BY <1>8, MarkPresentKeeps
<1>9. CASE GroupFails
  BY <1>9, GroupFailsKeeps
<1>10. CASE GcStart \/ GcRefused
  BY <1>10 DEF GcStart, GcRefused, memVars, gcVars, IInv, DisksWhole, Whole, RootOf, SweepSpares, Kept,
     MemoHonest, SweepAlone, WritesFit, Fits
<1>11. CASE GcMark
  BY <1>11, GcMarkKeeps
<1>12. CASE GcSweep
  BY <1>12, GcSweepKeeps
<1>13. CASE GcSync
  BY <1>13, GcSyncKeeps
<1>14. CASE GcForget
  BY <1>14, GcForgetKeeps
<1>15. CASE GcFails
  BY <1>15 DEF GcFails, gcVars
<1>16. CASE Crash
  BY <1>16, CrashKeeps
<1>17. CASE UNCHANGED vars
  BY <1>17, HoldKeeps DEF vars, memVars, gcVars
<1> QED
  BY <1>1, <1>2, <1>3, <1>4, <1>5, <1>6, <1>7, <1>8, <1>9, <1>10, <1>11, <1>12, <1>13, <1>14,
     <1>15, <1>16, <1>17 DEF Next, Commit, Gc

(* Once a sweep's sync has failed, it has. *)
LEMMA LapseStays == lapsed /\ [Next]_vars => lapsed'
  BY DEF Next, vars, gcVars, Stage, PageIn, Release, Acquire, Commit, Lead, WriteBatch,
     SyncGroup, MarkPresent, GroupFails, Gc, GcStart, GcRefused, GcMark, GcSweep, GcSync,
     GcForget, GcFails, Crash

LEMMA SpecIInv == Spec => [](lapsed \/ IInv)
  BY InitIInv, Inductive, LapseStays, PTL DEF Spec

(* Every variable keeps its type. *)
THEOREM NodeStoreTypeCorrect == Spec => []TypeOK
  BY InitType, NextType, PTL DEF Spec

(* Every root record a crash may leave has every node beneath it stored    *)
(* (collect_nodes, write_group, gc), whatever edits share and whatever     *)
(* groups fail, until a sweep's own sync fails.                            *)
THEOREM RootAlwaysClosed == Spec => []RootStaysClosed
<1>1. IInv => RootClosed
  <2> SUFFICES ASSUME IInv, NEW d \in {db, safe} \cup unsynced
               PROVE  Beneath(RootOf(d)) \subseteq d.nodes
    BY DEF RootClosed
  <2>1. d \in Disks
    BY DEF IInv, TypeOK
  <2>2. Whole(d)
    BY DEF IInv, DisksWhole
  <2> QED BY <2>1, <2>2, DiskType, BeneathLaws DEF Whole
<1> QED
  BY <1>1, SpecIInv, PTL DEF RootStaysClosed

(* Paging in (GranPager::page) never finds a frame swept.                  *)
THEOREM StubsStayReadable == Spec => []StubsReadable
<1>1. lapsed \/ IInv => StubsReadable
  <2> SUFFICES ASSUME IInv PROVE Beneath(unread) \subseteq db.nodes
    BY DEF StubsReadable
  <2>1. unread \subseteq Nodes /\ Kept \subseteq Nodes /\ Kept \subseteq db.nodes
    BY DiskType DEF IInv, TypeOK, Kept
  <2>2. unread \subseteq Kept /\ ClosedUnder(Kept, Refs)
    BY DEF IInv, SweepSpares
  <2> QED BY <2>1, <2>2, BeneathLaws
<1> QED
  BY <1>1, SpecIInv, PTL

(* When something may be staged, what it may leave out is on disk          *)
(* (Granfilade.present).                                                   *)
THEOREM PresentStaysHonest == Spec => []PresentHonest
<1>1. lapsed \/ IInv => PresentHonest
  <2> SUFFICES ASSUME IInv, gpc = "idle" PROVE Beneath(present) \subseteq safe.nodes
    BY DEF PresentHonest
  <2>1. present \subseteq Nodes /\ safe.nodes \subseteq Nodes
    BY DiskType DEF IInv, TypeOK
  <2>2. present \subseteq safe.nodes /\ ClosedUnder(safe.nodes, Refs)
    BY DEF IInv, SweepAlone, MemoHonest, DisksWhole, Whole
  <2> QED BY <2>1, <2>2, BeneathLaws
<1> QED
  BY <1>1, SpecIInv, PTL
=============================================================================
