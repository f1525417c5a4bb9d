----------------------------- MODULE NodeStore -----------------------------
(***************************************************************************)
(* The granfilade (crates/grmpl-ent/src/granfilade.rs): trees are stored a *)
(* node at a time under content keys, beneath one root record.             *)
(*                                                                         *)
(* A stage writes only nodes it does not know to be on disk, a load reads  *)
(* one node and leaves its children paged, and gc sweeps every node that   *)
(* neither the root record nor an unread paged node reaches.  Which nodes  *)
(* a write may leave out, and which a sweep may remove, depends on memos   *)
(* that grow and shrink at other times than the disk does.                 *)
(*                                                                         *)
(* A key closes over its node's children, so a node is its key and Refs is *)
(* constant.  Equal nodes in memory are taken as one instance, except that *)
(* reading one paged copy may leave another unread.                        *)
(***************************************************************************)
EXTENDS Integers, FiniteSets, Sequences

CONSTANTS
  Nodes,          (* content keys                                        *)
  Refs,           (* each node's children and links                      *)
  Edits,          (* the trees edits make                                *)
  NoNode,         (* the root record of a fresh store, an empty tree     *)
  MaxPending,     (* bound: stages queued at once                        *)
  MaxHeld,        (* bound: older trees held in memory                   *)
  GroupsFail      (* whether a group's batch or sync may fail            *)

ASSUME NodeStoreAssumption ==
  /\ Refs \in [Nodes -> SUBSET Nodes]
  /\ Edits \subseteq Nodes /\ NoNode \notin Nodes
  /\ MaxPending \in Nat /\ MaxHeld \in Nat
  /\ GroupsFail \in BOOLEAN

(* What a walk from R along `next` visits: the least set closed under it. *)
ClosedUnder(S, next) == \A n \in S : next[n] \subseteq S
Walk(R, next) ==
  {n \in Nodes : \A S \in SUBSET Nodes : R \subseteq S /\ ClosedUnder(S, next) => n \in S}

(* The frames beneath a set of keys (Granfilade::mark follows every        *)
(* reference once).                                                        *)
Beneath(R) == Walk(R, Refs)

VARIABLES
  db,        (* what the process reads: stored nodes and the root record  *)
  safe,      (* the same as of the last completed sync                    *)
  unsynced,  (* what batches since that sync may leave after a crash      *)
  present,   (* Granfilade.present                                        *)
  resident,  (* nodes whose contents are in memory                        *)
  unread,    (* paged nodes in memory not read yet (Granfilade.remembered)*)
  top,       (* the tree the family's root holds                          *)
  held,      (* older trees somebody still holds: readers, branch() handles*)
  pending,   (* staged writes                                             *)
  group,     (* the leader's group, one write                             *)
  wpc,       (* where the leader is                                       *)
  failed,    (* a group has failed: flushers are refused from then on     *)
  gpc,       (* where gc is; it holds the root lock unless "idle"         *)
  swept,     (* stored keys gc found unmarked                             *)
  lapsed     (* history: the sync that ends a sweep has failed            *)

memVars == <<resident, unread, top, held>>
gcVars == <<gpc, swept, lapsed>>
vars == <<db, safe, unsynced, present, memVars, pending, group, wpc, failed, gcVars>>

Trees == Nodes \cup {NoNode}
Disks == [nodes : SUBSET Nodes, root : Trees]

(* StagedWrite: the frames it adds and the root it names. *)
Writes == [nodes : SUBSET Nodes, root : Nodes]

TypeOK ==
  /\ db \in Disks /\ safe \in Disks /\ unsynced \subseteq Disks
  /\ present \subseteq Nodes /\ resident \subseteq Nodes /\ unread \subseteq Nodes
  /\ top \in Trees /\ held \subseteq Nodes
  /\ pending \in Seq(Writes)
  /\ wpc \in {"idle", "batch", "sync", "present"}
  /\ IF wpc = "idle" THEN group = NoNode ELSE group \in Writes
  /\ failed \in BOOLEAN
  /\ gpc \in {"idle", "flush", "sweep", "sync", "forget"}
  /\ swept \subseteq Nodes /\ lapsed \in BOOLEAN

RootOf(d) == {d.root} \ {NoNode}
Children(R) == UNION {Refs[n] : n \in R}

Init ==
  /\ db = [nodes |-> {}, root |-> NoNode] /\ safe = db /\ unsynced = {}
  /\ present = {} /\ resident = {} /\ unread = {}
  /\ top = NoNode /\ held = {}
  /\ pending = << >> /\ group = NoNode /\ wpc = "idle" /\ failed = FALSE
  /\ gpc = "idle" /\ swept = {} /\ lapsed = FALSE

----------------------------------------------------------------------------
(* Memory.                                                                 *)

(* What the trees in H keep in memory, the contents in R being resident: a *)
(* paged node keeps nothing beneath it.                                    *)
InMemory(H, R) ==
  Walk(H \ {NoNode}, [n \in Nodes |-> IF n \in R THEN Refs[n] ELSE {}])

(* The trees t and h are held, of what is in memory with R and U. *)
Hold(t, h, R, U) ==
  /\ top' = t /\ held' = h
  /\ resident' = R \cap InMemory({t} \cup h, R)
  /\ unread' = U \cap InMemory({t} \cup h, R)

(* A reader, or a further handle, keeps the present tree ... *)
Acquire ==
  /\ top # NoNode /\ Cardinality(held \cup {top}) <= MaxHeld
  /\ held' = held \cup {top}
  /\ UNCHANGED <<db, safe, unsynced, present, resident, unread, top, pending,
                 group, wpc, failed, gcVars>>

(* ... and lets it go. *)
Release(n) ==
  /\ n \in held
  /\ Hold(top, held \ {n}, resident, unread)
  /\ UNCHANGED <<db, safe, unsynced, present, pending, group, wpc, failed, gcVars>>

(* A read reaches a paged node: its frame is read and its children become  *)
(* paged nodes, present and remembered.                                    *)
PageIn(n) ==
  /\ n \in unread /\ n \in db.nodes
  /\ resident' = resident \cup {n}
  /\ present' = present \cup Refs[n]
  /\ unread' \in {(unread \ {n}) \cup Refs[n], unread \cup Refs[n]}
  /\ UNCHANGED <<db, safe, unsynced, top, held, pending, group, wpc, failed, gcVars>>

----------------------------------------------------------------------------
(* Staging and group commit.                                               *)

(* The nodes of tree n that are not in memory yet: the edit builds them. *)
Built(n) ==
  LET inMemory == resident \cup unread IN
  Walk({n} \ inMemory, [m \in Nodes |-> Refs[m] \ inMemory])

(* collect_nodes: from the root down, a node whose key is memoized and     *)
(* known to be on disk is left out with everything beneath it.             *)
Collected(n, known) ==
  Walk({n} \ known, [m \in Nodes |-> Refs[m] \ known])

(* Defect: what the leader is writing counts as written. *)
BugKnown(n) == (present \ Built(n)) \cup (IF wpc = "idle" THEN {} ELSE group.nodes)

Known(n) == present \ Built(n)

(* An edit makes tree n, sharing every node that is in memory, and stages  *)
(* it under the root lock.                                                 *)
Stage(n) ==
  /\ gpc = "idle" /\ n # top /\ Len(pending) < MaxPending
  /\ pending' = Append(pending, [nodes |-> Collected(n, Known(n)), root |-> n])
  /\ Hold(n, held, resident \cup Built(n), unread)
  /\ UNCHANGED <<db, safe, unsynced, present, group, wpc, failed, gcVars>>

(* Lead: the whole queue, its last root winning. *)
Lead ==
  /\ wpc = "idle" /\ pending # << >>
  /\ group' = [nodes |-> UNION {pending[i].nodes : i \in DOMAIN pending},
               root |-> pending[Len(pending)].root]
  /\ pending' = << >> /\ wpc' = "batch"
  /\ UNCHANGED <<db, safe, unsynced, present, memVars, failed, gcVars>>

WriteBatch ==
  /\ wpc = "batch"
  /\ db' = [nodes |-> db.nodes \cup group.nodes, root |-> group.root]
  /\ unsynced' = unsynced \cup {db'}
  /\ wpc' = "sync"
  /\ UNCHANGED <<safe, present, memVars, pending, group, failed, gcVars>>

SyncGroup ==
  /\ wpc = "sync"
  /\ safe' = db /\ unsynced' = {}
  /\ wpc' = "present"
  /\ UNCHANGED <<db, present, memVars, pending, group, failed, gcVars>>

(* Only now do the group's nodes count as present. *)
MarkPresent ==
  /\ wpc = "present"
  /\ present' = present \cup group.nodes
  /\ wpc' = "idle" /\ group' = NoNode
  /\ UNCHANGED <<db, safe, unsynced, memVars, pending, failed, gcVars>>

GroupFails ==
  /\ GroupsFail /\ wpc \in {"batch", "sync"}
  /\ wpc' = "idle" /\ group' = NoNode /\ failed' = TRUE
  /\ UNCHANGED <<db, safe, unsynced, present, memVars, pending, gcVars>>

----------------------------------------------------------------------------
(* gc.                                                                     *)

GcStart ==
  /\ gpc = "idle" /\ gpc' = "flush"
  /\ UNCHANGED <<db, safe, unsynced, present, memVars, pending, group, wpc, failed, swept, lapsed>>

(* A flusher is refused once any group has failed. *)
GcRefused ==
  /\ gpc = "flush" /\ failed
  /\ gpc' = "idle"
  /\ UNCHANGED <<db, safe, unsynced, present, memVars, pending, group, wpc, failed, swept, lapsed>>

(* Defect: paged nodes are not roots. *)
BugGcRoots == RootOf(db)

GcRoots == RootOf(db) \cup unread

(* The queue has drained: mark from the root record and from every paged   *)
(* node still unread.                                                      *)
GcMark ==
  /\ gpc = "flush" /\ ~ failed /\ pending = << >> /\ wpc = "idle"
  /\ swept' = db.nodes \ Beneath(GcRoots)
  /\ gpc' = "sweep"
  /\ UNCHANGED <<db, safe, unsynced, present, memVars, pending, group, wpc, failed, lapsed>>

GcSweep ==
  /\ gpc = "sweep"
  /\ db' = [db EXCEPT !.nodes = @ \ swept]
  /\ unsynced' = unsynced \cup {db'}
  /\ gpc' = "sync"
  /\ UNCHANGED <<safe, present, memVars, pending, group, wpc, failed, swept, lapsed>>

GcSync ==
  /\ gpc = "sync"
  /\ safe' = db /\ unsynced' = {}
  /\ gpc' = "forget"
  /\ UNCHANGED <<db, present, memVars, pending, group, wpc, failed, swept, lapsed>>

(* A resident node whose key was swept must be written again. *)
Remembered == present \ swept

GcForget ==
  /\ gpc = "forget"
  /\ present' = Remembered
  /\ gpc' = "idle" /\ swept' = {}
  /\ UNCHANGED <<db, safe, unsynced, memVars, pending, group, wpc, failed, lapsed>>

(* The sync that ends the sweep fails: gc returns before present forgets   *)
(* what the batch removed.                                                 *)
GcFails ==
  /\ gpc = "sync"
  /\ gpc' = "idle" /\ swept' = {} /\ lapsed' = TRUE
  /\ UNCHANGED <<db, safe, unsynced, present, memVars, pending, group, wpc, failed>>

----------------------------------------------------------------------------
(* The process dies; what the last sync or a later batch left is opened:   *)
(* a load reads the root's frame and leaves what it refers to paged.       *)
Crash ==
  \E d \in {safe} \cup unsynced :
    /\ db' = d /\ safe' = d /\ unsynced' = {}
    /\ resident' = RootOf(d) /\ unread' = Children(RootOf(d))
    /\ present' = RootOf(d) \cup Children(RootOf(d))
    /\ top' = d.root /\ held' = {}
    /\ pending' = << >> /\ group' = NoNode /\ wpc' = "idle" /\ failed' = FALSE
    /\ gpc' = "idle" /\ swept' = {} /\ UNCHANGED lapsed

Commit == Lead \/ WriteBatch \/ SyncGroup \/ MarkPresent \/ GroupFails
Gc == GcStart \/ GcRefused \/ GcMark \/ GcSweep \/ GcSync \/ GcForget \/ GcFails

Next ==
  \/ \E n \in Edits : Stage(n)
  \/ \E n \in Nodes : PageIn(n) \/ Release(n)
  \/ Acquire \/ Commit \/ Gc \/ Crash

Spec == Init /\ [][Next]_vars

----------------------------------------------------------------------------
(* Properties.                                                             *)

(* gc: no root record a crash may leave names a node that is not stored.   *)
RootClosed ==
  \A d \in {db, safe} \cup unsynced : Beneath(RootOf(d)) \subseteq d.nodes

(* Though each write leaves out the nodes it believes to be there, that is *)
(* so as long as no sweep's sync has failed.                               *)
RootStaysClosed == lapsed \/ RootClosed

(* A reader never finds the frame of a paged node gone, nor one beneath it *)
(* (GranPager::page would panic), however sweeps and reads interleave.     *)
StubsReadable == lapsed \/ Beneath(unread) \subseteq db.nodes

(* Whenever something may be staged, the nodes it may leave out are on     *)
(* disk with everything beneath them, as of the last sync.                 *)
PresentHonest ==
  gpc = "idle" => lapsed \/ Beneath(present) \subseteq safe.nodes
============================================================================
