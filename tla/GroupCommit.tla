---------------------------- MODULE GroupCommit ----------------------------
(***************************************************************************)
(* How the Ent store makes commits durable                                 *)
(* (crates/grmpl-ent/src/store.rs, Granfilade::write_group).               *)
(*                                                                         *)
(* A committer allocates its edition and queues its root record under the  *)
(* branch's edition lock and the family's root lock, then leaves both and  *)
(* drives durability: it either leads - takes the whole queue, writes it   *)
(* as one batch and one sync - or sleeps until a leader's group lands.     *)
(* A group may fail, the machine may stop between any two steps, and a     *)
(* call returns Ok only once its stage is on disk.                         *)
(*                                                                         *)
(* Each branch has one handle, as the store expects of its callers; the    *)
(* extra handle EntStore::branch makes is an observer's.                   *)
(***************************************************************************)
EXTENDS World

CONSTANTS
  Clients,      (* threads calling the store                             *)
  Observers,    (* threads that open a further handle with branch()      *)
  NoOne,        (* the holder of a free lock                             *)
  MaxStages,    (* bound: stages in one history                          *)
  MaxFailures   (* bound: groups that fail                               *)

ASSUME GroupCommitAssumption ==
  /\ NoOne \notin Clients \cup Observers
  /\ Clients \cap Observers = {}
  /\ MaxStages \in Nat /\ MaxFailures \in Nat

Threads == Clients \cup Observers

VARIABLES
  world,      (* the Ent's root as of the latest stage (Family.root)      *)
  edLock,     (* holder of each branch's edition lock (EntStore.inner)    *)
  rootLock,   (* holder of the root lock across a gc                      *)
  pending,    (* Durable.pending: staged writes in staging order          *)
  staged,     (* Durable.staged                                           *)
  landed,     (* Durable.landed                                           *)
  durable,    (* Durable.durable, each branch's durable edition           *)
  writer,     (* the leader while Durable.writing is set                  *)
  group,      (* the leader's group                                       *)
  failure,    (* Durable.failure: the highest seq it carried, 0 for none  *)
  disk,       (* the root record the last completed sync left             *)
  unsynced,   (* root records batched since, not synced                   *)
  pc, call,   (* where each thread is, and the call it makes              *)
  opened,     (* branches with a handle                                   *)
  acked,      (* stages whose call returned Ok                            *)
  failures    (* groups that failed so far (bounded)                      *)

durVars  == <<pending, staged, landed, durable, writer, group, failure>>
diskVars == <<disk, unsynced>>
lockVars == <<edLock, rootLock>>
replies  == <<acked>>
vars == <<world, lockVars, durVars, diskVars, pc, call, opened, replies, failures>>

(* One Pending: a stage's number, its branch and edition, and the root     *)
(* record as of it.                                                        *)
PendingRecord ==
  [seq : Nat, branch : Branches, edition : Nat, root : Seq(StageRecord)]

(* A call in flight: the branch, the state it stages, and the stage number *)
(* it waits for (0 is None: wait for the queue to drain).                  *)
Calls == {"commit", "reshape", "fork", "gc", "branch"}
CallRecord ==
  [op : Calls, branch : Branches, state : BranchState, target : Nat]

IdleCall == [op |-> "commit", branch |-> Root, state |-> EmptyState, target |-> 0]

PCs == {"idle", "locked", "drive", "asleep", "batch", "sync", "land", "return"}

TypeOK ==
  /\ world \in Seq(StageRecord)
  /\ edLock \in [Branches -> Threads \cup {NoOne}]
  /\ rootLock \in Threads \cup {NoOne}
  /\ pending \in Seq(PendingRecord)
  /\ staged \in Nat /\ landed \in Nat
  /\ durable \in [Branches -> Nat]
  /\ writer \in Threads \cup {NoOne}
  /\ group \in Seq(PendingRecord)
  /\ failure \in Nat
  /\ disk \in Seq(StageRecord)
  /\ unsynced \subseteq Seq(StageRecord)
  /\ pc \in [Threads -> PCs]
  /\ call \in [Threads -> CallRecord]
  /\ opened \subseteq Branches
  /\ acked \subseteq StageRecord
  /\ failures \in Nat

Init ==
  /\ world = << >>
  /\ edLock = [b \in Branches |-> NoOne]
  /\ rootLock = NoOne
  /\ pending = << >> /\ staged = 0 /\ landed = 0
  /\ durable = [b \in Branches |-> 0]
  /\ writer = NoOne /\ group = << >> /\ failure = 0
  /\ disk = << >> /\ unsynced = {}
  /\ pc = [c \in Threads |-> "idle"]
  /\ call = [c \in Threads |-> IdleCall]
  /\ opened = {Root}
  /\ acked = {}
  /\ failures = 0

----------------------------------------------------------------------------
(* Calls begin.                                                            *)

Goto(c, label) == pc' = [pc EXCEPT ![c] = label]

Calling(c, op, b, s, target) ==
  call' = [call EXCEPT ![c] =
             [op |-> op, branch |-> b, state |-> s, target |-> target]]

(* Bounds: room in the history, and a branch id, for this call and for     *)
(* those that have yet to stage.                                           *)
YetToStage(ops) == {c \in Clients : /\ call[c].op \in ops /\ call[c].target = 0
                                    /\ pc[c] # "idle"}
RoomToStage ==
  Len(world) + Cardinality(YetToStage({"commit", "reshape", "fork"})) < MaxStages
RoomToFork == NextBranch(world) + Cardinality(YetToStage({"fork"})) <= MaxBranch

(* Defect: the lock is taken from whoever holds it. *)
BugTakeEditionLock(c, b) == edLock' = [edLock EXCEPT ![b] = c]

TakeEditionLock(c, b) ==
  /\ edLock[b] = NoOne
  /\ edLock' = [edLock EXCEPT ![b] = c]

(* Every precondition holds in the allocated state, durable or not. *)
Validated(b, p) == \A f \in p.pre : HoldsNow(StateOf(world, b), f)

(* commit / commit_if, under the edition lock: every precondition is       *)
(* checked against the allocated state, the edition allocated and applied. *)
CommitStart(c, b, p) ==
  /\ pc[c] = "idle" /\ b \in opened /\ RoomToStage
  /\ Validated(b, p)
  /\ TakeEditionLock(c, b)
  /\ Calling(c, "commit", b, Applied(StateOf(world, b), p), 0)
  /\ Goto(c, "locked")
  /\ UNCHANGED <<world, rootLock, durVars, diskVars, opened, replies, failures>>

(* commit_if returns None: a precondition does not hold, nothing changes. *)
CommitRejected(c, b, p) ==
  /\ pc[c] = "idle" /\ b \in opened
  /\ edLock[b] = NoOne
  /\ ~ Validated(b, p)
  /\ UNCHANGED vars

(* reshape_default to a shape the branch does not have, before any of its  *)
(* relations is written: once one is, the call errors, and to the shape    *)
(* the branch has it returns Ok, neither changing anything.                *)
ReshapeStart(c, b, s) ==
  /\ pc[c] = "idle" /\ b \in opened /\ RoomToStage
  /\ s # StateOf(world, b).shape
  /\ Current(StateOf(world, b)) = 0
  /\ TakeEditionLock(c, b)
  /\ Calling(c, "reshape", b, [StateOf(world, b) EXCEPT !.shape = s], 0)
  /\ Goto(c, "locked")
  /\ UNCHANGED <<world, rootLock, durVars, diskVars, opened, replies, failures>>

(* fork_at: holding the parent's edition lock, land the queue first. *)
ForkStart(c, b, at) ==
  /\ pc[c] = "idle" /\ b \in opened /\ RoomToStage
  /\ RoomToFork
  /\ TakeEditionLock(c, b)
  /\ Calling(c, "fork", b, ForkedFrom(StateOf(world, b), b, at), 0)
  /\ Goto(c, "drive")
  /\ UNCHANGED <<world, rootLock, durVars, diskVars, opened, replies, failures>>

(* gc: holding the root lock, so nothing is staged meanwhile, land the     *)
(* queue before sweeping.                                                  *)
GcStart(c) ==
  /\ pc[c] = "idle" /\ rootLock = NoOne
  /\ rootLock' = c
  /\ Calling(c, "gc", Root, EmptyState, 0)
  /\ Goto(c, "drive")
  /\ UNCHANGED <<world, edLock, durVars, diskVars, opened, replies, failures>>

(* branch(): the state is read under the root lock ... *)
BranchStart(c, b) ==
  /\ pc[c] = "idle" /\ c \in Observers
  /\ rootLock = NoOne /\ Known(world, b)
  /\ Calling(c, "branch", b, StateOf(world, b), 0)
  /\ Goto(c, "return")
  /\ UNCHANGED <<world, lockVars, durVars, diskVars, opened, replies, failures>>

----------------------------------------------------------------------------
(* stage_in: one new root record, queued in staging order.                 *)

Enstage(c, b, s) ==
  /\ rootLock = NoOne
  /\ world' = Append(world, [branch |-> b, state |-> s])
  /\ staged' = staged + 1
  /\ pending' = Append(pending, [seq |-> staged + 1, branch |-> b,
                                 edition |-> Current(s), root |-> world'])
  /\ Calling(c, call[c].op, b, s, staged + 1)
  /\ Goto(c, "drive")
  /\ UNCHANGED <<rootLock, landed, durable, writer, group, failure, diskVars,
                 opened, replies, failures>>

(* commit and reshape stage the state they built and leave the edition     *)
(* lock.                                                                   *)
Stage(c) ==
  /\ pc[c] = "locked" /\ call[c].op \in {"commit", "reshape"}
  /\ Enstage(c, call[c].branch, call[c].state)
  /\ edLock' = [edLock EXCEPT ![call[c].branch] = NoOne]

(* fork_at stages the new branch; the parent's edition lock is dropped.    *)
StageFork(c) ==
  /\ pc[c] = "locked" /\ call[c].op = "fork"
  /\ NextBranch(world) \in Branches
  /\ Enstage(c, NextBranch(world), call[c].state)
  /\ edLock' = [edLock EXCEPT ![call[c].branch] = NoOne]

----------------------------------------------------------------------------
(* drive_durability, one action per way an iteration under the durability  *)
(* lock can go.                                                            *)

(* Durable::doom: a failed group dooms everyone waiting for a stage it     *)
(* could have carried, and every flusher.                                  *)
Doomed(target) == failure # 0 /\ (target = 0 \/ target <= failure)

(* Defect: a waiter leaves once its stage is queued. *)
BugDone(target) == IF target = 0 THEN pending = << >> /\ writer = NoOne
                                 ELSE staged >= target

Done(target) == IF target = 0 THEN pending = << >> /\ writer = NoOne
                              ELSE landed >= target

(* Err: the guards the call still holds are dropped on the way out. *)
ReturnErr(c) ==
  /\ edLock' = [b \in Branches |-> IF edLock[b] = c THEN NoOne ELSE edLock[b]]
  /\ rootLock' = IF rootLock = c THEN NoOne ELSE rootLock

(* Defect: nobody is told. *)
BugNotifyAll(labels) == labels

(* notify_all: every sleeper is awake. *)
NotifyAll(labels) == [c \in Threads |-> IF labels[c] = "asleep" THEN "drive" ELSE labels[c]]

DriveDoomed(c) ==
  /\ pc[c] = "drive" /\ Doomed(call[c].target)
  /\ ReturnErr(c)
  /\ pc' = [pc EXCEPT ![c] = "idle"]
  /\ call' = [call EXCEPT ![c] = IdleCall]
  /\ UNCHANGED <<world, durVars, diskVars, opened, acked, failures>>

DriveDone(c) ==
  /\ pc[c] = "drive" /\ ~ Doomed(call[c].target) /\ Done(call[c].target)
  /\ Goto(c, "return")
  /\ UNCHANGED <<world, lockVars, durVars, diskVars, call, opened, replies, failures>>

DriveSleep(c) ==
  /\ pc[c] = "drive" /\ ~ Doomed(call[c].target) /\ ~ Done(call[c].target)
  /\ writer # NoOne
  /\ Goto(c, "asleep")
  /\ UNCHANGED <<world, lockVars, durVars, diskVars, call, opened, replies, failures>>

DriveLead(c) ==
  /\ pc[c] = "drive" /\ ~ Doomed(call[c].target) /\ ~ Done(call[c].target)
  /\ writer = NoOne /\ pending # << >>
  /\ group' = pending /\ pending' = << >>
  /\ writer' = c
  /\ Goto(c, "batch")
  /\ UNCHANGED <<world, lockVars, staged, landed, durable, failure, diskVars,
                 call, opened, replies, failures>>

----------------------------------------------------------------------------
(* write_group: one batch carrying every node and the newest root record,  *)
(* then one sync.                                                          *)

WriteBatch(c) ==
  /\ pc[c] = "batch"
  /\ unsynced' = unsynced \cup {Last(group).root}
  /\ Goto(c, "sync")
  /\ UNCHANGED <<world, lockVars, durVars, disk, call, opened, replies, failures>>

(* A sync covers every batch written before it. *)
SyncOk(c) ==
  /\ pc[c] = "sync"
  /\ disk' = Last(group).root /\ unsynced' = {}
  /\ Goto(c, "land")
  /\ UNCHANGED <<world, lockVars, durVars, call, opened, replies, failures>>

(* The highest edition of branch b the group carried, or e if higher. *)
Raised(b, e) ==
  Max({e} \cup {group[i].edition : i \in {j \in DOMAIN group : group[j].branch = b}})

(* Defect: only the group's first stage counts as landed. *)
BugLandedThrough == Max({landed, Head(group).seq})

LandedThrough == Max({landed, Last(group).seq})

(* The group landed: wake the followers and look again. *)
Land(c) ==
  /\ pc[c] = "land"
  /\ writer' = NoOne /\ group' = << >>
  /\ landed' = LandedThrough
  /\ durable' = [b \in Branches |-> Raised(b, durable[b])]
  /\ pc' = [NotifyAll(pc) EXCEPT ![c] = "drive"]
  /\ UNCHANGED <<world, lockVars, pending, staged, failure, diskVars, call,
                 opened, replies, failures>>

(* Defect: memory is rolled back under stages already queued on it. *)
BugKeptInMemory == world' = disk

(* The failed editions stay applied in memory. *)
KeptInMemory == UNCHANGED world

(* The batch or its sync failed: the group is recorded as failed, the      *)
(* followers woken, and the leader returns the error.                      *)
GroupFails(c) ==
  /\ pc[c] \in {"batch", "sync"} /\ failures < MaxFailures
  /\ failures' = failures + 1
  /\ writer' = NoOne /\ group' = << >>
  /\ failure' = Last(group).seq
  /\ ReturnErr(c)
  /\ pc' = [NotifyAll(pc) EXCEPT ![c] = "idle"]
  /\ call' = [call EXCEPT ![c] = IdleCall]
  /\ KeptInMemory
  /\ UNCHANGED <<pending, staged, landed, durable, diskVars, opened, acked>>

----------------------------------------------------------------------------
(* drive_durability returned Ok.                                           *)

Return(c) ==
  /\ Goto(c, "idle")
  /\ call' = [call EXCEPT ![c] = IdleCall]

StageReturns(c) ==
  /\ pc[c] = "return" /\ call[c].op \in {"commit", "reshape"}
  /\ acked' = acked \cup {[branch |-> call[c].branch, state |-> call[c].state]}
  /\ Return(c)
  /\ UNCHANGED <<world, lockVars, durVars, diskVars, opened, failures>>

(* fork_at: the queue drained, go on to stage the child ... *)
ForkFlushed(c) ==
  /\ pc[c] = "return" /\ call[c].op = "fork" /\ call[c].target = 0
  /\ Goto(c, "locked")
  /\ UNCHANGED <<world, lockVars, durVars, diskVars, call, opened, replies, failures>>

(* EntStore::on: a handle records its branch's edition as durable. *)
On(b, s) == durable' = [durable EXCEPT ![b] = Current(s)]

(* ... and, the child being durable, hand out its handle. *)
ForkReturns(c) ==
  /\ pc[c] = "return" /\ call[c].op = "fork" /\ call[c].target # 0
  /\ acked' = acked \cup {[branch |-> call[c].branch, state |-> call[c].state]}
  /\ opened' = opened \cup {call[c].branch}
  /\ On(call[c].branch, call[c].state)
  /\ Return(c)
  /\ UNCHANGED <<world, lockVars, pending, staged, landed, writer, group, failure,
                 diskVars, failures>>

(* gc sweeps what the root record no longer reaches and drops the lock. *)
GcReturns(c) ==
  /\ pc[c] = "return" /\ call[c].op = "gc"
  /\ rootLock' = NoOne
  /\ Return(c)
  /\ UNCHANGED <<world, edLock, durVars, diskVars, opened, replies, failures>>

(* ... and branch() makes the handle of the state it read. *)
BranchReturns(c) ==
  /\ pc[c] = "return" /\ call[c].op = "branch"
  /\ On(call[c].branch, call[c].state)
  /\ Return(c)
  /\ UNCHANGED <<world, lockVars, pending, staged, landed, writer, group, failure,
                 diskVars, opened, replies, failures>>

----------------------------------------------------------------------------
(* The machine stops and the store is opened again: what was synced is     *)
(* there, what was batched since may be, and everything in memory is gone. *)
(* The host takes a handle on every branch it finds.                       *)
Crash ==
  \E r \in {disk} \cup unsynced :
    /\ world' = r /\ disk' = r /\ unsynced' = {}
    /\ edLock' = [b \in Branches |-> NoOne] /\ rootLock' = NoOne
    /\ pending' = << >> /\ staged' = 0 /\ landed' = 0
    /\ durable' = [b \in Branches |-> Current(StateOf(r, b))]
    /\ writer' = NoOne /\ group' = << >> /\ failure' = 0
    /\ pc' = [c \in Threads |-> "idle"]
    /\ call' = [c \in Threads |-> IdleCall]
    /\ opened' = {b \in Branches : Known(r, b)}
    /\ UNCHANGED <<replies, failures>>

----------------------------------------------------------------------------
(* Forks are asked for at an edition there is, as every caller does.       *)
Begin(c) ==
  \/ \E b \in Branches :
       \/ \E p \in Patches : CommitStart(c, b, p) \/ CommitRejected(c, b, p)
       \/ \E s \in Shapes : ReshapeStart(c, b, s)
       \/ \E at \in 0..Current(StateOf(world, b)) : ForkStart(c, b, at)
  \/ GcStart(c)

Drive(c) == DriveDoomed(c) \/ DriveDone(c) \/ DriveSleep(c) \/ DriveLead(c)

Write(c) == WriteBatch(c) \/ SyncOk(c) \/ Land(c)

Finish(c) == StageReturns(c) \/ ForkFlushed(c) \/ ForkReturns(c) \/ GcReturns(c) 
             \/ BranchReturns(c)

Next ==
  \/ \E c \in Clients : Begin(c)
  \/ \E c \in Observers, b \in Branches : BranchStart(c, b)
  \/ \E c \in Threads : Stage(c) \/ StageFork(c) \/ Drive(c) \/ Write(c)
                        \/ GroupFails(c) \/ Finish(c)
  \/ Crash

Spec == Init /\ [][Next]_vars

(* Threads are scheduled and syncs return; a lock released again and again *)
(* is eventually acquired.                                                 *)
Fairness ==
  \A c \in Threads :
    /\ WF_vars(Drive(c)) /\ WF_vars(Write(c)) /\ WF_vars(Finish(c))
    /\ SF_vars(Stage(c)) /\ SF_vars(StageFork(c))

FairSpec == Spec /\ Fairness

----------------------------------------------------------------------------
(* Properties.                                                             *)

(* A call that returned Ok is on disk, whatever crashes or fails after it:  *)
(* commit and commit_if return only after the edition they return is       *)
(* durable (drive_durability's target, write_group's sync).                *)
AckedOnDisk == acked \subseteq ToSet(disk)

(* What a crash may leave is always an earlier root of the one history the *)
(* threads see, never a mixture: FIFO staging order reaches the disk.      *)
RecoverableIsPrefix ==
  \A r \in {disk} \cup unsynced : IsPrefix(disk, r) /\ IsPrefix(r, world)

(* drive_durability's "neither pending nor durable" is unreachable: a      *)
(* waiter's stage is queued, in the leader's group, landed or failed.      *)
NeverLost ==
  \A c \in Threads : pc[c] \in {"drive", "asleep"} /\ call[c].target # 0 =>
    \/ \E i \in DOMAIN pending : pending[i].seq = call[c].target
    \/ \E i \in DOMAIN group : group[i].seq = call[c].target
    \/ landed >= call[c].target \/ failure >= call[c].target

(* Every call is answered: no waiter sleeps through its group's landing or *)
(* failure, and no lock order can deadlock a commit, a fork and a gc.      *)
Answered == \A c \in Threads : pc[c] # "idle" ~> pc[c] = "idle"

(* The store's promise, read off its implementation: one history of lawful *)
(* stages, a hardened part of it that only grows, answers only from that   *)
(* part (DurableWorld).                                                    *)
Promise == INSTANCE DurableWorld
             WITH history <- world, hardened <- Len(disk), answered <- acked
ImplementsPromise == Promise!Spec
============================================================================
