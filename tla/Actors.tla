------------------------------- MODULE Actors -------------------------------
(***************************************************************************)
(* Processes, their inboxes, the numbers messages are filed under, and the *)
(* timers that file messages later (crates/grmpl-proc/src/process.rs,      *)
(* schedule.rs).                                                           *)
(*                                                                         *)
(* Everything they keep is rows of one shared world.  Threads that send,   *)
(* drive a process or fire timers each read the world in several steps, at *)
(* whatever edition is then current, and end in one guarded commit: what   *)
(* was read may be stale by then, and only the rows a patch requires are   *)
(* checked again.                                                          *)
(*                                                                         *)
(* A body stands for what its behaviour does: it may take the one thing    *)
(* there is, if it is there, and it may schedule timers.                   *)
(***************************************************************************)
EXTENDS Integers, FiniteSets, Sequences

CONSTANTS
  Procs,       (* processes                                              *)
  Senders,     (* threads that call enqueue_seq and seed_seq             *)
  Drivers,     (* threads that run a process's loop                      *)
  Firers,      (* threads that call fire_due or fire_next_due            *)
  Drives,      (* the process each driver runs                           *)
  Commands,    (* bodies that are sent                                   *)
  Takes,       (* bodies whose behaviour takes the thing                 *)
  Timers,      (* timer rows; a timer's body is the timer                *)
  Schedules,   (* the timers each body's behaviour schedules             *)
  Target,      (* the process each timer is for                          *)
  Due,         (* when each timer is due                                 *)
  Seeded,      (* processes spawned with their counter row               *)
  SeedLater,   (* processes seed_seq is called for before they are used  *)
  MaxSeq,      (* bound: numbers given out per inbox                     *)
  MaxSends,    (* bound: calls of enqueue_seq                            *)
  MaxTime,     (* bound: clock samples                                   *)
  MaxCrashes,  (* bound: crashes                                         *)
  MaxTries     (* attempts: 256 for enqueue_seq, 64 for fire_one, the    *)
               (* policy's for a step                                    *)

Bodies == Commands \cup Timers
Threads == Senders \cup Drivers \cup Firers
Seqs == 0 .. MaxSeq

ASSUME ActorsAssumption ==
  /\ Drives \in [Drivers -> Procs]
  /\ Takes \subseteq Bodies /\ Seeded \subseteq Procs
  /\ Commands \cap Timers = {}
  /\ Schedules \in [Bodies -> SUBSET Timers]
  /\ SeedLater \subseteq Procs \ Seeded
  /\ Target \in [Timers -> Procs] /\ Due \in [Timers -> Nat]
  /\ MaxSeq \in Nat /\ MaxSends \in Nat /\ MaxTime \in Nat
  /\ MaxCrashes \in Nat /\ MaxTries \in Nat \ {0}
  /\ Senders \cap Drivers = {} /\ Senders \cap Firers = {} /\ Drivers \cap Firers = {}

(* What the source asks of its callers: one driver per authority domain    *)
(* (docs/design/world-package-phase-2-actor-scheduling-implementation-     *)
(* guide.md), and a counter seeded before anybody races for its numbers    *)
(* (SeqAlloc), which a firer, filing for whoever scheduled, cannot see to. *)
ASSUME ActorsContract ==
  /\ \A d, e \in Drivers : Drives[d] = Drives[e] => d = e
  /\ \A t \in Timers : Target[t] \in Seeded

(* The relations. *)
InboxRow(a, n, b) == <<"inbox", a, n, b>>
CursorRow(a, n) == <<"cursor", a, n>>
CounterRow(a, n) == <<"seq", a, n>>
TimerRow(t) == <<"timer", t>>
Thing == <<"thing">>
Got(a) == <<"got", a>>

InboxRows == {InboxRow(a, n, b) : a \in Procs, n \in Seqs, b \in Bodies}
RowSet ==
  InboxRows \cup {CursorRow(a, n) : a \in Procs, n \in Seqs}
  \cup {CounterRow(a, n) : a \in Procs, n \in Seqs}
  \cup {TimerRow(t) : t \in Timers} \cup {Thing} \cup {Got(a) : a \in Procs}

(* What commit_patch hands to commit_if: rows required, asserted and       *)
(* retracted; a patch's timers and its cursor move are rows by then.  That *)
(* commit_if checks and applies in one step is what GroupCommit shows.     *)
NoPatch == [pre |-> {}, adds |-> {}, dels |-> {}]

(* Every precondition has positive weight at the current edition. *)
Holds(w, p) == \A r \in p.pre : w[r] > 0

Applied(w, p) ==
  [r \in DOMAIN w |-> w[r] + (IF r \in p.adds THEN 1 ELSE 0)
                           - (IF r \in p.dels THEN 1 ELSE 0)]

VARIABLES
  world,     (* the weight of every row at the current edition           *)
  clock,     (* the latest sample of simulation time                     *)
  pc,        (* where each thread is                                     *)
  call,      (* what a sender sends and to whom; what a driver handles   *)
  num,       (* the number read: a counter for senders, the cursor for   *)
             (* drivers                                                  *)
  patch,     (* the patch about to be committed                          *)
  left,      (* attempts left                                            *)
  due,       (* timers a firer still has to fire                         *)
  sends,     (* calls of enqueue_seq so far                              *)
  crashes,   (* crashes so far                                           *)
  answered,  (* history: numbers enqueue_seq has returned                *)
  done       (* history: messages processed, in commit order             *)

locals == <<pc, call, num, patch, left, due>>
history == <<sends, crashes, answered, done>>
vars == <<world, clock, locals, history>>

NoCall == << >>

Init ==
  /\ world = [r \in RowSet |->
       IF r = Thing \/ r \in {CounterRow(a, 0) : a \in Seeded} THEN 1 ELSE 0]
  /\ clock = 0
  /\ pc = [th \in Threads |-> "idle"]
  /\ call = [th \in Threads |-> NoCall]
  /\ num = [th \in Threads |-> 0]
  /\ patch = [th \in Threads |-> NoPatch]
  /\ left = [th \in Threads |-> 0]
  /\ due = [f \in Firers |-> {}]
  /\ sends = 0 /\ crashes = 0 /\ answered = {} /\ done = << >>

----------------------------------------------------------------------------
(* What is read.                                                           *)

(* The first positive cursor row in tuple order; none is position 0. *)
Position(a) ==
  LET rows == {n \in Seqs : world[CursorRow(a, n)] > 0} IN
  IF rows = {} THEN 0 ELSE CHOOSE n \in rows : \A m \in rows : n <= m

(* SeqAlloc::read keeps the last positive counter row in tuple order. *)
Counters(a) == {n \in Seqs : world[CounterRow(a, n)] > 0}
Start(a) ==
  IF Counters(a) = {} THEN 0 ELSE CHOOSE n \in Counters(a) : \A m \in Counters(a) : m <= n

(* Defect: the counter is bumped without requiring the row that was read. *)
BugSealed(a, b) ==
  [pre |-> {}, dels |-> IF Counters(a) = {} THEN {} ELSE {CounterRow(a, Start(a))},
   adds |-> {InboxRow(a, Start(a), b), CounterRow(a, Start(a) + 1)}]

(* Message b of process a under the next number, sealed: the counter row   *)
(* that was read is required, retracted and bumped; with none there is     *)
(* nothing to require.                                                     *)
Sealed(a, b) ==
  LET counter == IF Counters(a) = {} THEN {} ELSE {CounterRow(a, Start(a))} IN
  [pre |-> counter, dels |-> counter,
   adds |-> {InboxRow(a, Start(a), b), CounterRow(a, Start(a) + 1)}]

Room(a) == Start(a) < MaxSeq

(* A thread goes on to `at`, with its attempts as they are; or, its commit *)
(* answered or given up, to `at` with l attempts.                          *)
Go(th, at) == pc' = [pc EXCEPT ![th] = at] /\ UNCHANGED left
Settle(th, at, l) ==
  /\ pc' = [pc EXCEPT ![th] = at]
  /\ left' = [left EXCEPT ![th] = l]
  /\ patch' = [patch EXCEPT ![th] = NoPatch] /\ num' = [num EXCEPT ![th] = 0]

Committed(th) ==
  pc[th] = "commit" /\ Holds(world, patch[th]) /\ world' = Applied(world, patch[th])
Rejected(th) ==
  pc[th] = "commit" /\ ~ Holds(world, patch[th]) /\ UNCHANGED world

----------------------------------------------------------------------------
(* Senders.                                                                *)

SendStart(s, a, b) ==
  /\ pc[s] = "idle" /\ sends < MaxSends
  /\ Counters(a) # {}  (* the contract: seeded on an un-raced path *)
  /\ sends' = sends + 1
  /\ call' = [call EXCEPT ![s] = <<a, b>>]
  /\ Settle(s, "number", MaxTries)
  /\ UNCHANGED <<world, clock, due, crashes, answered, done>>

SendNumber(s) ==
  LET a == call[s][1] IN
  /\ pc[s] = "number" /\ Room(a)
  /\ num' = [num EXCEPT ![s] = Start(a)]
  /\ patch' = [patch EXCEPT ![s] = Sealed(a, call[s][2])]
  /\ Go(s, "commit")
  /\ UNCHANGED <<world, clock, call, due, history>>

SendCommit(s) ==
  /\ Committed(s)
  /\ answered' = answered \cup
       {[by |-> s, actor |-> call[s][1], seq |-> num[s], body |-> call[s][2]]}
  /\ call' = [call EXCEPT ![s] = NoCall]
  /\ Settle(s, "idle", 0)
  /\ UNCHANGED <<clock, due, sends, crashes, done>>

(* A lost race re-reads the counter, up to the cap. *)
SendRejected(s) ==
  /\ Rejected(s)
  /\ IF left[s] = 1
     THEN Settle(s, "idle", 0) /\ call' = [call EXCEPT ![s] = NoCall]
     ELSE Settle(s, "number", left[s] - 1) /\ UNCHANGED call
  /\ UNCHANGED <<clock, due, history>>

(* seed_seq: a read, then an unguarded commit.  By its contract nobody     *)
(* else seeds a, nor sends to it, meanwhile.                               *)
SeedStart(s, a) ==
  /\ pc[s] = "idle" /\ a \in SeedLater /\ Counters(a) = {}
  /\ \A o \in Senders : CounterRow(a, 0) \notin patch[o].adds
  /\ patch' = [patch EXCEPT ![s] = [NoPatch EXCEPT !.adds = {CounterRow(a, 0)}]]
  /\ Go(s, "seed")
  /\ UNCHANGED <<world, clock, call, num, due, history>>

SeedCommit(s) ==
  /\ pc[s] = "seed"
  /\ world' = Applied(world, patch[s])
  /\ Settle(s, "idle", 0)
  /\ UNCHANGED <<clock, call, due, history>>

----------------------------------------------------------------------------
(* Drivers: Process::step in a loop.                                       *)

DriveStart(d) ==
  /\ pc[d] = "idle"
  /\ Settle(d, "position", MaxTries)
  /\ UNCHANGED <<world, clock, call, due, history>>

ReadPosition(d) ==
  /\ pc[d] = "position"
  /\ num' = [num EXCEPT ![d] = Position(Drives[d])]
  /\ Go(d, "prepare")
  /\ UNCHANGED <<world, clock, call, patch, due, history>>

Pending(a, n) == {b \in Bodies : world[InboxRow(a, n, b)] > 0}

(* What the behaviour of process a makes of body b in the present world. *)
Behavior(a, b) ==
  LET takes == b \in Takes /\ world[Thing] > 0 IN
  [pre |-> IF takes THEN {Thing} ELSE {},
   dels |-> IF takes THEN {Thing} ELSE {},
   adds |-> {TimerRow(t) : t \in Schedules[b]} \cup (IF takes THEN {Got(a)} ELSE {})]

(* Defect: the old cursor row is kept. *)
BugPatchAt(a, n, b) == [Behavior(a, b) EXCEPT !.adds = @ \cup {CursorRow(a, n + 1)}]

(* Defect: the cursor passes over the message after this one. *)
BugSkips(a, n, b) ==
  [Behavior(a, b) EXCEPT
     !.dels = @ \cup (IF n > 0 THEN {CursorRow(a, n)} ELSE {}),
     !.adds = @ \cup {CursorRow(a, n + 2)}]

(* patch_at: the cursor move rides in the behaviour's patch, and requires  *)
(* nothing of the cursor.                                                  *)
PatchAt(a, n, b) ==
  [Behavior(a, b) EXCEPT
     !.dels = @ \cup (IF n > 0 THEN {CursorRow(a, n)} ELSE {}),
     !.adds = @ \cup {CursorRow(a, n + 1)}]

(* The message is read, and the behaviour run, at a later edition than the *)
(* cursor was.                                                             *)
Prepare(d) ==
  LET a == Drives[d] IN
  /\ pc[d] = "prepare"
  /\ \E b \in Pending(a, num[d]) :
       /\ call' = [call EXCEPT ![d] = <<a, b>>]
       /\ patch' = [patch EXCEPT ![d] = PatchAt(a, num[d], b)]
  /\ Go(d, "commit")
  /\ UNCHANGED <<world, clock, num, due, history>>

InboxIdle(d) ==
  /\ pc[d] = "prepare" /\ Pending(Drives[d], num[d]) = {}
  /\ Settle(d, "idle", 0)
  /\ UNCHANGED <<world, clock, call, due, history>>

(* step returns; run_to_idle goes on, with fresh attempts. *)
StepCommit(d) ==
  /\ Committed(d)
  /\ done' = Append(done, [actor |-> call[d][1], seq |-> num[d], body |-> call[d][2]])
  /\ call' = [call EXCEPT ![d] = NoCall]
  /\ Settle(d, "idle", 0) \/ Settle(d, "position", MaxTries)
  /\ UNCHANGED <<clock, due, sends, crashes, answered>>

(* The cursor has not moved: the step is prepared again from the present   *)
(* world, until the policy's attempts are spent.                           *)
StepRejected(d) ==
  /\ Rejected(d)
  /\ call' = [call EXCEPT ![d] = NoCall]
  /\ IF left[d] = 1 THEN Settle(d, "idle", 0) ELSE Settle(d, "position", left[d] - 1)
  /\ UNCHANGED <<clock, due, history>>

----------------------------------------------------------------------------
(* Firers.                                                                 *)

(* One sampler owns the clock; a sample never regresses. *)
Sample(ms) ==
  /\ ms > clock
  /\ clock' = ms
  /\ UNCHANGED <<world, locals, history>>

Live(t) == world[TimerRow(t)] > 0
Overdue(now) == {t \in Timers : Live(t) /\ Due[t] <= now}
Earliest(T) == {t \in T : \A u \in T : Due[t] <= Due[u]}

(* fire_due lists every timer due, fire_next_due the first, by a sample    *)
(* read some time before.                                                  *)
FireStart(f) ==
  /\ pc[f] = "idle"
  /\ \E now \in 0 .. clock :
       \E T \in {Overdue(now)} \cup {{t} : t \in Earliest(Overdue(now))} :
         T # {} /\ due' = [due EXCEPT ![f] = T]
  /\ Settle(f, "live", MaxTries)
  /\ UNCHANGED <<world, clock, call, history>>

(* fire_one works through the list in order. *)
Current(f) == CHOOSE t \in Earliest(due[f]) : TRUE
Through(f) ==
  /\ due' = [due EXCEPT ![f] = @ \ {Current(f)}]
  /\ IF due[f] = {Current(f)} THEN Settle(f, "idle", 0) ELSE Settle(f, "live", MaxTries)

FireLive(f) ==
  /\ pc[f] = "live" /\ Live(Current(f))
  /\ Go(f, "number")
  /\ UNCHANGED <<world, clock, call, num, patch, due, history>>

FireGone(f) ==
  /\ pc[f] = "live" /\ ~ Live(Current(f))
  /\ Through(f)
  /\ UNCHANGED <<world, clock, call, history>>

(* Defect: the timer is required but left in place. *)
BugRefire(t) == [Sealed(Target[t], t) EXCEPT !.pre = @ \cup {TimerRow(t)}]

(* The patch that fires t: the timer is required and retracted, and its    *)
(* body filed under the next number.                                       *)
Fire(t) ==
  [Sealed(Target[t], t) EXCEPT !.pre = @ \cup {TimerRow(t)}, !.dels = @ \cup {TimerRow(t)}]

FireNumber(f) ==
  /\ pc[f] = "number" /\ Room(Target[Current(f)])
  /\ patch' = [patch EXCEPT ![f] = Fire(Current(f))]
  /\ Go(f, "commit")
  /\ UNCHANGED <<world, clock, call, num, due, history>>

FireCommit(f) ==
  /\ Committed(f)
  /\ Through(f)
  /\ UNCHANGED <<clock, call, history>>

(* The timer vanished or the counter moved: both are read again, up to the *)
(* cap; a later tick retries.                                              *)
FireRejected(f) ==
  /\ Rejected(f)
  /\ IF left[f] = 1 THEN Through(f) ELSE Settle(f, "live", left[f] - 1) /\ UNCHANGED due
  /\ UNCHANGED <<clock, call, history>>

----------------------------------------------------------------------------
(* The process dies: threads are gone, the world is what was committed.    *)
Crash ==
  /\ crashes < MaxCrashes /\ crashes' = crashes + 1
  /\ pc' = [th \in Threads |-> "idle"]
  /\ call' = [th \in Threads |-> NoCall]
  /\ num' = [th \in Threads |-> 0]
  /\ patch' = [th \in Threads |-> NoPatch]
  /\ left' = [th \in Threads |-> 0]
  /\ due' = [f \in Firers |-> {}]
  /\ UNCHANGED <<world, clock, sends, answered, done>>

Send(s) == SendNumber(s) \/ SendCommit(s) \/ SendRejected(s) \/ SeedCommit(s)
Drive(d) == ReadPosition(d) \/ Prepare(d) \/ InboxIdle(d) \/ StepCommit(d) \/ StepRejected(d)
FireAll(f) == FireLive(f) \/ FireGone(f) \/ FireNumber(f) \/ FireCommit(f) \/ FireRejected(f)

Next ==
  \/ \E s \in Senders :
       Send(s) \/ \E a \in Procs : SeedStart(s, a) \/ \E b \in Commands : SendStart(s, a, b)
  \/ \E d \in Drivers : Drive(d) \/ DriveStart(d)
  \/ \E f \in Firers : FireAll(f) \/ FireStart(f)
  \/ \E ms \in 1 .. MaxTime : Sample(ms)
  \/ Crash

Spec == Init /\ [][Next]_vars

(* Threads run on once called; hosts keep driving processes and firing     *)
(* timers, as drive_with_fuel does, and the clock keeps being sampled.     *)
Fairness ==
  /\ \A s \in Senders : WF_vars(Send(s))
  /\ \A d \in Drivers : WF_vars(Drive(d) \/ DriveStart(d))
  /\ \A f \in Firers : WF_vars(FireAll(f) \/ FireStart(f))
  /\ WF_vars(\E ms \in 1 .. MaxTime : Sample(ms))

FairSpec == Spec /\ Fairness

----------------------------------------------------------------------------
(* Properties.                                                             *)

(* Once seeded, an inbox's numbers are 0, 1, 2, ... without a gap or a     *)
(* double up to its one counter row, whoever filed them and whatever races *)
(* they lost (seq_contention_law.rs, Monotonic + distinct).                *)
NumbersContiguous ==
  \A a \in Procs : \A k \in Counters(a) :
    /\ \A m \in Seqs : world[CounterRow(a, m)] = IF m = k THEN 1 ELSE 0
    /\ \A n \in Seqs : n < k =>
         \E b \in Bodies : \A c \in Bodies : world[InboxRow(a, n, c)] = IF c = b THEN 1 ELSE 0
    /\ \A n \in Seqs, b \in Bodies : n >= k => world[InboxRow(a, n, b)] = 0

(* A number enqueue_seq returned is that message's, in the inbox, and      *)
(* nobody else was given it.                                               *)
AnswersStand ==
  /\ \A x \in answered : world[InboxRow(x.actor, x.seq, x.body)] = 1
  /\ \A x, y \in answered : x.actor = y.actor /\ x.seq = y.seq => x = y

(* An inbox is numbered as its callers were told: no gap, no double, and   *)
(* every returned number stands.                                           *)
InboxNumbered == NumbersContiguous /\ AnswersStand

(* Every message before the cursor was processed once and in order, and    *)
(* none beyond it.                                                         *)
ProcessedOnce ==
  /\ \A i \in DOMAIN done :
       /\ done[i].seq < Position(done[i].actor)
       /\ world[InboxRow(done[i].actor, done[i].seq, done[i].body)] > 0
  /\ \A a \in Procs : \A n \in Seqs : n < Position(a) =>
       \E i \in DOMAIN done : done[i].actor = a /\ done[i].seq = n
  /\ \A i, j \in DOMAIN done :
       i < j /\ done[i].actor = done[j].actor => done[i].seq < done[j].seq

(* Racing commands take the one thing there is once, and whoever did not   *)
(* get it decided again (run_to_idle_retrying).                            *)
OneTaker ==
  \E r \in {Thing} \cup {Got(a) : a \in Procs} :
    \A q \in {Thing} \cup {Got(a) : a \in Procs} : world[q] = IF q = r THEN 1 ELSE 0

(* A message takes effect exactly once, whenever its process crashed       *)
(* (process.rs, module comment), and by what held when it did.             *)
ExactlyOnce == ProcessedOnce /\ OneTaker

(* A timer is delivered exactly as often as it was scheduled, whoever      *)
(* raced to fire it, and never before it is due (Scheduler::fire_due).     *)
TimersConserved ==
  \A t \in Timers :
    LET scheduled == {i \in DOMAIN done : t \in Schedules[done[i].body]}
        delivered == {n \in Seqs : world[InboxRow(Target[t], n, t)] > 0}
    IN /\ Cardinality(scheduled) = world[TimerRow(t)] + Cardinality(delivered)
       /\ delivered # {} => Due[t] <= clock

(* A message whose sender was answered is handled in the end, and a timer  *)
(* that was scheduled is delivered: what is answered stays answered and    *)
(* what is handled handled, so it is enough that again and again nothing   *)
(* is left over (run_to_idle, fire_due).                                   *)
Settled ==
  /\ \A x \in answered : \E i \in DOMAIN done : done[i].actor = x.actor /\ done[i].seq = x.seq
  /\ \A t \in Timers : ~ Live(t)
Handled == []<>Settled
============================================================================
