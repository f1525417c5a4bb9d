# grmpl: a verification development

TLA+ modules, TLC configurations and TLAPS proofs about grmpl, the Rust
workspace under `src/crates`. Paths below are relative to `src/crates`.

## 1. The system

grmpl keeps a *world*: relations of weighted tuples, versioned by *edition*.
A program queries an immutable edition and commits a guarded *patch*: facts
that must hold, tuples to add and retract. Everything else (processes, timers,
watches, players, messages between worlds) is relations plus the code that
reads and patches them.

| Component | State | Operations | Interacts with |
|---|---|---|---|
| Ent store, `grmpl-ent/src/store.rs` | per branch `Inner` (current, versions, logs, interests, arrangements); per world `Family` (root, durability queue) | commit, commit_if, reshape, fork_at, branch, merge, graft, consolidate, gc, reads at an edition | granfilade; every crate above it |
| Granfilade, `granfilade.rs` | content-addressed nodes, root record, `present` and `remembered` memos | write_group, load, stub, gc, verify | store |
| DAG and history, `dag.rs`, `history.rs` | fork points; where each node was born | fork, merge, lineage, common_ancestor | store |
| Canopy, `canopy.rs`, `measure.rs`, `dsp.rs` | interests in a tree; which editions each fired at | register, route, touched_range_since | commit, watches |
| Trees, `tree.rs`, `tree/kd.rs`, `tree/leaf.rs` | persistent balanced trees | insert, remove, split, range | store |
| Processes, `grmpl-proc/src/process.rs`, `retry.rs` | inbox relation, cursor relation | step, run_to_idle, enqueue, enqueue_seq | commit_if |
| Scheduler and allocators, `schedule.rs`, `alloc.rs` | timer rows, counter rows, clock rows | fire_due, fire_next_due, fresh, seal, sample | commit_if, inboxes |
| Patch commit, `commit.rs`, core `authority.rs` | none | commit_patch(_checked) | every writer |
| Watches and views, `watch.rs`, `derived.rs`, `gc.rs` | cursor rows, view rows, watermark | install, pump, refresh, consolidate_to | eval_delta, inboxes |
| Replay, `replay.rs` | recorded runs | record_run, replay_from | history |
| Cross-domain, `domain.rs`, `grmpl-transport` | outbox, seen relation, transport queues | commit, flush_outbox, receive | other worlds |
| Queries, `grmpl-diff` | none (fixpoints keep their last value) | eval_snapshot, eval_delta, advance | readers |
| Session, `grmpl-session` | players, sessions, delivery cursors, fuel, connection slots | spawn_player, submit, subscribe, drain, drive_with_fuel, handle | all of the above |
| Language, `grmpl-lang`, `grmpl-type`, `grmpl-pattern` | installed packages | compile, install, run a behaviour | session |
| CLI, benches, conformance kit | none | | |

What is hard to get right, and hard to test, is listed with its line in
`PROJECT.json` ("hazards"). In short: the durability of commits that share one
fsync; what a failed or interrupted group leaves behind; locks held across a
wait for the disk; cursors and counters that several drivers advance; messages
taken before they are committed; history collected under a watch; and the
algebra of incremental queries.

What makes each component correct: an edition that was returned survives every
crash, what a crash leaves is a state the world was once in, one winner per
contested precondition (store); every node a root names is on disk (granfilade);
a message is processed exactly once and in order (process); a sequence number is
given out once (allocators); a timer fires once (scheduler); a watch delivers
each change once (watch); a view equals its query (derived, diff); a replay
reproduces the recorded patches (replay); a message between worlds takes effect
once (domain); a merge replays each original at most once (dag).

## 2. Plan

| # | Modules | What | State |
|---|---|---|---|
| 1 | World, GroupCommit, DurableWorld, MCGroupCommit, GroupCommitProofs | group commit, its promise, its proofs | done |
| 2 | NodeStore, MCNodeStore, NodeStoreProofs | present / remembered memos, paging, gc: a root on disk is closed; proofs | done |
| 3 | Actors, MCActors, ActorsProofs | process drivers, enqueue, allocators, timers on a shared store; proofs | done |
| 4 | Multisets, Queries, Reactive, MCReactive | query plans and their deltas, the maintained fixpoint, watches, stored copies, consolidation | done, but for the evaluation cache |
| 5 | CrossDomain, MCCrossDomain, MultisetsProofs, CrossDomainProofs | outbox, transport, seen relation, faults; proofs | done |
| 6 | Values, Views, Patterns, Handlers, Execution, Codec, Language, MCLanguage | from views and arms to plans, their execution and their commits | done |
| 7 | Spans, Leaves, Trees, KdTrees, Dictionary, FactTrees, MCFactTrees | the balanced trees of a relation, their reads and grafts, and the dictionary they implement | done |
| 8 | Lineages, History, Branches, MCBranches, BranchesProofs | lineage, fork, merge by replay, consolidation, the record of grafts, interests, the history index; proofs | done |
| 9 | Sessions, MCSessions, SessionsProofs | connections: login and birth, commands and replies, subscription and delivery; proofs | done, but for fuel |
| 10 | Packages, MCPackages, PackagesProofs | the checks of a package, durable names and schemas, bootstrap and reopening, on one store; proofs | done |
| 11 | Replay | what a replay reads against what the live run read | planned |

The abstract specifications are `DurableWorld`, which group commit is proved to
implement, and `Dictionary`, which the trees are checked to implement. Each
component's theorems are in a module of their own, and each rests on an inductive
invariant that TLC checked on the component's run before it was proved.

Within the prover's reach and not yet proved: `DeliveredOnce` (Reactive), once the
watch protocol is parted from the recursive evaluator; `IndexExact` (Branches), which
needs an induction over the catching up of the history index.

`map` in `PROJECT.json` gives each definition the lines it models; a helper whose lines
lie wholly within those of the definitions that use it has no entry of its own.

## 3. Group commit

`World` is vocabulary only: a branch state is its fork point, its shape and its
editions, each with the preconditions it was committed under and the weight of
every fact. The code keeps one tree per relation and version; reading a weight
at an edition is the one thing the properties need of it. A root record (the
`EntRoot`: dag and every branch's state) is represented by the sequence of
stages that built it, so "earlier root" is "prefix".

`GroupCommit` is `store.rs`'s write path. State and code:

| Variable | Code |
|---|---|
| `world` | `Family.root`; a branch's latest stage is its handle's `Inner` |
| `edLock`, `rootLock` | `EntStore.inner`'s mutex; `Family.root`'s mutex where it is held across a wait (gc) |
| `pending`, `staged`, `landed`, `durable`, `failure`, `writer` | `Durable`; `writer` is `writing` with the leader's name |
| `group` | the leader's local `group` |
| `disk`, `unsynced` | the root record under `ROOT_KEY` after the last sync; records batched since |
| `pc`, `call` | where each thread is in its call, the state it stages, the `target` it waits for |
| `acked`, `failed` | history: what the callers were told |

A thread takes the edition lock (`CommitStart`, `ReshapeStart`, `ForkStart`),
stages under the root lock (`Stage`, `StageFork`), and then drives durability:
`DriveDoomed`, `DriveDone`, `DriveSleep`, `DriveLead` are the four ways an
iteration of `drive_durability` can go, in the code's order. The leader's
`WriteBatch`, `SyncOk` and `Land`, or `GroupFails`, are `write_group` and what
follows. `Crash` is possible between any two steps and leaves the synced record
or one batched since.

`DurableWorld` is the promise: one history, one lawful stage at a time; a hard
prefix that grows; answers only for what is hard; a crash cuts somewhere past
the hard part.

Abstractions and limits: durable stores at `Durability::Disk` (an in-memory
store returns at once; `Durability::Os` syncs to the page cache and promises
nothing of the machine); watermark 0 (`fork_at` below it is an error and is not
modelled here); `fork_at` is called with an edition at or below current, as
every caller does, though the code does not check it (section 10 says what
happens otherwise); one writing handle per branch, as every caller has
(`branch()` handles observe); a child keeps the preconditions of the editions it
inherits, which the code reaches through the DAG; reshape's refusal once a
relation is written stands as its guard; encoding, paging and the sweep itself
are NodeStore's. A failed batch may leave its record for a later sync to write:
`unsynced` keeps it.

Two comments of the design are not the code's: `docs/CONCURRENCY.md` (268-270)
says consolidation and the context enfilade drain the queue first; both stage
and await like a commit. No property is about it.

### Runs

| Run | Question | Instance |
|---|---|---|
| commit | the safety invariants, that it implements DurableWorld, and that every call is answered, whatever locks `branch()` handles take | 2 clients and an observer, 2 stages, one fork, 2 shapes, one failed group, a patch that puts a token and one that takes it under a precondition |

Bounds: `MaxStages` stages in one history, `MaxBranch` forks, `MaxFailures`
failed groups; crashes are not bounded. Two stages are the fewest in which one is
queued while another lands, fails or is lost, in which two threads reach for one
edition, and in which a fork has a parent with an edition below its current. What
needs more - a group of several behind a leader's own, two takers and a putter of
one token - is not in the instance, and is what the theorems are for: the types,
the three invariants and the refinement are proved for any number of threads,
branches and stages; only `Answered` rests on the run alone. A commit,
a fork and a gc can each wait for another's lock: that they do not wait for one
another for ever is `Answered`. The deadlock check adds nothing to it, as a crash
is always possible.

Fairness: a thread inside `drive_durability` or past it runs
on (threads are scheduled, `write_group` returns); staging needs the root lock,
which a gc may take again and again, so it is strongly fair: the lock is a
mutex that a waiter gets if it is released often enough. Beginning a call,
failures and crashes are not fair.

### Where code and docs differ

Read in the code, and not the subject of a run: `branch()` records a staged
edition as durable, though durable_edition is documented as "the highest edition
proven on disk". A
commit that returns an error is still applied, though TraceStore::commit is to
"apply every update, or have no effect". A committer whose group landed may be
told of the failure of the next, as drive_durability asks doom() before it asks
whether its stage landed. `reshape_default`, documented as durable when it
returns, answers Ok at once when the shape asked for is staged but not yet on
disk.

### Proofs

`GroupCommitProofs` begins with lemmas about `World`: what the newest stage of a
branch is, that applying and forking keep a branch state well formed, and the order
of prefixes. It proves for any number of threads, facts, branches and stages
`TypeCorrect` (TypeOK, which the run leaves to the proof), `AckedStaysOnDisk`, `CrashLeavesPrefix` and
`StageNeverLost`, from `WorldAssumption` and `GroupCommitAssumption`.

None of the last three is inductive alone. The invariant `IInv` adds: who leads
(`Leads`: a thread is at batch, sync or land exactly when it is the writer and
its group is not empty); how the queue is numbered and how its root records are
ordered (`Queued`: group then pending carry consecutive stage numbers ending at
`staged`, each record a prefix of the next, all prefixes of the world and all
past what is on disk); what a landed number means (`Hardened`: the records up
to `landed` are on disk, and a leader at `land` has synced its group); and that a
waiter's target is the number of the stage it staged (`Waiting`). A commit that
returns has `landed >= target`, hence its stage in `disk`; a crash or a sync
replaces `disk` only by an extension of it.

Its last part proves the refinement, `KeepsPromise`: every step of group commit is
a step of `DurableWorld` or leaves its variables alone. It says more than that
answers stand: every edition's preconditions held in the edition before it
(`LawfulCommit`: one winner per contested fact), no stage of a branch loses an
edition, and a branch is never named without the history it was forked from
(`LawfulFork`). `IInv` does not suffice for that, so the proof carries two facts
more (`Lawfully`): a thread that holds an edition lock and is about to stage holds
the newest state of its branch and the answer of its checks still stands, as
nothing else stages that branch (`Reserves`); and every branch a thread names is in
the root (`OpenedKnown`). A batch written, a sync or a failed group are steps the
abstract world takes as its hard part growing or not at all; a crash is its crash.

Model-checked only: that every call is answered (`Answered`), as liveness is out of the
prover's reach.

## 4. Node store

`NodeStore` is `granfilade.rs` with the parts of `store.rs` that stage into it.
A content key closes over its node's children, so a node *is* its key and the
shape of all trees is a constant, `Refs`.

| Variable | Code |
|---|---|
| `db`, `safe`, `unsynced` | the key-value store: as read, as of the last sync, as batches since may have left it |
| `present` | `Granfilade.present`: keys a stage may leave out |
| `resident`, `unread` | node contents in memory; paged nodes nobody has read yet (`Granfilade.remembered` holds those weakly) |
| `top`, `held` | the tree in `Family.root`; older trees that readers or `branch()` handles keep |
| `pending`, `group`, `wpc` | the durability queue, as in GroupCommit, here with the nodes each write carries |
| `gpc`, `swept` | where `gc` is, which holds the root lock throughout; what its mark found unreachable |
| `lapsed` | history: the sync that ends a sweep has failed |

`Stage` builds the nodes of a tree that are not in memory and writes those it
does not know to be on disk (`collect_nodes`). `PageIn` reads one frame and
leaves its children paged. `GcMark`, `GcSweep`, `GcSync` and `GcForget` are the
steps of `gc`; reads may come between any two of them, stages may not. `Crash`
reopens what a sync or a later batch left.

Abstractions: one tree stands for a world's roots (six per relation, and the
DAG); equal nodes in memory are one instance, except that reading one paged copy
may leave another unread; `PageIn` is atomic; node encoding, hashing and
`verify` are left out. Walks are the least closed set, which is what a
depth-first mark computes and needs no recursion to say.

| Run | Question | Instance |
|---|---|---|
| nodes | roots closed, paged nodes kept | two trees of two and three nodes that share a leaf, one older tree held, two stages queued, groups may fail |

Two trees are the fewest that can share a node that only one of them keeps
reachable, which is where a memo can go stale; three levels are the fewest where
a paged node has descendants a sweep could take. `nodes` stops at a failed sweep
(`UntilLapse`), after which it promises nothing.

Read in the code, and not the subject of a run: when the sync that ends a sweep
fails after its batch removed the frames, `gc` returns before `present` drops
their keys (though its doc says "GC removes what it sweeps"), and the next stage
of a tree still in memory leaves the nodes out. Without `UntilLapse` and with one
queued stage TLC finds the root that names a missing frame (`RootClosed`).

`NodeStoreProofs` proves `TypeOK` and `PresentHonest` (that the memo is honest; the run
leaves both to the proof), `RootStaysClosed` and `StubsReadable`, the last three until the sync ending a sweep fails, for every
node graph and any number of trees and stages. The invariant adds: every state a crash may
leave is whole (`DisksWhole`); what a mark found spares the root and every
unread node (`SweepSpares`); `present` is closed on disk but for what is being
swept (`MemoHonest`); nothing is queued or written while a sweep runs
(`SweepAlone`); and every queued write, on top of what is on disk, closes its
root (`WritesFit`). Walks enter by two facts only: a walk contains its roots and
is closed, and lies inside every closed set that contains them.

## 5. Actors

The process layer sees of the store the weight of every row at the current
edition, and commits patches of rows required, asserted and retracted.
`commit_if` is one step that survives its return. GroupCommit justifies that: a
crash may also lose commits nobody was answered for, newest first, which leaves
the world of a crash that came earlier.

`Actors` has one variable, `world`, for the inbox, cursor, counter and timer
relations and one contested fact. Its threads:

| Thread | Steps | Code |
|---|---|---|
| sender | `SendNumber`, `SendCommit` / `SendRejected`; `SeedStart`, `SeedCommit` | `enqueue_seq`, `seed_seq` |
| driver | `ReadPosition`, `Prepare` / `InboxIdle`, `StepCommit` / `StepRejected` | `Process::step` and the loops around it |
| firer | `FireStart`, `FireLive` / `FireGone`, `FireNumber`, `FireCommit` / `FireRejected` | `fire_due`, `fire_next_due`, `fire_one` |
| sampler | `Sample` | `ClockDriver::sample`, one per clock as its doc requires |

Each step is one read of the store at the edition then current; a commit
checks only the rows its patch requires. A cursor is read as the first positive
row and a counter as the last, the order `read_at` returns. A driver may return
or go on after each commit, which covers `step`, `run_to_idle` and the retrying
forms; `MaxTries` stands for 256, 64 and the policy's attempts.

| Run | Question | Instance |
|---|---|---|
| actors | is an inbox numbered without gap or double; does each message take effect exactly once, and the contested fact go to one taker; is each timer delivered as often as scheduled; is everything handled in the end | 2 processes (one seeded by `seed_seq`), a driver each, 1 sender, 2 firers, 2 messages, a timer that may be scheduled twice, 1 crash |

Bounds: `MaxSends` calls, `MaxSeq` numbers per inbox (enough for every message
the calls and timers can file, so the bound never stops a thread), `MaxCrashes`,
`MaxTime`. Two messages are enough to lose a race for a number, a timer and the
contested fact each; two attempts to give up after one retry.

In the run the sender races the firers for an inbox's numbers; two senders that
race are covered by the theorems below, which hold for any number of each.

`Handled` says that again and again nothing is left over: every message whose
sender was answered is handled and no timer waits. As an answer stays given and a
handled message handled, that is the same as each message being handled in the end,
and needs no quantifier over messages. Fairness: a thread that has begun runs on,
and hosts keep driving, firing and sampling, as `drive_with_fuel` does when called
again; senders, seeding and crashes are not fair.

The cursor move requires nothing, so two threads that drive one process would
both commit its message. The runtime's documents ask for one driver per authority
domain, and the model keeps to it; two connections under one name are two drivers
all the same (section 11).

An inbox whose counter was never seeded is outside `Actors` (the source asks for
a seed before first use), though there the timer row's own precondition is all
that keeps two firers from delivering a timer twice: where the counter is seeded,
its row guards the delivery as well.

### Proofs

`ActorsProofs` proves `TypeOK` and the three invariants of the run for any number of
processes, drivers, senders, firers, bodies and timers. The assumption
`ActorsContract` is what the two paragraphs above ask of the caller: one driver per
process, and timers only for processes whose counter is seeded.

The invariant is `TypeOK /\ ThreadsOK /\ WorldOK`. `WorldOK` says of the rows alone:
a counter and a cursor are one row each; an inbox holds exactly one row for each
number below the counter and none from there on; what a process has done is its
inbox below its cursor, in order; and a timer's row, its deliveries and its
schedulings balance. `ThreadsOK` says what each thread may still believe of what it
read: a driver's position is its process's cursor (nobody else moves it), and the
message it prepared is the one there; a sender's or a firer's patch requires the
counter row of the one number it files under, whatever the counter has become
since. That a number is free when its row is written is that guard and the inbox
ending below the counter, together; neither half is inductive alone.

## 6. Queries and what follows the world

`Multisets` is `multiset.rs`: tuples with weights that are never zero. `Queries`
is `query.rs`: a plan is a record, `Eval` its value at an edition, `Delta` its
change between two editions computed the way `eval_delta` does, operator by
operator: the three parts of a join's delta, the crossings of a distinct, the
groups whose rows changed, the key range a lookup narrows to, the stored copy
that answers together with the changes since its cursor. `Advanced` and the
operators above it are `IncrementalFixpoint` (`recursive.rs`): grow from the new
facts when a change is monotone, else overdelete and derive again.

`Reactive` puts them into a world that others write. A history keeps for every
edition its relations and the rows the commit touched, cancelled or not, because
`touched_since` reports those.

| Step | Code |
|---|---|
| `Install` | `OnWatch::install`, `install_including_current`, the edition read before the commit |
| `PumpRead`, `PumpCommit` | `Watch::pump`: cursor and delta at one edition, then a commit guarded by the cursor and the inbox's counter |
| `RefreshRead`, `RefreshCommit` | `Materialized::refresh` |
| `CollectRead`, `Collect` | `consolidate_to`: the lowest cursor, then the consolidation |
| `AdvanceFixpoint` | `IncrementalFixpoint::advance` |
| `Write` | any other commit |

| Run | Question | Instance |
|---|---|---|
| reactive | is every plan's delta its difference; does a stored copy answer as its plan at all times; is each change delivered once; can a watch be stranded by anything but a collector that never saw it; is the maintained fixpoint the fixpoint | 16 plans over two relations, of every operator; one watch with two pumps, one copy with two refreshers, one collector, a transitive closure; two further commits out of four (inserts, deletes, both, a scope changed) |
| overdelete | is the maintained fixpoint the fixpoint when the first rule joins a relation with itself | one deletion: fails |

The evaluator is compared with the delta rules and not with a third definition;
what the plans mean is `Eval`. Two writes are the fewest between which a copy or
a watch can lag by one edition while another changes the same rows; at most two
threads are under way at once (`Bounds`), enough for every race of the three
kinds of thread, and the fixpoint advances in worlds nothing else follows, as it
shares only the history with the rest. A watch is installed by edition 3, so that
two commits can follow it, or not at all. Watches are installed, and history is
consolidated, at any time and in any order.

`consolidate_to` does not keep what `gc.rs` (55-56) says of it, that the watermark
stays at or below every cursor, "so every installed watch stays pumpable". It reads
the lowest cursor, then consolidates; nothing holds installs off in between. A
collector finds no watch, `install_including_current` commits a cursor at edition 0,
history is folded to edition 1, and each pump of that watch is an error; `install`
does the same when others commit between its reading of the current edition and its
own commit. And `install_including_current` is stranded from the start in a world
once consolidated, since neither looks at the watermark. All of this happens in
`reactive`: an invariant that every cursor is at or above the watermark fails
there, in three steps. `StrandedOnlyUnseen` is what does hold: a watch that could be pumped
is stranded by that race alone, a collector that read the cursors before the watch
had one. And nothing is delivered wrongly or lost silently: `DeliveredOnce` holds
of stranded watches too.

`overdelete` is a defect of `IncrementalFixpoint`: to find what a deletion breaks
it evaluates the rules over the lost facts alone, so that two facts joined by one
rule, one lost and one kept, never meet.

Left out: the evaluation cache (keyed by plan address and edition), the pull
operators of `snapshot.rs`, which stream the same rows, and the polling loops of
`grmpl-diff/src/watch.rs`.

## 7. Messages between domains

`CrossDomain` is `domain.rs` over the in-process network. A domain's `store` is a
multiset of rows that a commit changes at once (justified as in section 5);
`queue` is a domain's transport queue, `up` whether it is registered. A commit
with mail is `CommitRemote`, `ReadNumber`, `CommitMail` (with its retries); a pass
over the outbox `FlushRead`, `FlushSend`, `FlushRetract`; a receive `Poll`,
`SeenHolds`, `Apply`. `FlushFault` and `ReceiveFault` are failures between two of
those steps.

| Run | Question | Instance |
|---|---|---|
| domains | is every message committed to be sent in an outbox, a queue or an inbox; is each applied once | 3 domains, 4 committers, 3 flushers (two over one outbox), 1 receiver, 1 failure of a flush |

Bounds: `MaxTries` stands for 64 and `MaxFaults` is one: a message can be sent
twice by one failure, and that is what the seen row is for. One receiver per
domain: `receive` reads the seen relation without requiring it, so two receivers
of one domain could both apply a message sent twice. The sender retracts a
message when the transport has taken it, so nothing brings back one its receiver
polled and lost, though `transport.rs` (line 8) has exactly-once "recovered by the
receiver persisting each payload in its own commit" (with `ReceiveFault` allowed
`MailConserved` fails; `domains` leaves it out); two flushes retract a row twice, which leaves it
with weight -1 and loses nothing.

### Proofs

`CrossDomainProofs` proves for any domains, routes, patches and threads

- `MailAppliedOnce`: `AppliedOnce`, under `MortalSpec`, where flushers and receivers
  both may die between any two steps;
- `MailStaysConserved`: `MailConserved`, under `Spec`, where receivers do not die with
  a letter in hand. With `MortalSpec` it is false, as above.

Assumptions: `CrossDomainContract`, which is what the source asks of its callers (a
domain's own relations are written by nobody else; one receiver per domain), and
`BodiesNameMessages`, by which a property can tell two messages apart; the code does
not depend on bodies.

A letter is a message as sent: who committed it, at which place, under which number.
The invariant follows copies of a letter and not rows: every outbox row, queued
message, polled message and delivery is a copy of a letter of a committed patch
(`Sent`, `Delivered`, `Holding`); copies of one message agree on its number, and no
two messages of a sender share one (`Apart`), since the counter lies above every
number in use and a patch draws its numbers only with the counter unchanged
(`Numbered`); and a delivery and its row in the seen relation are written together
(`Receipts`). A second copy of a letter then finds the first one's seen row. For
conservation the proof adds that a row about to be retracted has gone further
(`Shipping`) and that every message of a committed patch is a letter in its
outbox or past it (`Carried`).

`MultisetsProofs` has what both this proof and that of section 11 need of sums of
multisets: the weight of a row in a sum is the sum of its weights, and a sum keeps
no row of weight zero.

## 8. The language

| Module | Code |
|---|---|
| `Values` | core `value.rs`: kinds, their order, checked arithmetic; integers in one band per kind |
| `Views` | `compile.rs` (planning a conjunctive body), `ir.rs` (the stored plan, key ranges, its lowering), `grmpl-type/src/lib.rs` (types of plans) |
| `Patterns` | `grmpl-pattern`: parse and render, and when a form can do both |
| `Handlers` | `compile.rs`, `concat.rs`: statements and stack words, their checks, and their lowering to one executable plan |
| `Execution` | `behavior_ir.rs`, `behavior.rs`, `compile.rs` (run_behavior), `effect.rs`, the checks of `commit.rs`: a run over a snapshot into a patch, with counters, random streams, timers and births |
| `Codec` | core `wire.rs` and the encoding of stored behaviours, as sequences of tokens |
| `Language` | workers run handlers and stored behaviours over a snapshot and commit later; a host installs and removes behaviours |

A state of `Language` is a world, what each worker is in the middle of, and at
most one test subject: `ChooseSubject` and `PutToTest` put a view, a plan, a word
arm, a form or a term to one input. They are a harness for pure algorithms; all
else is the system.

| Run | Question | Instance |
|---|---|---|
| language | a plan against its body, a stored copy's form against the plan, types against rows, compiled words against a stack machine, forms and codecs against their inverses; runs that abort, handlers' effects, counters and streams that two runs draw from | 11 views over every world of three things, 6 plans, 7 word arms, 7 forms; 2 workers, 3 commits, stored behaviours with inheritance, one undecodable |

Reference definitions: `Meaning` (every assignment of the variables that
satisfies the atoms), the stack machine of `StackRun`, the parse of a rendering.

Bounds: `EntMax` and `IntMax` are 3, so that the ceiling of a type, where a value
has no successor and arithmetic overflows, is among the values used. `MaxDepth`
(64 in the code) is 2 and `MaxIrDepth` 4: depths at and past each are tried.
`RngWords` is 8 for 2^64. Three commits let a run be overtaken twice.

Restrictions the code does not impose: the bodies of dispatched messages have
their parameters' types (a bootstrap can put others in an inbox); each random
stream serves one capability (two over one state row and owner are accepted by
`package.rs` and stop each other); the passing run has no find of one new
variable twice; in typed plans the folds are min and max, as counts and sums are
plain integers here. Floats, nested tuples and byte strings are left out.

Read in the code, and not the subject of a run: the encoder of stored behaviours
does not refuse what the decoder's depth limit will; `find loc(x, x)` with a new
variable compiles to a match of the second column against a local the same find
has yet to bind, and faults every time (`compile.rs` 1711, where the language
design has the compiler reject an unbound local; with such a handler among `Ons`
`WellTypedRuns` fails); an undecodable code row fails
every dispatch of its entity, other behaviours included; behaviours are checked
against their installer's authority and run under another's.

## 9. The trees of a relation

| Module | Code |
|---|---|
| `Spans` | `measure.rs`, `dsp.rs`, the item forms of `leaf.rs`: extents of the entity columns, displacement, an item that stands for one row, a run of rows or a hole of reserved keys |
| `Leaves` | `leaf.rs`: the items of one leaf, netting a row into a run, growing and breaking runs, cutting and moving |
| `Trees` | `tree.rs`: ordered nodes; insert, remove, reserve, split, join, range, search, comparison, `check` |
| `KdTrees` | `kd.rs`: the same under pivots that cut one column at a time, rebuilt when a side outgrows the other |
| `FactTrees` | `store.rs`: `fold_fact`, reservation, `instance_template` within one relation, the Arrangement of a column and how commits keep it in step, reads by key, column and span, `compare_spans` |
| `Dictionary` | what a relation promises whatever its shape |

A tree is a set of at most one node, `Empty` being `{}`; a node is a record of its
kind, its children or items, and the caches the code keeps beside them (size,
extent). A subtree moved by a graft keeps its nodes and carries a displacement,
which `Opened` pushes one level down as `Ref::open` does. Sharing is structural
equality: where the code asks whether two children are one allocation or one
content key (`SameAt`), the model asks whether they are equal at equal
displacement. The Count measure is the size alone and has no field of its own.
Tree operations are pure, so a commit is one step.

| Run | Question | Instance |
|---|---|---|
| trees | does the tree act as a dictionary; is every node in order, within its arity and truly summed; do reads that prune find what reading every row finds; is the difference of two versions exact, with and without the copies between them | two first contents, of 21 rows and of 6; key order with and without runs, k-d splits with runs; two edits out of 8 updates, 2 holes and 4 block copies, an Arrangement built before, between or after |

Bounds: `B` is 4 and `MIN` 2 for 64 and 32, the least for which a node can split,
borrow and fuse; three rows make a run in the code and here. The longer content
gives three levels, several leaves that differ in arity and kind, and runs that
an edit breaks in the middle or at an end. Two edits are the fewest in which a
row of a copy, or the row under a reservation, is changed again. Blocks overlap a
run, end at one, or would leave the id space; no accepted copy or run wraps
around it (`Extent`'s bounds of a wrapped run would miss its middle rows).

`ActsAsDictionary` is a refinement: the rows and reserved keys of the tree change
only as `Dictionary` says.

Read in the code, and not the subject of a run: asked with entity points, `stab`
(`store.rs` 2600) enters a subtree only if its extents have entities in both
columns, while a row is kept by the order of all values, where an entity comes
before every text; so a fact from an entity to a text is found or missed with the
leaf it shares, though `tests/scopes.rs` (12) has "`read_containing` returns
exactly the containing rows". `ReadsExact` compares scopes, whose ends are
entities (`IsScope`), and without that restriction it fails.

## 10. Branches

| Module | Code |
|---|---|
| `Lineages` | `dag.rs`: the record of a fork and of a merge, and what flows into a point |
| `History` | `history.rs` and its use in `store.rs`: which node is whose child, whose root, and since when on which branch; the queries that climb it |
| `Branches` | `store.rs` once the durable machinery of section 3 is taken for granted: `commit_if`, `instance_template`, `fork_at`, `merge`, `consolidate`, `register`, `step_history`, the first ask of `touched_range_since`; `spanfilade.rs`; the routing of `canopy.rs` |

`dag` and `history` are fields of `EntRoot`, and `state[b]` is the `Inner` of a
branch: `current`, `watermark`, `versions`, `log`, `patches`, `grafts`, `ctx`,
`registered` and `fired` are its fields of those names (versions and log of one
relation). Each call holds the branch's edition lock and stages under the root
lock, so it is one step; that a crash leaves a prefix of the steps is section 3's.
`told` is history: for every edition of a branch, what was committed as it (the
first such edition, through any replays) and the rows it left. `budget` bounds a
behaviour.

A row is one entity, and a Fact tree is a root over leaves of `Width` consecutive
rows each: enough for a node to be shared, copied at a displacement, rebuilt by an
edit and built again elsewhere. The depth and the balance of trees, and a graft's
refusal of outside entities and of a wrap, are section 9's. A node is its content,
as a content key stands for it. Ids of interests are their spans.

| Run | Question | Instance |
|---|---|---|
| branches | is any patch replayed twice, or counted as behind a point that does not hold it; does every retained edition read as written and its change list add up; is every copy traceable; is a watcher ever told "nothing" wrongly; does the index find exactly who holds and who shares a node | six rows in three leaves; a token that is put and moved under a precondition, two blocks, two spans, a name bound two ways; seven budgets |
| twocopies | is a patch replayed twice when the other side of a merge holds two copies of it: yes | one patch; 2 commits, 2 forks, 3 merges |

Bounds: a budget says how many calls of each kind a behaviour makes, in any order,
on any branch. Two commits, two forks and two merges are the fewest in which a
fork is taken midway through a merge's replay and merged again; three commits give
it a longer replay; the other budgets put a consolidation, a copy, an ask, a
partial indexing (of one version, or of all) or a binding between the calls.

`twocopies` is a defect of `merge`. It leaves out an edition whose original either
side has or this store holds a copy of, but not a copy of an original it has just
replayed from the same list (`store.rs` 1280-1293). Two commits `x`, `y` on one
branch, replayed into a merge, give copies `x1`, `y1`; a fork of the merge between
the two, merged into a second branch, gives a further copy `x2` of `x` without
`x1`'s branch behind it; a third merge that reaches both then replays `x1` and
`x2`, and what `x` added is there twice ("A later merge skips a copy whose original
it reaches, so nothing is replayed twice", `store.rs` 123-125). It takes three
merges, so `ReplayedOnce` in `branches` holds of histories with at most two, and is
not a theorem of `Branches`.

Three restrictions the code does not impose, each a CONSTANT of `Branches`:

- `ForkInherited = FALSE`: no fork below the parent's own fork point. With TRUE
  `AncestorsBehind` fails: `fork_at` takes any edition from the watermark up
  (`store.rs` 1544), `lineage` then walks from the parent to the grandparent at the
  parent's whole fork edition, and a later merge with the grandparent leaves out
  editions the child does not have (of is_ancestor: "`ea` had already happened on
  `ba` by the time `bb`'s history left `ba`", `dag.rs` 179).
- `ConsolidateMerges = FALSE`: a merge branch's own editions are not consolidated.
  With TRUE, and a budget of two commits, two forks, two merges and one
  consolidation, `ReplayedOnce` fails: consolidation drops the patch records and
  with them the origins of the copies, so a fork taken midway and merged with the
  original again replays what it holds ("A later merge skips a copy whose original
  it reaches, so nothing is replayed twice", `store.rs` 123-125).
- `IndexFirst = TRUE`: nothing is consolidated before it is indexed. With FALSE
  `IndexExact` fails: a version that a fork still keeps is gone from the branch it
  was written on before `catch_up` comes to it, and `catch_up` looks for it nowhere
  else ("Brings the history index up to date first, so the answer is exact",
  `store.rs` 1070).

`ForkAt` has the guard of the code, which compares with the watermark alone; `Next`
gives it the editions there are, as every caller in the repository passes the
current edition or one it was given. Above current the child starts at an edition
its parent has not reached, and what the parent writes there later counts as the
child's past: asked one edition above current, `AncestorsBehind` and `IndexExact`
fail on the instance of `branches`, and the other four properties hold.

Left out:
`common_ancestor`, the schema registry, the shapes two branches merge, the pruning
inside the canopy's and the spanfilade's trees, endorsements (nothing uses them).

### Proofs

`BranchesProofs` proves four of the six invariants of the run, for any rows, patches,
blocks, spans and any number of branches and calls, without the budgets:
`ReadsAlwaysStand`, `GraftsAlwaysTraced`, `NothingMissed` and, where no fork is taken
below its parent's own fork point, `AncestorsAlwaysBehind`. They suppose
`BranchesAssumption`: a patch's updates are of rows there are, and a block asked for
consists of whole leaves, moved by whole leaves to a place there is (section 9 is about
grafts that cut leaves). `ConsolidateMerges` and `IndexFirst` may be either.

The first three rest on `BInv`, which says of each branch by itself that it is `Good`:

- `InnerOK`: the log and the patch records are of editions above the watermark, the trees
  of editions there are, each row in its leaf; one graft at most was made of an
  edition, and of a block that was asked for.
- `Faithful`: the tree of every edition from the watermark on has the rows that were told,
  and the entries logged for an edition add up, row by row, to what its tree has over
  the one before.
- `Traced`: a logged graft has its span, and its rows the weights of their sources an edition
  earlier. `Routed`: what was logged above a registration and meets its span fired it.

The work is in the steps. An edition more, by a commit or a graft, is one lemma
(`ExtendedGood`) over what the edition's tree adds (`FoldedAdds`, an update at a time;
`SplicedMoves`, a block of leaves at a time: a place
without rows has no leaves, which is why the copy overwrites nothing). A fork into the past and a
consolidation keep what they keep (`SameThere`, `VersionKept`: the checkpoint is why an
edition at the new watermark still reads). A merge's replay is a fold of such editions
over a sorted set; that the set is finite and sorted once and for all is `InOrderIs`,
and what the fold has come to after so many patches is `Grown`. That a log adds up
over an interval (`LogAddsUp`) and that origins go back one graft at a time (`OriginOfCopy`)
are inductions over editions, each by a least counterexample, since the recursive
functions are not known to exist until they are built (`TotalExists`, `BackExists`).

`AncestorsBehind` relates branches, and `AInv` adds the relations: forks and merges are of
points that were there (`Rooted`); a branch has its parent's past (`Shares`), and a merge,
from the edition its replay ended at, all that the other side had (`Absorbs`); an
edition of a branch's own is on record with its original (`OnRecord`), which is a point
and its own original (`FromAPoint`). Given these, what a lineage comes past is within
its point, by following it down from branch to branch (`BehindIsWithin`). The step that
matters is the merge (`MergeAbsorbs`): each edition of the other side that the replay
leaves out is one this side reaches or has a copy of, or is a copy whose original is
reached by the other side too - and then the original, of a lower branch, is
replayed or left out in its turn, so that the argument goes by the branch the original was
made on. TLC checked `AInv` on the run, and on one with three merges and consolidated
merges, before it was proved. With a fork below the parent's fork point `Rooted` is what
fails, and the property with it (above).

`ReplayedOnce` is not a theorem (`twocopies`). `IndexExact` is only checked.

## 11. Sessions

`Sessions` is `grmpl-session`: `net.rs` (a thread per connection and its loop),
`session.rs` (login, submit, subscribe, push) and `watch.rs` (delivery), with the
allocator of entity ids (`grmpl-proc/src/alloc.rs`). The world is a multiset of
rows that a commit changes at once, as in section 5; `log` keeps what each edition
added of the two relations that are read by change, told texts and named things.

| Variable | Code |
|---|---|
| `pc`, `job`, `left` | where a connection's thread is, the patch it will commit with what it read for it, the attempts its loop has left |
| `who`, `outFrom`, `sub` | `Session`: player, `out_cursor`, `subscription` |
| `line` | the number of the command that `submit` is answering |
| rows `player`, `ids`, `inbox`, `inboxseq`, `cursor`, `tell`, `named` | the relations of those names in `worlds/moo.grmpl` (`ids` is entity_seq) |
| rows `wcursor`, `wseq`, `wmail`, `wdelivery` | a player's watch: how far it was pumped, the counter of its mail, the mail, how far it was delivered |
| `bound`, `heard`, `replied`, `since`, `written` | history |

| Steps | Code |
|---|---|
| `Lookup`; `Adopt`, `Spawn`, `SpawnCommit` / `SpawnRejected`; `Bind` | `login`, `spawn_player` |
| `Submit`; `EnqueueNumber`, `EnqueueCommit`; `Position`, `Prepare`, `StepCommit`; `InboxIdle` | `submit`: `enqueue_seq`, then the player's process to idle |
| `DrainStart`, `Drain` | `drain_output` |
| `Resume`; `Subscribe`, `InstallAt`, `Install` | `subscribe` |
| `Pump`, `PumpCommit`; `DeliveredThrough`, `Deliver`, `DeliveryCommit` | `push_activations`: the pump, then `drain` |
| `SocketFails`, `Quit`, `Crash`, `LoginFails` | the ways a connection ends; what its session kept goes with it |

Every rejected commit has its step, with another attempt or the loop's error, after
which the connection goes on as `handle` does.

| Run | Question | Instance |
|---|---|---|
| sessions | is a name one identity, and no id given twice; is an answered command handled once, with its reply on the connection that gave it; are a player's pushed changes without a gap | two connections of one name, which may watch, and one of another; 3 commands, 2 logins, 1 failure of a socket or of the server, 2 attempts |

`NothingSkipped` is what the code promises of delivery: at least once. Two
connections of one player share its cursors, so a change may reach both.

Bounds: `MaxTries` stands for 256 and 16. Two logins race for a name, or a login and
a command for an id; three commands are the fewest with which a connection that
lags by one push is overtaken by another, and two drains meet. At most two
connections are in the middle of something (`Bounds`): every race here is of two.
A command stands for `create`, which writes the two relations that are read by
change. A materialized copy of the watched view, refreshed before a pump, changes no
answer (section 6), so its commits are left out.

Two more limits of `Bounds` are the code's own, not the network's, since nothing
keeps a second client from logging in under the same name. They are stated in
`Sessions`, because two of its theorems suppose them:

- No two connections of one player run its process at once (`OneDriver`). Otherwise
  `AnsweredOnce` fails: the cursor move requires nothing (`process.rs` 119), and
  both handle one command.
- No two connections of one player subscribe at once (`OneSubscriber`). Otherwise `NothingSkipped`
  fails: both find no cursor and install, which leaves two cursor rows and a
  counter row of weight two; one pump from each then numbers its changes from the
  same number, both commit, and every later drain of that player stops with an
  error at what looks like a gap, though "The pump appends contiguous seqs"
  (`grmpl-session/src/watch.rs` 258).

### Proofs

`SessionsProofs` proves `OneNameOneIdentity`: `Identities` holds for any number of
connections, names, commands, logins, attempts and failures, without `Bounds`. Each
connection checks the name and draws an id in a snapshot and commits later, under a
patch that requires only the counter row it read. The invariant is that there is one
counter row, at some `k` (`Numbered`), that ids in use and ids on the way are below
it or, for a patch not yet committed, at the number its snapshot read; and, which
is the heart of it, that a birth whose number is still `k` was looked up after the
last birth (`Fits`): a birth moves the counter, so a patch that may still commit
has seen every player there is, and finds its own name absent. A connection that
adopts was shown a row, and player rows are never retracted (`Ident`).

`EveryAnswerOnce` proves `AnsweredOnce` of every behaviour in which `OneDriver`
always holds, and `NothingEverSkipped` proves `NothingSkipped` of every behaviour in
which `OneSubscriber` does; both are without the other limits of `Bounds`, and neither
needs the other's supposition.

- The first says what an account is (`KeptTo`): of a player that is born, the inbox
  holds the lines 0 to m - 1, the counter row says m, the cursor row says k <= m, and
  each line below k, and nothing else, was told of, in an edition of its own. `InHand`
  ties each patch on its way to what its snapshot read; an enqueue requires the counter
  row, so of two only one commits, and the cursor is where the step found it because
  nobody else drives. `Hears` and `Asks` say of a connection that it has heard what
  was told between `bound` and `outFrom`, each once, and that the line it asked
  about is told of after its place, if at all. The fold over the texts a drain reads
  in order (`FlattenSeq`) is unrolled by a least counterexample.
- The second says what a watch is (`WatchedTo`): one cursor row at w, one counter row
  at s, a mail with one change to each number below s (`Box`), holding what the
  editions up to w named (`Mailed`). A pump on its way (`Pumped`) requires both
  rows and adds the next names, numbered by rank from s, so that numbering by rank
  is a bijection (`Ranks`) is what closes the gap between two pumps. The place in the
  mail is stored after the writes it stands for (`Reached`), and may go back and
  forth between sockets, but never past what was written.

Left out: the cap on connections and the refusal of long lines, commands the
language refuses; how the world was loaded is the next section.

## 12. Packages

`Packages` is how a source comes to run on a store: `package.rs` (declarations and
their checks), the parts of `compile.rs` that bind names and register schemas,
`runtime.rs` (`compile`, `load_package`, `load_driven_package`), and the catalog and
schema registry of `store.rs`.

| Variable | Code |
|---|---|
| `catalog`, `schemas` | the bindings and the schema versions in the store's context enfilade |
| `facts`, `edition` | the rows of the world, each with the edition it came at; `current` |
| `load` | the load under way: its source, kind, host and stage, and the names or relations the stage has yet to go through |
| `open` | the runtimes that are open, each with the ids its program was compiled with |
| `made` | history: the ids that allocation capabilities handed out |
| `budget` | the bounds that are left |

A load goes through stages in the code's order: the checks of the declarations
(`parsed`); a name bound for each relation, stored view and the marker (`relations`,
`copies`, `marker`), each durable by itself, with the checks between; everything else
that is checked before a schema is put (`PackageOk`, `TypesOk`); a schema put for
each relation, in the order of ids, each durable by itself (`schemas`); then the
bootstrap and the marker in one commit (`Install`), or the marker found
(`Reopen`), or the load refused (`InstallRefused`) - for a program without a package,
the cursors of its stored views, each a commit (`InstallView`); and for a driven
package the comparison with the host's authorities (`DrivenOk`). A check that fails,
a relation declared twice or a schema that does not evolve refuses the load and leaves
what is durable, and so does `Crash`. Between loads the open runtimes commit:
`Allocate` (a capability's next id), `Deliver` and `Attend` (a message in, and the
actor loop's next actor), `Write` (any other row).

| Run | Question | Instance |
|---|---|---|
| packages | do names and schemas stand, through refused loads, crashes and other packages; do counters, inboxes and cursors stay what the package was checked for | 9 sources (one small world, with a column more, as version 2, another package with a clashing relation, a program with a stored view, a world with an actor, and three with faults), loaded plain, as packages or driven, with 2 first ids; 2 loads, 1 crash, 2 commits between |

Bounds: two loads are the fewest in which one finds what another left, be it
refused, killed or complete; two commits hand out two ids or take a message in and
out; a crash at any step. The faults - overlapping ranges, a gap among an actor's
seeded messages, a relation declared twice - are there for the checks that stop them.

Taken from the code's own contract: a load races no other load and no other commit
("Compilation is provisioning-time and must not race another compiler on the same
store", `runtime.rs` 157; `compile.rs` 252). Two loads at once could give one id to
two names.

Abstractions: the views of a source are given in the order of their names, in which
the code binds and installs them; the greatest entity (`EntMax`) stands for the
greatest id too; a schema is its columns' types, names left out; a message's body is one
text; whether a handler compiles, is balanced and what it writes are given with it (their
computation is section 8); the digest is the number of the first source with the same
digested parts. Refreshing stored views, fuel and the clock are left out.

Read in the code, and not the subject of a run:

- Schemas are put before the marker is looked at. A store that holds version 1 of a
  package and is shown version 2 with a column more refuses it, as it should ("phase 1
  does not migrate stores") - and keeps the longer schema. Version 1 is then refused
  too, as a schema that drops a column, though "Reopening an exact marker is an
  edition-preserving no-op" (`runtime.rs` 198): the world no longer opens from the
  source that installed it. TLC finds it with three loads: install, show, reopen.
- A stored view called `cursor` is kept in the relation `view:cursor`, which is that of
  all stored views' cursors: "The colon cannot appear in a declared relation name, so it
  never collides" (`compile.rs` 88) holds for declared names, not between the two
  reserved ones. The view's columns replace the cursors'.
- The digest covers entities, bootstrap and requirements only. A source that
  changed its relations, views or handlers is taken for the one installed.

### Proofs

`PackagesProofs` proves `NamesAndSchemasStand` for every choice of sources, hosts and
first ids, and any number of loads, crashes and commits. It supposes `CopiesApart`: no
stored view's relation has the name of the cursors' (the case above, in which a cursor's
row does not conform to the view's columns). Of the sources it supposes what the parser
has seen to (`Parsed`, which TLC evaluates on the run's nine): lists, columns with types,
declared names that are not reserved, an id that is a text and a version that is an
integer.

The invariant is `IInv`; TLC checked it on the run before it was proved. Neither half of
the property is inductive alone: that a row conforms depends on how far its load had got
when it was committed, and that a runtime's schemas begin as its program's on what the
load put that opened it. So `LoadOk` says, stage by stage, which names the load has bound
(`Owed` are those it has not), which schemas it has put (those no longer `due` are
`Filed`), and which checks it has passed; `Chain` that the versions of a schema take
effect one after the other and only append; `FactOk` which version was in effect for each
row; `OpenOk` what an open runtime relies on. The two lemmas that carry most are
`NewVersion` (putting a schema leaves every row's version, and every schema's beginning,
as it was, because a version put takes effect after every edition there is) and
`CommitIsSound` (a commit of rows that conform to the latest schemas, by an open runtime
that was checked against `check_schema`, by the bootstrap, or by a stored view's cursor).

`ResourcesStand` stays with TLC: it is about what runtimes write between loads, and holds
of the sources of the run because they write counters, inboxes and cursors through their
capabilities only, which is for the authorities of `Execution` to see to.

## 13. Not modelled

The lexer and the parser (text to syntax tree: sequential, no state kept, tested
by enumeration), byte layouts and hashing, the command line, the example worlds,
the benchmarks and the fuzz targets. The remaining components of section 1 are
planned as above.

Model-checked only, and why: everything that needs a recursive operator over plans,
terms or nodes, which the proof system does not take (sections 8 and 9, and of
section 6 what evaluates a query); liveness (`Answered`, `Handled`); `ReplayedOnce` and
`IndexExact` of section 10, and `ResourcesStand` of section 12.
