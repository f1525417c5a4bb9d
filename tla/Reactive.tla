------------------------------ MODULE Reactive ------------------------------
(***************************************************************************)
(* What follows the world as it changes: watches that turn a view's change *)
(* into inbox messages, materialized views, query streams, a maintained    *)
(* fixpoint, and the collector that folds history below the watches        *)
(* (crates/grmpl-proc/src/watch.rs, derived.rs, gc.rs,                     *)
(* crates/grmpl-diff/src/watch.rs, recursive.rs).                          *)
(*                                                                         *)
(* Each keeps its place in a cursor row of the world it follows.  Threads  *)
(* read at one edition and commit at a later one, against the rows their   *)
(* patch requires.                                                         *)
(***************************************************************************)
EXTENDS Queries

CONSTANTS
  Base,          (* base relations                                       *)
  Writes,        (* patches of other writers: sets of <<rel, row, diff>> *)
  Plans,         (* the query plans compared                             *)
  Copies,        (* the materialized views, as plans                     *)
  Maintained,    (* what each copy's relation holds: its open, linear plan *)
  Watches,       (* watches                                              *)
  View,          (* each watch's view                                    *)
  Pumps,         (* threads that pump; Pumped says which watch           *)
  Pumped,
  Maintainers,   (* threads that refresh a copy; Refreshed says which    *)
  Refreshed,
  Collectors,    (* threads that call consolidate_to                     *)
  Recursion,     (* the iterate an IncrementalFixpoint maintains         *)
  Bootstrap,     (* what the package's bootstrap commit writes           *)
  MaxWrites,     (* bound: commits of other writers                      *)
  MaxAdvances,   (* bound: advances of the fixpoint                      *)
  MaxEditions    (* bound: editions                                      *)

Rels == Base \cup {"views", "watches", "inbox", "seqs"} \cup {c.into : c \in Copies}
Threads == Pumps \cup Maintainers \cup Collectors

ASSUME ReactiveAssumption ==
  /\ \A q \in Plans : Legal(q)
  /\ MaxWrites \in Nat /\ MaxAdvances \in Nat /\ MaxEditions \in Nat

VARIABLES
  hist,       (* every edition: its relations and the rows its commit wrote *)
  watermark,  (* editions below it cannot be read                        *)
  pc,         (* where each thread is                                    *)
  job,        (* what it read: from, to, the rows or the floor           *)
  fix,        (* IncrementalFixpoint: value, edition, advances           *)
  writes,     (* commits of other writers so far                         *)
  since       (* history: the edition each watch was installed from      *)

vars == <<hist, watermark, pc, job, fix, writes, since>>

Current == Len(hist) - 1
Now(rel) == At(hist, Current, rel)
Reads(e) == e >= watermark

NoJob == [from |-> 0, to |-> 0, rows |-> None, num |-> 0]
NotInstalled == -1

-----------------------------------------------------------------------------
(* Patches: the rows required, and the updates. *)

Holds(p) == \A x \in p.pre : Weight(Now(x[1]), x[2]) > 0

Committed(p) ==
  LET rows(r) == {u[2] : u \in {v \in p.ups : v[1] = r}}
      sum(r, t) == MapThenSumSet(LAMBDA u : u[3], {u \in p.ups : u[1] = r /\ u[2] = t})
  IN /\ Len(hist) <= MaxEditions
     /\ hist' = Append(hist,
          [db |-> [r \in Rels |-> Merge(Now(r), Stripped(rows(r), LAMBDA t : sum(r, t)))],
           touched |-> [r \in Rels |-> rows(r)]])

(* The world opens with the package's bootstrap as edition 1: its facts and *)
(* every copy's cursor at 0.                                               *)
Genesis ==
  LET empty == [r \in Rels |-> None]
      first == [r \in Rels |->
        [t \in {f[2] : f \in {g \in Bootstrap : g[1] = r}}
               \cup (IF r = "views" THEN {<<c.key, 0>> : c \in Copies} ELSE {}) |-> 1]]
  IN <<[db |-> empty, touched |-> [r \in Rels |-> {}]],
       [db |-> first, touched |-> [r \in Rels |-> DOMAIN first[r]]]>>

Init ==
  /\ hist = Genesis
  /\ watermark = 0
  /\ pc = [th \in Threads |-> "idle"]
  /\ job = [th \in Threads |-> NoJob]
  /\ fix = [r |-> EvalSnapshot(Recursion, hist, 0), at |-> 0, advances |-> 0]
  /\ writes = 0
  /\ since = [w \in Watches |-> NotInstalled]

(* Another writer commits to the base relations. *)
Write ==
  /\ writes < MaxWrites
  /\ \E ups \in Writes : Committed([pre |-> {}, ups |-> ups])
  /\ writes' = writes + 1
  /\ UNCHANGED <<watermark, pc, job, fix, since>>

(* The inbox's counter: its value if there is a row, else 0. *)
Counters == {t \in DOMAIN Now("seqs") : Now("seqs")[t] > 0}
CounterStart == IF Counters = {} THEN 0 ELSE (CHOOSE t \in Counters : TRUE)[1]

(* A cursor row of a watch or of a copy. *)
CursorRows(rel, key) == {t \in DOMAIN Now(rel) : Now(rel)[t] > 0 /\ t[1] = key}

BugMoved(rel, key, from, to) ==
  [pre |-> {<<rel, <<key, from>>>>},
   ups |-> {<<rel, <<key, from>>, -1>>, <<rel, <<key, Current>>, 1>>}]

Moved(rel, key, from, to) ==
  [pre |-> {<<rel, <<key, from>>>>},
   ups |-> {<<rel, <<key, from>>, -1>>, <<rel, <<key, to>>, 1>>}]

-----------------------------------------------------------------------------
(* Watches. *)

(* install begins at the current edition, install_including_current at 0;  *)
(* either seeds the inbox's counter if it is absent.  The current edition  *)
(* is read before the commit, and others may commit in between: it is any  *)
(* edition so far.  Neither asks for the watermark.                        *)
Install(w) ==
  /\ since[w] = NotInstalled
  /\ \E from \in 0 .. Current :
       /\ Committed([pre |-> {}, ups |-> {<<"watches", <<w, from>>, 1>>} \cup
                       (IF Counters = {} THEN {<<"seqs", <<0>>, 1>>} ELSE {})])
       /\ since' = [since EXCEPT ![w] = from]
  /\ UNCHANGED <<watermark, pc, job, fix, writes>>

(* pump: read the cursor, ask whether anything could have moved, evaluate  *)
(* the change since.  A cursor below the watermark is an error.  The reads *)
(* are one step: the commit requires the very rows read, and both only     *)
(* ever move forward, so reading them earlier could only lose the race.    *)
PumpRead(th) ==
  LET q == View[Pumped[th]] IN
  /\ th \in Pumps /\ pc[th] = "idle"
  /\ \E row \in CursorRows("watches", Pumped[th]) :
       LET rows == Delta(q, hist, row[2], Current) IN
       /\ row[2] < Current
       /\ Reads(row[2])
       /\ ~ Unmoved(q, hist, row[2], Current)
       /\ rows # None
       /\ job' = [job EXCEPT ![th] = [from |-> row[2], to |-> Current, rows |-> rows,
                                      num |-> CounterStart]]
  /\ pc' = [pc EXCEPT ![th] = "commit"]
  /\ UNCHANGED <<hist, watermark, fix, writes, since>>

(* The rows in tuple order, numbered on from the counter read. *)
Place(rows, t) == Cardinality({u \in DOMAIN rows : Before(u, t)})

PumpPatch(th) ==
  LET j == job[th]
      next == j.num + Cardinality(DOMAIN j.rows)
      move == Moved("watches", Pumped[th], j.from, j.to)
  IN [pre |-> move.pre \cup {<<"seqs", <<j.num>>>>},
      ups |-> move.ups
        \cup {<<"inbox", <<Pumped[th], j.num + Place(j.rows, t), j.rows[t], t>>, 1>> :
                t \in DOMAIN j.rows}
        \cup {<<"seqs", <<j.num>>, -1>>, <<"seqs", <<next>>, 1>>}]

PumpCommit(th) ==
  /\ th \in Pumps /\ pc[th] = "commit"
  /\ IF Holds(PumpPatch(th)) THEN Committed(PumpPatch(th)) ELSE UNCHANGED hist
  /\ pc' = [pc EXCEPT ![th] = "idle"]
  /\ job' = [job EXCEPT ![th] = NoJob]
  /\ UNCHANGED <<watermark, fix, writes, since>>

-----------------------------------------------------------------------------
(* Materialized views. *)

(* refresh reads as pump does, but an empty change still moves the cursor. *)
RefreshRead(th) ==
  LET c == Refreshed[th] IN
  /\ th \in Maintainers /\ pc[th] = "idle"
  /\ \E row \in CursorRows("views", c.key) :
       /\ row[2] < Current
       /\ Reads(row[2])
       /\ ~ Unmoved(Maintained[c], hist, row[2], Current)
       /\ job' = [job EXCEPT ![th] = [from |-> row[2], to |-> Current,
                    rows |-> Delta(Maintained[c], hist, row[2], Current), num |-> 0]]
  /\ pc' = [pc EXCEPT ![th] = "commit"]
  /\ UNCHANGED <<hist, watermark, fix, writes, since>>

RefreshPatch(th) ==
  LET j == job[th]
      move == Moved("views", Refreshed[th].key, j.from, j.to)
  IN [move EXCEPT !.ups = @ \cup {<<Refreshed[th].into, t, j.rows[t]>> : t \in DOMAIN j.rows}]

RefreshCommit(th) ==
  /\ th \in Maintainers /\ pc[th] = "commit"
  /\ IF Holds(RefreshPatch(th)) THEN Committed(RefreshPatch(th)) ELSE UNCHANGED hist
  /\ pc' = [pc EXCEPT ![th] = "idle"]
  /\ job' = [job EXCEPT ![th] = NoJob]
  /\ UNCHANGED <<watermark, fix, writes, since>>

-----------------------------------------------------------------------------
(* consolidate_to: the least watch cursor is read, then history below it   *)
(* and below what was asked for is folded.                                 *)

BugFloor(up) == up

Floor(up) ==
  LET cursors == {t[2] : t \in {u \in DOMAIN Now("watches") : Now("watches")[u] > 0}}
  IN Min(cursors \cup {up})

CollectRead(th) ==
  /\ th \in Collectors /\ pc[th] = "idle"
  /\ job' = [job EXCEPT ![th].from = Current, ![th].to = Floor(Current)]
  /\ pc' = [pc EXCEPT ![th] = "collect"]
  /\ UNCHANGED <<hist, watermark, fix, writes, since>>

Collect(th) ==
  /\ th \in Collectors /\ pc[th] = "collect"
  /\ watermark' = Max({watermark, Min({job[th].to, Current})})
  /\ pc' = [pc EXCEPT ![th] = "idle"]
  /\ job' = [job EXCEPT ![th] = NoJob]
  /\ UNCHANGED <<hist, fix, writes, since>>

-----------------------------------------------------------------------------
(* advance brings the fixpoint to the current edition. *)
AdvanceFixpoint ==
  /\ Reads(fix.at) /\ fix.at < Current /\ fix.advances < MaxAdvances
  /\ fix' = [r |-> Advanced(Recursion, hist, fix.r, fix.at, Current), at |-> Current,
             advances |-> fix.advances + 1]
  /\ UNCHANGED <<hist, watermark, pc, job, writes, since>>

Next ==
  \/ Write
  \/ \E w \in Watches : Install(w)
  \/ \E th \in Threads : \/ PumpRead(th) \/ PumpCommit(th)
                         \/ RefreshRead(th) \/ RefreshCommit(th)
                         \/ CollectRead(th) \/ Collect(th)
  \/ AdvanceFixpoint

Spec == Init /\ [][Next]_vars

-----------------------------------------------------------------------------
(* Properties. *)

(* The two properties of plans are about the history alone: they are       *)
(* evaluated where no thread is in the middle of something.                *)
AtRest == fix.advances = 0 /\ \A th \in Threads : pc[th] = "idle"

(* eval_delta's promise: whatever shape a plan has and whichever shortcut  *)
(* its delta takes, the change over any interval that can still be read is *)
(* the difference of the answers at its ends.                              *)
DeltaIsDifference ==
  AtRest => \A q \in Plans : \A from \in watermark .. Current - 1 :
    Delta(q, hist, from, Current) = Recomputed(q, hist, from, Current)

(* "Materializing a view never changes an answer, only its cost": at every *)
(* edition, however far the copy lags and whoever refreshes it, reading    *)
(* the view gives what its plan gives.                                     *)
CopyChangesNoAnswer ==
  AtRest => \A c \in Copies : \A at \in watermark .. Current :
    EvalSnapshot(c, hist, at) = EvalSnapshot(c.in[1], hist, at)

(* What the pumps of a watch have put in its inbox adds up to the change   *)
(* of its view from where it was installed to its cursor: two pumps over   *)
(* one interval deliver it once, and none is skipped, even where history   *)
(* was folded above the cursor (gc.rs: never silently lose activations).   *)
Delivered(w) ==
  LET mine == {t \in DOMAIN Now("inbox") : t[1] = w}
  IN Stripped({t[4] : t \in mine},
       LAMBDA u : MapThenSumSet(LAMBDA t : t[3] * Now("inbox")[t], {t \in mine : t[4] = u}))

DeliveredOnce ==
  \A w \in Watches : since[w] # NotInstalled =>
    \E row \in CursorRows("watches", w) :
      Delivered(w) = Recomputed(View[w], hist, since[w], row[2])

(* consolidate_to is said to leave every installed watch pumpable (gc.rs); *)
(* what it does, whatever installs, pumps and collectors are under way: a  *)
(* watch that could be pumped stops being so only by a collector that read *)
(* the cursors at an edition when the watch had none.                      *)
Pumpable(w) == \E row \in CursorRows("watches", w) : Reads(row[2])

Unseen(th, w) == ~ \E t \in DOMAIN At(hist, job[th].from, "watches") : t[1] = w

StrandedOnlyUnseen ==
  [][\A w \in Watches : Pumpable(w) /\ ~ Pumpable(w)' =>
       \E th \in Collectors : pc[th] = "collect" /\ pc'[th] = "idle" /\ Unseen(th, w)]_vars

(* The maintained fixpoint is the one recursion gives at the edition it    *)
(* has been brought to, after any mixture of insertions and retractions,   *)
(* cycles of mutual support included.                                      *)
FixpointExact == fix.r = EvalSnapshot(Recursion, hist, fix.at)
============================================================================
