------------------------------ MODULE Sessions ------------------------------
(***************************************************************************)
(* Connections to one server: logging in, commands and their replies, and  *)
(* the push of a watched view (crates/grmpl-session/src/session.rs,        *)
(* watch.rs, net.rs, moo.rs).                                              *)
(*                                                                         *)
(* Each connection is a thread without a lock of its own: what it read at  *)
(* one edition it commits at a later one, against the rows its patch       *)
(* requires.  Its place in the replies is kept in memory and ends with the *)
(* connection; its place in the pushed changes is a row of the world.      *)
(***************************************************************************)
EXTENDS Multisets, SequencesExt

CONSTANTS
  Conns,          (* connections                                         *)
  Name,           (* the name each logs in under                         *)
  Watching,       (* connections that may ask for pushed changes         *)
  MaxTries,       (* attempts: 256 for a number and a pump, 16 else      *)
  MaxLines,       (* bound: command lines                                *)
  MaxLogins,      (* bound: connections accepted                         *)
  MaxFaults       (* bound: sockets that fail, crashes                   *)

ASSUME SessionsAssumption ==
  /\ Watching \subseteq Conns
  /\ MaxTries \in Nat \ {0}
  /\ MaxLines \in Nat /\ MaxLogins \in Nat /\ MaxFaults \in Nat

VARIABLES
  world,    (* the rows of the current edition, with their weights       *)
  log,      (* the replies and named things each edition added           *)
  pc,       (* where each connection's thread is                         *)
  who,      (* its player                                                *)
  outFrom,  (* out_cursor: replies to the player are read up to there    *)
  sub,      (* whether it has a subscription                             *)
  line,     (* the number of the command being answered                  *)
  job,      (* the patch to commit, and the edition or number read       *)
  left,     (* attempts left                                             *)
  lines, logins, faults, (* counts, for the bounds                       *)
  bound,    (* history: the edition each session began at                *)
  heard,    (* history: the replies written to the socket, in order      *)
  replied,  (* history: numbers of the commands submit answered          *)
  since,    (* history: the edition each player first subscribed at      *)
  written   (* history: numbers of changes written to a player's sockets *)

mine == <<pc, who, outFrom, sub, line, job, left>>
history == <<lines, logins, faults, bound, heard, replied, since, written>>
vars == <<world, log, mine, history>>

NoOne == 0
NoLine == -1
NoJob == [pre |-> {}, adds |-> {}, dels |-> {}, at |-> 0]
Fresh == 0        (* no counter, no cursor: numbering begins at 0 *)

Current == Len(log)
Ids == 1 .. MaxLogins + MaxLines

-----------------------------------------------------------------------------
(* Rows: <<relation, entity, number or name, ...>>. *)

Rows(rel) == {r \in DOMAIN world : r[1] = rel}
Held(rel, e) == {r \in Rows(rel) : r[2] = e /\ world[r] > 0}
Numbers(rel, e) == {r[3] : r \in Held(rel, e)}

(* A cursor is read off the first positive row, a counter off the last. *)
Cursor(rel, e) == IF Numbers(rel, e) = {} THEN Fresh ELSE Min(Numbers(rel, e))
Counter(rel, e) == IF Numbers(rel, e) = {} THEN Fresh ELSE Max(Numbers(rel, e))

(* Alloc::seal and SeqAlloc::seal: of a counter that has a row, the row is *)
(* required, retracted and asserted k further on.                          *)
Bumped(p, rel, e, k) ==
  LET row == IF Numbers(rel, e) = {} THEN {} ELSE {<<rel, e, Counter(rel, e)>>} IN
  [p EXCEPT !.pre = @ \cup row, !.dels = @ \cup row,
            !.adds = @ \cup {<<rel, e, Counter(rel, e) + k>>}]

Holds(p) == \A r \in p.pre : Weight(world, r) > 0

Recorded(rows) == {r \in rows : r[1] \in {"tell", "named"}}

Committed(c) ==
  /\ Holds(job[c])
  /\ world' = LET p == job[c] IN
       Merge(world, Merge([r \in p.adds |-> 1], [r \in p.dels |-> -1]))
  /\ log' = Append(log, Recorded(job[c].adds))
Rejected(c) == ~ Holds(job[c]) /\ UNCHANGED <<world, log>>

(* A package's bootstrap seeds the counter of ids. *)
Init ==
  /\ world = [r \in {<<"ids", NoOne, 1>>} |-> 1]
  /\ log = <<{}>>
  /\ pc = [c \in Conns |-> "closed"]
  /\ who = [c \in Conns |-> NoOne]
  /\ outFrom = [c \in Conns |-> 0]
  /\ sub = [c \in Conns |-> FALSE]
  /\ line = [c \in Conns |-> NoLine]
  /\ job = [c \in Conns |-> NoJob]
  /\ left = [c \in Conns |-> MaxTries]
  /\ lines = 0 /\ logins = 0 /\ faults = 0
  /\ bound = [c \in Conns |-> 0]
  /\ heard = [c \in Conns |-> << >>]
  /\ replied = [c \in Conns |-> {}]
  /\ since = [e \in Ids |-> 0]
  /\ written = [e \in Ids |-> {}]

(* A thread goes on to `at`: in the middle of an attempt, or with attempts *)
(* anew; or, rejected, to another attempt while there is one left.         *)
Go(c, at) == pc' = [pc EXCEPT ![c] = at] /\ UNCHANGED left
Begin(c, at) == pc' = [pc EXCEPT ![c] = at] /\ left' = [left EXCEPT ![c] = MaxTries]
Retry(c, at) ==
  left[c] > 1 /\ pc' = [pc EXCEPT ![c] = at] /\ left' = [left EXCEPT ![c] = @ - 1]
LastTry(c) == left[c] = 1
Propose(c, p) == job' = [job EXCEPT ![c] = p]
Drop(c) == Propose(c, NoJob)

(* The connection ends: what its session kept in memory is gone.           *)
Forget(S) ==
  /\ pc' = [c \in Conns |-> IF c \in S THEN "closed" ELSE pc[c]]
  /\ who' = [c \in Conns |-> IF c \in S THEN NoOne ELSE who[c]]
  /\ outFrom' = [c \in Conns |-> IF c \in S THEN 0 ELSE outFrom[c]]
  /\ sub' = [c \in Conns |-> IF c \in S THEN FALSE ELSE sub[c]]
  /\ line' = [c \in Conns |-> IF c \in S THEN NoLine ELSE line[c]]
  /\ job' = [c \in Conns |-> IF c \in S THEN NoJob ELSE job[c]]
  /\ left' = [c \in Conns |-> IF c \in S THEN MaxTries ELSE left[c]]
  /\ bound' = [c \in Conns |-> IF c \in S THEN 0 ELSE bound[c]]
  /\ heard' = [c \in Conns |-> IF c \in S THEN << >> ELSE heard[c]]
  /\ replied' = [c \in Conns |-> IF c \in S THEN {} ELSE replied[c]]

-----------------------------------------------------------------------------
(* serve_with and login. *)

(* A connection gets a thread of its own. *)
Accept(c) ==
  /\ pc[c] = "closed"
  /\ logins < MaxLogins /\ logins' = logins + 1
  /\ Begin(c, "login")
  /\ UNCHANGED <<world, log, who, outFrom, sub, line, job, lines, faults, bound, heard, replied,
                 since, written>>

(* lookup_identity: the first player of that name, a set of none or one.   *)
Player(name) ==
  LET rows == {x \in Rows("player") : x[3] = name /\ world[x] > 0} IN
  IF rows = {} THEN {} ELSE {Min({x[2] : x \in rows})}

(* Defect: only the login looks for the name, not each attempt to spawn.   *)
BugAdopted(name) == {}

(* Every attempt to spawn looks again, in the snapshot it allocates from:  *)
(* a racing login of that name may have won.                               *)
Adopted(name) == Player(name)

(* The entity, its inbox's counter, its name and its player row, in one    *)
(* patch with the bump of the counter of ids.                              *)
SpawnPatch(name) ==
  LET e == Counter("ids", NoOne) IN
  Bumped([NoJob EXCEPT
            !.adds = {<<"player", e, name>>, <<"named", e, 0>>, <<"inboxseq", e, 0>>},
            !.at = e],
         "ids", NoOne, 1)

Lookup(c) ==
  /\ pc[c] = "login"
  /\ \/ Player(Name[c]) = {} /\ Go(c, "spawn") /\ UNCHANGED who
     \/ \E e \in Player(Name[c]) : who' = [who EXCEPT ![c] = e] /\ Go(c, "bind")
  /\ UNCHANGED <<world, log, outFrom, sub, line, job, history>>

Adopt(c) ==
  /\ pc[c] = "spawn"
  /\ \E e \in Adopted(Name[c]) : who' = [who EXCEPT ![c] = e]
  /\ Begin(c, "bind")
  /\ UNCHANGED <<world, log, outFrom, sub, line, job, history>>

Spawn(c) ==
  /\ pc[c] = "spawn" /\ Adopted(Name[c]) = {}
  /\ Propose(c, SpawnPatch(Name[c]))
  /\ Go(c, "spawning")
  /\ UNCHANGED <<world, log, who, outFrom, sub, line, history>>

SpawnCommit(c) ==
  /\ pc[c] = "spawning" /\ Committed(c)
  /\ who' = [who EXCEPT ![c] = job[c].at]
  /\ Drop(c) /\ Begin(c, "bind")
  /\ UNCHANGED <<outFrom, sub, line, history>>

SpawnRejected(c) ==
  /\ pc[c] = "spawning" /\ Rejected(c) /\ Drop(c) /\ Retry(c, "spawn")
  /\ UNCHANGED <<who, outFrom, sub, line, history>>

LoginFails(c) ==
  /\ pc[c] = "spawning" /\ Rejected(c) /\ LastTry(c) /\ Forget({c})
  /\ UNCHANGED <<lines, logins, faults, since, written>>

(* The session's place in the replies is the edition current by then.      *)
Bind(c) ==
  /\ pc[c] = "bind"
  /\ outFrom' = [outFrom EXCEPT ![c] = Current]
  /\ bound' = [bound EXCEPT ![c] = Current]
  /\ Begin(c, "line")
  /\ UNCHANGED <<world, log, who, sub, line, job, lines, logins, faults, heard, replied, since,
                 written>>

-----------------------------------------------------------------------------
(* submit: enqueue the line, run the player's process to idle, read the    *)
(* replies.  An error is printed, and the connection goes on to the push.  *)

SubmitFails(c) == LastTry(c) /\ Begin(c, "push") /\ line' = [line EXCEPT ![c] = NoLine]

Submit(c) ==
  /\ pc[c] = "line"
  /\ lines < MaxLines /\ lines' = lines + 1
  /\ Begin(c, "number")
  /\ UNCHANGED <<world, log, who, outFrom, sub, line, job, logins, faults, bound, heard, replied,
                 since, written>>

EnqueueNumber(c) ==
  LET e == who[c]
      n == Counter("inboxseq", e) IN
  /\ pc[c] = "number"
  /\ Propose(c, Bumped([NoJob EXCEPT !.adds = {<<"inbox", e, n>>}, !.at = n],
                       "inboxseq", e, 1))
  /\ Go(c, "enqueue")
  /\ UNCHANGED <<world, log, who, outFrom, sub, line, history>>

EnqueueCommit(c) ==
  /\ pc[c] = "enqueue" /\ Committed(c)
  /\ line' = [line EXCEPT ![c] = job[c].at]
  /\ Drop(c) /\ Begin(c, "position")
  /\ UNCHANGED <<who, outFrom, sub, history>>

EnqueueRejected(c) ==
  /\ pc[c] = "enqueue" /\ Rejected(c) /\ Drop(c)
  /\ (Retry(c, "number") /\ UNCHANGED line) \/ SubmitFails(c)
  /\ UNCHANGED <<who, outFrom, sub, history>>

Position(c) ==
  /\ pc[c] = "position"
  /\ Propose(c, [NoJob EXCEPT !.at = Cursor("cursor", who[c])])
  /\ Go(c, "prepare")
  /\ UNCHANGED <<world, log, who, outFrom, sub, line, history>>

(* player_behavior: a command stands for create, which names a new thing   *)
(* under the next id and tells its player so.                              *)
Behavior(e, n) ==
  LET id == Counter("ids", NoOne) IN
  Bumped([NoJob EXCEPT !.adds = {<<"tell", e, n>>, <<"named", id, 0>>}], "ids", NoOne, 1)

(* Process::patch_at: the cursor move rides in the same patch, and         *)
(* requires nothing.                                                       *)
Step(e, n) ==
  [Behavior(e, n) EXCEPT
     !.dels = @ \cup (IF n > 0 THEN {<<"cursor", e, n>>} ELSE {}),
     !.adds = @ \cup {<<"cursor", e, n + 1>>},
     !.at = n]

Pending(e, n) == n \in Numbers("inbox", e)

Prepare(c) ==
  /\ pc[c] = "prepare" /\ Pending(who[c], job[c].at)
  /\ Propose(c, Step(who[c], job[c].at))
  /\ Go(c, "step")
  /\ UNCHANGED <<world, log, who, outFrom, sub, line, history>>

(* A message is handled: the next one gets attempts of its own. *)
StepCommit(c) ==
  /\ pc[c] = "step" /\ Committed(c)
  /\ Drop(c) /\ Begin(c, "position")
  /\ UNCHANGED <<who, outFrom, sub, line, history>>

StepRejected(c) ==
  /\ pc[c] = "step" /\ Rejected(c) /\ Drop(c)
  /\ (Retry(c, "position") /\ UNCHANGED line) \/ SubmitFails(c)
  /\ UNCHANGED <<who, outFrom, sub, history>>

InboxIdle(c) ==
  /\ pc[c] = "prepare" /\ ~ Pending(who[c], job[c].at)
  /\ Drop(c) /\ Begin(c, "drain")
  /\ UNCHANGED <<world, log, who, outFrom, sub, line, history>>

(* drain_output, up to the edition that is current when it begins.         *)
DrainStart(c) ==
  /\ pc[c] = "drain"
  /\ Propose(c, [NoJob EXCEPT !.at = Current])
  /\ Go(c, "replies")
  /\ UNCHANGED <<world, log, who, outFrom, sub, line, history>>

(* The numbers of the replies to player e that editions (from, to] added,  *)
(* in commit order.                                                        *)
Tells(e, from, to) ==
  FlattenSeq([i \in 1 .. to - from |->
    SetToSeq({r[3] : r \in {x \in log[from + i] : x[1] = "tell" /\ x[2] = e}})])

(* Defect: the place kept is the edition current after the replies are read. *)
BugOutCursor(to) == Current
OutCursor(to) == to

Drain(c) ==
  /\ pc[c] = "replies"
  /\ heard' = [heard EXCEPT ![c] = @ \o Tells(who[c], outFrom[c], job[c].at)]
  /\ outFrom' = [outFrom EXCEPT ![c] = OutCursor(job[c].at)]
  /\ replied' = [replied EXCEPT ![c] = @ \cup {line[c]}]
  /\ line' = [line EXCEPT ![c] = NoLine]
  /\ Drop(c) /\ Begin(c, "push")
  /\ UNCHANGED <<world, log, who, sub, lines, logins, faults, bound, since, written>>

-----------------------------------------------------------------------------
(* subscribe, and push_activations after every command: pump, then drain.  *)

(* A subscription made before is resumed. *)
Resume(c) ==
  /\ pc[c] = "line" /\ c \in Watching /\ Numbers("wcursor", who[c]) # {}
  /\ ~ sub[c] /\ sub' = [sub EXCEPT ![c] = TRUE]
  /\ UNCHANGED <<world, log, pc, who, outFrom, line, job, left, history>>

(* None was made: two connections of one player may both find that.        *)
Subscribe(c) ==
  /\ pc[c] = "line" /\ c \in Watching /\ Numbers("wcursor", who[c]) = {}
  /\ Go(c, "watch")
  /\ UNCHANGED <<world, log, who, outFrom, sub, line, job, history>>

(* install: from the current edition on; the counter of the player's       *)
(* changes is seeded if it is absent.                                      *)
InstallAt(c) ==
  LET e == who[c] IN
  /\ pc[c] = "watch"
  /\ Propose(c, [NoJob EXCEPT
       !.adds = {<<"wcursor", e, Current>>}
                  \cup (IF Numbers("wseq", e) = {} THEN {<<"wseq", e, 0>>} ELSE {}),
       !.at = Current])
  /\ Go(c, "install")
  /\ UNCHANGED <<world, log, who, outFrom, sub, line, history>>

Install(c) ==
  /\ pc[c] = "install" /\ Committed(c)
  /\ sub' = [sub EXCEPT ![c] = TRUE]
  /\ since' = [since EXCEPT ![who[c]] = IF @ = 0 THEN job[c].at ELSE Min({@, job[c].at})]
  /\ Drop(c) /\ Begin(c, "line")
  /\ UNCHANGED <<who, outFrom, line, lines, logins, faults, bound, heard, replied, written>>

(* Defect: the interval is taken from its first edition to before its last. *)
BugNewNames(from, to) == {r[2] : r \in {x \in UNION {log[i] : i \in from .. to - 1} : x[1] = "named"}}

(* The entities named by editions (from, to]: the watched view's changes.  *)
NewNames(from, to) == {r[2] : r \in {x \in UNION {log[i] : i \in from + 1 .. to} : x[1] = "named"}}

(* The changes since the cursor, numbered on from the counter, in order.   *)
PumpPatch(e) ==
  LET from == Cursor("wcursor", e)
      new == NewNames(from, Current)
      place(x) == Cardinality({y \in new : y < x})
  IN Bumped([NoJob EXCEPT
               !.pre = {<<"wcursor", e, from>>}, !.dels = {<<"wcursor", e, from>>},
               !.adds = {<<"wcursor", e, Current>>}
                  \cup {<<"wmail", e, Counter("wseq", e) + place(x), x>> : x \in new}],
            "wseq", e, Cardinality(new))

(* pump reads the cursor, the change and the counter one after another;    *)
(* its commit requires both rows, so the three reads are one step here.    *)
Moved(c) ==
  /\ sub[c]
  /\ NewNames(Cursor("wcursor", who[c]), Current) # {}

Pump(c) ==
  /\ pc[c] = "push" /\ Moved(c)
  /\ Propose(c, PumpPatch(who[c]))
  /\ Go(c, "pump")
  /\ UNCHANGED <<world, log, who, outFrom, sub, line, history>>

PumpQuiet(c) ==
  /\ pc[c] = "push" /\ ~ Moved(c)
  /\ Begin(c, IF sub[c] THEN "delivery" ELSE "line")
  /\ UNCHANGED <<world, log, who, outFrom, sub, line, job, history>>

(* After the last try the pump answers that it appended nothing. *)
PumpCommit(c) ==
  /\ pc[c] = "pump" /\ Committed(c) /\ Drop(c) /\ Begin(c, "delivery")
  /\ UNCHANGED <<who, outFrom, sub, line, history>>

PumpRejected(c) ==
  /\ pc[c] = "pump" /\ Rejected(c) /\ Drop(c)
  /\ Retry(c, "push") \/ (LastTry(c) /\ Begin(c, "delivery"))
  /\ UNCHANGED <<who, outFrom, sub, line, history>>

Undelivered(e, from) == {n \in Numbers("wmail", e) : n >= from}

(* The delivery cursor moves past what was undelivered; its first move has *)
(* no row to require.                                                      *)
DeliveryPatch(e, from) ==
  LET row == IF from > 0 THEN {<<"wdelivery", e, from>>} ELSE {} IN
  [NoJob EXCEPT !.pre = row, !.dels = row,
                !.adds = {<<"wdelivery", e, from + Cardinality(Undelivered(e, from))>>}]

DeliveredThrough(c) ==
  /\ pc[c] = "delivery"
  /\ Propose(c, [NoJob EXCEPT !.at = Cursor("wdelivery", who[c])])
  /\ Go(c, "mail")
  /\ UNCHANGED <<world, log, who, outFrom, sub, line, history>>

(* drain_once: the changes from the delivery cursor on are written to the  *)
(* socket; then the cursor is moved past them.  What a socket that fails   *)
(* has taken by then stays written, and the connection ends.               *)
Deliver(c) ==
  LET e == who[c]
      from == job[c].at IN
  /\ pc[c] = "mail" /\ Undelivered(e, from) # {}
  /\ written' = [written EXCEPT ![e] = @ \cup Undelivered(e, from)]
  /\ Propose(c, DeliveryPatch(e, from))
  /\ Go(c, "advance")
  /\ UNCHANGED <<world, log, who, outFrom, sub, line, lines, logins, faults, bound, heard, replied,
                 since>>

NothingToDeliver(c) ==
  /\ pc[c] = "mail" /\ Undelivered(who[c], job[c].at) = {}
  /\ Drop(c) /\ Begin(c, "line")
  /\ UNCHANGED <<world, log, who, outFrom, sub, line, history>>

SocketFails(c) ==
  LET e == who[c]
      due == Undelivered(e, job[c].at) IN
  /\ faults < MaxFaults /\ faults' = faults + 1
  /\ \/ pc[c] = "push" /\ UNCHANGED written   (* already at the replies *)
     \/ /\ pc[c] = "mail"
        /\ \E n \in due : written' = [written EXCEPT ![e] = @ \cup {m \in due : m < n}]
  /\ Forget({c})
  /\ UNCHANGED <<world, log, lines, logins, since>>

DeliveryCommit(c) ==
  /\ pc[c] = "advance" /\ Committed(c) /\ Drop(c) /\ Begin(c, "line")
  /\ UNCHANGED <<who, outFrom, sub, line, history>>

(* Another connection of this player moved the cursor: the drain begins    *)
(* again, or answers an error.                                             *)
DeliveryRejected(c) ==
  /\ pc[c] = "advance" /\ Rejected(c) /\ Drop(c)
  /\ Retry(c, "delivery") \/ (LastTry(c) /\ Begin(c, "line"))
  /\ UNCHANGED <<who, outFrom, sub, line, history>>

-----------------------------------------------------------------------------
(* quit, or the client is gone or idle too long: noticed between lines.    *)
Quit(c) ==
  /\ pc[c] = "line" /\ Forget({c})
  /\ UNCHANGED <<world, log, lines, logins, faults, since, written>>

(* The server's process dies: the world is what was committed. *)
Crash ==
  /\ faults < MaxFaults /\ faults' = faults + 1
  /\ Forget({c \in Conns : pc[c] # "closed"})
  /\ UNCHANGED <<world, log, lines, logins, since, written>>

Login(c) ==
  \/ Accept(c) \/ Lookup(c) \/ Adopt(c) \/ Spawn(c) \/ SpawnCommit(c)
  \/ SpawnRejected(c) \/ LoginFails(c) \/ Bind(c) \/ Quit(c)
Answer(c) ==
  \/ Submit(c) \/ EnqueueNumber(c) \/ EnqueueCommit(c) \/ EnqueueRejected(c)
  \/ Position(c) \/ Prepare(c) \/ InboxIdle(c) \/ StepCommit(c) \/ StepRejected(c)
  \/ DrainStart(c) \/ Drain(c)
Push(c) ==
  \/ Resume(c) \/ Subscribe(c) \/ InstallAt(c) \/ Install(c)
  \/ Pump(c) \/ PumpQuiet(c) \/ PumpCommit(c) \/ PumpRejected(c)
  \/ DeliveredThrough(c) \/ Deliver(c) \/ NothingToDeliver(c) \/ SocketFails(c)
  \/ DeliveryCommit(c) \/ DeliveryRejected(c)

Next ==
  \/ \E c \in Conns : Login(c) \/ Answer(c) \/ Push(c)
  \/ Crash

Spec == Init /\ [][Next]_vars

-----------------------------------------------------------------------------
(* What the last two properties suppose of a player's connections: that no *)
(* two of them run the player's process at once, nor make its subscription *)
(* at once.  The move of a process's cursor and the first row of a watch's *)
(* require nothing, so that the second would repeat what the first did.    *)

Driving(c) == pc[c] \in {"position", "prepare", "step"}
OneDriver == \A c, d \in Conns : c # d /\ who[c] = who[d] => ~ (Driving(c) /\ Driving(d))

Subscribing(c) == pc[c] \in {"watch", "install"}
OneSubscriber == \A c, d \in Conns : c # d /\ who[c] = who[d] => ~ (Subscribing(c) /\ Subscribing(d))

-----------------------------------------------------------------------------
(* Properties. *)

(* One name, one identity, whoever raced to log in under it; and no id is  *)
(* given out twice, to players or to what they make                        *)
(* (concurrent_world.rs, laws 1 and 2).                                    *)
Identities ==
  /\ \A r, q \in Rows("player") : world[r] = 1 /\ (r[3] = q[3] <=> r = q)
  /\ \A r \in Rows("named") : world[r] = 1
  /\ \A c \in Conns : who[c] # NoOne => Weight(world, <<"player", who[c], Name[c]>>) = 1

(* A command that submit answered was handled once, and its reply was      *)
(* written to the connection that gave it, once; so was every reply to its *)
(* player up to its place in them, whatever committed while they were read *)
(* (session.rs, submit; concurrent_world.rs, law 3).                       *)
AnsweredOnce ==
  \A c \in Conns :
    LET times(n) == Cardinality({i \in DOMAIN heard[c] : heard[c][i] = n}) IN
    /\ \A n \in replied[c] : times(n) = 1
    /\ \A i \in bound[c] + 1 .. outFrom[c] : \A r \in log[i] :
         r[1] = "tell" /\ r[2] = who[c] => times(r[3]) = 1

(* A player's pushed changes are without a gap: what its watch cursor has  *)
(* passed since it first subscribed is in its mail, numbered from 0 and    *)
(* one change to a number, and what its delivery cursor has passed was     *)
(* written to one of its sockets, across sockets that fail, crashes and    *)
(* connections that share the cursors (reactive_push.rs, law 2; the gap    *)
(* that drain_once would stop at never comes to be).                       *)
NothingSkipped ==
  \A e \in Ids : since[e] > 0 =>
    /\ Numbers("wmail", e) = 0 .. Cardinality(Held("wmail", e)) - 1
    /\ \A i \in since[e] + 1 .. Cursor("wcursor", e) : \A r \in log[i] :
         r[1] = "named" => \E m \in Held("wmail", e) : m[4] = r[2]
    /\ \A k \in Numbers("wdelivery", e) : 0 .. k - 1 \subseteq written[e]
=============================================================================
