---------------------------- MODULE CrossDomain ----------------------------
(***************************************************************************)
(* Messages between authority domains (crates/grmpl-proc/src/domain.rs)    *)
(* over the in-process network (crates/grmpl-transport/src/inproc.rs).     *)
(*                                                                         *)
(* A domain has a store, a multiset of rows that one commit changes at     *)
(* once.  A patch's messages to inboxes of other domains become rows of    *)
(* its outbox; a delivery pass sends them and takes them back; the other   *)
(* domain polls them, and recognises one it has applied by a row of seen.  *)
(***************************************************************************)
EXTENDS Multisets, SequencesExt

CONSTANTS
  Domains,
  Routes,      (* the inboxes each domain knows, and who owns them       *)
  Committers,  (* threads that call commit, once each                    *)
  Flushers,    (* threads that call flush_outbox                         *)
  Receivers,   (* threads that call receive                              *)
  Home,        (* the domain each thread works for                       *)
  Job,         (* what each committer commits: the rows required, the    *)
               (* updates, and its messages in order                     *)
  World,       (* the rows each domain begins with                       *)
  MaxTries,    (* attempts at a contended outbox number: 64              *)
  MaxFaults    (* bound: faults                                          *)

Threads == Committers \cup Flushers \cup Receivers

ASSUME CrossDomainAssumption ==
  /\ Home \in [Threads -> Domains]
  /\ \A d \in Domains : Range(Routes[d]) \subseteq Domains
  /\ \A c \in Committers : Job[c].emits \in Seq(Range(Job[c].emits))
  /\ Committers \cap Flushers = {} /\ Committers \cap Receivers = {}
  /\ Flushers \cap Receivers = {}
  /\ MaxTries \in Nat \ {0} /\ MaxFaults \in Nat

(* A body stands for one message, by which the properties know it. *)
ASSUME BodiesNameMessages ==
  \A c, e \in Committers : \A i \in DOMAIN Job[c].emits, j \in DOMAIN Job[e].emits :
    Job[c].emits[i].body = Job[e].emits[j].body => c = e /\ i = j

(* The relations a Domain keeps for itself; inboxes are written by emits   *)
(* and deliveries, and read past, never retracted from.                    *)
OwnRelations == {"outbox", "outseq", "seen", "inbox"}

(* What the source asks of its callers: a Domain's relations are its own,  *)
(* and one thread drains a domain's transport (docs/design/world-package-  *)
(* phase-2-actor-scheduling-implementation-guide.md: one logical driver    *)
(* per authority domain); `receive` does not guard what it read of seen.   *)
ASSUME CrossDomainContract ==
  /\ \A d \in Domains : \A r \in World[d] : r[1] \notin OwnRelations
  /\ \A c \in Committers : \A r \in Job[c].adds \cup Job[c].dels : r[1] \notin OwnRelations
  /\ \A r, o \in Receivers : Home[r] = Home[o] => r = o

VARIABLES
  store,   (* each domain's rows and their weights                       *)
  queue,   (* each domain's inbound messages, with their sender          *)
  up,      (* domains that have minted their endpoint                    *)
  pc,
  number,  (* the outbox number a committer read: none or one            *)
  left,    (* its attempts left                                          *)
  work,    (* outbox rows a flusher still has to ship                    *)
  held,    (* the message a receiver has polled: none or one             *)
  faults   (* faults so far                                              *)

vars == <<store, queue, up, pc, number, left, work, held, faults>>

OutRow(n, m) == <<"outbox", n, m.to, m.inbox, m.body>>
OutSeq(n) == <<"outseq", n>>
Seen(d, n) == <<"seen", d, n>>
Mail(inbox, body) == <<"inbox", inbox, body>>

Live(d, row) == Weight(store[d], row) > 0

(* seed_outseq has run in every domain before anything else. *)
Init ==
  /\ store = [d \in Domains |-> [r \in World[d] \cup {OutSeq(0)} |-> 1]]
  /\ queue = [d \in Domains |-> << >>]
  /\ up = {}
  /\ pc = [th \in Threads |-> IF th \in Committers THEN "start" ELSE "idle"]
  /\ number = [c \in Committers |-> {}]
  /\ left = [c \in Committers |-> 0]
  /\ work = [f \in Flushers |-> {}]
  /\ held = [r \in Receivers |-> {}]
  /\ faults = 0

(* A commit: weighted rows added to a domain's. *)
Plus(d, adds, dels) ==
  store' = [store EXCEPT ![d] =
    Difference(Merge(@, [r \in adds |-> 1]), [r \in dels |-> 1])]

-----------------------------------------------------------------------------
(* commit. *)

IsRemote(d, m) == m.inbox \in DOMAIN Routes[d] /\ Routes[d][m.inbox] # d

(* The messages for other domains, by their place in the patch ... *)
Remote(c) == {i \in DOMAIN Job[c].emits : IsRemote(Home[c], Job[c].emits[i])}

Posted(c, i) ==
  LET m == Job[c].emits[i]
  IN [to |-> Routes[Home[c]][m.inbox], inbox |-> m.inbox, body |-> m.body]

(* ... and the numbers they draw, in that order, from n on. *)
Drawn(c, n, i) == n + Cardinality({j \in Remote(c) : j < i})

(* The patch's own rows and its messages to local inboxes. *)
BaseAdds(c) ==
  Job[c].adds \cup {Mail(m.inbox, m.body) : m \in {e \in Range(Job[c].emits) : ~ IsRemote(Home[c], e)}}

AllHold(c) == \A r \in Job[c].pre : Live(Home[c], r)

(* Without a remote message it is one commit_if. *)
CommitLocal(c) ==
  /\ pc[c] = "start" /\ Remote(c) = {}
  /\ IF AllHold(c)
     THEN /\ Plus(Home[c], BaseAdds(c), Job[c].dels)
          /\ pc' = [pc EXCEPT ![c] = "committed"]
     ELSE /\ pc' = [pc EXCEPT ![c] = "rejected"] /\ UNCHANGED store
  /\ UNCHANGED <<queue, up, number, left, work, held, faults>>

CommitRemote(c) ==
  /\ pc[c] = "start" /\ Remote(c) # {}
  /\ pc' = [pc EXCEPT ![c] = "number"]
  /\ left' = [left EXCEPT ![c] = MaxTries]
  /\ UNCHANGED <<store, queue, up, number, work, held, faults>>

ReadNumber(c) ==
  /\ pc[c] = "number"
  /\ \E n \in {r[2] : r \in {s \in DOMAIN store[Home[c]] : s[1] = "outseq" /\ Live(Home[c], s)}} :
       number' = [number EXCEPT ![c] = {n}]
  /\ pc' = [pc EXCEPT ![c] = "commit"]
  /\ UNCHANGED <<store, queue, up, left, work, held, faults>>

(* The outbox rows under the numbers from n on, and the counter moved past *)
(* them; the row read is required.                                         *)
BugSealed(c, n) ==
  [pre |-> {}, dels |-> {OutSeq(n)},
   adds |-> {OutRow(Drawn(c, n, i), Posted(c, i)) : i \in Remote(c)}
              \cup {OutSeq(n + Cardinality(Remote(c)))}]

Sealed(c, n) ==
  [pre |-> {OutSeq(n)}, dels |-> {OutSeq(n)},
   adds |-> {OutRow(Drawn(c, n, i), Posted(c, i)) : i \in Remote(c)}
              \cup {OutSeq(n + Cardinality(Remote(c)))}]

CommitMail(c) ==
  /\ pc[c] = "commit"
  /\ \E n \in number[c] :
       LET mail == Sealed(c, n) IN
       IF AllHold(c) /\ \A r \in mail.pre : Live(Home[c], r)
       THEN /\ Plus(Home[c], BaseAdds(c) \cup mail.adds, Job[c].dels \cup mail.dels)
            /\ pc' = [pc EXCEPT ![c] = "committed"]
       ELSE /\ pc' = [pc EXCEPT ![c] = "lost"] /\ UNCHANGED store
  /\ number' = [number EXCEPT ![c] = {}]
  /\ UNCHANGED <<queue, up, left, work, held, faults>>

(* A lost race for the number is retried; a patch whose own preconditions  *)
(* are gone, and one out of attempts, is rejected.                         *)
Settle(c) ==
  /\ pc[c] = "lost"
  /\ pc' = [pc EXCEPT ![c] = IF AllHold(c) /\ left[c] > 1 THEN "number" ELSE "rejected"]
  /\ left' = [left EXCEPT ![c] = @ - 1]
  /\ UNCHANGED <<store, queue, up, number, work, held, faults>>

-----------------------------------------------------------------------------
(* The network. *)

(* endpoint: the empty queue of a domain that receives. *)
Endpoint(d) ==
  /\ d \notin up
  /\ up' = up \cup {d}
  /\ UNCHANGED <<store, queue, pc, number, left, work, held, faults>>

-----------------------------------------------------------------------------
(* flush_outbox. *)

FlushRead(f) ==
  LET rows == {r \in DOMAIN store[Home[f]] : r[1] = "outbox" /\ Live(Home[f], r)} IN
  /\ pc[f] = "idle" /\ rows # {}
  /\ work' = [work EXCEPT ![f] = rows]
  /\ pc' = [pc EXCEPT ![f] = "send"]
  /\ UNCHANGED <<store, queue, up, number, left, held, faults>>

(* Rows are read in order, the outbox number first. *)
Next1(f) == CHOOSE r \in work[f] : \A o \in work[f] : r[2] <= o[2]

(* No route to the target ends the pass with an error. *)
FlushSend(f) ==
  LET r == Next1(f) IN
  /\ pc[f] = "send"
  /\ IF r[3] \in up
     THEN /\ queue' = [queue EXCEPT ![r[3]] =
                Append(@, [from |-> Home[f], seq |-> r[2], inbox |-> r[4], body |-> r[5]])]
          /\ pc' = [pc EXCEPT ![f] = "retract"] /\ UNCHANGED work
     ELSE /\ work' = [work EXCEPT ![f] = {}]
          /\ pc' = [pc EXCEPT ![f] = "idle"] /\ UNCHANGED queue
  /\ UNCHANGED <<store, up, number, left, held, faults>>

FlushRetract(f) ==
  /\ pc[f] = "retract"
  /\ Plus(Home[f], {}, {Next1(f)})
  /\ work' = [work EXCEPT ![f] = @ \ {Next1(f)}]
  /\ pc' = [pc EXCEPT ![f] = IF work[f] = {Next1(f)} THEN "idle" ELSE "send"]
  /\ UNCHANGED <<queue, up, number, left, held, faults>>

(* The retraction fails, or its thread dies: the row stays, and is sent    *)
(* again.                                                                  *)
FlushFault(f) ==
  /\ faults < MaxFaults /\ pc[f] = "retract"
  /\ work' = [work EXCEPT ![f] = {}]
  /\ pc' = [pc EXCEPT ![f] = "idle"]
  /\ faults' = faults + 1
  /\ UNCHANGED <<store, queue, up, number, left, held>>

-----------------------------------------------------------------------------
(* receive. *)

Poll(r) ==
  /\ pc[r] = "idle" /\ queue[Home[r]] # << >>
  /\ held' = [held EXCEPT ![r] = {Head(queue[Home[r]])}]
  /\ queue' = [queue EXCEPT ![Home[r]] = Tail(@)]
  /\ pc' = [pc EXCEPT ![r] = "seen"]
  /\ UNCHANGED <<store, up, number, left, work, faults>>

SeenHolds(r) ==
  /\ pc[r] = "seen"
  /\ \E m \in held[r] :
       IF Live(Home[r], Seen(m.from, m.seq))
       THEN held' = [held EXCEPT ![r] = {}] /\ pc' = [pc EXCEPT ![r] = "idle"]
       ELSE pc' = [pc EXCEPT ![r] = "apply"] /\ UNCHANGED held
  /\ UNCHANGED <<store, queue, up, number, left, work, faults>>

(* Defect: the next number is remembered for the one applied. *)
BugReceipt(m) == {Mail(m.inbox, m.body), Seen(m.from, m.seq + 1)}

(* What applying a message writes: it, and that it has been. *)
Receipt(m) == {Mail(m.inbox, m.body), Seen(m.from, m.seq)}

Apply(r) ==
  /\ pc[r] = "apply"
  /\ \E m \in held[r] : Plus(Home[r], Receipt(m), {})
  /\ held' = [held EXCEPT ![r] = {}]
  /\ pc' = [pc EXCEPT ![r] = "idle"]
  /\ UNCHANGED <<queue, up, number, left, work, faults>>

(* The receiver fails or dies with a message it has polled. *)
ReceiveFault(r) ==
  /\ faults < MaxFaults /\ pc[r] \in {"seen", "apply"}
  /\ held' = [held EXCEPT ![r] = {}]
  /\ pc' = [pc EXCEPT ![r] = "idle"]
  /\ faults' = faults + 1
  /\ UNCHANGED <<store, queue, up, number, left, work>>

Next ==
  \/ \E c \in Committers : \/ CommitLocal(c) \/ CommitRemote(c) \/ ReadNumber(c)
                           \/ CommitMail(c) \/ Settle(c)
  \/ \E r \in Receivers : Endpoint(Home[r])
  \/ \E f \in Flushers : FlushRead(f) \/ FlushSend(f) \/ FlushRetract(f) \/ FlushFault(f)
  \/ \E r \in Receivers : Poll(r) \/ SeenHolds(r) \/ Apply(r)

Spec == Init /\ [][Next]_vars

(* The same where receivers may fail too. *)
MortalSpec == Init /\ [][Next \/ \E r \in Receivers : ReceiveFault(r)]_vars

-----------------------------------------------------------------------------
(* Properties. *)

(* Where a message is: in its sender's outbox, under way, in a receiver's  *)
(* hands, or in its inbox.                                                 *)
Whereabouts(c, m) ==
  \/ \E r \in DOMAIN store[Home[c]] :
       r[1] = "outbox" /\ Live(Home[c], r) /\ r[3] = m.to /\ r[5] = m.body
  \/ \E i \in DOMAIN queue[m.to] : queue[m.to][i].body = m.body
  \/ \E r \in Receivers : Home[r] = m.to /\ \E h \in held[r] : h.body = m.body
  \/ Live(m.to, Mail(m.inbox, m.body))

(* The mail of a committed patch is somewhere from its commit on, whoever  *)
(* else takes numbers, ships it at the same time or fails half way; and a  *)
(* rejected patch has mailed nothing (domain.rs: routing remote emits into *)
(* the durable outbox atomically).                                         *)
MailConserved ==
  \A c \in Committers : \A i \in Remote(c) :
    Whereabouts(c, Posted(c, i)) <=> pc[c] = "committed"

(* A message is applied at most once however often it is sent, and two     *)
(* domains' messages under one number are not taken for each other         *)
(* (domain.rs: redelivery is idempotent).                                  *)
AppliedOnce ==
  \A d \in Domains : \A r \in DOMAIN store[d] : r[1] = "inbox" => store[d][r] = 1
============================================================================
