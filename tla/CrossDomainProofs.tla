-------------------------- MODULE CrossDomainProofs --------------------------
(***************************************************************************)
(* Mail between authority domains, for any domains, routes, patches and    *)
(* threads: no message is applied twice, even where receivers fail         *)
(* (AppliedOnce), and where they do not, none is lost (MailConserved).     *)
(*                                                                         *)
(* The state keeps no record of which number a message went out under once *)
(* its outbox row is gone.  What stands in for it is that all the copies   *)
(* of a message still about (outbox rows, rows a flusher has read, letters *)
(* queued or polled) agree on the number, and no two messages share one.   *)
(***************************************************************************)
EXTENDS CrossDomain, MultisetsProofs, FiniteSetTheorems, WellFoundedInduction, TLAPS

USE CrossDomainAssumption

(* A message under a number: the patch, its place there, and the number.   *)
Letters ==
  {l \in [by : Committers, place : Nat, seq : Nat] : l.place \in Remote(l.by)}

From(l) == Home[l.by]
Post(l) == Posted(l.by, l.place)
Row(l) == OutRow(l.seq, Post(l))
Env(l) == [from |-> From(l), seq |-> l.seq, inbox |-> Post(l).inbox, body |-> Post(l).body]
Receipted(l) == Seen(From(l), l.seq)
Delivery(l) == Mail(Post(l).inbox, Post(l).body)

(* The rows a domain's outbox may hold, and the letters it may be sent. *)
Outbound(d) == {Row(l) : l \in {g \in Letters : From(g) = d}}
Inbound(d) == {Env(l) : l \in {g \in Letters : Post(g).to = d}}

PCs == {"start", "number", "commit", "lost", "committed", "rejected",
        "idle", "send", "retract", "seen", "apply"}

TypeOK ==
  /\ store = [d \in Domains |-> store[d]] /\ \A d \in Domains : Proper(store[d])
  /\ queue = [d \in Domains |-> queue[d]]
  /\ \A d \in Domains : queue[d] \in Seq(Inbound(d))
  /\ pc \in [Threads -> PCs]
  /\ number \in [Committers -> SUBSET Nat]
  /\ work = [f \in Flushers |-> work[f]]
  /\ \A f \in Flushers : work[f] \subseteq Outbound(Home[f])
  /\ held = [r \in Receivers |-> held[r]]
  /\ \A r \in Receivers : held[r] \subseteq Inbound(Home[r])

(* The rows a Domain keeps are the ones it writes. *)
RowsKept ==
  \A d \in Domains : \A r \in DOMAIN store[d] :
    /\ r[1] = "outbox" => \E l \in Letters : From(l) = d /\ r = Row(l)
    /\ r[1] = "outseq" => \E n \in Nat : r = OutSeq(n)
    /\ r[1] = "seen" => store[d][r] > 0

(* A copy of the letter is about. *)
InOutbox(l) == Row(l) \in DOMAIN store[From(l)]
Read(l) == \E f \in Flushers : Home[f] = From(l) /\ Row(l) \in work[f]
Queued(l) == \E i \in DOMAIN queue[Post(l).to] : queue[Post(l).to][i] = Env(l)
Polled(l) == \E r \in Receivers : Home[r] = Post(l).to /\ Env(l) \in held[r]
About(l) == InOutbox(l) \/ Read(l) \/ Queued(l) \/ Polled(l)

(* One counter row per domain, above every number in use. *)
NumberedTo(d, n) ==
  /\ \A r \in DOMAIN store[d] : r[1] = "outseq" => r = OutSeq(n)
  /\ Weight(store[d], OutSeq(n)) = 1
  /\ \A l \in Letters : From(l) = d /\ About(l) => l.seq < n
  /\ \A e \in Domains, k \in Nat : Seen(d, k) \in DOMAIN store[e] => k < n
Numbered == \A d \in Domains : \E n \in Nat : NumberedTo(d, n)

(* The copies about agree on each message's number, and each number is one *)
(* message's.                                                              *)
Apart ==
  \A l, g \in Letters : About(l) /\ About(g) =>
    /\ From(l) = From(g) /\ l.seq = g.seq => l = g
    /\ l.by = g.by /\ l.place = g.place => l = g

(* Mail is only ever of committed patches. *)
Sent == \A l \in Letters : About(l) => pc[l.by] = "committed"
Delivered ==
  \A d \in Domains : \A r \in DOMAIN store[d] : r[1] = "inbox" =>
    /\ store[d][r] = 1
    /\ \E c \in Committers : \E i \in DOMAIN Job[c].emits :
         /\ pc[c] = "committed"
         /\ r = Mail(Job[c].emits[i].inbox, Job[c].emits[i].body)

(* What seen says of a copy is whether its message is in the inbox. *)
Receipts ==
  \A l \in Letters : About(l) =>
    (Live(Post(l).to, Receipted(l)) <=> Live(Post(l).to, Delivery(l)))

(* A receiver holds the letter it polled; what it read of seen still holds *)
(* when it commits.                                                        *)
Holding ==
  \A r \in Receivers :
    /\ pc[r] \in {"idle", "seen", "apply"}
    /\ pc[r] = "idle" => held[r] = {}
    /\ pc[r] # "idle" => \E l \in Letters : held[r] = {Env(l)}
    /\ \A l \in Letters : pc[r] = "apply" /\ Env(l) \in held[r]
                            => ~ Live(Home[r], Receipted(l))

(* A flusher in a pass has rows left to ship. *)
Working ==
  \A f \in Flushers : /\ pc[f] \in {"idle", "send", "retract"}
                      /\ pc[f] # "idle" => work[f] # {}

IInv == /\ TypeOK /\ RowsKept /\ Numbered /\ Apart /\ Sent /\ Delivered /\ Receipts
        /\ Holding /\ Working

(* Past its outbox: under way, in hand, or in the inbox. *)
Gone(l) == Queued(l) \/ Polled(l) \/ Live(Post(l).to, Delivery(l))

(* A row a flusher is about to retract has been sent. *)
Shipping ==
  \A f \in Flushers : \A l \in Letters :
    pc[f] = "retract" /\ From(l) = Home[f] /\ Row(l) = Next1(f) => Gone(l)

(* Every message of a committed patch is in the outbox or past it.         *)
Carried ==
  \A c \in Committers : pc[c] = "committed" => \A i \in Remote(c) :
    \E l \in Letters : /\ l.by = c /\ l.place = i
                       /\ Live(From(l), Row(l)) \/ Gone(l)

CInv == IInv /\ Shipping /\ Carried

----------------------------------------------------------------------------
(* What a commit does to the rows of its domain.                           *)

(* A commit adds one to each row it asserts, takes one from each it        *)
(* retracts, and leaves the other domains alone.                           *)
LEMMA PlusWeight ==
  ASSUME TypeOK, NEW d \in Domains, NEW adds, NEW dels, Plus(d, adds, dels)
  PROVE  /\ store' = [e \in Domains |-> store'[e]]
         /\ \A e \in Domains : Proper(store'[e])
         /\ \A e \in Domains \ {d} : store'[e] = store[e]
         /\ \A r : Weight(store'[d], r)
                     = Weight(store[d], r) + One(r \in adds) - One(r \in dels)
<1> DEFINE A == [r \in adds |-> 1]
           D == [r \in dels |-> 1]
           N == Negated(D)
           M == Merge(store[d], A)
<1>0. Proper(store[d])
  BY DEF TypeOK
<1>1. Proper(A) /\ \A r : Weight(A, r) = One(r \in adds)
  BY DEF Proper, Weight, One
<1>2. Proper(N) /\ \A r : Weight(N, r) = 0 - One(r \in dels)
  BY DEF Proper, Weight, One, Negated
<1>3. Proper(M) /\ \A r : Weight(M, r) = Weight(store[d], r) + One(r \in adds)
  <2> HIDE DEF A
  <2> QED BY <1>0, <1>1, MergeWeight
<1>4. /\ Proper(Merge(M, N))
      /\ \A r : Weight(Merge(M, N), r) = Weight(M, r) + Weight(N, r)
  <2> HIDE DEF M, N
  <2> QED BY <1>2, <1>3, MergeWeight
<1>5. /\ store' = [store EXCEPT ![d] = Merge(M, N)]
  BY DEF Plus, Difference
<1>6. /\ store' = [e \in Domains |-> store'[e]] /\ store'[d] = Merge(M, N)
      /\ \A e \in Domains \ {d} : store'[e] = store[e]
  <2> HIDE DEF M, N
  <2> QED BY <1>5 DEF TypeOK
<1>7. ASSUME NEW r
      PROVE  Weight(store'[d], r)
               = Weight(store[d], r) + One(r \in adds) - One(r \in dels)
  <2>1. Weight(store[d], r) \in Int
    BY <1>0, WeightIn
  <2>2. One(r \in adds) \in Int /\ One(r \in dels) \in Int
    BY DEF One
  <2> HIDE DEF M, N
  <2> QED BY <1>2, <1>3, <1>4, <1>6, <2>1, <2>2
<1>8. \A e \in Domains : Proper(store'[e])
  <2> HIDE DEF M, N
  <2> QED BY <1>4, <1>6 DEF TypeOK
<1> QED
  BY <1>6, <1>7, <1>8

----------------------------------------------------------------------------
(* Letters.                                                                *)

LEMMA LetterParts ==
  ASSUME NEW l \in Letters
  PROVE  /\ l.by \in Committers /\ l.place \in Remote(l.by) /\ l.seq \in Nat
         /\ l = [by |-> l.by, place |-> l.place, seq |-> l.seq]
         /\ l.place \in DOMAIN Job[l.by].emits
         /\ From(l) \in Domains /\ Post(l).to \in Domains
         /\ Post(l).inbox = Job[l.by].emits[l.place].inbox
         /\ Post(l).body = Job[l.by].emits[l.place].body
<1>1. /\ l.by \in Committers /\ l.place \in Remote(l.by) /\ l.seq \in Nat
      /\ l = [by |-> l.by, place |-> l.place, seq |-> l.seq]
  BY DEF Letters
<1>2. From(l) \in Domains
  BY <1>1 DEF From, Threads
<1>3. /\ l.place \in DOMAIN Job[l.by].emits
      /\ Job[l.by].emits[l.place].inbox \in DOMAIN Routes[From(l)]
  BY <1>1 DEF Remote, IsRemote, From
<1>4. Routes[From(l)][Job[l.by].emits[l.place].inbox] \in Domains
  BY <1>2, <1>3 DEF Range
<1> QED
  BY <1>1, <1>2, <1>3, <1>4 DEF Post, Posted, From

LEMMA LetterMade ==
  ASSUME NEW c \in Committers, NEW i \in Remote(c), NEW n \in Nat
  PROVE  [by |-> c, place |-> i, seq |-> n] \in Letters
<1>1. i \in Nat
  BY DEF Remote
<1> QED
  BY <1>1 DEF Letters

(* A body tells whose message it is ... *)
LEMMA BodyTells ==
  ASSUME NEW l \in Letters, NEW c \in Committers, NEW i \in DOMAIN Job[c].emits,
         Post(l).body = Job[c].emits[i].body
  PROVE  l.by = c /\ l.place = i
  BY LetterParts, BodiesNameMessages

(* ... and a row or an envelope which letter it is. *)
LEMMA RowTells ==
  ASSUME NEW l \in Letters, NEW g \in Letters, Row(l) = Row(g)
  PROVE  l = g
<1>1. l.seq = g.seq /\ Post(l).body = Post(g).body
  BY DEF Row, OutRow
<1>2. l.by = g.by /\ l.place = g.place
  BY <1>1, LetterParts, BodyTells
<1> QED
  BY <1>1, <1>2, LetterParts

LEMMA EnvTells ==
  ASSUME NEW l \in Letters, NEW g \in Letters, Env(l) = Env(g)
  PROVE  l = g
<1>1. l.seq = g.seq /\ Post(l).body = Post(g).body
  BY DEF Env
<1>2. l.by = g.by /\ l.place = g.place
  BY <1>1, LetterParts, BodyTells
<1> QED
  BY <1>1, <1>2, LetterParts

(* The relations a row may be of. *)
LEMMA RowKinds ==
  /\ \A l \in Letters : /\ Row(l)[1] = "outbox" /\ Receipted(l)[1] = "seen"
                        /\ Delivery(l)[1] = "inbox"
  /\ \A n : OutSeq(n)[1] = "outseq"
  /\ \A d, n : Seen(d, n)[1] = "seen"
  /\ \A k, b : Mail(k, b)[1] = "inbox"
  /\ \A n, m : OutRow(n, m)[1] = "outbox"
  BY DEF Row, OutRow, Receipted, Seen, Delivery, Mail, OutSeq

LEMMA SeenTells ==
  ASSUME NEW d, NEW e, NEW n, NEW k, Seen(d, n) = Seen(e, k)
  PROVE  d = e /\ n = k
  BY DEF Seen

LEMMA MailTells ==
  ASSUME NEW k, NEW b, NEW j, NEW c, Mail(k, b) = Mail(j, c)
  PROVE  k = j /\ b = c
  BY DEF Mail

LEMMA OutSeqTells ==
  ASSUME NEW n, NEW k, OutSeq(n) = OutSeq(k)
  PROVE  n = k
  BY DEF OutSeq

(* What a commit does not name keeps its weight. *)
LEMMA PlusFrame ==
  ASSUME TypeOK, NEW d \in Domains, NEW adds, NEW dels, Plus(d, adds, dels),
         NEW e \in Domains, NEW r, e # d \/ (r \notin adds /\ r \notin dels)
  PROVE  /\ Weight(store'[e], r) = Weight(store[e], r)
         /\ r \in DOMAIN store'[e] <=> r \in DOMAIN store[e]
         /\ r \in DOMAIN store[e] => store'[e][r] = store[e][r]
<1>1. Proper(store[e]) /\ Proper(store'[e])
  BY PlusWeight DEF TypeOK
<1>2. Weight(store'[e], r) = Weight(store[e], r)
  <2>1. CASE e # d
    BY <2>1, PlusWeight
  <2>2. CASE e = d
    <3>1. Weight(store'[d], r) = Weight(store[d], r) + One(r \in adds) - One(r \in dels)
      BY PlusWeight
    <3>2. One(r \in adds) = 0 /\ One(r \in dels) = 0
      BY <2>2 DEF One
    <3>3. Weight(store[d], r) \in Int
      BY <1>1, <2>2, WeightIn
    <3> QED BY <2>2, <3>1, <3>2, <3>3
  <2> QED BY <2>1, <2>2
<1> QED
  BY <1>1, <1>2, WeightIn

----------------------------------------------------------------------------
(* Steps that write no row.                                                *)

(* Where no copy appears, what is said of the copies stands.               *)
LEMMA CopiesFewer ==
  ASSUME IInv, \A l \in Letters : About(l)' => About(l),
         \A c \in Committers : pc[c] = "committed" => pc'[c] = "committed"
  PROVE  Apart' /\ Sent'
<1>1. Apart'
  BY DEF IInv, Apart
<1>2. ASSUME NEW l \in Letters, About(l)' PROVE pc'[l.by] = "committed"
  BY <1>2, LetterParts DEF IInv, Sent
<1> QED
  BY <1>1, <1>2 DEF Sent

LEMMA StillStep ==
  ASSUME IInv, TypeOK', Holding', Working', UNCHANGED store,
         \A l \in Letters : About(l)' => About(l),
         \A c \in Committers : pc[c] = "committed" => pc'[c] = "committed"
  PROVE  IInv'
<1>1. Apart' /\ Sent'
  BY CopiesFewer
<1>2. RowsKept'
  BY DEF IInv, RowsKept
<1>3. Numbered'
  <2> SUFFICES ASSUME NEW d \in Domains PROVE \E n \in Nat : NumberedTo(d, n)'
    BY DEF Numbered
  <2>1. PICK n \in Nat : NumberedTo(d, n)
    BY DEF IInv, Numbered
  <2>2. NumberedTo(d, n)'
    BY <2>1 DEF NumberedTo
  <2> QED BY <2>2
<1>4. Delivered'
  <2> SUFFICES ASSUME NEW d \in Domains, NEW r \in DOMAIN store[d], r[1] = "inbox"
               PROVE  /\ store[d][r] = 1
                      /\ \E c \in Committers : \E i \in DOMAIN Job[c].emits :
                           /\ pc'[c] = "committed"
                           /\ r = Mail(Job[c].emits[i].inbox, Job[c].emits[i].body)
    BY DEF Delivered
  <2> QED BY DEF IInv, Delivered
<1>5. Receipts'
  BY DEF IInv, Receipts, Live
<1> QED
  BY <1>1, <1>2, <1>3, <1>4, <1>5 DEF IInv

(* A committer that reads, retries or gives up. *)
LEMMA QuietStep ==
  ASSUME IInv, NEW c \in Committers, UNCHANGED <<store, queue, work, held>>,
         number' \in [Committers -> SUBSET Nat],
         pc' = [pc EXCEPT ![c] = pc'[c]], pc'[c] \in PCs, pc[c] # "committed"
  PROVE  IInv'
<1>1. /\ pc \in [Threads -> PCs] /\ c \in Threads
      /\ \A th \in Threads \ {c} : pc'[th] = pc[th]
  BY DEF IInv, TypeOK, Threads
<1>2. TypeOK'
  BY <1>1 DEF IInv, TypeOK
<1>3. \A r \in Receivers : pc'[r] = pc[r]
  BY <1>1 DEF Threads
<1>4. Holding'
  BY <1>3 DEF IInv, Holding, Live
<1>5. \A f \in Flushers : pc'[f] = pc[f]
  BY <1>1 DEF Threads
<1>6. Working'
  BY <1>5 DEF IInv, Working
<1>7. \A l \in Letters : About(l)' => About(l)
  BY DEF About, InOutbox, Read, Queued, Polled
<1>8. \A e \in Committers : pc[e] = "committed" => pc'[e] = "committed"
  BY <1>1 DEF Threads
<1> QED
  BY <1>2, <1>4, <1>6, <1>7, <1>8, StillStep

(* The counter row read holds a natural number. *)
LEMMA ReadNumberStep ==
  ASSUME IInv, NEW c \in Committers, ReadNumber(c)
  PROVE  IInv'
<1>1. PICK n \in {r[2] : r \in {s \in DOMAIN store[Home[c]] :
                                  s[1] = "outseq" /\ Live(Home[c], s)}} :
        number' = [number EXCEPT ![c] = {n}]
  BY DEF ReadNumber
<1>2. PICK s \in DOMAIN store[Home[c]] : s[1] = "outseq" /\ n = s[2]
  OBVIOUS
<1>3. Home[c] \in Domains
  BY DEF Threads
<1>4. PICK k \in Nat : s = OutSeq(k)
  BY <1>2, <1>3 DEF IInv, RowsKept
<1>5. n \in Nat
  BY <1>2, <1>4 DEF OutSeq
<1>6. number' \in [Committers -> SUBSET Nat]
  BY <1>1, <1>5 DEF IInv, TypeOK
<1>7. pc' = [pc EXCEPT ![c] = pc'[c]] /\ pc'[c] = "commit" /\ pc[c] = "number"
  BY DEF ReadNumber, IInv, TypeOK, Threads
<1> QED
  BY <1>6, <1>7, QuietStep DEF ReadNumber, PCs

LEMMA RetryStep ==
  ASSUME IInv, NEW c \in Committers, CommitRemote(c) \/ Settle(c)
  PROVE  IInv'
<1>1. /\ pc' = [pc EXCEPT ![c] = pc'[c]] /\ pc'[c] \in {"number", "rejected"}
      /\ pc[c] \in {"start", "lost"}
      /\ UNCHANGED <<store, queue, work, held, number>>
  BY DEF CommitRemote, Settle, IInv, TypeOK, Threads
<1> QED
  BY <1>1, QuietStep DEF IInv, TypeOK, PCs

LEMMA EndpointStep ==
  ASSUME IInv, NEW d \in Domains, Endpoint(d)
  PROVE  IInv'
<1>1. UNCHANGED <<store, queue, pc, number, work, held>>
  BY DEF Endpoint
<1>2. TypeOK' /\ Holding' /\ Working'
  BY <1>1 DEF IInv, TypeOK, Holding, Working, Live
<1>3. \A l \in Letters : About(l)' => About(l)
  BY <1>1 DEF About, InOutbox, Read, Queued, Polled
<1> QED
  BY <1>1, <1>2, <1>3, StillStep

LEMMA UnchangedStep ==
  ASSUME IInv, UNCHANGED vars
  PROVE  IInv'
<1>1. UNCHANGED <<store, queue, pc, number, work, held>>
  BY DEF vars
<1>2. TypeOK' /\ Holding' /\ Working'
  BY <1>1 DEF IInv, TypeOK, Holding, Working, Live
<1>3. \A l \in Letters : About(l)' => About(l)
  BY <1>1 DEF About, InOutbox, Read, Queued, Polled
<1> QED
  BY <1>1, <1>2, <1>3, StillStep

----------------------------------------------------------------------------
(* Flushers.                                                               *)

(* The rows a flusher has left are numbered, so one of them comes first.   *)
LEMMA NextRow ==
  ASSUME TypeOK, NEW f \in Flushers, work[f] # {}
  PROVE  /\ Next1(f) \in work[f]
         /\ \E l \in Letters : From(l) = Home[f] /\ Next1(f) = Row(l)
<1>1. work[f] \subseteq Outbound(Home[f])
  BY DEF TypeOK
<1>2. ASSUME NEW r \in work[f]
      PROVE  \E l \in Letters : From(l) = Home[f] /\ r = Row(l)
  BY <1>1 DEF Outbound
<1>3. \A r \in work[f] : r[2] \in Nat
  BY <1>2, LetterParts DEF Row, OutRow
<1> DEFINE N == {r[2] : r \in work[f]}
           Less == {ss \in Nat \X Nat : ss[1] < ss[2]}
<1>4. IsWellFoundedOn(Less, Nat)
  BY NatLessThanWellFounded DEF OpToRel
<1>5. N \subseteq Nat /\ N # {}
  BY <1>3
<1>6. PICK n \in N : \A m \in N : ~ (<<m, n>> \in Less)
  <2> HIDE DEF N, Less
  <2> QED BY <1>4, <1>5, WFMin, Zenon
<1>7. PICK r \in work[f] : n = r[2]
  OBVIOUS
<1>8. \A o \in work[f] : r[2] <= o[2]
  <2> TAKE o \in work[f]
  <2>1. o[2] \in N /\ o[2] \in Nat /\ r[2] \in Nat
    BY <1>3
  <2>2. ~ (<<o[2], n>> \in Less)
    BY <1>6, <2>1
  <2> QED BY <1>7, <2>1, <2>2
<1>9. Next1(f) \in work[f]
  BY <1>8 DEF Next1
<1> QED
  BY <1>2, <1>9

LEMMA FlushReadStep ==
  ASSUME IInv, NEW f \in Flushers, FlushRead(f)
  PROVE  IInv'
<1> DEFINE rows == {r \in DOMAIN store[Home[f]] : r[1] = "outbox" /\ Live(Home[f], r)}
<1>1. /\ TypeOK /\ f \in Threads /\ Home[f] \in Domains
      /\ rows # {} /\ work' = [work EXCEPT ![f] = rows]
      /\ pc' = [pc EXCEPT ![f] = "send"]
      /\ UNCHANGED <<store, queue, up, number, left, held>>
  BY DEF FlushRead, IInv, Threads
<1>2. rows \subseteq Outbound(Home[f])
  BY <1>1 DEF IInv, RowsKept, Outbound
<1>3. /\ work'[f] = rows /\ pc'[f] = "send"
      /\ \A g \in Flushers \ {f} : work'[g] = work[g] /\ pc'[g] = pc[g]
      /\ \A th \in Threads \ {f} : pc'[th] = pc[th]
      /\ work' = [g \in Flushers |-> work'[g]]
  <2> HIDE DEF rows
  <2> QED BY <1>1 DEF TypeOK, Threads
<1>4. TypeOK'
  <2>1. \A g \in Flushers : work'[g] \subseteq Outbound(Home[g])
    BY <1>1, <1>2, <1>3 DEF TypeOK
  <2>2. pc' \in [Threads -> PCs]
    BY <1>1 DEF TypeOK, PCs
  <2> HIDE DEF rows
  <2> QED BY <1>1, <1>3, <2>1, <2>2 DEF TypeOK
<1>5. Holding'
  <2>1. \A r \in Receivers : pc'[r] = pc[r]
    BY <1>3 DEF Threads
  <2> QED BY <1>1, <2>1 DEF IInv, Holding, Live
<1>6. Working'
  BY <1>1, <1>3 DEF IInv, Working
<1>7. ASSUME NEW l \in Letters, About(l)' PROVE About(l)
  <2>1. ASSUME Read(l)' PROVE Read(l) \/ InOutbox(l)
    <3>1. PICK g \in Flushers : Home[g] = From(l) /\ Row(l) \in work'[g]
      BY <2>1 DEF Read
    <3>2. CASE g = f
      BY <1>3, <3>1, <3>2 DEF InOutbox
    <3>3. CASE g # f
      BY <1>3, <3>1, <3>3 DEF Read
    <3> QED BY <3>2, <3>3
  <2> QED BY <1>1, <1>7, <2>1 DEF About, InOutbox, Queued, Polled
<1>8. \A c \in Committers : pc[c] = "committed" => pc'[c] = "committed"
  BY <1>3 DEF Threads
<1> QED
  BY <1>1, <1>4, <1>5, <1>6, <1>7, <1>8, StillStep

(* What flush_outbox puts on the wire is the envelope of the row it read.  *)
LEMMA SentLetter ==
  ASSUME IInv, NEW f \in Flushers, FlushSend(f)
  PROVE  \E l \in Letters :
           /\ From(l) = Home[f] /\ Row(l) = Next1(f) /\ Row(l) \in work[f]
           /\ \/ /\ queue' = [queue EXCEPT ![Post(l).to] = Append(@, Env(l))]
                 /\ pc' = [pc EXCEPT ![f] = "retract"] /\ UNCHANGED work
              \/ /\ work' = [work EXCEPT ![f] = {}]
                 /\ pc' = [pc EXCEPT ![f] = "idle"] /\ UNCHANGED queue
<1>1. work[f] # {} /\ TypeOK
  BY DEF FlushSend, IInv, Working
<1>2. PICK l \in Letters : From(l) = Home[f] /\ Next1(f) = Row(l)
  BY <1>1, NextRow
<1>3. Next1(f) \in work[f]
  BY <1>1, NextRow
<1>4. /\ Next1(f)[3] = Post(l).to
      /\ [from |-> Home[f], seq |-> Next1(f)[2], inbox |-> Next1(f)[4],
          body |-> Next1(f)[5]] = Env(l)
  BY <1>2 DEF Row, OutRow, Env
<1> QED
  BY <1>2, <1>3, <1>4 DEF FlushSend

(* A queue with one more letter. *)
LEMMA QueueAppend ==
  ASSUME TypeOK, NEW l \in Letters,
         queue' = [queue EXCEPT ![Post(l).to] = Append(@, Env(l))]
  PROVE  /\ queue' = [d \in Domains |-> queue'[d]]
         /\ \A d \in Domains : queue'[d] \in Seq(Inbound(d))
         /\ Queued(l)'
         /\ \A g \in Letters : Queued(g) => Queued(g)'
         /\ \A g \in Letters : Queued(g)' => Queued(g) \/ g = l
<1> DEFINE t == Post(l).to
<1>1. t \in Domains /\ queue[t] \in Seq(Inbound(t)) /\ Env(l) \in Inbound(t)
  BY LetterParts DEF TypeOK, Inbound
<1>2. /\ queue' = [d \in Domains |-> queue'[d]]
      /\ queue'[t] = Append(queue[t], Env(l))
      /\ \A d \in Domains \ {t} : queue'[d] = queue[d]
  BY <1>1 DEF TypeOK
<1>3. \A d \in Domains : queue'[d] \in Seq(Inbound(d))
  <2> TAKE d \in Domains
  <2>1. CASE d = t
    <3> HIDE DEF t
    <3> QED BY <1>1, <1>2, <2>1
  <2>2. CASE d # t
    BY <1>2, <2>2 DEF TypeOK
  <2> QED BY <2>1, <2>2
<1>4. /\ DOMAIN queue'[t] = (DOMAIN queue[t]) \cup {Len(queue[t]) + 1}
      /\ queue'[t][Len(queue[t]) + 1] = Env(l)
      /\ \A i \in DOMAIN queue[t] : queue'[t][i] = queue[t][i]
  <2> HIDE DEF t
  <2> QED BY <1>1, <1>2
<1>5. Queued(l)'
  BY <1>4 DEF Queued
<1>6. ASSUME NEW g \in Letters, Queued(g) PROVE Queued(g)'
  <2>1. Post(g).to \in Domains
    BY LetterParts
  <2>2. CASE Post(g).to = t
    BY <1>4, <1>6, <2>2 DEF Queued
  <2>3. CASE Post(g).to # t
    BY <1>2, <1>6, <2>1, <2>3 DEF Queued
  <2> QED BY <2>2, <2>3
<1>7. ASSUME NEW g \in Letters, Queued(g)' PROVE Queued(g) \/ g = l
  <2>1. Post(g).to \in Domains
    BY LetterParts
  <2>2. PICK i \in DOMAIN queue'[Post(g).to] : queue'[Post(g).to][i] = Env(g)
    BY <1>7 DEF Queued
  <2>3. CASE Post(g).to = t
    <3>1. CASE i \in DOMAIN queue[t]
      BY <1>4, <2>2, <2>3, <3>1 DEF Queued
    <3>2. CASE i = Len(queue[t]) + 1
      BY <1>4, <2>2, <2>3, <3>2, EnvTells
    <3> QED BY <1>4, <2>2, <2>3, <3>1, <3>2
  <2>4. CASE Post(g).to # t
    BY <1>2, <2>1, <2>2, <2>4 DEF Queued
  <2> QED BY <2>3, <2>4
<1> QED
  BY <1>2, <1>3, <1>5, <1>6, <1>7

(* A flusher that drops the rest of its pass. *)
LEMMA FlushDrops ==
  ASSUME IInv, NEW f \in Flushers, work' = [work EXCEPT ![f] = {}],
         pc' = [pc EXCEPT ![f] = "idle"], UNCHANGED <<store, queue, number, held>>
  PROVE  IInv'
<1>1. TypeOK /\ f \in Threads
  BY DEF IInv, Threads
<1>2. /\ work'[f] = {} /\ pc'[f] = "idle"
      /\ \A g \in Flushers \ {f} : work'[g] = work[g] /\ pc'[g] = pc[g]
      /\ \A th \in Threads \ {f} : pc'[th] = pc[th]
      /\ work' = [g \in Flushers |-> work'[g]]
  BY <1>1 DEF TypeOK, Threads
<1>3. TypeOK'
  <2>1. \A g \in Flushers : work'[g] \subseteq Outbound(Home[g])
    BY <1>1, <1>2 DEF TypeOK
  <2>2. pc' \in [Threads -> PCs]
    BY <1>1 DEF TypeOK, PCs
  <2> QED BY <1>1, <1>2, <2>1, <2>2 DEF TypeOK
<1>4. Holding'
  <2>1. \A r \in Receivers : pc'[r] = pc[r]
    BY <1>2 DEF Threads
  <2> QED BY <2>1 DEF IInv, Holding, Live
<1>5. Working'
  BY <1>2 DEF IInv, Working
<1>6. \A l \in Letters : About(l)' => About(l)
  BY <1>2 DEF About, InOutbox, Read, Queued, Polled
<1>7. \A c \in Committers : pc[c] = "committed" => pc'[c] = "committed"
  BY <1>2 DEF Threads
<1> QED
  BY <1>3, <1>4, <1>5, <1>6, <1>7, StillStep

LEMMA FlushSendStep ==
  ASSUME IInv, NEW f \in Flushers, FlushSend(f)
  PROVE  IInv'
<1>1. PICK l \in Letters :
           /\ From(l) = Home[f] /\ Row(l) = Next1(f) /\ Row(l) \in work[f]
           /\ \/ /\ queue' = [queue EXCEPT ![Post(l).to] = Append(@, Env(l))]
                 /\ pc' = [pc EXCEPT ![f] = "retract"] /\ UNCHANGED work
              \/ /\ work' = [work EXCEPT ![f] = {}]
                 /\ pc' = [pc EXCEPT ![f] = "idle"] /\ UNCHANGED queue
  BY SentLetter
<1>2. TypeOK /\ f \in Threads /\ UNCHANGED <<store, up, number, left, held>>
  BY DEF IInv, FlushSend, Threads
<1>3. CASE /\ queue' = [queue EXCEPT ![Post(l).to] = Append(@, Env(l))]
           /\ pc' = [pc EXCEPT ![f] = "retract"] /\ UNCHANGED work
  <2>1. pc'[f] = "retract" /\ \A th \in Threads \ {f} : pc'[th] = pc[th]
    BY <1>2, <1>3 DEF TypeOK
  <2>2. TypeOK'
    <3>1. pc' \in [Threads -> PCs]
      BY <1>2, <1>3 DEF TypeOK, PCs
    <3> QED BY <1>2, <1>3, <3>1, QueueAppend DEF TypeOK
  <2>3. Holding'
    <3>1. \A r \in Receivers : pc'[r] = pc[r]
      BY <2>1 DEF Threads
    <3> QED BY <1>2, <3>1 DEF IInv, Holding, Live
  <2>4. Working'
    <3>1. \A g \in Flushers \ {f} : pc'[g] = pc[g]
      BY <2>1 DEF Threads
    <3>2. work[f] # {}
      BY <1>1
    <3> QED BY <1>3, <2>1, <3>1, <3>2 DEF IInv, Working
  <2>5. ASSUME NEW g \in Letters, About(g)' PROVE About(g)
    <3>1. ASSUME Queued(g)' PROVE Queued(g) \/ Read(g)
      <4>1. Queued(g) \/ g = l
        BY <1>2, <1>3, <3>1, QueueAppend
      <4> QED BY <1>1, <4>1 DEF Read
    <3> QED BY <1>2, <1>3, <2>5, <3>1 DEF About, InOutbox, Read, Polled
  <2>6. \A c \in Committers : pc[c] = "committed" => pc'[c] = "committed"
    BY <2>1 DEF Threads
  <2> QED BY <1>2, <2>2, <2>3, <2>4, <2>5, <2>6, StillStep
<1>4. CASE /\ work' = [work EXCEPT ![f] = {}]
           /\ pc' = [pc EXCEPT ![f] = "idle"] /\ UNCHANGED queue
  BY <1>2, <1>4, FlushDrops
<1> QED
  BY <1>1, <1>3, <1>4

LEMMA FlushFaultStep ==
  ASSUME IInv, NEW f \in Flushers, FlushFault(f)
  PROVE  IInv'
  BY FlushDrops DEF FlushFault

(* The retraction takes back the row just sent and touches no other.       *)
LEMMA RetractParts ==
  ASSUME IInv, NEW f \in Flushers, FlushRetract(f)
  PROVE  \E l \in Letters :
           /\ From(l) = Home[f] /\ Row(l) = Next1(f) /\ Row(l) \in work[f]
           /\ Plus(Home[f], {}, {Row(l)})
           /\ \A e \in Domains : \A r : e # Home[f] \/ r # Row(l) =>
                /\ Weight(store'[e], r) = Weight(store[e], r)
                /\ r \in DOMAIN store'[e] <=> r \in DOMAIN store[e]
                /\ r \in DOMAIN store[e] => store'[e][r] = store[e][r]
<1>1. work[f] # {} /\ TypeOK /\ Home[f] \in Domains
  BY DEF FlushRetract, IInv, Working, Threads
<1>2. PICK l \in Letters : From(l) = Home[f] /\ Next1(f) = Row(l)
  BY <1>1, NextRow
<1>3. Next1(f) \in work[f]
  BY <1>1, NextRow
<1>4. Plus(Home[f], {}, {Row(l)})
  BY <1>2 DEF FlushRetract
<1>5. ASSUME NEW e \in Domains, NEW r, e # Home[f] \/ r # Row(l)
      PROVE  /\ Weight(store'[e], r) = Weight(store[e], r)
             /\ r \in DOMAIN store'[e] <=> r \in DOMAIN store[e]
             /\ r \in DOMAIN store[e] => store'[e][r] = store[e][r]
  BY <1>1, <1>4, <1>5, PlusFrame
<1> QED
  BY <1>2, <1>3, <1>4, <1>5

LEMMA FlushRetractStep ==
  ASSUME IInv, NEW f \in Flushers, FlushRetract(f)
  PROVE  IInv'
<1>1. PICK l \in Letters :
           /\ From(l) = Home[f] /\ Row(l) = Next1(f) /\ Row(l) \in work[f]
           /\ Plus(Home[f], {}, {Row(l)})
           /\ \A e \in Domains : \A r : e # Home[f] \/ r # Row(l) =>
                /\ Weight(store'[e], r) = Weight(store[e], r)
                /\ r \in DOMAIN store'[e] <=> r \in DOMAIN store[e]
                /\ r \in DOMAIN store[e] => store'[e][r] = store[e][r]
  BY RetractParts
<1>2. /\ TypeOK /\ f \in Threads /\ Home[f] \in Domains
      /\ UNCHANGED <<queue, number, held>>
      /\ work' = [work EXCEPT ![f] = @ \ {Row(l)}]
      /\ pc' = [pc EXCEPT ![f] = IF work[f] = {Row(l)} THEN "idle" ELSE "send"]
  BY <1>1 DEF FlushRetract, IInv, Threads
<1>3. /\ work' = [g \in Flushers |-> work'[g]] /\ work'[f] = work[f] \ {Row(l)}
      /\ pc'[f] = IF work[f] = {Row(l)} THEN "idle" ELSE "send"
      /\ \A g \in Flushers \ {f} : work'[g] = work[g] /\ pc'[g] = pc[g]
      /\ \A th \in Threads \ {f} : pc'[th] = pc[th]
  BY <1>2 DEF TypeOK, Threads
<1>4. TypeOK'
  <2>1. \A g \in Flushers : work'[g] \subseteq Outbound(Home[g])
    BY <1>2, <1>3 DEF TypeOK
  <2>2. pc' \in [Threads -> PCs]
    BY <1>2 DEF TypeOK, PCs
  <2>3. store' = [e \in Domains |-> store'[e]] /\ \A e \in Domains : Proper(store'[e])
    BY <1>1, <1>2, PlusWeight
  <2> QED BY <1>2, <1>3, <2>1, <2>2, <2>3 DEF TypeOK
<1>5. ASSUME NEW e \in Domains, NEW r, r[1] # "outbox"
      PROVE  /\ Weight(store'[e], r) = Weight(store[e], r)
             /\ r \in DOMAIN store'[e] <=> r \in DOMAIN store[e]
             /\ r \in DOMAIN store[e] => store'[e][r] = store[e][r]
  BY <1>1, <1>5, RowKinds
<1>6. ASSUME NEW g \in Letters, About(g)' PROVE About(g)
  <2>1. ASSUME InOutbox(g)' PROVE About(g)
    <3>1. CASE Row(g) = Row(l)
      <4>1. g = l
        BY <3>1, RowTells
      <4> QED BY <1>1, <4>1 DEF About, Read
    <3>2. CASE Row(g) # Row(l)
      BY <1>1, <2>1, <3>2, LetterParts DEF About, InOutbox
    <3> QED BY <3>1, <3>2
  <2>2. ASSUME Read(g)' PROVE About(g)
    <3>1. PICK k \in Flushers : Home[k] = From(g) /\ Row(g) \in work'[k]
      BY <2>2 DEF Read
    <3>2. Row(g) \in work[k]
      BY <1>3, <3>1
    <3> QED BY <3>1, <3>2 DEF About, Read
  <2> QED BY <1>2, <1>6, <2>1, <2>2 DEF About, Queued, Polled
<1>7. \A c \in Committers : pc[c] = "committed" => pc'[c] = "committed"
  BY <1>3 DEF Threads
<1>8. Apart' /\ Sent'
  BY <1>6, <1>7, CopiesFewer
<1>9. RowsKept'
  <2> SUFFICES ASSUME NEW e \in Domains, NEW r \in DOMAIN store'[e]
               PROVE  /\ r[1] = "outbox" => \E k \in Letters : From(k) = e /\ r = Row(k)
                      /\ r[1] = "outseq" => \E n \in Nat : r = OutSeq(n)
                      /\ r[1] = "seen" => store'[e][r] > 0
    BY DEF RowsKept
  <2>1. CASE e = Home[f] /\ r = Row(l)
    BY <1>1, <2>1, RowKinds
  <2>2. CASE ~ (e = Home[f] /\ r = Row(l))
    <3>1. r \in DOMAIN store[e] /\ store'[e][r] = store[e][r]
      BY <1>1, <2>2
    <3> QED BY <3>1 DEF IInv, RowsKept
  <2> QED BY <2>1, <2>2
<1>10. Numbered'
  <2> SUFFICES ASSUME NEW d \in Domains PROVE \E n \in Nat : NumberedTo(d, n)'
    BY DEF Numbered
  <2>1. PICK n \in Nat : NumberedTo(d, n)
    BY DEF IInv, Numbered
  <2>2. \A r \in DOMAIN store'[d] : r[1] = "outseq" => r = OutSeq(n)
    BY <1>5, <2>1 DEF NumberedTo
  <2>3. Weight(store'[d], OutSeq(n)) = 1
    BY <1>5, <2>1, RowKinds DEF NumberedTo
  <2>4. \A g \in Letters : From(g) = d /\ About(g)' => g.seq < n
    BY <1>6, <2>1 DEF NumberedTo
  <2>5. \A e \in Domains, k \in Nat : Seen(d, k) \in DOMAIN store'[e] => k < n
    BY <1>5, <2>1, RowKinds DEF NumberedTo
  <2> QED BY <2>2, <2>3, <2>4, <2>5 DEF NumberedTo
<1>11. Delivered'
  <2> SUFFICES ASSUME NEW d \in Domains, NEW r \in DOMAIN store'[d], r[1] = "inbox"
               PROVE  /\ store'[d][r] = 1
                      /\ \E c \in Committers : \E i \in DOMAIN Job[c].emits :
                           /\ pc'[c] = "committed"
                           /\ r = Mail(Job[c].emits[i].inbox, Job[c].emits[i].body)
    BY DEF Delivered
  <2>1. r \in DOMAIN store[d] /\ store'[d][r] = store[d][r]
    BY <1>5
  <2> QED BY <1>7, <2>1 DEF IInv, Delivered
<1>12. \A g \in Letters, e \in Domains :
         /\ Live(e, Receipted(g))' <=> Live(e, Receipted(g))
         /\ Live(e, Delivery(g))' <=> Live(e, Delivery(g))
  BY <1>5, RowKinds DEF Live
<1>13. Receipts'
  BY <1>6, <1>12, LetterParts DEF IInv, Receipts
<1>14. Holding'
  <2>1. \A r \in Receivers : pc'[r] = pc[r] /\ Home[r] \in Domains
    BY <1>3 DEF Threads
  <2> QED BY <1>2, <1>12, <2>1 DEF IInv, Holding
<1>15. Working'
  <2>1. pc'[f] \in {"idle", "send"} /\ (pc'[f] # "idle" => work'[f] # {})
    BY <1>1, <1>3
  <2> QED BY <1>3, <2>1 DEF IInv, Working
<1> QED
  BY <1>4, <1>8, <1>9, <1>10, <1>11, <1>13, <1>14, <1>15 DEF IInv

----------------------------------------------------------------------------
(* Receivers.                                                              *)

(* A poll moves the head of the queue into the receiver's hands.           *)
LEMMA PolledLetter ==
  ASSUME TypeOK, NEW r \in Receivers, Poll(r)
  PROVE  \E l \in Letters :
           /\ Post(l).to = Home[r] /\ held' = [held EXCEPT ![r] = {Env(l)}]
           /\ Queued(l)
           /\ queue' = [d \in Domains |-> queue'[d]]
           /\ \A d \in Domains : queue'[d] \in Seq(Inbound(d))
           /\ \A g \in Letters : Queued(g)' => Queued(g)
           /\ \A g \in Letters : Queued(g) => Queued(g)' \/ g = l
<1> DEFINE d == Home[r]
           q == queue[d]
<1>1. d \in Domains /\ q \in Seq(Inbound(d)) /\ q # << >>
  BY DEF Threads, TypeOK, Poll
<1>2. /\ Head(q) = q[1] /\ 1 \in DOMAIN q /\ q[1] \in Inbound(d)
      /\ Tail(q) \in Seq(Inbound(d))
      /\ \A i \in DOMAIN Tail(q) : i + 1 \in DOMAIN q /\ Tail(q)[i] = q[i + 1]
      /\ \A i \in DOMAIN q \ {1} : i - 1 \in DOMAIN Tail(q) /\ Tail(q)[i - 1] = q[i]
  <2> HIDE DEF d, q
  <2> QED BY <1>1
<1>3. PICK l \in Letters : Post(l).to = d /\ q[1] = Env(l)
  BY <1>2 DEF Inbound
<1>4. /\ queue' = [e \in Domains |-> queue'[e]] /\ queue'[d] = Tail(q)
      /\ \A e \in Domains \ {d} : queue'[e] = queue[e]
  BY <1>1 DEF TypeOK, Poll
<1>5. held' = [held EXCEPT ![r] = {Env(l)}]
  BY <1>2, <1>3 DEF Poll
<1>6. Queued(l)
  BY <1>2, <1>3 DEF Queued
<1>7. \A e \in Domains : queue'[e] \in Seq(Inbound(e))
  <2> TAKE e \in Domains
  <2>1. CASE e = d
    <3> HIDE DEF d, q
    <3> QED BY <1>2, <1>4, <2>1
  <2>2. CASE e # d
    BY <1>4, <2>2 DEF TypeOK
  <2> QED BY <2>1, <2>2
<1>8. ASSUME NEW g \in Letters, Queued(g)' PROVE Queued(g)
  <2>1. Post(g).to \in Domains
    BY LetterParts
  <2>2. PICK i \in DOMAIN queue'[Post(g).to] : queue'[Post(g).to][i] = Env(g)
    BY <1>8 DEF Queued
  <2>3. CASE Post(g).to = d
    <3>1. i + 1 \in DOMAIN q /\ q[i + 1] = Env(g)
      BY <1>2, <1>4, <2>2, <2>3
    <3> QED BY <2>3, <3>1 DEF Queued
  <2>4. CASE Post(g).to # d
    BY <1>4, <2>1, <2>2, <2>4 DEF Queued
  <2> QED BY <2>3, <2>4
<1>9. ASSUME NEW g \in Letters, Queued(g) PROVE Queued(g)' \/ g = l
  <2>1. Post(g).to \in Domains
    BY LetterParts
  <2>2. PICK i \in DOMAIN queue[Post(g).to] : queue[Post(g).to][i] = Env(g)
    BY <1>9 DEF Queued
  <2>3. CASE Post(g).to = d
    <3>1. CASE i = 1
      BY <1>3, <2>2, <2>3, <3>1, EnvTells
    <3>2. CASE i # 1
      <4>1. i - 1 \in DOMAIN queue'[d] /\ queue'[d][i - 1] = Env(g)
        BY <1>2, <1>4, <2>2, <2>3, <3>2
      <4> QED BY <2>3, <4>1 DEF Queued
    <3> QED BY <3>1, <3>2
  <2>4. CASE Post(g).to # d
    BY <1>4, <2>1, <2>2, <2>4 DEF Queued
  <2> QED BY <2>3, <2>4
<1> QED
  BY <1>3, <1>4, <1>5, <1>6, <1>7, <1>8, <1>9

LEMMA PollStep ==
  ASSUME IInv, NEW r \in Receivers, Poll(r)
  PROVE  IInv'
<1>1. TypeOK /\ r \in Threads
  BY DEF IInv, Threads
<1>2. PICK l \in Letters :
           /\ Post(l).to = Home[r] /\ held' = [held EXCEPT ![r] = {Env(l)}]
           /\ Queued(l)
           /\ queue' = [d \in Domains |-> queue'[d]]
           /\ \A d \in Domains : queue'[d] \in Seq(Inbound(d))
           /\ \A g \in Letters : Queued(g)' => Queued(g)
           /\ \A g \in Letters : Queued(g) => Queued(g)' \/ g = l
  BY <1>1, PolledLetter
<1>3. pc' = [pc EXCEPT ![r] = "seen"] /\ UNCHANGED <<store, number, work>>
  BY DEF Poll
<1>4. /\ held'[r] = {Env(l)} /\ pc'[r] = "seen"
      /\ held' = [o \in Receivers |-> held'[o]]
      /\ \A o \in Receivers \ {r} : held'[o] = held[o] /\ pc'[o] = pc[o]
      /\ \A th \in Threads \ {r} : pc'[th] = pc[th]
  BY <1>1, <1>2, <1>3 DEF TypeOK, Threads
<1>5. TypeOK'
  <2>1. \A o \in Receivers : held'[o] \subseteq Inbound(Home[o])
    BY <1>1, <1>2, <1>4 DEF TypeOK, Inbound
  <2>2. pc' \in [Threads -> PCs]
    BY <1>1, <1>3 DEF TypeOK, PCs
  <2> QED BY <1>1, <1>2, <1>3, <1>4, <2>1, <2>2 DEF TypeOK
<1>6. Holding'
  <2> SUFFICES ASSUME NEW o \in Receivers
               PROVE  /\ pc'[o] \in {"idle", "seen", "apply"}
                      /\ pc'[o] = "idle" => held'[o] = {}
                      /\ pc'[o] # "idle" => \E g \in Letters : held'[o] = {Env(g)}
                      /\ \A g \in Letters : pc'[o] = "apply" /\ Env(g) \in held'[o]
                                              => ~ Live(Home[o], Receipted(g))
    BY <1>3 DEF Holding, Live
  <2>1. CASE o = r
    BY <1>4, <2>1
  <2>2. CASE o # r
    BY <1>4, <2>2 DEF IInv, Holding
  <2> QED BY <2>1, <2>2
<1>7. Working'
  <2>1. \A f \in Flushers : pc'[f] = pc[f]
    BY <1>4 DEF Threads
  <2> QED BY <1>3, <2>1 DEF IInv, Working
<1>8. ASSUME NEW g \in Letters, About(g)' PROVE About(g)
  <2>1. ASSUME Polled(g)' PROVE About(g)
    <3>1. PICK o \in Receivers : Home[o] = Post(g).to /\ Env(g) \in held'[o]
      BY <2>1 DEF Polled
    <3>2. CASE o = r
      <4>1. g = l
        BY <1>4, <3>1, <3>2, EnvTells
      <4> QED BY <1>2, <4>1 DEF About
    <3>3. CASE o # r
      BY <1>4, <3>1, <3>3 DEF About, Polled
    <3> QED BY <3>2, <3>3
  <2> QED BY <1>2, <1>3, <1>8, <2>1 DEF About, InOutbox, Read
<1>9. \A c \in Committers : pc[c] = "committed" => pc'[c] = "committed"
  BY <1>4 DEF Threads
<1> QED
  BY <1>3, <1>5, <1>6, <1>7, <1>8, <1>9, StillStep

(* A receiver that lets go of its letter.                                  *)
LEMMA ReceiverDrops ==
  ASSUME IInv, NEW r \in Receivers, held' = [held EXCEPT ![r] = {}],
         pc' = [pc EXCEPT ![r] = "idle"], UNCHANGED <<store, queue, number, work>>
  PROVE  IInv'
<1>1. TypeOK /\ r \in Threads
  BY DEF IInv, Threads
<1>2. /\ held'[r] = {} /\ pc'[r] = "idle"
      /\ held' = [o \in Receivers |-> held'[o]]
      /\ \A o \in Receivers \ {r} : held'[o] = held[o] /\ pc'[o] = pc[o]
      /\ \A th \in Threads \ {r} : pc'[th] = pc[th]
  BY <1>1 DEF TypeOK, Threads
<1>3. TypeOK'
  <2>1. \A o \in Receivers : held'[o] \subseteq Inbound(Home[o])
    BY <1>1, <1>2 DEF TypeOK
  <2>2. pc' \in [Threads -> PCs]
    BY <1>1 DEF TypeOK, PCs
  <2> QED BY <1>1, <1>2, <2>1, <2>2 DEF TypeOK
<1>4. Holding'
  BY <1>2 DEF IInv, Holding, Live
<1>5. Working'
  <2>1. \A f \in Flushers : pc'[f] = pc[f]
    BY <1>2 DEF Threads
  <2> QED BY <2>1 DEF IInv, Working
<1>6. \A l \in Letters : About(l)' => About(l)
  BY <1>2 DEF About, InOutbox, Read, Queued, Polled
<1>7. \A c \in Committers : pc[c] = "committed" => pc'[c] = "committed"
  BY <1>2 DEF Threads
<1> QED
  BY <1>3, <1>4, <1>5, <1>6, <1>7, StillStep

LEMMA ReceiveFaultStep ==
  ASSUME IInv, NEW r \in Receivers, ReceiveFault(r)
  PROVE  IInv'
  BY ReceiverDrops DEF ReceiveFault

LEMMA SeenHoldsStep ==
  ASSUME IInv, NEW r \in Receivers, SeenHolds(r)
  PROVE  IInv'
<1>1. TypeOK /\ r \in Threads /\ pc[r] = "seen" /\ UNCHANGED <<store, queue, number, work>>
  BY DEF IInv, Threads, SeenHolds
<1>2. PICK l \in Letters : held[r] = {Env(l)}
  BY <1>1 DEF IInv, Holding
<1>3. Seen(Env(l).from, Env(l).seq) = Receipted(l)
  BY DEF Env, Receipted
<1>4. CASE Live(Home[r], Receipted(l))
  BY <1>1, <1>2, <1>3, <1>4, ReceiverDrops DEF SeenHolds
<1>5. CASE ~ Live(Home[r], Receipted(l))
  <2>1. pc' = [pc EXCEPT ![r] = "apply"] /\ UNCHANGED held
    BY <1>2, <1>3, <1>5 DEF SeenHolds
  <2>2. pc'[r] = "apply" /\ \A th \in Threads \ {r} : pc'[th] = pc[th]
    BY <1>1, <2>1 DEF TypeOK
  <2>3. TypeOK'
    <3>1. pc' \in [Threads -> PCs]
      BY <1>1, <2>1 DEF TypeOK, PCs
    <3> QED BY <1>1, <2>1, <3>1 DEF TypeOK
  <2>4. Holding'
    <3>1. \A o \in Receivers \ {r} : pc'[o] = pc[o]
      BY <2>2 DEF Threads
    <3>2. \A g \in Letters : Env(g) \in held[r] => ~ Live(Home[r], Receipted(g))
      BY <1>2, <1>5, EnvTells
    <3> SUFFICES ASSUME NEW o \in Receivers
                 PROVE  /\ pc'[o] \in {"idle", "seen", "apply"}
                        /\ pc'[o] = "idle" => held[o] = {}
                        /\ pc'[o] # "idle" => \E g \in Letters : held[o] = {Env(g)}
                        /\ \A g \in Letters : pc'[o] = "apply" /\ Env(g) \in held[o]
                                                => ~ Live(Home[o], Receipted(g))
      BY <1>1, <2>1 DEF Holding, Live
    <3>3. CASE o = r
      BY <1>2, <2>2, <3>2, <3>3
    <3>4. CASE o # r
      BY <3>1, <3>4 DEF IInv, Holding
    <3> QED BY <3>3, <3>4
  <2>5. Working'
    <3>1. \A f \in Flushers : pc'[f] = pc[f]
      BY <2>2 DEF Threads
    <3> QED BY <1>1, <3>1 DEF IInv, Working
  <2>6. \A g \in Letters : About(g)' => About(g)
    BY <1>1, <2>1 DEF About, InOutbox, Read, Queued, Polled
  <2>7. \A c \in Committers : pc[c] = "committed" => pc'[c] = "committed"
    BY <2>2 DEF Threads
  <2> QED BY <1>1, <2>3, <2>4, <2>5, <2>6, <2>7, StillStep
<1> QED
  BY <1>4, <1>5

(* The letter applied is in neither seen nor the inbox, and is put in both.*)
LEMMA ApplyParts ==
  ASSUME IInv, NEW r \in Receivers, Apply(r)
  PROVE  \E l \in Letters :
           /\ Post(l).to = Home[r] /\ About(l) /\ Polled(l)
           /\ Plus(Home[r], {Delivery(l), Receipted(l)}, {})
           /\ Weight(store'[Home[r]], Delivery(l)) = 1
           /\ Weight(store'[Home[r]], Receipted(l)) = 1
           /\ \A e \in Domains : \A t : e # Home[r] \/ t \notin {Delivery(l), Receipted(l)} =>
                /\ Weight(store'[e], t) = Weight(store[e], t)
                /\ t \in DOMAIN store'[e] <=> t \in DOMAIN store[e]
                /\ t \in DOMAIN store[e] => store'[e][t] = store[e][t]
           /\ held[r] = {Env(l)}
<1> DEFINE d == Home[r]
<1>1. TypeOK /\ d \in Domains /\ pc[r] = "apply"
  BY DEF IInv, Threads, Apply
<1>2. PICK l \in Letters : held[r] = {Env(l)}
  BY <1>1 DEF IInv, Holding
<1>3. Receipt(Env(l)) = {Delivery(l), Receipted(l)}
  BY DEF Receipt, Env, Delivery, Receipted
<1>4. Plus(d, {Delivery(l), Receipted(l)}, {})
  BY <1>2, <1>3 DEF Apply
<1>5. Post(l).to = d
  <2>1. Env(l) \in Inbound(d)
    BY <1>1, <1>2 DEF TypeOK
  <2> QED BY <2>1, EnvTells DEF Inbound
<1>6. Polled(l) /\ About(l)
  BY <1>2, <1>5 DEF About, Polled
<1>7. ~ Live(d, Receipted(l))
  BY <1>1, <1>2 DEF IInv, Holding
<1>8. ~ Live(d, Delivery(l))
  BY <1>5, <1>6, <1>7 DEF IInv, Receipts
<1>9. Weight(store[d], Receipted(l)) = 0
  <2>1. Proper(store[d])
    BY <1>1 DEF TypeOK
  <2>2. Receipted(l) \notin DOMAIN store[d]
    BY <1>1, <1>7, <2>1, RowKinds, WeightIn DEF IInv, RowsKept, Live
  <2> QED BY <2>2 DEF Weight
<1>10. Weight(store[d], Delivery(l)) = 0
  <2>1. Proper(store[d])
    BY <1>1 DEF TypeOK
  <2>2. Delivery(l) \notin DOMAIN store[d]
    BY <1>1, <1>8, <2>1, RowKinds, WeightIn DEF IInv, Delivered, Live
  <2> QED BY <2>2 DEF Weight
<1>11. \A t : Weight(store'[d], t)
               = Weight(store[d], t) + One(t \in {Delivery(l), Receipted(l)}) - One(t \in {})
  <2> DEFINE A == {Delivery(l), Receipted(l)}
             D == {}
  <2>1. Plus(d, A, D)
    BY <1>4
  <2> HIDE DEF A, D, d
  <2>2. \A t : Weight(store'[d], t) = Weight(store[d], t) + One(t \in A) - One(t \in D)
    BY <1>1, <2>1, PlusWeight
  <2> QED BY <2>2 DEF A, D
<1>12. Weight(store'[d], Delivery(l)) = 1
  <2>1. One(Delivery(l) \in {Delivery(l), Receipted(l)}) = 1 /\ One(Delivery(l) \in {}) = 0
    BY DEF One
  <2> QED BY <1>10, <1>11, <2>1
<1>13. Weight(store'[d], Receipted(l)) = 1
  <2>1. One(Receipted(l) \in {Delivery(l), Receipted(l)}) = 1 /\ One(Receipted(l) \in {}) = 0
    BY DEF One
  <2> QED BY <1>9, <1>11, <2>1
<1>14. ASSUME NEW e \in Domains, NEW t, e # d \/ t \notin {Delivery(l), Receipted(l)}
       PROVE  /\ Weight(store'[e], t) = Weight(store[e], t)
              /\ t \in DOMAIN store'[e] <=> t \in DOMAIN store[e]
              /\ t \in DOMAIN store[e] => store'[e][t] = store[e][t]
  BY <1>1, <1>4, <1>14, PlusFrame
<1> QED
  BY <1>2, <1>4, <1>5, <1>6, <1>12, <1>13, <1>14

LEMMA ApplyStep ==
  ASSUME IInv, NEW r \in Receivers, Apply(r)
  PROVE  IInv'
<1> DEFINE d == Home[r]
<1>1. PICK l \in Letters :
           /\ Post(l).to = d /\ About(l) /\ Polled(l)
           /\ Plus(d, {Delivery(l), Receipted(l)}, {})
           /\ Weight(store'[d], Delivery(l)) = 1
           /\ Weight(store'[d], Receipted(l)) = 1
           /\ \A e \in Domains : \A t : e # d \/ t \notin {Delivery(l), Receipted(l)} =>
                /\ Weight(store'[e], t) = Weight(store[e], t)
                /\ t \in DOMAIN store'[e] <=> t \in DOMAIN store[e]
                /\ t \in DOMAIN store[e] => store'[e][t] = store[e][t]
           /\ held[r] = {Env(l)}
  BY ApplyParts
<1>2. /\ TypeOK /\ r \in Threads /\ d \in Domains
      /\ held' = [held EXCEPT ![r] = {}] /\ pc' = [pc EXCEPT ![r] = "idle"]
      /\ UNCHANGED <<queue, number, work>>
  BY DEF IInv, Threads, Apply
<1>3. /\ held'[r] = {} /\ pc'[r] = "idle"
      /\ held' = [o \in Receivers |-> held'[o]]
      /\ \A o \in Receivers \ {r} : held'[o] = held[o] /\ pc'[o] = pc[o]
      /\ \A th \in Threads \ {r} : pc'[th] = pc[th]
  BY <1>2 DEF TypeOK, Threads
<1>4. store' = [e \in Domains |-> store'[e]] /\ \A e \in Domains : Proper(store'[e])
  BY <1>1, <1>2, PlusWeight
<1>5. TypeOK'
  <2>1. \A o \in Receivers : held'[o] \subseteq Inbound(Home[o])
    BY <1>2, <1>3 DEF TypeOK
  <2>2. pc' \in [Threads -> PCs]
    BY <1>2 DEF TypeOK, PCs
  <2> QED BY <1>2, <1>3, <1>4, <2>1, <2>2 DEF TypeOK
<1>6. ASSUME NEW e \in Domains, NEW t, t[1] \notin {"seen", "inbox"}
      PROVE  /\ Weight(store'[e], t) = Weight(store[e], t)
             /\ t \in DOMAIN store'[e] <=> t \in DOMAIN store[e]
             /\ t \in DOMAIN store[e] => store'[e][t] = store[e][t]
  BY <1>1, <1>6, RowKinds
<1>7. ASSUME NEW g \in Letters, About(g)' PROVE About(g)
  <2>1. InOutbox(g)' => InOutbox(g)
    BY <1>6, RowKinds, LetterParts DEF InOutbox
  <2>2. Polled(g)' => Polled(g)
    BY <1>3 DEF Polled
  <2> QED BY <1>2, <1>7, <2>1, <2>2 DEF About, Read, Queued
<1>8. \A c \in Committers : pc[c] = "committed" => pc'[c] = "committed"
  BY <1>3 DEF Threads
<1>9. Apart' /\ Sent'
  BY <1>7, <1>8, CopiesFewer
<1>10. RowsKept'
  <2> SUFFICES ASSUME NEW e \in Domains, NEW t \in DOMAIN store'[e]
               PROVE  /\ t[1] = "outbox" => \E k \in Letters : From(k) = e /\ t = Row(k)
                      /\ t[1] = "outseq" => \E n \in Nat : t = OutSeq(n)
                      /\ t[1] = "seen" => store'[e][t] > 0
    BY DEF RowsKept
  <2>1. CASE e = d /\ t = Delivery(l)
    BY <2>1, RowKinds
  <2>2. CASE e = d /\ t = Receipted(l)
    <3>1. store'[d][t] = 1
      BY <1>1, <1>2, <1>4, <2>2, WeightIn
    <3> QED BY <2>2, <3>1, RowKinds
  <2>3. CASE ~ (e = d /\ t \in {Delivery(l), Receipted(l)})
    <3>1. t \in DOMAIN store[e] /\ store'[e][t] = store[e][t]
      BY <1>1, <2>3
    <3> QED BY <3>1 DEF IInv, RowsKept
  <2> QED BY <2>1, <2>2, <2>3
<1>11. Numbered'
  <2> SUFFICES ASSUME NEW s \in Domains PROVE \E n \in Nat : NumberedTo(s, n)'
    BY DEF Numbered
  <2>1. PICK n \in Nat : NumberedTo(s, n)
    BY DEF IInv, Numbered
  <2>2. \A t \in DOMAIN store'[s] : t[1] = "outseq" => t = OutSeq(n)
    BY <1>6, <2>1 DEF NumberedTo
  <2>3. Weight(store'[s], OutSeq(n)) = 1
    BY <1>6, <2>1, RowKinds DEF NumberedTo
  <2>4. \A g \in Letters : From(g) = s /\ About(g)' => g.seq < n
    BY <1>7, <2>1 DEF NumberedTo
  <2>5. ASSUME NEW e \in Domains, NEW k \in Nat, Seen(s, k) \in DOMAIN store'[e]
        PROVE  k < n
    <3>1. CASE Seen(s, k) = Receipted(l)
      <4>1. s = From(l) /\ k = l.seq
        BY <3>1, SeenTells DEF Receipted
      <4> QED BY <1>1, <2>1, <4>1 DEF NumberedTo
    <3>2. CASE Seen(s, k) # Receipted(l)
      <4>1. Seen(s, k) # Delivery(l)
        BY RowKinds
      <4>2. Seen(s, k) \in DOMAIN store[e]
        BY <1>1, <2>5, <3>2, <4>1
      <4> QED BY <2>1, <4>2 DEF NumberedTo
    <3> QED BY <3>1, <3>2
  <2> QED BY <2>2, <2>3, <2>4, <2>5 DEF NumberedTo
<1>12. Delivered'
  <2> SUFFICES ASSUME NEW e \in Domains, NEW t \in DOMAIN store'[e], t[1] = "inbox"
               PROVE  /\ store'[e][t] = 1
                      /\ \E c \in Committers : \E i \in DOMAIN Job[c].emits :
                           /\ pc'[c] = "committed"
                           /\ t = Mail(Job[c].emits[i].inbox, Job[c].emits[i].body)
    BY DEF Delivered
  <2>1. CASE e = d /\ t = Delivery(l)
    <3>1. store'[d][t] = 1
      BY <1>1, <1>2, <1>4, <2>1, WeightIn
    <3>2. pc'[l.by] = "committed"
      BY <1>1, <1>8, LetterParts DEF IInv, Sent
    <3> QED BY <2>1, <3>1, <3>2, LetterParts DEF Delivery
  <2>2. CASE ~ (e = d /\ t = Delivery(l))
    <3>1. t # Receipted(l)
      BY RowKinds
    <3>2. t \in DOMAIN store[e] /\ store'[e][t] = store[e][t]
      BY <1>1, <2>2, <3>1
    <3> QED BY <1>8, <3>2 DEF IInv, Delivered
  <2> QED BY <2>1, <2>2
<1>13. Receipts'
  <2> SUFFICES ASSUME NEW g \in Letters, About(g)'
               PROVE  Live(Post(g).to, Receipted(g))' <=> Live(Post(g).to, Delivery(g))'
    BY DEF Receipts
  <2>1. About(g) /\ Post(g).to \in Domains
    BY <1>7, LetterParts
  <2>2. Live(Post(g).to, Receipted(g)) <=> Live(Post(g).to, Delivery(g))
    BY <2>1 DEF IInv, Receipts
  <2>3. CASE g = l
    <3>1. Live(d, Receipted(l))' /\ Live(d, Delivery(l))'
      BY <1>1 DEF Live
    <3> QED BY <1>1, <2>3, <3>1
  <2>4. CASE g # l
    <3>1. Receipted(g) # Receipted(l)
      <4> SUFFICES ASSUME Receipted(g) = Receipted(l) PROVE FALSE
        OBVIOUS
      <4>1. From(g) = From(l) /\ g.seq = l.seq
        BY SeenTells DEF Receipted
      <4> QED BY <1>1, <2>1, <2>4, <4>1 DEF IInv, Apart
    <3>2. Delivery(g) # Delivery(l)
      <4> SUFFICES ASSUME Delivery(g) = Delivery(l) PROVE FALSE
        OBVIOUS
      <4>1. Post(g).body = Post(l).body
        BY MailTells DEF Delivery
      <4>2. g.by = l.by /\ g.place = l.place
        BY <4>1, LetterParts, BodyTells
      <4> QED BY <1>1, <2>1, <2>4, <4>2 DEF IInv, Apart
    <3>3. Receipted(g) # Delivery(l) /\ Delivery(g) # Receipted(l)
      BY RowKinds
    <3>4. /\ Weight(store'[Post(g).to], Receipted(g)) = Weight(store[Post(g).to], Receipted(g))
          /\ Weight(store'[Post(g).to], Delivery(g)) = Weight(store[Post(g).to], Delivery(g))
      BY <1>1, <2>1, <3>1, <3>2, <3>3
    <3> QED BY <2>2, <3>4 DEF Live
  <2> QED BY <2>3, <2>4
<1>14. Holding'
  <2> SUFFICES ASSUME NEW o \in Receivers
               PROVE  /\ pc'[o] \in {"idle", "seen", "apply"}
                      /\ pc'[o] = "idle" => held'[o] = {}
                      /\ pc'[o] # "idle" => \E g \in Letters : held'[o] = {Env(g)}
                      /\ \A g \in Letters : pc'[o] = "apply" /\ Env(g) \in held'[o]
                                              => ~ Live(Home[o], Receipted(g))'
    BY DEF Holding
  <2>1. CASE o = r
    BY <1>3, <2>1
  <2>2. CASE o # r
    <3>1. Home[o] \in Domains /\ Home[o] # d
      BY <2>2, CrossDomainContract DEF Threads
    <3>2. \A g \in Letters : Live(Home[o], Receipted(g))' <=> Live(Home[o], Receipted(g))
      BY <1>1, <3>1 DEF Live
    <3> QED BY <1>3, <2>2, <3>2 DEF IInv, Holding
  <2> QED BY <2>1, <2>2
<1>15. Working'
  <2>1. \A f \in Flushers : pc'[f] = pc[f]
    BY <1>3 DEF Threads
  <2> QED BY <1>2, <2>1 DEF IInv, Working
<1> QED
  BY <1>5, <1>9, <1>10, <1>11, <1>12, <1>13, <1>14, <1>15 DEF IInv

----------------------------------------------------------------------------
(* Committers.                                                             *)

(* The numbers a patch draws rise with its messages' places and stay below *)
(* the counter's next value.                                               *)
LEMMA DrawnOrder ==
  ASSUME NEW c \in Committers, NEW n \in Nat
  PROVE  /\ IsFiniteSet(Remote(c)) /\ Cardinality(Remote(c)) \in Nat
         /\ Remote(c) # {} => Cardinality(Remote(c)) > 0
         /\ \A i \in Remote(c) : /\ i \in Nat /\ Drawn(c, n, i) \in Nat
                                 /\ n <= Drawn(c, n, i)
                                 /\ Drawn(c, n, i) < n + Cardinality(Remote(c))
         /\ \A i, k \in Remote(c) : Drawn(c, n, i) = Drawn(c, n, k) => i = k
<1> DEFINE Sooner(i) == {j \in Remote(c) : j < i}
<1>1. Remote(c) \subseteq 1 .. Len(Job[c].emits) /\ Len(Job[c].emits) \in Nat
  BY DEF Remote
<1>2. IsFiniteSet(Remote(c)) /\ Cardinality(Remote(c)) \in Nat
  <2> DEFINE N == Len(Job[c].emits)
  <2>1. IsFiniteSet(1 .. N)
    <3> HIDE DEF N
    <3> QED BY <1>1, FS_Interval DEF N
  <2>2. IsFiniteSet(Remote(c))
    BY <1>1, <2>1, FS_Subset
  <2> QED BY <2>2, FS_CardinalityType
<1>3. Remote(c) # {} => Cardinality(Remote(c)) > 0
  BY <1>2, FS_EmptySet
<1>4. ASSUME NEW i \in Remote(c)
      PROVE  /\ i \in Nat /\ IsFiniteSet(Sooner(i)) /\ Cardinality(Sooner(i)) \in Nat
             /\ Cardinality(Sooner(i)) < Cardinality(Remote(c))
  <2>1. i \in Nat
    BY <1>1
  <2>2. Sooner(i) \subseteq Remote(c) /\ i \notin Sooner(i)
    BY <2>1
  <2> HIDE DEF Sooner
  <2>3. Sooner(i) # Remote(c)
    BY <2>2
  <2>4. IsFiniteSet(Sooner(i)) /\ Cardinality(Sooner(i)) <= Cardinality(Remote(c))
    BY <1>2, <2>2, FS_Subset
  <2>5. Cardinality(Sooner(i)) # Cardinality(Remote(c))
    BY <1>2, <2>2, <2>3, FS_Subset
  <2>6. Cardinality(Sooner(i)) \in Nat
    BY <2>4, FS_CardinalityType
  <2> QED BY <1>2, <2>1, <2>4, <2>5, <2>6
<1>5. ASSUME NEW i \in Remote(c), NEW k \in Remote(c), i < k
      PROVE  Cardinality(Sooner(i)) < Cardinality(Sooner(k))
  <2>1. i \in Nat /\ k \in Nat
    BY <1>4
  <2>2. Sooner(i) \subseteq Sooner(k) /\ i \in Sooner(k) /\ i \notin Sooner(i)
    <3>1. \A j \in Remote(c) : j \in Nat
      BY <1>4
    <3>2. \A j \in Remote(c) : j < i => j < k
      BY <1>5, <2>1, <3>1
    <3>3. Sooner(i) \subseteq Sooner(k)
      BY <3>2
    <3>4. i \in Sooner(k) /\ i \notin Sooner(i)
      BY <1>5, <2>1
    <3> QED BY <3>3, <3>4
  <2> HIDE DEF Sooner
  <2>3. Sooner(i) # Sooner(k)
    BY <2>2
  <2>4. IsFiniteSet(Sooner(k)) /\ Cardinality(Sooner(k)) \in Nat /\ Cardinality(Sooner(i)) \in Nat
    BY <1>4
  <2>5. Cardinality(Sooner(i)) <= Cardinality(Sooner(k))
    BY <2>2, <2>4, FS_Subset
  <2>6. Cardinality(Sooner(i)) # Cardinality(Sooner(k))
    BY <2>2, <2>3, <2>4, FS_Subset
  <2> QED BY <2>4, <2>5, <2>6
<1>6. \A i \in Remote(c) : Drawn(c, n, i) = n + Cardinality(Sooner(i))
  BY DEF Drawn
<1> HIDE DEF Sooner
<1>7. \A i \in Remote(c) : /\ i \in Nat /\ Drawn(c, n, i) \in Nat
                           /\ n <= Drawn(c, n, i)
                           /\ Drawn(c, n, i) < n + Cardinality(Remote(c))
  BY <1>2, <1>4, <1>6
<1>8. ASSUME NEW i \in Remote(c), NEW k \in Remote(c), Drawn(c, n, i) = Drawn(c, n, k)
      PROVE  i = k
  <2>1. /\ Cardinality(Sooner(i)) \in Nat /\ Cardinality(Sooner(k)) \in Nat
        /\ i \in Nat /\ k \in Nat
    BY <1>4
  <2>2. Cardinality(Sooner(i)) = Cardinality(Sooner(k))
    BY <1>6, <1>8, <2>1
  <2>3. ~ (i < k) /\ ~ (k < i)
    BY <1>5, <2>1, <2>2
  <2> QED BY <2>1, <2>3
<1> QED
  BY <1>2, <1>3, <1>7, <1>8

(* A patch's own rows and its local messages: no outbox, counter or seen   *)
(* row, and no letter's delivery.                                          *)
LEMMA BaseRows ==
  ASSUME NEW c \in Committers
  PROVE  /\ \A t \in BaseAdds(c) : t[1] \notin {"outbox", "outseq", "seen"}
         /\ \A t \in BaseAdds(c) : t[1] = "inbox" =>
              \E i \in DOMAIN Job[c].emits \ Remote(c) :
                t = Mail(Job[c].emits[i].inbox, Job[c].emits[i].body)
         /\ \A t \in Job[c].dels : t[1] \notin OwnRelations
         /\ \A l \in Letters : Delivery(l) \notin BaseAdds(c)
<1>1. \A t \in Job[c].adds \cup Job[c].dels : t[1] \notin OwnRelations
  BY CrossDomainContract
<1>2. ASSUME NEW t \in BaseAdds(c)
      PROVE  \/ t \in Job[c].adds
             \/ \E i \in DOMAIN Job[c].emits \ Remote(c) :
                  t = Mail(Job[c].emits[i].inbox, Job[c].emits[i].body)
  <2>1. CASE t \in Job[c].adds
    BY <2>1
  <2>2. CASE t \notin Job[c].adds
    <3>1. PICK m \in Range(Job[c].emits) : ~ IsRemote(Home[c], m) /\ t = Mail(m.inbox, m.body)
      BY <2>2 DEF BaseAdds
    <3>2. PICK i \in DOMAIN Job[c].emits : m = Job[c].emits[i]
      BY DEF Range
    <3>3. i \notin Remote(c)
      BY <3>1, <3>2 DEF Remote
    <3> QED BY <3>1, <3>2, <3>3
  <2> QED BY <2>1, <2>2
<1>3. \A t \in BaseAdds(c) : t[1] \notin {"outbox", "outseq", "seen"}
  <2> TAKE t \in BaseAdds(c)
  <2>1. CASE t \in Job[c].adds
    BY <1>1, <2>1 DEF OwnRelations
  <2>2. CASE t \notin Job[c].adds
    <3>1. t[1] = "inbox"
      BY <1>2, <2>2, RowKinds
    <3> QED BY <3>1
  <2> QED BY <2>1, <2>2
<1>4. \A t \in BaseAdds(c) : t[1] = "inbox" =>
        \E i \in DOMAIN Job[c].emits \ Remote(c) :
          t = Mail(Job[c].emits[i].inbox, Job[c].emits[i].body)
  BY <1>1, <1>2 DEF OwnRelations
<1>5. ASSUME NEW l \in Letters, Delivery(l) \in BaseAdds(c) PROVE FALSE
  <2>1. PICK i \in DOMAIN Job[c].emits \ Remote(c) :
          Delivery(l) = Mail(Job[c].emits[i].inbox, Job[c].emits[i].body)
    BY <1>4, <1>5, RowKinds
  <2>2. Post(l).body = Job[c].emits[i].body
    BY <2>1, MailTells DEF Delivery
  <2>3. l.by = c /\ l.place = i
    BY <2>2, BodyTells
  <2> QED BY <2>1, <2>3, LetterParts
<1> QED
  BY <1>1, <1>3, <1>4, <1>5

(* A commit that writes X and takes back Y besides the patch's own rows.   *)
Commits(c, X, Y) ==
  /\ Plus(Home[c], BaseAdds(c) \cup X, Job[c].dels \cup Y)
  /\ pc[c] # "committed" /\ pc' = [pc EXCEPT ![c] = "committed"]

(* What a commit does besides its outbox and counter rows.                 *)
LEMMA CommitFrame ==
  ASSUME IInv, NEW c \in Committers, NEW X, NEW Y, Commits(c, X, Y),
         \A t \in X : t[1] \in {"outbox", "outseq"}, \A t \in Y : t[1] = "outseq"
  PROVE  /\ \A e \in Domains : \A t :
              t[1] \in {"seen", "outbox", "outseq"} /\ (e # Home[c] \/ t \notin X \cup Y) =>
                /\ Weight(store'[e], t) = Weight(store[e], t)
                /\ t \in DOMAIN store'[e] <=> t \in DOMAIN store[e]
                /\ t \in DOMAIN store[e] => store'[e][t] = store[e][t]
         /\ \A e \in Domains, l \in Letters :
              Weight(store'[e], Delivery(l)) = Weight(store[e], Delivery(l))
         /\ Delivered'
<1> DEFINE d == Home[c]
           A == BaseAdds(c) \cup X
           D == Job[c].dels \cup Y
<1>1. /\ TypeOK /\ d \in Domains /\ Plus(d, A, D) /\ c \in Threads
      /\ pc[c] # "committed" /\ pc' = [pc EXCEPT ![c] = "committed"]
  BY DEF IInv, Threads, Commits
<1>2. \A t \in BaseAdds(c) : t[1] \notin {"outbox", "outseq", "seen"}
  BY BaseRows
<1>3. \A t \in BaseAdds(c) : t[1] = "inbox" =>
        \E i \in DOMAIN Job[c].emits \ Remote(c) :
          t = Mail(Job[c].emits[i].inbox, Job[c].emits[i].body)
  BY BaseRows
<1>4. \A t \in Job[c].dels : t[1] \notin {"outbox", "outseq", "seen", "inbox"}
  BY BaseRows DEF OwnRelations
<1>5. \A l \in Letters : Delivery(l) \notin BaseAdds(c)
  BY BaseRows
<1>6. \A t \in X : t[1] # "seen" /\ t[1] # "inbox"
  OBVIOUS
<1>7. \A t \in Y : t[1] # "seen" /\ t[1] # "inbox"
  OBVIOUS
<1>8. ASSUME NEW e \in Domains, NEW t, e # d \/ (t \notin A /\ t \notin D)
      PROVE  /\ Weight(store'[e], t) = Weight(store[e], t)
             /\ t \in DOMAIN store'[e] <=> t \in DOMAIN store[e]
             /\ t \in DOMAIN store[e] => store'[e][t] = store[e][t]
  <2> HIDE DEF d, A, D
  <2> QED BY <1>1, <1>8, PlusFrame
<1>9. ASSUME NEW e \in Domains, NEW t, t[1] \in {"seen", "outbox", "outseq"},
             e # d \/ t \notin X \cup Y
      PROVE  /\ Weight(store'[e], t) = Weight(store[e], t)
             /\ t \in DOMAIN store'[e] <=> t \in DOMAIN store[e]
             /\ t \in DOMAIN store[e] => store'[e][t] = store[e][t]
  <2>1. t \notin BaseAdds(c) /\ t \notin Job[c].dels
    BY <1>2, <1>4, <1>9
  <2> QED BY <1>8, <1>9, <2>1
<1>10. ASSUME NEW e \in Domains, NEW l \in Letters
       PROVE  Weight(store'[e], Delivery(l)) = Weight(store[e], Delivery(l))
  <2>1. Delivery(l) \notin A /\ Delivery(l) \notin D
    BY <1>4, <1>5, <1>6, <1>7, RowKinds
  <2> QED BY <1>8, <2>1
<1>11. pc'[c] = "committed" /\ \A th \in Threads \ {c} : pc'[th] = pc[th]
  BY <1>1 DEF TypeOK
<1>12. \A e \in Committers : pc[e] = "committed" => pc'[e] = "committed"
  BY <1>11 DEF Threads
<1>13. Delivered'
  <2> SUFFICES ASSUME NEW e \in Domains, NEW t \in DOMAIN store'[e], t[1] = "inbox"
               PROVE  /\ store'[e][t] = 1
                      /\ \E p \in Committers : \E i \in DOMAIN Job[p].emits :
                           /\ pc'[p] = "committed"
                           /\ t = Mail(Job[p].emits[i].inbox, Job[p].emits[i].body)
    BY DEF Delivered
  <2>1. t \notin D /\ t \notin X
    BY <1>4, <1>6, <1>7
  <2>2. CASE e = d /\ t \in BaseAdds(c)
    <3>1. PICK i \in DOMAIN Job[c].emits \ Remote(c) :
            t = Mail(Job[c].emits[i].inbox, Job[c].emits[i].body)
      BY <1>3, <2>2
    <3>2. t \notin DOMAIN store[d]
      <4> SUFFICES ASSUME t \in DOMAIN store[d] PROVE FALSE
        OBVIOUS
      <4>1. PICK p \in Committers : \E j \in DOMAIN Job[p].emits :
              /\ pc[p] = "committed"
              /\ t = Mail(Job[p].emits[j].inbox, Job[p].emits[j].body)
        BY <1>1 DEF IInv, Delivered
      <4>2. PICK j \in DOMAIN Job[p].emits :
              t = Mail(Job[p].emits[j].inbox, Job[p].emits[j].body)
        BY <4>1
      <4>3. Job[p].emits[j].body = Job[c].emits[i].body
        BY <3>1, <4>2 DEF Mail
      <4>4. p = c
        BY <4>3, BodiesNameMessages
      <4> QED BY <1>1, <4>1, <4>4
    <3>3. Weight(store[d], t) = 0
      BY <3>2 DEF Weight
    <3>4. One(t \in A) = 1 /\ One(t \in D) = 0
      BY <2>1, <2>2 DEF One
    <3>5. Weight(store'[d], t) = 1
      <4>1. \A r : Weight(store'[d], r) = Weight(store[d], r) + One(r \in A) - One(r \in D)
        <5> HIDE DEF d, A, D
        <5> QED BY <1>1, PlusWeight
      <4>2. Weight(store'[d], t) = Weight(store[d], t) + One(t \in A) - One(t \in D)
        BY <4>1
      <4> HIDE DEF d, A, D
      <4> QED BY <3>3, <3>4, <4>2
    <3>6. Proper(store'[d])
      <4> HIDE DEF d, A, D
      <4> QED BY <1>1, PlusWeight
    <3>7. store'[d][t] = 1
      BY <2>2, <3>5, <3>6, WeightIn
    <3> QED BY <1>11, <2>2, <3>1, <3>7
  <2>3. CASE ~ (e = d /\ t \in BaseAdds(c))
    <3>1. t \in DOMAIN store[e] /\ store'[e][t] = store[e][t]
      BY <1>8, <2>1, <2>3
    <3> QED BY <1>12, <3>1 DEF IInv, Delivered
  <2> QED BY <2>2, <2>3
<1> QED
  BY <1>9, <1>10, <1>13

(* A commit keeps the invariant if its outbox and counter rows do.         *)
LEMMA CommitStep ==
  ASSUME IInv, NEW c \in Committers, NEW X, NEW Y,
         Commits(c, X, Y),
         \A t \in X : \/ \E l \in Letters : From(l) = Home[c] /\ t = Row(l)
                      \/ \E n \in Nat : t = OutSeq(n),
         \A t \in Y : t[1] = "outseq",
         number' \in [Committers -> SUBSET Nat], UNCHANGED <<queue, work, held>>,
         Numbered', Apart',
         \A l \in Letters : About(l)' =>
            About(l) \/ (l.by = c /\ ~ Live(Post(l).to, Receipted(l)))
  PROVE  IInv'
<1> DEFINE d == Home[c]
<1>1. /\ TypeOK /\ d \in Domains /\ c \in Threads
      /\ Plus(d, BaseAdds(c) \cup X, Job[c].dels \cup Y)
      /\ pc[c] # "committed" /\ pc' = [pc EXCEPT ![c] = "committed"]
  BY DEF IInv, Threads, Commits
<1>2. \A t \in X : t[1] \in {"outbox", "outseq"}
  BY RowKinds
<1>3. /\ \A e \in Domains : \A t :
           t[1] \in {"seen", "outbox", "outseq"} /\ (e # d \/ t \notin X \cup Y) =>
             /\ Weight(store'[e], t) = Weight(store[e], t)
             /\ t \in DOMAIN store'[e] <=> t \in DOMAIN store[e]
             /\ t \in DOMAIN store[e] => store'[e][t] = store[e][t]
      /\ \A e \in Domains, l \in Letters :
           Weight(store'[e], Delivery(l)) = Weight(store[e], Delivery(l))
      /\ Delivered'
  <2>1. Commits(c, X, Y) /\ \A t \in Y : t[1] = "outseq"
    OBVIOUS
  <2> QED BY <1>2, <2>1, CommitFrame
<1>4. pc'[c] = "committed" /\ \A th \in Threads \ {c} : pc'[th] = pc[th]
  BY <1>1 DEF TypeOK
<1>5. TypeOK'
  <2>1. store' = [e \in Domains |-> store'[e]] /\ \A e \in Domains : Proper(store'[e])
    BY <1>1, PlusWeight
  <2>2. pc' \in [Threads -> PCs]
    BY <1>1 DEF TypeOK, PCs
  <2> QED BY <1>1, <2>1, <2>2 DEF TypeOK
<1>6. \A e \in Domains : \A t : t[1] = "seen" => Weight(store'[e], t) = Weight(store[e], t)
  <2> SUFFICES ASSUME NEW e \in Domains, NEW t, t[1] = "seen"
               PROVE  Weight(store'[e], t) = Weight(store[e], t)
    OBVIOUS
  <2>1. t \notin X \cup Y
    BY <1>2
  <2> QED BY <1>3, <2>1
<1>7. Sent'
  <2> SUFFICES ASSUME NEW l \in Letters, About(l)' PROVE pc'[l.by] = "committed"
    BY DEF Sent
  <2>1. l.by = c \/ (l.by \in Threads \ {c} /\ About(l))
    BY LetterParts DEF Threads
  <2> QED BY <1>4, <2>1 DEF IInv, Sent
<1>8. RowsKept'
  <2> SUFFICES ASSUME NEW e \in Domains, NEW t \in DOMAIN store'[e]
               PROVE  /\ t[1] = "outbox" => \E k \in Letters : From(k) = e /\ t = Row(k)
                      /\ t[1] = "outseq" => \E n \in Nat : t = OutSeq(n)
                      /\ t[1] = "seen" => store'[e][t] > 0
    BY DEF RowsKept
  <2>1. CASE e = d /\ t \in X
    BY <2>1, RowKinds
  <2>2. CASE ~ (e = d /\ t \in X)
    <3>1. ASSUME t[1] = "seen" PROVE store'[e][t] > 0
      <4>1. t \notin X \cup Y
        BY <1>2, <3>1
      <4>2. t \in DOMAIN store[e] /\ store'[e][t] = store[e][t]
        BY <1>3, <3>1, <4>1
      <4> QED BY <3>1, <4>2 DEF IInv, RowsKept
    <3>2. ASSUME t[1] = "outbox" PROVE \E k \in Letters : From(k) = e /\ t = Row(k)
      <4>1. t \notin Y
        BY <3>2
      <4>2. t \in DOMAIN store[e]
        BY <1>3, <2>2, <3>2, <4>1
      <4> QED BY <3>2, <4>2 DEF IInv, RowsKept
    <3>3. ASSUME t[1] = "outseq" PROVE \E n \in Nat : t = OutSeq(n)
      <4>1. PICK n \in Nat : NumberedTo(e, n)'
        BY DEF Numbered
      <4> QED BY <3>3, <4>1 DEF NumberedTo
    <3> QED BY <3>1, <3>2, <3>3
  <2> QED BY <2>1, <2>2
<1>9. Receipts'
  <2> SUFFICES ASSUME NEW l \in Letters, About(l)'
               PROVE  Live(Post(l).to, Receipted(l))' <=> Live(Post(l).to, Delivery(l))'
    BY DEF Receipts
  <2>1. Post(l).to \in Domains
    BY LetterParts
  <2>2. /\ Live(Post(l).to, Receipted(l))' <=> Live(Post(l).to, Receipted(l))
        /\ Live(Post(l).to, Delivery(l))' <=> Live(Post(l).to, Delivery(l))
    BY <1>3, <1>6, <2>1, RowKinds DEF Live
  <2>3. CASE About(l)
    BY <2>2, <2>3 DEF IInv, Receipts
  <2>4. CASE l.by = c /\ ~ Live(Post(l).to, Receipted(l))
    <3>1. ~ Live(Post(l).to, Delivery(l))
      <4> SUFFICES ASSUME Live(Post(l).to, Delivery(l)) PROVE FALSE
        OBVIOUS
      <4>1. Delivery(l) \in DOMAIN store[Post(l).to]
        BY DEF Live, Weight
      <4>2. PICK p \in Committers : \E j \in DOMAIN Job[p].emits :
              /\ pc[p] = "committed"
              /\ Delivery(l) = Mail(Job[p].emits[j].inbox, Job[p].emits[j].body)
        BY <2>1, <4>1, RowKinds DEF IInv, Delivered
      <4>3. PICK j \in DOMAIN Job[p].emits :
              Delivery(l) = Mail(Job[p].emits[j].inbox, Job[p].emits[j].body)
        BY <4>2
      <4>4. Post(l).body = Job[p].emits[j].body
        BY <4>3, MailTells DEF Delivery
      <4>5. l.by = p
        BY <4>4, BodyTells
      <4> QED BY <1>1, <2>4, <4>2, <4>5
    <3> QED BY <2>2, <2>4, <3>1
  <2> QED BY <2>3, <2>4
<1>10. Holding'
  <2>1. \A r \in Receivers : pc'[r] = pc[r] /\ Home[r] \in Domains
    BY <1>4 DEF Threads
  <2>2. \A r \in Receivers, l \in Letters :
          Live(Home[r], Receipted(l))' <=> Live(Home[r], Receipted(l))
    BY <1>6, <2>1, RowKinds DEF Live
  <2> QED BY <2>1, <2>2 DEF IInv, Holding
<1>11. Working'
  <2>1. \A f \in Flushers : pc'[f] = pc[f]
    BY <1>4 DEF Threads
  <2> QED BY <2>1 DEF IInv, Working
<1> QED
  BY <1>3, <1>5, <1>7, <1>8, <1>9, <1>10, <1>11 DEF IInv

LEMMA LocalCommits ==
  ASSUME IInv, NEW c \in Committers, CommitLocal(c), AllHold(c)
  PROVE  Commits(c, {}, {})
<1>1. BaseAdds(c) \cup {} = BaseAdds(c) /\ Job[c].dels \cup {} = Job[c].dels
  OBVIOUS
<1>2. Plus(Home[c], BaseAdds(c) \cup {}, Job[c].dels \cup {})
  BY <1>1, Zenon DEF CommitLocal
<1> QED BY <1>2 DEF Commits, CommitLocal

LEMMA CommitLocalStep ==
  ASSUME IInv, NEW c \in Committers, CommitLocal(c)
  PROVE  IInv'
<1>1. TypeOK /\ c \in Threads /\ pc[c] = "start" /\ UNCHANGED <<queue, number, work, held>>
  BY DEF IInv, Threads, CommitLocal
<1>2. number' \in [Committers -> SUBSET Nat]
  BY <1>1 DEF TypeOK
<1>3. CASE AllHold(c)
  <2>1. Commits(c, {}, {})
    BY <1>3, LocalCommits
  <2> DEFINE E == {}
  <2>2. Commits(c, E, E) /\ (\A t \in E : FALSE)
    BY <2>1
  <2> HIDE DEF E
  <2>3. /\ \A e \in Domains : \A t : t[1] \in {"seen", "outbox", "outseq"} =>
             /\ Weight(store'[e], t) = Weight(store[e], t)
             /\ t \in DOMAIN store'[e] <=> t \in DOMAIN store[e]
    BY <2>2, CommitFrame
  <2>4. \A l \in Letters : About(l)' => About(l)
    <3>1. \A l \in Letters : InOutbox(l)' => InOutbox(l)
      BY <2>3, RowKinds, LetterParts DEF InOutbox
    <3> QED BY <1>1, <3>1 DEF About, Read, Queued, Polled
  <2>5. Apart'
    BY <2>4 DEF IInv, Apart
  <2>6. Numbered'
    <3> SUFFICES ASSUME NEW s \in Domains PROVE \E n \in Nat : NumberedTo(s, n)'
      BY DEF Numbered
    <3>1. PICK n \in Nat : NumberedTo(s, n)
      BY DEF IInv, Numbered
    <3>2. \A t \in DOMAIN store'[s] : t[1] = "outseq" => t = OutSeq(n)
      BY <2>3, <3>1 DEF NumberedTo
    <3>3. Weight(store'[s], OutSeq(n)) = 1
      BY <2>3, <3>1, RowKinds DEF NumberedTo
    <3>4. \A g \in Letters : From(g) = s /\ About(g)' => g.seq < n
      BY <2>4, <3>1 DEF NumberedTo
    <3>5. \A e \in Domains, k \in Nat : Seen(s, k) \in DOMAIN store'[e] => k < n
      BY <2>3, <3>1, RowKinds DEF NumberedTo
    <3> QED BY <3>2, <3>3, <3>4, <3>5 DEF NumberedTo
  <2> QED BY <1>1, <1>2, <2>2, <2>4, <2>5, <2>6, CommitStep
<1>4. CASE ~ AllHold(c)
  <2>1. pc' = [pc EXCEPT ![c] = "rejected"] /\ UNCHANGED store
    BY <1>4 DEF CommitLocal
  <2>2. pc' = [pc EXCEPT ![c] = pc'[c]] /\ pc'[c] = "rejected"
    BY <1>1, <2>1 DEF TypeOK
  <2> QED BY <1>1, <1>2, <2>1, <2>2, QuietStep DEF PCs
<1> QED
  BY <1>3, <1>4

(* The letters a patch posts under the numbers from n on.                  *)
New(c, n, i) == [by |-> c, place |-> i, seq |-> Drawn(c, n, i)]

LEMMA NewLetters ==
  ASSUME NEW c \in Committers, NEW n \in Nat, NEW i \in Remote(c)
  PROVE  /\ New(c, n, i) \in Letters
         /\ New(c, n, i).by = c /\ New(c, n, i).place = i
         /\ New(c, n, i).seq = Drawn(c, n, i)
         /\ From(New(c, n, i)) = Home[c]
         /\ Row(New(c, n, i)) = OutRow(Drawn(c, n, i), Posted(c, i))
<1>1. New(c, n, i) \in Letters
  BY DrawnOrder, LetterMade DEF New
<1> QED
  BY <1>1 DEF New, From, Row, Post

(* A commit with mail for other domains draws its numbers from the row it  *)
(* read, or loses the race for it.                                         *)
LEMMA MailOutcome ==
  ASSUME IInv, NEW c \in Committers, CommitMail(c)
  PROVE  \/ UNCHANGED store /\ pc' = [pc EXCEPT ![c] = "lost"]
         \/ \E n \in Nat : /\ NumberedTo(Home[c], n)
                           /\ Commits(c, Sealed(c, n).adds, Sealed(c, n).dels)
<1>1. /\ TypeOK /\ pc[c] = "commit" /\ Home[c] \in Domains
  BY DEF IInv, CommitMail, Threads
<1>2. PICK n \in number[c] :
        IF AllHold(c) /\ \A r \in Sealed(c, n).pre : Live(Home[c], r)
        THEN /\ Plus(Home[c], BaseAdds(c) \cup Sealed(c, n).adds,
                     Job[c].dels \cup Sealed(c, n).dels)
             /\ pc' = [pc EXCEPT ![c] = "committed"]
        ELSE /\ pc' = [pc EXCEPT ![c] = "lost"] /\ UNCHANGED store
  BY DEF CommitMail
<1>3. n \in Nat
  BY <1>1 DEF TypeOK
<1>4. CASE AllHold(c) /\ \A r \in Sealed(c, n).pre : Live(Home[c], r)
  <2>1. Commits(c, Sealed(c, n).adds, Sealed(c, n).dels)
    BY <1>1, <1>2, <1>4 DEF Commits
  <2>2. Live(Home[c], OutSeq(n))
    BY <1>4 DEF Sealed
  <2>3. OutSeq(n) \in DOMAIN store[Home[c]]
    BY <2>2 DEF Live, Weight
  <2>4. PICK k \in Nat : NumberedTo(Home[c], k)
    BY <1>1 DEF IInv, Numbered
  <2>5. OutSeq(n) = OutSeq(k)
    BY <2>3, <2>4, RowKinds DEF NumberedTo
  <2>6. n = k
    BY <2>5, OutSeqTells
  <2> QED BY <1>3, <2>1, <2>4, <2>6
<1>5. CASE ~ (AllHold(c) /\ \A r \in Sealed(c, n).pre : Live(Home[c], r))
  BY <1>2, <1>5
<1> QED
  BY <1>4, <1>5

(* The counter row it takes back is the only one, and makes room for the   *)
(* next.                                                                   *)
LEMMA CounterMoves ==
  ASSUME IInv, NEW c \in Committers, NEW n \in Nat, NumberedTo(Home[c], n),
         Commits(c, Sealed(c, n).adds, Sealed(c, n).dels)
  PROVE  /\ \A t \in DOMAIN store'[Home[c]] : t[1] = "outseq" =>
              t = OutSeq(n + Cardinality(Remote(c)))
         /\ Weight(store'[Home[c]], OutSeq(n + Cardinality(Remote(c)))) = 1
<1> DEFINE d == Home[c]
           Next2 == OutSeq(n + Cardinality(Remote(c)))
           Out == {OutRow(Drawn(c, n, i), Posted(c, i)) : i \in Remote(c)}
           A == BaseAdds(c) \cup (Out \cup {Next2})
           D == Job[c].dels \cup {OutSeq(n)}
<1>1. TypeOK /\ d \in Domains /\ Plus(d, A, D)
  BY DEF IInv, Threads, Commits, Sealed
<1>2. \A t : Weight(store'[d], t) = Weight(store[d], t) + One(t \in A) - One(t \in D)
  <2> HIDE DEF d, A, D
  <2> QED BY <1>1, PlusWeight
<1>3. Proper(store[d]) /\ Proper(store'[d])
  <2> HIDE DEF d, A, D
  <2> QED BY <1>1, PlusWeight DEF TypeOK
<1>4. ASSUME NEW t, t[1] = "outseq"
      PROVE  /\ t \in A <=> t = Next2
             /\ t \in D <=> t = OutSeq(n)
  <2>1. t \notin BaseAdds(c) /\ t \notin Job[c].dels
    BY <1>4, BaseRows DEF OwnRelations
  <2>2. t \notin Out
    BY <1>4, RowKinds
  <2> HIDE DEF Out, Next2
  <2> QED BY <2>1, <2>2
<1>5. ASSUME NEW t, t[1] = "outseq"
      PROVE  Weight(store'[d], t) = One(t = Next2)
  <2>1. Weight(store[d], t) = One(t = OutSeq(n))
    <3>1. CASE t = OutSeq(n)
      BY <3>1 DEF NumberedTo, One
    <3>2. CASE t # OutSeq(n)
      <4>1. t \notin DOMAIN store[d]
        BY <1>5, <3>2 DEF NumberedTo
      <4> QED BY <3>2, <4>1 DEF Weight, One
    <3> QED BY <3>1, <3>2
  <2>2. One(t \in A) = One(t = Next2) /\ One(t \in D) = One(t = OutSeq(n))
    BY <1>4, <1>5 DEF One
  <2>3. One(t = Next2) \in Int /\ One(t = OutSeq(n)) \in Int
    BY DEF One
  <2>4. Weight(store'[d], t) = Weight(store[d], t) + One(t \in A) - One(t \in D)
    BY <1>2
  <2> HIDE DEF d, A, D, Next2
  <2> QED BY <2>1, <2>2, <2>3, <2>4
<1>6. Weight(store'[d], Next2) = 1
  <2>1. Next2[1] = "outseq"
    BY RowKinds
  <2>2. Weight(store'[d], Next2) = One(Next2 = Next2)
    BY <1>5, <2>1
  <2> QED BY <2>2 DEF One
<1>7. ASSUME NEW t \in DOMAIN store'[d], t[1] = "outseq" PROVE t = Next2
  <2>1. Weight(store'[d], t) # 0
    BY <1>3, WeightIn
  <2>2. Weight(store'[d], t) = One(t = Next2)
    BY <1>5, <1>7
  <2> HIDE DEF Next2
  <2> QED BY <2>1, <2>2 DEF One
<1> QED
  BY <1>6, <1>7

(* The mail of a patch goes out under numbers of its own.                  *)
LEMMA MailCommitted ==
  ASSUME IInv, NEW c \in Committers, NEW n \in Nat, NumberedTo(Home[c], n),
         Commits(c, Sealed(c, n).adds, Sealed(c, n).dels),
         number' \in [Committers -> SUBSET Nat], UNCHANGED <<queue, work, held>>
  PROVE  IInv'
<1> DEFINE d == Home[c]
           K == Cardinality(Remote(c))
           Out == {OutRow(Drawn(c, n, i), Posted(c, i)) : i \in Remote(c)}
           X == Out \cup {OutSeq(n + K)}
           Y == {OutSeq(n)}
<1>1. TypeOK /\ d \in Domains /\ c \in Threads /\ K \in Nat /\ pc[c] # "committed"
  BY DrawnOrder DEF IInv, Threads, Commits
<1>2. Commits(c, X, Y)
  BY DEF Sealed
<1>3. ASSUME NEW t \in Out
      PROVE  \E i \in Remote(c) : t = Row(New(c, n, i))
  BY NewLetters
<1>4. \A t \in X : \/ \E l \in Letters : From(l) = d /\ t = Row(l)
                   \/ \E k \in Nat : t = OutSeq(k)
  <2>1. n + K \in Nat
    BY <1>1
  <2> QED BY <1>3, <2>1, NewLetters
<1>5. (\A t \in X : t[1] \in {"outbox", "outseq"}) /\ (\A t \in Y : t[1] = "outseq")
  BY <1>4, RowKinds
<1>6. \A e \in Domains : \A t :
        t[1] \in {"seen", "outbox", "outseq"} /\ (e # d \/ t \notin X \cup Y) =>
          /\ Weight(store'[e], t) = Weight(store[e], t)
          /\ t \in DOMAIN store'[e] <=> t \in DOMAIN store[e]
  <2> HIDE DEF X, Y, d
  <2> QED BY <1>2, <1>5, CommitFrame DEF d
<1>7. \A l \in Letters : l.by = c => ~ About(l)
  BY <1>1 DEF IInv, Sent
<1>8. ASSUME NEW l \in Letters, About(l)'
      PROVE  About(l) \/ \E i \in Remote(c) : l = New(c, n, i)
  <2>1. ASSUME InOutbox(l)' PROVE InOutbox(l) \/ \E i \in Remote(c) : l = New(c, n, i)
    <3>1. CASE From(l) = d /\ Row(l) \in X
      <4>1. Row(l) \in Out
        BY <3>1, RowKinds
      <4>2. PICK i \in Remote(c) : Row(l) = Row(New(c, n, i))
        BY <1>3, <4>1
      <4> QED BY <4>2, NewLetters, RowTells
    <3>2. CASE ~ (From(l) = d /\ Row(l) \in X)
      <4>1. Row(l) \notin Y
        BY RowKinds
      <4> QED BY <1>6, <2>1, <3>2, <4>1, RowKinds, LetterParts DEF InOutbox
    <3> QED BY <3>1, <3>2
  <2> QED BY <1>8, <2>1 DEF About, Read, Queued, Polled
<1>9. \A l \in Letters : From(l) = d /\ About(l) => l.seq < n
  BY DEF NumberedTo
<1>10. \A e \in Domains, k \in Nat : Seen(d, k) \in DOMAIN store[e] => k < n
  BY DEF NumberedTo
<1>11. Apart'
  <2> SUFFICES ASSUME NEW l \in Letters, NEW g \in Letters, About(l)', About(g)'
               PROVE  /\ From(l) = From(g) /\ l.seq = g.seq => l = g
                      /\ l.by = g.by /\ l.place = g.place => l = g
    BY DEF Apart
  <2>1. ASSUME NEW i \in Remote(c), NEW h \in Letters, About(h)
        PROVE  /\ h.by # c
               /\ From(h) = d => h.seq # Drawn(c, n, i)
    <3>1. From(h) = d => h.seq \in Nat /\ h.seq < n
      BY <1>9, <2>1, LetterParts
    <3>2. Drawn(c, n, i) \in Nat /\ n <= Drawn(c, n, i)
      BY DrawnOrder
    <3> QED BY <1>7, <2>1, <3>1, <3>2
  <2>2. CASE About(l) /\ About(g)
    BY <2>2 DEF IInv, Apart
  <2>3. CASE About(l) /\ ~ About(g)
    <3>1. PICK i \in Remote(c) : g = New(c, n, i)
      BY <1>8, <2>3
    <3> QED BY <2>1, <2>3, <3>1, NewLetters
  <2>4. CASE ~ About(l) /\ About(g)
    <3>1. PICK i \in Remote(c) : l = New(c, n, i)
      BY <1>8, <2>4
    <3> QED BY <2>1, <2>4, <3>1, NewLetters
  <2>5. CASE ~ About(l) /\ ~ About(g)
    <3>1. PICK i \in Remote(c) : l = New(c, n, i)
      BY <1>8, <2>5
    <3>2. PICK k \in Remote(c) : g = New(c, n, k)
      BY <1>8, <2>5
    <3>3. l.seq = Drawn(c, n, i) /\ g.seq = Drawn(c, n, k)
      BY <3>1, <3>2, NewLetters
    <3>4. l.seq = g.seq => i = k
      BY <3>3, DrawnOrder
    <3> QED BY <3>1, <3>2, <3>4, NewLetters
  <2> QED BY <2>2, <2>3, <2>4, <2>5
<1>12. NumberedTo(d, n + K)'
  <2>1. /\ \A t \in DOMAIN store'[d] : t[1] = "outseq" => t = OutSeq(n + K)
        /\ Weight(store'[d], OutSeq(n + K)) = 1
    BY CounterMoves
  <2>2. ASSUME NEW l \in Letters, From(l) = d, About(l)' PROVE l.seq < n + K
    <3>1. CASE About(l)
      <4>1. l.seq \in Nat /\ l.seq < n
        BY <1>9, <2>2, <3>1, LetterParts
      <4> QED BY <1>1, <4>1
    <3>2. CASE ~ About(l)
      <4>1. PICK i \in Remote(c) : l = New(c, n, i)
        BY <1>8, <2>2, <3>2
      <4>2. l.seq = Drawn(c, n, i)
        BY <4>1, NewLetters
      <4>3. Drawn(c, n, i) < n + Cardinality(Remote(c))
        BY DrawnOrder
      <4> QED BY <4>2, <4>3
    <3> QED BY <3>1, <3>2
  <2>3. ASSUME NEW e \in Domains, NEW k \in Nat, Seen(d, k) \in DOMAIN store'[e]
        PROVE  k < n + K
    <3>1. Seen(d, k) \notin X \cup Y
      BY <1>5, RowKinds
    <3>2. Seen(d, k) \in DOMAIN store[e]
      BY <1>6, <2>3, <3>1, RowKinds
    <3>3. k < n
      BY <1>10, <3>2
    <3> QED BY <1>1, <3>3
  <2> QED BY <2>1, <2>2, <2>3 DEF NumberedTo
<1>13. Numbered'
  <2> SUFFICES ASSUME NEW s \in Domains PROVE \E k \in Nat : NumberedTo(s, k)'
    BY DEF Numbered
  <2>1. CASE s = d
    <3>1. n + K \in Nat
      BY <1>1
    <3> QED BY <1>12, <2>1, <3>1
  <2>2. CASE s # d
    <3>1. PICK k \in Nat : NumberedTo(s, k)
      BY DEF IInv, Numbered
    <3>2. \A t \in DOMAIN store'[s] : t[1] = "outseq" => t = OutSeq(k)
      BY <1>6, <2>2, <3>1 DEF NumberedTo
    <3>3. Weight(store'[s], OutSeq(k)) = 1
      BY <1>6, <2>2, <3>1, RowKinds DEF NumberedTo
    <3>4. ASSUME NEW l \in Letters, From(l) = s, About(l)' PROVE l.seq < k
      <4>1. About(l)
        BY <1>8, <2>2, <3>4, NewLetters
      <4> QED BY <3>1, <3>4, <4>1 DEF NumberedTo
    <3>5. ASSUME NEW e \in Domains, NEW j \in Nat, Seen(s, j) \in DOMAIN store'[e]
          PROVE  j < k
      <4>1. Seen(s, j) \notin X \cup Y
        BY <1>5, RowKinds
      <4>2. Seen(s, j) \in DOMAIN store[e]
        BY <1>6, <3>5, <4>1, RowKinds
      <4> QED BY <3>1, <4>2 DEF NumberedTo
    <3> QED BY <3>2, <3>3, <3>4, <3>5 DEF NumberedTo
  <2> QED BY <2>1, <2>2
<1>14. ASSUME NEW l \in Letters, About(l)'
       PROVE  About(l) \/ (l.by = c /\ ~ Live(Post(l).to, Receipted(l)))
  <2>1. CASE About(l)
    BY <2>1
  <2>2. CASE ~ About(l)
    <3>1. PICK i \in Remote(c) : l = New(c, n, i)
      BY <1>8, <1>14, <2>2
    <3>2. l.by = c /\ From(l) = d /\ l.seq = Drawn(c, n, i)
      BY <3>1, NewLetters
    <3>3. ASSUME Live(Post(l).to, Receipted(l)) PROVE FALSE
      <4>1. Seen(d, l.seq) \in DOMAIN store[Post(l).to]
        BY <3>2, <3>3 DEF Live, Weight, Receipted
      <4>2. l.seq < n /\ l.seq \in Nat
        BY <1>10, <4>1, LetterParts
      <4>3. n <= l.seq
        BY <3>2, DrawnOrder
      <4> QED BY <4>2, <4>3
    <3> QED BY <3>2, <3>3
  <2> QED BY <2>1, <2>2
<1> HIDE DEF X, Y
<1> QED
  BY <1>2, <1>4, <1>5, <1>11, <1>13, <1>14, CommitStep

LEMMA CommitMailStep ==
  ASSUME IInv, NEW c \in Committers, CommitMail(c)
  PROVE  IInv'
<1>1. /\ TypeOK /\ c \in Threads /\ pc[c] = "commit" /\ UNCHANGED <<queue, work, held>>
      /\ number' = [number EXCEPT ![c] = {}]
  BY DEF IInv, Threads, CommitMail
<1>2. number' \in [Committers -> SUBSET Nat]
  BY <1>1 DEF TypeOK
<1>3. CASE UNCHANGED store /\ pc' = [pc EXCEPT ![c] = "lost"]
  <2>1. pc' = [pc EXCEPT ![c] = pc'[c]] /\ pc'[c] = "lost"
    BY <1>1, <1>3 DEF TypeOK
  <2> QED BY <1>1, <1>2, <1>3, <2>1, QuietStep DEF PCs
<1>4. CASE \E n \in Nat : /\ NumberedTo(Home[c], n)
                         /\ Commits(c, Sealed(c, n).adds, Sealed(c, n).dels)
  BY <1>1, <1>2, <1>4, MailCommitted
<1> QED
  BY <1>3, <1>4, MailOutcome

----------------------------------------------------------------------------
(* The invariant.                                                          *)

LEMMA InitIInv ==
  ASSUME Init
  PROVE  IInv
<1>1. ASSUME NEW d \in Domains
      PROVE  /\ DOMAIN store[d] = World[d] \cup {OutSeq(0)}
             /\ \A r \in DOMAIN store[d] : store[d][r] = 1
             /\ \A r \in DOMAIN store[d] :
                  r[1] \in OwnRelations => r = OutSeq(0) /\ r[1] = "outseq"
             /\ queue[d] = << >>
  <2>1. store[d] = [r \in World[d] \cup {OutSeq(0)} |-> 1] /\ queue[d] = << >>
    BY DEF Init
  <2>2. \A r \in World[d] : r[1] \notin OwnRelations
    BY CrossDomainContract
  <2> QED BY <2>1, <2>2, RowKinds
<1>2. /\ \A c \in Committers : number[c] = {} /\ pc[c] = "start"
      /\ \A f \in Flushers : work[f] = {} /\ pc[f] = "idle"
      /\ \A r \in Receivers : held[r] = {} /\ pc[r] = "idle"
  BY DEF Init, Threads
<1>3. ASSUME NEW l \in Letters, About(l) PROVE FALSE
  <2>1. From(l) \in Domains /\ Post(l).to \in Domains
    BY LetterParts
  <2>2. ~ InOutbox(l)
    BY <1>1, <2>1, RowKinds DEF InOutbox, OwnRelations
  <2>3. ~ Read(l) /\ ~ Polled(l)
    BY <1>2 DEF Read, Polled
  <2>4. ~ Queued(l)
    BY <1>1, <2>1 DEF Queued
  <2> QED BY <1>3, <2>2, <2>3, <2>4 DEF About
<1>4. TypeOK
  <2>1. store = [d \in Domains |-> store[d]] /\ queue = [d \in Domains |-> queue[d]]
    BY DEF Init
  <2>2. \A d \in Domains : Proper(store[d])
    BY <1>1 DEF Proper
  <2>3. \A d \in Domains : queue[d] \in Seq(Inbound(d))
    <3> TAKE d \in Domains
    <3>1. queue[d] = << >>
      BY <1>1
    <3>2. << >> \in Seq(Inbound(d))
      OBVIOUS
    <3> QED BY <3>1, <3>2
  <2>4. pc \in [Threads -> PCs] /\ number \in [Committers -> SUBSET Nat]
    BY DEF Init, PCs
  <2>5. work = [f \in Flushers |-> work[f]] /\ held = [r \in Receivers |-> held[r]]
    BY DEF Init
  <2> QED BY <1>2, <2>1, <2>2, <2>3, <2>4, <2>5 DEF TypeOK
<1>5. RowsKept
  BY <1>1 DEF RowsKept, OwnRelations
<1>6. Numbered
  <2> SUFFICES ASSUME NEW d \in Domains PROVE NumberedTo(d, 0)
    BY DEF Numbered
  <2>1. \A r \in DOMAIN store[d] : r[1] = "outseq" => r = OutSeq(0)
    BY <1>1 DEF OwnRelations
  <2>2. Weight(store[d], OutSeq(0)) = 1
    BY <1>1 DEF Weight
  <2>3. \A e \in Domains, k \in Nat : Seen(d, k) \notin DOMAIN store[e]
    BY <1>1, RowKinds DEF OwnRelations
  <2> QED BY <1>3, <2>1, <2>2, <2>3 DEF NumberedTo
<1>7. Apart /\ Sent /\ Receipts
  BY <1>3 DEF Apart, Sent, Receipts
<1>8. Delivered
  BY <1>1 DEF Delivered, OwnRelations
<1>9. Holding /\ Working
  BY <1>2 DEF Holding, Working
<1> QED
  BY <1>4, <1>5, <1>6, <1>7, <1>8, <1>9 DEF IInv

LEMMA Inductive ==
  ASSUME IInv, [Next \/ \E r \in Receivers : ReceiveFault(r)]_vars
  PROVE  IInv'
<1>1. CASE UNCHANGED vars
  BY <1>1, UnchangedStep
<1>2. ASSUME NEW c \in Committers,
             \/ CommitLocal(c) \/ CommitRemote(c) \/ ReadNumber(c)
             \/ CommitMail(c) \/ Settle(c)
      PROVE  IInv'
  BY <1>2, CommitLocalStep, ReadNumberStep, CommitMailStep, RetryStep
<1>3. ASSUME NEW r \in Receivers, Endpoint(Home[r])
      PROVE  IInv'
  <2>1. Home[r] \in Domains
    BY DEF Threads
  <2> QED BY <1>3, <2>1, EndpointStep
<1>4. ASSUME NEW f \in Flushers,
             FlushRead(f) \/ FlushSend(f) \/ FlushRetract(f) \/ FlushFault(f)
      PROVE  IInv'
  BY <1>4, FlushReadStep, FlushSendStep, FlushRetractStep, FlushFaultStep
<1>5. ASSUME NEW r \in Receivers, Poll(r) \/ SeenHolds(r) \/ Apply(r) \/ ReceiveFault(r)
      PROVE  IInv'
  BY <1>5, PollStep, SeenHoldsStep, ApplyStep, ReceiveFaultStep
<1> QED
  BY <1>1, <1>2, <1>3, <1>4, <1>5 DEF Next

LEMMA SpecIInv == MortalSpec => []IInv
  BY InitIInv, Inductive, PTL DEF MortalSpec

LEMMA SpecIsMortal == Spec => MortalSpec
<1>1. [Next]_vars => [Next \/ \E r \in Receivers : ReceiveFault(r)]_vars
  OBVIOUS
<1> QED
  BY <1>1, PTL DEF Spec, MortalSpec

(* No message is applied twice, though flushers die between sending a row  *)
(* and retracting it and receivers die with letters in hand, and no two    *)
(* domains' numbers are taken for each other (Domain::receive).            *)
THEOREM MailAppliedOnce == MortalSpec => []AppliedOnce
<1>1. IInv => AppliedOnce
  BY DEF IInv, Delivered, AppliedOnce
<1> QED
  BY <1>1, SpecIInv, PTL

----------------------------------------------------------------------------
(* No message is lost.                                                     *)

(* A step after which every message of a committed patch is still          *)
(* somewhere, and every row about to be retracted has been sent.           *)
Carries ==
  /\ \A l \in Letters : Gone(l) => Gone(l)'
  /\ \A l \in Letters : Live(From(l), Row(l)) => Live(From(l), Row(l))' \/ Gone(l)'
  /\ \A c \in Committers : pc'[c] = "committed" =>
       \/ pc[c] = "committed"
       \/ \A i \in Remote(c) : \E l \in Letters :
            l.by = c /\ l.place = i /\ Live(From(l), Row(l))'
  /\ \A f \in Flushers : pc'[f] = "retract" =>
       \/ pc[f] = "retract" /\ work'[f] = work[f]
       \/ \E l \in Letters : From(l) = Home[f] /\ Row(l) = Next1(f)' /\ Gone(l)'

LEMMA CarriedOn ==
  ASSUME CInv, Carries
  PROVE  Shipping' /\ Carried'
<1>1. Shipping'
  <2> SUFFICES ASSUME NEW f \in Flushers, NEW l \in Letters, pc'[f] = "retract",
                      From(l) = Home[f], Row(l) = Next1(f)'
               PROVE  Gone(l)'
    BY DEF Shipping
  <2>1. CASE pc[f] = "retract" /\ work'[f] = work[f]
    <3>1. Next1(f)' = Next1(f)
      BY <2>1 DEF Next1
    <3>2. Gone(l)
      BY <2>1, <3>1 DEF CInv, Shipping
    <3> QED BY <3>2 DEF Carries
  <2>2. CASE \E g \in Letters : From(g) = Home[f] /\ Row(g) = Next1(f)' /\ Gone(g)'
    <3>1. PICK g \in Letters : Row(g) = Next1(f)' /\ Gone(g)'
      BY <2>2
    <3>2. g = l
      BY <3>1, RowTells
    <3> QED BY <3>1, <3>2
  <2> QED BY <2>1, <2>2 DEF Carries
<1>2. Carried'
  <2> SUFFICES ASSUME NEW c \in Committers, pc'[c] = "committed", NEW i \in Remote(c)
               PROVE  \E l \in Letters : /\ l.by = c /\ l.place = i
                                         /\ Live(From(l), Row(l))' \/ Gone(l)'
    BY DEF Carried
  <2>1. CASE pc[c] = "committed"
    <3>1. PICK l \in Letters : /\ l.by = c /\ l.place = i
                               /\ Live(From(l), Row(l)) \/ Gone(l)
      BY <2>1 DEF CInv, Carried
    <3> QED BY <3>1 DEF Carries
  <2>2. CASE pc[c] # "committed"
    <3>1. PICK l \in Letters : l.by = c /\ l.place = i /\ Live(From(l), Row(l))'
      BY <2>2 DEF Carries
    <3> QED BY <3>1
  <2> QED BY <2>1, <2>2
<1> QED
  BY <1>1, <1>2

(* A step that moves no row, letter or message.                            *)
LEMMA IdleCarries ==
  ASSUME UNCHANGED <<store, queue, held>>,
         \A c \in Committers : pc'[c] = "committed" => pc[c] = "committed",
         \A f \in Flushers : pc'[f] = "retract" => pc[f] = "retract" /\ work'[f] = work[f]
  PROVE  Carries
<1>1. \A l \in Letters : Gone(l) => Gone(l)'
  BY DEF Gone, Queued, Polled, Live
<1>2. \A l \in Letters : Live(From(l), Row(l)) => Live(From(l), Row(l))'
  BY DEF Live
<1> QED
  BY <1>1, <1>2 DEF Carries

LEMMA ReadsCarry ==
  ASSUME IInv, NEW c \in Committers, CommitRemote(c) \/ ReadNumber(c) \/ Settle(c)
  PROVE  Carries
<1>1. /\ UNCHANGED <<store, queue, work, held>> /\ pc' = [pc EXCEPT ![c] = pc'[c]]
      /\ pc'[c] # "committed" /\ TypeOK /\ c \in Threads
  BY DEF CommitRemote, ReadNumber, Settle, IInv, TypeOK, Threads
<1>2. \A th \in Threads \ {c} : pc'[th] = pc[th]
  BY <1>1 DEF TypeOK
<1>3. \A e \in Committers : pc'[e] = "committed" => pc[e] = "committed"
  BY <1>1, <1>2 DEF Threads
<1>4. \A f \in Flushers : pc'[f] = pc[f]
  BY <1>2 DEF Threads
<1> QED
  BY <1>1, <1>3, <1>4, IdleCarries

LEMMA FlushIdleCarries ==
  ASSUME IInv, NEW f \in Flushers, FlushRead(f) \/ FlushFault(f)
  PROVE  Carries
<1>1. /\ UNCHANGED <<store, queue, held>> /\ TypeOK /\ f \in Threads
      /\ pc' = [pc EXCEPT ![f] = pc'[f]] /\ work' = [work EXCEPT ![f] = work'[f]]
      /\ pc'[f] \in {"send", "idle"}
  BY DEF FlushRead, FlushFault, IInv, TypeOK, Threads
<1>2. /\ \A th \in Threads \ {f} : pc'[th] = pc[th]
      /\ \A g \in Flushers \ {f} : work'[g] = work[g]
  BY <1>1 DEF TypeOK
<1>3. \A c \in Committers : pc'[c] = "committed" => pc[c] = "committed"
  BY <1>2 DEF Threads
<1>4. \A g \in Flushers : pc'[g] = "retract" => pc[g] = "retract" /\ work'[g] = work[g]
  BY <1>1, <1>2 DEF Threads
<1> QED
  BY <1>1, <1>3, <1>4, IdleCarries

LEMMA FlushSendCarries ==
  ASSUME IInv, NEW f \in Flushers, FlushSend(f)
  PROVE  Carries
<1>1. PICK l \in Letters :
           /\ From(l) = Home[f] /\ Row(l) = Next1(f) /\ Row(l) \in work[f]
           /\ \/ /\ queue' = [queue EXCEPT ![Post(l).to] = Append(@, Env(l))]
                 /\ pc' = [pc EXCEPT ![f] = "retract"] /\ UNCHANGED work
              \/ /\ work' = [work EXCEPT ![f] = {}]
                 /\ pc' = [pc EXCEPT ![f] = "idle"] /\ UNCHANGED queue
  BY SentLetter
<1>2. TypeOK /\ f \in Threads /\ UNCHANGED <<store, held>>
  BY DEF IInv, FlushSend, Threads
<1>3. CASE /\ queue' = [queue EXCEPT ![Post(l).to] = Append(@, Env(l))]
           /\ pc' = [pc EXCEPT ![f] = "retract"] /\ UNCHANGED work
  <2>1. \A th \in Threads \ {f} : pc'[th] = pc[th]
    BY <1>2, <1>3 DEF TypeOK
  <2>2. Queued(l)' /\ \A g \in Letters : Queued(g) => Queued(g)'
    BY <1>2, <1>3, QueueAppend
  <2>3. \A g \in Letters : Gone(g) => Gone(g)'
    BY <1>2, <2>2 DEF Gone, Polled, Live
  <2>4. \A g \in Letters : Live(From(g), Row(g)) => Live(From(g), Row(g))'
    BY <1>2 DEF Live
  <2>5. \A c \in Committers : pc'[c] = "committed" => pc[c] = "committed"
    BY <2>1 DEF Threads
  <2>6. Next1(f)' = Next1(f)
    BY <1>3 DEF Next1
  <2>7. \A g \in Flushers : pc'[g] = "retract" =>
          \/ pc[g] = "retract" /\ work'[g] = work[g]
          \/ \E k \in Letters : From(k) = Home[g] /\ Row(k) = Next1(g)' /\ Gone(k)'
    <3> SUFFICES ASSUME NEW g \in Flushers, pc'[g] = "retract"
                 PROVE  \/ pc[g] = "retract" /\ work'[g] = work[g]
                        \/ \E k \in Letters : /\ From(k) = Home[g] /\ Row(k) = Next1(g)'
                                              /\ Gone(k)'
      OBVIOUS
    <3>1. CASE g = f
      <4>1. Gone(l)'
        BY <2>2 DEF Gone
      <4> QED BY <1>1, <2>6, <3>1, <4>1
    <3>2. CASE g # f
      BY <1>3, <2>1, <3>2 DEF Threads
    <3> QED BY <3>1, <3>2
  <2> QED BY <2>3, <2>4, <2>5, <2>7 DEF Carries
<1>4. CASE /\ work' = [work EXCEPT ![f] = {}]
           /\ pc' = [pc EXCEPT ![f] = "idle"] /\ UNCHANGED queue
  <2>1. /\ pc'[f] = "idle" /\ \A th \in Threads \ {f} : pc'[th] = pc[th]
        /\ \A g \in Flushers \ {f} : work'[g] = work[g]
    BY <1>2, <1>4 DEF TypeOK
  <2>2. \A c \in Committers : pc'[c] = "committed" => pc[c] = "committed"
    BY <2>1 DEF Threads
  <2>3. \A g \in Flushers : pc'[g] = "retract" => pc[g] = "retract" /\ work'[g] = work[g]
    BY <2>1 DEF Threads
  <2> QED BY <1>2, <1>4, <2>2, <2>3, IdleCarries
<1> QED
  BY <1>1, <1>3, <1>4

LEMMA FlushRetractCarries ==
  ASSUME IInv, Shipping, NEW f \in Flushers, FlushRetract(f)
  PROVE  Carries
<1>1. PICK l \in Letters :
           /\ From(l) = Home[f] /\ Row(l) = Next1(f) /\ Row(l) \in work[f]
           /\ Plus(Home[f], {}, {Row(l)})
           /\ \A e \in Domains : \A r : e # Home[f] \/ r # Row(l) =>
                /\ Weight(store'[e], r) = Weight(store[e], r)
                /\ r \in DOMAIN store'[e] <=> r \in DOMAIN store[e]
                /\ r \in DOMAIN store[e] => store'[e][r] = store[e][r]
  BY RetractParts
<1>2. /\ TypeOK /\ f \in Threads /\ UNCHANGED <<queue, held>> /\ pc[f] = "retract"
      /\ pc' = [pc EXCEPT ![f] = pc'[f]] /\ pc'[f] \in {"idle", "send"}
      /\ work' = [work EXCEPT ![f] = work'[f]]
  BY DEF FlushRetract, IInv, TypeOK, Threads
<1>3. /\ \A th \in Threads \ {f} : pc'[th] = pc[th]
      /\ \A g \in Flushers \ {f} : work'[g] = work[g]
  BY <1>2 DEF TypeOK
<1>4. ASSUME NEW g \in Letters, Gone(g) PROVE Gone(g)'
  <2>1. Weight(store'[Post(g).to], Delivery(g)) = Weight(store[Post(g).to], Delivery(g))
    BY <1>1, RowKinds, LetterParts
  <2> QED BY <1>2, <1>4, <2>1 DEF Gone, Queued, Polled, Live
<1>5. ASSUME NEW g \in Letters, Live(From(g), Row(g))
      PROVE  Live(From(g), Row(g))' \/ Gone(g)'
  <2>1. CASE Row(g) = Row(l)
    <3>1. g = l
      BY <2>1, RowTells
    <3>2. Gone(g)
      BY <1>1, <1>2, <3>1 DEF Shipping
    <3> QED BY <1>4, <3>2
  <2>2. CASE Row(g) # Row(l)
    BY <1>1, <1>5, <2>2, LetterParts DEF Live
  <2> QED BY <2>1, <2>2
<1>6. \A c \in Committers : pc'[c] = "committed" => pc[c] = "committed"
  BY <1>3 DEF Threads
<1>7. \A g \in Flushers : pc'[g] = "retract" => pc[g] = "retract" /\ work'[g] = work[g]
  BY <1>2, <1>3 DEF Threads
<1> QED
  BY <1>4, <1>5, <1>6, <1>7 DEF Carries

(* A receiver's step: committers and flushers go on as they were.          *)
LEMMA ReceiverCarries ==
  ASSUME IInv, NEW r \in Receivers, pc' = [pc EXCEPT ![r] = "idle"] \/
           pc' = [pc EXCEPT ![r] = "seen"] \/ pc' = [pc EXCEPT ![r] = "apply"],
         UNCHANGED work, \A l \in Letters : Gone(l) => Gone(l)',
         \A l \in Letters : Live(From(l), Row(l)) => Live(From(l), Row(l))'
  PROVE  Carries
<1>1. \A th \in Threads \ {r} : pc'[th] = pc[th]
  BY DEF IInv, TypeOK, Threads
<1>2. \A c \in Committers : pc'[c] = pc[c]
  BY <1>1 DEF Threads
<1>3. \A f \in Flushers : pc'[f] = pc[f]
  BY <1>1 DEF Threads
<1> QED
  BY <1>2, <1>3 DEF Carries

LEMMA PollCarries ==
  ASSUME IInv, NEW r \in Receivers, Poll(r)
  PROVE  Carries
<1>1. TypeOK /\ pc[r] = "idle" /\ held[r] = {} /\ UNCHANGED <<store, work>>
  BY DEF IInv, Poll, Holding
<1>2. PICK l \in Letters :
           /\ Post(l).to = Home[r] /\ held' = [held EXCEPT ![r] = {Env(l)}]
           /\ Queued(l)
           /\ queue' = [d \in Domains |-> queue'[d]]
           /\ \A d \in Domains : queue'[d] \in Seq(Inbound(d))
           /\ \A g \in Letters : Queued(g)' => Queued(g)
           /\ \A g \in Letters : Queued(g) => Queued(g)' \/ g = l
  BY <1>1, PolledLetter
<1>3. held'[r] = {Env(l)} /\ \A o \in Receivers \ {r} : held'[o] = held[o]
  BY <1>2 DEF IInv, TypeOK
<1>4. ASSUME NEW g \in Letters, Gone(g) PROVE Gone(g)'
  <2>1. CASE Queued(g)
    <3>1. CASE g = l
      <4>1. Polled(g)'
        BY <1>2, <1>3, <3>1 DEF Polled
      <4> QED BY <4>1 DEF Gone
    <3>2. CASE g # l
      BY <1>2, <2>1, <3>2 DEF Gone
    <3> QED BY <3>1, <3>2
  <2>2. CASE Polled(g)
    <3>1. Polled(g)'
      BY <1>1, <1>3, <2>2 DEF Polled
    <3> QED BY <3>1 DEF Gone
  <2>3. CASE Live(Post(g).to, Delivery(g))
    BY <1>1, <2>3 DEF Gone, Live
  <2> QED BY <1>4, <2>1, <2>2, <2>3 DEF Gone
<1>5. \A g \in Letters : Live(From(g), Row(g)) => Live(From(g), Row(g))'
  BY <1>1 DEF Live
<1>6. pc' = [pc EXCEPT ![r] = "seen"]
  BY DEF Poll
<1> QED
  BY <1>1, <1>4, <1>5, <1>6, ReceiverCarries

(* A letter dropped as seen is in the inbox.                               *)
LEMMA SeenHoldsCarries ==
  ASSUME IInv, NEW r \in Receivers, SeenHolds(r)
  PROVE  Carries
<1>1. /\ TypeOK /\ r \in Threads /\ pc[r] = "seen"
      /\ UNCHANGED <<store, queue, number, work>>
  BY DEF IInv, Threads, SeenHolds
<1>2. PICK l \in Letters : held[r] = {Env(l)}
  BY <1>1 DEF IInv, Holding
<1>3. Seen(Env(l).from, Env(l).seq) = Receipted(l)
  BY DEF Env, Receipted
<1>4. Post(l).to = Home[r]
  <2>1. Env(l) \in Inbound(Home[r])
    BY <1>1, <1>2 DEF TypeOK
  <2> QED BY <2>1, EnvTells DEF Inbound
<1>5. \A g \in Letters : Live(From(g), Row(g)) => Live(From(g), Row(g))'
  BY <1>1 DEF Live
<1>6. CASE Live(Home[r], Receipted(l))
  <2>1. held' = [held EXCEPT ![r] = {}] /\ pc' = [pc EXCEPT ![r] = "idle"]
    BY <1>2, <1>3, <1>6 DEF SeenHolds
  <2>2. \A o \in Receivers \ {r} : held'[o] = held[o]
    BY <1>1, <2>1 DEF TypeOK
  <2>3. About(l)
    BY <1>2, <1>4 DEF About, Polled
  <2>4. Live(Post(l).to, Delivery(l))
    BY <1>4, <1>6, <2>3 DEF IInv, Receipts
  <2>5. ASSUME NEW g \in Letters, Gone(g) PROVE Gone(g)'
    <3>1. CASE g = l
      BY <1>1, <2>4, <3>1 DEF Gone, Live
    <3>2. CASE g # l
      <4>1. Env(g) \notin held[r]
        BY <1>2, <3>2, EnvTells
      <4>2. Polled(g) => Polled(g)'
        BY <2>2, <4>1 DEF Polled
      <4> QED BY <1>1, <2>5, <4>2 DEF Gone, Queued, Live
    <3> QED BY <3>1, <3>2
  <2> QED BY <1>1, <1>5, <2>1, <2>5, ReceiverCarries
<1>7. CASE ~ Live(Home[r], Receipted(l))
  <2>1. pc' = [pc EXCEPT ![r] = "apply"] /\ UNCHANGED held
    BY <1>2, <1>3, <1>7 DEF SeenHolds
  <2>2. \A g \in Letters : Gone(g) => Gone(g)'
    BY <1>1, <2>1 DEF Gone, Queued, Polled, Live
  <2> QED BY <1>1, <1>5, <2>1, <2>2, ReceiverCarries
<1> QED
  BY <1>6, <1>7

LEMMA ApplyCarries ==
  ASSUME IInv, NEW r \in Receivers, Apply(r)
  PROVE  Carries
<1> DEFINE d == Home[r]
<1>1. PICK l \in Letters :
           /\ Post(l).to = d /\ About(l) /\ Polled(l)
           /\ Plus(d, {Delivery(l), Receipted(l)}, {})
           /\ Weight(store'[d], Delivery(l)) = 1
           /\ Weight(store'[d], Receipted(l)) = 1
           /\ \A e \in Domains : \A t : e # d \/ t \notin {Delivery(l), Receipted(l)} =>
                /\ Weight(store'[e], t) = Weight(store[e], t)
                /\ t \in DOMAIN store'[e] <=> t \in DOMAIN store[e]
                /\ t \in DOMAIN store[e] => store'[e][t] = store[e][t]
           /\ held[r] = {Env(l)}
  BY ApplyParts
<1>2. /\ TypeOK /\ d \in Domains
      /\ held' = [held EXCEPT ![r] = {}] /\ pc' = [pc EXCEPT ![r] = "idle"]
      /\ UNCHANGED <<queue, number, work>>
  BY DEF IInv, Threads, Apply
<1>3. \A o \in Receivers \ {r} : held'[o] = held[o]
  BY <1>2 DEF TypeOK
<1>4. ASSUME NEW g \in Letters
      PROVE  Live(Post(g).to, Delivery(g)) => Live(Post(g).to, Delivery(g))'
  <2>1. CASE Post(g).to = d /\ Delivery(g) = Delivery(l)
    BY <1>1, <2>1 DEF Live
  <2>2. CASE ~ (Post(g).to = d /\ Delivery(g) = Delivery(l))
    <3>1. Delivery(g) # Receipted(l)
      BY RowKinds
    <3> QED BY <1>1, <2>2, <3>1, LetterParts DEF Live
  <2> QED BY <2>1, <2>2
<1>5. ASSUME NEW g \in Letters, Gone(g) PROVE Gone(g)'
  <2>1. CASE g = l
    BY <1>1, <2>1 DEF Gone, Live
  <2>2. CASE g # l
    <3>1. Env(g) \notin held[r]
      BY <1>1, <2>2, EnvTells
    <3>2. Polled(g) => Polled(g)'
      BY <1>3, <3>1 DEF Polled
    <3>3. Queued(g) => Queued(g)'
      BY <1>2 DEF Queued
    <3> QED BY <1>4, <1>5, <3>2, <3>3 DEF Gone
  <2> QED BY <2>1, <2>2
<1>6. ASSUME NEW g \in Letters, Live(From(g), Row(g)) PROVE Live(From(g), Row(g))'
  <2>1. Row(g) # Delivery(l) /\ Row(g) # Receipted(l)
    BY RowKinds
  <2> QED BY <1>1, <1>6, <2>1, LetterParts DEF Live
<1> QED
  BY <1>2, <1>5, <1>6, ReceiverCarries

(* A commit keeps what is in outboxes and inboxes.                         *)
LEMMA CommitCarries ==
  ASSUME IInv, NEW c \in Committers, NEW X, NEW Y, Commits(c, X, Y),
         \A t \in X : t[1] \in {"outbox", "outseq"}, \A t \in Y : t[1] = "outseq",
         \A l \in Letters : From(l) = Home[c] /\ Row(l) \in X => Live(From(l), Row(l))',
         \A i \in Remote(c) : \E l \in Letters : l.by = c /\ l.place = i /\ Live(From(l), Row(l))',
         UNCHANGED <<queue, work, held>>
  PROVE  Carries
<1>1. /\ TypeOK /\ c \in Threads /\ pc' = [pc EXCEPT ![c] = "committed"]
  BY DEF IInv, Threads, Commits
<1>2. \A th \in Threads \ {c} : pc'[th] = pc[th]
  BY <1>1 DEF TypeOK
<1>3. /\ \A e \in Domains : \A t :
           t[1] \in {"seen", "outbox", "outseq"} /\ (e # Home[c] \/ t \notin X \cup Y) =>
             Weight(store'[e], t) = Weight(store[e], t)
      /\ \A e \in Domains, l \in Letters :
           Weight(store'[e], Delivery(l)) = Weight(store[e], Delivery(l))
  BY CommitFrame
<1>4. \A l \in Letters : Gone(l) => Gone(l)'
  BY <1>3, LetterParts DEF Gone, Queued, Polled, Live
<1>5. ASSUME NEW l \in Letters, Live(From(l), Row(l)) PROVE Live(From(l), Row(l))'
  <2>1. CASE From(l) = Home[c] /\ Row(l) \in X
    BY <2>1
  <2>2. CASE ~ (From(l) = Home[c] /\ Row(l) \in X)
    <3>1. Row(l) \notin Y
      BY RowKinds
    <3> QED BY <1>3, <1>5, <2>2, <3>1, RowKinds, LetterParts DEF Live
  <2> QED BY <2>1, <2>2
<1>6. \A e \in Committers : pc'[e] = "committed" =>
        \/ pc[e] = "committed"
        \/ \A i \in Remote(e) : \E l \in Letters :
             l.by = e /\ l.place = i /\ Live(From(l), Row(l))'
  BY <1>2 DEF Threads
<1>7. \A f \in Flushers : pc'[f] = pc[f]
  BY <1>2 DEF Threads
<1> QED
  BY <1>4, <1>5, <1>6, <1>7 DEF Carries

(* A committer's step that gives up carries everything too.                *)
LEMMA GiveUpCarries ==
  ASSUME IInv, NEW c \in Committers, UNCHANGED <<store, queue, work, held>>,
         NEW p \in PCs \ {"committed"}, pc' = [pc EXCEPT ![c] = p]
  PROVE  Carries
<1>1. /\ pc'[c] # "committed" /\ \A th \in Threads \ {c} : pc'[th] = pc[th]
  BY DEF IInv, TypeOK, Threads
<1>2. \A e \in Committers : pc'[e] = "committed" => pc[e] = "committed"
  BY <1>1 DEF Threads
<1>3. \A f \in Flushers : pc'[f] = pc[f]
  BY <1>1 DEF Threads
<1> QED
  BY <1>2, <1>3, IdleCarries

LEMMA CommitLocalCarries ==
  ASSUME IInv, NEW c \in Committers, CommitLocal(c)
  PROVE  Carries
<1>1. pc[c] = "start" /\ UNCHANGED <<queue, work, held>> /\ Remote(c) = {}
  BY DEF CommitLocal
<1>2. CASE AllHold(c)
  <2>1. Commits(c, {}, {})
    BY <1>2, LocalCommits
  <2> DEFINE E == {}
  <2>2. Commits(c, E, E) /\ (\A t \in E : FALSE)
    BY <2>1
  <2> HIDE DEF E
  <2> QED BY <1>1, <2>2, CommitCarries
<1>3. CASE ~ AllHold(c)
  <2>1. pc' = [pc EXCEPT ![c] = "rejected"] /\ UNCHANGED store
    BY <1>3 DEF CommitLocal
  <2> QED BY <1>1, <2>1, GiveUpCarries DEF PCs
<1> QED
  BY <1>2, <1>3

(* Its letters' rows are new, and stay.                                    *)
LEMMA CommitMailCarries ==
  ASSUME IInv, NEW c \in Committers, CommitMail(c)
  PROVE  Carries
<1>1. UNCHANGED <<queue, work, held>> /\ TypeOK /\ Home[c] \in Domains /\ c \in Threads
  BY DEF CommitMail, IInv, Threads
<1>2. CASE UNCHANGED store /\ pc' = [pc EXCEPT ![c] = "lost"]
  BY <1>1, <1>2, GiveUpCarries DEF PCs
<1>3. CASE \E n \in Nat : /\ NumberedTo(Home[c], n)
                         /\ Commits(c, Sealed(c, n).adds, Sealed(c, n).dels)
  <2>1. PICK n \in Nat : /\ NumberedTo(Home[c], n)
                         /\ Commits(c, Sealed(c, n).adds, Sealed(c, n).dels)
    BY <1>3
  <2> DEFINE d == Home[c]
             Out == {OutRow(Drawn(c, n, i), Posted(c, i)) : i \in Remote(c)}
             X == Out \cup {OutSeq(n + Cardinality(Remote(c)))}
             Y == {OutSeq(n)}
             A == BaseAdds(c) \cup X
             D == Job[c].dels \cup Y
  <2>2. Commits(c, X, Y) /\ Plus(d, A, D) /\ pc[c] # "committed"
    BY <2>1 DEF Sealed, Commits
  <2>3. (\A t \in X : t[1] \in {"outbox", "outseq"}) /\ (\A t \in Y : t[1] = "outseq")
    BY RowKinds
  <2>4. \A t \in Out : \E i \in Remote(c) : t = Row(New(c, n, i))
    BY NewLetters
  <2>5. ASSUME NEW l \in Letters, From(l) = d, Row(l) \in X
        PROVE  Live(From(l), Row(l))'
    <3>1. Row(l) \in Out
      BY <2>5, RowKinds
    <3>2. PICK i \in Remote(c) : Row(l) = Row(New(c, n, i))
      BY <2>4, <3>1
    <3>3. l.by = c
      BY <3>2, NewLetters, RowTells
    <3>4. ~ InOutbox(l)
      BY <2>2, <3>3 DEF IInv, Sent, About
    <3>5. Weight(store[d], Row(l)) = 0
      BY <2>5, <3>4 DEF InOutbox, Weight
    <3>6. One(Row(l) \in A) = 1
      BY <2>5 DEF One
    <3>7. One(Row(l) \in D) = 0
      <4>1. Row(l) \notin Y /\ Row(l) \notin Job[c].dels
        BY RowKinds, BaseRows DEF OwnRelations
      <4> QED BY <4>1 DEF One
    <3>8. Weight(store'[d], Row(l)) = Weight(store[d], Row(l)) + One(Row(l) \in A) - One(Row(l) \in D)
      <4> HIDE DEF d, A, D
      <4> QED BY <1>1, <2>2, PlusWeight DEF d
    <3>9. Weight(store'[d], Row(l)) = 1
      <4> HIDE DEF d, A, D
      <4> QED BY <3>5, <3>6, <3>7, <3>8
    <3> QED BY <2>5, <3>9 DEF Live
  <2>6. ASSUME NEW i \in Remote(c)
        PROVE  \E l \in Letters : l.by = c /\ l.place = i /\ Live(From(l), Row(l))'
    <3>1. /\ New(c, n, i) \in Letters /\ New(c, n, i).by = c /\ New(c, n, i).place = i
          /\ From(New(c, n, i)) = d /\ Row(New(c, n, i)) \in X
      BY NewLetters
    <3> QED BY <2>5, <3>1
  <2> HIDE DEF X, Y
  <2> QED BY <1>1, <2>2, <2>3, <2>5, <2>6, CommitCarries
<1> QED
  BY <1>2, <1>3, MailOutcome

LEMMA NextCarries ==
  ASSUME CInv, [Next]_vars
  PROVE  Carries
<1>1. IInv /\ Shipping
  BY DEF CInv
<1>2. CASE UNCHANGED vars
  <2>1. UNCHANGED <<store, queue, pc, work, held>>
    BY <1>2 DEF vars
  <2> QED BY <2>1, IdleCarries
<1>3. ASSUME NEW c \in Committers,
             \/ CommitLocal(c) \/ CommitRemote(c) \/ ReadNumber(c)
             \/ CommitMail(c) \/ Settle(c)
      PROVE  Carries
  BY <1>1, <1>3, CommitLocalCarries, ReadsCarry, CommitMailCarries
<1>4. ASSUME NEW d, Endpoint(d)
      PROVE  Carries
  <2>1. UNCHANGED <<store, queue, pc, work, held>>
    BY <1>4 DEF Endpoint
  <2> QED BY <2>1, IdleCarries
<1>5. ASSUME NEW f \in Flushers,
             FlushRead(f) \/ FlushSend(f) \/ FlushRetract(f) \/ FlushFault(f)
      PROVE  Carries
  BY <1>1, <1>5, FlushIdleCarries, FlushSendCarries, FlushRetractCarries
<1>6. ASSUME NEW r \in Receivers, Poll(r) \/ SeenHolds(r) \/ Apply(r)
      PROVE  Carries
  BY <1>1, <1>6, PollCarries, SeenHoldsCarries, ApplyCarries
<1> QED
  BY <1>2, <1>3, <1>4, <1>5, <1>6 DEF Next

LEMMA SpecCInv == Spec => []CInv
<1>1. Init => CInv
  <2> SUFFICES ASSUME Init PROVE CInv
    OBVIOUS
  <2>1. /\ \A c \in Committers : pc[c] = "start"
        /\ \A f \in Flushers : pc[f] = "idle"
    BY DEF Init, Threads
  <2> QED BY <2>1, InitIInv DEF CInv, Shipping, Carried
<1>2. CInv /\ [Next]_vars => CInv'
  <2> SUFFICES ASSUME CInv, [Next]_vars PROVE CInv'
    OBVIOUS
  <2>1. IInv'
    BY Inductive DEF CInv
  <2>2. Shipping' /\ Carried'
    BY NextCarries, CarriedOn
  <2> QED BY <2>1, <2>2 DEF CInv
<1> QED
  BY <1>1, <1>2, PTL DEF Spec

(* Mail that is somewhere is a committed patch's.                          *)
LEMMA MailIsSent ==
  ASSUME IInv, NEW c \in Committers, NEW i \in Remote(c), Whereabouts(c, Posted(c, i))
  PROVE  pc[c] = "committed"
<1> DEFINE m == Posted(c, i)
<1>1. /\ TypeOK /\ Home[c] \in Domains /\ i \in DOMAIN Job[c].emits
      /\ m.body = Job[c].emits[i].body
  BY DEF IInv, Threads, Remote, Posted
<1>2. ASSUME NEW l \in Letters, Post(l).body = m.body, About(l)
      PROVE  pc[c] = "committed"
  <2>1. l.by = c
    BY <1>1, <1>2, BodyTells
  <2> QED BY <1>2, <2>1 DEF IInv, Sent
<1>3. m.to \in Domains
  <2>1. m.to = Routes[Home[c]][Job[c].emits[i].inbox]
    BY DEF Posted
  <2>2. Job[c].emits[i].inbox \in DOMAIN Routes[Home[c]]
    BY DEF Remote, IsRemote
  <2> QED BY <1>1, <2>1, <2>2 DEF Range
<1> HIDE DEF m
<1>4. ASSUME NEW r \in DOMAIN store[Home[c]], r[1] = "outbox", r[5] = m.body
      PROVE  pc[c] = "committed"
  <2>1. PICK l \in Letters : From(l) = Home[c] /\ r = Row(l)
    BY <1>1, <1>4 DEF IInv, RowsKept
  <2>2. Post(l).body = m.body
    BY <1>4, <2>1 DEF Row, OutRow
  <2>3. About(l)
    BY <2>1 DEF About, InOutbox
  <2> QED BY <1>2, <2>2, <2>3
<1>5. ASSUME NEW j \in DOMAIN queue[m.to], queue[m.to][j].body = m.body
      PROVE  pc[c] = "committed"
  <2>1. queue[m.to][j] \in Inbound(m.to)
    BY <1>1, <1>3 DEF TypeOK
  <2>2. PICK l \in Letters : Post(l).to = m.to /\ queue[m.to][j] = Env(l)
    BY <2>1 DEF Inbound
  <2>3. Post(l).body = m.body
    BY <1>5, <2>2 DEF Env
  <2>4. About(l)
    BY <2>2 DEF About, Queued
  <2> QED BY <1>2, <2>3, <2>4
<1>6. ASSUME NEW r \in Receivers, Home[r] = m.to, NEW h \in held[r], h.body = m.body
      PROVE  pc[c] = "committed"
  <2>1. h \in Inbound(Home[r])
    BY <1>1 DEF TypeOK
  <2>2. PICK l \in Letters : Post(l).to = Home[r] /\ h = Env(l)
    BY <2>1 DEF Inbound
  <2>3. Post(l).body = m.body
    BY <1>6, <2>2 DEF Env
  <2>4. About(l)
    BY <2>2 DEF About, Polled
  <2> QED BY <1>2, <2>3, <2>4
<1>7. ASSUME Live(m.to, Mail(m.inbox, m.body)) PROVE pc[c] = "committed"
  <2>1. Mail(m.inbox, m.body) \in DOMAIN store[m.to]
    BY <1>7 DEF Live, Weight
  <2>2. PICK p \in Committers : \E j \in DOMAIN Job[p].emits :
          /\ pc[p] = "committed"
          /\ Mail(m.inbox, m.body) = Mail(Job[p].emits[j].inbox, Job[p].emits[j].body)
    BY <1>3, <2>1, RowKinds DEF IInv, Delivered
  <2>3. PICK j \in DOMAIN Job[p].emits :
          Mail(m.inbox, m.body) = Mail(Job[p].emits[j].inbox, Job[p].emits[j].body)
    BY <2>2
  <2>4. Job[p].emits[j].body = Job[c].emits[i].body
    BY <1>1, <2>3 DEF Mail
  <2>5. p = c
    BY <1>1, <2>4, BodiesNameMessages
  <2> QED BY <2>2, <2>5
<1> QED
  BY <1>4, <1>5, <1>6, <1>7 DEF Whereabouts, m

(* And a committed patch's mail is somewhere.                              *)
LEMMA MailIsSomewhere ==
  ASSUME CInv, NEW c \in Committers, NEW i \in Remote(c), pc[c] = "committed"
  PROVE  Whereabouts(c, Posted(c, i))
<1>1. PICK l \in Letters : /\ l.by = c /\ l.place = i
                           /\ Live(From(l), Row(l)) \/ Gone(l)
  BY DEF CInv, Carried
<1>2. Post(l) = Posted(c, i) /\ From(l) = Home[c]
  BY <1>1 DEF Post, From
<1>3. CASE Live(From(l), Row(l))
  <2>1. Row(l) \in DOMAIN store[Home[c]]
    BY <1>2, <1>3 DEF Live, Weight
  <2>2. /\ Row(l)[1] = "outbox" /\ Row(l)[3] = Post(l).to /\ Row(l)[5] = Post(l).body
    BY DEF Row, OutRow
  <2> QED BY <1>2, <1>3, <2>1, <2>2 DEF Whereabouts
<1>4. CASE Queued(l)
  <2>1. Env(l).body = Post(l).body
    BY DEF Env
  <2> QED BY <1>2, <1>4, <2>1 DEF Queued, Whereabouts
<1>5. CASE Polled(l)
  <2>1. Env(l).body = Post(l).body
    BY DEF Env
  <2> QED BY <1>2, <1>5, <2>1 DEF Polled, Whereabouts
<1>6. CASE Live(Post(l).to, Delivery(l))
  BY <1>2, <1>6 DEF Delivery, Whereabouts
<1> QED
  BY <1>1, <1>3, <1>4, <1>5, <1>6 DEF Gone

(* Where receivers do not fail, the mail of every committed patch is in    *)
(* its sender's outbox, under way, in a receiver's hands or in its inbox,  *)
(* and a rejected patch has mailed nothing (Domain::commit, flush_outbox). *)
THEOREM MailStaysConserved == Spec => []MailConserved
<1>1. CInv => MailConserved
  BY MailIsSent, MailIsSomewhere DEF MailConserved, CInv
<1> QED
  BY <1>1, SpecCInv, PTL
============================================================================
