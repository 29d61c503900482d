------------------------ MODULE SignalDeliveryProofs ------------------------
(***************************************************************************)
(* Proofs about the delivery of signals, for any number of senders, node   *)
(* ids, polls, registrations, failures and expiries, every batch size and  *)
(* every length of the list of recent ids.                                 *)
(*                                                                         *)
(* What the daemon does is right because of what it knows of a signal it   *)
(* works on (local) and of one it has finished (marked_up_to), so the      *)
(* invariant relates four views of a sequence number: the row at the       *)
(* server, the deliveries under way, the application receipts and the      *)
(* tracker's high-water mark.  Each part has a lemma that says what a step *)
(* has to show to keep it; each action then has a lemma of its own.        *)
(***************************************************************************)
EXTENDS SignalDelivery, FiniteSetTheorems, WellFoundedInduction, TLAPS

-----------------------------------------------------------------------------
(* The types of the daemon's state.                                        *)

Reg == [node: NodeIds, seq: 1..MaxRegistrations]

Inbox == [reg: Reg, batch: Nat, ids: SUBSET SignalId]

Lane == [batch: Nat, from: Senders, reg: Reg, rows: Seq(SignalId), pos: Nat,
         acked: Nat, phase: {"next", "started", "waiting", "done"}, n: Nat,
         open: BOOLEAN]

Receipt == [id: SignalId, n: Nat, tracked: BOOLEAN,
            outcome: {"Undispatched", "Pending", "Applied", "TerminalRejected", "Retry"}]

Typed ==
    /\ TypeOK
    /\ regs \in 0..MaxRegistrations
    /\ auth = None => regs < MaxRegistrations
    /\ inbox \in Inbox \cup {None}
    /\ lanes \subseteq Lane
    /\ tracker \in [ids: Seq(SignalId), high: [Senders -> 0..MaxSeq]]
    /\ receipts \subseteq Receipt /\ IsFiniteSet(receipts)
    /\ releasing \subseteq [node: NodeIds, ids: SUBSET SignalId, token: Nat]
    /\ late \subseteq [id: SignalId, token: Nat]
    /\ effects \in Seq(SignalId)
    /\ expiries \in Nat

-----------------------------------------------------------------------------
(* The parts of the inductive invariant.                                   *)

queued(i) == \E r \in queue : id(r) = i

\* Some part of this process works on signal i.
local(i) ==
    \/ inbox # None /\ i \in inbox.ids
    \/ \E l \in lanes : i \in ids_of(l)
    \/ \E c \in receipts : c.id = i

marked_up_to(i) == i.seq <= tracker.high[i.from]

\* j is an earlier signal of i's pair.
lower(j, i) == j.from = i.from /\ j.to = i.to /\ j.seq < i.seq

\* The tables of the server: rows are the current device's, numbered by its
\* sequences, and (from, to, seq) is a key.
KeysOK ==
    /\ \A r \in queue : r.to = node /\ r.seq <= seqs[r.from][r.to] /\ r.token <= polls
    /\ \A r, q \in queue : id(r) = id(q) => r = q
    /\ node \in {0, nodes}
    /\ node = 0 => nodes < MaxNodes

\* The sequence of i's pair has reached i.
created(i) == i.to <= nodes /\ (i.to = node => i.seq <= seqs[i.from][i.to])

\* Whatever the daemon names has been created.
NamesOK ==
    /\ auth # None => auth.node <= nodes
    /\ inbox # None => inbox.reg.node <= nodes
    /\ \A l \in lanes : l.reg.node <= nodes
    /\ \A i \in SignalId : local(i) => created(i)
    /\ \A m \in late : created(m.id)

\* A lane's rows are its sender's, in order; what it is past is marked.
RowsOK(l) ==
    /\ \A k \in DOMAIN l.rows : l.rows[k].from = l.from /\ l.rows[k].to = l.reg.node
    /\ \A j, k \in DOMAIN l.rows : j < k => l.rows[j].seq < l.rows[k].seq
    /\ l.phase # "done" => l.pos <= Len(l.rows)
    /\ \A k \in DOMAIN l.rows : k < l.pos => marked_up_to(l.rows[k])

LanesOK == \A l \in lanes : RowsOK(l)

\* Tokens: a delivery is in the inbox, then in one lane per sender.
BatchesOK ==
    /\ \A l, k \in lanes : l.batch = k.batch /\ l.from = k.from => l = k
    /\ \A l \in lanes : l.batch \in 1..polls
    /\ \A m \in late : m.token \in 1..polls
    /\ \A t \in releasing : t.token \in 1..polls
    /\ inbox # None =>
          /\ inbox.batch = polls
          /\ polls # 0
          /\ \A i \in inbox.ids : i.to = inbox.reg.node
          /\ \A l \in lanes : l.batch # polls
          /\ \A m \in late : m.token # polls
          /\ \A t \in releasing : t.token # polls

\* What an open lane may still acknowledge is in no other task's hands.
HandsOK ==
    /\ \A l \in lanes, m \in late :
          l.open /\ m.token = l.batch => m.id.from # l.from
    /\ \A l \in lanes, t \in releasing :
          l.open /\ t.token = l.batch => \A i \in t.ids : i.from # l.from

\* Receipts: one tracked application of a signal, and what a lane waits for is
\* there; only the lane that started an application dispatches it.
waits(l, c) == c.id = row(l) /\ c.n = l.n

ReceiptsOK ==
    /\ \A c, d \in receipts : c.id = d.id /\ c.n = d.n => c = d
    /\ \A c, d \in receipts : c.tracked /\ d.tracked /\ c.id = d.id => c = d
    /\ \A c \in receipts : c.outcome \in {"Undispatched", "Pending"} => c.tracked
    /\ \A l \in lanes : l.phase \in {"started", "waiting"} =>
                            \E c \in receipts : waits(l, c)
    /\ \A l \in lanes, c \in receipts :
          l.phase = "started" /\ waits(l, c) => c.outcome = "Undispatched"
    /\ \A l, k \in lanes :
          /\ l.phase = "started" /\ k.phase = "started"
          /\ row(l) = row(k) /\ l.n = k.n
          => l.batch = k.batch /\ l.from = k.from

\* What the tracker calls applied, what receipts report and what this process
\* did agree.
IdsMarked == \A k \in DOMAIN tracker.ids : marked_up_to(tracker.ids[k])

TrackerOK ==
    /\ IdsMarked
    /\ \A c \in receipts :
          /\ ~c.tracked /\ c.outcome # "Retry" => marked_up_to(c.id)
          /\ c.outcome \in {"Applied", "TerminalRejected"} => c.id \in settled
    /\ \A k \in DOMAIN effects :
          \/ marked_up_to(effects[k])
          \/ \E c \in receipts : c.tracked /\ c.id = effects[k] /\ c.outcome = "Applied"

\* A request that is still under way finds its row under its token only if the
\* row is none of this process's, or is marked.
LateOK ==
    \A m \in late, r \in queue :
       id(r) = m.id /\ r.token = m.token /\ local(m.id) => marked_up_to(m.id)

\* The rows before a row of a delivery are in the delivery or gone.
PrefixOK ==
    /\ \A l \in lanes : \A k \in DOMAIN l.rows, j \in SignalId :
          lower(j, l.rows[k]) /\ queued(j)
          => \E h \in DOMAIN l.rows : h < k /\ l.rows[h] = j
    /\ inbox # None =>
          \A i \in inbox.ids, j \in SignalId :
             lower(j, i) /\ queued(j) => j \in inbox.ids

\* The high-water mark covers only signals that have an outcome.  It is kept per
\* sender, so this is true of the first node id only.
SettledOK ==
    /\ \A s \in Senders : tracker.high[s] <= seqs[s][1]
    /\ \A i \in SignalId : marked_up_to(i) /\ queued(i) => i \in settled
    /\ \A m \in late : queued(m.id) => m.id \in settled
    /\ acked \subseteq settled

\* One application per sender, of its first unmarked signal.
OrderOK ==
    /\ \A i \in SignalId : local(i) /\ ~queued(i) => marked_up_to(i)
    /\ \A c \in receipts : c.tracked =>
          /\ ~marked_up_to(c.id)
          /\ c.id.seq \notin Unsupported
          /\ \A j \in SignalId : lower(j, c.id) /\ queued(j) => marked_up_to(j)
    /\ \A c, d \in receipts : c.tracked /\ d.tracked /\ c.id.from = d.id.from => c = d
    /\ AppliedInSendOrder

\* While no row has ended by age, the rows a lane has still to acknowledge are
\* leased to it.
LeaseOK ==
    /\ \A r \in queue : ~r.expired
    /\ \A l \in lanes :
          l.open /\ l.batch > expiredThrough /\ l.reg.node = node =>
             \A k \in DOMAIN l.rows : k > l.acked =>
                \E r \in queue : id(r) = l.rows[k] /\ r.token = l.batch
    /\ inbox # None /\ polls > expiredThrough /\ inbox.reg.node = node =>
          \A i \in inbox.ids : \E r \in queue : id(r) = i /\ r.token = polls
    /\ LeaseFencesLaterRows

\* The inductive invariant.
Inv ==
    /\ Typed /\ KeysOK /\ NamesOK /\ LanesOK /\ BatchesOK /\ HandsOK /\ ReceiptsOK
    /\ TrackerOK /\ LateOK
    /\ PrefixOK
    /\ node = 1 => SettledOK
    /\ node = 1 /\ expiries = 0 => OrderOK
    /\ expiries = 0 => LeaseOK

-----------------------------------------------------------------------------
(* Lemmas about data: what in_order and the choice of a receipt's number   *)
(* return.                                                                 *)

\* A non-empty set of numbers has a least one; a bounded one has a greatest.
LEMMA LeastNat ==
    ASSUME NEW T, T \subseteq Nat, T # {}
    PROVE  \E x \in T : \A y \in T : x <= y
<1>1. PICK x \in T : \A y \in T : <<y, x>> \notin OpToRel(<, Nat)
  BY NatLessThanWellFounded, WFMin
<1>2. \A y \in T : ~(y < x)
  BY <1>1 DEF OpToRel
<1> QED BY <1>2

LEMMA GreatestNat ==
    ASSUME NEW n \in Nat, NEW T, T \subseteq 0..n, T # {}
    PROVE  \E x \in T : \A y \in T : y <= x
<1> DEFINE U == {n - t : t \in T}
<1>1. U \subseteq Nat
  OBVIOUS
<1>2. PICK t \in T : TRUE
  OBVIOUS
<1>3. n - t \in U
  OBVIOUS
<1> HIDE DEF U
<1>4. PICK u \in U : \A v \in U : u <= v
  BY <1>1, <1>3, LeastNat
<1>5. PICK x \in T : u = n - x
  BY DEF U
<1>6. ASSUME NEW y \in T PROVE y <= x
  <2>1. n - y \in U
    BY DEF U
  <2> QED BY <1>4, <1>5, <2>1
<1> QED BY <1>6

\* Signals of one pair, and a list of them by number.
OneSender(S) ==
    /\ S \subseteq SignalId
    /\ \A i, j \in S : i.from = j.from /\ i.to = j.to

enumerates(q, S) ==
    /\ q \in [1..Cardinality(S) -> S]
    /\ \A j, k \in 1..Cardinality(S) : j < k => q[j].seq < q[k].seq

\* In such a set the number is a key, so the set is finite and can be listed.
LEMMA SameSeq ==
    ASSUME NEW S, OneSender(S), NEW i \in S, NEW j \in S, i.seq = j.seq
    PROVE  i = j
  BY DEF OneSender, SignalId

LEMMA OneSenderFinite ==
    ASSUME NEW S, OneSender(S)
    PROVE  IsFiniteSet(S)
<1> DEFINE f == [i \in S |-> i.seq]
<1>1. f \in [S -> 1..MaxSeq]
  BY DEF OneSender, SignalId
<1>2. \A i, j \in S : f[i] = f[j] => i = j
  BY SameSeq
<1>3. f \in Injection(S, 1..MaxSeq)
  BY <1>1, <1>2 DEF Injection, IsInjective
<1>4. IsFiniteSet(1..MaxSeq)
  BY FS_Interval, QueueConstants
<1> QED BY <1>3, <1>4, FS_Injection

LEMMA Enumerable ==
    ASSUME NEW S, OneSender(S)
    PROVE  \E q : enumerates(q, S)
<1> DEFINE missing(T) == OneSender(T) /\ ~\E q : enumerates(q, T)
           N == {n \in Nat : \E T \in SUBSET SignalId : missing(T) /\ Cardinality(T) = n}
<1>1. SUFFICES ASSUME missing(S) PROVE FALSE
  OBVIOUS
<1>2. Cardinality(S) \in N
  BY <1>1, OneSenderFinite, FS_CardinalityType DEF OneSender
<1>3. N \subseteq Nat /\ N # {}
  BY <1>2
<1> HIDE DEF N
<1>4. PICK n \in N : \A m \in N : n <= m
  BY <1>3, LeastNat
<1>5. PICK T \in SUBSET SignalId : missing(T) /\ Cardinality(T) = n
  BY DEF N
<1>6. IsFiniteSet(T)
  BY <1>5, OneSenderFinite
<1>7. T # {}
  <2>1. ASSUME T = {} PROVE FALSE
    <3>1. Cardinality(T) = 0
      BY <2>1, FS_EmptySet
    <3>2. enumerates([k \in 1..0 |-> 0], T)
      BY <2>1, <3>1 DEF enumerates
    <3> QED BY <1>5, <3>2
  <2> QED BY <2>1
<1>8. PICK top \in T : \A i \in T : i.seq <= top.seq
  <2> DEFINE K == {i.seq : i \in T}
  <2>1. K \subseteq 0..MaxSeq /\ K # {}
    BY <1>7, QueueConstants DEF SignalId
  <2> HIDE DEF K
  <2>2. PICK m \in K : \A k \in K : k <= m
    BY <2>1, GreatestNat, QueueConstants
  <2>3. PICK top \in T : m = top.seq
    BY DEF K
  <2>4. \A i \in T : i.seq \in K
    BY DEF K
  <2> QED BY <2>2, <2>3, <2>4
<1> DEFINE U == T \ {top}
<1>9. IsFiniteSet(U) /\ Cardinality(U) = n - 1 /\ n \in Nat /\ n # 0
  BY <1>3, <1>5, <1>6, <1>7, FS_RemoveElement, FS_EmptySet
<1>10. OneSender(U) /\ U \in SUBSET SignalId
  BY <1>5 DEF OneSender
<1>11. n - 1 \notin N
  BY <1>4, <1>9
<1>12. PICK q : enumerates(q, U)
  BY <1>9, <1>10, <1>11 DEF N
<1> DEFINE p == [k \in 1..n |-> IF k = n THEN top ELSE q[k]]
<1>13. q \in [1..(n - 1) -> U] /\ \A j, k \in 1..(n - 1) : j < k => q[j].seq < q[k].seq
  BY <1>9, <1>12 DEF enumerates
<1>14. p \in [1..n -> T]
  BY <1>9, <1>13
<1>15. \A i \in U : i.seq < top.seq
  <2>1. ASSUME NEW i \in U PROVE i.seq < top.seq
    <3>1. i.seq <= top.seq /\ i.seq # top.seq
      BY <1>5, <1>8, SameSeq
    <3> QED BY <3>1 DEF SignalId
  <2> QED BY <2>1
<1>16. ASSUME NEW j \in 1..n, NEW k \in 1..n, j < k PROVE p[j].seq < p[k].seq
  <2>1. j \in 1..(n - 1) /\ p[j] = q[j]
    BY <1>9, <1>16
  <2>2. CASE k = n
    BY <1>13, <1>15, <2>1, <2>2
  <2>3. CASE k # n
    BY <1>9, <1>13, <2>1, <2>3, <1>16
  <2> QED BY <2>2, <2>3
<1>17. enumerates(p, T)
  BY <1>5, <1>14, <1>16 DEF enumerates
<1> QED BY <1>5, <1>17

\* in_order lists a set of one sender's signals, each once, by sequence number.
LEMMA InOrder ==
    ASSUME NEW S, OneSender(S), S # {}
    PROVE  /\ in_order(S) \in Seq(SignalId)
           /\ Len(in_order(S)) >= 1
           /\ \A k \in DOMAIN in_order(S) : in_order(S)[k] \in S
           /\ \A j, k \in DOMAIN in_order(S) : j < k => in_order(S)[j].seq < in_order(S)[k].seq
           /\ \A i \in S : \E k \in DOMAIN in_order(S) : in_order(S)[k] = i
<1> DEFINE q == in_order(S)
           n == Cardinality(S)
<1>1. IsFiniteSet(S) /\ n \in Nat /\ n # 0
  BY OneSenderFinite, FS_CardinalityType, FS_EmptySet
<1>2. \E p \in [1..n -> S] : \A j, k \in 1..n : j < k => p[j].seq < p[k].seq
  BY Enumerable DEF enumerates
<1>3. q \in [1..n -> S] /\ \A j, k \in 1..n : j < k => q[j].seq < q[k].seq
  BY <1>2 DEF in_order
<1> HIDE DEF q, n
<1>4. q \in Seq(SignalId) /\ Len(q) = n /\ DOMAIN q = 1..n
  BY <1>1, <1>3 DEF OneSender
<1>5. q \in Injection(1..n, S)
  <2>1. ASSUME NEW j \in 1..n, NEW k \in 1..n, j < k PROVE q[j] # q[k]
    <3>1. q[j].seq < q[k].seq /\ q[j] \in SignalId /\ q[k] \in SignalId
      BY <1>3, <2>1 DEF OneSender
    <3> QED BY <3>1 DEF SignalId
  <2>2. \A j, k \in 1..n : q[j] = q[k] => j = k
    BY <1>1, <2>1
  <2> QED BY <1>3, <2>2 DEF Injection, IsInjective
<1>6. q \in Surjection(1..n, S)
  BY <1>1, <1>5, FS_Injection, FS_Interval DEF n
<1>7. \A i \in S : \E k \in 1..n : q[k] = i
  BY <1>6 DEF Surjection
<1> QED BY <1>1, <1>3, <1>4, <1>7 DEF q

\* Some number up to one more than the receipts is free for a signal.
LEMMA FreshReceipt ==
    ASSUME NEW R, IsFiniteSet(R), NEW i
    PROVE  \E k \in 1..(Cardinality(R) + 1) : \A c \in R : c.id = i => c.n # k
<1> DEFINE K == 1..(Cardinality(R) + 1)
<1>1. SUFFICES ASSUME \A k \in K : \E c \in R : c.n = k PROVE FALSE
  OBVIOUS
<1>2. Cardinality(R) \in Nat
  BY FS_CardinalityType
<1>3. IsFiniteSet(K) /\ Cardinality(K) = Cardinality(R) + 1
  BY <1>2, FS_Interval
<1> DEFINE f == [k \in K |-> CHOOSE c \in R : c.n = k]
<1>4. f \in [K -> R] /\ \A k \in K : f[k].n = k
  BY <1>1
<1> HIDE DEF f, K
<1>5. \E x, y \in K : x # y /\ f[x] = f[y]
  BY <1>2, <1>3, <1>4, FS_PigeonHole
<1> QED BY <1>4, <1>5

-----------------------------------------------------------------------------
(* Steps of a lane.                                                        *)

LaneTyped(l) ==
    l \in Lane /\ l.pos \in 1..(Len(l.rows) + 1) /\ l.acked \in 0..(l.pos - 1)

\* k2 is a later state of lane k.
Follows(k, k2) ==
    /\ k2.batch = k.batch /\ k2.from = k.from /\ k2.reg = k.reg /\ k2.rows = k.rows
    /\ k2.open => k.open
    /\ k2.acked >= k.acked

LanesFollow == \A k2 \in lanes' : \E k \in lanes : Follows(k, k2)

Unique(ls) == \A l, k \in ls : l.batch = k.batch /\ l.from = k.from => l = k

\* k2 waits for the receipt that k waits for.
SamePlace(k, k2) ==
    /\ k2.phase = k.phase /\ row(k2) = row(k) /\ k2.n = k.n
    /\ k2.batch = k.batch /\ k2.from = k.from

PlacesKept ==
    \A k2 \in lanes' :
       k2.phase \in {"next", "done"} \/ \E k \in lanes : SamePlace(k, k2)

InboxKept == inbox' \in {inbox, None}

LocalKept == \A i \in SignalId : local(i)' => local(i)

LEMMA Itself == ASSUME Typed, NEW k \in lanes PROVE LaneTyped(k) /\ Follows(k, k)
  BY DEF Typed, TypeOK, LaneTyped, Follows, Lane

LEMMA Replaced ==
    ASSUME Typed, BatchesOK, NEW l \in lanes, NEW l2, LaneTyped(l2), Follows(l, l2),
           becomes(l, l2)
    PROVE  /\ lanes' \subseteq (lanes \ {l}) \cup {l2}
           /\ lanes \ {l} \subseteq lanes'
           /\ \A k \in lanes' : LaneTyped(k)
           /\ LanesFollow
           /\ Unique(lanes')
<1>1. lanes' \subseteq (lanes \ {l}) \cup {l2} /\ lanes \ {l} \subseteq lanes'
  BY DEF becomes, with_lane
<1>2. \A k \in lanes' : LaneTyped(k)
  BY <1>1, Itself
<1>3. LanesFollow
  BY <1>1, Itself DEF LanesFollow
<1>4. Unique(lanes')
  BY <1>1 DEF BatchesOK, Follows, Unique
<1> QED BY <1>1, <1>2, <1>3, <1>4

LEMMA LanesStay ==
    ASSUME Typed, BatchesOK, lanes' \in {lanes, {}}
    PROVE  (\A k \in lanes' : LaneTyped(k)) /\ LanesFollow /\ Unique(lanes') /\ PlacesKept
<1>1. Unique(lanes')
  BY DEF BatchesOK, Unique
<1>2. PlacesKept
  BY DEF PlacesKept, SamePlace
<1> QED BY <1>1, <1>2, Itself DEF LanesFollow

-----------------------------------------------------------------------------
(* What each part of the invariant needs of a step.                        *)

LEMMA LanesTyped ==
    ASSUME \A k \in lanes' : LaneTyped(k)
    PROVE  /\ lanes' \subseteq Lane
           /\ \A l \in lanes' : l.pos \in 1..(Len(l.rows) + 1) /\ l.acked \in 0..(l.pos - 1)
  BY DEF LaneTyped

LEMMA KeysKept == ASSUME KeysOK, UNCHANGED queueVars PROVE KeysOK'
  BY DEF KeysOK, queueVars

LEMMA LocalShrinks ==
    ASSUME Typed, LanesFollow, InboxKept, \A c \in receipts' : local(c.id)
    PROVE  LocalKept
<1> SUFFICES ASSUME NEW i \in SignalId, local(i)' PROVE local(i)
  BY DEF LocalKept
<1>1. CASE inbox' # None /\ i \in inbox'.ids
  BY <1>1 DEF InboxKept, local
<1>2. CASE \E l \in lanes' : i \in ids_of(l)
  BY <1>2 DEF LanesFollow, Follows, ids_of, local
<1>3. CASE \E c \in receipts' : c.id = i
  BY <1>3
<1> QED BY <1>1, <1>2, <1>3 DEF local

LEMMA NamesKept ==
    ASSUME NamesOK, LocalKept, Typed,
           \A l \in lanes' : l.reg.node <= nodes,
           InboxKept, auth' \in {auth, None},
           \A m \in late' : m \in late \/ (m.id \in SignalId /\ local(m.id)),
           UNCHANGED <<seqs, node, nodes>>
    PROVE  NamesOK'
<1>1. \A i : created(i)' <=> created(i)
  BY DEF created
<1>2. nodes' = nodes
  OBVIOUS
<1> QED BY <1>1, <1>2 DEF NamesOK, LocalKept, InboxKept

LEMMA NodesFollow ==
    ASSUME NamesOK, LanesFollow PROVE \A l \in lanes' : l.reg.node <= nodes
  BY DEF NamesOK, LanesFollow, Follows

LEMMA BatchesKept ==
    ASSUME Typed, BatchesOK, LanesFollow, Unique(lanes'), InboxKept, UNCHANGED polls,
           \A m \in late' : m \in late \/ \E l \in lanes : m.token = l.batch,
           \A t \in releasing' :
              \/ t \in releasing
              \/ \E l \in lanes : t.token = l.batch
              \/ inbox # None /\ inbox' = None /\ t.token = polls
    PROVE  BatchesOK'
<1>1. \A l2 \in lanes' : \E l \in lanes : l2.batch = l.batch
  BY DEF LanesFollow, Follows
<1>2. \A l, k \in lanes' : l.batch = k.batch /\ l.from = k.from => l = k
  BY DEF Unique
<1>3. \A l \in lanes' : l.batch \in 1..polls
  BY <1>1 DEF BatchesOK
<1>4. \A m \in late' : m.token \in 1..polls
  BY DEF BatchesOK
<1>5. \A t \in releasing' : t.token \in 1..polls
  <2>1. inbox # None => polls \in 1..polls
    BY DEF BatchesOK, Typed, TypeOK, QueueTypeOK
  <2> QED BY <2>1 DEF BatchesOK
<1>6. inbox' # None =>
          /\ inbox'.batch = polls
          /\ polls # 0
          /\ \A i \in inbox'.ids : i.to = inbox'.reg.node
          /\ \A l \in lanes' : l.batch # polls
          /\ \A m \in late' : m.token # polls
          /\ \A t \in releasing' : t.token # polls
  BY <1>1 DEF BatchesOK, InboxKept
<1> QED BY <1>2, <1>3, <1>4, <1>5, <1>6 DEF BatchesOK

LEMMA HandsKept ==
    ASSUME HandsOK, LanesFollow, late' \subseteq late, releasing' \subseteq releasing
    PROVE  HandsOK'
  BY DEF HandsOK, LanesFollow, Follows

LEMMA ReceiptsKept ==
    ASSUME ReceiptsOK, PlacesKept, UNCHANGED receipts
    PROVE  ReceiptsOK'
<1>1. \A k2 \in lanes' : k2.phase \in {"started", "waiting"} =>
         \E k \in lanes : k.phase = k2.phase /\ row(k) = row(k2) /\ k.n = k2.n
                          /\ k.batch = k2.batch /\ k.from = k2.from
  BY DEF PlacesKept, SamePlace
<1>2. \A k2 \in lanes' : k2.phase \in {"started", "waiting"} =>
                            \E c \in receipts' : waits(k2, c)
  BY <1>1 DEF ReceiptsOK, waits
<1>3. \A k2 \in lanes', c \in receipts' :
         k2.phase = "started" /\ waits(k2, c) => c.outcome = "Undispatched"
  BY <1>1 DEF ReceiptsOK, waits
<1>4. \A l, k \in lanes' :
          /\ l.phase = "started" /\ k.phase = "started"
          /\ row(l) = row(k) /\ l.n = k.n
          => l.batch = k.batch /\ l.from = k.from
  BY <1>1 DEF ReceiptsOK
<1> QED BY <1>2, <1>3, <1>4 DEF ReceiptsOK, waits, row

LEMMA TrackerKept ==
    ASSUME TrackerOK, UNCHANGED <<tracker, receipts, effects>>, settled \subseteq settled'
    PROVE  TrackerOK'
  BY DEF TrackerOK, IdsMarked, marked_up_to

LEMMA LateKept ==
    ASSUME Typed, LateOK, LocalKept,
           \A i \in SignalId : marked_up_to(i) => marked_up_to(i)',
           \A m \in late' : m \in late \/ (m.id \in SignalId /\ marked_up_to(m.id)),
           queue' \subseteq queue
    PROVE  LateOK'
<1> SUFFICES ASSUME NEW m \in late', NEW r \in queue', id(r) = m.id, r.token = m.token,
                    local(m.id)'
             PROVE  marked_up_to(m.id)'
  BY DEF LateOK, id
<1>1. m.id \in SignalId
  BY DEF Typed
<1>2. m \in late => marked_up_to(m.id)
  BY <1>1 DEF LateOK, LocalKept
<1> QED BY <1>1, <1>2

LEMMA PrefixKept ==
    ASSUME Typed, PrefixOK, LanesFollow, InboxKept,
           \A i \in SignalId : queued(i)' => queued(i)
    PROVE  PrefixOK'
<1>1. ASSUME NEW l2 \in lanes', NEW k \in DOMAIN l2.rows, NEW j \in SignalId,
             lower(j, l2.rows[k]), queued(j)'
      PROVE  \E h \in DOMAIN l2.rows : h < k /\ l2.rows[h] = j
  BY <1>1 DEF PrefixOK, LanesFollow, Follows
<1>2. ASSUME inbox' # None, NEW i \in inbox'.ids, NEW j \in SignalId, lower(j, i), queued(j)'
      PROVE  j \in inbox'.ids
  BY <1>2 DEF PrefixOK, InboxKept
<1> QED BY <1>1, <1>2 DEF PrefixOK, lower

LEMMA SettledKept ==
    ASSUME Typed, SettledOK, UNCHANGED tracker,
           UNCHANGED <<queue, seqs, acked>>, settled \subseteq settled',
           \A m \in late' : m \in late \/ (m.id \in SignalId /\ marked_up_to(m.id))
    PROVE  SettledOK'
<1>1. \A i : (queued(i)' <=> queued(i)) /\ (marked_up_to(i)' <=> marked_up_to(i))
  BY DEF queued, marked_up_to
<1> QED BY <1>1 DEF SettledOK

LEMMA OrderKept ==
    ASSUME OrderOK, LocalKept, UNCHANGED <<tracker, receipts, effects, queue>>
    PROVE  OrderOK'
<1>1. \A i : (queued(i)' <=> queued(i)) /\ (marked_up_to(i)' <=> marked_up_to(i))
  BY DEF queued, marked_up_to
<1>2. AppliedInSendOrder'
  BY DEF OrderOK, AppliedInSendOrder
<1> QED BY <1>1, <1>2 DEF OrderOK, LocalKept, lower

LEMMA LeaseKept ==
    ASSUME Typed, LeaseOK, LanesFollow, \A k \in lanes' : LaneTyped(k), InboxKept,
           UNCHANGED queueVars
    PROVE  LeaseOK'
<1> USE DEF LeaseOK, queueVars
<1>1. \A r \in queue' : ~r.expired
  OBVIOUS
<1>2. ASSUME NEW l2 \in lanes', l2.open, l2.batch > expiredThrough', l2.reg.node = node',
             NEW k \in DOMAIN l2.rows, k > l2.acked
      PROVE  \E r \in queue' : id(r) = l2.rows[k] /\ r.token = l2.batch
  <2>1. PICK l \in lanes : Follows(l, l2)
    BY DEF LanesFollow
  <2>2. k > l.acked
    <3>1. l2.acked >= l.acked /\ {l.acked, l2.acked} \subseteq Nat
      BY <2>1 DEF Follows, Typed, LaneTyped, Lane
    <3>2. DOMAIN l2.rows \subseteq Nat
      BY DEF LaneTyped, Lane
    <3> QED BY <1>2, <3>1, <3>2
  <2> QED BY <1>2, <2>1, <2>2 DEF Follows
<1>3. inbox' # None /\ polls' > expiredThrough' /\ inbox'.reg.node = node' =>
          \A i \in inbox'.ids : \E r \in queue' : id(r) = i /\ r.token = polls'
  BY DEF InboxKept
<1>4. LeaseFencesLaterRows'
  <2> SUFFICES ASSUME NEW l2 \in lanes', NEW r \in queue, l2.open,
                      l2.batch > expiredThrough, r.from = l2.from, r.to = l2.reg.node,
                      r.token > l2.batch, NEW k \in (l2.acked + 1)..Len(l2.rows)
               PROVE  r.seq < l2.rows[k].seq
    BY DEF LeaseFencesLaterRows
  <2>1. PICK l \in lanes : Follows(l, l2)
    BY DEF LanesFollow
  <2>2. k \in (l.acked + 1)..Len(l.rows)
    <3>1. l2.acked >= l.acked /\ {l.acked, l2.acked} \subseteq Nat
      BY <2>1 DEF Follows, Typed, LaneTyped, Lane
    <3>2. l2.rows = l.rows /\ l.rows \in Seq(SignalId)
      BY <2>1 DEF Follows, Typed, Lane
    <3> QED BY <3>1, <3>2
  <2> QED BY <2>1, <2>2 DEF LeaseFencesLaterRows, Follows
<1> QED BY <1>1, <1>2, <1>3, <1>4 DEF id
LEMMA RowsKept ==
    ASSUME NEW k \in Lane, RowsOK(k), NEW k2, Follows(k, k2), k2.pos = k.pos,
           k2.phase # "done" => k.phase # "done",
           \A i \in SignalId : marked_up_to(i) => marked_up_to(i)'
    PROVE  RowsOK(k2)'
<1>1. k2.rows = k.rows /\ k2.from = k.from /\ k2.reg = k.reg /\ k.rows \in Seq(SignalId)
  BY DEF Follows, Lane
<1> QED BY <1>1 DEF RowsOK

-----------------------------------------------------------------------------
(* Steps that only move a lane along.                                      *)

\* Requests and releases a step leaves behind are about a lane's own delivery.
LateGrows ==
    \A m \in late' : m \in late \/ \E l \in lanes : /\ m.token = l.batch
                                                  /\ m.id \in ids_of(l)
                                                  /\ marked_up_to(m.id)

ReleasingGrows ==
    \A t \in releasing' :
       \/ t \in releasing
       \/ \E l \in lanes : t.token = l.batch
       \/ inbox # None /\ inbox' = None /\ t.token = polls

LEMMA LanesMove ==
    ASSUME Inv, \A k \in lanes' : LaneTyped(k) /\ RowsOK(k)', LanesFollow, Unique(lanes'),
           PlacesKept, InboxKept, auth' \in {auth, None},
           auth' = None => regs < MaxRegistrations,
           late' \subseteq [id: SignalId, token: Nat], LateGrows,
           releasing' \subseteq [node: NodeIds, ids: SUBSET SignalId, token: Nat],
           ReleasingGrows, HandsOK',
           UNCHANGED <<queueVars, regs, tracker, receipts, expiries, history>>
    PROVE  Inv'
<1> USE DEF Inv
<1>1. Typed'
  BY LanesTyped DEF Typed, TypeOK, QueueTypeOK, queueVars, history, InboxKept
<1>2. LocalKept
  BY LocalShrinks DEF local
<1>3. KeysOK'
  BY KeysKept
<1>4. \A l \in lanes : \A i \in ids_of(l) : i \in SignalId /\ local(i)
  BY DEF Typed, Lane, ids_of, local
<1>5. \A m \in late' : m \in late \/ (m.id \in SignalId /\ local(m.id))
  BY <1>4 DEF LateGrows
<1>6. \A m \in late' : m \in late \/ (m.id \in SignalId /\ marked_up_to(m.id))
  BY <1>4 DEF LateGrows
<1>7. \A i : marked_up_to(i)' <=> marked_up_to(i)
  BY DEF marked_up_to
<1>8. NamesOK'
  <2>1. \A l \in lanes' : l.reg.node <= nodes
    BY NodesFollow
  <2> QED BY <1>2, <1>5, <2>1, NamesKept DEF queueVars
<1>9. LanesOK'
  BY DEF LanesOK
<1>10. BatchesOK'
  BY BatchesKept DEF queueVars, LateGrows, ReleasingGrows
<1>11. ReceiptsOK'
  BY ReceiptsKept
<1>12. TrackerOK'
  BY TrackerKept DEF history
<1>13. LateOK'
  BY <1>2, <1>6, <1>7, LateKept DEF queueVars
<1>14. PrefixOK'
  BY PrefixKept DEF queueVars, queued
<1>15. (node = 1 => SettledOK)'
  BY <1>6, SettledKept DEF queueVars, history
<1>16. (node = 1 /\ expiries = 0 => OrderOK)'
  BY <1>2, OrderKept DEF queueVars, history
<1>17. (expiries = 0 => LeaseOK)'
  BY LeaseKept
<1> QED BY <1>1, <1>3, <1>8, <1>9, <1>10, <1>11, <1>12, <1>13, <1>14, <1>15, <1>16, <1>17

LEMMA LanesOnly ==
    ASSUME Inv, \A k \in lanes' : LaneTyped(k) /\ RowsOK(k)', LanesFollow, Unique(lanes'),
           PlacesKept, InboxKept, auth' \in {auth, None},
           auth' = None => regs < MaxRegistrations,
           UNCHANGED <<queueVars, regs, tracker, receipts, releasing, late, expiries, history>>
    PROVE  Inv'
<1>1. late' \subseteq [id: SignalId, token: Nat] /\ LateGrows
  BY DEF Inv, Typed, LateGrows
<1>2. releasing' \subseteq [node: NodeIds, ids: SUBSET SignalId, token: Nat] /\ ReleasingGrows
  BY DEF Inv, Typed, ReleasingGrows
<1>3. HandsOK'
  BY HandsKept DEF Inv
<1> QED BY <1>1, <1>2, <1>3, LanesMove

LEMMA PollLostKeeps == ASSUME Inv, PollLost PROVE Inv'
<1> USE DEF Inv, PollLost
<1>1. \A k \in lanes' : LaneTyped(k) /\ RowsOK(k)'
  BY Itself DEF LanesOK, RowsOK, marked_up_to
<1>2. LanesFollow /\ Unique(lanes') /\ PlacesKept
  BY LanesStay
<1> QED BY <1>1, <1>2, LanesOnly DEF InboxKept, Typed

LEMMA RevokeKeeps == ASSUME Inv, Revoke PROVE Inv'
<1> USE DEF Inv, Revoke
<1>1. \A k \in lanes' : LaneTyped(k) /\ RowsOK(k)'
  BY Itself DEF LanesOK, RowsOK, marked_up_to
<1>2. LanesFollow /\ Unique(lanes') /\ PlacesKept
  BY LanesStay
<1> QED BY <1>1, <1>2, LanesOnly DEF InboxKept, Typed

\* A lane that ends leaves everything else as it is.
LEMMA LaneEnds ==
    ASSUME Inv, NEW l \in lanes, becomes(l, [l EXCEPT !.phase = "done"]),
           UNCHANGED <<queueVars, auth, regs, inbox, tracker, receipts, releasing, late,
                       expiries, history>>
    PROVE  Inv'
<1> DEFINE l2 == [l EXCEPT !.phase = "done"]
<1> USE DEF Inv
<1>1. LaneTyped(l) /\ RowsOK(l)
  BY Itself DEF LanesOK
<1>2. LaneTyped(l2) /\ Follows(l, l2) /\ l2.phase = "done" /\ l2.pos = l.pos
  BY <1>1 DEF LaneTyped, Lane, Follows
<1> HIDE DEF l2
<1>3. /\ lanes' \subseteq (lanes \ {l}) \cup {l2}
      /\ \A k \in lanes' : LaneTyped(k)
      /\ LanesFollow
      /\ Unique(lanes')
  BY <1>2, Replaced DEF l2
<1>4. \A i : marked_up_to(i) => marked_up_to(i)'
  BY DEF marked_up_to
<1>5. RowsOK(l2)'
  BY <1>1, <1>2, <1>4, RowsKept DEF LaneTyped
<1>6. \A k \in lanes : RowsOK(k)'
  BY DEF LanesOK, RowsOK, marked_up_to
<1>7. PlacesKept
  BY <1>2, <1>3 DEF PlacesKept, SamePlace
<1> QED BY <1>3, <1>5, <1>6, <1>7, LanesOnly DEF InboxKept, Typed

LEMMA ApplyStopsKeeps == ASSUME Inv, NEW l \in lanes, ApplyStops(l) PROVE Inv'
  BY LaneEnds DEF ApplyStops

LEMMA WaitTimedOutKeeps == ASSUME Inv, NEW l \in lanes, WaitTimedOut(l) PROVE Inv'
  BY LaneEnds DEF WaitTimedOut

LEMMA Closed ==
    ASSUME Inv, NEW l \in lanes, becomes(l, closed(l)),
           UNCHANGED <<queueVars, auth, regs, inbox, tracker, receipts, expiries, history>>,
           late' \subseteq late \cup
               (IF l.acked + 1 < l.pos
                THEN {[id |-> l.rows[l.acked + 1], token |-> l.batch]} ELSE {}),
           releasing' \subseteq releasing \cup
               {[node |-> l.reg.node, ids |-> ids_of(l), token |-> l.batch]}
    PROVE  Inv'
<1> DEFINE l2 == closed(l)
<1> USE DEF Inv
<1>1. LaneTyped(l) /\ RowsOK(l)
  BY Itself DEF LanesOK
<1>2. /\ LaneTyped(l2) /\ Follows(l, l2) /\ ~l2.open /\ l2.pos = l.pos
      /\ l2.phase \in {l.phase, "done"}
      /\ l2.n = l.n /\ l2.rows = l.rows
  <2>1. l \in Lane
    BY <1>1 DEF LaneTyped
  <2>2. CASE l.phase = "next"
    <3>1. l2 = [l EXCEPT !.open = FALSE, !.phase = "done"]
      BY <2>2 DEF closed
    <3>2. l2 \in Lane /\ ~l2.open /\ l2.phase = "done"
      BY <2>1, <3>1 DEF Lane
    <3>3. Follows(l, l2) /\ l2.pos = l.pos /\ l2.n = l.n /\ l2.acked = l.acked
      BY <2>1, <3>1 DEF Lane, Follows
    <3> QED BY <1>1, <3>2, <3>3 DEF LaneTyped, Follows
  <2>3. CASE l.phase # "next"
    <3>1. l2 = [l EXCEPT !.open = FALSE]
      BY <2>1, <2>3 DEF closed, Lane
    <3>2. l2 \in Lane /\ ~l2.open /\ l2.phase = l.phase
      BY <2>1, <3>1 DEF Lane
    <3>3. Follows(l, l2) /\ l2.pos = l.pos /\ l2.n = l.n /\ l2.acked = l.acked
      BY <2>1, <3>1 DEF Lane, Follows
    <3> QED BY <1>1, <3>2, <3>3 DEF LaneTyped, Follows
  <2> QED BY <2>2, <2>3
<1> HIDE DEF l2
<1>3. /\ lanes' \subseteq (lanes \ {l}) \cup {l2}
      /\ \A k \in lanes' : LaneTyped(k)
      /\ LanesFollow
      /\ Unique(lanes')
  BY <1>2, Replaced DEF l2
<1>4. \A i : marked_up_to(i) => marked_up_to(i)'
  BY DEF marked_up_to
<1>5. RowsOK(l2)'
  BY <1>1, <1>2, <1>4, RowsKept DEF LaneTyped
<1>6. \A k \in lanes : RowsOK(k)'
  BY DEF LanesOK, RowsOK, marked_up_to
<1>7. PlacesKept
  <2>1. \A k \in lanes : SamePlace(k, k)
    BY DEF SamePlace
  <2>2. l2.phase = "done" \/ SamePlace(l, l2)
    BY <1>2 DEF SamePlace, row, Follows
  <2> QED BY <1>3, <2>1, <2>2 DEF PlacesKept
<1>8. l.acked + 1 < l.pos =>
         /\ l.acked + 1 \in DOMAIN l.rows
         /\ l.rows[l.acked + 1] \in SignalId
         /\ l.rows[l.acked + 1] \in ids_of(l)
         /\ l.rows[l.acked + 1].from = l.from
         /\ marked_up_to(l.rows[l.acked + 1])
  <2> SUFFICES ASSUME l.acked + 1 < l.pos
               PROVE  /\ l.acked + 1 \in DOMAIN l.rows
                      /\ l.rows[l.acked + 1] \in SignalId
                      /\ l.rows[l.acked + 1] \in ids_of(l)
                      /\ l.rows[l.acked + 1].from = l.from
                      /\ marked_up_to(l.rows[l.acked + 1])
    OBVIOUS
  <2>1. l.acked + 1 \in DOMAIN l.rows
    BY <1>1 DEF LaneTyped, Lane
  <2> QED BY <1>1, <2>1 DEF LaneTyped, Lane, RowsOK, ids_of
<1>9. l.batch \in Nat /\ l.reg.node \in NodeIds /\ ids_of(l) \subseteq SignalId
  BY <1>1 DEF LaneTyped, Lane, Reg, ids_of
<1>10. late' \subseteq [id: SignalId, token: Nat] /\ LateGrows
  <2>1. \A m \in late' : m \in late \/ ( /\ l.acked + 1 < l.pos
                                       /\ m = [id |-> l.rows[l.acked + 1], token |-> l.batch])
    OBVIOUS
  <2> QED BY <1>8, <1>9, <2>1 DEF Typed, LateGrows
<1>11. /\ releasing' \subseteq [node: NodeIds, ids: SUBSET SignalId, token: Nat]
       /\ ReleasingGrows
  BY <1>9 DEF Typed, ReleasingGrows
<1>12. HandsOK'
  <2>1. \A k \in lanes' : k.open => k \in lanes /\ k # l
    BY <1>2, <1>3
  <2>2. \A k \in lanes' : k.open /\ k.batch = l.batch => k.from # l.from
    BY <2>1 DEF BatchesOK
  <2>3. \A m \in late' : m \in late \/ (m.token = l.batch /\ m.id.from = l.from)
    BY <1>8
  <2>4. \A i \in ids_of(l) : i.from = l.from
    BY <1>1 DEF RowsOK, ids_of
  <2>5. \A t \in releasing' : t \in releasing \/ (t.token = l.batch /\ t.ids = ids_of(l))
    OBVIOUS
  <2>6. \A k \in lanes', m \in late' :
           k.open /\ m.token = k.batch => m.id.from # k.from
    BY <2>1, <2>2, <2>3 DEF HandsOK
  <2>7. \A k \in lanes', t \in releasing' :
           k.open /\ t.token = k.batch => \A i \in t.ids : i.from # k.from
    BY <2>1, <2>2, <2>4, <2>5 DEF HandsOK
  <2> QED BY <2>6, <2>7 DEF HandsOK
<1> QED BY <1>3, <1>5, <1>6, <1>7, <1>10, <1>11, <1>12, LanesMove DEF InboxKept, Typed

LEMMA AckFailedKeeps == ASSUME Inv, NEW l \in lanes, AckFailed(l) PROVE Inv'
  BY Closed DEF AckFailed

LEMMA LaneRevokedKeeps == ASSUME Inv, NEW l \in lanes, LaneRevoked(l) PROVE Inv'
  BY Closed DEF LaneRevoked

-----------------------------------------------------------------------------
(* Applying.                                                               *)

LEMMA Marked ==
    ASSUME Typed, TrackerOK, NEW i \in SignalId, tracker' = marked(i)
    PROVE  /\ tracker' \in [ids: Seq(SignalId), high: [Senders -> 0..MaxSeq]]
           /\ Len(tracker'.ids) <= MaxRecentSignalIds
           /\ IdsMarked'
           /\ \A j \in SignalId : marked_up_to(j) => marked_up_to(j)'
           /\ marked_up_to(i)'
           /\ \A j \in SignalId : marked_up_to(j)' =>
                 marked_up_to(j) \/ (j.from = i.from /\ j.seq <= i.seq)
<1> DEFINE known == \E k \in DOMAIN tracker.ids : tracker.ids[k] = i
           longer == IF known THEN tracker.ids ELSE Append(tracker.ids, i)
           short == IF Len(longer) > MaxRecentSignalIds THEN Tail(longer) ELSE longer
           high == [tracker.high EXCEPT ![i.from] = IF i.seq > @ THEN i.seq ELSE @]
<1>1. tracker' = [ids |-> short, high |-> high]
  BY DEF marked
<1>2. /\ tracker.ids \in Seq(SignalId) /\ Len(tracker.ids) <= MaxRecentSignalIds
      /\ tracker.high \in [Senders -> 0..MaxSeq] /\ i.from \in Senders /\ i.seq \in 1..MaxSeq
      /\ MaxRecentSignalIds \in Nat /\ MaxRecentSignalIds > 0 /\ MaxSeq \in Nat
  BY DeliveryConstants, QueueConstants DEF Typed, TypeOK, SignalId
<1>3. /\ high \in [Senders -> 0..MaxSeq]
      /\ \A s \in Senders : high[s] = IF s = i.from /\ i.seq > tracker.high[s]
                                      THEN i.seq ELSE tracker.high[s]
  BY <1>2
<1>4. /\ longer \in Seq(SignalId)
      /\ Len(longer) <= MaxRecentSignalIds + 1
      /\ \A k \in DOMAIN longer : longer[k] = i \/ \E h \in DOMAIN tracker.ids : longer[k] = tracker.ids[h]
  BY <1>2
<1> HIDE DEF longer, high
<1>5. /\ short \in Seq(SignalId)
      /\ Len(short) <= MaxRecentSignalIds
      /\ \A k \in DOMAIN short : short[k] = i \/ \E h \in DOMAIN tracker.ids : short[k] = tracker.ids[h]
  <2>1. CASE Len(longer) > MaxRecentSignalIds
    <3>1. longer # <<>> /\ short = Tail(longer)
      BY <1>2, <1>4, <2>1
    <3>2. short \in Seq(SignalId) /\ Len(short) = Len(longer) - 1
      BY <1>4, <3>1
    <3>3. \A k \in DOMAIN short : k + 1 \in DOMAIN longer /\ short[k] = longer[k + 1]
      BY <1>4, <3>1, <3>2
    <3> QED BY <1>2, <1>4, <3>2, <3>3
  <2>2. CASE ~(Len(longer) > MaxRecentSignalIds)
    BY <1>2, <1>4, <2>2
  <2> QED BY <2>1, <2>2
<1> HIDE DEF short
<1>6. \A j \in SignalId : marked_up_to(j)' <=>
         (marked_up_to(j) \/ (j.from = i.from /\ j.seq <= i.seq))
  BY <1>1, <1>2, <1>3 DEF marked_up_to, SignalId
<1>7. marked_up_to(i)'
  BY <1>2, <1>6
<1>8. IdsMarked'
  <2>1. \A h \in DOMAIN tracker.ids : marked_up_to(tracker.ids[h]) /\ tracker.ids[h] \in SignalId
    BY <1>2 DEF TrackerOK, IdsMarked
  <2>2. \A k \in DOMAIN short : \E j \in SignalId : short[k] = j /\ marked_up_to(j)'
    BY <1>5, <1>6, <1>7, <2>1
  <2>3. \A k \in DOMAIN short : short[k].seq <= high[short[k].from]
    BY <1>1, <2>2 DEF marked_up_to
  <2> QED BY <1>1, <2>3 DEF IdsMarked, marked_up_to
<1> QED BY <1>1, <1>3, <1>5, <1>6, <1>7, <1>8

LEMMA AppliedIsMarked ==
    ASSUME TrackerOK, NEW i, already_applied(i) PROVE marked_up_to(i)
  BY DEF already_applied, TrackerOK, IdsMarked, marked_up_to

\* Where a lane that has not ended stands.
LEMMA AtRow ==
    ASSUME Inv, NEW l \in lanes, l.phase # "done"
    PROVE  /\ l.pos \in DOMAIN l.rows
           /\ row(l) \in SignalId
           /\ local(row(l)) /\ created(row(l))
           /\ row(l).from = l.from
           /\ row(l).to <= nodes
           /\ \A j \in SignalId : lower(j, row(l)) /\ queued(j) => marked_up_to(j)
<1> USE DEF Inv
<1>1. LaneTyped(l) /\ RowsOK(l)
  BY Itself DEF LanesOK
<1>2. l.pos \in DOMAIN l.rows /\ row(l) \in SignalId /\ row(l) \in ids_of(l)
  BY <1>1 DEF LaneTyped, Lane, RowsOK, row, ids_of
<1>3. local(row(l)) /\ created(row(l))
  BY <1>2 DEF local, NamesOK
<1>4. row(l).from = l.from
  BY <1>1, <1>2 DEF RowsOK, row
<1>5. ASSUME NEW j \in SignalId, lower(j, row(l)), queued(j) PROVE marked_up_to(j)
  <2>1. PICK h \in DOMAIN l.rows : h < l.pos /\ l.rows[h] = j
    BY <1>2, <1>5 DEF PrefixOK, row
  <2> QED BY <1>1, <2>1 DEF RowsOK
<1> QED BY <1>2, <1>3, <1>4, <1>5 DEF created

LEMMA SettledMarked ==
    ASSUME Inv, node = 1, NEW i \in SignalId, tracker' = marked(i), i \in settled',
           settled \subseteq settled', local(i),
           \A j \in SignalId : lower(j, i) /\ queued(j) => marked_up_to(j),
           UNCHANGED <<queueVars, late, acked>>
    PROVE  SettledOK'
<1> USE DEF Inv
<1>1. created(i) /\ nodes = 1 /\ i.to = 1
  BY DEF NamesOK, KeysOK, created, SignalId, NodeIds
<1>2. /\ \A s \in Senders : tracker'.high[s] \in {tracker.high[s], IF s = i.from THEN i.seq ELSE 0}
  BY DEF marked, Typed, SignalId
<1>3. \A s \in Senders : tracker'.high[s] <= seqs[s][1]
  <2>1. i.seq <= seqs[i.from][1]
    BY <1>1 DEF created
  <2>2. \A s \in Senders : tracker.high[s] <= seqs[s][1]
    BY DEF SettledOK
  <2>3. \A s \in Senders : seqs[s][1] \in Nat
    BY QueueConstants DEF Typed, TypeOK, QueueTypeOK, NodeIds
  <2> QED BY <1>2, <2>1, <2>2, <2>3
<1>4. \A j \in SignalId : marked_up_to(j)' =>
         marked_up_to(j) \/ (j.from = i.from /\ j.seq <= i.seq)
  BY Marked
<1>5. ASSUME NEW j \in SignalId, marked_up_to(j)', queued(j) PROVE j \in settled'
  <2>1. CASE marked_up_to(j)
    BY <1>5, <2>1 DEF SettledOK
  <2>2. CASE j.from = i.from /\ j.seq <= i.seq
    <3>1. j.to = 1
      BY <1>5 DEF KeysOK, queued, id
    <3>2. CASE j.seq = i.seq
      <4>1. i = j
        BY <1>1, <2>2, <3>1, <3>2 DEF SignalId
      <4> QED BY <4>1
    <3>3. CASE j.seq # i.seq
      <4>1. lower(j, i)
        BY <1>1, <2>2, <3>1, <3>3 DEF lower, SignalId
      <4> QED BY <1>5, <4>1 DEF SettledOK
    <3> QED BY <3>2, <3>3
  <2> QED BY <1>4, <1>5, <2>1, <2>2
<1>6. \A j : queued(j)' <=> queued(j)
  BY DEF queued, queueVars
<1> QED BY <1>3, <1>5, <1>6 DEF SettledOK, queueVars

LEMMA OrderMarked ==
    ASSUME Typed, OrderOK, LocalKept,
           \A j \in SignalId : marked_up_to(j) => marked_up_to(j)',
           \A c, d \in receipts' : c.tracked /\ d.tracked /\ c.id = d.id => c = d,
           \A c \in receipts' : c.tracked => ~marked_up_to(c.id)',
           \A c \in receipts' : c.tracked => \E d \in receipts : d.tracked /\ d.id = c.id,
           UNCHANGED <<effects, queue>>
    PROVE  OrderOK'
<1>1. \A i : queued(i)' <=> queued(i)
  BY DEF queued
<1>2. AppliedInSendOrder'
  BY DEF OrderOK, AppliedInSendOrder
<1>3. \A c, d \in receipts' : c.tracked /\ d.tracked /\ c.id.from = d.id.from => c = d
  <2>1. \A c, d \in receipts : c.tracked /\ d.tracked /\ c.id.from = d.id.from => c = d
    BY DEF OrderOK
  <2> QED BY <2>1
<1> QED BY <1>1, <1>2, <1>3 DEF OrderOK, LocalKept, lower

LEMMA Applying ==
    ASSUME Inv, \A k \in lanes' : LaneTyped(k) /\ RowsOK(k)', LanesFollow, Unique(lanes'),
           tracker' \in [ids: Seq(SignalId), high: [Senders -> 0..MaxSeq]],
           Len(tracker'.ids) <= MaxRecentSignalIds,
           \A i \in SignalId : marked_up_to(i) => marked_up_to(i)',
           receipts' \subseteq Receipt, IsFiniteSet(receipts'),
           \A c \in receipts' : local(c.id),
           effects' \in Seq(SignalId), settled' \subseteq SignalId,
           ReceiptsOK', TrackerOK', node = 1 => SettledOK',
           node = 1 /\ expiries = 0 /\ LocalKept => OrderOK',
           UNCHANGED <<queueVars, auth, regs, inbox, releasing, late, expiries, acked>>
    PROVE  Inv'
<1> USE DEF Inv
<1>1. Typed'
  <2>1. TypeOK'
    BY LanesTyped DEF Typed, TypeOK, QueueTypeOK, queueVars, Receipt
  <2> QED BY <2>1, LanesTyped DEF Typed
<1>2. LocalKept
  BY LocalShrinks DEF InboxKept
<1>3. KeysOK'
  BY KeysKept
<1>4. NamesOK'
  <2>1. \A l \in lanes' : l.reg.node <= nodes
    BY NodesFollow
  <2> QED BY <1>2, <2>1, NamesKept DEF InboxKept, queueVars
<1>5. LanesOK'
  BY DEF LanesOK
<1>6. BatchesOK'
  BY BatchesKept DEF queueVars, InboxKept
<1>7. HandsOK'
  BY HandsKept
<1>8. LateOK'
  BY <1>2, LateKept DEF queueVars
<1>9. PrefixOK'
  BY PrefixKept DEF queueVars, queued, InboxKept
<1>10. (expiries = 0 => LeaseOK)'
  BY LeaseKept DEF InboxKept
<1>11. node' = node
  BY DEF queueVars
<1> QED BY <1>1, <1>2, <1>3, <1>4, <1>5, <1>6, <1>7, <1>8, <1>9, <1>10, <1>11

LEMMA Waiting ==
    ASSUME ReceiptsOK, NEW l \in lanes, l.phase \in {"started", "waiting"}
    PROVE  waiting_for(l) \in receipts /\ waits(l, waiting_for(l))
  BY DEF ReceiptsOK, waiting_for, waits

\* A lane that waits after the step waited before it, for the same receipt.
PlacesFollow ==
    \A k2 \in lanes' : k2.phase \in {"started", "waiting"} =>
       \E k \in lanes : /\ k.phase \in {"started", "waiting"}
                        /\ k2.phase = "started" => k.phase = "started"
                        /\ row(k) = row(k2) /\ k.n = k2.n
                        /\ k.batch = k2.batch /\ k.from = k2.from

LEMMA ReceiptReplaced ==
    ASSUME Typed, ReceiptsOK, NEW c \in receipts, NEW c2 \in Receipt,
           c2.id = c.id, c2.n = c.n, c2.tracked => c.tracked,
           c2.outcome \in {"Undispatched", "Pending"} => c2.tracked,
           receipts' = held((receipts \ {c}) \cup {c2}, lanes'), PlacesFollow,
           \A k2 \in lanes' : k2.phase = "started" /\ waits(k2, c) => c2.outcome = "Undispatched"
    PROVE  /\ receipts' \subseteq Receipt /\ IsFiniteSet(receipts')
           /\ \A d \in receipts' : d = c2 \/ (d \in receipts /\ d # c)
           /\ \A d \in receipts : d # c /\ d.tracked => d \in receipts'
           /\ c2.tracked => c2 \in receipts'
           /\ \A d \in receipts' : local(d.id)
           /\ ReceiptsOK'
<1> DEFINE all == (receipts \ {c}) \cup {c2}
<1>1. receipts' = {d \in all : \/ d.tracked
                              \/ d.outcome = "Pending"
                              \/ \E l \in lanes' : l.phase # "done" /\ l.n = d.n /\ row(l) = d.id}
  BY DEF held
<1>2. receipts' \subseteq all /\ all \subseteq Receipt
  BY <1>1 DEF Typed
<1>3. IsFiniteSet(receipts')
  <2>1. IsFiniteSet(all)
    BY FS_RemoveElement, FS_AddElement DEF Typed
  <2> QED BY <1>2, <2>1, FS_Subset
<1>4. \A d \in receipts' : d = c2 \/ (d \in receipts /\ d # c)
  BY <1>1
<1>5. \A d \in receipts : d # c /\ d.tracked => d \in receipts'
  BY <1>1
<1>6. c2.tracked => c2 \in receipts'
  BY <1>1
<1>7. \A d \in receipts' : local(d.id)
  BY <1>4 DEF local
<1>8. ReceiptsOK'
  <2>1. \A d, e \in receipts' : d.id = e.id /\ d.n = e.n => d = e
    BY <1>4 DEF ReceiptsOK
  <2>2. \A d, e \in receipts' : d.tracked /\ e.tracked /\ d.id = e.id => d = e
    BY <1>4 DEF ReceiptsOK
  <2>3. \A d \in receipts' : d.outcome \in {"Undispatched", "Pending"} => d.tracked
    BY <1>4 DEF ReceiptsOK
  <2>4. ASSUME NEW k2 \in lanes', k2.phase \in {"started", "waiting"}
        PROVE  \E d \in receipts' : waits(k2, d)
    <3>1. PICK k \in lanes : /\ k.phase \in {"started", "waiting"}
                             /\ row(k) = row(k2) /\ k.n = k2.n
      BY <2>4 DEF PlacesFollow
    <3>2. PICK d \in receipts : d.id = row(k2) /\ d.n = k2.n
      BY <3>1 DEF ReceiptsOK, waits
    <3>3. PICK e \in all : e.id = row(k2) /\ e.n = k2.n
      BY <3>2
    <3>4. e \in receipts'
      BY <1>1, <2>4, <3>3
    <3> QED BY <3>3, <3>4 DEF waits
  <2>5. ASSUME NEW k2 \in lanes', NEW d \in receipts', k2.phase = "started", waits(k2, d)
        PROVE  d.outcome = "Undispatched"
    <3>1. PICK k \in lanes : k.phase = "started" /\ row(k) = row(k2) /\ k.n = k2.n
      BY <2>5 DEF PlacesFollow
    <3>2. CASE d = c2
      BY <2>5, <3>2 DEF waits
    <3>3. CASE d \in receipts
      BY <2>5, <3>1, <3>3 DEF ReceiptsOK, waits
    <3> QED BY <1>4, <3>2, <3>3
  <2>6. \A l, k \in lanes' :
          /\ l.phase = "started" /\ k.phase = "started"
          /\ row(l) = row(k) /\ l.n = k.n
          => l.batch = k.batch /\ l.from = k.from
    BY DEF PlacesFollow, ReceiptsOK
  <2>7. \A k2 \in lanes' : k2.phase \in {"started", "waiting"} =>
           \E d \in receipts' : waits(k2, d)
    BY <2>4
  <2>8. \A k2 \in lanes', d \in receipts' :
           k2.phase = "started" /\ waits(k2, d) => d.outcome = "Undispatched"
    BY <2>5
  <2> QED BY <2>1, <2>2, <2>3, <2>6, <2>7, <2>8 DEF ReceiptsOK, waits, row
<1> QED BY <1>2, <1>3, <1>4, <1>5, <1>6, <1>7, <1>8

LEMMA CompleteKeeps ==
    ASSUME Inv, NEW c \in receipts,
           NEW outcome \in {"Applied", "TerminalRejected", "Retry"}, Complete(c, outcome)
    PROVE  Inv'
<1> USE DEF Inv
<1> DEFINE c2 == [c EXCEPT !.outcome = outcome]
<1>1. c.outcome = "Pending" /\ c.tracked /\ c \in Receipt
  BY DEF Complete, ReceiptsOK, Typed
<1>2. /\ c2 \in Receipt /\ c2.id = c.id /\ c2.n = c.n /\ c2.tracked = c.tracked
      /\ c2.outcome = outcome
  BY <1>1 DEF Receipt
<1>3. /\ receipts' = held((receipts \ {c}) \cup {c2}, lanes)
      /\ lanes' = lanes
      /\ effects' = IF outcome = "Applied" THEN Append(effects, c.id) ELSE effects
      /\ settled' = IF outcome = "Retry" THEN settled ELSE settled \cup {c.id}
      /\ UNCHANGED <<queueVars, auth, regs, inbox, tracker, releasing, late, expiries, acked>>
  BY DEF Complete
<1> HIDE DEF c2
<1>4. \A i : marked_up_to(i)' <=> marked_up_to(i)
  BY <1>3 DEF marked_up_to
<1>5. \A k \in lanes' : LaneTyped(k) /\ RowsOK(k)'
  BY <1>3, <1>4, Itself DEF LanesOK, RowsOK
<1>6. LanesFollow /\ Unique(lanes')
  BY <1>3, LanesStay
<1>7. /\ receipts' \subseteq Receipt /\ IsFiniteSet(receipts')
      /\ \A d \in receipts' : d = c2 \/ (d \in receipts /\ d # c)
      /\ \A d \in receipts : d # c /\ d.tracked => d \in receipts'
      /\ c2 \in receipts'
      /\ \A d \in receipts' : local(d.id)
      /\ ReceiptsOK'
  <2>1. PlacesFollow
    BY <1>3 DEF PlacesFollow
  <2>2. \A k2 \in lanes' : ~(k2.phase = "started" /\ waits(k2, c))
    BY <1>1, <1>3 DEF ReceiptsOK
  <2> QED BY <1>1, <1>2, <1>3, <2>1, <2>2, ReceiptReplaced
<1>8. c.id \in SignalId /\ effects \in Seq(SignalId) /\ settled \subseteq SignalId
  BY <1>1 DEF Receipt, Typed, TypeOK
<1>9. effects' \in Seq(SignalId) /\ settled' \subseteq SignalId /\ settled \subseteq settled'
  BY <1>3, <1>8
<1>10. \A k \in DOMAIN effects' :
          \/ (k \in DOMAIN effects /\ effects'[k] = effects[k])
          \/ (outcome = "Applied" /\ k = Len(effects) + 1 /\ effects'[k] = c.id)
  BY <1>3, <1>8
<1>11. TrackerOK'
  <2>1. \A d \in receipts' :
           /\ ~d.tracked /\ d.outcome # "Retry" => marked_up_to(d.id)'
           /\ d.outcome \in {"Applied", "TerminalRejected"} => d.id \in settled'
    BY <1>1, <1>2, <1>3, <1>4, <1>7 DEF TrackerOK
  <2>2. ASSUME NEW k \in DOMAIN effects'
        PROVE  \/ effects'[k].seq <= tracker'.high[effects'[k].from]
               \/ \E d \in receipts' : d.tracked /\ d.id = effects'[k] /\ d.outcome = "Applied"
    <3>1. CASE k \in DOMAIN effects /\ effects'[k] = effects[k]
      <4>1. CASE marked_up_to(effects[k])
        BY <1>3, <3>1, <4>1 DEF marked_up_to
      <4>2. CASE \E d \in receipts : d.tracked /\ d.id = effects[k] /\ d.outcome = "Applied"
        BY <1>1, <1>7, <3>1, <4>2
      <4> QED BY <3>1, <4>1, <4>2 DEF TrackerOK
    <3>2. CASE outcome = "Applied" /\ effects'[k] = c.id
      BY <1>1, <1>2, <1>7, <3>2
    <3> QED BY <1>10, <3>1, <3>2
  <2>3. IdsMarked'
    BY <1>3 DEF TrackerOK, IdsMarked, marked_up_to
  <2> QED BY <2>1, <2>2, <2>3 DEF TrackerOK, marked_up_to
<1>12. node = 1 => SettledOK'
  BY <1>3, <1>9, SettledKept DEF queueVars
<1>13. ASSUME node = 1, expiries = 0, LocalKept PROVE OrderOK'
  <2>1. \A i : queued(i)' <=> queued(i)
    BY <1>3 DEF queued, queueVars
  <2>2. \A d \in receipts' : \E e \in receipts : d.id = e.id /\ d.tracked = e.tracked
    BY <1>2, <1>7
  <2>3. \A d, e \in receipts' : d.tracked /\ e.tracked /\ d.id.from = e.id.from => d = e
    BY <1>1, <1>2, <1>7, <1>13 DEF OrderOK
  <2>4. ASSUME NEW j \in DOMAIN effects', NEW k \in DOMAIN effects', j < k,
               effects'[j].from = effects'[k].from, effects'[j].to = effects'[k].to
        PROVE  effects'[j].seq < effects'[k].seq
    <3>1. DOMAIN effects = 1..Len(effects) /\ Len(effects) \in Nat
      BY <1>8
    <3>2. CASE k \in DOMAIN effects
      <4>1. j \in DOMAIN effects /\ effects'[j] = effects[j] /\ effects'[k] = effects[k]
        BY <1>10, <2>4, <3>1, <3>2
      <4> QED BY <1>13, <2>4, <3>2, <4>1 DEF OrderOK, AppliedInSendOrder
    <3>3. CASE outcome = "Applied" /\ k = Len(effects) + 1 /\ effects'[k] = c.id
      <4>1. j \in DOMAIN effects /\ effects'[j] = effects[j] /\ effects[j] \in SignalId
        BY <1>8, <1>10, <2>4, <3>1, <3>3
      <4>2. ~marked_up_to(c.id)
        BY <1>1, <1>13 DEF OrderOK
      <4>3. ~\E d \in receipts : d.tracked /\ d.id = effects[j] /\ d.outcome = "Applied"
        BY <1>1, <1>13, <2>4, <3>3, <4>1 DEF OrderOK
      <4>4. marked_up_to(effects[j])
        BY <4>1, <4>3 DEF TrackerOK
      <4>5. effects[j].seq \in Nat /\ c.id.seq \in Nat /\ tracker.high[c.id.from] \in Nat
        BY <1>8, <4>1 DEF SignalId, Typed
      <4> QED BY <2>4, <3>3, <4>1, <4>2, <4>4, <4>5 DEF marked_up_to
    <3> QED BY <1>10, <3>2, <3>3
  <2>5. AppliedInSendOrder'
    BY <2>4 DEF AppliedInSendOrder
  <2> QED BY <1>4, <1>13, <2>1, <2>2, <2>3, <2>5 DEF OrderOK, LocalKept, lower
<1> QED BY <1>3, <1>4, <1>5, <1>6, <1>7, <1>9, <1>11, <1>12, <1>13, Applying DEF Typed, TypeOK

LEMMA Advances ==
    ASSUME Inv, NEW l \in lanes, l.phase # "done", becomes(l, advanced(l)),
           \A i \in SignalId : marked_up_to(i) => marked_up_to(i)', marked_up_to(row(l))'
    PROVE  /\ \A k \in lanes' : LaneTyped(k) /\ RowsOK(k)'
           /\ LanesFollow /\ Unique(lanes') /\ PlacesKept
           /\ \A k \in lanes' : k \in lanes \ {l} \/ k.phase \in {"next", "done"}
<1> DEFINE l2 == advanced(l)
<1> USE DEF Inv
<1>1. LaneTyped(l) /\ RowsOK(l) /\ l \in Lane /\ l.rows \in Seq(SignalId)
  BY Itself DEF LanesOK, LaneTyped, Lane
<1>2. l.pos \in 1..Len(l.rows) /\ Len(l.rows) \in Nat
  BY <1>1, AtRow
<1>3. /\ l2 \in Lane
      /\ l2.pos = l.pos + 1 /\ l2.acked = l.acked /\ l2.rows = l.rows
      /\ l2.phase = IF l.pos < Len(l.rows) THEN "next" ELSE "done"
  <2> DEFINE ph == IF l.pos < Len(l.rows) THEN "next" ELSE "done"
  <2>1. l2 = [l EXCEPT !.pos = l.pos + 1, !.n = 0, !.phase = ph]
    BY <1>1 DEF advanced, Lane
  <2>2. ph \in {"next", "done"} /\ l.pos + 1 \in Nat
    BY <1>2
  <2> HIDE DEF ph
  <2>3. l2.phase = ph /\ l2.n = 0 /\ l2.pos = l.pos + 1
    BY <1>1, <2>1 DEF Lane
  <2>5. l2 \in Lane
    <3>1. [l EXCEPT !.pos = l.pos + 1] \in Lane
      BY <1>1, <2>2 DEF Lane
    <3>2. [[l EXCEPT !.pos = l.pos + 1] EXCEPT !.n = 0] \in Lane
      BY <3>1 DEF Lane
    <3>3. [[[l EXCEPT !.pos = l.pos + 1] EXCEPT !.n = 0] EXCEPT !.phase = ph] \in Lane
      BY <2>2, <3>2 DEF Lane
    <3> QED BY <2>1, <3>3
  <2>4. l2.pos = l.pos + 1 /\ l2.acked = l.acked /\ l2.rows = l.rows
    BY <1>1, <2>1 DEF Lane
  <2> QED BY <2>3, <2>4, <2>5 DEF ph
<1>4. l2.batch = l.batch /\ l2.from = l.from /\ l2.reg = l.reg /\ l2.open = l.open
  BY <1>1 DEF advanced, Lane
<1> HIDE DEF l2
<1>5. l.acked \in 0..(l.pos - 1)
  BY <1>1 DEF LaneTyped
<1>6. LaneTyped(l2) /\ Follows(l, l2)
  BY <1>1, <1>2, <1>3, <1>4, <1>5 DEF LaneTyped, Follows
<1>7. /\ lanes' \subseteq (lanes \ {l}) \cup {l2}
      /\ \A k \in lanes' : LaneTyped(k)
      /\ LanesFollow
      /\ Unique(lanes')
  BY <1>6, Replaced DEF l2
<1>8. RowsOK(l2)'
  <2>1. \A k \in DOMAIN l2.rows : l2.rows[k].from = l2.from /\ l2.rows[k].to = l2.reg.node
    BY <1>1, <1>3, <1>4 DEF RowsOK
  <2>2. \A j, k \in DOMAIN l2.rows : j < k => l2.rows[j].seq < l2.rows[k].seq
    BY <1>1, <1>3 DEF RowsOK
  <2>3. l2.phase # "done" => l2.pos <= Len(l2.rows)
    BY <1>2, <1>3
  <2>4. ASSUME NEW k \in DOMAIN l2.rows, k < l2.pos PROVE marked_up_to(l2.rows[k])'
    <3>1. CASE k = l.pos
      BY <1>3, <3>1 DEF row
    <3>2. CASE k # l.pos
      <4>1. k \in DOMAIN l.rows /\ k < l.pos /\ l.rows[k] \in SignalId
        BY <1>1, <1>2, <1>3, <2>4, <3>2
      <4> QED BY <1>1, <1>3, <4>1 DEF RowsOK
    <3> QED BY <3>1, <3>2
  <2> QED BY <2>1, <2>2, <2>3, <2>4 DEF RowsOK
<1>9. ASSUME NEW k \in lanes PROVE RowsOK(k)'
  BY Itself, RowsKept DEF LanesOK, LaneTyped
<1>10. l2.phase \in {"next", "done"}
  BY <1>3
<1>11. PlacesKept
  <2>1. \A k \in lanes : SamePlace(k, k)
    BY DEF SamePlace
  <2> QED BY <1>7, <1>10, <2>1 DEF PlacesKept
<1> QED BY <1>7, <1>8, <1>9, <1>10, <1>11

LEMMA TrackerMoves ==
    ASSUME Typed, TrackerOK, IdsMarked',
           \A i \in SignalId : marked_up_to(i) => marked_up_to(i)',
           UNCHANGED <<receipts, effects>>, settled \subseteq settled'
    PROVE  TrackerOK'
<1>1. \A c \in receipts : c.id \in SignalId
  BY DEF Typed, TypeOK
<1>2. \A k \in DOMAIN effects : effects[k] \in SignalId
  BY DEF Typed
<1>3. ASSUME NEW k \in DOMAIN effects'
      PROVE  \/ marked_up_to(effects[k])'
             \/ \E c \in receipts' : c.tracked /\ c.id = effects'[k] /\ c.outcome = "Applied"
  BY <1>2 DEF TrackerOK, marked_up_to
<1>4. \A c \in receipts' :
          /\ ~c.tracked /\ c.outcome # "Retry" => marked_up_to(c.id)'
          /\ c.outcome \in {"Applied", "TerminalRejected"} => c.id \in settled'
  BY <1>1 DEF TrackerOK
<1> QED BY <1>3, <1>4 DEF TrackerOK, marked_up_to

LEMMA ApplyKnownKeeps == ASSUME Inv, NEW l \in lanes, ApplyKnown(l) PROVE Inv'
<1> USE DEF Inv
<1> DEFINE i == row(l)
<1>1. /\ l.phase = "next" /\ becomes(l, advanced(l))
      /\ already_applied(i) \/ i.seq \in Unsupported
      /\ UNCHANGED <<queueVars, auth, regs, inbox, receipts, releasing, late, expiries,
                     effects, acked>>
  BY DEF ApplyKnown
<1>2. /\ i \in SignalId /\ local(i)
      /\ \A j \in SignalId : lower(j, i) /\ queued(j) => marked_up_to(j)
      /\ i.to <= nodes
  BY <1>1, AtRow
<1>3. \/ already_applied(i) /\ UNCHANGED <<tracker, settled>>
      \/ /\ ~already_applied(i) /\ i.seq \in Unsupported
         /\ tracker' = marked(i) /\ settled' = settled \cup {i}
  BY <1>1 DEF ApplyKnown
<1> HIDE DEF i
<1>4. /\ tracker' \in [ids: Seq(SignalId), high: [Senders -> 0..MaxSeq]]
      /\ Len(tracker'.ids) <= MaxRecentSignalIds
      /\ IdsMarked'
      /\ \A j \in SignalId : marked_up_to(j) => marked_up_to(j)'
      /\ marked_up_to(i)'
  <2>1. CASE already_applied(i) /\ UNCHANGED <<tracker, settled>>
    BY <2>1, AppliedIsMarked DEF Typed, TypeOK, TrackerOK, IdsMarked, marked_up_to
  <2>2. CASE tracker' = marked(i)
    BY <1>2, <2>2, Marked
  <2> QED BY <1>3, <2>1, <2>2
<1>5. settled \subseteq settled' /\ settled' \subseteq SignalId
  BY <1>2, <1>3 DEF Typed, TypeOK
<1>6. /\ \A k \in lanes' : LaneTyped(k) /\ RowsOK(k)'
      /\ LanesFollow /\ Unique(lanes') /\ PlacesKept
  BY <1>1, <1>4, Advances DEF i
<1>7. ReceiptsOK'
  BY <1>1, <1>6, ReceiptsKept
<1>8. TrackerOK'
  BY <1>1, <1>4, <1>5, TrackerMoves
<1>9. node = 1 => SettledOK'
  <2>1. CASE UNCHANGED <<tracker, settled>>
    BY <1>1, <2>1, SettledKept DEF queueVars
  <2>2. CASE tracker' = marked(i) /\ settled' = settled \cup {i}
    BY <1>1, <1>2, <2>2, SettledMarked
  <2> QED BY <1>3, <2>1, <2>2
<1>10. ASSUME node = 1, expiries = 0, LocalKept PROVE OrderOK'
  <2>1. CASE UNCHANGED <<tracker, settled>>
    BY <1>1, <1>10, <2>1, OrderKept DEF queueVars
  <2>2. CASE tracker' = marked(i) /\ ~already_applied(i) /\ i.seq \in Unsupported
    <3>1. ~marked_up_to(i)
      BY <2>2 DEF already_applied, marked_up_to
    <3>2. ASSUME NEW c \in receipts, c.tracked PROVE ~marked_up_to(c.id)'
      <4>1. /\ ~marked_up_to(c.id) /\ c.id.seq \notin Unsupported
            /\ c.id \in SignalId /\ local(c.id)
        BY <1>10, <3>2 DEF OrderOK, Typed, TypeOK, local
      <4>2. SUFFICES ASSUME c.id.from = i.from, c.id.seq <= i.seq PROVE FALSE
        BY <1>2, <2>2, <4>1, Marked
      <4>3. c.id.seq # i.seq
        BY <2>2, <4>1
      <4>4. nodes = 1 /\ i.to = 1 /\ c.id.to = 1
        BY <1>2, <1>10, <4>1 DEF KeysOK, NamesOK, created, SignalId, NodeIds
      <4>5. lower(c.id, i)
        BY <1>2, <4>1, <4>2, <4>3, <4>4 DEF lower, SignalId
      <4>6. queued(c.id)
        BY <1>10, <4>1 DEF OrderOK
      <4> QED BY <1>2, <4>1, <4>5, <4>6
    <3>3. \A c, d \in receipts' : c.tracked /\ d.tracked /\ c.id = d.id => c = d
      BY <1>7 DEF ReceiptsOK
    <3>4. \A c \in receipts' : c.tracked => ~marked_up_to(c.id)'
      BY <1>1, <3>2
    <3>5. \A c \in receipts' : c.tracked => \E d \in receipts : d.tracked /\ d.id = c.id
      BY <1>1
    <3> QED BY <1>1, <1>4, <1>10, <3>3, <3>4, <3>5, OrderMarked DEF queueVars
  <2> QED BY <1>3, <2>1, <2>2
<1>11. \A c \in receipts' : local(c.id)
  BY <1>1 DEF local
<1> QED BY <1>1, <1>4, <1>5, <1>6, <1>7, <1>8, <1>9, <1>10, <1>11, Applying DEF Typed

LEMMA BeginApplicationKeeps == ASSUME Inv, NEW l \in lanes, BeginApplication(l) PROVE Inv'
<1> USE DEF Inv
<1> DEFINE i == row(l)
<1>1. /\ l.phase = "next" /\ ~already_applied(i) /\ i.seq \notin Unsupported
      /\ UNCHANGED <<queueVars, auth, regs, inbox, tracker, releasing, late, expiries, history>>
  BY DEF BeginApplication
<1>2. /\ i \in SignalId /\ local(i)
      /\ \A j \in SignalId : lower(j, i) /\ queued(j) => marked_up_to(j)
      /\ i.to <= nodes
  BY <1>1, AtRow
<1>3. LaneTyped(l) /\ RowsOK(l) /\ l \in Lane
  BY Itself DEF LanesOK, LaneTyped
<1>4. PICK n \in Nat, ph \in {"started", "waiting"} :
         /\ becomes(l, [l EXCEPT !.phase = ph, !.n = n])
         /\ \/ /\ ph = "waiting" /\ receipts' = receipts
               /\ \E c \in receipts : c.id = i /\ c.n = n
            \/ /\ ph = "started"
               /\ in_flight(i) = {}
               /\ \A c \in receipts : c.id = i => c.n # n
               /\ receipts' = receipts \cup {[id |-> i, n |-> n, tracked |-> TRUE,
                                              outcome |-> "Undispatched"]}
  <2>1. CASE in_flight(i) # {}
    <3>1. PICK c \in in_flight(i) : becomes(l, [l EXCEPT !.phase = "waiting", !.n = c.n])
      BY <2>1 DEF BeginApplication
    <3>2. c \in receipts /\ c.id = i /\ c.n \in Nat
      BY <3>1 DEF in_flight, Typed, Receipt
    <3>3. receipts' = receipts
      BY <2>1 DEF BeginApplication
    <3> QED BY <3>1, <3>2, <3>3
  <2>2. CASE in_flight(i) = {}
    <3> DEFINE n == CHOOSE k \in 1..(Cardinality(receipts) + 1) :
                       \A c \in receipts : c.id = i => c.n # k
    <3>1. n \in 1..(Cardinality(receipts) + 1) /\ \A c \in receipts : c.id = i => c.n # n
      BY FreshReceipt DEF Typed
    <3>2. n \in Nat
      BY <3>1, FS_CardinalityType DEF Typed
    <3>3. /\ becomes(l, [l EXCEPT !.phase = "started", !.n = n])
          /\ receipts' = receipts \cup {[id |-> i, n |-> n, tracked |-> TRUE,
                                         outcome |-> "Undispatched"]}
      BY <2>2 DEF BeginApplication
    <3> HIDE DEF n
    <3> QED BY <2>2, <3>1, <3>2, <3>3
  <2> QED BY <2>1, <2>2
<1> HIDE DEF i
<1> DEFINE l2 == [l EXCEPT !.phase = ph, !.n = n]
<1>5. /\ LaneTyped(l2) /\ Follows(l, l2) /\ l2.pos = l.pos
      /\ l2.phase = ph /\ l2.n = n /\ l2.rows = l.rows
  <2>1. l2 \in Lane
    BY <1>3 DEF Lane
  <2>2. Follows(l, l2) /\ l2.pos = l.pos /\ l2.acked = l.acked
    BY <1>3 DEF Lane, Follows
  <2>3. l2.phase = ph /\ l2.n = n /\ l2.rows = l.rows
    BY <1>3 DEF Lane
  <2> QED BY <1>3, <2>1, <2>2, <2>3 DEF LaneTyped
<1> HIDE DEF l2
<1>6. /\ lanes' \subseteq (lanes \ {l}) \cup {l2}
      /\ \A k \in lanes' : LaneTyped(k)
      /\ LanesFollow
      /\ Unique(lanes')
  BY <1>4, <1>5, Replaced DEF l2
<1>7. \A j : marked_up_to(j)' <=> marked_up_to(j)
  BY <1>1 DEF marked_up_to
<1>8. RowsOK(l2)'
  BY <1>1, <1>3, <1>5, <1>7, RowsKept
<1>9. \A k \in lanes : RowsOK(k)'
  BY <1>7 DEF LanesOK, RowsOK
<1>10. row(l2) = i
  BY <1>5 DEF row, i
<1>11. /\ receipts' \subseteq Receipt /\ IsFiniteSet(receipts') /\ receipts \subseteq receipts'
       /\ \A c \in receipts' : c \in receipts \/ ( /\ c.id = i /\ c.n = n /\ c.tracked
                                                 /\ c.outcome = "Undispatched" /\ ph = "started"
                                                 /\ \A d \in receipts : d.id = i => ~d.tracked /\ d.n # n)
       /\ \A c, d \in receipts' : c \notin receipts /\ d \notin receipts => c = d
       /\ \E c \in receipts' : waits(l2, c)
  <2>1. CASE ph = "waiting" /\ receipts' = receipts
    BY <1>4, <1>5, <1>10, <2>1 DEF Typed, waits
  <2>2. CASE ph = "started"
    <3> DEFINE c == [id |-> i, n |-> n, tracked |-> TRUE, outcome |-> "Undispatched"]
    <3>1. c \in Receipt /\ receipts' = receipts \cup {c}
      BY <1>2, <1>4, <2>2 DEF Receipt
    <3>2. c.id = i /\ c.n = n /\ c.tracked /\ c.outcome = "Undispatched"
      OBVIOUS
    <3>3. \A d \in receipts : d.id = i => ~d.tracked /\ d.n # n
      BY <1>4, <2>2 DEF in_flight
    <3>4. waits(l2, c)
      BY <1>5, <1>10, <3>2 DEF waits
    <3> HIDE DEF c
    <3>5. IsFiniteSet(receipts')
      BY <3>1, FS_AddElement DEF Typed
    <3> QED BY <2>2, <3>1, <3>2, <3>3, <3>4, <3>5 DEF Typed
  <2> QED BY <1>4, <2>1, <2>2
<1>12. ReceiptsOK'
  <2>1. \A c, d \in receipts' : c.id = d.id /\ c.n = d.n => c = d
    BY <1>4, <1>11 DEF ReceiptsOK
  <2>2. \A c, d \in receipts' : c.tracked /\ d.tracked /\ c.id = d.id => c = d
    BY <1>4, <1>11 DEF ReceiptsOK
  <2>3. \A c \in receipts' : c.outcome \in {"Undispatched", "Pending"} => c.tracked
    BY <1>11 DEF ReceiptsOK
  <2>4. \A k \in lanes' : k.phase \in {"started", "waiting"} =>
           \E c \in receipts' : waits(k, c)
    BY <1>6, <1>11 DEF ReceiptsOK
  <2>5. ASSUME NEW k \in lanes', NEW c \in receipts', k.phase = "started", waits(k, c)
        PROVE  c.outcome = "Undispatched"
    <3>1. CASE k = l2
      BY <1>4, <1>5, <1>10, <1>11, <2>5, <3>1 DEF waits
    <3>2. CASE k \in lanes
      <4>1. PICK d \in receipts : waits(k, d)
        BY <2>5, <3>2 DEF ReceiptsOK
      <4>2. c = d
        BY <1>11, <2>1, <2>5, <4>1 DEF waits
      <4> QED BY <2>5, <3>2, <4>1, <4>2 DEF ReceiptsOK
    <3> QED BY <1>6, <3>1, <3>2
  <2>6. ASSUME NEW k \in lanes, k.phase = "started", ph = "started" PROVE ~(row(k) = i /\ k.n = n)
    BY <1>4, <2>6 DEF ReceiptsOK, waits
  <2>7. ASSUME NEW j \in lanes', NEW k \in lanes', j.phase = "started", k.phase = "started",
               row(j) = row(k), j.n = k.n
        PROVE  j.batch = k.batch /\ j.from = k.from
    <3>1. CASE j \in lanes /\ k \in lanes
      BY <2>7, <3>1 DEF ReceiptsOK
    <3>2. CASE j = l2 \/ k = l2
      BY <1>5, <1>6, <1>10, <2>6, <2>7, <3>2
    <3> QED BY <1>6, <3>1, <3>2
  <2>8. \A k \in lanes', c \in receipts' :
           k.phase = "started" /\ waits(k, c) => c.outcome = "Undispatched"
    BY <2>5
  <2>9. \A j, k \in lanes' :
          /\ j.phase = "started" /\ k.phase = "started"
          /\ row(j) = row(k) /\ j.n = k.n
          => j.batch = k.batch /\ j.from = k.from
    BY <2>7
  <2> QED BY <2>1, <2>2, <2>3, <2>4, <2>8, <2>9 DEF ReceiptsOK, waits, row
<1>13. TrackerOK'
  <2>1. \A c \in receipts' :
           /\ ~c.tracked /\ c.outcome # "Retry" => marked_up_to(c.id)'
           /\ c.outcome \in {"Applied", "TerminalRejected"} => c.id \in settled'
    BY <1>1, <1>7, <1>11 DEF TrackerOK, history
  <2>2. \A k \in DOMAIN effects :
           \/ marked_up_to(effects[k])
           \/ \E c \in receipts' : c.tracked /\ c.id = effects[k] /\ c.outcome = "Applied"
    BY <1>11 DEF TrackerOK
  <2> QED BY <1>1, <2>1, <2>2 DEF TrackerOK, IdsMarked, history, marked_up_to
<1>14. node = 1 => SettledOK'
  BY <1>1, SettledKept DEF queueVars, history
<1>15. ASSUME node = 1, expiries = 0, LocalKept PROVE OrderOK'
  <2>1. ~marked_up_to(i)
    BY <1>1 DEF already_applied, marked_up_to
  <2>2. queued(i)
    BY <1>2, <1>15, <2>1 DEF OrderOK
  <2>3. ASSUME NEW d \in receipts, d.tracked, d.id.from = i.from PROVE d.id = i
    <3>1. /\ ~marked_up_to(d.id) /\ d.id \in SignalId /\ local(d.id)
          /\ \A j \in SignalId : lower(j, d.id) /\ queued(j) => marked_up_to(j)
      BY <1>15, <2>3 DEF OrderOK, Typed, TypeOK, local
    <3>2. queued(d.id)
      BY <1>15, <3>1 DEF OrderOK
    <3>3. nodes = 1 /\ i.to = 1 /\ d.id.to = 1
      BY <1>2, <1>15, <3>1 DEF KeysOK, NamesOK, created, SignalId, NodeIds
    <3>4. ~lower(d.id, i) /\ ~lower(i, d.id)
      BY <1>2, <2>1, <2>2, <3>1, <3>2
    <3>5. d.id.seq = i.seq
      BY <1>2, <2>3, <3>1, <3>3, <3>4 DEF lower, SignalId
    <3> QED BY <1>2, <2>3, <3>1, <3>3, <3>5 DEF SignalId
  <2>4. \A c, d \in receipts' : c.tracked /\ d.tracked /\ c.id.from = d.id.from => c = d
    <3>1. \A c, d \in receipts : c.tracked /\ d.tracked /\ c.id.from = d.id.from => c = d
      BY <1>15 DEF OrderOK
    <3>2. \A c, d \in receipts' : c \notin receipts /\ d \in receipts =>
             ~(c.tracked /\ d.tracked /\ c.id.from = d.id.from)
      BY <1>11, <2>3
    <3>3. \A c, d \in receipts' : c \notin receipts /\ d \notin receipts => c = d
      BY <1>4, <1>11
    <3> QED BY <3>1, <3>2, <3>3
  <2>5. \A j : queued(j)' <=> queued(j)
    BY <1>1 DEF queued, queueVars
  <2>6. \A c \in receipts' : c.tracked =>
          /\ ~marked_up_to(c.id)
          /\ c.id.seq \notin Unsupported
          /\ \A j \in SignalId : lower(j, c.id) /\ queued(j) => marked_up_to(j)
    BY <1>1, <1>2, <1>11, <1>15, <2>1 DEF OrderOK
  <2>7. AppliedInSendOrder'
    BY <1>1, <1>15 DEF OrderOK, AppliedInSendOrder, history
  <2> QED BY <1>7, <1>15, <2>4, <2>5, <2>6, <2>7 DEF OrderOK, LocalKept, lower
<1>16. \A c \in receipts' : local(c.id)
  BY <1>2, <1>11 DEF local
<1> QED BY <1>1, <1>6, <1>7, <1>8, <1>9, <1>11, <1>12, <1>13, <1>14, <1>15, <1>16, Applying
        DEF Typed, TypeOK, history

LEMMA Ends ==
    ASSUME Inv, NEW l \in lanes, NEW ph \in {"waiting", "done"},
           becomes(l, [l EXCEPT !.phase = ph]), l.phase \in {"started", "waiting"},
           \A i \in SignalId : marked_up_to(i) => marked_up_to(i)'
    PROVE  /\ \A k \in lanes' : LaneTyped(k) /\ RowsOK(k)'
           /\ LanesFollow /\ Unique(lanes') /\ PlacesFollow
           /\ \A k \in lanes' : k \in lanes \ {l} \/ k.phase = ph
<1> DEFINE l2 == [l EXCEPT !.phase = ph]
<1> USE DEF Inv
<1>1. LaneTyped(l) /\ RowsOK(l) /\ l \in Lane
  BY Itself DEF LanesOK, LaneTyped
<1>2. LaneTyped(l2) /\ Follows(l, l2) /\ l2.phase = ph /\ l2.pos = l.pos /\ l2.n = l.n
  <2>1. l2 \in Lane
    BY <1>1 DEF Lane
  <2>2. Follows(l, l2) /\ l2.pos = l.pos /\ l2.acked = l.acked
    BY <1>1 DEF Lane, Follows
  <2>3. l2.phase = ph /\ l2.n = l.n /\ l2.rows = l.rows
    BY <1>1 DEF Lane
  <2> QED BY <1>1, <2>1, <2>2, <2>3 DEF LaneTyped
<1> HIDE DEF l2
<1>3. /\ lanes' \subseteq (lanes \ {l}) \cup {l2}
      /\ \A k \in lanes' : LaneTyped(k)
      /\ LanesFollow
      /\ Unique(lanes')
  BY <1>2, Replaced DEF l2
<1>4. RowsOK(l2)'
  BY <1>1, <1>2, RowsKept
<1>5. ASSUME NEW k \in lanes PROVE RowsOK(k)'
  BY Itself, RowsKept DEF LanesOK, LaneTyped
<1>6. PlacesFollow
  <2>1. row(l2) = row(l) /\ l2.n = l.n /\ l2.batch = l.batch /\ l2.from = l.from
    BY <1>2 DEF row, Follows
  <2> QED BY <1>2, <1>3, <2>1 DEF PlacesFollow
<1> QED BY <1>2, <1>3, <1>4, <1>5, <1>6

LEMMA DispatchKeeps == ASSUME Inv, NEW l \in lanes, Dispatch(l) PROVE Inv'
<1> USE DEF Inv
<1>1. PICK c : c = waiting_for(l)
  OBVIOUS
<1>2. /\ l.phase = "started"
      /\ c \in receipts /\ c \in Receipt /\ waits(l, c)
      /\ c.outcome = "Undispatched" /\ c.tracked
  <2>1. l.phase = "started"
    BY DEF Dispatch
  <2>2. c \in receipts /\ waits(l, c)
    BY <1>1, <2>1, Waiting
  <2> QED BY <2>1, <2>2 DEF ReceiptsOK, Typed
<1>3. UNCHANGED <<queueVars, auth, regs, inbox, tracker, releasing, late, expiries, history>>
  BY DEF Dispatch
<1>4. PICK ph \in {"waiting", "done"}, c2 \in Receipt :
         /\ becomes(l, [l EXCEPT !.phase = ph])
         /\ c2.id = c.id /\ c2.n = c.n
         /\ \/ c2.outcome = "Pending" /\ c2.tracked
            \/ c2.outcome = "Retry" /\ ~c2.tracked
         /\ receipts' = held((receipts \ {c}) \cup {c2}, lanes')
  <2>1. CASE l.open /\ current(l)
    <3> DEFINE c2 == [c EXCEPT !.outcome = "Pending"]
    <3>1. c2 \in Receipt /\ c2.id = c.id /\ c2.n = c.n /\ c2.outcome = "Pending" /\ c2.tracked
      BY <1>2 DEF Receipt
    <3>2. /\ becomes(l, [l EXCEPT !.phase = "waiting"])
          /\ receipts' = held((receipts \ {c}) \cup {c2}, lanes')
      BY <1>1, <2>1 DEF Dispatch, becomes
    <3> QED BY <3>1, <3>2
  <2>2. CASE ~(l.open /\ current(l))
    <3> DEFINE c2 == [c EXCEPT !.outcome = "Retry", !.tracked = FALSE]
    <3>1. c2 \in Receipt /\ c2.id = c.id /\ c2.n = c.n /\ c2.outcome = "Retry" /\ ~c2.tracked
      BY <1>2 DEF Receipt
    <3>2. /\ becomes(l, [l EXCEPT !.phase = "done"])
          /\ receipts' = held((receipts \ {c}) \cup {c2}, lanes')
      BY <1>1, <2>2 DEF Dispatch, becomes
    <3> QED BY <3>1, <3>2
  <2> QED BY <2>1, <2>2
<1>5. \A i : marked_up_to(i)' <=> marked_up_to(i)
  BY <1>3 DEF marked_up_to
<1>6. /\ \A k \in lanes' : LaneTyped(k) /\ RowsOK(k)'
      /\ LanesFollow /\ Unique(lanes') /\ PlacesFollow
      /\ \A k \in lanes' : k \in lanes \ {l} \/ k.phase = ph
  BY <1>2, <1>4, <1>5, Ends
<1>7. /\ receipts' \subseteq Receipt /\ IsFiniteSet(receipts')
      /\ \A d \in receipts' : d = c2 \/ (d \in receipts /\ d # c)
      /\ \A d \in receipts : d # c /\ d.tracked => d \in receipts'
      /\ \A d \in receipts' : local(d.id)
      /\ ReceiptsOK'
  <2>1. ASSUME NEW k \in lanes', k.phase = "started", waits(k, c) PROVE FALSE
    <3>1. k \in lanes /\ k # l
      BY <1>4, <1>6, <2>1
    <3>2. row(k) = row(l) /\ k.n = l.n
      BY <1>2, <2>1 DEF waits
    <3> QED BY <1>2, <2>1, <3>1, <3>2 DEF ReceiptsOK, BatchesOK
  <2> QED BY <1>2, <1>4, <1>6, <2>1, ReceiptReplaced
<1>8. TrackerOK'
  <2>1. \A d \in receipts' :
           /\ ~d.tracked /\ d.outcome # "Retry" => marked_up_to(d.id)'
           /\ d.outcome \in {"Applied", "TerminalRejected"} => d.id \in settled'
    BY <1>3, <1>4, <1>5, <1>7 DEF TrackerOK, history
  <2>2. \A k \in DOMAIN effects :
           \/ marked_up_to(effects[k])
           \/ \E d \in receipts' : d.tracked /\ d.id = effects[k] /\ d.outcome = "Applied"
    BY <1>2, <1>7 DEF TrackerOK
  <2> QED BY <1>3, <2>1, <2>2 DEF TrackerOK, IdsMarked, history, marked_up_to
<1>9. node = 1 => SettledOK'
  BY <1>3, SettledKept DEF queueVars, history
<1>10. ASSUME node = 1, expiries = 0, LocalKept PROVE OrderOK'
  <2>1. \A d, e \in receipts' : d.tracked /\ e.tracked /\ d.id = e.id => d = e
    BY <1>7 DEF ReceiptsOK
  <2>2. \A d \in receipts' : d.tracked => \E e \in receipts : e.tracked /\ e.id = d.id
    BY <1>2, <1>4, <1>7
  <2>3. \A d \in receipts' : d.tracked => ~marked_up_to(d.id)'
    BY <1>5, <1>10, <2>2 DEF OrderOK
  <2> QED BY <1>3, <1>5, <1>10, <2>1, <2>2, <2>3, OrderMarked DEF queueVars, history
<1> QED BY <1>3, <1>5, <1>6, <1>7, <1>8, <1>9, <1>10, Applying DEF Typed, TypeOK, history

LEMMA FinishKeeps == ASSUME Inv, NEW l \in lanes, Finish(l) PROVE Inv'
<1> USE DEF Inv
<1>1. PICK c : c = waiting_for(l)
  OBVIOUS
<1>2. /\ l.phase = "waiting"
      /\ c \in receipts /\ c \in Receipt /\ c.id = row(l)
  <2>1. l.phase = "waiting"
    BY DEF Finish
  <2>2. c \in receipts /\ waits(l, c)
    BY <1>1, <2>1, Waiting
  <2> QED BY <2>1, <2>2 DEF Typed, waits
<1> DEFINE i == c.id
           ok == c.outcome # "Retry"
           c2 == [c EXCEPT !.tracked = FALSE]
<1>3. /\ c.outcome \in {"Applied", "TerminalRejected", "Retry"}
      /\ tracker' = IF ok THEN marked(i) ELSE tracker
      /\ UNCHANGED <<queueVars, auth, regs, inbox, releasing, late, expiries, history>>
  BY <1>1 DEF Finish
<1>4. /\ \/ ok /\ becomes(l, advanced(l))
         \/ becomes(l, [l EXCEPT !.phase = "done"])
      /\ receipts' = held((receipts \ {c}) \cup {c2}, lanes')
  BY <1>1 DEF Finish, becomes
<1>5. /\ i \in SignalId /\ local(i)
      /\ \A j \in SignalId : lower(j, i) /\ queued(j) => marked_up_to(j)
  BY <1>2, AtRow
<1>6. ok => i \in settled
  BY <1>2, <1>3 DEF TrackerOK
<1>7. c2 \in Receipt /\ c2.id = i /\ c2.n = c.n /\ ~c2.tracked /\ c2.outcome = c.outcome
  BY <1>2 DEF Receipt
<1> HIDE DEF c2, ok
<1>8. /\ tracker' \in [ids: Seq(SignalId), high: [Senders -> 0..MaxSeq]]
      /\ Len(tracker'.ids) <= MaxRecentSignalIds
      /\ IdsMarked'
      /\ \A j \in SignalId : marked_up_to(j) => marked_up_to(j)'
      /\ ok => marked_up_to(i)'
  <2>1. CASE ok
    BY <1>3, <1>5, <2>1, Marked
  <2>2. CASE ~ok
    BY <1>3, <2>2 DEF Typed, TypeOK, TrackerOK, IdsMarked, marked_up_to
  <2> QED BY <2>1, <2>2
<1>9. /\ \A k \in lanes' : LaneTyped(k) /\ RowsOK(k)'
      /\ LanesFollow /\ Unique(lanes') /\ PlacesFollow
  <2>1. CASE ok /\ becomes(l, advanced(l))
    <3>1. PlacesKept => PlacesFollow
      BY DEF PlacesKept, PlacesFollow, SamePlace
    <3> QED BY <1>2, <1>8, <2>1, <3>1, Advances
  <2>2. CASE becomes(l, [l EXCEPT !.phase = "done"])
    BY <1>2, <1>8, <2>2, Ends
  <2> QED BY <1>4, <2>1, <2>2
<1>10. /\ receipts' \subseteq Receipt /\ IsFiniteSet(receipts')
       /\ \A d \in receipts' : d = c2 \/ (d \in receipts /\ d # c)
       /\ \A d \in receipts : d # c /\ d.tracked => d \in receipts'
       /\ \A d \in receipts' : local(d.id)
       /\ ReceiptsOK'
  <2>1. ASSUME NEW k \in lanes', k.phase = "started", waits(k, c) PROVE FALSE
    <3>1. PICK k0 \in lanes : k0.phase = "started" /\ row(k0) = row(k) /\ k0.n = k.n
      BY <1>9, <2>1 DEF PlacesFollow
    <3> QED BY <1>2, <1>3, <2>1, <3>1 DEF ReceiptsOK, waits
  <2>2. ~(c2.outcome \in {"Undispatched", "Pending"})
    BY <1>3, <1>7
  <2> QED BY <1>2, <1>4, <1>7, <1>9, <2>1, <2>2, ReceiptReplaced
<1>11. TrackerOK'
  <2>1. \A d \in receipts : d.id \in SignalId
    BY DEF Typed, TypeOK
  <2>2. ASSUME NEW d \in receipts'
        PROVE  /\ ~d.tracked /\ d.outcome # "Retry" => marked_up_to(d.id)'
               /\ d.outcome \in {"Applied", "TerminalRejected"} => d.id \in settled'
    <3>1. CASE d = c2
      BY <1>3, <1>6, <1>7, <1>8, <3>1 DEF ok, history
    <3>2. CASE d \in receipts
      BY <1>3, <1>8, <2>1, <3>2 DEF TrackerOK, history
    <3> QED BY <1>10, <3>1, <3>2
  <2>3. ASSUME NEW k \in DOMAIN effects
        PROVE  \/ effects[k].seq <= tracker'.high[effects[k].from]
               \/ \E d \in receipts' : d.tracked /\ d.id = effects[k] /\ d.outcome = "Applied"
    <3>1. effects[k] \in SignalId
      BY DEF Typed
    <3>2. CASE marked_up_to(effects[k])
      BY <1>8, <3>1, <3>2 DEF marked_up_to
    <3>3. ASSUME NEW d \in receipts, d.tracked, d.id = effects[k], d.outcome = "Applied"
          PROVE  \/ effects[k].seq <= tracker'.high[effects[k].from]
                 \/ \E e \in receipts' : e.tracked /\ e.id = effects[k] /\ e.outcome = "Applied"
      <4>1. CASE d = c
        BY <1>8, <3>3, <4>1 DEF ok, marked_up_to
      <4>2. CASE d # c
        BY <1>10, <3>3, <4>2
      <4> QED BY <4>1, <4>2
    <3> QED BY <3>2, <3>3 DEF TrackerOK
  <2>4. effects' = effects
    BY <1>3 DEF history
  <2> QED BY <1>8, <2>2, <2>3, <2>4 DEF TrackerOK, marked_up_to
<1>12. node = 1 => SettledOK'
  <2>1. CASE ok
    BY <1>3, <1>5, <1>6, <2>1, SettledMarked DEF history
  <2>2. CASE ~ok
    BY <1>3, <2>2, SettledKept DEF queueVars, history
  <2> QED BY <2>1, <2>2
<1>13. ASSUME node = 1, expiries = 0, LocalKept PROVE OrderOK'
  <2>1. \A d, e \in receipts' : d.tracked /\ e.tracked /\ d.id = e.id => d = e
    BY <1>10 DEF ReceiptsOK
  <2>2. \A d \in receipts' : d.tracked => d \in receipts /\ d # c
    BY <1>7, <1>10
  <2>3. ASSUME NEW d \in receipts', d.tracked PROVE ~marked_up_to(d.id)'
    <3>1. /\ d \in receipts /\ d # c /\ ~marked_up_to(d.id)
          /\ d.id \in SignalId
      BY <1>13, <2>2, <2>3 DEF OrderOK, Typed, TypeOK
    <3>2. CASE ~ok
      BY <1>3, <3>1, <3>2 DEF marked_up_to
    <3>3. CASE ok /\ c.tracked
      <4>1. d.id.from # i.from
        BY <1>2, <1>13, <2>3, <3>1, <3>3 DEF OrderOK
      <4> QED BY <1>3, <1>5, <3>1, <3>3, <4>1, Marked
    <3>4. CASE ok /\ ~c.tracked
      <4>1. marked_up_to(i)
        BY <1>2, <1>3, <3>4 DEF TrackerOK, ok
      <4>2. ~(d.id.from = i.from /\ d.id.seq <= i.seq)
        BY <1>5, <3>1, <4>1 DEF marked_up_to, SignalId, Typed
      <4> QED BY <1>3, <1>5, <3>1, <3>4, <4>2, Marked
    <3> QED BY <3>2, <3>3, <3>4
  <2>4. \A d \in receipts' : d.tracked => ~marked_up_to(d.id)'
    BY <2>3
  <2>5. \A d \in receipts' : d.tracked => \E e \in receipts : e.tracked /\ e.id = d.id
    BY <2>2
  <2> QED BY <1>3, <1>8, <1>13, <2>1, <2>4, <2>5, OrderMarked DEF queueVars, history
<1> QED BY <1>3, <1>8, <1>9, <1>10, <1>11, <1>12, <1>13, Applying DEF Typed, TypeOK, history

-----------------------------------------------------------------------------
(* A delivery reaches its lanes, or goes back.                             *)

LEMMA PollAnsweredKeeps == ASSUME Inv, PollAnswered PROVE Inv'
<1> USE DEF Inv
<1>1. /\ inbox # None /\ inbox' = None /\ inbox \in Inbox
      /\ UNCHANGED <<queueVars, auth, regs, tracker, receipts, late, expiries, history>>
  BY DEF PollAnswered, Typed
<1>2. /\ inbox.batch = polls /\ polls # 0 /\ polls \in Nat
      /\ \A i \in inbox.ids : i.to = inbox.reg.node
      /\ inbox.ids \subseteq SignalId /\ inbox.reg \in Reg
  BY <1>1 DEF BatchesOK, Inbox, Typed, TypeOK, QueueTypeOK
<1>3. CASE auth # inbox.reg
  <2>1. /\ releasing' = releasing \cup
               {[node |-> inbox.reg.node, ids |-> inbox.ids, token |-> polls]}
        /\ lanes' = lanes
    BY <1>2, <1>3 DEF PollAnswered
  <2>2. \A k \in lanes' : LaneTyped(k) /\ RowsOK(k)'
    BY <1>1, <2>1, Itself DEF LanesOK, RowsOK, marked_up_to
  <2>3. LanesFollow /\ Unique(lanes') /\ PlacesKept
    BY <2>1, LanesStay
  <2>4. late' \subseteq [id: SignalId, token: Nat] /\ LateGrows
    BY <1>1 DEF Typed, LateGrows
  <2>5. /\ releasing' \subseteq [node: NodeIds, ids: SUBSET SignalId, token: Nat]
        /\ ReleasingGrows
    BY <1>1, <1>2, <2>1 DEF Typed, ReleasingGrows, Reg
  <2>6. HandsOK'
    BY <1>1, <1>2, <2>1 DEF HandsOK, BatchesOK
  <2> QED BY <1>1, <2>2, <2>3, <2>4, <2>5, <2>6, LanesMove DEF InboxKept, Typed
<1>4. CASE auth = inbox.reg
  <2> DEFINE S(s) == {i \in inbox.ids : i.from = s}
             fresh(s) == lane_of(polls, s, auth, in_order(S(s)))
  <2>1. /\ lanes' = lanes \cup {fresh(s) : s \in {i.from : i \in inbox.ids}}
        /\ releasing' = releasing
    BY <1>2, <1>4 DEF PollAnswered
  <2>2. ASSUME NEW s \in {i.from : i \in inbox.ids}
        PROVE  /\ s \in Senders
               /\ in_order(S(s)) \in Seq(SignalId)
               /\ Len(in_order(S(s))) >= 1
               /\ \A k \in DOMAIN in_order(S(s)) : in_order(S(s))[k] \in S(s)
               /\ \A j, k \in DOMAIN in_order(S(s)) :
                     j < k => in_order(S(s))[j].seq < in_order(S(s))[k].seq
               /\ \A i \in S(s) : \E k \in DOMAIN in_order(S(s)) : in_order(S(s))[k] = i
    <3>1. s \in Senders /\ S(s) # {}
      BY <1>2 DEF SignalId
    <3>2. OneSender(S(s))
      BY <1>2 DEF OneSender
    <3> HIDE DEF S
    <3> QED BY <3>1, <3>2, InOrder
  <2>3. ASSUME NEW l \in lanes', l \notin lanes
        PROVE  /\ l \in Lane /\ l.batch = polls /\ l.reg = auth /\ l.reg = inbox.reg
               /\ l.pos = 1 /\ l.acked = 0 /\ l.phase = "next" /\ Len(l.rows) >= 1
               /\ \A k \in DOMAIN l.rows : l.rows[k] \in inbox.ids /\ l.rows[k].from = l.from
               /\ \A j, k \in DOMAIN l.rows : j < k => l.rows[j].seq < l.rows[k].seq
               /\ \A i \in inbox.ids : i.from = l.from => \E k \in DOMAIN l.rows : l.rows[k] = i
    <3>1. PICK s \in {i.from : i \in inbox.ids} : l = fresh(s)
      BY <2>1, <2>3
    <3> DEFINE q == in_order(S(s))
    <3>2. l = [batch |-> polls, from |-> s, reg |-> auth, rows |-> q,
               pos |-> 1, acked |-> 0, phase |-> "next", n |-> 0, open |-> TRUE]
      BY <3>1 DEF lane_of
    <3>3. s \in Senders /\ q \in Seq(SignalId) /\ Len(q) >= 1
      BY <2>2
    <3>4. \A k \in DOMAIN q : q[k] \in inbox.ids /\ q[k].from = s
      BY <2>2
    <3>5. \A j, k \in DOMAIN q : j < k => q[j].seq < q[k].seq
      BY <2>2
    <3>6. \A i \in inbox.ids : i.from = s => \E k \in DOMAIN q : q[k] = i
      BY <2>2
    <3> HIDE DEF q
    <3>7. l \in Lane
      BY <1>2, <1>4, <3>2, <3>3 DEF Lane
    <3> QED BY <1>4, <3>2, <3>3, <3>4, <3>5, <3>6, <3>7
  <2>4. \A k, l \in lanes' : k \notin lanes /\ l \notin lanes /\ k.from = l.from => k = l
    <3>1. \A k \in lanes' : k \notin lanes => \E s : k = fresh(s) /\ k.from = s
      BY <2>1 DEF lane_of
    <3> HIDE DEF fresh
    <3> QED BY <3>1
  <2> HIDE DEF S, fresh
  <2>5. \A i : marked_up_to(i)' <=> marked_up_to(i)
    BY <1>1 DEF marked_up_to
  <2>6. lanes \subseteq lanes'
    BY <2>1
  <2>7. \A k \in lanes' : LaneTyped(k)
    <3>1. ASSUME NEW k \in lanes', k \notin lanes PROVE LaneTyped(k)
      BY <2>3, <3>1 DEF LaneTyped, Lane
    <3> QED BY <3>1, Itself
  <2>8. ASSUME NEW k \in lanes' PROVE RowsOK(k)'
    <3>1. CASE k \in lanes
      BY <2>5, <3>1 DEF LanesOK, RowsOK
    <3>2. CASE k \notin lanes
      BY <1>2, <2>3, <3>2 DEF RowsOK, Lane
    <3> QED BY <3>1, <3>2
  <2>9. Typed'
    BY <1>1, <2>1, <2>7, LanesTyped DEF Typed, TypeOK, QueueTypeOK, queueVars, history
  <2>10. LocalKept
    <3> SUFFICES ASSUME NEW i \in SignalId, local(i)' PROVE local(i)
      BY DEF LocalKept
    <3>1. CASE \E l \in lanes' : i \in ids_of(l)
      BY <1>1, <2>3, <3>1 DEF local, ids_of
    <3>2. CASE \E c \in receipts' : c.id = i
      BY <1>1, <3>2 DEF local
    <3> QED BY <1>1, <3>1, <3>2 DEF local
  <2>11. KeysOK'
    BY <1>1, KeysKept
  <2>12. NamesOK'
    <3>1. \A l \in lanes' : l.reg.node <= nodes
      BY <1>1, <2>3 DEF NamesOK
    <3> QED BY <1>1, <2>10, <3>1, NamesKept DEF queueVars, InboxKept
  <2>13. BatchesOK'
    <3>1. \A l, k \in lanes' : l.batch = k.batch /\ l.from = k.from => l = k
      BY <1>1, <2>3, <2>4 DEF BatchesOK
    <3> QED BY <1>1, <1>2, <2>1, <2>3, <3>1 DEF BatchesOK, queueVars
  <2>14. HandsOK'
    <3>1. \A l \in lanes', m \in late' :
             l.open /\ m.token = l.batch => m.id.from # l.from
      BY <1>1, <2>3 DEF BatchesOK, HandsOK
    <3>2. \A l \in lanes', t \in releasing' :
             l.open /\ t.token = l.batch => \A i \in t.ids : i.from # l.from
      BY <1>1, <2>1, <2>3 DEF BatchesOK, HandsOK
    <3> QED BY <3>1, <3>2 DEF HandsOK
  <2>15. ReceiptsOK'
    <3>1. PlacesKept
      BY <2>3 DEF PlacesKept, SamePlace
    <3> QED BY <1>1, <3>1, ReceiptsKept
  <2>16. TrackerOK'
    BY <1>1, TrackerKept DEF history
  <2>17. LateOK'
    BY <1>1, <2>5, <2>10, LateKept DEF queueVars
  <2>18. PrefixOK'
    <3>1. \A i : queued(i)' <=> queued(i)
      BY <1>1 DEF queued, queueVars
    <3>2. ASSUME NEW l \in lanes', NEW k \in DOMAIN l.rows, NEW j \in SignalId,
                 lower(j, l.rows[k]), queued(j)
          PROVE  \E h \in DOMAIN l.rows : h < k /\ l.rows[h] = j
      <4>1. CASE l \in lanes
        BY <3>2, <4>1 DEF PrefixOK
      <4>2. CASE l \notin lanes
        <5>1. j \in inbox.ids /\ j.from = l.from
          BY <1>1, <2>3, <3>2, <4>2 DEF PrefixOK, lower
        <5>2. PICK h \in DOMAIN l.rows : l.rows[h] = j
          BY <2>3, <4>2, <5>1
        <5>3. h \in Nat /\ k \in Nat /\ l.rows[h] \in SignalId /\ l.rows[k] \in SignalId
          BY <2>3, <4>2 DEF Lane
        <5>4. j.seq < l.rows[k].seq
          BY <3>2 DEF lower
        <5>5. ~(k < h) /\ k # h
          BY <2>3, <4>2, <5>2, <5>3, <5>4 DEF SignalId
        <5> QED BY <5>2, <5>3, <5>5
      <4> QED BY <4>1, <4>2
    <3> QED BY <1>1, <3>1, <3>2 DEF PrefixOK, lower
  <2>19. (node = 1 => SettledOK)'
    BY <1>1, SettledKept DEF queueVars, history
  <2>20. (node = 1 /\ expiries = 0 => OrderOK)'
    BY <1>1, <2>10, OrderKept DEF queueVars, history
  <2>21. ASSUME expiries = 0 PROVE LeaseOK'
    <3>1. \A r \in queue : ~r.expired
      BY <2>21 DEF LeaseOK
    <3>2. ASSUME NEW l \in lanes', l.open, l.batch > expiredThrough, l.reg.node = node,
                 NEW k \in DOMAIN l.rows, k > l.acked
          PROVE  \E r \in queue : id(r) = l.rows[k] /\ r.token = l.batch
      <4>1. CASE l \in lanes
        BY <2>21, <3>2, <4>1 DEF LeaseOK
      <4>2. CASE l \notin lanes
        BY <1>1, <2>3, <2>21, <3>2, <4>2 DEF LeaseOK
      <4> QED BY <4>1, <4>2
    <3>3. LeaseFencesLaterRows'
      <4> SUFFICES ASSUME NEW l \in lanes', NEW r \in queue, l.open,
                          l.batch > expiredThrough, r.from = l.from, r.to = l.reg.node,
                          r.token > l.batch, NEW k \in (l.acked + 1)..Len(l.rows)
                   PROVE  r.seq < l.rows[k].seq
        BY <1>1 DEF LeaseFencesLaterRows, queueVars
      <4>1. l \in lanes
        <5>1. r.token <= polls /\ r.token \in Nat
          BY DEF KeysOK, Typed, TypeOK, QueueTypeOK, Row
        <5> QED BY <1>2, <2>3, <5>1
      <4> QED BY <2>21, <4>1 DEF LeaseOK, LeaseFencesLaterRows
    <3> QED BY <1>1, <3>1, <3>2, <3>3 DEF LeaseOK, queueVars, id
  <2>22. LanesOK'
    BY <2>8 DEF LanesOK
  <2>23. expiries' = expiries
    BY <1>1
  <2> QED BY <2>9, <2>11, <2>12, <2>13, <2>14, <2>15, <2>16, <2>17, <2>18, <2>19, <2>20, <2>21, <2>22, <2>23
<1> QED BY <1>3, <1>4

-----------------------------------------------------------------------------
(* Requests at the server.                                                 *)

LEMMA RowTyped ==
    ASSUME Typed, NEW r \in queue
    PROVE  /\ r \in Row /\ id(r) \in SignalId
           /\ id(r).from = r.from /\ id(r).to = r.to /\ id(r).seq = r.seq
  BY DEF Typed, TypeOK, QueueTypeOK, Row, id, SignalId

\* An ACK deletes at most the row of signal i under the token it names.
LEMMA AckSound ==
    ASSUME Inv, NEW i \in SignalId, NEW token \in Nat, AckArrives(i, token),
           \A k \in lanes' : LaneTyped(k) /\ RowsOK(k)',
           LanesFollow, Unique(lanes'), PlacesKept, late' \subseteq late,
           node = 1 /\ queued(i) => i \in settled,
           \A r \in queue : id(r) = i /\ r.token = token /\ local(i) => marked_up_to(i),
           \A k \in lanes' : k.open /\ k.batch = token =>
              \A h \in DOMAIN k.rows : h > k.acked => k.rows[h] # i,
           inbox # None => token # polls,
           UNCHANGED <<auth, regs, inbox, tracker, receipts, releasing, expiries,
                       effects, settled>>
    PROVE  Inv'
<1> USE DEF Inv
<1>1. UNCHANGED <<seqs, node, nodes, polls, expiredThrough>>
  BY DEF AckArrives, AckSignals
<1>2. /\ queue' \subseteq queue
      /\ \A r \in queue : r \in queue' \/ (id(r) = i /\ r.token = token)
  BY DEF AckArrives, AckSignals, matches
<1>3. acked \subseteq acked' /\ \A j \in acked' : j \in acked \/ (j = i /\ queued(i))
  BY DEF AckArrives, matches, queued
<1>4. \A j : (queued(j)' => queued(j)) /\ (queued(j) => queued(j)' \/ j = i)
  BY <1>2 DEF queued, id
<1>5. \A j : marked_up_to(j)' <=> marked_up_to(j)
  BY DEF marked_up_to
<1>6. Typed'
  BY <1>1, <1>2, <1>3, LanesTyped DEF Typed, TypeOK, QueueTypeOK
<1>7. LocalKept
  BY LocalShrinks DEF local, InboxKept
<1>8. KeysOK'
  BY <1>1, <1>2 DEF KeysOK, id
<1>9. NamesOK'
  <2>1. \A l \in lanes' : l.reg.node <= nodes
    BY NodesFollow
  <2> QED BY <1>1, <1>7, <2>1, NamesKept DEF InboxKept
<1>10. LanesOK'
  BY DEF LanesOK
<1>11. BatchesOK'
  BY <1>1, BatchesKept DEF InboxKept
<1>12. HandsOK'
  BY HandsKept
<1>13. ReceiptsOK'
  BY ReceiptsKept
<1>14. TrackerOK'
  BY TrackerKept
<1>15. LateOK'
  BY <1>2, <1>5, <1>7, LateKept
<1>16. PrefixOK'
  BY <1>4, PrefixKept DEF InboxKept
<1>17. ASSUME node = 1 PROVE SettledOK'
  BY <1>1, <1>3, <1>4, <1>5, <1>17 DEF SettledOK
<1>18. ASSUME node = 1, expiries = 0 PROVE OrderOK'
  <2>1. ASSUME NEW j \in SignalId, local(j), ~queued(j)' PROVE marked_up_to(j)
    <3>1. CASE queued(j)
      BY <1>2, <1>4, <2>1, <3>1 DEF queued, id
    <3>2. CASE ~queued(j)
      BY <1>18, <2>1, <3>2 DEF OrderOK
    <3> QED BY <3>1, <3>2
  <2>2. AppliedInSendOrder'
    BY <1>18 DEF OrderOK, AppliedInSendOrder
  <2> QED BY <1>4, <1>5, <1>7, <1>18, <2>1, <2>2 DEF OrderOK, LocalKept, lower
<1>19. ASSUME expiries = 0 PROVE LeaseOK'
  <2>1. \A r \in queue' : ~r.expired
    BY <1>2, <1>19 DEF LeaseOK
  <2>2. ASSUME NEW l2 \in lanes', l2.open, l2.batch > expiredThrough, l2.reg.node = node,
               NEW k \in DOMAIN l2.rows, k > l2.acked
        PROVE  \E r \in queue' : id(r) = l2.rows[k] /\ r.token = l2.batch
    <3>1. PICK l \in lanes : Follows(l, l2)
      BY DEF LanesFollow
    <3>2. k > l.acked
      <4>1. l2.acked >= l.acked /\ {l.acked, l2.acked} \subseteq Nat
        BY <3>1 DEF Follows, Typed, LaneTyped, Lane
      <4>2. DOMAIN l2.rows \subseteq Nat
        BY DEF LaneTyped, Lane
      <4> QED BY <2>2, <4>1, <4>2
    <3>3. PICK r \in queue : id(r) = l2.rows[k] /\ r.token = l2.batch
      BY <1>19, <2>2, <3>1, <3>2 DEF LeaseOK, Follows
    <3> QED BY <1>2, <2>2, <3>3
  <2>3. inbox # None /\ polls > expiredThrough /\ inbox.reg.node = node =>
            \A j \in inbox.ids : \E r \in queue' : id(r) = j /\ r.token = polls
    BY <1>2, <1>19 DEF LeaseOK
  <2>4. LeaseFencesLaterRows'
    <3> SUFFICES ASSUME NEW l2 \in lanes', NEW r \in queue, l2.open,
                        l2.batch > expiredThrough, r.from = l2.from, r.to = l2.reg.node,
                        r.token > l2.batch, NEW k \in (l2.acked + 1)..Len(l2.rows)
                 PROVE  r.seq < l2.rows[k].seq
      BY <1>1, <1>2 DEF LeaseFencesLaterRows
    <3>1. PICK l \in lanes : Follows(l, l2)
      BY DEF LanesFollow
    <3>2. k \in (l.acked + 1)..Len(l.rows)
      <4>1. l2.acked >= l.acked /\ {l.acked, l2.acked} \subseteq Nat
        BY <3>1 DEF Follows, Typed, LaneTyped, Lane
      <4>2. l2.rows = l.rows /\ l.rows \in Seq(SignalId)
        BY <3>1 DEF Follows, Typed, Lane
      <4> QED BY <4>1, <4>2
    <3> QED BY <1>19, <3>1, <3>2 DEF LeaseOK, LeaseFencesLaterRows, Follows
  <2> QED BY <1>1, <2>1, <2>2, <2>3, <2>4 DEF LeaseOK, id
<1> QED BY <1>1, <1>6, <1>8, <1>9, <1>10, <1>11, <1>12, <1>13, <1>14, <1>15, <1>16, <1>17, <1>18, <1>19

LEMMA AcknowledgeKeeps == ASSUME Inv, NEW l \in lanes, Acknowledge(l) PROVE Inv'
<1> USE DEF Inv
<1> DEFINE h == l.acked + 1
           i == l.rows[h]
           l2 == [l EXCEPT !.acked = @ + 1]
<1>1. /\ l.open /\ l.acked + 1 < l.pos
      /\ AckArrives(i, l.batch) /\ becomes(l, l2)
      /\ UNCHANGED <<auth, regs, inbox, tracker, receipts, releasing, late, expiries,
                     effects, settled>>
  BY DEF Acknowledge
<1>2. LaneTyped(l) /\ RowsOK(l) /\ l \in Lane /\ l.batch \in Nat
  BY Itself DEF LanesOK, LaneTyped, Lane
<1>3. h \in DOMAIN l.rows /\ h < l.pos
  BY <1>1, <1>2 DEF LaneTyped, Lane
<1>4. i \in SignalId /\ marked_up_to(i) /\ i.from = l.from
  BY <1>2, <1>3 DEF RowsOK, Lane
<1>5. /\ LaneTyped(l2) /\ Follows(l, l2) /\ l2.acked = h /\ l2.pos = l.pos
      /\ l2.phase = l.phase /\ l2.n = l.n /\ l2.rows = l.rows
  <2>1. l2 \in Lane
    BY <1>2 DEF Lane
  <2>2. Follows(l, l2) /\ l2.pos = l.pos /\ l2.acked = h
    BY <1>2 DEF Lane, Follows
  <2>3. l2.phase = l.phase /\ l2.n = l.n /\ l2.rows = l.rows
    BY <1>2 DEF Lane
  <2>4. h \in 0..(l2.pos - 1)
    BY <1>1, <1>2, <2>2 DEF LaneTyped, Lane
  <2> QED BY <1>2, <2>1, <2>2, <2>3, <2>4 DEF LaneTyped
<1> HIDE DEF l2
<1>6. /\ lanes' \subseteq (lanes \ {l}) \cup {l2}
      /\ \A k \in lanes' : LaneTyped(k)
      /\ LanesFollow
      /\ Unique(lanes')
  BY <1>1, <1>5, Replaced DEF l2
<1>7. \A j : marked_up_to(j)' <=> marked_up_to(j)
  BY <1>1 DEF marked_up_to
<1>8. RowsOK(l2)'
  BY <1>2, <1>5, <1>7, RowsKept
<1>9. \A k \in lanes : RowsOK(k)'
  BY <1>7 DEF LanesOK, RowsOK
<1>10. PlacesKept
  <2>1. \A k \in lanes : SamePlace(k, k)
    BY DEF SamePlace
  <2>2. SamePlace(l, l2)
    BY <1>5 DEF SamePlace, row, Follows
  <2> QED BY <1>6, <2>1, <2>2 DEF PlacesKept
<1>11. \A k \in lanes' : k.open /\ k.batch = l.batch =>
          \A g \in DOMAIN k.rows : g > k.acked => k.rows[g] # i
  <2> SUFFICES ASSUME NEW k \in lanes', k.batch = l.batch,
                      NEW g \in DOMAIN k.rows, g > k.acked
               PROVE  k.rows[g] # i
    OBVIOUS
  <2>1. CASE k = l2
    <3>1. g > h /\ h \in DOMAIN l.rows /\ g \in DOMAIN l.rows
      BY <1>3, <1>5, <2>1
    <3>2. l.rows[h].seq < l.rows[g].seq
      BY <1>2, <3>1 DEF RowsOK, Lane
    <3>3. l.rows[h].seq \in Nat
      BY <1>4 DEF SignalId
    <3> QED BY <1>5, <2>1, <3>2, <3>3
  <2>2. CASE k \in lanes /\ k # l
    <3>1. k.from # l.from
      BY <2>2 DEF BatchesOK
    <3>2. k.rows[g].from = k.from
      BY <2>2 DEF LanesOK, RowsOK
    <3> QED BY <1>4, <3>1, <3>2
  <2> QED BY <1>6, <2>1, <2>2
<1>12. inbox # None => l.batch # polls
  BY DEF BatchesOK
<1>13. node = 1 /\ queued(i) => i \in settled
  BY <1>4 DEF SettledOK
<1> HIDE DEF i, h
<1> QED BY <1>1, <1>2, <1>4, <1>6, <1>8, <1>9, <1>10, <1>11, <1>12, <1>13, AckSound

LEMMA LateAckKeeps == ASSUME Inv, NEW m \in late, LateAck(m) PROVE Inv'
<1> USE DEF Inv
<1>1. /\ AckArrives(m.id, m.token) /\ late' \subseteq late
      /\ UNCHANGED <<auth, regs, inbox, lanes, tracker, receipts, releasing, expiries,
                     effects, settled>>
  BY DEF LateAck
<1>2. m.id \in SignalId /\ m.token \in Nat
  BY DEF Typed
<1>3. \A k \in lanes' : LaneTyped(k) /\ RowsOK(k)'
  BY <1>1, Itself DEF LanesOK, RowsOK, marked_up_to
<1>4. LanesFollow /\ Unique(lanes') /\ PlacesKept
  BY <1>1, LanesStay
<1>5. \A k \in lanes' : k.open /\ k.batch = m.token =>
         \A h \in DOMAIN k.rows : h > k.acked => k.rows[h] # m.id
  BY <1>1 DEF HandsOK, LanesOK, RowsOK
<1>6. inbox # None => m.token # polls
  BY DEF BatchesOK
<1>7. node = 1 /\ queued(m.id) => m.id \in settled
  BY DEF SettledOK
<1>8. \A r \in queue : id(r) = m.id /\ r.token = m.token /\ local(m.id) => marked_up_to(m.id)
  BY DEF LateOK
<1> QED BY <1>1, <1>2, <1>3, <1>4, <1>5, <1>6, <1>7, <1>8, AckSound

\* What a step of the server alone leaves to show.
LEMMA ServerOnly ==
    ASSUME Inv, UNCHANGED <<inbox, lanes, tracker, receipts, late, settled, effects, acked>>,
           releasing' \subseteq releasing,
           Typed', KeysOK', NamesOK', UNCHANGED polls, LateOK', PrefixOK',
           (node = 1 => SettledOK)', (node = 1 /\ expiries = 0 => OrderOK)',
           (expiries = 0 => LeaseOK)'
    PROVE  Inv'
<1> USE DEF Inv
<1>1. LanesFollow /\ Unique(lanes') /\ PlacesKept
  BY LanesStay
<1>2. LanesOK'
  BY DEF LanesOK, RowsOK, marked_up_to
<1>3. BatchesOK'
  BY <1>1, BatchesKept DEF InboxKept
<1>4. HandsOK'
  BY <1>1, HandsKept
<1>5. ReceiptsOK'
  BY <1>1, ReceiptsKept
<1>6. TrackerOK'
  BY TrackerKept
<1> QED BY <1>2, <1>3, <1>4, <1>5, <1>6

LEMMA SameLocal ==
    ASSUME UNCHANGED <<inbox, lanes, receipts, tracker>>
    PROVE  /\ \A i : local(i)' <=> local(i)
           /\ \A i : marked_up_to(i)' <=> marked_up_to(i)
  BY DEF local, marked_up_to

LEMMA ReleaseKeeps == ASSUME Inv, NEW t \in releasing, Release(t) PROVE Inv'
<1> USE DEF Inv
<1>1. /\ UNCHANGED <<auth, regs, inbox, lanes, tracker, receipts, late, expiries, history>>
      /\ UNCHANGED <<seqs, node, nodes, polls, expiredThrough>>
      /\ releasing' \subseteq releasing
  BY DEF Release, ReleaseSignalLeases, queueVars
<1>2. /\ \A q \in queue' : \E r \in queue :
            \/ q = r
            \/ q = [r EXCEPT !.token = 0] /\ id(r) \in t.ids /\ r.token = t.token
      /\ \A r \in queue : \E q \in queue' :
            \/ q = r
            \/ q = [r EXCEPT !.token = 0] /\ id(r) \in t.ids /\ r.token = t.token
      /\ \A r \in queue : r \in queue' \/ (id(r) \in t.ids /\ r.token = t.token)
  <2>1. CASE UNCHANGED queue
    BY <2>1
  <2>2. CASE queue' = {IF matches(r, t.ids, t.token) THEN [r EXCEPT !.token = 0] ELSE r : r \in queue}
    BY <2>2 DEF matches
  <2> QED BY <2>1, <2>2 DEF Release, ReleaseSignalLeases, queueVars
<1>3. \A r \in queue : /\ [r EXCEPT !.token = 0] \in Row
                       /\ id([r EXCEPT !.token = 0]) = id(r)
                       /\ [r EXCEPT !.token = 0].token = 0
                       /\ [r EXCEPT !.token = 0].expired = r.expired
  <2> SUFFICES ASSUME NEW r \in queue
               PROVE  /\ [r EXCEPT !.token = 0] \in Row
                      /\ id([r EXCEPT !.token = 0]) = id(r)
                      /\ [r EXCEPT !.token = 0].token = 0
                      /\ [r EXCEPT !.token = 0].expired = r.expired
    OBVIOUS
  <2>1. r \in Row /\ 0 \in 0..MaxPolls
    BY QueueConstants DEF Typed, TypeOK, QueueTypeOK
  <2>2. [r EXCEPT !.token = 0] \in Row
    BY <2>1 DEF Row
  <2>3. [r EXCEPT !.token = 0].token = 0 /\ [r EXCEPT !.token = 0].expired = r.expired
    BY <2>1 DEF Row
  <2>4. id([r EXCEPT !.token = 0]) = id(r)
    BY <2>1 DEF Row, id
  <2> QED BY <2>2, <2>3, <2>4
<1>4. \A q \in queue' : \E r \in queue :
         /\ id(q) = id(r) /\ q.expired = r.expired
         /\ q = r \/ q.token = 0
  BY <1>2, <1>3
<1>5. queue' \subseteq Row
  <2>1. queue \subseteq Row
    BY DEF Typed, TypeOK, QueueTypeOK
  <2> QED BY <1>2, <1>3, <2>1
<1>6. Typed'
  BY <1>1, <1>5 DEF Typed, TypeOK, QueueTypeOK, history
<1>7. \A j : queued(j)' <=> queued(j)
  <2>1. \A r \in queue : \E q \in queue' : id(q) = id(r)
    BY <1>2, <1>3
  <2>2. \A q \in queue' : \E r \in queue : id(q) = id(r)
    BY <1>4
  <2>3. \A j : queued(j)' <=> \E q \in queue' : id(q) = j
    BY DEF queued, id
  <2> QED BY <2>1, <2>2, <2>3 DEF queued
<1>8. KeysOK'
  <2>1. \A q \in queue' : q.to = node /\ q.seq <= seqs[q.from][q.to] /\ q.token <= polls
    <3>1. \A r \in queue : id(r).from = r.from /\ id(r).to = r.to /\ id(r).seq = r.seq
      BY DEF id
    <3>2. \A q \in queue' : id(q).from = q.from /\ id(q).to = q.to /\ id(q).seq = q.seq
      BY DEF id
    <3>3. 0 <= polls
      BY DEF Typed, TypeOK, QueueTypeOK
    <3> QED BY <1>4, <3>1, <3>2, <3>3 DEF KeysOK
  <2>2. ASSUME NEW p \in queue', NEW q \in queue', id(p) = id(q) PROVE p = q
    <3>1. PICK r \in queue :
            \/ p = r
            \/ p = [r EXCEPT !.token = 0] /\ id(r) \in t.ids /\ r.token = t.token
      BY <1>2
    <3>2. PICK s \in queue :
            \/ q = s
            \/ q = [s EXCEPT !.token = 0] /\ id(s) \in t.ids /\ s.token = t.token
      BY <1>2
    <3>3. r = s
      BY <1>3, <2>2, <3>1, <3>2 DEF KeysOK
    <3>4. CASE UNCHANGED queue
      BY <2>2, <3>4 DEF KeysOK
    <3>5. CASE queue' = {IF matches(x, t.ids, t.token) THEN [x EXCEPT !.token = 0] ELSE x : x \in queue}
      <4>1. PICK x \in queue : p = IF matches(x, t.ids, t.token) THEN [x EXCEPT !.token = 0] ELSE x
        BY <3>5
      <4>2. PICK y \in queue : q = IF matches(y, t.ids, t.token) THEN [y EXCEPT !.token = 0] ELSE y
        BY <3>5
      <4>3. id(p) = id(x) /\ id(q) = id(y)
        BY <1>3, <4>1, <4>2
      <4>4. x = y
        BY <2>2, <4>3 DEF KeysOK
      <4> QED BY <4>1, <4>2, <4>4
    <3> QED BY <3>4, <3>5 DEF Release, ReleaseSignalLeases, queueVars
  <2> QED BY <1>1, <2>1, <2>2 DEF KeysOK, id
<1>9. NamesOK'
  <2>1. \A l \in lanes' : l.reg.node <= nodes
    BY <1>1 DEF NamesOK
  <2> QED BY <1>1, <2>1, SameLocal, NamesKept DEF InboxKept, LocalKept
<1>10. LateOK'
  <2> SUFFICES ASSUME NEW m \in late, NEW q \in queue', id(q) = m.id, q.token = m.token,
                      local(m.id)
               PROVE  marked_up_to(m.id)
    BY <1>1, SameLocal DEF LateOK, id
  <2>1. m.token # 0
    BY DEF BatchesOK
  <2> QED BY <1>4, <2>1 DEF LateOK
<1>11. PrefixOK'
  BY <1>1, <1>7, LanesStay, PrefixKept DEF InboxKept
<1>12. (node = 1 => SettledOK)'
  BY <1>1, <1>7, SameLocal DEF SettledOK, history
<1>13. (node = 1 /\ expiries = 0 => OrderOK)'
  <2>1. AppliedInSendOrder => AppliedInSendOrder'
    BY <1>1 DEF AppliedInSendOrder, history
  <2> QED BY <1>1, <1>7, <2>1, SameLocal DEF OrderOK, lower
<1>14. ASSUME expiries = 0 PROVE LeaseOK'
  <2>1. \A q \in queue' : ~q.expired
    BY <1>4, <1>14 DEF LeaseOK
  <2>2. ASSUME NEW l \in lanes, l.open, l.batch > expiredThrough, l.reg.node = node,
               NEW k \in DOMAIN l.rows, k > l.acked
        PROVE  \E r \in queue' : id(r) = l.rows[k] /\ r.token = l.batch
    <3>1. PICK r \in queue : id(r) = l.rows[k] /\ r.token = l.batch
      BY <1>14, <2>2 DEF LeaseOK
    <3>2. ~(id(r) \in t.ids /\ r.token = t.token)
      BY <2>2, <3>1 DEF HandsOK, LanesOK, RowsOK
    <3> QED BY <1>2, <3>1, <3>2
  <2>3. inbox # None /\ polls > expiredThrough /\ inbox.reg.node = node =>
            \A j \in inbox.ids : \E r \in queue' : id(r) = j /\ r.token = polls
    BY <1>2, <1>14 DEF LeaseOK, BatchesOK
  <2>4. LeaseFencesLaterRows'
    <3> SUFFICES ASSUME NEW l \in lanes, NEW q \in queue', l.open,
                        l.batch > expiredThrough, q.from = l.from, q.to = l.reg.node,
                        q.token > l.batch, NEW k \in (l.acked + 1)..Len(l.rows)
                 PROVE  q.seq < l.rows[k].seq
      BY <1>1 DEF LeaseFencesLaterRows
    <3>1. q \in queue
      <4>1. l.batch \in Nat
        BY DEF Typed, Lane
      <4> QED BY <1>4, <4>1
    <3> QED BY <1>14, <3>1 DEF LeaseOK, LeaseFencesLaterRows
  <2> QED BY <1>1, <2>1, <2>2, <2>3, <2>4 DEF LeaseOK, id
<1> QED BY <1>1, <1>6, <1>8, <1>9, <1>10, <1>11, <1>12, <1>13, <1>14, ServerOnly DEF history

LEMMA LeaseTimeoutKeeps == ASSUME Inv, LeaseTimeout PROVE Inv'
<1> USE DEF Inv
<1>1. PICK through \in 1..polls : LeasesExpire(through)
  BY DEF LeaseTimeout
<1>2. /\ UNCHANGED <<queue, seqs, node, nodes, polls>>
      /\ UNCHANGED <<auth, regs, inbox, lanes, tracker, receipts, releasing, late,
                     expiries, history>>
      /\ expiredThrough' \in (expiredThrough + 1)..polls
  BY <1>1 DEF LeasesExpire, LeaseTimeout, clientVars
<1>3. Typed'
  BY <1>2 DEF Typed, TypeOK, QueueTypeOK, history
<1>4. KeysOK'
  BY <1>2 DEF KeysOK
<1>5. NamesOK'
  <2>1. \A l \in lanes' : l.reg.node <= nodes
    BY <1>2 DEF NamesOK
  <2> QED BY <1>2, <2>1, SameLocal, NamesKept DEF InboxKept, LocalKept
<1>6. LateOK'
  BY <1>2, SameLocal, LateKept DEF LocalKept
<1>7. PrefixOK'
  BY <1>2, LanesStay, PrefixKept DEF InboxKept, queued
<1>8. (node = 1 => SettledOK)'
  BY <1>2, SettledKept DEF history
<1>9. (node = 1 /\ expiries = 0 => OrderOK)'
  BY <1>2, SameLocal, OrderKept DEF LocalKept, history
<1>10. ASSUME expiries = 0 PROVE LeaseOK'
  <2>1. \A b \in Nat : b > expiredThrough' => b > expiredThrough
    BY <1>2 DEF Typed, TypeOK, QueueTypeOK
  <2>2. \A l \in lanes : l.batch \in Nat
    BY DEF Typed, Lane
  <2>3. polls \in Nat
    BY DEF Typed, TypeOK, QueueTypeOK
  <2>4. LeaseFencesLaterRows'
    BY <1>2, <1>10, <2>1, <2>2 DEF LeaseOK, LeaseFencesLaterRows
  <2> QED BY <1>2, <1>10, <2>1, <2>2, <2>3, <2>4 DEF LeaseOK, id
<1> QED BY <1>2, <1>3, <1>4, <1>5, <1>6, <1>7, <1>8, <1>9, <1>10, ServerOnly DEF history

LEMMA SignalTimeoutKeeps == ASSUME Inv, SignalTimeout PROVE Inv'
<1> USE DEF Inv
<1>1. PICK s \in Senders, k \in 1..MaxSeq : SignalsExpire(s, k)
  BY DEF SignalTimeout
<1>2. /\ UNCHANGED <<seqs, node, nodes, polls, expiredThrough>>
      /\ UNCHANGED <<auth, regs, inbox, lanes, tracker, receipts, releasing, late, history>>
      /\ expiries' = expiries + 1 /\ expiries \in Nat
      /\ queue' = {IF r.from = s /\ r.to = node /\ r.seq <= k
                   THEN [r EXCEPT !.expired = TRUE] ELSE r : r \in queue}
  BY <1>1 DEF SignalsExpire, SignalTimeout, clientVars, Typed
<1>3. ASSUME NEW r \in queue
      PROVE  /\ [r EXCEPT !.expired = TRUE] \in Row
             /\ id([r EXCEPT !.expired = TRUE]) = id(r)
             /\ [r EXCEPT !.expired = TRUE].token = r.token
  <2>1. r \in Row
    BY RowTyped
  <2>2. [r EXCEPT !.expired = TRUE] \in Row /\ [r EXCEPT !.expired = TRUE].token = r.token
    BY <2>1 DEF Row
  <2>3. id([r EXCEPT !.expired = TRUE]) = id(r)
    BY <2>1 DEF Row, id
  <2> QED BY <2>2, <2>3
<1>4. \A q \in queue' : \E r \in queue : id(q) = id(r) /\ q.token = r.token
  BY <1>2, <1>3
<1>5. \A r \in queue : \E q \in queue' : id(q) = id(r)
  BY <1>2, <1>3
<1>6. Typed'
  <2>1. queue' \subseteq Row
    BY <1>2, <1>3, RowTyped
  <2>2. QueueTypeOK'
    BY <1>2, <2>1 DEF Typed, TypeOK, QueueTypeOK
  <2>3. TypeOK'
    BY <1>2, <2>2 DEF Typed, TypeOK, history
  <2>4. /\ (regs \in 0..MaxRegistrations)'
        /\ (auth = None => regs < MaxRegistrations)'
        /\ (inbox \in Inbox \cup {None})'
    BY <1>2 DEF Typed
  <2>5. (lanes \subseteq Lane)' /\ (late \subseteq [id: SignalId, token: Nat])'
    BY <1>2 DEF Typed
  <2>6. /\ (tracker \in [ids: Seq(SignalId), high: [Senders -> 0..MaxSeq]])'
        /\ (receipts \subseteq Receipt /\ IsFiniteSet(receipts))'
    BY <1>2 DEF Typed
  <2>7. (releasing \subseteq [node: NodeIds, ids: SUBSET SignalId, token: Nat])'
    BY <1>2 DEF Typed
  <2>8. (effects \in Seq(SignalId))'
    BY <1>2 DEF Typed, history
  <2>9. (expiries \in Nat)'
    BY <1>2
  <2> QED BY <2>3, <2>4, <2>5, <2>6, <2>7, <2>8, <2>9 DEF Typed
<1>7. KeysOK'
  <2>1. \A q \in queue' : q.to = node /\ q.seq <= seqs[q.from][q.to] /\ q.token <= polls
    <3>1. \A r : id(r).from = r.from /\ id(r).to = r.to /\ id(r).seq = r.seq
      BY DEF id
    <3> QED BY <1>4, <3>1 DEF KeysOK
  <2>2. ASSUME NEW p \in queue', NEW q \in queue', id(p) = id(q) PROVE p = q
    <3> DEFINE f(x) == IF x.from = s /\ x.to = node /\ x.seq <= k
                       THEN [x EXCEPT !.expired = TRUE] ELSE x
    <3>1. PICK x \in queue : p = f(x)
      BY <1>2
    <3>2. PICK y \in queue : q = f(y)
      BY <1>2
    <3>3. id(p) = id(x) /\ id(q) = id(y)
      BY <1>3, <3>1, <3>2
    <3>4. x = y
      BY <2>2, <3>3 DEF KeysOK
    <3> QED BY <3>1, <3>2, <3>4
  <2> QED BY <1>2, <2>1, <2>2 DEF KeysOK, id
<1>8. NamesOK'
  <2>1. \A l \in lanes' : l.reg.node <= nodes
    BY <1>2 DEF NamesOK
  <2> QED BY <1>2, <2>1, SameLocal, NamesKept DEF InboxKept, LocalKept
<1>9. LateOK'
  <2> SUFFICES ASSUME NEW m \in late, NEW q \in queue', id(q) = m.id, q.token = m.token,
                      local(m.id)
               PROVE  marked_up_to(m.id)
    BY <1>2, SameLocal DEF LateOK, id
  <2> QED BY <1>4 DEF LateOK
<1>10. \A j : queued(j)' <=> queued(j)
  <2>1. \A j : queued(j)' <=> \E q \in queue' : id(q) = j
    BY DEF queued, id
  <2> QED BY <1>4, <1>5, <2>1 DEF queued
<1>11. PrefixOK'
  BY <1>2, <1>10, LanesStay, PrefixKept DEF InboxKept
<1>12. (node = 1 => SettledOK)'
  BY <1>2, <1>10, SameLocal DEF SettledOK, history
<1> QED BY <1>2, <1>6, <1>7, <1>8, <1>9, <1>11, <1>12, ServerOnly DEF history

LEMMA CreateKeeps == ASSUME Inv, NEW s \in Senders, Create(s) PROVE Inv'
<1> USE DEF Inv
<1> DEFINE k == seqs[s][node] + 1
           new == [from |-> s, to |-> node, seq |-> k, token |-> 0, expired |-> FALSE]
<1>1. /\ node # 0 /\ k <= MaxSeq
      /\ queue' = live \cup {new}
      /\ seqs' = [seqs EXCEPT ![s][node] = @ + 1]
      /\ UNCHANGED <<node, nodes, polls, expiredThrough>>
      /\ UNCHANGED <<auth, regs, inbox, lanes, tracker, receipts, releasing, late,
                     expiries, history>>
  <2>1. node # 0 /\ seqs[s][node] < MaxSeq
    BY DEF Create, CreateSignal
  <2>2. seqs[s][node] \in Nat /\ MaxSeq \in Nat
    BY <2>1, QueueConstants DEF Typed, TypeOK, QueueTypeOK
  <2> QED BY <2>1, <2>2 DEF Create, CreateSignal, clientVars
<1>2. node \in NodeIds /\ k \in 1..MaxSeq /\ seqs \in [Senders -> [NodeIds -> 0..MaxSeq]]
  BY <1>1, QueueConstants DEF Typed, TypeOK, QueueTypeOK
<1>3. /\ new \in Row /\ new.token = 0 /\ ~new.expired
      /\ id(new) = [from |-> s, to |-> node, seq |-> k]
      /\ id(new) \in SignalId
  BY <1>2, QueueConstants DEF Row, id, SignalId
<1>4. \A q \in queue' : q \in queue \/ q = new
  BY <1>1 DEF live
<1>5. \A r \in queue : id(r) # id(new)
  <2> SUFFICES ASSUME NEW r \in queue, r.from = s, r.to = node, r.seq = k PROVE FALSE
    BY <1>3 DEF id
  <2> QED BY <1>2 DEF KeysOK
<1>6. \A i \in SignalId : created(i) => ~(i.from = s /\ i.to = node /\ i.seq >= k)
  BY <1>2 DEF created, SignalId
<1>7. /\ seqs' \in [Senders -> [NodeIds -> 0..MaxSeq]]
      /\ seqs'[s][node] = k
      /\ \A x \in Senders, y \in NodeIds : seqs[x][y] <= seqs'[x][y]
  BY <1>1, <1>2
<1> HIDE DEF new, k
<1>8. \A j \in SignalId : queued(j)' => queued(j) \/ j = id(new)
  <2>1. \A j : queued(j)' <=> \E q \in queue' : id(q) = j
    BY DEF queued, id
  <2> QED BY <1>4, <2>1 DEF queued
<1>9. Typed'
  <2>1. queue' \subseteq Row
    BY <1>3, <1>4 DEF Typed, TypeOK, QueueTypeOK
  <2> QED BY <1>1, <1>7, <2>1 DEF Typed, TypeOK, QueueTypeOK, history
<1>10. KeysOK'
  <2>1. \A q \in queue' : q.to = node /\ q.seq <= seqs'[q.from][q.to] /\ q.token <= polls
    <3>1. new.to = node /\ new.seq = k /\ new.from = s /\ new.token <= polls
      BY <1>3 DEF new, Typed, TypeOK, QueueTypeOK
    <3>2. ASSUME NEW r \in queue PROVE r.seq <= seqs'[r.from][r.to]
      <4>1. /\ r.from \in Senders /\ r.to \in NodeIds /\ r.seq \in Nat
            /\ r.seq <= seqs[r.from][r.to]
        BY DEF KeysOK, Typed, TypeOK, QueueTypeOK, Row
      <4>2. seqs[r.from][r.to] \in Nat /\ seqs'[r.from][r.to] \in Nat
        BY <1>2, <1>7, <4>1
      <4> QED BY <1>7, <4>1, <4>2
    <3>3. k <= k
      BY <1>2
    <3> QED BY <1>4, <1>7, <3>1, <3>2, <3>3 DEF KeysOK
  <2>2. \A p, q \in queue' : id(p) = id(q) => p = q
    BY <1>4, <1>5 DEF KeysOK
  <2> QED BY <1>1, <2>1, <2>2 DEF KeysOK, id
<1>11. NamesOK'
  <2>1. ASSUME NEW i \in SignalId, created(i) PROVE created(i)'
    <3>1. seqs[i.from][i.to] <= seqs'[i.from][i.to] /\ i.from \in Senders /\ i.to \in NodeIds
      BY <1>7 DEF SignalId
    <3>2. seqs[i.from][i.to] \in Nat /\ seqs'[i.from][i.to] \in Nat /\ i.seq \in Nat
      BY <1>2, <1>7, <3>1 DEF SignalId
    <3> QED BY <1>1, <2>1, <3>1, <3>2 DEF created
  <2>2. \A m \in late : m.id \in SignalId
    BY DEF Typed
  <2> QED BY <1>1, <2>1, <2>2, SameLocal DEF NamesOK
<1>12. LateOK'
  <2> SUFFICES ASSUME NEW m \in late, NEW q \in queue', id(q) = m.id, q.token = m.token,
                      local(m.id)
               PROVE  marked_up_to(m.id)
    BY <1>1, SameLocal DEF LateOK, id
  <2>1. m.token # 0
    BY DEF BatchesOK
  <2> QED BY <1>3, <1>4, <2>1 DEF LateOK
<1>13. ASSUME NEW i \in SignalId, created(i), NEW j \in SignalId, lower(j, i), queued(j)'
       PROVE  queued(j)
  BY <1>2, <1>3, <1>6, <1>8, <1>13 DEF lower, SignalId
<1>14. PrefixOK'
  <2>1. ASSUME NEW l \in lanes, NEW h \in DOMAIN l.rows
        PROVE  l.rows[h] \in SignalId /\ created(l.rows[h])
    BY DEF Typed, Lane, NamesOK, local, ids_of
  <2>2. \A i \in SignalId : inbox # None /\ i \in inbox.ids => created(i)
    BY DEF NamesOK, local
  <2>3. \A l \in lanes : \A h \in DOMAIN l.rows, j \in SignalId :
           lower(j, l.rows[h]) /\ queued(j)'
           => \E g \in DOMAIN l.rows : g < h /\ l.rows[g] = j
    BY <1>13, <2>1 DEF PrefixOK
  <2>4. inbox # None => inbox.ids \subseteq SignalId
    BY DEF Typed, Inbox
  <2>5. inbox # None =>
          \A i \in inbox.ids, j \in SignalId : lower(j, i) /\ queued(j)' => j \in inbox.ids
    BY <1>13, <2>2, <2>4 DEF PrefixOK
  <2> QED BY <1>1, <2>3, <2>5 DEF PrefixOK, lower
<1>15. ASSUME node = 1 PROVE SettledOK'
  <2>1. \A x \in Senders : tracker.high[x] <= seqs'[x][1]
    <3>1. \A x \in Senders : tracker.high[x] \in Nat /\ seqs[x][1] \in Nat /\ seqs'[x][1] \in Nat
      BY <1>2, <1>7, <1>15 DEF Typed
    <3>2. \A x \in Senders : seqs[x][1] <= seqs'[x][1] /\ tracker.high[x] <= seqs[x][1]
      BY <1>2, <1>7, <1>15 DEF SettledOK
    <3> QED BY <3>1, <3>2
  <2>2. ASSUME NEW i \in SignalId, marked_up_to(i), queued(i)' PROVE i \in settled
    <3>1. i # id(new)
      <4>1. tracker.high[s] < k
        <5>1. tracker.high[s] <= seqs[s][1] /\ tracker.high[s] \in Nat /\ seqs[s][1] \in Nat
          BY <1>2, <1>15 DEF SettledOK, Typed
        <5> QED BY <1>15, <5>1 DEF k
      <4>2. tracker.high[s] \in Nat
        BY DEF Typed
      <4> QED BY <1>2, <1>3, <2>2, <4>1, <4>2 DEF marked_up_to
    <3> QED BY <1>8, <1>15, <2>2, <3>1 DEF SettledOK
  <2>3. ASSUME NEW m \in late, queued(m.id)' PROVE m.id \in settled
    <3>1. m.id \in SignalId /\ created(m.id)
      BY DEF Typed, NamesOK
    <3>2. m.id # id(new)
      BY <1>2, <1>3, <1>6, <3>1
    <3> QED BY <1>8, <1>15, <2>3, <3>1, <3>2 DEF SettledOK
  <2> QED BY <1>1, <1>15, <2>1, <2>2, <2>3, SameLocal DEF SettledOK, history
<1>16. ASSUME expiries = 0 PROVE live = queue /\ queue \subseteq queue'
  BY <1>1, <1>16 DEF LeaseOK, live
<1>17. ASSUME node = 1, expiries = 0 PROVE OrderOK'
  <2>1. \A i \in SignalId : queued(i) => queued(i)'
    BY <1>16, <1>17 DEF queued, id
  <2>2. ASSUME NEW c \in receipts, c.tracked, NEW j \in SignalId, lower(j, c.id), queued(j)'
        PROVE  marked_up_to(j)
    <3>1. c.id \in SignalId /\ created(c.id)
      BY DEF Typed, TypeOK, NamesOK, local
    <3> QED BY <1>13, <1>17, <2>2, <3>1 DEF OrderOK
  <2>3. AppliedInSendOrder'
    BY <1>1, <1>17 DEF OrderOK, AppliedInSendOrder, history
  <2> QED BY <1>1, <1>17, <2>1, <2>2, <2>3, SameLocal DEF OrderOK, lower
<1>18. ASSUME expiries = 0 PROVE LeaseOK'
  <2>1. \A r \in queue' : ~r.expired
    BY <1>3, <1>4, <1>18 DEF LeaseOK
  <2>2. LeaseFencesLaterRows'
    <3>1. \A l \in lanes : ~(new.token > l.batch)
      BY <1>3 DEF Typed, Lane
    <3> QED BY <1>1, <1>4, <1>18, <3>1 DEF LeaseOK, LeaseFencesLaterRows
  <2>3. \A l \in lanes :
          l.open /\ l.batch > expiredThrough /\ l.reg.node = node =>
             \A h \in DOMAIN l.rows : h > l.acked =>
                \E r \in queue' : id(r) = l.rows[h] /\ r.token = l.batch
    BY <1>16, <1>18 DEF LeaseOK
  <2>4. inbox # None /\ polls > expiredThrough /\ inbox.reg.node = node =>
          \A i \in inbox.ids : \E r \in queue' : id(r) = i /\ r.token = polls
    BY <1>16, <1>18 DEF LeaseOK
  <2> QED BY <1>1, <2>1, <2>2, <2>3, <2>4 DEF LeaseOK, id
<1> QED BY <1>1, <1>9, <1>10, <1>11, <1>12, <1>14, <1>15, <1>17, <1>18, ServerOnly DEF history

LEMMA DeletedKeeps == ASSUME Inv, Deleted PROVE Inv'
<1> USE DEF Inv
<1>1. /\ node # 0 /\ nodes < MaxNodes /\ node' = 0
      /\ queue' = {r \in queue : r.to # node}
      /\ seqs' = [s \in Senders |-> [seqs[s] EXCEPT ![node] = 0]]
      /\ UNCHANGED <<nodes, polls, expiredThrough>>
      /\ UNCHANGED <<auth, regs, inbox, lanes, tracker, receipts, releasing, late,
                     expiries, history>>
  BY DEF Deleted, DeleteDevice, clientVars
<1>2. queue' = {}
  BY <1>1 DEF KeysOK
<1>3. Typed'
  <2>1. seqs' \in [Senders -> [NodeIds -> 0..MaxSeq]]
    BY <1>1, QueueConstants DEF Typed, TypeOK, QueueTypeOK
  <2> QED BY <1>1, <1>2, <2>1 DEF Typed, TypeOK, QueueTypeOK, history
<1>4. KeysOK'
  BY <1>1, <1>2 DEF KeysOK
<1>5. NamesOK'
  <2>1. \A i \in SignalId : created(i) => created(i)'
    BY <1>1 DEF created, SignalId, NodeIds
  <2>2. \A m \in late : m.id \in SignalId
    BY DEF Typed
  <2> QED BY <1>1, <2>1, <2>2, SameLocal DEF NamesOK
<1>6. LateOK' /\ PrefixOK'
  BY <1>2 DEF LateOK, PrefixOK, queued
<1>7. ASSUME expiries = 0 PROVE LeaseOK'
  <2>1. \A l \in lanes : l.reg.node # 0
    BY DEF Typed, Lane, Reg, NodeIds
  <2>2. inbox # None => inbox.reg.node # 0
    BY DEF Typed, Inbox, Reg, NodeIds
  <2>3. LeaseFencesLaterRows'
    BY <1>2 DEF LeaseFencesLaterRows
  <2> QED BY <1>1, <1>2, <2>1, <2>2, <2>3 DEF LeaseOK
<1> QED BY <1>1, <1>3, <1>4, <1>5, <1>6, <1>7, ServerOnly DEF history

-----------------------------------------------------------------------------
(* The process and its registration.                                       *)

LEMMA RegisterKeeps == ASSUME Inv, Register PROVE Inv'
<1> USE DEF Inv
<1>1. /\ auth = None /\ regs < MaxRegistrations /\ regs' = regs + 1
      /\ node' = (IF node = 0 THEN nodes + 1 ELSE node)
      /\ nodes' = (IF node = 0 THEN nodes + 1 ELSE nodes)
      /\ \E k \in {regs, regs + 1} \ {0} : auth' = [node |-> node', seq |-> k]
      /\ UNCHANGED <<queue, seqs, polls, expiredThrough>>
      /\ UNCHANGED <<inbox, lanes, tracker, receipts, releasing, late, expiries, history>>
  BY DEF Register, RegisterDevice, Typed
<1>2. /\ node \in Nat /\ nodes \in Nat /\ nodes >= 1 /\ nodes <= MaxNodes /\ regs \in Nat
      /\ MaxNodes \in Nat /\ MaxRegistrations \in Nat
  BY QueueConstants, DeliveryConstants DEF Typed, TypeOK, QueueTypeOK, NodeIds
<1>3. node' \in NodeIds /\ nodes' \in NodeIds
  BY <1>1, <1>2 DEF KeysOK, NodeIds
<1>4. auth' \in Reg /\ auth' # None
  <2>1. PICK k \in {regs, regs + 1} \ {0} : auth' = [node |-> node', seq |-> k]
    BY <1>1
  <2>2. k \in 1..MaxRegistrations
    BY <1>1, <1>2
  <2> QED BY <1>3, <2>1, <2>2, DeliveryConstants DEF Reg
<1>5. node' = nodes' /\ auth'.node = nodes'
  <2>1. auth'.node = node'
    BY <1>1
  <2> QED BY <1>1, <1>2, <2>1 DEF KeysOK, NodeIds
<1>6. node # 0 => node' = node
  BY <1>1
<1>7. node = 0 => queue = {} /\ node' = nodes + 1 /\ node' # 1
  <2>1. \A r \in queue : r.to # 0
    BY DEF Typed, TypeOK, QueueTypeOK, Row, NodeIds
  <2> QED BY <1>1, <1>2, <2>1 DEF KeysOK
<1>8. Typed'
  <2>1. regs' \in 0..MaxRegistrations
    BY <1>1, <1>2
  <2> QED BY <1>1, <1>3, <1>4, <2>1 DEF Typed, TypeOK, QueueTypeOK, history, Reg
<1>9. KeysOK'
  <2>1. node' # 0
    BY <1>3 DEF NodeIds
  <2>2. \A r \in queue : r.to = node'
    BY <1>6, <1>7 DEF KeysOK
  <2> QED BY <1>1, <1>5, <2>1, <2>2 DEF KeysOK
<1>10. NamesOK'
  <2>1. nodes <= nodes' /\ nodes' \in Nat
    BY <1>1, <1>2
  <2>2. ASSUME NEW i \in SignalId, created(i) PROVE created(i)'
    <3>1. i.to \in Nat /\ i.to <= nodes
      BY <2>2 DEF SignalId, NodeIds, created
    <3>2. i.to <= nodes'
      BY <1>2, <2>1, <3>1
    <3>3. i.to = node' => i.to = node
      BY <1>2, <1>6, <1>7, <3>1
    <3> QED BY <1>1, <2>2, <3>2, <3>3 DEF created
  <2>3. \A m \in late : m.id \in SignalId
    BY DEF Typed
  <2>4. \A l \in lanes : l.reg.node <= nodes'
    BY <1>2, <2>1 DEF NamesOK, Typed, Lane, Reg, NodeIds
  <2>5. inbox # None => inbox.reg.node <= nodes'
    BY <1>2, <2>1 DEF NamesOK, Typed, Inbox, Reg, NodeIds
  <2>6. auth'.node <= nodes'
    BY <1>5, <2>1
  <2> QED BY <1>1, <2>2, <2>3, <2>4, <2>5, <2>6, SameLocal DEF NamesOK
<1>11. \A i : queued(i)' <=> queued(i)
  BY <1>1 DEF queued, id
<1>12. LateOK'
  BY <1>1, SameLocal DEF LateOK, id
<1>13. PrefixOK'
  BY <1>1, <1>11, LanesStay, PrefixKept DEF InboxKept
<1>14. ASSUME node' = 1 PROVE SettledOK'
  BY <1>1, <1>6, <1>7, <1>11, <1>14, SameLocal DEF SettledOK, history
<1>15. ASSUME node' = 1, expiries = 0 PROVE OrderOK'
  <2>1. AppliedInSendOrder'
    BY <1>1, <1>6, <1>7, <1>15 DEF OrderOK, AppliedInSendOrder, history
  <2> QED BY <1>1, <1>6, <1>7, <1>11, <1>15, <2>1, SameLocal DEF OrderOK, lower
<1>16. ASSUME expiries = 0 PROVE LeaseOK'
  <2>1. LeaseFencesLaterRows'
    BY <1>1, <1>16 DEF LeaseOK, LeaseFencesLaterRows
  <2>2. \A l \in lanes : l.reg.node = node' => l.reg.node = node
    BY <1>2, <1>6, <1>7 DEF NamesOK, Typed, Lane, Reg, NodeIds
  <2>3. inbox # None /\ inbox.reg.node = node' => inbox.reg.node = node
    BY <1>2, <1>6, <1>7 DEF NamesOK, Typed, Inbox, Reg, NodeIds
  <2> QED BY <1>1, <1>16, <2>1, <2>2, <2>3 DEF LeaseOK, id
<1> QED BY <1>1, <1>8, <1>9, <1>10, <1>12, <1>13, <1>14, <1>15, <1>16, ServerOnly DEF history

LEMMA CrashKeeps == ASSUME Inv, Crash PROVE Inv'
<1> USE DEF Inv
<1>1. /\ regs < MaxRegistrations /\ auth' = None /\ inbox' = None /\ lanes' = {}
      /\ tracker' = empty_tracker /\ receipts' = {} /\ releasing' = {} /\ effects' = <<>>
      /\ UNCHANGED queueVars
      /\ UNCHANGED <<regs, late, expiries, settled, acked>>
  BY DEF Crash
<1>2. /\ tracker'.ids = <<>> /\ tracker'.high = [s \in Senders |-> 0]
      /\ tracker' \in [ids: Seq(SignalId), high: [Senders -> 0..MaxSeq]]
  BY <1>1, QueueConstants DEF empty_tracker
<1>3. \A i \in SignalId : ~local(i)' /\ ~marked_up_to(i)'
  BY <1>1, <1>2 DEF local, marked_up_to, SignalId
<1>4. Typed'
  <2>1. Len(<<>>) <= MaxRecentSignalIds /\ <<>> \in Seq(SignalId) /\ IsFiniteSet({})
    BY FS_EmptySet, DeliveryConstants
  <2> QED BY <1>1, <1>2, <2>1 DEF Typed, TypeOK, QueueTypeOK, queueVars
<1>5. KeysOK'
  BY <1>1, KeysKept
<1>6. NamesOK'
  <2>1. \A i : created(i)' <=> created(i)
    BY <1>1 DEF created, queueVars
  <2> QED BY <1>1, <1>3, <2>1 DEF NamesOK
<1>7. LanesOK' /\ HandsOK' /\ ReceiptsOK'
  BY <1>1 DEF LanesOK, HandsOK, ReceiptsOK
<1>8. BatchesOK'
  BY <1>1 DEF BatchesOK, queueVars
<1>9. TrackerOK'
  BY <1>1, <1>2 DEF TrackerOK, IdsMarked
<1>10. LateOK'
  BY <1>1, <1>3 DEF LateOK, Typed
<1>11. PrefixOK'
  BY <1>1 DEF PrefixOK
<1>12. \A i : queued(i)' <=> queued(i)
  BY <1>1 DEF queued, queueVars
<1>13. ASSUME node = 1 PROVE SettledOK'
  <2>1. \A s \in Senders : tracker'.high[s] <= seqs[s][1]
    BY <1>2, <1>13 DEF Typed, TypeOK, QueueTypeOK
  <2>2. \A m \in late : queued(m.id) => m.id \in settled
    BY <1>13 DEF SettledOK
  <2> QED BY <1>1, <1>3, <1>12, <1>13, <2>1, <2>2 DEF SettledOK, queueVars
<1>14. OrderOK'
  <2>1. AppliedInSendOrder'
    BY <1>1 DEF AppliedInSendOrder
  <2> QED BY <1>1, <1>3, <2>1 DEF OrderOK
<1>15. ASSUME expiries = 0 PROVE LeaseOK'
  <2>1. LeaseFencesLaterRows'
    BY <1>1 DEF LeaseFencesLaterRows
  <2> QED BY <1>1, <1>15, <2>1 DEF LeaseOK, queueVars
<1> QED BY <1>1, <1>4, <1>5, <1>6, <1>7, <1>8, <1>9, <1>10, <1>11, <1>13, <1>14, <1>15 DEF queueVars

LEMMA PollKeeps == ASSUME Inv, Poll PROVE Inv'
<1> USE DEF Inv
<1>1. PICK rows \in SUBSET free :
         /\ is_batch(rows) /\ polls < MaxPolls /\ polls' = polls + 1
         /\ queue' = (live \ rows) \cup {[r EXCEPT !.token = polls + 1] : r \in rows}
         /\ inbox' = [reg |-> auth, batch |-> polls + 1, ids |-> {id(r) : r \in rows}]
  BY DEF Poll, ListSignalsWithLease
<1>2. /\ auth # None /\ auth.node = node /\ inbox = None
      /\ UNCHANGED <<seqs, node, nodes, expiredThrough>>
      /\ UNCHANGED <<auth, regs, lanes, tracker, receipts, releasing, late, expiries, history>>
  BY DEF Poll, ListSignalsWithLease
<1>3. /\ polls \in Nat /\ polls' \in 0..MaxPolls /\ expiredThrough \in Nat
      /\ expiredThrough <= polls
  BY <1>1, QueueConstants DEF Typed, TypeOK, QueueTypeOK
<1> DEFINE leasedNow(r) == [r EXCEPT !.token = polls + 1]
<1>4. /\ live \subseteq queue /\ rows \subseteq live
      /\ \A r \in live : ~r.expired
      /\ \A r \in rows : r.to = node /\ ~leased(r)
  BY DEF live, free
<1>5. \A r \in live : r \in Row /\ id(r) \in SignalId
  BY <1>4, RowTyped
<1>6. ASSUME NEW r \in live
      PROVE  /\ leasedNow(r) \in Row /\ id(leasedNow(r)) = id(r)
             /\ leasedNow(r).token = polls + 1 /\ ~leasedNow(r).expired
  <2>1. r \in Row /\ polls + 1 \in 0..MaxPolls
    BY <1>1, <1>3, <1>5
  <2>2. leasedNow(r) \in Row
    BY <2>1 DEF Row
  <2>3. leasedNow(r).token = polls + 1 /\ leasedNow(r).expired = r.expired
    BY <2>1 DEF Row
  <2>4. id(leasedNow(r)) = id(r)
    BY <2>1 DEF Row, id
  <2> QED BY <1>4, <2>2, <2>3, <2>4
<1>7. /\ \A q \in queue' : (q \in live /\ q \notin rows) \/ \E r \in rows : q = leasedNow(r)
      /\ \A r \in live : r \in rows \/ r \in queue'
      /\ \A r \in rows : leasedNow(r) \in queue'
  BY <1>1
<1> HIDE DEF leasedNow
<1>8. \A q \in queue' : \E r \in live :
         /\ id(q) = id(r)
         /\ \/ q = r /\ r \notin rows
            \/ q = leasedNow(r) /\ r \in rows
  BY <1>4, <1>6, <1>7
<1>9. \A i : queued(i)' <=> \E r \in live : id(r) = i
  <2>1. \A r \in live : \E q \in queue' : id(q) = id(r)
    BY <1>4, <1>6, <1>7
  <2>2. \A i : queued(i)' <=> \E q \in queue' : id(q) = i
    BY DEF queued, id
  <2> QED BY <1>8, <2>1, <2>2
<1>10. \A i : queued(i)' => queued(i)
  BY <1>4, <1>9 DEF queued
<1>11. inbox' \in Inbox
  <2>1. auth \in Reg
    BY <1>2 DEF Typed, TypeOK, Reg
  <2>2. {id(r) : r \in rows} \in SUBSET SignalId
    BY <1>4, <1>5
  <2>3. polls + 1 \in Nat
    BY <1>3
  <2> QED BY <1>1, <2>1, <2>2, <2>3 DEF Inbox
<1>12. /\ inbox'.reg = auth /\ inbox'.batch = polls'
       /\ \A i : i \in inbox'.ids <=> \E r \in rows : i = id(r)
  BY <1>1
<1>13. \A i : marked_up_to(i)' <=> marked_up_to(i)
  BY <1>2 DEF marked_up_to
<1>14. \A i : local(i)' => local(i) \/ i \in inbox'.ids
  BY <1>2 DEF local
<1>15. Typed'
  <2>1. queue' \subseteq Row
    BY <1>5, <1>6, <1>8
  <2>2. expiredThrough \in 0..polls'
    BY <1>1, <1>3
  <2> QED BY <1>2, <1>3, <1>11, <2>1, <2>2 DEF Typed, TypeOK, QueueTypeOK, history
<1>16. KeysOK'
  <2>1. ASSUME NEW q \in queue'
        PROVE  q.to = node /\ q.seq <= seqs[q.from][q.to] /\ q.token <= polls'
    <3>1. PICK r \in live : /\ id(q) = id(r)
                            /\ \/ q = r /\ r \notin rows
                               \/ q = leasedNow(r) /\ r \in rows
      BY <1>8
    <3>2. q.from = r.from /\ q.to = r.to /\ q.seq = r.seq
      BY <3>1 DEF id
    <3>3. r.to = node /\ r.seq <= seqs[r.from][r.to] /\ r.token <= polls /\ r.token \in Nat
      BY <1>4, <1>5 DEF KeysOK, Row
    <3>4. r.token <= polls + 1 /\ polls + 1 <= polls + 1
      BY <1>3, <3>3
    <3>5. q.token <= polls'
      BY <1>1, <1>6, <3>1, <3>4
    <3> QED BY <3>2, <3>3, <3>5
  <2>2. ASSUME NEW p \in queue', NEW q \in queue', id(p) = id(q) PROVE p = q
    <3>1. PICK r \in live : /\ id(p) = id(r)
                            /\ \/ p = r /\ r \notin rows
                               \/ p = leasedNow(r) /\ r \in rows
      BY <1>8
    <3>2. PICK s \in live : /\ id(q) = id(s)
                            /\ \/ q = s /\ s \notin rows
                               \/ q = leasedNow(s) /\ s \in rows
      BY <1>8
    <3>3. r = s
      BY <1>4, <2>2, <3>1, <3>2 DEF KeysOK
    <3> QED BY <3>1, <3>2, <3>3
  <2> QED BY <1>2, <2>1, <2>2 DEF KeysOK, id
<1>17. NamesOK'
  <2>1. \A i : created(i)' <=> created(i)
    BY <1>2 DEF created
  <2>2. ASSUME NEW i \in inbox'.ids PROVE created(i)
    <3>1. PICK r \in queue : i = id(r)
      BY <1>4, <1>12
    <3>2. i.from = r.from /\ i.to = r.to /\ i.seq = r.seq
      BY <3>1 DEF id
    <3>3. r.to = node /\ r.seq <= seqs[r.from][r.to] /\ r.to <= nodes
      <4>1. r.to = node /\ r.seq <= seqs[r.from][r.to]
        BY DEF KeysOK
      <4>2. r.to = nodes \/ r.to = 0
        BY <4>1 DEF KeysOK
      <4>3. r.to # 0 /\ r.to \in Nat
        BY RowTyped DEF Row, NodeIds
      <4> QED BY <4>1, <4>2, <4>3
    <3> QED BY <3>2, <3>3 DEF created
  <2>3. inbox'.reg.node <= nodes
    BY <1>2, <1>12 DEF NamesOK
  <2> QED BY <1>2, <1>14, <2>1, <2>2, <2>3 DEF NamesOK
<1>18. LanesOK' /\ HandsOK' /\ ReceiptsOK' /\ TrackerOK'
  <2>1. LanesOK'
    BY <1>2, <1>13 DEF LanesOK, RowsOK
  <2>2. LanesFollow /\ PlacesKept
    BY <1>2, LanesStay
  <2>3. HandsOK' /\ ReceiptsOK' /\ TrackerOK'
    BY <1>2, <2>2, HandsKept, ReceiptsKept, TrackerKept DEF history
  <2> QED BY <2>1, <2>3
<1>19. BatchesOK'
  <2>1. \A n \in 1..polls : n \in 1..polls' /\ n # polls'
    BY <1>1, <1>3
  <2>2. polls' # 0
    BY <1>1, <1>3
  <2>3. ASSUME NEW i \in inbox'.ids PROVE i.to = inbox'.reg.node
    <3>1. PICK r \in rows : i = id(r)
      BY <1>12
    <3> QED BY <1>2, <1>4, <1>12, <3>1 DEF id
  <2> QED BY <1>2, <1>12, <2>1, <2>2, <2>3 DEF BatchesOK
<1>20. LateOK'
  <2> SUFFICES ASSUME NEW m \in late, NEW q \in queue', id(q) = m.id, q.token = m.token,
                      local(m.id)'
               PROVE  marked_up_to(m.id)
    BY <1>2, <1>13 DEF LateOK, id
  <2>1. PICK r \in live : /\ id(q) = id(r)
                          /\ \/ q = r /\ r \notin rows
                             \/ q = leasedNow(r) /\ r \in rows
    BY <1>8
  <2>2. m.token # polls + 1
    BY <1>3 DEF BatchesOK
  <2>3. q = r /\ r \notin rows
    BY <1>6, <2>1, <2>2
  <2>4. m.id \notin inbox'.ids
    BY <1>4, <1>12, <2>3 DEF KeysOK
  <2> QED BY <1>4, <1>14, <2>3, <2>4 DEF LateOK
<1>21. PrefixOK'
  <2>1. \A l \in lanes : \A k \in DOMAIN l.rows, j \in SignalId :
           lower(j, l.rows[k]) /\ queued(j)'
           => \E h \in DOMAIN l.rows : h < k /\ l.rows[h] = j
    BY <1>10 DEF PrefixOK
  <2>2. ASSUME NEW i \in inbox'.ids, NEW j \in SignalId, lower(j, i), queued(j)'
        PROVE  j \in inbox'.ids
    <3>1. PICK r \in rows : i = id(r)
      BY <1>12
    <3>2. PICK s \in live : j = id(s)
      BY <1>9, <2>2
    <3>3. s.from = r.from /\ s.to = r.to /\ s.seq < r.seq
      BY <2>2, <3>1, <3>2 DEF lower, id
    <3>4. r \in free /\ r.to = node
      BY <1>4
    <3>5. /\ {s.seq, r.seq, s.token} \subseteq Nat
          /\ \A e \in live : e.seq \in Nat
      BY <1>4, <1>5, <3>2 DEF Row
    <3>6. ~leased(s)
      BY <3>2, <3>3, <3>4 DEF free
    <3>7. \A e \in live : e.from = s.from /\ e.to = s.to /\ e.seq < s.seq => ~leased(e)
      BY <3>2, <3>3, <3>4, <3>5 DEF free
    <3>8. s \in free
      BY <3>2, <3>3, <3>4, <3>6, <3>7 DEF free
    <3>9. s \in rows
      BY <1>1, <3>1, <3>3, <3>5, <3>8 DEF is_batch
    <3> QED BY <1>12, <3>2, <3>9
  <2> QED BY <1>2, <2>1, <2>2 DEF PrefixOK, lower
<1>22. ASSUME node = 1 PROVE SettledOK'
  <2>1. \A m \in late : m.id \in SignalId
    BY DEF Typed
  <2> QED BY <1>2, <1>10, <1>13, <1>22, <2>1 DEF SettledOK, history
<1>23. ASSUME expiries = 0 PROVE live = queue
  BY <1>23 DEF LeaseOK, live
<1>24. ASSUME node = 1, expiries = 0 PROVE OrderOK'
  <2>1. \A i : queued(i)' <=> queued(i)
    BY <1>9, <1>23, <1>24 DEF queued
  <2>2. \A i \in inbox'.ids : queued(i)
    BY <1>4, <1>12 DEF queued
  <2>3. AppliedInSendOrder'
    BY <1>2, <1>24 DEF OrderOK, AppliedInSendOrder, history
  <2> QED BY <1>2, <1>13, <1>14, <1>24, <2>1, <2>2, <2>3 DEF OrderOK, lower
<1>25. ASSUME expiries = 0 PROVE LeaseOK'
  <2>1. \A q \in queue' : ~q.expired
    BY <1>4, <1>6, <1>8
  <2>2. ASSUME NEW l \in lanes, l.open, l.batch > expiredThrough, l.reg.node = node,
               NEW k \in DOMAIN l.rows, k > l.acked
        PROVE  \E r \in live : /\ id(r) = l.rows[k] /\ r.token = l.batch
                               /\ leased(r) /\ r \in queue'
    <3>1. PICK r \in queue : id(r) = l.rows[k] /\ r.token = l.batch
      BY <1>25, <2>2 DEF LeaseOK
    <3>2. leased(r) /\ r \in live
      BY <1>23, <1>25, <2>2, <3>1 DEF leased
    <3> QED BY <1>4, <1>7, <3>1, <3>2
  <2>3. \A i \in inbox'.ids : \E r \in queue' : id(r) = i /\ r.token = polls'
    BY <1>1, <1>4, <1>6, <1>7, <1>12
  <2>4. LeaseFencesLaterRows'
    <3> SUFFICES ASSUME NEW l \in lanes, NEW q \in queue', l.open, l.batch > expiredThrough,
                        q.from = l.from, q.to = l.reg.node, q.token > l.batch,
                        NEW k \in (l.acked + 1)..Len(l.rows)
                 PROVE  q.seq < l.rows[k].seq
      BY <1>2 DEF LeaseFencesLaterRows
    <3>1. PICK r \in live : /\ id(q) = id(r)
                            /\ \/ q = r /\ r \notin rows
                               \/ q = leasedNow(r) /\ r \in rows
      BY <1>8
    <3>2. CASE q = r
      BY <1>4, <1>25, <3>1, <3>2 DEF LeaseOK, LeaseFencesLaterRows
    <3>3. CASE r \in rows
      <4>1. q.from = r.from /\ q.to = r.to /\ q.seq = r.seq /\ r.to = node /\ r \in free
        BY <1>4, <3>1, <3>3 DEF id
      <4>2. k \in DOMAIN l.rows /\ k > l.acked
        BY DEF Typed, Lane
      <4>3. PICK s \in live : id(s) = l.rows[k] /\ leased(s)
        BY <2>2, <4>1, <4>2
      <4>4. s.from = l.from /\ s.to = l.reg.node /\ s.seq = l.rows[k].seq
        BY <4>2, <4>3 DEF LanesOK, RowsOK, id
      <4>5. ~(s.seq < r.seq)
        BY <4>1, <4>3, <4>4 DEF free
      <4>6. s.seq # r.seq
        BY <1>4, <4>1, <4>3, <4>4 DEF KeysOK, id, free
      <4>7. s.seq \in Nat /\ r.seq \in Nat
        BY <1>5, <4>3 DEF Row
      <4> QED BY <4>1, <4>4, <4>5, <4>6, <4>7
    <3> QED BY <3>1, <3>2, <3>3
  <2>5. \A l \in lanes :
          l.open /\ l.batch > expiredThrough /\ l.reg.node = node =>
             \A k \in DOMAIN l.rows : k > l.acked =>
                \E r \in queue' : id(r) = l.rows[k] /\ r.token = l.batch
    BY <2>2
  <2> QED BY <1>2, <2>1, <2>3, <2>4, <2>5 DEF LeaseOK, id
<1> QED BY <1>2, <1>15, <1>16, <1>17, <1>18, <1>19, <1>20, <1>21, <1>22, <1>24, <1>25

-----------------------------------------------------------------------------
(* The invariant holds.                                                    *)

LEMMA StutterKeeps == ASSUME Inv, UNCHANGED vars PROVE Inv'
<1> USE DEF Inv
<1>1. /\ UNCHANGED <<queue, seqs, node, nodes, polls, expiredThrough>>
      /\ UNCHANGED <<auth, regs, inbox, lanes, tracker, receipts, releasing, late, expiries,
                     effects, settled, acked>>
  BY DEF vars, queueVars, clientVars, history
<1>2. Typed' /\ KeysOK'
  BY <1>1 DEF Typed, TypeOK, QueueTypeOK, KeysOK
<1>3. NamesOK'
  BY <1>1, SameLocal DEF NamesOK, created
<1>4. LateOK'
  BY <1>1, SameLocal DEF LateOK
<1>5. \A i : queued(i)' <=> queued(i)
  BY <1>1 DEF queued
<1>6. PrefixOK'
  BY <1>1, <1>5 DEF PrefixOK, lower
<1>7. node = 1 => SettledOK'
  BY <1>1, <1>5, SameLocal DEF SettledOK
<1>8. node = 1 /\ expiries = 0 => OrderOK'
  BY <1>1, <1>5, OrderKept, SameLocal DEF LocalKept
<1>9. expiries = 0 => LeaseOK'
  BY <1>1 DEF LeaseOK, LeaseFencesLaterRows
<1> QED BY <1>1, <1>2, <1>3, <1>4, <1>6, <1>7, <1>8, <1>9, ServerOnly

LEMMA InitInv == Init => Inv
<1> SUFFICES ASSUME Init PROVE Inv
  OBVIOUS
<1> USE DEF Init, QueueInit
<1>1. Typed
  <2>1. 0 \in 0..MaxSeq /\ 1 \in NodeIds /\ 0 \in 0..MaxPolls /\ 0 \in 0..0
    BY QueueConstants DEF NodeIds
  <2>2. /\ 0 \in 0..MaxRegistrations /\ 0 < MaxRegistrations /\ 0 <= MaxRecentSignalIds
        /\ IsFiniteSet({})
    BY DeliveryConstants, FS_EmptySet
  <2>3. seqs \in [Senders -> [NodeIds -> 0..MaxSeq]]
    BY <2>1
  <2>4. tracker \in [ids: Seq(SignalId), high: [Senders -> 0..MaxSeq]] /\ Len(tracker.ids) = 0
    BY <2>1 DEF empty_tracker
  <2> QED BY <2>1, <2>2, <2>3, <2>4 DEF Typed, TypeOK, QueueTypeOK
<1>2. KeysOK
  BY DEF KeysOK
<1>3. \A i \in SignalId : ~local(i) /\ ~marked_up_to(i) /\ ~queued(i)
  BY DEF local, marked_up_to, queued, empty_tracker, SignalId
<1>4. NamesOK
  BY <1>3 DEF NamesOK
<1>5. LanesOK /\ BatchesOK /\ HandsOK /\ ReceiptsOK
  BY DEF LanesOK, BatchesOK, HandsOK, ReceiptsOK
<1>6. TrackerOK /\ LateOK /\ PrefixOK
  BY DEF TrackerOK, IdsMarked, LateOK, PrefixOK, empty_tracker
<1>7. SettledOK
  <2>1. \A s \in Senders : tracker.high[s] <= seqs[s][1]
    BY QueueConstants DEF empty_tracker, NodeIds
  <2> QED BY <1>3, <2>1 DEF SettledOK
<1>8. OrderOK
  BY <1>3 DEF OrderOK, AppliedInSendOrder
<1>9. LeaseOK
  BY DEF LeaseOK, LeaseFencesLaterRows
<1> QED BY <1>1, <1>2, <1>4, <1>5, <1>6, <1>7, <1>8, <1>9 DEF Inv

LEMMA LaneStepKeeps == ASSUME Inv, NEW l \in lanes, LaneStep(l) PROVE Inv'
  BY ApplyKnownKeeps, BeginApplicationKeeps, DispatchKeeps, FinishKeeps, ApplyStopsKeeps,
     AcknowledgeKeeps, LaneRevokedKeeps DEF LaneStep

LEMMA NextKeeps == Inv /\ [Next]_vars => Inv'
<1> SUFFICES ASSUME Inv, [Next]_vars PROVE Inv'
  OBVIOUS
<1>1. CASE Progress
  <2>1. ASSUME NEW c \in receipts, NEW o \in {"Applied", "TerminalRejected"}, Complete(c, o)
        PROVE  Inv'
    BY <2>1, CompleteKeeps
  <2> QED BY <1>1, <2>1, PollKeeps, PollAnsweredKeeps, LaneStepKeeps, RegisterKeeps,
             LeaseTimeoutKeeps DEF Progress
<1>2. ASSUME NEW s \in Senders, Create(s) PROVE Inv'
  BY <1>2, CreateKeeps
<1>3. ASSUME NEW l \in lanes, WaitTimedOut(l) \/ AckFailed(l) PROVE Inv'
  BY <1>3, WaitTimedOutKeeps, AckFailedKeeps
<1>4. ASSUME NEW c \in receipts, Complete(c, "Retry") PROVE Inv'
  BY <1>4, CompleteKeeps
<1>5. ASSUME NEW m \in late, LateAck(m) PROVE Inv'
  BY <1>5, LateAckKeeps
<1>6. ASSUME NEW t \in releasing, Release(t) PROVE Inv'
  BY <1>6, ReleaseKeeps
<1>7. CASE PollLost \/ Revoke \/ Deleted \/ SignalTimeout \/ Crash
  BY <1>7, PollLostKeeps, RevokeKeeps, DeletedKeeps, SignalTimeoutKeeps, CrashKeeps
<1>8. CASE UNCHANGED vars
  BY <1>8, StutterKeeps
<1> QED BY <1>1, <1>2, <1>3, <1>4, <1>5, <1>6, <1>7, <1>8 DEF Next

\* The invariant survives every step of the daemon, the server, the network and
\* the clock, crashes and deleted devices included.
THEOREM Invariance == Spec => []Inv
  BY InitInv, NextKeeps, PTL DEF Spec

-----------------------------------------------------------------------------
(* The properties.                                                         *)

\* The lanes stay inside their batches, the list of recent ids inside its limit,
\* and everything the daemon names is a signal of the queue (signal_delivery.rs).
THEOREM DeliveryTypes == Spec => []TypeOK
<1>1. Inv => TypeOK
  BY DEF Inv, Typed
<1> QED BY <1>1, Invariance, PTL

\* While the receiver keeps its node id: every row the server deletes on an ACK
\* was applied or terminally rejected, through redelivery, late ACKs, timeouts,
\* re-registration and crashes (control/http/signal.rs, signal_ack.rs).
THEOREM NoneIsLost == Spec => []NoneLost
<1>1. Inv => NoneLost
  BY DEF Inv, SettledOK, NoneLost, AckedOnlyAfterApplication
<1> QED BY <1>1, Invariance, PTL

\* While the receiver keeps its node id and no row ends by age: one process
\* applies the signals of a sender in the order they were sent and none twice,
\* whatever lanes, joins and timeouts do (apply_signal_batch).
THEOREM SendOrder == Spec => []InSendOrder
<1>1. Inv => InSendOrder
  BY DEF Inv, OrderOK, InSendOrder
<1> QED BY <1>1, Invariance, PTL

\* However many lanes hold a delivery of a signal, one application of it is in the
\* state machine; and while no row has ended by age, a lease holds back the later
\* rows of its sender (signal_delivery.rs, database/signals.go).
THEOREM OneAtATime == Spec => []OneDeliveryAtATime
<1>1. Inv => OneApplicationAtATime
  BY DEF Inv, ReceiptsOK, OneApplicationAtATime
<1>2. Inv /\ expiries = 0 => LeaseFencesLaterRows
  BY DEF Inv, LeaseOK
<1>3. Inv => OneDeliveryAtATime
  BY <1>1, <1>2 DEF OneDeliveryAtATime
<1> QED BY <1>3, Invariance, PTL

\* What the property says of one step.
Spares ==
    \A r \in queue, l \in lanes :
       /\ l.open /\ current(l)
       /\ r.token = l.batch /\ id(r) \in ids_of(l)
       => ~\E q \in queue' : id(q) = id(r) /\ q.token = 0

\* No delivery is taken back.
ClearsNothing ==
    \A q \in queue', r \in queue : id(q) = id(r) /\ q.token = 0 => r.token = 0

LEMMA ClearingNothingSpares == ASSUME Inv, ClearsNothing PROVE Spares
<1>1. \A l \in lanes : l.batch # 0
  BY DEF Inv, BatchesOK
<1> QED BY <1>1 DEF Spares, ClearsNothing

LEMMA SubsetClearsNothing == ASSUME Inv, queue' \subseteq queue PROVE ClearsNothing
  BY DEF ClearsNothing, Inv, KeysOK

LEMMA ReleaseSpares == ASSUME Inv, NEW t \in releasing, Release(t) PROVE Spares
<1> USE DEF Inv
<1>1. CASE UNCHANGED queueVars
  BY <1>1, SubsetClearsNothing, ClearingNothingSpares DEF queueVars
<1>2. CASE ReleaseSignalLeases(t.ids, t.token)
  <2> SUFFICES ASSUME NEW r \in queue, NEW l \in lanes, l.open, r.token = l.batch,
                      id(r) \in ids_of(l), NEW q \in queue', id(q) = id(r), q.token = 0
               PROVE  FALSE
    BY DEF Spares
  <2>1. PICK x \in queue : q = IF matches(x, t.ids, t.token) THEN [x EXCEPT !.token = 0] ELSE x
    BY <1>2 DEF ReleaseSignalLeases
  <2>2. x \in Row
    BY DEF Typed, TypeOK, QueueTypeOK
  <2>3. id(q) = id(x)
    BY <2>1, <2>2 DEF id, Row
  <2>4. x = r
    BY <2>3 DEF KeysOK
  <2>5. r.token # 0
    BY DEF BatchesOK
  <2>6. matches(r, t.ids, t.token)
    BY <2>1, <2>4, <2>5
  <2>7. id(r).from # l.from
    BY <2>6 DEF matches, HandsOK
  <2>8. id(r).from = l.from
    BY DEF ids_of, LanesOK, RowsOK
  <2> QED BY <2>7, <2>8
<1> QED BY <1>1, <1>2 DEF Release

LEMMA NextSpares == Inv /\ [Next]_vars => Spares
<1> SUFFICES ASSUME Inv, [Next]_vars PROVE Spares
  OBVIOUS
<1>1. CASE Poll
  <2>1. PICK rows \in SUBSET free :
          /\ polls < MaxPolls
          /\ queue' = (live \ rows) \cup {[r EXCEPT !.token = polls + 1] : r \in rows}
    BY <1>1 DEF Poll, ListSignalsWithLease
  <2>2. rows \subseteq queue /\ live \subseteq queue /\ queue \subseteq Row /\ polls \in Nat
    BY DEF free, live, Inv, Typed, TypeOK, QueueTypeOK
  <2>3. \A r \in rows : [r EXCEPT !.token = polls + 1].token # 0
    BY <2>2 DEF Row
  <2>4. \A q \in queue' : q.token = 0 => q \in queue
    BY <2>1, <2>2, <2>3
  <2> QED BY <2>4, ClearingNothingSpares DEF ClearsNothing, Inv, KeysOK
<1>2. ASSUME NEW s \in Senders, Create(s) PROVE Spares
  <2> DEFINE new == [from |-> s, to |-> node, seq |-> seqs[s][node] + 1, token |-> 0,
                     expired |-> FALSE]
  <2>1. node # 0 /\ queue' = live \cup {new}
    BY <1>2 DEF Create, CreateSignal
  <2>2. seqs[s][node] \in Nat
    BY <2>1 DEF Inv, Typed, TypeOK, QueueTypeOK
  <2>3. ASSUME NEW r \in queue, id(r) = id(new) PROVE FALSE
    <3>1. r.from = s /\ r.to = node /\ r.seq = seqs[s][node] + 1
      BY <2>3 DEF id
    <3>2. r.seq <= seqs[s][node]
      BY <3>1 DEF Inv, KeysOK
    <3> QED BY <2>2, <3>1, <3>2
  <2>4. \A q \in queue' : q \in queue \/ q = new
    BY <2>1 DEF live
  <2> HIDE DEF new
  <2> QED BY <2>3, <2>4, ClearingNothingSpares DEF ClearsNothing, Inv, KeysOK
<1>3. CASE SignalTimeout
  <2>1. PICK s \in Senders, k \in 1..MaxSeq :
          queue' = {IF r.from = s /\ r.to = node /\ r.seq <= k
                    THEN [r EXCEPT !.expired = TRUE] ELSE r : r \in queue}
    BY <1>3 DEF SignalTimeout, SignalsExpire
  <2>2. ASSUME NEW r \in queue
        PROVE  id([r EXCEPT !.expired = TRUE]) = id(r) /\ [r EXCEPT !.expired = TRUE].token = r.token
    BY DEF id, Row, Inv, Typed, TypeOK, QueueTypeOK
  <2>3. \A q \in queue' : \E r \in queue : id(q) = id(r) /\ q.token = r.token
    BY <2>1, <2>2
  <2> QED BY <2>3, ClearingNothingSpares DEF ClearsNothing, Inv, KeysOK
<1>4. ASSUME NEW t \in releasing, Release(t) PROVE Spares
  BY <1>4, ReleaseSpares
<1>5. ASSUME queue' \subseteq queue PROVE Spares
  BY <1>5, SubsetClearsNothing, ClearingNothingSpares
<1>6. ASSUME NEW l \in lanes, LaneStep(l) \/ WaitTimedOut(l) \/ AckFailed(l)
      PROVE  queue' \subseteq queue
  BY <1>6 DEF LaneStep, ApplyKnown, BeginApplication, Dispatch, Finish, ApplyStops,
              Acknowledge, AckArrives, AckSignals, LaneRevoked, WaitTimedOut, AckFailed,
              queueVars
<1>7. ASSUME NEW c \in receipts, NEW o, Complete(c, o) PROVE queue' \subseteq queue
  BY <1>7 DEF Complete, queueVars
<1>8. ASSUME NEW m \in late, LateAck(m) PROVE queue' \subseteq queue
  BY <1>8 DEF LateAck, AckArrives, AckSignals
<1>9. CASE PollAnswered \/ PollLost \/ Register \/ LeaseTimeout \/ Revoke \/ Deleted \/ Crash
           \/ UNCHANGED vars
  <2>1. queue' \subseteq queue
    BY <1>9 DEF PollAnswered, PollLost, Register, RegisterDevice, LeaseTimeout, LeasesExpire,
                Revoke, Deleted, DeleteDevice, Crash, vars, queueVars
  <2> QED BY <1>5, <2>1
<1> QED BY <1>1, <1>2, <1>3, <1>4, <1>5, <1>6, <1>7, <1>8, <1>9 DEF Next, Progress

\* A release takes no delivery from a lane that may still work on it: tasks that
\* release were handed the delivery when their lane was closed or their answer
\* came too late (signal_release.rs).
THEOREM ReleaseSparesLanes == Spec => ReleaseSparesCurrentLane
<1>1. Inv /\ [Next]_vars => [Spares]_vars
  BY NextSpares
<1> QED BY <1>1, Invariance, PTL DEF Spec, ReleaseSparesCurrentLane, Spares
=============================================================================
