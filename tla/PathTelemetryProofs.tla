------------------------ MODULE PathTelemetryProofs ------------------------
(***************************************************************************)
(* What PathTelemetry keeps for every number of peers, every limit and     *)
(* every order of commits, drains, reports, losses and restarts: no commit *)
(* is stranded in the hub, what Control shows of a peer never goes back,   *)
(* and until a socket opens an acknowledged observation is recorded.       *)
(*                                                                         *)
(* Each action is taken by the part of the invariant it disturbs: the hub  *)
(* (types, queue, snapshots, what is on its way), and Control (batches,    *)
(* what a served POST and an acknowledgement stand for).                   *)
(***************************************************************************)
EXTENDS PathTelemetry, FiniteSetTheorems, TLAPS

-----------------------------------------------------------------------------
(* The inductive invariant.                                                *)

Entry == [peer: Peers, obs: Observation]
Post == [seq: Nat, batch: SUBSET Entry, done: BOOLEAN]
Maybe == Observation \union {Unknown}

Senders == [at: {"idle"}] \union [at: {"drained"}, ids: SUBSET Peers]
             \union [at: {"posted"}, batch: SUBSET Entry]

HubTyped ==
    /\ registrationSeq \in Nat
    /\ fence \in [Peers -> Fences]
    /\ latest_snapshots \in [Peers -> Maybe]
    /\ marking \in SUBSET Peers
    /\ dirty_peers \in Seq(Peers)
    /\ commits \in Nat

WireTyped ==
    /\ http \in Senders
    /\ ws \in Senders /\ ws.at # "posted"
    /\ connected \in BOOLEAN
    /\ posts \in SUBSET Post
    /\ frames \in Seq(SUBSET Entry)
    /\ stored \in [Peers -> Maybe]
    /\ acked \in [Peers -> Maybe]
    /\ sockets \in Nat

QueueKept ==
    /\ Len(dirty_peers) <= MaxDirty
    /\ IsInjective(dirty_peers)

SnapshotsCurrent ==
    \A p \in Peers : latest_snapshots[p] # Unknown =>
        latest_snapshots[p].seq = registrationSeq /\ latest_snapshots[p].fence = fence[p]

\* Every peer on its way through the hub has an observation: a drain never
\* reports a peer of which there is nothing to say.
Known ==
    /\ \A p \in marking \union Range(dirty_peers) : latest_snapshots[p] # Unknown
    /\ http.at = "drained" => \A p \in http.ids : latest_snapshots[p] # Unknown
    /\ ws.at = "drained" => \A p \in ws.ids : latest_snapshots[p] # Unknown

OneEach(b) == \A o1, o2 \in b : o1.peer = o2.peer => o1 = o2

BatchesSingle ==
    /\ http.at = "posted" => OneEach(http.batch)
    /\ \A m \in posts : OneEach(m.batch)

\* Until a socket opens, nothing is reported but by POST.
NoSocket == sockets = 0 => ~connected /\ frames = <<>> /\ ws.at = "idle"

AtLeast(p, o) == stored[p] # Unknown /\ ~Newer(o, stored[p])

\* What a POST brought is recorded from the moment Control served it, so that
\* its answer may come at any time later.
ServedIsRecorded == \A m \in posts : m.done => \A o \in m.batch : AtLeast(o.peer, o.obs)

AckedRecorded == sockets = 0 => \A p \in Peers : acked[p] # Unknown => AtLeast(p, acked[p])

HubPart == HubTyped /\ QueueKept /\ SnapshotsCurrent /\ Known /\ NoUpdateStranded

ControlPart ==
    WireTyped /\ BatchesSingle /\ NoSocket /\ ServedIsRecorded /\ AckedRecorded

Inv == HubPart /\ ControlPart

-----------------------------------------------------------------------------
(* The fence is a lexicographic order on quadruples.                       *)

\* Less, written out.
LEMMA LessWrittenOut ==
    ASSUME NEW f \in Fences, NEW g \in Fences
    PROVE  Less(f, g) <=> \/ f[1] < g[1]
                          \/ f[1] = g[1] /\ f[2] < g[2]
                          \/ f[1] = g[1] /\ f[2] = g[2] /\ f[3] < g[3]
                          \/ f[1] = g[1] /\ f[2] = g[2] /\ f[3] = g[3] /\ f[4] < g[4]
<1> DEFINE Differs(k) == f[k] < g[k] /\ \A j \in 1..(k - 1) : f[j] = g[j]
<1>1. Less(f, g) <=> \E k \in 1..4 : Differs(k)
  BY DEF Less
<1>2. 1..4 = {1, 2, 3, 4} /\ 1..(1 - 1) = {} /\ 1..(2 - 1) = {1} /\ 1..(3 - 1) = {1, 2}
      /\ 1..(4 - 1) = {1, 2, 3}
  OBVIOUS
<1>3. (\E k \in 1..4 : Differs(k)) <=> Differs(1) \/ Differs(2) \/ Differs(3) \/ Differs(4)
  <2> HIDE DEF Differs
  <2> QED  BY <1>2
<1>4. /\ Differs(1) <=> f[1] < g[1]
      /\ Differs(2) <=> f[2] < g[2] /\ f[1] = g[1]
      /\ Differs(3) <=> f[3] < g[3] /\ f[1] = g[1] /\ f[2] = g[2]
      /\ Differs(4) <=> f[4] < g[4] /\ f[1] = g[1] /\ f[2] = g[2] /\ f[3] = g[3]
  BY <1>2
<1> QED  BY <1>1, <1>3, <1>4

\* No observation is newer than itself.
LEMMA NotNewerThanItself ==
    ASSUME NEW o \in Observation
    PROVE  ~Newer(o, o)
<1>1. o.fence \in Fences /\ o.seq \in Nat
  BY DEF Observation
<1> QED  BY <1>1, LessWrittenOut DEF Newer, Fences

\* Being newer is transitive.
LEMMA NewerIsTransitive ==
    ASSUME NEW x \in Observation, NEW y \in Observation, NEW z \in Observation,
           Newer(x, y), Newer(y, z)
    PROVE  Newer(x, z)
<1>1. /\ x.fence \in Fences /\ y.fence \in Fences /\ z.fence \in Fences
      /\ x.seq \in Nat /\ y.seq \in Nat /\ z.seq \in Nat
  BY DEF Observation
<1>2. Less(z.fence, y.fence) /\ Less(y.fence, x.fence) => Less(z.fence, x.fence)
  <2>1. \A k \in 1..4 : x.fence[k] \in Nat /\ y.fence[k] \in Nat /\ z.fence[k] \in Nat
    BY <1>1 DEF Fences
  <2> QED  BY <1>1, <2>1, LessWrittenOut
<1>3. x.seq > y.seq \/ (x.seq = y.seq /\ Less(y.fence, x.fence))
  BY DEF Newer
<1>4. y.seq > z.seq \/ (y.seq = z.seq /\ Less(z.fence, y.fence))
  BY DEF Newer
<1>5. x.seq > z.seq \/ (x.seq = z.seq /\ Less(z.fence, x.fence))
  BY <1>1, <1>2, <1>3, <1>4
<1> QED  BY <1>5 DEF Newer

\* Every commit leaves a fence.
LEMMA AdvancedIsAFence ==
    ASSUME NEW f \in Fences, NEW level \in 1..4
    PROVE  advanced(f, level) \in Fences
<1>1. f[1] \in Nat /\ f[2] \in Nat /\ f[3] \in Nat /\ f[4] \in Nat
  BY DEF Fences
<1>2. CASE level = 4  BY <1>1, <1>2 DEF advanced, Fences
<1>3. CASE level = 3  BY <1>1, <1>3 DEF advanced, Fences
<1>4. CASE level = 2
  <2>1. advanced(f, level) = <<f[1], f[2] + 1, 0, 0>>
    BY <1>4 DEF advanced
  <2> QED  BY <1>1, <2>1 DEF Fences
<1>5. CASE level = 1
  <2>1. advanced(f, level) = <<f[1] + 1, f[2], f[3], f[4] + 1>>
    BY <1>5 DEF advanced
  <2> QED  BY <1>1, <2>1 DEF Fences
<1> QED  BY <1>2, <1>3, <1>4, <1>5

-----------------------------------------------------------------------------
(* The queue of dirty peers.                                               *)

\* Injectivity and range of a sequence, by its positions.
LEMMA ByPosition ==
    ASSUME NEW S, NEW s \in Seq(S)
    PROVE  /\ IsInjective(s) <=> \A i, j \in 1..Len(s) : s[i] = s[j] => i = j
           /\ \A x : x \in Range(s) <=> \E i \in 1..Len(s) : s[i] = x
           /\ Range(s) \subseteq S
<1>1. DOMAIN s = 1..Len(s) /\ \A i \in 1..Len(s) : s[i] \in S
  OBVIOUS
<1> QED  BY <1>1 DEF IsInjective, Range

\* Two sequences joined, by position.
LEMMA Joined ==
    ASSUME NEW S, NEW s \in Seq(S), NEW t \in Seq(S)
    PROVE  /\ s \o t \in Seq(S)
           /\ Len(s \o t) = Len(s) + Len(t)
           /\ \A i \in 1..(Len(s) + Len(t)) :
                  (s \o t)[i] = IF i <= Len(s) THEN s[i] ELSE t[i - Len(s)]
OBVIOUS

\* Marking a peer puts it in the queue once, within the limit, and what it
\* pushes out is all that leaves.
LEMMA MarkedKeepsTheQueue ==
    ASSUME NEW p \in Peers, dirty_peers \in Seq(Peers), QueueKept
    PROVE  /\ marked(p) \in Seq(Peers)
           /\ Len(marked(p)) <= MaxDirty
           /\ IsInjective(marked(p))
           /\ p \in Range(marked(p))
           /\ Range(marked(p)) \subseteq Range(dirty_peers) \union {p}
<1> USE TelemetryAssumption DEF QueueKept
<1>1. CASE p \in Range(dirty_peers)
  BY <1>1 DEF marked
<1>2. CASE p \notin Range(dirty_peers) /\ Len(dirty_peers) >= MaxDirty
  <2> DEFINE q == Tail(dirty_peers)
             r == Append(q, p)
  <2>1. dirty_peers # <<>> /\ Len(dirty_peers) \in Nat \ {0}
    BY <1>2
  <2>2. q \in Seq(Peers) /\ Len(q) = Len(dirty_peers) - 1
        /\ \A i \in 1..Len(q) : q[i] = dirty_peers[i + 1]
    BY <2>1
  <2>3. r \in Seq(Peers) /\ Len(r) = Len(q) + 1 /\ r[Len(r)] = p
        /\ \A i \in 1..Len(q) : r[i] = q[i]
    <3> HIDE DEF q
    <3> QED  BY <2>2
  <2>4. marked(p) = r
    BY <1>2 DEF marked
  <2> HIDE DEF q, r
  <2>5. \A i \in 1..Len(q) : q[i] # p
    BY <1>2, <2>1, <2>2, ByPosition
  <2>6. IsInjective(r)
    <3>1. \A i, j \in 1..Len(dirty_peers) : dirty_peers[i] = dirty_peers[j] => i = j
      BY ByPosition
    <3> SUFFICES ASSUME NEW i \in 1..Len(r), NEW j \in 1..Len(r), r[i] = r[j]
                 PROVE  i = j
      BY <2>3, ByPosition
    <3>2. CASE i \in 1..Len(q) /\ j \in 1..Len(q)
      <4>1. /\ i + 1 \in 1..Len(dirty_peers) /\ j + 1 \in 1..Len(dirty_peers)
            /\ dirty_peers[i + 1] = dirty_peers[j + 1]
        BY <2>1, <2>2, <2>3, <3>2
      <4>2. i + 1 = j + 1
        BY <3>1, <4>1
      <4> QED  BY <4>2
    <3>3. CASE i = Len(r) \/ j = Len(r)
      <4>1. \A k \in 1..Len(r) : k = Len(r) \/ k \in 1..Len(q)
        BY <2>1, <2>2, <2>3
      <4>2. \A k \in 1..Len(r) : r[k] = p => k = Len(r)
        BY <2>3, <2>5, <4>1
      <4>3. r[i] = p /\ r[j] = p
        BY <2>3, <3>3
      <4> QED  BY <4>2, <4>3
    <3> QED  BY <2>1, <2>2, <2>3, <3>2, <3>3
  <2>7. p \in Range(r) /\ Range(r) \subseteq Range(dirty_peers) \union {p}
    <3>1. Len(r) \in 1..Len(r)
      BY <2>1, <2>2, <2>3
    <3>2. p \in Range(r)
      BY <2>3, <3>1, ByPosition
    <3>3. \A i \in 1..Len(r) : r[i] = p \/ (i + 1 \in 1..Len(dirty_peers) /\ r[i] = dirty_peers[i + 1])
      BY <2>1, <2>2, <2>3
    <3>4. \A i \in 1..Len(r) : r[i] \in Range(dirty_peers) \union {p}
      BY <3>3, ByPosition
    <3> QED  BY <2>3, <3>2, <3>4, ByPosition
  <2>8. Len(r) <= MaxDirty
    BY <1>2, <2>1, <2>2, <2>3
  <2> QED  BY <2>3, <2>4, <2>6, <2>7, <2>8
<1>3. CASE p \notin Range(dirty_peers) /\ ~(Len(dirty_peers) >= MaxDirty)
  <2> DEFINE r == Append(dirty_peers, p)
  <2>1. r \in Seq(Peers) /\ Len(r) = Len(dirty_peers) + 1 /\ r[Len(r)] = p
        /\ \A i \in 1..Len(dirty_peers) : r[i] = dirty_peers[i]
    OBVIOUS
  <2>2. marked(p) = r
    BY <1>3 DEF marked
  <2> HIDE DEF r
  <2>3. \A i \in 1..Len(dirty_peers) : dirty_peers[i] # p
    BY <1>3, ByPosition
  <2>4. IsInjective(r)
    <3>1. \A i, j \in 1..Len(dirty_peers) : dirty_peers[i] = dirty_peers[j] => i = j
      BY ByPosition
    <3>2. \A i, j \in 1..Len(r) : r[i] = r[j] => i = j
      BY <2>1, <2>3, <3>1
    <3> QED  BY <2>1, <3>2, ByPosition
  <2>5. p \in Range(r) /\ Range(r) \subseteq Range(dirty_peers) \union {p}
    <3>1. \A i \in 1..Len(r) : r[i] = p \/ (i \in 1..Len(dirty_peers) /\ r[i] = dirty_peers[i])
      BY <2>1
    <3>2. \A i \in 1..Len(r) : r[i] \in Range(dirty_peers) \union {p}
      BY <3>1, ByPosition
    <3>3. Len(r) \in 1..Len(r)
      BY <2>1
    <3> QED  BY <2>1, <3>2, <3>3, ByPosition
  <2>6. Len(r) <= MaxDirty
    BY <1>3, <2>1
  <2> QED  BY <2>1, <2>2, <2>4, <2>5, <2>6
<1> QED  BY <1>1, <1>2, <1>3

\* A drain splits the queue: each peer of it is taken or left, in order.
LEMMA DrainSplitsTheQueue ==
    ASSUME dirty_peers \in Seq(Peers), QueueKept
    PROVE  /\ untaken \in Seq(Peers)
           /\ Len(untaken) <= MaxDirty
           /\ IsInjective(untaken)
           /\ Range(taken) \subseteq Peers
           /\ Range(dirty_peers) = Range(taken) \union Range(untaken)
<1> USE TelemetryAssumption DEF QueueKept
<1> DEFINE n == IF MaxBatch < Len(dirty_peers) THEN MaxBatch ELSE Len(dirty_peers)
<1>1. n \in 0..Len(dirty_peers) /\ taken = SubSeq(dirty_peers, 1, n)
  BY DEF taken
<1> HIDE DEF n
<1>2. taken \in Seq(Peers) /\ Len(taken) = n /\ \A i \in 1..n : taken[i] = dirty_peers[i]
  BY <1>1
<1>3. untaken = SubSeq(dirty_peers, n + 1, Len(dirty_peers))
  BY <1>2 DEF untaken
<1>4. /\ untaken \in Seq(Peers)
      /\ Len(untaken) = Len(dirty_peers) - n
      /\ \A i \in 1..(Len(dirty_peers) - n) : untaken[i] = dirty_peers[n + i]
  BY <1>1, <1>3
<1>5. IsInjective(untaken)
  <2>1. \A i, j \in 1..Len(dirty_peers) : dirty_peers[i] = dirty_peers[j] => i = j
    BY ByPosition
  <2>2. \A i, j \in 1..Len(untaken) : untaken[i] = untaken[j] => i = j
    BY <1>1, <1>4, <2>1
  <2> QED  BY <1>4, <2>2, ByPosition
<1>6. Range(taken) \subseteq Range(dirty_peers) /\ Range(untaken) \subseteq Range(dirty_peers)
  <2>1. \A i \in 1..Len(taken) : i \in 1..Len(dirty_peers) /\ taken[i] = dirty_peers[i]
    BY <1>1, <1>2
  <2>2. \A i \in 1..Len(untaken) :
            n + i \in 1..Len(dirty_peers) /\ untaken[i] = dirty_peers[n + i]
    BY <1>1, <1>4
  <2>3. Range(taken) \subseteq Range(dirty_peers)
    BY <1>2, <2>1, ByPosition
  <2>4. Range(untaken) \subseteq Range(dirty_peers)
    BY <1>4, <2>2, ByPosition
  <2> QED  BY <2>3, <2>4
<1>7. Range(dirty_peers) \subseteq Range(taken) \union Range(untaken)
  <2> SUFFICES ASSUME NEW i \in 1..Len(dirty_peers)
               PROVE  dirty_peers[i] \in Range(taken) \union Range(untaken)
    BY ByPosition
  <2>1. CASE i <= n
    <3>1. i \in 1..Len(taken) /\ taken[i] = dirty_peers[i]
      BY <1>1, <1>2, <2>1
    <3> QED  BY <1>2, <3>1, ByPosition
  <2>2. CASE i > n
    <3>1. i - n \in 1..Len(untaken) /\ untaken[i - n] = dirty_peers[i]
      BY <1>1, <1>4, <2>2
    <3> QED  BY <1>4, <3>1, ByPosition
  <2> QED  BY <1>1, <2>1, <2>2
<1>8. Range(dirty_peers) \subseteq Peers
  BY ByPosition
<1> QED  BY <1>1, <1>4, <1>5, <1>6, <1>7, <1>8

\* A socket's "ready" adds peers that were not marked, as far as there is room.
LEMMA ReadyFillsTheQueue ==
    ASSUME dirty_peers \in Seq(Peers), QueueKept, NEW q \in permutation(rest),
           NEW r, r = dirty_peers \o SubSeq(q, 1, IF room < Len(q) THEN room ELSE Len(q))
    PROVE  /\ r \in Seq(Peers)
           /\ Len(r) <= MaxDirty
           /\ IsInjective(r)
           /\ Range(dirty_peers) \subseteq Range(r)
           /\ Range(r) \subseteq Range(dirty_peers) \union rest
<1> USE TelemetryAssumption DEF QueueKept
<1> DEFINE n == IF room < Len(q) THEN room ELSE Len(q)
           s == SubSeq(q, 1, n)
<1>1. rest \subseteq Peers /\ Cardinality(rest) \in Nat
  <2>1. rest \subseteq Peers
    BY DEF rest
  <2>2. IsFiniteSet(rest)
    BY <2>1, FS_Subset
  <2> QED  BY <2>1, <2>2, FS_CardinalityType
<1>2. q \in Seq(rest) /\ IsInjective(q)
  <2>1. q \in [1..Cardinality(rest) -> rest] /\ IsInjective(q)
    BY DEF permutation
  <2>2. \A k \in Nat : \A f \in [1..k -> rest] : f \in Seq(rest)
    OBVIOUS
  <2> QED  BY <1>1, <2>1, <2>2
<1>3. n \in 0..Len(q) /\ n <= room
  BY <1>2 DEF room
<1>4. s \in Seq(rest) /\ Len(s) = n /\ \A i \in 1..n : s[i] = q[i]
  <2> HIDE DEF n
  <2> QED  BY <1>2, <1>3
<1>5. r = dirty_peers \o s
  OBVIOUS
<1> HIDE DEF s, n
<1>6. \A i \in 1..n : s[i] \in rest /\ s[i] \in Peers
  BY <1>1, <1>4
<1>7. s \in Seq(Peers)
  BY <1>1, <1>4, <1>6
<1>8. /\ r \in Seq(Peers)
      /\ Len(r) = Len(dirty_peers) + n
      /\ \A i \in 1..Len(r) :
             r[i] = IF i <= Len(dirty_peers) THEN dirty_peers[i] ELSE s[i - Len(dirty_peers)]
  <2>1. /\ dirty_peers \o s \in Seq(Peers)
        /\ Len(dirty_peers \o s) = Len(dirty_peers) + Len(s)
        /\ \A i \in 1..(Len(dirty_peers) + Len(s)) : (dirty_peers \o s)[i] =
               IF i <= Len(dirty_peers) THEN dirty_peers[i] ELSE s[i - Len(dirty_peers)]
    BY <1>7, Joined
  <2> QED  BY <1>4, <1>5, <2>1
<1>9. \A i \in 1..n : s[i] \notin Range(dirty_peers)
  BY <1>6 DEF rest
<1>l. Len(dirty_peers) \in Nat /\ n \in Nat /\ Len(q) \in Nat
  BY <1>2, <1>3
<1>10. IsInjective(r)
  <2> SUFFICES ASSUME NEW i \in 1..Len(r), NEW j \in 1..Len(r), r[i] = r[j]
               PROVE  i = j
    BY <1>8, ByPosition
  <2> DEFINE l == Len(dirty_peers)
  <2>1. CASE i <= l /\ j <= l
    <3>1. i \in 1..l /\ j \in 1..l /\ dirty_peers[i] = dirty_peers[j]
      BY <1>8, <1>l, <2>1
    <3> QED  BY <3>1, ByPosition
  <2>2. CASE i <= l /\ j > l
    <3>1. i \in 1..l /\ j - l \in 1..n /\ dirty_peers[i] = s[j - l]
      BY <1>8, <1>l, <2>2
    <3> QED  BY <1>9, <3>1, ByPosition
  <2>3. CASE i > l /\ j <= l
    <3>1. j \in 1..l /\ i - l \in 1..n /\ dirty_peers[j] = s[i - l]
      BY <1>8, <1>l, <2>3
    <3> QED  BY <1>9, <3>1, ByPosition
  <2>4. CASE i > l /\ j > l
    <3>1. i - l \in 1..n /\ j - l \in 1..n /\ s[i - l] = s[j - l]
      BY <1>8, <1>l, <2>4
    <3>2. i - l \in 1..Len(q) /\ j - l \in 1..Len(q) /\ q[i - l] = q[j - l]
      BY <1>3, <1>4, <1>l, <3>1
    <3>3. i - l = j - l
      BY <1>2, <3>2, ByPosition
    <3> QED  BY <1>l, <3>3
  <2> QED  BY <1>8, <1>l, <2>1, <2>2, <2>3, <2>4
<1>11. Len(r) <= MaxDirty
  BY <1>3, <1>8 DEF room
<1>12. Range(dirty_peers) \subseteq Range(r)
  <2>1. \A i \in 1..Len(dirty_peers) : i \in 1..Len(r) /\ r[i] = dirty_peers[i]
    BY <1>8, <1>l
  <2>2. \A x : x \in Range(dirty_peers) <=> \E i \in 1..Len(dirty_peers) : dirty_peers[i] = x
    BY ByPosition
  <2>3. \A x : x \in Range(r) <=> \E i \in 1..Len(r) : r[i] = x
    BY ONLY <1>8, ByPosition
  <2> QED  BY ONLY <2>1, <2>2, <2>3
<1>13. Range(r) \subseteq Range(dirty_peers) \union rest
  <2>1. \A i \in 1..Len(r) :
            \/ (i \in 1..Len(dirty_peers) /\ r[i] = dirty_peers[i])
            \/ (i - Len(dirty_peers) \in 1..n /\ r[i] = s[i - Len(dirty_peers)])
    BY <1>8, <1>l
  <2>2. \A i \in 1..Len(r) : r[i] \in Range(dirty_peers) \union rest
    BY <1>6, <2>1, ByPosition
  <2>3. \A x : x \in Range(r) <=> \E i \in 1..Len(r) : r[i] = x
    BY ONLY <1>8, ByPosition
  <2> QED  BY <2>2, <2>3
<1> QED  BY <1>8, <1>10, <1>11, <1>12, <1>13

-----------------------------------------------------------------------------
(* A batch, and what Control and the daemon make of it.                    *)

\* A batch of peers that are known is one observation of each.
LEMMA BatchIsSingle ==
    ASSUME NEW ids \in SUBSET Peers, latest_snapshots \in [Peers -> Maybe],
           \A p \in ids : latest_snapshots[p] # Unknown
    PROVE  batch(ids) \in SUBSET Entry /\ OneEach(batch(ids))
<1>1. \A p \in ids : latest_snapshots[p] \in Observation
  BY DEF Maybe
<1> QED  BY <1>1 DEF batch, Entry, OneEach

\* What is shown of a peer after a batch: what was shown, or a newer entry of
\* it; and nothing of the batch is newer than that.
LEMMA RecordedMovesOn ==
    ASSUME NEW b \in SUBSET Entry, OneEach(b), stored \in [Peers -> Maybe],
           NEW p \in Peers
    PROVE  /\ recorded(b)[p] \in Maybe
           /\ recorded(b)[p] # stored[p] =>
                /\ recorded(b)[p] \in Observation
                /\ stored[p] = Unknown \/ Newer(recorded(b)[p], stored[p])
           /\ \A o \in b : o.peer = p =>
                /\ recorded(b)[p] \in Observation
                /\ ~Newer(o.obs, recorded(b)[p])
<1> USE TelemetryAssumption
<1>1. CASE \E o \in b : o.peer = p /\ accepts(stored[p], o.obs)
  <2>1. PICK c \in b : c.peer = p /\ accepts(stored[p], c.obs)
    BY <1>1
  <2>2. \A o \in b : o.peer = p <=> o = c
    BY <2>1 DEF OneEach
  <2>3. (CHOOSE o \in b : o.peer = p) = c
    BY <2>2
  <2>4. recorded(b)[p] = c.obs
    BY <1>1, <2>3 DEF recorded
  <2>5. c.obs \in Observation
    BY DEF Entry
  <2>6. stored[p] = Unknown \/ Newer(c.obs, stored[p])
    BY <2>1 DEF accepts, Newer
  <2>7. ~Newer(c.obs, c.obs)
    BY <2>5, NotNewerThanItself
  <2> QED  BY <2>2, <2>4, <2>5, <2>6, <2>7 DEF Maybe
<1>2. CASE ~\E o \in b : o.peer = p /\ accepts(stored[p], o.obs)
  <2>1. recorded(b)[p] = stored[p]
    BY <1>2 DEF recorded
  <2>2. ASSUME NEW o \in b, o.peer = p
        PROVE  stored[p] \in Observation /\ ~Newer(o.obs, stored[p])
    <3>1. ~accepts(stored[p], o.obs)
      BY <1>2, <2>2
    <3> QED  BY <3>1 DEF accepts, Newer, Maybe
  <2> QED  BY <2>1, <2>2
<1> QED  BY <1>1, <1>2

\* What was recorded stays so: something shown that is not older stays not older.
LEMMA AtLeastStays ==
    ASSUME stored \in [Peers -> Maybe], NEW p \in Peers, NEW o \in Observation, AtLeast(p, o),
           NEW s \in Maybe,
           s # stored[p] => s \in Observation /\ (stored[p] = Unknown \/ Newer(s, stored[p]))
    PROVE  s # Unknown /\ ~Newer(o, s)
<1>1. stored[p] \in Observation /\ ~Newer(o, stored[p])
  BY DEF AtLeast, Maybe
<1>2. CASE s = stored[p]
  BY <1>1, <1>2, TelemetryAssumption
<1>3. CASE s # stored[p]
  <2>1. s \in Observation /\ Newer(s, stored[p])
    BY <1>1, <1>3, TelemetryAssumption
  <2>2. Newer(o, s) => Newer(o, stored[p])
    BY <1>1, <2>1, NewerIsTransitive
  <2> QED  BY <1>1, <2>1, <2>2, TelemetryAssumption
<1> QED  BY <1>2, <1>3

-----------------------------------------------------------------------------
(* What a step leaves alone.                                               *)

\* What a sender holds, by what it is doing.
LEMMA SenderKinds ==
    /\ \A x \in Senders :
         /\ x.at \in {"idle", "drained", "posted"}
         /\ x.at = "drained" => x.ids \in SUBSET Peers
         /\ x.at = "posted" => x.batch \in SUBSET Entry
    /\ Idle \in Senders /\ Idle.at = "idle"
    /\ \A S \in SUBSET Peers :
         /\ [at |-> "drained", ids |-> S] \in Senders
         /\ [at |-> "drained", ids |-> S].at = "drained"
         /\ [at |-> "drained", ids |-> S].ids = S
    /\ \A b \in SUBSET Entry :
         /\ [at |-> "posted", batch |-> b] \in Senders
         /\ [at |-> "posted", batch |-> b].at = "posted"
         /\ [at |-> "posted", batch |-> b].batch = b
<1>1. \A x \in Senders :
         /\ x.at \in {"idle", "drained", "posted"}
         /\ x.at = "drained" => x.ids \in SUBSET Peers
         /\ x.at = "posted" => x.batch \in SUBSET Entry
  BY DEF Senders
<1>2. Idle \in Senders /\ Idle.at = "idle"
  BY DEF Senders, Idle
<1>3. \A S \in SUBSET Peers : [at |-> "drained", ids |-> S] \in Senders
  BY DEF Senders
<1>4. \A b \in SUBSET Entry : [at |-> "posted", batch |-> b] \in Senders
  BY DEF Senders
<1> QED  BY <1>1, <1>2, <1>3, <1>4

\* A step that changes only a sender that neither was nor is draining keeps the
\* hub's part.
LEMMA HubUntouched ==
    ASSUME HubPart, UNCHANGED <<registrationSeq, fence, hubVars, commits>>,
           http' = http \/ (http.at # "drained" /\ http'.at # "drained"),
           ws' = ws \/ (ws.at # "drained" /\ ws'.at # "drained")
    PROVE  HubPart'
<1> USE DEF hubVars
<1>1. HubTyped' /\ QueueKept' /\ SnapshotsCurrent'
  BY DEF HubPart, HubTyped, QueueKept, SnapshotsCurrent
<1>2. Known'
  BY DEF HubPart, Known
<1>3. NoUpdateStranded'
  BY DEF HubPart, NoUpdateStranded
<1> QED  BY <1>1, <1>2, <1>3 DEF HubPart

\* What is shown is only moved on, and what is on the way or acknowledged is
\* left alone: the wire's other facts are kept.
LEMMA ControlUntouched ==
    ASSUME ControlPart, UNCHANGED <<http, ws, wireVars, stored, sockets, acked>>
    PROVE  ControlPart'
<1> USE DEF wireVars
<1>1. WireTyped'
  BY DEF ControlPart, WireTyped
<1>2. BatchesSingle' /\ NoSocket'
  BY DEF ControlPart, BatchesSingle, NoSocket
<1>3. ServedIsRecorded' /\ AckedRecorded'
  BY DEF ControlPart, ServedIsRecorded, AckedRecorded, AtLeast
<1> QED  BY <1>1, <1>2, <1>3 DEF ControlPart

\* What is on the way is only taken away from.
LEMMA PostsOnlyLeave ==
    ASSUME ControlPart, posts' \subseteq posts, http' = http \/ http' = Idle,
           UNCHANGED <<ws, connected, frames, stored, sockets>>,
           acked' = acked
    PROVE  ControlPart'
<1>1. WireTyped'
  BY SenderKinds DEF ControlPart, WireTyped
<1>2. BatchesSingle' /\ NoSocket'
  BY SenderKinds DEF ControlPart, BatchesSingle, NoSocket
<1>3. ServedIsRecorded' /\ AckedRecorded'
  BY DEF ControlPart, ServedIsRecorded, AckedRecorded, AtLeast
<1> QED  BY <1>1, <1>2, <1>3 DEF ControlPart

-----------------------------------------------------------------------------
(* The hub's steps.                                                        *)

\* A commit replaces the snapshot and leaves the peer to be marked.
LEMMA EnqueueStoresKeeps ==
    ASSUME Inv, NEW p \in Peers, NEW level \in 1..4, EnqueueStores(p, level)
    PROVE  Inv'
<1> DEFINE o == [seq |-> registrationSeq, fence |-> advanced(fence[p], level), commit |-> commits + 1]
<1>1. HubTyped /\ QueueKept /\ SnapshotsCurrent /\ Known /\ NoUpdateStranded
  BY DEF Inv, HubPart
<1>2. /\ fence' = [fence EXCEPT ![p] = advanced(@, level)]
      /\ latest_snapshots' = [latest_snapshots EXCEPT ![p] = o]
      /\ marking' = marking \union {p}
      /\ commits' = commits + 1
      /\ UNCHANGED <<registrationSeq, dirty_peers, http, ws, wireVars, stored, sockets, acked>>
      /\ UNCHANGED <<read, dropped>>
  BY DEF EnqueueStores
<1>3. advanced(fence[p], level) \in Fences
  BY <1>1, AdvancedIsAFence DEF HubTyped
<1>4. o \in Observation
  BY <1>1, <1>3 DEF HubTyped, Observation
<1>5. o # Unknown /\ o.seq = registrationSeq /\ o.fence = advanced(fence[p], level)
  BY <1>4, TelemetryAssumption
<1> HIDE DEF o
<1>6. HubTyped'
  BY <1>1, <1>2, <1>3, <1>4 DEF HubTyped, Maybe
<1>7. QueueKept'
  BY <1>1, <1>2 DEF QueueKept
<1>8. /\ latest_snapshots'[p] = o /\ fence'[p] = advanced(fence[p], level)
      /\ \A q \in Peers \ {p} :
             latest_snapshots'[q] = latest_snapshots[q] /\ fence'[q] = fence[q]
  BY <1>1, <1>2 DEF HubTyped
<1>9. SnapshotsCurrent'
  BY <1>1, <1>2, <1>5, <1>8 DEF SnapshotsCurrent
<1>10. Range(dirty_peers) \subseteq Peers
  BY <1>1, ByPosition DEF HubTyped
<1>11. /\ http.at = "drained" => http.ids \subseteq Peers
       /\ ws.at = "drained" => ws.ids \subseteq Peers
  BY SenderKinds DEF Inv, ControlPart, WireTyped
<1>12. Known'
  <2>1. \A q \in Peers : latest_snapshots[q] # Unknown => latest_snapshots'[q] # Unknown
    BY <1>5, <1>8
  <2>2. \A q \in (marking \union Range(dirty_peers))' : q \in Peers /\ latest_snapshots'[q] # Unknown
    BY <1>1, <1>2, <1>5, <1>8, <1>10, <2>1 DEF Known, HubTyped
  <2> QED  BY <1>1, <1>2, <1>11, <2>1, <2>2 DEF Known
<1>13. NoUpdateStranded'
  BY <1>1, <1>2, <1>8 DEF NoUpdateStranded
<1>14. ControlPart'
  BY <1>2, ControlUntouched DEF Inv
<1> QED  BY <1>6, <1>7, <1>9, <1>12, <1>13, <1>14 DEF Inv, HubPart

\* The marking that follows puts the peer in the queue, once, and counts what
\* it pushes out.
LEMMA EnqueueMarksKeeps ==
    ASSUME Inv, NEW p \in Peers, EnqueueMarks(p)
    PROVE  Inv'
<1>1. HubTyped /\ QueueKept /\ SnapshotsCurrent /\ Known /\ NoUpdateStranded
  BY DEF Inv, HubPart
<1>2. /\ p \in marking
      /\ marking' = marking \ {p}
      /\ dirty_peers' = marked(p)
      /\ dropped' = (dropped \union Range(dirty_peers)) \ Range(marked(p))
      /\ UNCHANGED <<registrationSeq, fence, latest_snapshots, http, ws, wireVars, stored, acked>>
      /\ UNCHANGED <<commits, sockets, read>>
  BY DEF EnqueueMarks, countVars
<1>3. /\ marked(p) \in Seq(Peers)
      /\ Len(marked(p)) <= MaxDirty
      /\ IsInjective(marked(p))
      /\ p \in Range(marked(p))
      /\ Range(marked(p)) \subseteq Range(dirty_peers) \union {p}
  BY <1>1, MarkedKeepsTheQueue DEF HubTyped
<1>4. HubTyped'
  BY <1>1, <1>2, <1>3 DEF HubTyped
<1>5. QueueKept'
  BY <1>2, <1>3 DEF QueueKept
<1>6. SnapshotsCurrent'
  BY <1>1, <1>2 DEF SnapshotsCurrent
<1>7. Known'
  BY <1>1, <1>2, <1>3 DEF Known
<1>8. NoUpdateStranded'
  BY <1>1, <1>2, <1>3 DEF NoUpdateStranded
<1>9. ControlPart'
  BY <1>2, ControlUntouched DEF Inv
<1> QED  BY <1>4, <1>5, <1>6, <1>7, <1>8, <1>9 DEF Inv, HubPart

\* A drain moves peers from the queue to one of the senders.
LEMMA DrainKeepsTheHub ==
    ASSUME HubPart, http \in Senders, ws \in Senders,
           dirty_peers' = untaken,
           UNCHANGED <<registrationSeq, fence, latest_snapshots, marking, read, dropped, commits>>,
           \/ http.at = "idle" /\ http' = [at |-> "drained", ids |-> Range(taken)] /\ ws' = ws
           \/ ws.at = "idle" /\ ws' = [at |-> "drained", ids |-> Range(taken)] /\ http' = http
    PROVE  HubPart'
<1>1. HubTyped /\ QueueKept /\ SnapshotsCurrent /\ Known /\ NoUpdateStranded
  BY DEF HubPart
<1>2. /\ untaken \in Seq(Peers)
      /\ Len(untaken) <= MaxDirty
      /\ IsInjective(untaken)
      /\ Range(taken) \subseteq Peers
      /\ Range(dirty_peers) = Range(taken) \union Range(untaken)
  BY <1>1, DrainSplitsTheQueue DEF HubTyped
<1>3. HubTyped' /\ QueueKept'
  BY <1>1, <1>2 DEF HubTyped, QueueKept
<1>4. SnapshotsCurrent'
  BY <1>1 DEF SnapshotsCurrent
<1>5. Known'
  BY <1>1, <1>2, SenderKinds DEF Known
<1>6. NoUpdateStranded'
  BY <1>1, <1>2, SenderKinds DEF NoUpdateStranded
<1> QED  BY <1>3, <1>4, <1>5, <1>6 DEF HubPart

\* Reading the snapshots of what was drained keeps the hub's part.
LEMMA ReadKeepsTheHub ==
    ASSUME HubPart,
           UNCHANGED <<registrationSeq, fence, latest_snapshots, marking, dirty_peers, dropped, commits>>,
           \/ http.at = "drained" /\ readBy(http.ids) /\ http'.at = "posted" /\ ws' = ws
           \/ ws.at = "drained" /\ readBy(ws.ids) /\ ws' = Idle /\ http' = http
    PROVE  HubPart'
<1>1. HubTyped /\ QueueKept /\ SnapshotsCurrent /\ Known /\ NoUpdateStranded
  BY DEF HubPart
<1>2. HubTyped' /\ QueueKept' /\ SnapshotsCurrent'
  BY <1>1 DEF HubTyped, QueueKept, SnapshotsCurrent
<1>3. Known'
  BY <1>1, SenderKinds DEF Known
<1>4. NoUpdateStranded'
  BY <1>1, SenderKinds DEF NoUpdateStranded, readBy
<1> QED  BY <1>2, <1>3, <1>4 DEF HubPart

-----------------------------------------------------------------------------
(* The steps of the two senders.                                           *)

LEMMA FlushDrainsKeeps ==
    ASSUME Inv, FlushDrains
    PROVE  Inv'
<1>1. WireTyped /\ BatchesSingle /\ NoSocket /\ ServedIsRecorded /\ AckedRecorded /\ HubTyped /\ QueueKept
  BY DEF Inv, ControlPart, HubPart
<1>2. /\ http.at = "idle" /\ dirty_peers' = untaken
      /\ http' = [at |-> "drained", ids |-> Range(taken)]
      /\ UNCHANGED <<registrationSeq, fence, latest_snapshots, marking, read, dropped, commits>>
      /\ UNCHANGED <<ws, connected, posts, frames, stored, sockets, acked>>
  BY DEF FlushDrains, wireVars, countVars
<1>3. http \in Senders /\ ws \in Senders
  BY <1>1 DEF WireTyped
<1>4. HubPart'
  BY <1>2, <1>3, DrainKeepsTheHub DEF Inv
<1>5. Range(taken) \subseteq Peers
  BY <1>1, DrainSplitsTheQueue DEF HubTyped
<1>6. http' \in Senders /\ http'.at = "drained"
  BY <1>2, <1>5, SenderKinds
<1>7. WireTyped'
  BY <1>1, <1>2, <1>6 DEF WireTyped
<1>8. BatchesSingle' /\ NoSocket'
  BY <1>1, <1>2, <1>6 DEF BatchesSingle, NoSocket
<1>9. ServedIsRecorded' /\ AckedRecorded'
  BY <1>1, <1>2 DEF ServedIsRecorded, AckedRecorded, AtLeast
<1> QED  BY <1>4, <1>7, <1>8, <1>9 DEF Inv, ControlPart

LEMMA FlushPostsKeeps ==
    ASSUME Inv, FlushPosts
    PROVE  Inv'
<1> DEFINE b == batch(http.ids)
           new == [seq |-> registrationSeq, batch |-> b, done |-> FALSE]
<1>1. WireTyped /\ BatchesSingle /\ NoSocket /\ ServedIsRecorded /\ AckedRecorded /\ HubTyped /\ Known
  BY DEF Inv, ControlPart, HubPart
<1>2. /\ http.at = "drained" /\ readBy(http.ids)
      /\ http' = [at |-> "posted", batch |-> b]
      /\ posts' = posts \union {new}
      /\ UNCHANGED <<registrationSeq, fence, latest_snapshots, marking, dirty_peers, dropped, commits>>
      /\ UNCHANGED <<ws, connected, frames, stored, sockets, acked>>
  BY DEF FlushPosts, countVars
<1>3. http.ids \in SUBSET Peers
  BY <1>1, <1>2, SenderKinds DEF WireTyped
<1>4. b \in SUBSET Entry /\ OneEach(b)
  BY <1>1, <1>2, <1>3, BatchIsSingle DEF Known, HubTyped
<1> HIDE DEF b
<1>5. http' \in Senders /\ http'.at = "posted" /\ http'.batch = b
  BY <1>2, <1>4, SenderKinds
<1>6. HubPart'
  BY <1>2, <1>5, ReadKeepsTheHub DEF Inv
<1>7. new \in Post /\ ~new.done /\ new.batch = b
  BY <1>1, <1>4 DEF Post, HubTyped
<1> HIDE DEF new
<1>8. WireTyped'
  BY <1>1, <1>2, <1>5, <1>7 DEF WireTyped
<1>9. BatchesSingle' /\ NoSocket'
  BY <1>1, <1>2, <1>4, <1>5, <1>7 DEF BatchesSingle, NoSocket
<1>10. ServedIsRecorded' /\ AckedRecorded'
  BY <1>1, <1>2, <1>7 DEF ServedIsRecorded, AckedRecorded, AtLeast
<1> QED  BY <1>6, <1>8, <1>9, <1>10 DEF Inv, ControlPart

LEMMA FlushFailsKeeps ==
    ASSUME Inv, FlushFails
    PROVE  Inv'
<1>1. /\ http.at = "posted" /\ http' = Idle
      /\ posts' \subseteq posts
      /\ UNCHANGED <<registrationSeq, fence, hubVars, ws, connected, frames, stored, commits, sockets, acked>>
  BY DEF FlushFails
<1>2. HubPart'
  BY <1>1, HubUntouched, SenderKinds DEF Inv
<1>3. ControlPart'
  BY <1>1, PostsOnlyLeave DEF Inv
<1> QED  BY <1>2, <1>3 DEF Inv

\* An answer is to a POST that was served, so what it acknowledges is recorded.
LEMMA FlushAnsweredKeeps ==
    ASSUME Inv, FlushAnswered
    PROVE  Inv'
<1>1. WireTyped /\ BatchesSingle /\ NoSocket /\ ServedIsRecorded /\ AckedRecorded
  BY DEF Inv, ControlPart
<1>2. PICK m \in posts : m.done /\ m.batch = http.batch /\ posts' = posts \ {m}
  BY DEF FlushAnswered
<1>3. /\ http.at = "posted" /\ http' = Idle
      /\ acked' = acks(http.batch)
      /\ UNCHANGED <<registrationSeq, fence, hubVars, ws, connected, frames, stored, commits, sockets>>
  BY DEF FlushAnswered, countVars
<1>4. HubPart'
  BY <1>3, HubUntouched, SenderKinds DEF Inv
<1>5. http.batch \in SUBSET Entry
  BY <1>1, <1>3, SenderKinds DEF WireTyped
<1>6. ASSUME NEW p \in Peers
      PROVE  acked'[p] = acked[p] \/ (acked'[p] \in Observation /\ AtLeast(p, acked'[p]))
  <2>1. CASE \E o \in http.batch : o.peer = p
    <3>1. PICK o \in http.batch : o.peer = p /\ o = CHOOSE c \in http.batch : c.peer = p
      BY <2>1
    <3>2. acked'[p] = o.obs
      BY <1>3, <3>1 DEF acks
    <3>3. AtLeast(p, o.obs)
      BY <1>1, <1>2, <3>1 DEF ServedIsRecorded
    <3> QED  BY <1>5, <3>2, <3>3 DEF Entry
  <2>2. CASE ~\E o \in http.batch : o.peer = p
    BY <1>3, <2>2 DEF acks
  <2> QED  BY <2>1, <2>2
<1>7. acked' \in [Peers -> Maybe]
  <2>1. acked' = [p \in Peers |-> acked'[p]]
    BY <1>3 DEF acks
  <2> QED  BY <1>1, <1>6, <2>1 DEF Maybe, WireTyped
<1>8. WireTyped'
  BY <1>1, <1>2, <1>3, <1>7, SenderKinds DEF WireTyped
<1>9. BatchesSingle' /\ NoSocket'
  BY <1>1, <1>2, <1>3, SenderKinds DEF BatchesSingle, NoSocket
<1>10. ServedIsRecorded'
  BY <1>1, <1>2, <1>3 DEF ServedIsRecorded, AtLeast
<1>11. AckedRecorded'
  BY <1>1, <1>3, <1>6 DEF AckedRecorded, AtLeast
<1> QED  BY <1>4, <1>8, <1>9, <1>10, <1>11 DEF Inv, ControlPart

\* A socket opens: from here on only the HTTP half of the wire is spoken of.
LEMMA SocketReadyKeeps ==
    ASSUME Inv, SocketReady
    PROVE  Inv'
<1>1. HubTyped /\ QueueKept /\ SnapshotsCurrent /\ Known /\ NoUpdateStranded
  BY DEF Inv, HubPart
<1>2. WireTyped /\ BatchesSingle /\ NoSocket /\ ServedIsRecorded /\ AckedRecorded
  BY DEF Inv, ControlPart
<1>3. PICK q \in permutation(rest) :
          dirty_peers' = dirty_peers \o SubSeq(q, 1, IF room < Len(q) THEN room ELSE Len(q))
  BY DEF SocketReady
<1>4. /\ connected' = TRUE /\ sockets' = sockets + 1
      /\ dropped' = dropped \ Range(dirty_peers')
      /\ UNCHANGED <<registrationSeq, fence, latest_snapshots, marking, read, http, ws, posts,
                     frames, stored, commits, acked>>
  BY DEF SocketReady
<1>5. PICK r : r = dirty_peers'
  OBVIOUS
<1>6. /\ r \in Seq(Peers)
      /\ Len(r) <= MaxDirty
      /\ IsInjective(r)
      /\ Range(dirty_peers) \subseteq Range(r)
      /\ Range(r) \subseteq Range(dirty_peers) \union rest
  BY <1>1, <1>3, <1>5, ReadyFillsTheQueue DEF HubTyped
<1>7. HubTyped' /\ QueueKept'
  BY <1>1, <1>4, <1>5, <1>6 DEF HubTyped, QueueKept
<1>8. SnapshotsCurrent'
  BY <1>1, <1>4 DEF SnapshotsCurrent
<1>9. Known'
  BY <1>1, <1>4, <1>5, <1>6 DEF Known, rest
<1>10. NoUpdateStranded'
  BY <1>1, <1>4, <1>5, <1>6 DEF NoUpdateStranded
<1>11. sockets' \in Nat /\ sockets' # 0
  BY <1>2, <1>4 DEF WireTyped
<1>12. WireTyped'
  BY <1>2, <1>4, <1>11 DEF WireTyped
<1>13. BatchesSingle' /\ NoSocket'
  BY <1>2, <1>4, <1>11 DEF BatchesSingle, NoSocket
<1>14. ServedIsRecorded' /\ AckedRecorded'
  BY <1>2, <1>4, <1>11 DEF ServedIsRecorded, AckedRecorded, AtLeast
<1> QED  BY <1>7, <1>8, <1>9, <1>10, <1>12, <1>13, <1>14 DEF Inv, HubPart, ControlPart

LEMMA SocketDrainsKeeps ==
    ASSUME Inv, SocketDrains
    PROVE  Inv'
<1>1. WireTyped /\ BatchesSingle /\ NoSocket /\ ServedIsRecorded /\ AckedRecorded /\ HubTyped /\ QueueKept
  BY DEF Inv, ControlPart, HubPart
<1>2. /\ connected /\ ws.at = "idle" /\ dirty_peers' = untaken
      /\ ws' = [at |-> "drained", ids |-> Range(taken)]
      /\ UNCHANGED <<registrationSeq, fence, latest_snapshots, marking, read, dropped, commits>>
      /\ UNCHANGED <<http, connected, posts, frames, stored, sockets, acked>>
  BY DEF SocketDrains, wireVars, countVars
<1>3. http \in Senders /\ ws \in Senders
  BY <1>1 DEF WireTyped
<1>4. HubPart'
  BY <1>2, <1>3, DrainKeepsTheHub DEF Inv
<1>5. Range(taken) \subseteq Peers
  BY <1>1, DrainSplitsTheQueue DEF HubTyped
<1>6. ws' \in Senders /\ ws'.at = "drained"
  BY <1>2, <1>5, SenderKinds
<1>7. WireTyped'
  BY <1>1, <1>2, <1>6 DEF WireTyped
<1>8. BatchesSingle' /\ NoSocket'
  BY <1>1, <1>2 DEF BatchesSingle, NoSocket
<1>9. ServedIsRecorded' /\ AckedRecorded'
  BY <1>1, <1>2 DEF ServedIsRecorded, AckedRecorded, AtLeast
<1> QED  BY <1>4, <1>7, <1>8, <1>9 DEF Inv, ControlPart

LEMMA SocketSendsKeeps ==
    ASSUME Inv, SocketSends
    PROVE  Inv'
<1>1. WireTyped /\ BatchesSingle /\ NoSocket /\ ServedIsRecorded /\ AckedRecorded /\ HubTyped /\ Known
  BY DEF Inv, ControlPart, HubPart
<1>2. /\ connected /\ ws.at = "drained" /\ readBy(ws.ids) /\ ws' = Idle
      /\ frames' = Append(frames, batch(ws.ids))
      /\ UNCHANGED <<registrationSeq, fence, latest_snapshots, marking, dirty_peers, dropped, commits>>
      /\ UNCHANGED <<http, connected, posts, stored, sockets, acked>>
  BY DEF SocketSends, countVars
<1>3. HubPart'
  BY <1>2, ReadKeepsTheHub DEF Inv
<1>4. ws.ids \in SUBSET Peers
  BY <1>1, <1>2, SenderKinds DEF WireTyped
<1>5. batch(ws.ids) \in SUBSET Entry
  BY <1>1, <1>2, <1>4, BatchIsSingle DEF Known, HubTyped
<1>6. frames' \in Seq(SUBSET Entry)
  BY <1>1, <1>2, <1>5 DEF WireTyped
<1>7. WireTyped'
  BY <1>1, <1>2, <1>6, SenderKinds DEF WireTyped
<1>8. BatchesSingle' /\ NoSocket'
  BY <1>1, <1>2 DEF BatchesSingle, NoSocket
<1>9. ServedIsRecorded' /\ AckedRecorded'
  BY <1>1, <1>2 DEF ServedIsRecorded, AckedRecorded, AtLeast
<1> QED  BY <1>3, <1>7, <1>8, <1>9 DEF Inv, ControlPart

LEMMA SocketLostKeeps ==
    ASSUME Inv, SocketLost
    PROVE  Inv'
<1>1. WireTyped /\ BatchesSingle /\ NoSocket /\ ServedIsRecorded /\ AckedRecorded
  BY DEF Inv, ControlPart
<1>2. /\ connected' = FALSE /\ frames' = <<>>
      /\ UNCHANGED <<registrationSeq, fence, hubVars, http, ws, posts, stored, countVars, acked>>
  BY DEF SocketLost
<1>3. commits' = commits /\ sockets' = sockets
  BY <1>2 DEF countVars
<1>4. HubPart'
  BY <1>2, <1>3, HubUntouched DEF Inv
<1>5. WireTyped'
  <2>1. frames' \in Seq(SUBSET Entry)
    BY <1>2
  <2> QED  BY <1>1, <1>2, <1>3, <2>1 DEF WireTyped
<1>6. BatchesSingle' /\ NoSocket'
  BY <1>1, <1>2, <1>3 DEF BatchesSingle, NoSocket
<1>7. ServedIsRecorded' /\ AckedRecorded'
  BY <1>1, <1>2, <1>3 DEF ServedIsRecorded, AckedRecorded, AtLeast
<1> QED  BY <1>4, <1>5, <1>6, <1>7 DEF Inv, ControlPart

-----------------------------------------------------------------------------
(* Control's steps, and a new process.                                     *)

\* Serving a POST records each of its observations or finds a newer one, and
\* loses nothing that was recorded for another.
LEMMA IngestPostKeeps ==
    ASSUME Inv, NEW m \in posts, IngestPost(m)
    PROVE  Inv'
<1> DEFINE served == [m EXCEPT !.done = TRUE]
<1>1. WireTyped /\ BatchesSingle /\ NoSocket /\ ServedIsRecorded /\ AckedRecorded
  BY DEF Inv, ControlPart
<1>2. /\ stored' = recorded(m.batch)
      /\ posts' = (posts \ {m}) \union {served}
      /\ UNCHANGED <<registrationSeq, fence, hubVars, http, ws, connected, frames, countVars, acked>>
  BY DEF IngestPost
<1>3. commits' = commits /\ sockets' = sockets
  BY <1>2 DEF countVars
<1>4. HubPart'
  BY <1>2, <1>3, HubUntouched DEF Inv
<1>5. m \in Post /\ m.batch \in SUBSET Entry /\ OneEach(m.batch)
  BY <1>1 DEF WireTyped, BatchesSingle, Post
<1>6. served \in Post /\ served.batch = m.batch /\ served.done
  BY <1>5 DEF Post
<1> HIDE DEF served
<1>7. ASSUME NEW p \in Peers
      PROVE  /\ stored'[p] \in Maybe
             /\ stored'[p] # stored[p] =>
                    stored'[p] \in Observation /\ (stored[p] = Unknown \/ Newer(stored'[p], stored[p]))
             /\ \A o \in m.batch : o.peer = p => AtLeast(p, o.obs)'
  <2>1. stored \in [Peers -> Maybe]
    BY <1>1 DEF WireTyped
  <2>2. /\ recorded(m.batch)[p] \in Maybe
        /\ recorded(m.batch)[p] # stored[p] =>
             /\ recorded(m.batch)[p] \in Observation
             /\ stored[p] = Unknown \/ Newer(recorded(m.batch)[p], stored[p])
        /\ \A o \in m.batch : o.peer = p =>
             /\ recorded(m.batch)[p] \in Observation
             /\ ~Newer(o.obs, recorded(m.batch)[p])
    BY <1>5, <2>1, RecordedMovesOn
  <2>3. \A o \in m.batch : o.peer = p => AtLeast(p, o.obs)'
    BY <1>2, <2>2, TelemetryAssumption DEF AtLeast
  <2> QED  BY <1>2, <2>2, <2>3
<1>8. ASSUME NEW p \in Peers, NEW o \in Observation, AtLeast(p, o)
      PROVE  AtLeast(p, o)'
  <2>1. stored \in [Peers -> Maybe]
    BY <1>1 DEF WireTyped
  <2>2. stored'[p] # Unknown /\ ~Newer(o, stored'[p])
    BY <1>7, <1>8, <2>1, AtLeastStays
  <2> QED  BY <2>2 DEF AtLeast
<1>9. stored' \in [Peers -> Maybe]
  <2>1. stored' = [p \in Peers |-> stored'[p]]
    BY <1>2 DEF recorded
  <2> QED  BY <1>7, <2>1
<1>10. WireTyped'
  BY <1>1, <1>2, <1>3, <1>6, <1>9 DEF WireTyped
<1>11. BatchesSingle' /\ NoSocket'
  BY <1>1, <1>2, <1>3, <1>5, <1>6 DEF BatchesSingle, NoSocket
<1>12. ServedIsRecorded'
  <2> SUFFICES ASSUME NEW n \in posts', n.done, NEW o \in n.batch
               PROVE  AtLeast(o.peer, o.obs)'
    BY DEF ServedIsRecorded
  <2>1. CASE n = served
    <3>1. o \in m.batch /\ o.peer \in Peers
      BY <1>5, <1>6, <2>1 DEF Entry
    <3> QED  BY <1>7, <3>1
  <2>2. CASE n \in posts
    <3>1. o \in Entry
      BY <1>1, <2>2 DEF WireTyped, Post
    <3>2. o.peer \in Peers /\ o.obs \in Observation
      BY <3>1 DEF Entry
    <3>3. AtLeast(o.peer, o.obs)
      BY <1>1, <2>2 DEF ServedIsRecorded
    <3> QED  BY <1>8, <3>2, <3>3
  <2> QED  BY <1>2, <2>1, <2>2
<1>13. AckedRecorded'
  <2> SUFFICES ASSUME sockets = 0, NEW p \in Peers, acked[p] # Unknown
               PROVE  AtLeast(p, acked[p])'
    BY <1>2, <1>3 DEF AckedRecorded, AtLeast
  <2>1. acked[p] \in Observation
    BY <1>1 DEF WireTyped, Maybe
  <2>2. AtLeast(p, acked[p])
    BY <1>1 DEF AckedRecorded
  <2>3. PICK o \in Observation : o = acked[p]
    BY <2>1
  <2>4. AtLeast(p, o)'
    BY <1>8, <2>2, <2>3
  <2> QED  BY <1>2, <2>3, <2>4 DEF AtLeast
<1> QED  BY <1>4, <1>10, <1>11, <1>12, <1>13 DEF Inv, ControlPart

LEMMA RefusePostKeeps ==
    ASSUME Inv, NEW m \in posts, RefusePost(m)
    PROVE  Inv'
<1>1. /\ posts' = posts \ {m}
      /\ UNCHANGED <<registrationSeq, fence, hubVars, http, ws, connected, frames, stored,
                     countVars, acked>>
  BY DEF RefusePost
<1>2. commits' = commits /\ sockets' = sockets
  BY <1>1 DEF countVars
<1>3. HubPart'
  BY <1>1, <1>2, HubUntouched DEF Inv
<1>4. ControlPart'
  BY <1>1, <1>2, PostsOnlyLeave DEF Inv
<1> QED  BY <1>3, <1>4 DEF Inv

\* A frame records nothing; its acknowledgement is given once a socket has opened.
LEMMA IngestFrameKeeps ==
    ASSUME Inv, IngestFrame
    PROVE  Inv'
<1>1. WireTyped /\ BatchesSingle /\ NoSocket /\ ServedIsRecorded /\ AckedRecorded
  BY DEF Inv, ControlPart
<1>2. /\ frames # <<>>
      /\ stored' = recorded({})
      /\ acked' = acks(Head(frames))
      /\ frames' = Tail(frames)
      /\ UNCHANGED <<registrationSeq, fence, hubVars, http, ws, connected, posts, countVars>>
  BY DEF IngestFrame, observations
<1>3. commits' = commits /\ sockets' = sockets
  BY <1>2 DEF countVars
<1>4. HubPart'
  BY <1>2, <1>3, HubUntouched DEF Inv
<1>5. stored' = stored
  <2>1. stored = [p \in Peers |-> stored[p]]
    BY <1>1 DEF WireTyped
  <2>2. recorded({}) = [p \in Peers |-> stored[p]]
    BY DEF recorded
  <2> QED  BY <1>2, <2>1, <2>2
<1>6. sockets # 0
  BY <1>1, <1>2 DEF NoSocket
<1>7. Head(frames) \in SUBSET Entry /\ Tail(frames) \in Seq(SUBSET Entry)
  BY <1>1, <1>2 DEF WireTyped
<1>8. acked' \in [Peers -> Maybe]
  <2> DEFINE b == Head(frames)
  <2>1. ASSUME NEW p \in Peers
        PROVE  (IF \E o \in b : o.peer = p THEN (CHOOSE o \in b : o.peer = p).obs ELSE acked[p]) \in Maybe
    <3>1. CASE \E o \in b : o.peer = p
      <4>1. PICK o \in b : o = CHOOSE c \in b : c.peer = p
        BY <3>1
      <4>2. o.obs \in Observation
        BY <1>7 DEF Entry
      <4> QED  BY <3>1, <4>1, <4>2 DEF Maybe
    <3>2. CASE ~\E o \in b : o.peer = p
      BY <1>1, <3>2 DEF WireTyped
    <3> QED  BY <3>1, <3>2
  <2> QED  BY <1>2, <2>1 DEF acks
<1>9. WireTyped'
  BY <1>1, <1>2, <1>3, <1>5, <1>7, <1>8 DEF WireTyped
<1>10. BatchesSingle' /\ NoSocket'
  BY <1>1, <1>2, <1>3, <1>6 DEF BatchesSingle, NoSocket
<1>11. ServedIsRecorded' /\ AckedRecorded'
  BY <1>1, <1>2, <1>3, <1>5, <1>6 DEF ServedIsRecorded, AckedRecorded, AtLeast
<1> QED  BY <1>4, <1>9, <1>10, <1>11 DEF Inv, ControlPart

\* A new process starts with an empty hub; Control keeps what it was told.
LEMMA RestartKeeps ==
    ASSUME Inv, Restart
    PROVE  Inv'
<1>1. WireTyped /\ BatchesSingle /\ NoSocket /\ ServedIsRecorded /\ AckedRecorded /\ HubTyped
  BY DEF Inv, ControlPart, HubPart
<1>2. /\ registrationSeq' = registrationSeq + 1
      /\ fence' = [p \in Peers |-> Fence0]
      /\ latest_snapshots' = [p \in Peers |-> Unknown]
      /\ marking' = {} /\ dirty_peers' = <<>>
      /\ http' = Idle /\ ws' = Idle
      /\ connected' = FALSE /\ frames' = <<>>
      /\ read' = [p \in Peers |-> Unknown]
      /\ acked' = [p \in Peers |-> Unknown]
      /\ UNCHANGED <<posts, stored, commits, sockets>>
  BY DEF Restart, countVars
<1>3. Fence0 \in Fences
  BY DEF Fence0, Fences
<1>4. HubTyped'
  BY <1>1, <1>2, <1>3 DEF HubTyped, Maybe
<1>5. QueueKept' /\ SnapshotsCurrent'
  BY <1>2, TelemetryAssumption DEF QueueKept, SnapshotsCurrent, IsInjective
<1>6. Known' /\ NoUpdateStranded'
  BY <1>2, SenderKinds DEF Known, NoUpdateStranded, Range
<1>7. WireTyped'
  <2>1. http' \in Senders /\ ws' \in Senders /\ ws'.at # "posted"
    BY <1>2, SenderKinds
  <2>2. frames' \in Seq(SUBSET Entry) /\ acked' \in [Peers -> Maybe]
    BY <1>2 DEF Maybe
  <2> QED  BY <1>1, <1>2, <2>1, <2>2 DEF WireTyped
<1>8. BatchesSingle' /\ NoSocket'
  BY <1>1, <1>2, SenderKinds DEF BatchesSingle, NoSocket
<1>9. ServedIsRecorded' /\ AckedRecorded'
  BY <1>1, <1>2 DEF ServedIsRecorded, AckedRecorded, AtLeast
<1> QED  BY <1>4, <1>5, <1>6, <1>7, <1>8, <1>9 DEF Inv, HubPart, ControlPart

-----------------------------------------------------------------------------
(* The invariant, and what it says.                                        *)

LEMMA InitInv == Init => Inv
<1> SUFFICES ASSUME Init PROVE Inv
  OBVIOUS
<1> USE DEF Init
<1>1. Fence0 \in Fences
  BY DEF Fence0, Fences
<1>2. HubTyped
  BY <1>1 DEF HubTyped, Maybe
<1>3. QueueKept /\ SnapshotsCurrent
  BY TelemetryAssumption DEF QueueKept, SnapshotsCurrent, IsInjective
<1>4. Known /\ NoUpdateStranded
  BY SenderKinds DEF Known, NoUpdateStranded, Range
<1>5. WireTyped
  <2>1. http \in Senders /\ ws \in Senders /\ ws.at # "posted"
    BY SenderKinds
  <2>2. frames \in Seq(SUBSET Entry)
    OBVIOUS
  <2>3. acked \in [Peers -> Maybe] /\ stored \in [Peers -> Maybe]
    BY DEF Maybe
  <2> QED  BY <2>1, <2>2, <2>3 DEF WireTyped
<1>6. BatchesSingle /\ NoSocket
  BY SenderKinds DEF BatchesSingle, NoSocket
<1>7. ServedIsRecorded /\ AckedRecorded
  BY DEF ServedIsRecorded, AckedRecorded
<1> QED  BY <1>2, <1>3, <1>4, <1>5, <1>6, <1>7 DEF Inv, HubPart, ControlPart

LEMMA NextInv == Inv /\ [Next]_telemetryVars => Inv'
<1> SUFFICES ASSUME Inv, [Next]_telemetryVars PROVE Inv'
  OBVIOUS
<1>1. ASSUME NEW p \in Peers, NEW level \in 1..4, EnqueueStores(p, level) PROVE Inv'
  BY <1>1, EnqueueStoresKeeps
<1>2. CASE Hub
  BY <1>2, EnqueueMarksKeeps DEF Hub
<1>3. CASE Flush
  BY <1>3, FlushDrainsKeeps, FlushPostsKeeps, FlushAnsweredKeeps DEF Flush
<1>4. CASE FlushFails
  BY <1>4, FlushFailsKeeps
<1>5. CASE SocketReady
  BY <1>5, SocketReadyKeeps
<1>6. CASE SocketDrains
  BY <1>6, SocketDrainsKeeps
<1>7. CASE SocketSends
  BY <1>7, SocketSendsKeeps
<1>8. CASE SocketLost
  BY <1>8, SocketLostKeeps
<1>9. CASE Control
  BY <1>9, IngestFrameKeeps, IngestPostKeeps, RefusePostKeeps DEF Control
<1>10. CASE Restart
  BY <1>10, RestartKeeps
<1>11. CASE UNCHANGED telemetryVars
  <2>1. UNCHANGED <<registrationSeq, fence, hubVars, http, ws, wireVars, stored, commits, sockets, acked>>
    BY <1>11 DEF telemetryVars, countVars
  <2>2. HubPart'
    BY <2>1, HubUntouched DEF Inv
  <2>3. ControlPart'
    BY <2>1, ControlUntouched DEF Inv
  <2> QED  BY <2>2, <2>3 DEF Inv
<1> QED  BY <1>1, <1>2, <1>3, <1>4, <1>5, <1>6, <1>7, <1>8, <1>9, <1>10, <1>11 DEF Next

\* The invariant holds of every behaviour: a queue without repetitions, current
\* snapshots, batches of one observation a peer, and what was served recorded.
THEOREM Invariance == Spec => []Inv
<1> QED  BY InitInv, NextInv, PTL DEF Spec

\* No commit of the path reducer is forgotten between the hub's two locks, by a
\* drain that runs at the same time or by the other sender, and until a socket
\* opens every acknowledged observation, or a newer one, is recorded
\* (hub.rs enqueue and drain_dirty; RecordPathObservations).
THEOREM NothingIsForgotten == Spec => []NothingForgotten
<1>1. Inv => NothingForgotten
  <2> SUFFICES ASSUME Inv PROVE NothingForgotten
    OBVIOUS
  <2>1. Range(dirty_peers) \union marking \subseteq Peers
    BY ByPosition DEF Inv, HubPart, HubTyped
  <2>2. http.at \in {"idle", "drained", "posted"} /\ ws.at \in {"idle", "drained"}
    BY SenderKinds DEF Inv, ControlPart, WireTyped
  <2>3. TelemetryTypeOK
    BY <2>1, <2>2 DEF TelemetryTypeOK, Inv, HubPart, QueueKept, SnapshotsCurrent
  <2>4. sockets = 0 => AckedIsRecorded
    BY DEF Inv, ControlPart, AckedRecorded, AtLeast, AckedIsRecorded
  <2> QED  BY <2>3, <2>4 DEF NothingForgotten, Inv, HubPart
<1> QED  BY <1>1, Invariance, PTL

\* What Control shows of a peer is only ever replaced by an observation of a
\* newer registration, or of the same one with newer generations or revision,
\* however late and repeated the reports are (RecordPathObservations).
THEOREM NothingGoesBack == Spec => StoredNeverGoesBack
<1> DEFINE Forward == \A p \in Peers : stored'[p] # stored[p] =>
               /\ stored'[p] # Unknown
               /\ stored[p] = Unknown \/ Newer(stored'[p], stored[p])
<1>1. Inv /\ [Next]_telemetryVars => [Forward]_telemetryVars
  <2> SUFFICES ASSUME Inv, Next PROVE Forward
    OBVIOUS
  <2>1. stored \in [Peers -> Maybe]
    BY DEF Inv, ControlPart, WireTyped
  <2>2. ASSUME NEW m \in posts, IngestPost(m) PROVE Forward
    <3>1. m.batch \in SUBSET Entry /\ OneEach(m.batch)
      BY DEF Inv, ControlPart, WireTyped, BatchesSingle, Post
    <3>2. stored' = recorded(m.batch)
      BY <2>2 DEF IngestPost
    <3> QED  BY <2>1, <3>1, <3>2, RecordedMovesOn, TelemetryAssumption
  <2>3. ASSUME IngestFrame PROVE Forward
    <3>1. stored' = recorded({}) /\ \A p \in Peers : recorded({})[p] = stored[p]
      BY <2>3 DEF IngestFrame, observations, recorded
    <3> QED  BY <3>1
  <2>4. stored' = stored \/ IngestFrame \/ \E m \in posts : IngestPost(m)
    <3>1. \A p \in Peers, level \in 1..4 : EnqueueStores(p, level) => stored' = stored
      BY DEF EnqueueStores
    <3>2. Hub => stored' = stored
      BY DEF Hub, EnqueueMarks
    <3>3. Flush \/ FlushFails => stored' = stored
      BY DEF Flush, FlushDrains, FlushPosts, FlushAnswered, FlushFails
    <3>4. SocketReady \/ SocketDrains \/ SocketSends \/ SocketLost => stored' = stored
      BY DEF SocketReady, SocketDrains, SocketSends, SocketLost
    <3>5. \A m \in posts : RefusePost(m) => stored' = stored
      BY DEF RefusePost
    <3>6. Restart => stored' = stored
      BY DEF Restart
    <3> QED  BY <3>1, <3>2, <3>3, <3>4, <3>5, <3>6 DEF Next, Control
  <2> QED  BY <2>2, <2>3, <2>4
<1>2. [][Forward]_telemetryVars <=> StoredNeverGoesBack
  BY DEF StoredNeverGoesBack
<1> QED  BY <1>1, <1>2, Invariance, PTL DEF Spec
=============================================================================
