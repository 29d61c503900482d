---------------------------- MODULE SignalQueue ----------------------------
(***************************************************************************)
(* The control plane's signal queue towards one receiving device           *)
(* (server/database/signals.go, signal_release.go, devices.go, rooms.go).  *)
(*                                                                         *)
(* A queued row is not deleted when it is handed out: it gets a delivery   *)
(* token and a lease, and only an ACK with exactly that token deletes it.  *)
(* An active lease fences the later rows of the same sender; a released or *)
(* expired lease makes the row available again, under a new token.  Every  *)
(* operation is one database transaction, so it is one step here.          *)
(*                                                                         *)
(* Time is abstracted to its order: leases expire in the order they were   *)
(* issued, signals outlive their TTL in the order they were created.  The  *)
(* payload bounds (bytes, rate, global rows), malformed rows, the legacy   *)
(* delete-on-GET poll and the batch ACK (which the daemon never sends) are *)
(* left out.                                                               *)
(***************************************************************************)
EXTENDS Integers, FiniteSets

CONSTANTS
    Senders,            \* the devices that signal to the receiver
    MaxNodes,           \* bound: node ids the receiver registers under
    MaxSeq,             \* bound: signals per pair
    MaxPolls,           \* bound: polls that hand out rows
    MaxSignalsPerPair,
    MaxSignalBatch

ASSUME QueueConstants ==
    /\ MaxNodes \in Nat \ {0}
    /\ MaxSeq \in Nat
    /\ MaxPolls \in Nat
    /\ MaxSignalsPerPair \in Nat \ {0}
    /\ MaxSignalBatch \in Nat \ {0}

VARIABLES
    queue,           \* table signals
    seqs,            \* table signal_seqs
    node,            \* the receiver's row of table devices: its id, 0 if deleted
    nodes,           \* how many ids the receiver has been given
    polls,           \* deliveries so far; a delivery's number is its token
    expiredThrough   \* deliveries up to this number have outlived their lease

queueVars == <<queue, seqs, node, nodes, polls, expiredThrough>>

NodeIds == 1..MaxNodes

Row == [from: Senders, to: NodeIds, seq: 1..MaxSeq, token: 0..MaxPolls, expired: BOOLEAN]

\* The primary key; a pair's sequence numbers are never reused.
id(r) == [from |-> r.from, to |-> r.to, seq |-> r.seq]

\* Every listing and every insert first deletes the rows older than the TTL.
live == {r \in queue : ~r.expired}

\* Mutant: a delivered row stays leased until it is acknowledged or released.
leased_forever(r) == r.token # 0

\* lease_expires_at > now
leased(r) == r.token > expiredThrough

pair(s) == {r \in live : r.from = s /\ r.to = node}

CreateSignal(s) ==
    /\ node # 0
    /\ seqs[s][node] < MaxSeq
    /\ Cardinality(pair(s)) < MaxSignalsPerPair
    /\ seqs' = [seqs EXCEPT ![s][node] = @ + 1]
    /\ queue' = live \cup {[from |-> s, to |-> node, seq |-> seqs[s][node] + 1,
                            token |-> 0, expired |-> FALSE]}
    /\ UNCHANGED <<node, nodes, polls, expiredThrough>>

\* The rows a listing may hand out.
free == {r \in live :
           /\ r.to = node
           /\ ~leased(r)
           /\ ~\E earlier \in live : /\ earlier.from = r.from
                                     /\ earlier.to = r.to
                                     /\ earlier.seq < r.seq
                                     /\ leased(earlier)}

\* ORDER BY signal_seq LIMIT MaxSignalBatch; ties between senders are open.
is_batch(rows) ==
    /\ rows # {}
    /\ rows \subseteq free
    /\ Cardinality(rows) <= MaxSignalBatch
    /\ \A r \in rows, other \in free \ rows :
          /\ r.seq <= other.seq
          /\ Cardinality(rows) = MaxSignalBatch

\* An empty listing changes nothing the next one would not.
ListSignalsWithLease(rows) ==
    /\ is_batch(rows)
    /\ polls < MaxPolls
    /\ polls' = polls + 1
    /\ queue' = (live \ rows) \cup {[r EXCEPT !.token = polls + 1] : r \in rows}
    /\ UNCHANGED <<seqs, node, nodes, expiredThrough>>

\* Mutant: the id alone is enough.
matches_id(r, ids, token) == id(r) \in ids /\ r.token # 0

\* id = ? AND delivery_token = ? AND delivery_token != ''
matches(r, ids, token) == id(r) \in ids /\ r.token = token /\ r.token # 0

AckSignals(ids, token) ==
    /\ queue' = {r \in queue : ~matches(r, ids, token)}
    /\ UNCHANGED <<seqs, node, nodes, polls, expiredThrough>>

ReleaseSignalLeases(ids, token) ==
    /\ queue' = {IF matches(r, ids, token) THEN [r EXCEPT !.token = 0] ELSE r : r \in queue}
    /\ UNCHANGED <<seqs, node, nodes, polls, expiredThrough>>

\* revokeRoomDeviceTx(remove): the device's signals and sequences go with it.
DeleteDevice ==
    /\ node # 0
    /\ nodes < MaxNodes
    /\ node' = 0
    /\ queue' = {r \in queue : r.to # node}
    /\ seqs' = [s \in Senders |-> [seqs[s] EXCEPT ![node] = 0]]
    /\ UNCHANGED <<nodes, polls, expiredThrough>>

\* A registration finds its device by public key, or gets a fresh random id.
RegisterDevice ==
    /\ node' = IF node = 0 THEN nodes + 1 ELSE node
    /\ nodes' = IF node = 0 THEN nodes + 1 ELSE nodes
    /\ UNCHANGED <<queue, seqs, polls, expiredThrough>>

LeasesExpire(through) ==
    /\ through \in (expiredThrough + 1)..polls
    /\ expiredThrough' = through
    /\ UNCHANGED <<queue, seqs, node, nodes, polls>>

\* Signals of s up to seq k have outlived the TTL.
SignalsExpire(s, k) ==
    /\ \E r \in live : r.from = s /\ r.to = node /\ r.seq = k
    /\ queue' = {IF r.from = s /\ r.to = node /\ r.seq <= k
                 THEN [r EXCEPT !.expired = TRUE] ELSE r : r \in queue}
    /\ UNCHANGED <<seqs, node, nodes, polls, expiredThrough>>

QueueInit ==
    /\ queue = {}
    /\ seqs = [s \in Senders |-> [n \in NodeIds |-> 0]]
    /\ node = 1
    /\ nodes = 1
    /\ polls = 0
    /\ expiredThrough = 0

\* Type invariant of the queue, with what its tables promise each other.
QueueTypeOK ==
    /\ queue \subseteq Row
    /\ seqs \in [Senders -> [NodeIds -> 0..MaxSeq]]
    /\ node \in NodeIds \cup {0}
    /\ nodes \in NodeIds
    /\ polls \in 0..MaxPolls
    /\ expiredThrough \in 0..polls
=============================================================================
