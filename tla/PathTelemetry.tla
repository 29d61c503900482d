--------------------------- MODULE PathTelemetry ---------------------------
(***************************************************************************)
(* The active-path telemetry of one device: the daemon's hub of dirty      *)
(* peers, its two senders, and the fence under which Control keeps the     *)
(* latest observation of each peer (daemon/peer/path_telemetry,            *)
(* control/websocket.rs, server/database/path_telemetry.go).               *)
(*                                                                         *)
(* enqueue and drain_dirty take the hub's locks one after the other, so    *)
(* each is two steps.  A POST the daemon has given up on can still reach   *)
(* the server.  A registration is a new daemon process: RegistrationSession*)
(* says how the sequence is given out, and its check stands before a POST, *)
(* while a socket's frames carry the sequence of its upgrade.              *)
(*                                                                         *)
(* An observation is its fence and the number of the commit it shows.      *)
(* Transition history, hourly metrics and sanitising are left out.         *)
(***************************************************************************)
EXTENDS TelemetryState

CONSTANTS
    MaxCommits,     \* bound: commits of the path reducer, over all processes
    MaxProcesses,   \* bound: daemon processes, one registration each
    MaxSockets,     \* bound: WebSocket connections
    MaxFailures     \* bound: POSTs that get no answer

Idle == [at |-> "idle"]

Fence0 == <<0, 0, 0, 0>>

Init ==
    /\ registrationSeq = 1
    /\ fence = [p \in Peers |-> Fence0]
    /\ latest_snapshots = [p \in Peers |-> Unknown]
    /\ marking = {}
    /\ dirty_peers = <<>>
    /\ http = Idle /\ ws = Idle
    /\ connected = FALSE
    /\ posts = {} /\ frames = <<>>
    /\ stored = [p \in Peers |-> Unknown]
    /\ commits = 0 /\ sockets = 0 /\ failures = 0
    /\ read = [p \in Peers |-> Unknown]
    /\ dropped = {}
    /\ acked = [p \in Peers |-> Unknown]

-----------------------------------------------------------------------------
(* The hub.                                                                *)

\* What a commit may do to the fence: a revision; a candidate epoch; the peer
\* added again, whose state machine starts over; a network generation.
advanced(f, level) ==
    CASE level = 4 -> [f EXCEPT ![4] = @ + 1]
      [] level = 3 -> [f EXCEPT ![3] = @ + 1, ![4] = @ + 1]
      [] level = 2 -> <<f[1], f[2] + 1, 0, 0>>
      [] level = 1 -> <<f[1] + 1, f[2], f[3], f[4] + 1>>

\* commit_path_transition calls enqueue, which first replaces the snapshot ...
EnqueueStores(p, level) ==
    /\ p \notin marking
    /\ commits < MaxCommits
    /\ commits' = commits + 1
    /\ fence' = [fence EXCEPT ![p] = advanced(@, level)]
    /\ latest_snapshots' = [latest_snapshots EXCEPT ![p] =
           [seq |-> registrationSeq, fence |-> advanced(fence[p], level), commit |-> commits + 1]]
    /\ marking' = marking \union {p}
    /\ UNCHANGED <<registrationSeq, dirty_peers, http, ws, wireVars, stored,
                   sockets, failures, read, dropped, acked>>

\* Mutant: a full queue turns the new peer away and counts nothing.
marked_refusing(p) ==
    IF p \in Range(dirty_peers) \/ Len(dirty_peers) >= MaxDirty THEN dirty_peers
    ELSE Append(dirty_peers, p)

\* Mutant: the limit is one too high.
marked_over(p) ==
    IF p \in Range(dirty_peers) THEN dirty_peers
    ELSE IF Len(dirty_peers) > MaxDirty THEN Append(Tail(dirty_peers), p)
    ELSE Append(dirty_peers, p)

\* ... and then marks the peer, pushing out the oldest of a full queue.
marked(p) ==
    IF p \in Range(dirty_peers) THEN dirty_peers
    ELSE IF Len(dirty_peers) >= MaxDirty THEN Append(Tail(dirty_peers), p)
    ELSE Append(dirty_peers, p)

EnqueueMarks(p) ==
    /\ p \in marking
    /\ marking' = marking \ {p}
    /\ dirty_peers' = marked(p)
    /\ dropped' = (dropped \union Range(dirty_peers)) \ Range(marked(p))
    /\ UNCHANGED <<registrationSeq, fence, latest_snapshots, http, ws, wireVars,
                   stored, countVars, read, acked>>

\* drain_dirty takes the peers ...
taken == SubSeq(dirty_peers, 1, IF MaxBatch < Len(dirty_peers) THEN MaxBatch ELSE Len(dirty_peers))
\* Mutant: one peer too many is popped.
untaken_short == SubSeq(dirty_peers, Len(taken) + 2, Len(dirty_peers))

untaken == SubSeq(dirty_peers, Len(taken) + 1, Len(dirty_peers))

\* ... and then reads their snapshots.
batch(ids) == {[peer |-> p, obs |-> latest_snapshots[p]] : p \in ids}

readBy(ids) == read' = [p \in Peers |-> IF p \in ids THEN latest_snapshots[p] ELSE read[p]]

-----------------------------------------------------------------------------
(* The HTTP worker, which leaves the dirty peers to an open socket.        *)

FlushDrains ==
    /\ http.at = "idle"
    /\ ~connected
    /\ dirty_peers # <<>>
    /\ http' = [at |-> "drained", ids |-> Range(taken)]
    /\ dirty_peers' = untaken
    /\ UNCHANGED <<registrationSeq, fence, latest_snapshots, marking, read, dropped, ws,
                   wireVars, stored, countVars, acked>>

FlushPosts ==
    /\ http.at = "drained"
    /\ readBy(http.ids)
    /\ http' = [at |-> "posted", batch |-> batch(http.ids)]
    /\ posts' = posts \union {[seq |-> registrationSeq, batch |-> batch(http.ids), done |-> FALSE]}
    /\ UNCHANGED <<registrationSeq, fence, latest_snapshots, marking, dirty_peers, dropped,
                   ws, connected, frames, stored, countVars, acked>>

\* No answer, or an error: the batch is not marked dirty again.
FlushFails ==
    /\ http.at = "posted"
    /\ failures < MaxFailures
    /\ failures' = failures + 1
    /\ http' = Idle
    /\ \/ UNCHANGED posts
       \/ posts' = posts \ {m \in posts : m.batch = http.batch /\ m.seq = registrationSeq}
    /\ UNCHANGED <<registrationSeq, fence, hubVars, ws, connected, frames, stored,
                   commits, sockets, acked>>

-----------------------------------------------------------------------------
(* The socket.                                                             *)

acks(b) == [p \in Peers |->
    IF \E o \in b : o.peer = p THEN (CHOOSE o \in b : o.peer = p).obs ELSE acked[p]]

\* "ready" with the capability: everything known is marked dirty.
rest == {p \in Peers : latest_snapshots[p] # Unknown} \ Range(dirty_peers)
permutation(s) == {q \in [1..Cardinality(s) -> s] : IsInjective(q)}
room == MaxDirty - Len(dirty_peers)

SocketReady ==
    /\ ~connected
    /\ sockets < MaxSockets
    /\ sockets' = sockets + 1
    /\ connected' = TRUE
    /\ \E q \in permutation(rest) :
           dirty_peers' = dirty_peers \o SubSeq(q, 1, IF room < Len(q) THEN room ELSE Len(q))
    /\ dropped' = dropped \ Range(dirty_peers')
    /\ UNCHANGED <<registrationSeq, fence, latest_snapshots, marking, read, http, ws, posts,
                   frames, stored, commits, failures, acked>>

SocketDrains ==
    /\ connected
    /\ ws.at = "idle"
    /\ dirty_peers # <<>>
    /\ ws' = [at |-> "drained", ids |-> Range(taken)]
    /\ dirty_peers' = untaken
    /\ UNCHANGED <<registrationSeq, fence, latest_snapshots, marking, read, dropped, http,
                   wireVars, stored, countVars, acked>>

SocketSends ==
    /\ connected
    /\ ws.at = "drained"
    /\ readBy(ws.ids)
    /\ ws' = Idle
    /\ frames' = Append(frames, batch(ws.ids))
    /\ UNCHANGED <<registrationSeq, fence, latest_snapshots, marking, dirty_peers, dropped,
                   http, connected, posts, stored, countVars, acked>>

\* The socket is lost with what it carried; the next one sends everything.
SocketLost ==
    /\ connected
    /\ ws.at = "idle"
    /\ connected' = FALSE
    /\ frames' = <<>>
    /\ UNCHANGED <<registrationSeq, fence, hubVars, http, ws, posts, stored, countVars, acked>>

-----------------------------------------------------------------------------
(* Control.                                                                *)

\* Mutant: a fence of generations only, as revisions restart.
accepts_any_revision(old, o) ==
    \/ old = Unknown
    \/ o.seq > old.seq
    \/ o.seq = old.seq /\ o.fence[1] >= old.fence[1] /\ o.fence[2] >= old.fence[2]

\* Mutant: the fence without the session.
accepts_by_fence(old, o) == old = Unknown \/ Less(old.fence, o.fence)

\* RecordPathObservations: a newer session, or the same with a newer fence.
accepts(old, o) ==
    \/ old = Unknown
    \/ o.seq > old.seq
    \/ o.seq = old.seq /\ Less(old.fence, o.fence)

recorded(b) == [p \in Peers |->
    IF \E o \in b : o.peer = p /\ accepts(stored[p], o.obs)
    THEN (CHOOSE o \in b : o.peer = p).obs
    ELSE stored[p]]

\* A POST of the current session; the answer comes if its sender still waits.
IngestPost(m) ==
    /\ m \in posts
    /\ ~m.done
    /\ m.seq = registrationSeq
    /\ stored' = recorded(m.batch)
    /\ posts' = (posts \ {m}) \union {[m EXCEPT !.done = TRUE]}
    /\ UNCHANGED <<registrationSeq, fence, hubVars, http, ws, connected, frames,
                   countVars, acked>>

\* 409 for a session that has been replaced.
RefusePost(m) ==
    /\ m \in posts
    /\ m.seq # registrationSeq
    /\ posts' = posts \ {m}
    /\ UNCHANGED <<registrationSeq, fence, hubVars, http, ws, connected, frames, stored,
                   countVars, acked>>

FlushAnswered ==
    /\ http.at = "posted"
    /\ \E m \in posts :
           /\ m.done /\ m.batch = http.batch /\ m.seq = registrationSeq
           /\ posts' = posts \ {m}
    /\ acked' = acks(http.batch)
    /\ http' = Idle
    /\ UNCHANGED <<registrationSeq, fence, hubVars, ws, connected, frames, stored, countVars>>

\* The frame wraps its observations in "payload", the server reads them at
\* the top: it finds none.
observations(f) == {}

\* The answer goes out whatever was found, and the daemon counts it.
IngestFrame ==
    /\ frames # <<>>
    /\ stored' = recorded(observations(Head(frames)))
    /\ acked' = acks(Head(frames))
    /\ frames' = Tail(frames)
    /\ UNCHANGED <<registrationSeq, fence, hubVars, http, ws, connected, posts, countVars>>

-----------------------------------------------------------------------------
(* A new process registers; what the old one sent is still on the way.     *)

Restart ==
    /\ registrationSeq < MaxProcesses
    /\ registrationSeq' = registrationSeq + 1
    /\ fence' = [p \in Peers |-> Fence0]
    /\ latest_snapshots' = [p \in Peers |-> Unknown]
    /\ marking' = {}
    /\ dirty_peers' = <<>>
    /\ http' = Idle /\ ws' = Idle
    /\ connected' = FALSE
    /\ frames' = <<>>
    /\ read' = [p \in Peers |-> Unknown]
    /\ dropped' = {}
    /\ acked' = [p \in Peers |-> Unknown]
    /\ UNCHANGED <<posts, stored, countVars>>

Hub == \E p \in Peers : EnqueueMarks(p)
Flush == FlushDrains \/ FlushPosts \/ FlushAnswered
Control == IngestFrame \/ \E m \in posts : IngestPost(m) \/ RefusePost(m)

Next ==
    \/ \E p \in Peers, level \in 1..4 : EnqueueStores(p, level)
    \/ Hub
    \/ Flush
    \/ FlushFails
    \/ SocketReady
    \/ SocketDrains
    \/ SocketSends
    \/ SocketLost
    \/ Control
    \/ Restart

Spec == Init /\ [][Next]_telemetryVars

\* The worker wakes at every tick of its interval and requests are served;
\* commits, failures and sockets need not happen.
FairSpec == Spec /\ WF_telemetryVars(Hub) /\ WF_telemetryVars(Flush) /\ WF_telemetryVars(Control)

-----------------------------------------------------------------------------
(* Liveness; the other properties are in TelemetryState.                   *)

\* Once the path of a peer stops changing, Control shows where it stopped.
LatestIsStored ==
    \A p \in Peers :
        <>[](latest_snapshots[p] = Unknown \/ stored[p] = latest_snapshots[p] \/ p \in dropped)
=============================================================================
