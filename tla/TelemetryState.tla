--------------------------- MODULE TelemetryState ---------------------------
(***************************************************************************)
(* What the daemon's telemetry hub, its senders and Control hold of a      *)
(* device's paths, and what must hold of it whatever the bounds of a run   *)
(* (daemon/peer/path_telemetry/wire.rs, hub.rs; database/path_telemetry.go)*)
(***************************************************************************)
EXTENDS Integers, Sequences, FiniteSets, Functions

CONSTANTS
    Peers,
    MaxDirty,       \* MAX_DIRTY_PEERS
    MaxBatch,       \* DEFAULT_BATCH_OBSERVATIONS
    Unknown         \* a peer of which there is no observation

VARIABLES
    registrationSeq,    \* of the running process, and of its row
    fence,              \* generations and revision of each peer's path state
    latest_snapshots,   \* the hub's newest observation of each peer
    marking,            \* peers whose enqueue has yet to mark them dirty
    dirty_peers,        \* with dirty_set, its members
    http, ws,           \* what each sender is doing
    connected,          \* signal_ws_connected
    posts, frames,      \* batches on the way, by POST and by socket
    stored,             \* peer_path_observations
    commits, sockets, failures, \* bounds
    read, dropped,      \* history: the newest observation a drain has read of
                        \* each peer; peers pushed out of a full queue
    acked               \* history: the newest observation acknowledged

hubVars == <<latest_snapshots, marking, dirty_peers, read, dropped>>
wireVars == <<connected, posts, frames>>
countVars == <<commits, sockets, failures>>
telemetryVars == <<registrationSeq, fence, hubVars, http, ws, wireVars, stored, countVars, acked>>

\* network_generation, peer_session_generation, remote_candidate_epoch,
\* observation_revision.
Fences == [1..4 -> Nat]

\* registration_seq, the fence, and the number of the commit it shows.
Observation == [seq: Nat, fence: Fences, commit: Nat]

ASSUME TelemetryAssumption ==
    /\ IsFiniteSet(Peers)
    /\ MaxDirty \in Nat \ {0}
    /\ MaxBatch \in Nat \ {0}
    /\ Unknown \notin Observation

\* Fences are compared in the order of their parts.
Less(f, g) ==
    \E k \in 1..4 : f[k] < g[k] /\ \A j \in 1..(k - 1) : f[j] = g[j]

Newer(o, old) == o.seq > old.seq \/ (o.seq = old.seq /\ Less(old.fence, o.fence))

-----------------------------------------------------------------------------
(* Properties.                                                             *)

\* Type invariant: the queue of dirty peers holds none twice and keeps its limit.
TelemetryTypeOK ==
    /\ Len(dirty_peers) <= MaxDirty
    /\ IsInjective(dirty_peers)
    /\ Range(dirty_peers) \union marking \subseteq Peers
    /\ \A p \in Peers : latest_snapshots[p] # Unknown =>
           latest_snapshots[p].seq = registrationSeq /\ latest_snapshots[p].fence = fence[p]
    /\ http.at \in {"idle", "drained", "posted"} /\ ws.at \in {"idle", "drained"}

\* A commit is never forgotten between the hub's locks, by a drain that runs
\* at the same time or by the other sender: until a drain has read it, its
\* peer is about to be marked, marked, being drained, or was pushed out.
NoUpdateStranded ==
    \A p \in Peers :
        latest_snapshots[p] # read[p] =>
            \/ p \in marking \union Range(dirty_peers) \union dropped
            \/ http.at = "drained" /\ p \in http.ids
            \/ ws.at = "drained" /\ p \in ws.ids

\* What Control shows of a peer never goes back: not to an older process, and
\* within one not to older generations or revisions, in whatever order late
\* and repeated reports arrive (docs/explanation/connection-lifecycle.md:15-17).
StoredNeverGoesBack ==
    [][\A p \in Peers : stored'[p] # stored[p] =>
           /\ stored'[p] # Unknown
           /\ stored[p] = Unknown \/ Newer(stored'[p], stored[p])]_telemetryVars

\* An observation whose batch was acknowledged is recorded, or a newer one is.
AckedIsRecorded ==
    \A p \in Peers : acked[p] # Unknown =>
        stored[p] # Unknown /\ ~Newer(acked[p], stored[p])

\* No commit is forgotten on its way through the hub's locks and the senders'
\* batches, and until a socket opens an acknowledgement says what Control has.
NothingForgotten ==
    /\ TelemetryTypeOK
    /\ NoUpdateStranded
    /\ sockets = 0 => AckedIsRecorded
=============================================================================
