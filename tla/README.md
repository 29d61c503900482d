# P2WLAN in TLA+

P2WLAN builds a virtual LAN between devices behind NATs. A daemon on every
device talks to a control server over HTTP and WebSocket, exchanges signals
with its peers through that server, punches UDP holes, runs WireGuard sessions,
and falls back to an encrypted relay when no direct path can be proven.

This directory holds models of the parts of that system whose correctness
depends on order: on events of several sources that reach one state machine, on
deliveries that are leased, lost and repeated, on answers that come after the
question was withdrawn, on tasks that wait for each other's locks. The models
are translated from the source; each definition that models code is listed in
`PROJECT.json` under `map` with the lines it stands for.

## 1. The system

| Part | State | Operations | Hard because | Module |
|---|---|---|---|---|
| Path reducer, one per peer (`client/daemon/src/peer/path_state_machine.rs`) | epoch (network generation, session, candidate epoch), active path, relay, Direct, recovery, startup window, receipts | `reduce` and `commit` of 20 typed events | events come from membership, handshake, probing, relay, scheduler and network monitor, each possibly late | `PathStateMachine` |
| Direct-first scheduling (`network_outbound.rs`, `peer/connection/core.rs`) | deadline | raise `DirectFirstDeadline` | must fire once, for the epoch that is current | `PathStateMachine` |
| Path MTU discovery (`dplpmtud/`, `udp/business_mtu.rs`, `lib/daemon/udp_direct.rs`) | search machine, budget revision, worker lease, tokens of senders | probe, acknowledge, confirm, raise, reconcile, refuse | answers and tokens outlive the path they belong to; two reconciliations act on what they read | `Dplpmtud`, `DirectBudget` |
| Control-event loop (`lib/daemon/control_events/`, `transport/sessions.rs`, `peer/manager/`) | event in progress, cooperative workers, queues of the peer's locks | apply events, run handshake workers in the same task | a worker that is not polled keeps the locks it is granted | `ControlEventLoop` |
| Handshake (`lib/daemon/handshake/`, `lib/pending_handshake.rs`, `transport/sessions.rs`) | active, previous and pending keys, remembered tokens, answer cache, timestamp floor, pending initiation | offer, stage, answer, commit, promote, roll back, rekey, mark Connecting | offers and answers are lost, repeated or ambiguous; five memories expire at different times; awaits between reading the connection and changing it | `ResponderSessions`, `HandshakeSessions`, `HandshakeMark`, locks in `ControlEventLoop` |
| Signal queue (`server/database/signals.go`, `signal_release.go`) | signals, per-pair sequences, leases | create, list with lease, ACK, release, TTL cleanup | at-least-once delivery with ordering per sender | `SignalQueue` |
| Signal delivery (`client/daemon/src/control/http/`) | lanes, tracker, receipts, registration | poll, apply, wait, ACK, release | timeouts, joins, revoked registrations, restarts | `SignalDelivery` |
| Long poll (`server/api/signal_notifier.go`, `signal_handlers.go`) | version and channel per node | version, list, notify, wait | a notification between the listing and the wait | `LongPoll` |
| WebSocket hub (`server/signaling/`, `client/daemon/src/control/websocket.rs`) | client map, slots, queues and flags of a socket | register, replace, evict, notify, pump, close | three goroutines per socket, two sockets per device | `SignalingHub`, `SignalWakeup` |
| Registration (`server/api/registration_session.go`, `device_handlers.go`, `database/devices.go`) | device row, sequence, incarnation, lock | register, guard a request, release presence | overlapping registrations of one device | `RegistrationSession` |
| Relay server (`server/relay/`) | peers, send queues, revocations | register, replace, forward, revoke, sweep, close | reconnect against teardown, registration against revocation | `RelayHub`, `RelaySendQueue` |
| Revocation feed (`server/relay/revocation.go`, `database/relay_revocations.go`) | rows, cursor, tombstones | page, merge, prune, go stale | rows are added and expire during a catch-up | `RevocationFeed` |
| Path telemetry (`peer/path_telemetry/`, `server/database/path_telemetry.go`) | snapshots, dirty set, last path per pair | enqueue, drain, send, record | two senders, late and repeated reports | `PathTelemetry` |
| Hole punching, UDP sockets, outbound queue, candidate refresh, relay client | probe plans, packets waiting for a path | | timing and packet loss | |
| Rooms, accounts, administration, data plane, NAT codecs, crypto, hosts, Flutter app | | | request-scoped or platform I/O | |

How they interact. The handshake, the UDP runtime, the relay supervisor, the
membership manager and the network monitor send events to the path reducer of a
peer under that connection's writer lock; the outbound scheduler reads the
deadline from it and raises an event of its own. The Direct path the reducer
commits is what MTU discovery follows, and every commit is an observation for
the telemetry hub. Signals (offers, answers, candidates) travel from a peer's
daemon into the server's queue, wake the receiver through the long poll or the
WebSocket hub, are leased by its poll, and enter its control-event loop with a
receipt; the completed receipt is what allows the ACK. A registration gives each
daemon a sequence; when a newer one replaces it, its requests are refused, its
socket is closed, and its telemetry is older than anything the new one sends.
Tickets that Control revokes reach the relay through the feed, which sweeps its
connections.

What makes them correct is listed with the runs in section 3. The hazards
behind the properties are in `PROJECT.json` under `hazards`, each at its line.

## 2. Modules

A step is a stretch of code between two points where another task, goroutine,
request or message can get in between: a transaction, a critical section, the
code between two awaits. A name in lower case is usually the source's own.

**PathStateMachine.** One peer's reducer. `path` is `PathState` (the sum types as
records with a `kind`), `receipts` and `observations` are
`accepted_event_receipts` and `accepted_observations`, `now` is the monotonic
clock. `suppressed` is a history variable: it records that `Commit` dropped an
event after its fences had passed, and why. `reduce` and `commit` run under one
writer guard, so an event is one action. Its guard is what the fences demand; its
last conjunct is always `Commit(next, receipt, observation, clear)`, which models
the end of `reduce` and the whole of `commit`: the validity check, the replay
check, the pruning of receipts, and the bounded observation queue. An event that
a fence refuses changes nothing and is no step. `DirectStep` offers each event
the identities that code can build: requests with an owner, authenticated answers
to a request, and ownerless confirmations. `DirectFirstDeadline` is the event the outbound scheduler raises.

**HandshakeMark.** The path machine beside one handshake task, which reads a clone
of the connection (`DecideConnecting`) and later, under the locks, marks the peer
Connecting (`MarkConnecting`). In `PathStateMachine` the two are one step.

**SignalQueue.** The tables `signals` and `signal_seqs` towards one receiver, and
its row in `devices`. Every operation is a database transaction and one step. A
delivery's number is its token; `expiredThrough` says which deliveries have
outlived their lease, because leases run out in the order they were given. Rows
past their TTL are marked and are gone for every query.

**SignalDelivery.** The daemon on top of the queue: a poll, one lane per sender in
the answer, and in each lane an application loop and an ACK owner. A lane's `pos`
is the row being applied, the rows `acked+1 .. pos-1` wait in the ACK channel,
`open` says that the channel has not been closed. `receipts` are the application
receipts someone still holds, `tracked` those the tracker's `in_flight` map
names; `tracker` is the list of recent ids and the high-water mark per sender.
Steps that await are separate actions: `BeginApplication`, `Dispatch`,
`Complete`, `Finish` or `WaitTimedOut`, the ACK, its failure and its late arrival.
`Revoke` ends the registration; lanes notice (`LaneRevoked`), and their
deliveries are released under the next one (`Release`). `Crash` forgets
everything in memory.

**LongPoll** (over `SignalQueue`). Senders insert and then notify, polls read the
version, list, check the version again under the notifier's lock, and park;
fallback timer, deadline and cancellation end a wait. A closed channel is a
version that has moved on.

**SignalingHub.** Per socket a handler that becomes the read pump, a write pump,
and whoever notifies, disconnects or closes the hub. The map and the counter are
under the hub's lock; `done`, `closeReq` and the send queue are the socket's own.
**SignalWakeup** puts the sender's handler in front of it and one daemon behind
it, whose poll timer is left out on purpose: the question is what wake-ups
guarantee without it. All sockets the daemon may open authenticate as one device,
the `receiver` of the rows. **Wakeups** puts the long poll beside it.

**RegistrationSession.** One device, any number of daemon processes with distinct
incarnations. A registration looks the row up, takes the device's lock if there
is a row, registers (`supersedes`, `registered`), disconnects the old socket and
answers; a guarded request checks, acts and answers under the same lock. A
request may be lost, repeated, or outlive the process that sent it. A device is
`enrolled` if its row existed when the first process began; only the first
registrations of a device take no lock.

**PathTelemetry.** The hub's snapshots and dirty set, whose enqueue and drain take
two locks in turn and are two steps each; the HTTP worker and the WebSocket
sender; what arrives, in any order and late, at Control's fence (`accepts`).
**TelemetryState** declares its constants and variables and states what has to be
true of them, so that a run and the proofs name one definition.

**RelayHub.** Per connection `handleConn` from accept to exit, its writer, the
sweep of a revocation page, staleness and Close. `forwarding` is the pointer a
read loop has looked up and not enqueued to yet. Frames reach a client in two
ways: through the queue and the writer, which asks whether the peer is revoked,
and as an error frame that the handler writes to the socket itself on its way out
(`WritesError`), which asks nothing. `late` and `parting` count what of either
kind is written for a revoked peer whose socket is still open. **RelaySendQueue**: frame and
byte credits of one queue. **RevocationFeed**: the server's table and pages, the
relay's refresh of several requests, failures and restarts. **RelayServer** is one
relay: its hub, its feed, which share the revocations it knows (`tombstones`,
`fresh`), and the send queue of one of its peers.

**Dplpmtud.** The pure search reducer as functions of a machine, the registry
entry around it, the worker's loop from plan over send to answer, two places that
reconcile with the committed path, a business sender with its token, the network
that carries less or more. Probe identities, budget revisions and owner tokens
are only compared for equality, so fresh values of small pools stand for them.
**DirectBudget** is the abstract specification: what a peer's traffic may send is
withdrawn, or a size the peer has answered on that path. `ImplementsDirectBudget`
is the refinement mapping.

**ControlEventLoop.** Tasks, the lock queues of one peer, and who is polled. `Needs`
gives the locks of each job in the order the code takes them, `After` what may
follow a job by the branch taken. Responder workers are futures of the loop's
task: they run only at the awaits in `Driven`, the select and those wrapped by
`await_peer_lifecycle_commit_while_driving_work`. A lock that is released belongs
to the next in line at once, polled or not, as with Tokio's fair locks.
`BacksOff` and `StartsOver` are `lock_epoch_and_connections_write`, which gives the
gate back instead of waiting for `connections` behind it.

**SessionGraces** declares how long the memories of a handshake live.
**ResponderSessions** is the answering end of one peer's handshakes. A token
stands for a handshake transaction, its keys and its answer, and tokens are
numbered by the timestamps their initiations carry. `keys` is
`PeerTransportSessions`: the active key, the previous one and how long it is
retained, the pending ones and the remembered tokens (`seen`) with the ticks each
has left, and which of those are `Terminal`. `answerer` is the owner of the
responder work, from the admission of an offer (`Admits`: replay cache, or crypto
with timestamp floor) over staging and POST to the commit; `stale` says that its
network generation has been overtaken. Inbound traffic takes two steps, since
`decrypt_inbound_classified` lets go of the sessions before it waits for the emit
lock (`Receives`, `Promotes`). **HandshakeSessions** adds the initiator, the
offers and answers between the two, and what may go wrong on the way, each fault
an action of its own.

**MC modules** instantiate these for TLC. Four of them join small models into one
run: a behaviour starts in one *scenario* and stays in it, the variables of the
others keep their initial values, and each fairness condition applies to its
scenario. A joined run checks every property in every scenario that can violate
it; a property of one scenario is stated as such (`scenario = "http" => ...`).
The scenarios are named at the head of each MC module.

**PathStateMachineProofs, SignalDeliveryProofs, WakeupProofs,
RegistrationSessionProofs, PathTelemetryProofs, RelayHubProofs, DplpmtudProofs,
ResponderSessionsProofs** hold the theorems; section 5.

## 3. Runs

| Run | Properties | Scenarios and bounds |
|---|---|---|
| `path_epochs` | no event that passed its fences is refused or swallowed (`ReducerClosed`); a proof is committed exactly while it is active (`CommittedIffActive`); fences and window only advance (`FencesAdvance`, `WindowNeverRearmed`); a proven relay takes over when the window closes (`StandbyRelayTakesOver`) | 2 sessions, 2 network generations, 2 candidate epochs; one owner, endpoint and relay without incarnation; a window of one tick |
| `path_identities` | a receipt never hides a re-confirmation (`ReplayHidesNoPath`); Direct work keeps the relay; a committed proof is stable; `TypeOK` | 2 owners, 2 endpoints, 2 relay servers, 2 incarnations and an unknown one; transitions to Connecting and Relay |
| `handshake_demotion` | a violation: finding 1 | smallest instance with a session, a request and an answer |
| `signal_redelivery` | nothing is acknowledged before it is settled (`NoneLost`), applied out of order (`InSendOrder`), handed to two lanes or applied twice at a time (`OneDeliveryAtATime`); a release spares the current lane; `TypeOK`; what findings 2 and 3 break is stated while the node id is the first (`node = 1`) or no row has ended by age (`expiries = 0`) | one sender, 2 signals, 3 polls, 2 registrations; `recovery`: any 2 failures; `churn`: a TTL expiry, a new node id, a full pair queue |
| `signal_reregister`, `signal_ttl` | violations: findings 2 and 3 | no failures |
| `wakeup` | slots exact and the newest socket reachable (`HubSound`); every row of a live daemon is announced, being announced or read, and no poll sleeps over a row (`NothingSleptThrough`); sockets end, every row is polled, polls end | room for one socket, in `wake` for two; `wake`: 2 sockets, one notice, one loss; `limit`: 3 sockets; `closing`: 2 sockets and Close; `poll`, `untimed`: 2 polls, 2 rows, with and without the fallback timer |
| `relay` | `RoutingSound`, `ConnectionsEnd` of the hub; `CatchUpSound`, `RevocationsArrive` of the feed; `LimitsHold`: slots of the hub, budgets of a queue | room for 2 connections; `renewal`: 2 connections and revocations; `outage`: 2 connections, staleness and shutdown; `limit`: 3; `traffic`: one, with a data frame; `feed`: 3 revocations, one row a page, 2 pages a refresh, one fault; `queue`: 2 sources, 2 sizes of data and of control frames, 4 slots, 12 bytes of which 3 are the reserve |
| `control` | `RowIsCurrent`, `SocketFollowsRow`, `ActsUnderItsLock`, `SessionsAdvance`, `NewestProcessTakesOver` of a device; `NothingForgotten`, `StoredNeverGoesBack`, `LatestIsStoredOverHttp` of telemetry; `EverySignalSettles`; what a first registration's missing lock breaks is stated of an `enrolled` device, and that an acknowledged observation is recorded only while no socket has been opened (`sockets = 0`) | `retries`, `calls`, `first`: 2 processes with 2 tries or 2 calls; `http`, `lossy`, `socket`: 2 peers, 2 to 3 commits; `signals`: 2 signals, one of an unknown type, 6 polls, one failure |
| `telemetry_socket` | a violation: finding 4 | as `control` |
| `daemon` | an answer to the outstanding probe counts and a token of before the last change neither sends nor withdraws (`AnswersAndTokens`), `ImplementsDirectBudget`, `BudgetSettlesEverywhere` of MTU discovery; `LoopReturns` of the event loop; a key that becomes active is newer than all before (`NeverRolledBack`), a key the initiator installed is held by the responder (`InstalledKeyIsHeld`), the last handshake ends with one key at both ends (`EndsAgree`) | `mtu`: sizes 4 to 9, one change of what the network carries, one fault (a lost answer, a failed send, or a worker whose hour is over); `repath`: 2 paths, 2 workers, 2 reconciliations; `loop`: one worker, one other task, 3 events, 2 jobs; `keys`: 2 handshakes, 2 faults, graces of 1 or 2 ticks |
| `control_loop_parked` | a violation: finding 5 | one worker, one other task, 2 events |

Every property of a passing run has a mutant in `PROJECT.json`: a variant of a
mapped definition, as a plausible bug would leave it, under which the run finds
the property violated.

Why the bounds are enough to be interesting. Two values of a fence distinguish
older, current and newer; the epoch run crosses them for all three fences at
once, and the identity run does the same for owners and transports, so that
every comparison of the reducer can come out either way. Owners and endpoints
are only compared for equality and are symmetric. Two signals are the least that
have an order; three polls allow a delivery, its redelivery and one more; two
failures allow a timeout followed by the loss of an ACK, or a lease expiry
followed by a crash. In the scenario `signals` the poll bound is not reached, so
no behaviour ends by running out of polls. With `MaxRecentSignalIds = 1` the list
of recent ids forgets in every run, so the high-water mark does the work it has
in the long run of the program. At the hubs, two connections of one node are
what replacement needs, and a third in `limit` what the overlap slot needs. In
the queue two large frames of one source take 8 of the 9 bytes data may take, and
a control frame may be larger than its reserve, as in the program. Two processes
of a device are an old and a new one, with room for a retry of each; three commits over two peers fill a dirty queue and repeat a peer. Sizes 4 to 9
with granularity 2 give the search a rise, a failure in the middle and a final
step; two paths are a path and its replacement. One worker and one other task
are the two that a lock queue ahead of the loop needs. Two handshakes are a
session and its rekey, or a failed attempt and the next; two faults allow an
ambiguous answer followed by a network change or a late packet. The graces keep
the order they have in the program (pending 60 s, previous 90 s, memory and cache
120 s) as far as one or two ticks can; `NeverRolledBack` is proved for all.

`CHECK_DEADLOCK FALSE`: the bounds let these systems come to rest; a relay or a
hub that has closed, or a peer without a Direct path, rightly does nothing. The
question deadlock checking would ask is asked by the liveness properties instead.

Fairness, and what justifies it:

* path reducer: time passes, and the outbound scheduler, which sleeps until the
  earliest deadline and retries until the commit succeeds, raises the event
  while it stays due.
* signals: one weak fairness for the daemon and server together (`Progress`: the
  poll loop, lanes, state machine, re-registration, lease expiry), no promise to
  a single lane; failures, revocation, releases and late requests need not
  happen.
* hubs: every goroutine of a connection that can run does; a peer need not read
  or write anything, so whatever ends a connection without its peer's help is
  the server's own work. Deadlines of reads and writes are the only timers.
* long poll: handlers run; the fallback timer and the deadline fire in `poll`; in
  `untimed` they are absent and only notifications wake.
* registration: an accepted request's handler runs to its end. Clients need not
  retry. Telemetry: the hub, the HTTP flush timer and Control's handler run.
* MTU discovery: workers are polled, timers fire, the scheduler reconciles, and
  an answer on its way arrives or is lost.
* handshakes: the offer's worker and the inbound worker run, an answer Control
  accepted reaches the initiator, and the confirmation packets that follow reach
  the responder (`start_rekey_confirmation` sends them and Probes repeat them).
  `EndsAgree` speaks of the last handshake if it begins after the last fault and
  with nothing of an earlier one in flight (`calm`, `settled`). Time waits for it:
  a handshake without faults takes seconds, the shortest grace is a minute.
* event loop: every runnable task runs; a task that waits only waits for locks.
  The HTTP request of an answer ends by its own timeout.

`LoopReturns` is stated "unless two writers collide for ever" (`CollidesForever`).
`lock_epoch_and_connections_write` (peer/manager/core.rs:952) gives the gate back
when `connections` is taken, queues for it, lets it go and tries again. Two tasks
that do so can be granted the lock in turn and each find it granted to the other.
Nothing in the code ends that but another task's turn. It is excluded, not
disproved, because in the program it needs both to stay in lockstep.

## 4. Findings

1. `handshake_demotion`. The handshake decides from a cloned connection to show a
   peer as Connecting and transitions later under a lock that re-checks session
   and presence but not the state. A Direct commit in between is demoted and its
   proof discarded, which `relay/confirmation.rs` reserves to the keepalive
   machinery and `membership.rs` warns of for hole punching.
2. `signal_reregister`. After its device was deleted, a daemon outside a room
   registers again under a new node id; the server counts signals to it from 1,
   and the tracker, keyed by sender alone, takes them as applied and
   acknowledges them unapplied.
3. `signal_ttl`. TTL cleanup deletes leased rows too, and with the row goes the
   fence the comment promises as long as the lease runs: the next row is handed
   to a second lane while the first is still applying.
4. `telemetry_socket`. The daemon's WebSocket frame nests the observations under
   `payload`; the server looks for them at the top of the frame, records none and
   acknowledges. The document calls the WebSocket the preferred channel.
5. `control_loop_parked`. PeerLeft, and a PeerUpdated that takes a peer offline or
   changes its identity, await `remove_session_with_reason` without polling the
   lanes. If a responder worker waits for the peer's ingress lock behind an
   outbound sender, it is granted the lock while nobody polls it, and the loop
   waits behind it for ever; the worker's own timeout is not polled either. It is
   the case the helper at the head of the file was written against, for another
   lock. With the events that retire a session left out, `LoopReturns` holds (run
   `daemon`).

Seen while modelling, without a run of its own:

* The hub can write a notification before the ready frame of a socket
  (signaling.go:300); the daemon ends a connection that begins that way and dials
  again (`ReadUnexpected`).
* "A blocked writer cannot admit unbounded memory or make one source occupy the
  whole destination" (send_queue.go:14-16). The share of a source is half the
  slots (line 27), not of the bytes: 512 frames of up to 65 KB are more than the
  4 MiB of a queue, so one source can hold all bytes that data may take and
  another finds no room until frames have been written. What holds is
  `OneSourceLeavesSlots`: with the bytes for it, another source has a slot.
* A ping of the maximal payload is answered by a pong that may be longer than the
  64 KiB kept for control frames (send_queue.go:4, connection.go:374); behind data
  it may be refused, which closes the connection. `ControlFits` is stated of
  control frames that fit the reserve.
* Between the mark and the Close of a sweep (revocation.go:272-286) the read loop of
  the swept peer may still write its error frame (connection.go:322-334), beside
  the frame its writer holds: two frames, one more than the flag check of the
  writer suggests. `FewLateFrames` says so.
* An observation without an epoch is reported with generations 0
  (wire.rs:103-110) and refused by Control once a row with an epoch exists. It
  follows from `IdentityReset` (path_state_machine.rs:827-830), which is followed by
  PeerOnline unless the peer is offline.
* The first registrations of a device take no lock (device_handlers.go:153 and
  192): a request may act after its session was replaced, and a socket may
  outlive its session. Scenario `first` runs them; `SocketFollowsRow` and
  `ActsUnderItsLock` are stated for the others.
* Peers of a POST that failed are not marked dirty again (sender.rs:83): what
  Control shows stays old until the path changes once more. Scenario `lossy` runs
  this; `LatestIsStoredOverHttp` is stated where no POST is lost.
* When a generation advances while the answer's POST is in flight, the responder
  discards the session under its "unpublished" rule although the answer may have
  reached the peer (offer.rs:1104-1135, transport/sessions.rs:722). It is the first
  of the two reasons for which `InstalledKeyIsHeld` lets a key go (`Loses`).
* A late packet of an adopted key that is still pending promotes it and makes
  every newer pending key terminal (transport/sessions.rs:153-155), also one the
  initiator has just installed; the next rekey repairs it. It is the second.
* A second answer to the committed request from another endpoint is an accepted
  observation whose side effects follow (direct_success.rs:289), and the startup
  deadline is committed only while the connection's network generation is the
  manager's (core.rs:353). Both need a model of the connection around the
  reducer.

## 5. Proofs

All for every value of the constants that the assumptions of their module admit.

| Module | Theorem | Property |
|---|---|---|
| `PathStateMachineProofs` | `TypeCorrect` | `TypeOK` |
| | `ReducerNeverRefuses` | `ReducerClosed` |
| | `DirectProofCarriesTraffic` | `CommittedIffActive` |
| | `FencesOnlyAdvance` | `FencesAdvance` |
| | `OneStartupWindow` | `WindowNeverRearmed` |
| | `ProofNeverAltered` | `CommittedProofIsStable`, if no legacy caller asks for the state Direct |
| | `ReplaysAreHarmless` | `ReplayHidesNoPath`, if legacy callers ask for Connecting and Relay only |
| | `RelayOutlivesDirectWork` | `DirectWorkKeepsRelay`, if legacy callers ask for Connecting and Relay only |
| `SignalDeliveryProofs` | `DeliveryTypes` | `TypeOK` |
| | `NoneIsLost` | `NoneLost` |
| | `SendOrder` | `InSendOrder` |
| | `OneAtATime` | `OneDeliveryAtATime` |
| | `ReleaseSparesLanes` | `ReleaseSparesCurrentLane` |
| `WakeupProofs` | `HubIsSound` | `HubSound` |
| | `NoWakeupIsLost` | `NothingSleptThrough` |
| `RegistrationSessionProofs` | `RowStaysCurrent` | `RowIsCurrent` |
| | `RegistrationsOnlyAdvance` | `SessionsAdvance` |
| | `RequestsActUnderTheirLock` | `ActsUnderItsLock` |
| | `SocketStaysCurrent` | `SocketFollowsRow` |
| `PathTelemetryProofs` | `NothingIsForgotten` | `NothingForgotten` |
| | `NothingGoesBack` | `StoredNeverGoesBack` |
| `RelayHubProofs` | `RoutingIsSound` | `RoutingSound` |
| | `SlotsAreExact` | `SlotsBounded` |
| | `CatchUpIsComplete` | `CatchUpSound` |
| | `NobodyIsResurrected` | `NothingResurrected` of the feed |
| | `CreditsAreExact` | `CreditsMatch` and `MemoryBounded` of the send queue |
| | `LimitsAreKept` | `LimitsHold` |
| `DplpmtudProofs` | `BudgetIsAnswered` | `ImplementsDirectBudget` |
| | `ComparisonsHold` | `AnswersAndTokens` |
| `ResponderSessionsProofs` | `KeysOnlyAdvance` | `NeverRolledBack` |
| | `MemoriesAgree` | its inductive invariant |
| | `HandshakesAreSessions` | a handshake of two peers implements the answering end alone |
| | `NoKeyIsOrphaned` | `InstalledKeyIsHeld` |

So every invariant and every action property of a passing run is proved, under the
conditions the table names; only the type invariant of the event loop, which
`LoopReturns` includes, is not. Where a
scenario of a run joins two specifications, the theorem assumes each of them; the
scenarios are the same steps with tighter bounds.

**Path reducer** (`PathConstants`: generations are numbers, sessions are positive,
`None` is none of the values it stands beside; `ProofNeverAltered` adds that
`"Direct"` is not among `CompatStates`, and the production callers of `transition`
ask for Relay and Connecting only). That `reduce` never proposes an invalid state
needs that the state it started from was valid, that a commit and the active path
agree, and that a machine without an epoch has no window. `Good(s)` collects
these, as a predicate of a state. Since every event ends in `Commit`, it is enough
to show once per event that its proposal is `Good` and that `StepAllowed(path,
next)` holds (`CommitPreserves`); `StepAllowed` says what the three action
properties say of a step. Events of one shape share a lemma (`OnlineEdit`,
`DirectWork`, `Rebased`). `Log` is a second invariant for the types of receipts,
observations and the clock.

**What the reducer remembers** (the same, and that legacy callers ask for
Connecting and Relay only: a caller that asked for HolePunching while a relay
carries traffic would leave its receipt behind without the path). A replay is
harmless if what its receipt stands for still holds (`Honest`): for a relay proof,
the relay is proven over the same transport and some path carries traffic or the
startup window still decides which one will; for a Direct proof, that request is
committed. `Commit` drops the receipts that the new state contradicts, but keeps
those of a proven relay, so each event has to show that it does not take the last
path of a proven relay (`standing_kept`), or clears the relay receipts, as
`RelayPathFailed` does. Then a replay proposes the path that is active already
(`CommitRemembers`). The run has no window and one epoch; the theorem covers both.

**Signal delivery** (`QueueConstants`, `DeliveryConstants`: bounds are numbers,
and `None` is no registration). Four things know of a sequence number: the row at
the server, the deliveries under way, the receipts of applications, and the
tracker's high-water mark. The invariant relates what the daemon works on
(`local`) and what it has finished (`marked_up_to`) to the rows. `KeysOK` and
`NamesOK` are about the tables and about names of signals that exist; `LanesOK`,
`BatchesOK` and `HandsOK` say that a delivery is in the inbox, then in one lane
per sender, and that what an open lane may still acknowledge is in no late request
and no release; `ReceiptsOK` that one application of a signal is tracked;
`TrackerOK` and `LateOK` that what has an outcome, or may still be deleted by a
late acknowledgement, is marked; `PrefixOK` that the rows before a row of a
delivery are in it or gone. `SettledOK` carries `NoneLost` and holds while the
receiver keeps its node id (finding 2 is what happens afterwards); `OrderOK` and
`LeaseOK` carry order and fence, and hold while no row has ended by age (finding
3). A part has a lemma that says what a step has to show to keep it, and an action
has a lemma of its own.

**The WebSocket hub** (`HubConstants`: a socket has one owner, the calls of Notify
are finitely many). The counter is the number of sockets with a running goroutine
(`Slots`), because a handler passes each stage once and its pumps run in one of
them (`Life`). A map entry names a socket of its own device (`Owners`), so a
teardown, which looks at that entry only, cannot take another device's. A client's
frame numbers count the calls that took one (`Numbered`).

**Wake-ups** (`WakeupConstants`: the sockets a daemon may open have one owner).
`Linked` ties the daemon's socket to the hub: a ready link is pumping, and while
it stands it is the one in the map. The heart is `Covered`: while the link is calm
and no wake-up waits, a row whose notifying has begun is read, or it goes to this
link with a number above the last one read, and once its call has returned a frame
with such a number is still to come. That is why a frame that is dropped because
the channel is full, or skipped as overtaken, costs nothing. **Long poll**
(`PollConstants`): the version is the number of posts that have been notified
(`NotifierOK`), so a poll that sleeps at the current version sleeps over rows not
yet notified, or freed by the end of a lease (`Sleeps`).

**Registration** (`SessionConstants`: incarnations are distinct). `Inv` is about
what the fences of the transactions achieve, also for a first registration: `Told`
bounds what a process was answered by the row, `Asked` says that a request to go
offline carries a sequence that asked. `Guarded` is about what the lock adds: only
its holder is between check and answer, so what a holder read of the row still
holds. It needs the row to exist from the start (`enrolled`), since a first
registration takes no lock; `EnrolmentIsSettled` says that this condition does not
change on the way.

**Telemetry** (`TelemetryAssumption`). Observations are ordered lexicographically
by registration, generations and revision, and `accepts` is that order, which is
why `NothingGoesBack` needs little more than that a batch has one observation of a
peer (`OneEach`). For `NothingIsForgotten`: the dirty queue has no peer twice and
stays in its limit (`QueueKept`), a snapshot is the last commit
(`SnapshotsCurrent`), every peer on its way through the hub has one (`Known`), and
what a served POST carried is recorded, or something newer (`ServedIsRecorded`).
The last is of use while no socket has been opened: a socket's acknowledgement
says nothing (finding 4).

**Relay hub** (`RelayConstants`). `RoutingSound` becomes inductive with `LifeOK`:
a sweep only marks what is routed, so a connection not yet published is not
revoked; and `done` is closed after the connection has left the hub. `LateOK` says
where the late frames of a swept peer come from: the one its writer holds, which
stops at its next look at the flag, and the one its handler writes in the step in
which it begins to leave. `SweptOK`: a swept peer whose socket is open is one the
poller has yet to close. `SlotsExact` ties the counter to the
set of handlers that run; three lemmas say what a step does to that set.

**Revocation feed** (`FeedAssumption`: a page holds a row). Rows have distinct
numbers up to the revision (`LedgerOK`), the cursor is behind the version, and a
catch-up aims at that version (`CursorsOK`). A page is the first rows of those
wanted; that its end has passed none of them needs a least number to exist
(`Least`, from the well-foundedness of the naturals). An answer on its way is
acceptable and tells every live row between the cursor and its end (`AnswerOK`),
also if rows are added, expire or are pruned before it arrives.

**Send queue** (`QueueAssumption`). What the frames of a queue weigh is the size
of a set of cells, so `AppendAdds` and `TailTakes` follow from unions and
bijections and no recursion is needed. Credits are exact while the writer runs or
the peer is not revoked (`CreditsExact`); a writer that finds its peer revoked
keeps the credit of one frame, and then nothing is admitted. That data alone never
costs a peer a control frame rests on the last frame of the queue
(`RoomBehindData`): if it is data it was admitted with the reserve to spare.
That one source leaves another a slot rests on the limit of a source, half the
slots, being below what data may take of them (`SourceLeavesSlots`). Neither
assumes anything of the frames' sizes; the conditions under which the promises
make sense (slots are reserved, there are two of them, the control frame fits the
reserve, the bytes allow the data frame) are part of the properties.

**MTU discovery** (`SizesAssumption`). The refinement: every function of the
reducer but `ProbeAcked` keeps the budget or drops it (`Keeps`), and a disabled
machine holds nothing that a later step could make usable (`Consistent`). Probes,
planned, sent or answered, are sizes of paths the peer has committed. So a step
withdraws, or handles an answer to a probe of the installed path; both are steps
of `DirectBudget`. That answers count and old tokens are inert is a second
invariant. An answer to the outstanding probe is of use because what is
outstanding or pending is between the confirmed size and the bound (`Wanted`,
`OnCourse`); a token of before a change is inert because the change took a
revision no token carries. Revisions come from a pool in the model, and
`RevsAssumption` says that it holds a free one; in the program they are a counter.

**Handshake keys** (`TokensAssumption`, `GracesAssumption`: a cached answer is not
kept longer than the memory of its token). That an old key cannot become active
again depends on three memories, none of which suffices alone: the timestamp
floor, the answer cache and the remembered tokens. `Floored`: no key, answer or
offer in hand is newer than the floor. `Remembered`: as long as an answer is
cached, the token it led to is remembered. `EndedForGood`: the newest key ever
active, and every older one the peer has installed, is not pending, and while its
answer can be served again its token is terminal. `FreshIsNew` and
`NewAfterRetired`: what is admitted without a cached answer, and whatever is left
when no key is active, is newer than every key that was. Together with the types
they are `Inv`, which is also what `MemoriesAgree` states.

**Both ends of a handshake** (`TimeoutsAssumption`: an initiation is given up
before a key staged for it expires; 60 s each in the program, 45 s for a rekey).
`HandshakesAreSessions` makes the above available: every step of the two peers is
a step of the answering end or leaves it alone. `InOrder`: an initiator's
transactions follow each other, and the floor is between them. `Backed`: a key
that the initiator waits for and that has been answered is held at the other end
at least as long as it may wait, and a key it has just installed is held.

Model-checked only: the liveness properties (`StandbyRelayTakesOver`,
`SocketsEnd`, `EveryRowIsPolled`, `PollsEnd`, `ConnectionsEnd`,
`RevocationsArrive`, `NewestProcessTakesOver`, `LatestIsStoredOverHttp`,
`EverySignalSettles`, `BudgetSettlesEverywhere`, `LoopReturns`, `EndsAgree`),
since liveness under fairness and `ENABLED` are outside the prover's reach, and
with them the event loop, of which `LoopReturns` is the only property that holds.

## 6. Not modelled

Payloads, formats, logging, round-trip times and attempt numbers: no decision of
the modelled parts depends on them, or the modelled parts only become more
permissive without them. In the path reducer the revision check of `commit` is
left out, because reduce and commit share a guard. In the signal queue: the
legacy poll that deletes on reading, batch tokens (the daemon sends none), byte
and rate limits, malformed rows. In the delivery: servers without leases. In the
WebSocket hub: presence pings, the upgrade, the codec. In registration: deletion
and transfer of a device, rows without an incarnation. In the relay: ticket
parsing, the failure limiter, statistics, and pongs and repeated registrations,
which a read loop answers through the queue as it does a frame for an unknown
peer. In telemetry: observations without an epoch (section 4), and the
rejection of single observations of a batch, of a peer that has left the network
(server/database/path_telemetry.go:267-281): they are acknowledged and not
recorded. In MTU discovery: eviction at 256 peers, padding. In the event loop: the handshake
arbiter, every wait for which has a limit; locks of one kind of task; channel capacities; what events change
beyond the locks that follow; a retry is a new start. In the handshakes: the
initiator's previous key, the reset after a restart of the peer
(incarnation.rs), the Probe bindings' own state beside their outcome, tokens that
were promoted and await their acknowledgement, offers without a session id,
expiry of a session by age (180 s, longer than every grace), the replay window,
and cryptography; `answer_committed` is written and never read. With two tokens
and `MaxPending = 2` the pending keys are never full; the proofs cover it.

The components without a module are in `PROJECT.json` with the reason. Most of
the repository's lines are there: probing strategy and NAT measurement, whose
results are facts about networks; packet I/O and platform code; user interfaces;
and request-scoped queries. What the modelled parts take from them is an input
that may come at any time.

## 7. Plan

1. Handshakes: the reset after a restart of the peer, Probe bindings, and the
   replay window as a pure algorithm against a reference definition.
2. The connection around the reducer: network generation of the manager,
   endpoint side effects, the business gate of the outbound queue.
3. An abstract delivery, "each signal is settled once and in order", that
   `SignalDelivery` implements under a refinement mapping; a run with two senders
   of which one is stuck.
4. `ProbeBudget` and candidate refresh.
5. Proofs: a lock of the event loop has one owner, as an invariant of its queues;
   the abstract delivery of item 3 as a refinement; with the models of items 1, 2
   and 4 the theorems about them.
