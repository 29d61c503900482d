------------------------- MODULE PathStateMachine -------------------------
(***************************************************************************)
(* The generation-safe path reducer of one peer                            *)
(* (client/daemon/src/peer/path_state_machine.rs).                         *)
(*                                                                         *)
(* Every path change of a peer is a typed event.  reduce() checks the      *)
(* event against three fences (network generation, peer session, remote    *)
(* candidate epoch) and against the concrete Direct or Relay identity,     *)
(* computes the next state, re-checks it with state_is_valid and           *)
(* suppresses replays it holds a receipt for; commit() installs it.  Both  *)
(* run under the connection's writer guard (commit_path_transition), so    *)
(* one event is one step here.                                             *)
(*                                                                         *)
(* An event a fence refuses leaves the machine as it is: its action is     *)
(* simply not enabled.  Left out: the revision and the count of rejected   *)
(* events (reduce and commit are one step, so the revision always          *)
(* matches), attempt numbers (no decision reads them), wording and logs.   *)
(***************************************************************************)
EXTENDS Integers, Sequences

CONSTANTS
    NetworkGenerations,   \* local network generations
    SessionGenerations,   \* generations of the peer's online sessions
    CandidateEpochs,      \* remote candidate epochs
    RelayEndpoints,       \* addresses of relay servers
    Incarnations,         \* process-local ids of relay connections
    Owners,               \* tokens of daemon-owned validation workers
    Requests,             \* ids of encrypted validation requests
    DirectEndpoints,      \* UDP endpoints of the remote peer
    HealthTokens,         \* identities of relay health samples
    Retentions,           \* the PathRetention values events may carry
    CompatStates,         \* the states legacy callers of transition() ask for
    None,                 \* Option::None
    DirectFirstWindow,    \* DIRECT_FIRST_WINDOW, in ticks
    MaxNow,               \* bound on the clock
    MaxAcceptedHealthObservations

ConnectionStates == {"Idle", "Connecting", "HolePunching", "Direct",
                     "FallbackToRelay", "Relay", "Failed", "Closed"}

PathRetentions == {"None", "Direct", "Relay", "DirectAndRelay"}

PathEpoch == [net: NetworkGenerations,
              session: SessionGenerations \cup {0},
              cand: CandidateEpochs]

\* One startup window: a fixed deadline and a one-way latch.
Windows == [deadline: Nat, released: BOOLEAN]

ASSUME PathConstants ==
    /\ NetworkGenerations \subseteq Nat
    /\ SessionGenerations \subseteq Nat \ {0}
    /\ CandidateEpochs \subseteq Nat
    /\ Incarnations \subseteq Nat
    /\ None \notin Owners \cup Requests \cup DirectEndpoints
    /\ None \notin PathEpoch /\ None \notin Windows
    /\ None \notin {"Direct", "Relay"}
    /\ Retentions \subseteq PathRetentions
    /\ CompatStates \subseteq ConnectionStates
    /\ DirectFirstWindow \in Nat \ {0}
    /\ MaxNow \in Nat
    /\ MaxAcceptedHealthObservations \in Nat \ {0}

VARIABLES
    path,          \* PathState
    receipts,      \* accepted_event_receipts
    observations,  \* accepted_observations
    now,           \* the monotonic clock
    suppressed     \* history: why an event that passed its fences was dropped

vars == <<path, receipts, observations, now, suppressed>>

-----------------------------------------------------------------------------
(* Identities.                                                             *)

\* The session generation of an epoch no session has been bound to.
UNBOUND == 0

\* Membership events carry the generation of a session that exists.
BoundEpoch == {e \in PathEpoch : e.session # UNBOUND}

\* One local relay transport publication; inc = None is CompatibilityUnknown.
RelayConnectionIdentity ==
    [epoch: PathEpoch, endpoint: RelayEndpoints, inc: Incarnations \cup {None}]

\* One encrypted Direct validation.  target is where the request was sent;
\* endpoint is what the evidence proves, which a NAT may have changed.
DirectValidationIdentity ==
    [epoch: PathEpoch, owner: Owners \cup {None}, request: Requests \cup {None},
     target: DirectEndpoints,
     evidence: {"RequestPending", "AuthenticatedAck", "Compatibility"},
     endpoint: DirectEndpoints \cup {None}]

owned(e, o, q, t) ==
    [epoch |-> e, owner |-> o, request |-> q, target |-> t,
     evidence |-> "RequestPending", endpoint |-> None]

authenticated_ack(e, o, q, t, d) ==
    [epoch |-> e, owner |-> o, request |-> q, target |-> t,
     evidence |-> "AuthenticatedAck", endpoint |-> d]

compatibility(e, d) ==
    [epoch |-> e, owner |-> None, request |-> None, target |-> d,
     evidence |-> "Compatibility", endpoint |-> d]

can_start_validation(v) == v.evidence = "RequestPending"

can_commit(v) ==
    \/ v.owner # None /\ v.evidence = "AuthenticatedAck"
    \/ v.owner = None /\ v.evidence = "Compatibility"

same_validation_request(v, w) ==
    /\ v.epoch = w.epoch
    /\ v.owner = w.owner
    /\ v.request = w.request
    /\ v.target = w.target

same_transport(r, q) == r.endpoint = q.endpoint /\ r.inc = q.inc

rejects_ready_replacement(current, incoming) ==
    /\ current.inc # None
    /\ \/ incoming.inc = None
       \/ incoming.inc < current.inc
       \/ incoming.inc = current.inc /\ incoming.endpoint # current.endpoint

with_epoch(id, e) == [id EXCEPT !.epoch = e]

-----------------------------------------------------------------------------
(* PathState: the sum types of the source as records with a kind.          *)

Unavailable == [kind |-> "Unavailable", id |-> None]
OnRelay(r)  == [kind |-> "Relay", id |-> r]
OnDirect(v) == [kind |-> "Direct", id |-> v]

Ready(r)     == [kind |-> "Ready", id |-> r]
Confirmed(r) == [kind |-> "Confirmed", id |-> r]
Usable(r)    == [kind |-> "Usable", id |-> r]

Idle          == [kind |-> "Idle", id |-> None]
Probing(e)    == [kind |-> "Probing", id |-> [epoch |-> e]]
Validating(v) == [kind |-> "Validating", id |-> v]
Committed(v)  == [kind |-> "Committed", id |-> v]

Stable == [kind |-> "Stable", epoch |-> None, from |-> None, fallback |-> None]
Degraded(e, from, fallback) ==
    [kind |-> "Degraded", epoch |-> e, from |-> from, fallback |-> fallback]
Recovering(e) ==
    [kind |-> "Recovering", epoch |-> e, from |-> None, fallback |-> None]

is_confirmed(relay) == relay.kind \in {"Confirmed", "Usable"}

\* The active path a proven relay offers: itself, or nothing.
relay_or_unavailable(relay) ==
    IF is_confirmed(relay) THEN OnRelay(relay.id) ELSE Unavailable

relay_with_epoch(relay, e) ==
    IF relay.kind = "Unavailable" THEN relay
    ELSE [relay EXCEPT !.id = with_epoch(relay.id, e)]

\* Mutant: the restamped proof forgets whose request it answered.
restamp_without_owner(direct, e) ==
    IF direct.kind = "Committed"
    THEN Committed(compatibility(e, direct.id.endpoint)) ELSE Idle

with_epoch_if_committed(direct, e) ==
    IF direct.kind = "Committed" THEN Committed(with_epoch(direct.id, e)) ELSE Idle

network_path(active) == IF active.kind = "Unavailable" THEN None ELSE active.kind

keeps_direct(retained) == retained \in {"Direct", "DirectAndRelay"}
keeps_relay(retained)  == retained \in {"Relay", "DirectAndRelay"}

direct_first_pending(s) == s.direct_first # None /\ ~s.direct_first.released

direct_first_deadline_due(s) ==
    direct_first_pending(s) /\ now >= s.direct_first.deadline

release(window) == IF window = None THEN None ELSE [window EXCEPT !.released = TRUE]

fresh_state(lifecycle, epoch) ==
    [direct_first |-> None, lifecycle |-> lifecycle, epoch |-> epoch,
     active |-> Unavailable, relay |-> Unavailable, direct |-> Idle,
     recovery |-> Stable, compat |-> "Idle"]

unbound_state == fresh_state("Unbound", None)

\* What PeerLeft and a Closed request leave of a state.
offline(s) ==
    [s EXCEPT !.lifecycle = "Offline", !.active = Unavailable, !.relay = Unavailable,
              !.direct = Idle, !.recovery = Stable, !.compat = "Closed"]

state_is_valid(s) ==
    /\ ~(direct_first_pending(s) /\ s.active.kind = "Relay")
    /\ s.lifecycle = "Unbound" =>
          /\ s.epoch = None
          /\ s.active = Unavailable
          /\ s.relay = Unavailable
          /\ s.direct = Idle
    /\ s.lifecycle = "Offline" =>
          /\ s.active = Unavailable
          /\ s.relay = Unavailable
          /\ s.direct = Idle
          /\ s.recovery = Stable
          /\ s.compat = "Closed"
    /\ s.lifecycle = "Online" =>
          /\ s.epoch # None
          /\ s.relay.kind # "Unavailable" => s.relay.id.epoch = s.epoch
          /\ s.direct.kind # "Idle" => s.direct.id.epoch = s.epoch
          /\ s.recovery.kind # "Stable" => s.recovery.epoch = s.epoch
          /\ s.active.kind = "Unavailable" => s.compat \notin {"Direct", "Relay"}
          /\ s.active.kind = "Direct" =>
                s.compat = "Direct" /\ s.direct = Committed(s.active.id)
          /\ s.active.kind = "Relay" =>
                /\ s.compat = "Relay"
                /\ is_confirmed(s.relay)
                /\ s.relay.id = s.active.id

\* validate_exact_epoch and validate_bound_epoch.
exact_epoch(s, e) == s.lifecycle = "Online" /\ s.epoch = e
bound_epoch(s, e) == s.epoch # None /\ s.epoch = e

-----------------------------------------------------------------------------
(* Receipts: the replays reduce() recognises.                              *)

Receipt(type, epoch, id, note) ==
    [type |-> type, epoch |-> epoch, id |-> id, note |-> note]

is_relay_receipt(r) == r.type \in {"RelayPeerConfirmed", "RelayBusiness"}

\* Mutant: a receipt is only dropped with its epoch.
remains_current_in_epoch(r, s) == s.epoch = r.epoch

remains_current(r, s) ==
    /\ s.epoch = r.epoch
    /\ r.type = "RelayPeerConfirmed" =>
          is_confirmed(s.relay) /\ same_transport(s.relay.id, r.id)
    /\ r.type = "RelayBusiness" =>
          s.relay.kind = "Usable" /\ same_transport(s.relay.id, r.id)
    /\ r.type = "DirectCommitted" => s.direct = Committed(r.id)

\* Mutant: the oldest observation is not dropped.
push_unbounded(q, x) == Append(q, x)

\* push_back, then drop the oldest while the queue is over its limit.
push_bounded(q, x) ==
    LET longer == Append(q, x)
    IN  IF Len(longer) > MaxAcceptedHealthObservations THEN Tail(longer) ELSE longer

(***************************************************************************)
(* The end of reduce() and commit() for an event whose fences passed.      *)
(* receipt and observation are the event's own, or None; clear is TRUE for *)
(* RelayPathFailed, which forgets every relay receipt.  The history        *)
(* variable records an event dropped after its fences passed: "illegal"    *)
(* when state_is_valid refused the result, "duplicate" when the replay     *)
(* would have changed the active path.                                     *)
(***************************************************************************)
Commit(next, receipt, observation, clear) ==
    LET legal   == state_is_valid(next)
        replay  == \/ receipt # None /\ receipt \in receipts
                   \/ observation # None
                      /\ \E i \in DOMAIN observations : observations[i] = observation
        applies == legal /\ ~replay
        cleared == {r \in receipts : clear => ~is_relay_receipt(r)}
        kept    == {r \in cleared : next # path => remains_current(r, next)}
    IN  /\ path' = IF applies THEN next ELSE path
        /\ receipts' = IF ~applies THEN receipts
                       ELSE kept \cup ({receipt} \ {None})
        /\ observations' = IF applies /\ observation # None
                           THEN push_bounded(observations, observation)
                           ELSE observations
        /\ suppressed' = suppressed
              \cup {x \in {"illegal"} : ~legal}
              \cup {x \in {"duplicate"} : legal /\ replay /\ next.active # path.active}
        /\ UNCHANGED now

\* An event without receipt or observation.
CommitPlain(next) == Commit(next, None, None, FALSE)

-----------------------------------------------------------------------------
(* The direct-first startup window.                                        *)

\* Mutant: a released window is armed again.
DirectFirstStarted_rearming(e) ==
    /\ exact_epoch(path, e)
    /\ now + DirectFirstWindow <= MaxNow
    /\ CommitPlain(
          IF direct_first_pending(path) THEN path
          ELSE [path EXCEPT !.direct_first =
                   [deadline |-> now + DirectFirstWindow,
                    released |-> path.active.kind # "Unavailable"]])

DirectFirstStarted(e) ==
    /\ exact_epoch(path, e)
    /\ now + DirectFirstWindow <= MaxNow   \* bound: the deadline can be reached
    /\ CommitPlain(
          IF path.direct_first # None THEN path
          ELSE [path EXCEPT !.direct_first =
                   [deadline |-> now + DirectFirstWindow,
                    released |-> path.active.kind # "Unavailable"]])

\* Mutant: the deadline releases the window and selects nothing.
DirectFirstDeadline_releasing_only(e) ==
    /\ exact_epoch(path, e)
    /\ direct_first_deadline_due(path)
    /\ CommitPlain([path EXCEPT !.direct_first = release(path.direct_first)])

\* The scheduler only raises the event once the deadline is due.
DirectFirstDeadline(e) ==
    /\ exact_epoch(path, e)
    /\ direct_first_deadline_due(path)
    /\ LET released == [path EXCEPT !.direct_first = release(path.direct_first)]
       IN  CommitPlain(
              IF path.active.kind # "Direct" /\ is_confirmed(path.relay)
              THEN [released EXCEPT !.active = OnRelay(path.relay.id), !.compat = "Relay"]
              ELSE released)

DirectFirstSatisfied(v) ==
    /\ exact_epoch(path, v.epoch)
    /\ path.active = OnDirect(v)
    /\ path.direct = Committed(v)
    /\ CommitPlain([path EXCEPT !.direct_first = release(path.direct_first)])

-----------------------------------------------------------------------------
(* Lifecycle and epoch changes.                                            *)

IdentityReset == CommitPlain(unbound_state)

\* Mutant: any other session replaces the current one, an older one too.
PeerOnline_any_session(e) ==
    LET newer == path.epoch # None => e.session # path.epoch.session
    IN  /\ ~newer => path.lifecycle # "Offline" /\ e = path.epoch
        /\ Commit(IF newer THEN fresh_state("Online", e) ELSE path,
                  Receipt("PeerOnline", e, None, None), None, FALSE)

\* A replay in the current session changes nothing; a newer session starts
\* from nothing; an offline session is never revived.
PeerOnline(e) ==
    LET newer == path.epoch # None => e.session > path.epoch.session
    IN  /\ ~newer => path.lifecycle # "Offline" /\ e = path.epoch
        /\ Commit(IF newer THEN fresh_state("Online", e) ELSE path,
                  Receipt("PeerOnline", e, None, None), None, FALSE)

PeerLeft(e) ==
    /\ \/ path.lifecycle = "Unbound"
       \/ path.epoch = e
       \/ path.lifecycle = "Online" /\ e.session > path.epoch.session
    /\ CommitPlain([offline(path) EXCEPT !.epoch = e])

set_projection_after_epoch_change(s, previous, e) ==
    LET current == network_path(s.active)
        dropped == current = None /\ previous # None
    IN  [s EXCEPT !.recovery = IF dropped THEN Degraded(e, previous, None) ELSE Stable,
                  !.compat = IF current # None THEN current
                             ELSE IF dropped THEN "FallbackToRelay"
                             ELSE s.compat]

\* Mutant: the fallback ignores the startup window.
rebased_into_window(e, relay, direct) ==
    set_projection_after_epoch_change(
        [path EXCEPT !.epoch = e, !.relay = relay, !.direct = direct,
                     !.active = CASE path.active.kind = "Unavailable" -> Unavailable
                                  [] path.active.kind = "Direct"
                                     /\ direct.kind = "Committed" -> OnDirect(direct.id)
                                  [] OTHER -> relay_or_unavailable(relay)],
        network_path(path.active), e)

\* The state under epoch e when direct and relay are what survived of it.
rebased(e, relay, direct) ==
    LET fallback == relay_or_unavailable(relay)
        kept == CASE path.active.kind = "Unavailable" -> Unavailable
                  [] path.active.kind = "Direct" /\ direct.kind = "Committed" ->
                        OnDirect(direct.id)
                  [] OTHER -> fallback
        active == IF direct_first_pending(path) /\ kept.kind = "Relay"
                  THEN Unavailable ELSE kept
    IN  set_projection_after_epoch_change(
            [path EXCEPT !.epoch = e, !.relay = relay, !.direct = direct,
                         !.active = active],
            network_path(path.active), e)

network_advance(e, retained) ==
    LET s == rebased(e,
                IF keeps_relay(retained) THEN relay_with_epoch(path.relay, e)
                ELSE Unavailable,
                IF keeps_direct(retained) THEN with_epoch_if_committed(path.direct, e)
                ELSE Idle)
    IN  IF path.active.kind = "Direct" /\ s.active.kind = "Relay"
        THEN [s EXCEPT !.recovery = Degraded(e, "Direct", "Relay")]
        ELSE s

NetworkGenerationAdvanced(e, retained) ==
    /\ path.lifecycle = "Online"
    /\ e.session = path.epoch.session
    /\ e.net >= path.epoch.net
    /\ e.cand = path.epoch.cand
    /\ Commit(IF e = path.epoch THEN path ELSE network_advance(e, retained),
              Receipt("NetworkGenerationAdvanced", e, None, retained), None, FALSE)

\* Relay delivery survives a candidate refresh; Direct only when the exact
\* encrypted transport is retained.
RemoteCandidateEpochAdvanced(e, retain) ==
    /\ path.lifecycle = "Online"
    /\ e.session = path.epoch.session
    /\ e.net = path.epoch.net
    /\ e.cand >= path.epoch.cand
    /\ CommitPlain(
          IF e = path.epoch THEN path
          ELSE rebased(e, relay_with_epoch(path.relay, e),
                       IF retain THEN with_epoch_if_committed(path.direct, e) ELSE Idle))

-----------------------------------------------------------------------------
(* Relay events.                                                           *)

active_relay_is(r) == path.active.kind = "Relay" /\ same_transport(path.active.id, r)

\* The active relay goes away and nothing replaces it yet.
relay_degraded(s, e) ==
    [s EXCEPT !.active = Unavailable, !.recovery = Degraded(e, "Relay", None),
              !.compat = "FallbackToRelay"]

\* Mutant: a replaced transport keeps the active path of the old one.
RelayTransportReady_keeping_active(r) ==
    /\ exact_epoch(path, r.epoch)
    /\ path.relay.kind # "Unavailable" => ~rejects_ready_replacement(path.relay.id, r)
    /\ CommitPlain(
          IF is_confirmed(path.relay) /\ same_transport(path.relay.id, r) THEN path
          ELSE [path EXCEPT !.relay = Ready(r)])

RelayTransportReady(r) ==
    LET up == path.relay.kind # "Unavailable"
        ready == [path EXCEPT !.relay = Ready(r)]
    IN  /\ exact_epoch(path, r.epoch)
        /\ up => ~rejects_ready_replacement(path.relay.id, r)
        /\ CommitPlain(
              IF is_confirmed(path.relay) /\ same_transport(path.relay.id, r) THEN path
              ELSE IF path.active.kind = "Relay" /\ ~active_relay_is(r)
                   THEN relay_degraded(ready, path.epoch)
              ELSE ready)

\* Relay may only carry business when Direct does not and the startup window
\* is over.
relay_selectable == path.active.kind # "Direct" /\ ~direct_first_pending(path)

RelayPeerConfirmed(r) ==
    LET up == path.relay.kind # "Unavailable"
        proven == [path EXCEPT !.relay =
                      IF path.relay.kind = "Usable" THEN Usable(r) ELSE Confirmed(r)]
    IN  /\ exact_epoch(path, r.epoch)
        /\ up => same_transport(path.relay.id, r)
        /\ Commit(
              IF ~relay_selectable THEN proven
              ELSE [proven EXCEPT
                      !.active = OnRelay(r), !.compat = "Relay",
                      !.recovery = IF path.direct.kind \in {"Probing", "Validating"}
                                   THEN path.recovery ELSE Stable],
              Receipt("RelayPeerConfirmed", r.epoch, r, None), None, FALSE)

RelayBusinessUsable(r, direction) ==
    LET usable == [path EXCEPT !.relay = Usable(r)]
    IN  /\ exact_epoch(path, r.epoch)
        /\ is_confirmed(path.relay)
        /\ same_transport(path.relay.id, r)
        /\ Commit(
              IF ~relay_selectable THEN usable
              ELSE [usable EXCEPT !.active = OnRelay(r), !.compat = "Relay"],
              Receipt("RelayBusiness", r.epoch, r, direction), None, FALSE)

RelayHealthObserved(r, token) ==
    /\ exact_epoch(path, r.epoch)
    /\ is_confirmed(path.relay)
    /\ same_transport(path.relay.id, r)
    /\ Commit(path, None, [relay |-> r, token |-> token], FALSE)

RelayTransportLost(r) ==
    /\ bound_epoch(path, r.epoch)
    /\ path.relay.kind # "Unavailable" => same_transport(path.relay.id, r)
    /\ LET gone == [path EXCEPT !.relay = Unavailable]
       IN  CommitPlain(IF path.relay.kind = "Unavailable" THEN path
                       ELSE IF active_relay_is(r) THEN relay_degraded(gone, r.epoch)
                       ELSE gone)

\* Mutant: the relay receipts survive the failure of the path.
RelayPathFailed_keeping_receipts(r) ==
    /\ exact_epoch(path, r.epoch)
    /\ is_confirmed(path.relay) => same_transport(path.relay.id, r)
    /\ CommitPlain(IF is_confirmed(path.relay) /\ active_relay_is(r)
                   THEN relay_degraded(path, r.epoch) ELSE path)

\* The transport stays, its delivery proof stays, the active path goes: only
\* because the relay receipts are cleared can the next confirmation bring the
\* path back.
RelayPathFailed(r) ==
    /\ exact_epoch(path, r.epoch)
    /\ is_confirmed(path.relay) => same_transport(path.relay.id, r)
    /\ Commit(IF is_confirmed(path.relay) /\ active_relay_is(r)
              THEN relay_degraded(path, r.epoch) ELSE path,
              None, None, TRUE)

-----------------------------------------------------------------------------
(* Direct events.                                                          *)

\* Direct work shows as HolePunching unless some path already carries traffic.
punching(s) == [s EXCEPT !.compat = IF s.active.kind = "Unavailable"
                                    THEN "HolePunching" ELSE s.compat]

\* DirectProbeStarted and DirectRetryScheduled.
DirectProbeStarted(e) ==
    /\ exact_epoch(path, e)
    /\ CommitPlain(
          IF path.direct.kind \in {"Validating", "Committed"} THEN path
          ELSE punching([path EXCEPT !.direct = Probing(e), !.recovery = Recovering(e)]))

DirectValidationStarted(v) ==
    /\ exact_epoch(path, v.epoch)
    /\ can_start_validation(v)
    /\ path.direct.kind = "Committed" => same_validation_request(path.direct.id, v)
    /\ path.direct.kind = "Validating" => path.direct.id.owner = v.owner
    /\ CommitPlain(
          IF path.direct.kind = "Committed" THEN path
          ELSE punching([path EXCEPT !.direct = Validating(v),
                                     !.recovery = Recovering(v.epoch)]))

\* Mutant: a second answer to the committed request replaces the commit.
DirectCommitted_replacing(v) ==
    /\ exact_epoch(path, v.epoch)
    /\ can_commit(v)
    /\ path.direct.kind \in {"Validating", "Committed"} =>
          same_validation_request(path.direct.id, v)
    /\ path.direct.kind \in {"Idle", "Probing"} => v.owner = None
    /\ Commit([path EXCEPT !.direct = Committed(v), !.active = OnDirect(v),
                           !.recovery = Stable, !.compat = "Direct"],
              Receipt("DirectCommitted", v.epoch, v, None), None, FALSE)

\* A second proof of the committed request keeps the first commit; only one
\* compatibility commit may replace another.
DirectCommitted(v) ==
    LET repeated == /\ path.direct.kind = "Committed"
                    /\ \/ path.direct.id = v
                       \/ same_validation_request(path.direct.id, v)
    IN  /\ exact_epoch(path, v.epoch)
        /\ can_commit(v)
        /\ \/ /\ path.direct.kind = "Validating"
              /\ same_validation_request(path.direct.id, v)
           \/ repeated
           \/ /\ path.direct.kind = "Committed"
              /\ path.direct.id.owner = None
              /\ v.owner = None
           \/ /\ path.direct.kind \in {"Idle", "Probing"}
              /\ v.owner = None
        /\ Commit(IF repeated THEN path
                  ELSE [path EXCEPT !.direct = Committed(v), !.active = OnDirect(v),
                                    !.recovery = Stable, !.compat = "Direct"],
                  Receipt("DirectCommitted", v.epoch, v, None), None, FALSE)

\* Failed Direct work never touches a relay that carries traffic.
direct_failed(s, e) ==
    IF s.active.kind = "Relay"
    THEN [s EXCEPT !.direct = Idle, !.recovery = Recovering(e), !.compat = "Relay"]
    ELSE [s EXCEPT !.direct = Idle, !.recovery = Degraded(e, "Direct", None),
                   !.compat = "FallbackToRelay"]

DirectProbeFailed(e) ==
    /\ exact_epoch(path, e)
    /\ CommitPlain(IF path.direct.kind = "Committed" THEN path ELSE direct_failed(path, e))

\* Mutant: the failed commit is not reset.
DirectPathFailed_keeping_commit(e) ==
    LET fallback == IF direct_first_pending(path) THEN Unavailable
                    ELSE relay_or_unavailable(path.relay)
    IN  /\ exact_epoch(path, e)
        /\ CommitPlain(
              IF path.active.kind # "Direct" THEN direct_failed(path, e)
              ELSE [path EXCEPT
                      !.active = fallback,
                      !.recovery = Degraded(e, "Direct", network_path(fallback)),
                      !.compat = IF fallback = Unavailable THEN "FallbackToRelay"
                                 ELSE "Relay"])

\* Mutant: the failure resets the relay together with Direct.
DirectPathFailed_resetting_relay(e) ==
    /\ exact_epoch(path, e)
    /\ CommitPlain(
          IF path.active.kind # "Direct" THEN direct_failed(path, e)
          ELSE [path EXCEPT !.direct = Idle, !.active = Unavailable,
                            !.relay = Unavailable,
                            !.recovery = Degraded(e, "Direct", None),
                            !.compat = "FallbackToRelay"])

\* An active Direct path falls back to a proven relay at once, except while
\* the startup window still reserves the first business send for Direct.
DirectPathFailed(e) ==
    LET fallback == IF direct_first_pending(path) THEN Unavailable
                    ELSE relay_or_unavailable(path.relay)
    IN  /\ exact_epoch(path, e)
        /\ CommitPlain(
              IF path.active.kind # "Direct" THEN direct_failed(path, e)
              ELSE [path EXCEPT
                      !.direct = Idle, !.active = fallback,
                      !.recovery = Degraded(e, "Direct", network_path(fallback)),
                      !.compat = IF fallback = Unavailable THEN "FallbackToRelay"
                                 ELSE "Relay"])

DirectAttemptCancelled(e, owner) ==
    /\ exact_epoch(path, e)
    /\ path.direct.kind = "Validating" => path.direct.id.owner = owner
    /\ CommitPlain(
          IF path.direct.kind \in {"Committed", "Idle"} THEN path
          ELSE [path EXCEPT !.direct = Idle, !.recovery = Stable,
                            !.compat = IF path.active.kind = "Unavailable"
                                       THEN "Idle" ELSE path.compat])

-----------------------------------------------------------------------------
(* The compatibility seam: transition(state) of the legacy callers, which  *)
(* asks under the machine's own epoch, or binds an unbound machine.        *)

compat_state(s, e, state, d, r) ==
    LET inactive == [s EXCEPT !.active = Unavailable, !.direct = Idle,
                              !.recovery = Stable, !.compat = state]
    IN  CASE state = "Direct" ->
                [s EXCEPT !.direct = Committed(compatibility(e, d)),
                          !.active = OnDirect(compatibility(e, d)),
                          !.recovery = Stable, !.compat = state]
          [] state = "Relay" ->
                [inactive EXCEPT !.relay = Confirmed(r),
                    !.active = IF direct_first_pending(path) THEN Unavailable
                               ELSE OnRelay(r),
                    !.compat = IF direct_first_pending(path) THEN "Connecting"
                               ELSE state]
          [] state = "HolePunching" ->
                [inactive EXCEPT !.direct = Probing(e), !.recovery = Recovering(e)]
          [] state = "FallbackToRelay" ->
                [inactive EXCEPT !.recovery =
                    Degraded(e, IF s.active.kind = "Relay" THEN "Relay" ELSE "Direct",
                             None)]
          [] state = "Closed" -> offline(s)
          [] OTHER -> inactive

CompatibilityStateRequested(e, state, d, r) ==
    /\ r.epoch = e
    /\ \/ path.lifecycle = "Unbound" /\ e.session = UNBOUND
       \/ exact_epoch(path, e)
    /\ CommitPlain(
          compat_state([path EXCEPT !.lifecycle = "Online", !.epoch = e], e, state, d, r))

\* The handshake marks a peer Connecting only from Idle or Failed.
should_mark_connecting(state) == state \in {"Idle", "Failed"}

TransitionRequested(e, state, d, r) ==
    /\ state \in CompatStates
    /\ state = "Connecting" => should_mark_connecting(path.compat)
    /\ CompatibilityStateRequested(e, state, d, r)

\* Time passes up to the bound of the model.
Tick ==
    /\ now < MaxNow
    /\ now' = now + 1
    /\ UNCHANGED <<path, receipts, observations, suppressed>>

-----------------------------------------------------------------------------
Init ==
    /\ path = unbound_state
    /\ receipts = {}
    /\ observations = <<>>
    /\ now = 0
    /\ suppressed = {}

LifecycleStep ==
    \/ IdentityReset
    \/ \E e \in BoundEpoch : PeerOnline(e) \/ PeerLeft(e)
    \/ \E e \in PathEpoch :
          \/ DirectFirstStarted(e)
          \/ DirectFirstDeadline(e)
          \/ \E retained \in Retentions : NetworkGenerationAdvanced(e, retained)
          \/ \E retain \in BOOLEAN : RemoteCandidateEpochAdvanced(e, retain)

RelayStep ==
    \E r \in RelayConnectionIdentity :
       \/ RelayTransportReady(r)
       \/ RelayPeerConfirmed(r)
       \/ \E direction \in {"Sent", "Received"} : RelayBusinessUsable(r, direction)
       \/ \E token \in HealthTokens : RelayHealthObserved(r, token)
       \/ RelayTransportLost(r)
       \/ RelayPathFailed(r)

\* Direct evidence comes from an owned request, its authenticated answer, or
\* an ownerless compatibility confirmation.
DirectStep ==
    \E e \in PathEpoch :
       \/ DirectProbeStarted(e)
       \/ DirectProbeFailed(e)
       \/ DirectPathFailed(e)
       \/ \E o \in Owners \cup {None} : DirectAttemptCancelled(e, o)
       \/ \E o \in Owners, q \in Requests \cup {None}, t \in DirectEndpoints :
             DirectValidationStarted(owned(e, o, q, t))
       \/ \E o \in Owners, q \in Requests, t, d \in DirectEndpoints :
             LET v == authenticated_ack(e, o, q, t, d)
             IN  DirectCommitted(v) \/ DirectFirstSatisfied(v)
       \/ \E d \in DirectEndpoints :
             LET v == compatibility(e, d)
             IN  DirectCommitted(v) \/ DirectFirstSatisfied(v)

CompatStep ==
    \E r \in RelayConnectionIdentity, state \in CompatStates, d \in DirectEndpoints :
       TransitionRequested(r.epoch, state, d, r)

Next == LifecycleStep \/ RelayStep \/ DirectStep \/ CompatStep \/ Tick

Spec == Init /\ [][Next]_vars

\* The outbound scheduler sleeps until the earliest deadline and then raises
\* the event for the machine's own epoch (network_outbound.rs), and time passes.
FairSpec ==
    /\ Spec
    /\ WF_vars(Tick)
    /\ WF_vars(\E e \in PathEpoch : DirectFirstDeadline(e))

-----------------------------------------------------------------------------
(* Types.                                                                  *)

Paths == {"Direct", "Relay"}

ActiveBusinessPath ==
    {Unavailable} \cup [kind: {"Relay"}, id: RelayConnectionIdentity]
                  \cup [kind: {"Direct"}, id: DirectValidationIdentity]

RelayPathState ==
    {Unavailable} \cup [kind: {"Ready", "Confirmed", "Usable"},
                        id: RelayConnectionIdentity]

DirectPathState ==
    {Idle} \cup [kind: {"Probing"}, id: [epoch: PathEpoch]]
           \cup [kind: {"Validating", "Committed"}, id: DirectValidationIdentity]

PathRecoveryState ==
    {Stable} \cup [kind: {"Recovering"}, epoch: PathEpoch, from: {None},
                   fallback: {None}]
             \cup [kind: {"Degraded"}, epoch: PathEpoch, from: Paths,
                   fallback: {None, "Relay"}]

PathState ==
    [direct_first: {None} \cup Windows,
     lifecycle: {"Unbound", "Online", "Offline"},
     epoch: PathEpoch \cup {None},
     active: ActiveBusinessPath,
     relay: RelayPathState,
     direct: DirectPathState,
     recovery: PathRecoveryState,
     compat: ConnectionStates]

\* Type invariant of the machine's variables.
TypeOK ==
    /\ path \in PathState
    /\ \A r \in receipts : r.epoch \in PathEpoch
    /\ Len(observations) <= MaxAcceptedHealthObservations
    /\ now \in 0..MaxNow
    /\ suppressed \subseteq {"illegal", "duplicate"}

-----------------------------------------------------------------------------
(* Properties.                                                             *)

\* The final state_is_valid check of reduce() is a safety net that never
\* catches anything: an event that passed its fences always yields a state it
\* accepts.  A net that caught one would strand the event's owner, as the
\* comment in set_projection_after_epoch_change tells of a handover that left
\* a cancelled validation behind.
ReducerClosed == "illegal" \notin suppressed

\* A replay reduce() drops as Duplicate would not have changed the active
\* path: no receipt outlives the fact it stands for, so a peer is never kept
\* without a path by its own re-confirmation.
ReplayHidesNoPath == "duplicate" \notin suppressed

\* Direct is proven exactly when it carries traffic: no fallback, handover or
\* refresh leaves a commit behind that the active path has abandoned.
\* state_is_valid checks only one direction of it.
CommittedIffActive ==
    /\ path.direct.kind = "Committed" => path.active = OnDirect(path.direct.id)
    /\ path.active.kind = "Direct" => path.direct = Committed(path.active.id)

\* The fences only move forward: within a machine's identity the session never
\* goes back, and within a session neither the network generation nor the
\* candidate epoch does.
FencesAdvance ==
    [][LET a == path.epoch
           b == path'.epoch
       IN  a # None /\ b # None =>
              \/ b.session > a.session
              \/ b.session = a.session /\ b.net >= a.net /\ b.cand >= a.cand]_vars

\* A peer gets one startup window per session: while the session lasts the
\* deadline does not move and a released window is not armed again, whatever
\* candidate refreshes, handovers and replays arrive.
WindowNeverRearmed ==
    [][LET a == path.direct_first
           b == path'.direct_first
       IN  /\ a # None
           /\ path'.epoch # None
           /\ path'.epoch.session = path.epoch.session
           => b # None /\ b.deadline = a.deadline /\ (a.released => b.released)]_vars

\* Direct work never costs the relay: a step that changes the Direct state
\* without changing epoch or lifecycle keeps a proven relay proven, and a
\* relay that carries traffic either keeps it or hands it to Direct.
DirectWorkKeepsRelay ==
    [][/\ path'.direct # path.direct
       /\ path'.epoch = path.epoch
       /\ path'.lifecycle = "Online"
       /\ is_confirmed(path.relay)
       => /\ is_confirmed(path'.relay)
          /\ path.active.kind = "Relay" => path'.active.kind # "Unavailable"]_vars

\* A proof of a Direct path is restamped by epoch changes but never altered:
\* while Direct stays committed, the owner, the request and the endpoint that
\* was proven stay, except that one ownerless confirmation may replace another.
CommittedProofIsStable ==
    [][/\ path.direct.kind = "Committed"
       /\ path'.direct.kind = "Committed"
       => \/ path'.direct.id = with_epoch(path.direct.id, path'.epoch)
          \/ path.direct.id.owner = None /\ path'.direct.id.owner = None]_vars

\* A relay proven during the startup window takes over when the window closes:
\* the peer cannot sit without a path beside a standby relay for ever.
StandbyRelayTakesOver ==
    (path.lifecycle = "Online" /\ direct_first_pending(path) /\ is_confirmed(path.relay))
       ~> (path.active.kind # "Unavailable" \/ path.lifecycle # "Online"
           \/ ~is_confirmed(path.relay))
=============================================================================
