----------------------- MODULE PathStateMachineProofs -----------------------
(***************************************************************************)
(* Proofs about the path reducer, for every set of generations, owners,    *)
(* endpoints and relay identities.                                         *)
(*                                                                         *)
(* Every event ends in Commit(next, ...), which installs next or keeps     *)
(* path.  So the argument is made once per event about the state it        *)
(* proposes: if path is Good then next is Good and StepAllowed(path, next).*)
(* That one fact gives the invariants, because a Good proposal is never    *)
(* refused, and the action properties, because path' is next or path.      *)
(***************************************************************************)
EXTENDS PathStateMachine, SequenceTheorems, TLAPS

-----------------------------------------------------------------------------
(* The inductive invariant, as a predicate of a state.                     *)

commit_iff_active(s) ==
    /\ s.direct.kind = "Committed" => s.active = OnDirect(s.direct.id)
    /\ s.active.kind = "Direct" => s.direct = Committed(s.active.id)

\* A machine without an epoch has never had a session, hence no window.
unbound_is_fresh(s) ==
    /\ s.epoch = None => s.lifecycle = "Unbound"
    /\ s.lifecycle = "Unbound" => s.direct_first = None

Good(s) ==
    /\ s \in PathState
    /\ state_is_valid(s)
    /\ commit_iff_active(s)
    /\ unbound_is_fresh(s)

\* What a step from s to t may do to the fences, the window and the proof.
fences_advance(s, t) ==
    s.epoch # None /\ t.epoch # None =>
       \/ t.epoch.session > s.epoch.session
       \/ /\ t.epoch.session = s.epoch.session
          /\ t.epoch.net >= s.epoch.net
          /\ t.epoch.cand >= s.epoch.cand

window_kept(s, t) ==
    /\ s.direct_first # None
    /\ t.epoch # None
    /\ t.epoch.session = s.epoch.session
    => /\ t.direct_first # None
       /\ t.direct_first.deadline = s.direct_first.deadline
       /\ s.direct_first.released => t.direct_first.released

\* A legacy caller that asked for Direct would replace a proof; none does.
proof_kept(s, t) ==
    /\ "Direct" \notin CompatStates
    /\ s.direct.kind = "Committed"
    /\ t.direct.kind = "Committed"
    => \/ t.direct.id = with_epoch(s.direct.id, t.epoch)
       \/ s.direct.id.owner = None /\ t.direct.id.owner = None

StepAllowed(s, t) == fences_advance(s, t) /\ window_kept(s, t) /\ proof_kept(s, t)

Inv == Good(path) /\ ReducerClosed

\* What the proofs conclude about one event.
Preserved == Inv' /\ StepAllowed(path, path') /\ now' = now

-----------------------------------------------------------------------------
\* Lemma: epochs are triples of naturals, and None is not one of them.
LEMMA EpochFacts ==
    ASSUME NEW e \in PathEpoch
    PROVE  e # None /\ e.net \in Nat /\ e.session \in Nat /\ e.cand \in Nat
<1>1. e # None
  <2>1. None \notin PathEpoch
    BY PathConstants DEF PathConstants
  <2> QED BY <2>1
<1>2. e.net \in Nat /\ e.session \in Nat /\ e.cand \in Nat
  <2>1. /\ NetworkGenerations \subseteq Nat
        /\ SessionGenerations \subseteq Nat
        /\ CandidateEpochs \subseteq Nat
    BY PathConstants DEF PathConstants
  <2>2. /\ e.net \in NetworkGenerations
        /\ e.session \in SessionGenerations \cup {0}
        /\ e.cand \in CandidateEpochs
    BY DEF PathEpoch
  <2>3. SessionGenerations \cup {0} \subseteq Nat
    BY <2>1
  <2> QED BY <2>1, <2>2, <2>3
<1> QED BY <1>1, <1>2

\* Lemma: the constructors of PathState build values of its fields.
LEMMA Parts ==
    ASSUME NEW e \in PathEpoch
    PROVE  /\ Idle \in DirectPathState
           /\ Probing(e) \in DirectPathState
           /\ Stable \in PathRecoveryState
           /\ Recovering(e) \in PathRecoveryState
           /\ \A from \in Paths, fallback \in {None, "Relay"} :
                 Degraded(e, from, fallback) \in PathRecoveryState
           /\ Unavailable \in ActiveBusinessPath
           /\ Unavailable \in RelayPathState
<1>1. Idle \in DirectPathState /\ Probing(e) \in DirectPathState
  BY DEF DirectPathState, Probing
<1>2. Stable \in PathRecoveryState /\ Recovering(e) \in PathRecoveryState
  BY DEF PathRecoveryState, Recovering
<1>3. ASSUME NEW from \in Paths, NEW fallback \in {None, "Relay"}
      PROVE  Degraded(e, from, fallback) \in PathRecoveryState
  BY DEF PathRecoveryState, Degraded
<1>4. Unavailable \in ActiveBusinessPath /\ Unavailable \in RelayPathState
  BY DEF ActiveBusinessPath, RelayPathState
<1> QED BY <1>1, <1>2, <1>3, <1>4

\* Lemma: the same for the constructors that carry a relay identity.
LEMMA RelayParts ==
    ASSUME NEW r \in RelayConnectionIdentity
    PROVE  /\ OnRelay(r) \in ActiveBusinessPath
           /\ Ready(r) \in RelayPathState
           /\ Confirmed(r) \in RelayPathState
           /\ Usable(r) \in RelayPathState
BY DEF ActiveBusinessPath, RelayPathState, OnRelay, Ready, Confirmed, Usable

\* Lemma: the same for the constructors that carry a Direct identity.
LEMMA DirectParts ==
    ASSUME NEW v \in DirectValidationIdentity
    PROVE  /\ OnDirect(v) \in ActiveBusinessPath
           /\ Validating(v) \in DirectPathState
           /\ Committed(v) \in DirectPathState
BY DEF ActiveBusinessPath, DirectPathState, OnDirect, Validating, Committed

\* Lemma: a state that stays as it is takes an allowed step.
LEMMA StayAllowed ==
    ASSUME NEW s, Good(s)
    PROVE  StepAllowed(s, s)
<1>1. fences_advance(s, s)
  <2>1. CASE s.epoch = None
    BY <2>1 DEF fences_advance
  <2>2. CASE s.epoch \in PathEpoch
    BY <2>2, EpochFacts DEF fences_advance
  <2> QED BY <2>1, <2>2 DEF Good, PathState
<1>2. window_kept(s, s)
  BY DEF window_kept
<1>3. proof_kept(s, s)
  <2> SUFFICES ASSUME s.direct.kind = "Committed"
               PROVE  s.direct.id = with_epoch(s.direct.id, s.epoch)
    BY DEF proof_kept
  <2>1. s.direct # Idle /\ s.lifecycle = "Online"
    BY DEF Good, PathState, state_is_valid, Idle
  <2>2. s.direct.id \in DirectValidationIdentity /\ s.direct.id.epoch = s.epoch
    BY <2>1 DEF Good, PathState, DirectPathState, state_is_valid, Idle
  <2> QED BY <2>2 DEF with_epoch, DirectValidationIdentity
<1> QED BY <1>1, <1>2, <1>3 DEF StepAllowed

\* Lemma: an event whose proposal is Good and allowed preserves everything.
LEMMA CommitPreserves ==
    ASSUME Inv, NEW next, NEW receipt, NEW observation, NEW clear,
           Commit(next, receipt, observation, clear),
           Good(next), StepAllowed(path, next)
    PROVE  Preserved
<1>1. path' = next \/ path' = path
  BY DEF Commit
<1>2. Good(path') /\ StepAllowed(path, path')
  BY <1>1, StayAllowed DEF Inv
<1>3. "illegal" \notin suppressed'
  BY DEF Commit, Inv, ReducerClosed, Good
<1>4. now' = now
  BY DEF Commit
<1> QED BY <1>2, <1>3, <1>4 DEF Preserved, Inv, ReducerClosed, Good, state_is_valid,
        commit_iff_active, unbound_is_fresh

\* Lemma: an event that leaves epoch and window alone and does not replace one
\* committed proof by another is an allowed step.
LEMMA SameEpochAllowed ==
    ASSUME NEW s, NEW t, Good(s),
           t.epoch = s.epoch, t.direct_first = s.direct_first,
           \/ t.direct = s.direct
           \/ t.direct.kind # "Committed"
           \/ s.direct.kind # "Committed"
           \/ s.direct.id.owner = None /\ t.direct.id.owner = None
    PROVE  StepAllowed(s, t)
BY StayAllowed DEF StepAllowed, fences_advance, window_kept, proof_kept

\* Lemma: an event that proposes the state it found preserves everything.
LEMMA KeepsPath ==
    ASSUME Inv, NEW receipt, NEW observation, NEW clear,
           Commit(path, receipt, observation, clear)
    PROVE  Preserved
BY StayAllowed, CommitPreserves DEF Inv

\* Lemma: the obligations of an event inside one epoch of an online machine.
LEMMA OnlineEdit ==
    ASSUME Inv, path.lifecycle = "Online",
           NEW next, NEW receipt, NEW observation, NEW clear,
           Commit(next, receipt, observation, clear),
           next \in PathState,
           next.lifecycle = "Online",
           next.epoch = path.epoch,
           next.direct_first = path.direct_first,
           \/ next.direct = path.direct
           \/ next.direct.kind # "Committed"
           \/ path.direct.kind # "Committed"
           \/ path.direct.id.owner = None /\ next.direct.id.owner = None,
           state_is_valid(next),
           commit_iff_active(next)
    PROVE  Preserved
<1>1. Good(path)
  BY DEF Inv
<1>2. StepAllowed(path, next)
  BY <1>1, SameEpochAllowed
<1>3. Good(next)
  BY <1>1 DEF Good, unbound_is_fresh
<1> QED BY <1>2, <1>3, CommitPreserves

-----------------------------------------------------------------------------
(* Relay events.                                                           *)

\* Lemma: an active relay whose transport went away.
LEMMA RelayDegraded ==
    ASSUME Inv, path.lifecycle = "Online", path.active.kind = "Relay",
           NEW relay \in RelayPathState,
           relay.kind # "Unavailable" => relay.id.epoch = path.epoch,
           NEW next, next = relay_degraded([path EXCEPT !.relay = relay], path.epoch),
           NEW receipt, NEW observation, NEW clear,
           Commit(next, receipt, observation, clear)
    PROVE  Preserved
<1>1. Good(path) /\ path \in PathState /\ path.epoch \in PathEpoch
  BY DEF Inv, Good, PathState, state_is_valid
<1>2. next \in PathState
  BY <1>1, Parts DEF PathState, relay_degraded, Paths, ConnectionStates
<1>3. /\ next.lifecycle = "Online"
      /\ next.epoch = path.epoch
      /\ next.direct_first = path.direct_first
      /\ next.direct = path.direct
  BY <1>1 DEF PathState, relay_degraded
<1>4. state_is_valid(next)
  BY <1>1 DEF Good, PathState, relay_degraded, state_is_valid, direct_first_pending,
     Unavailable, Degraded
<1>5. commit_iff_active(next)
  BY <1>1 DEF Good, PathState, relay_degraded, commit_iff_active, Unavailable, OnDirect
<1> QED BY <1>2, <1>3, <1>4, <1>5, OnlineEdit

\* Lemma: a relay transport that comes up, or replaces another, preserves
\* everything; a replaced transport takes the active path with it.
LEMMA RelayTransportReadyOK ==
    ASSUME Inv, NEW r \in RelayConnectionIdentity, RelayTransportReady(r)
    PROVE  Preserved
<1> DEFINE ready == [path EXCEPT !.relay = Ready(r)]
<1>1. Good(path) /\ path \in PathState /\ path.lifecycle = "Online" /\ r.epoch = path.epoch
  BY DEF Inv, Good, RelayTransportReady, exact_epoch
<1>2. /\ Ready(r) \in RelayPathState
      /\ Ready(r).kind = "Ready" /\ Ready(r).id = r
  BY RelayParts DEF Ready
<1>3. CASE is_confirmed(path.relay) /\ same_transport(path.relay.id, r)
  BY <1>3, KeepsPath DEF RelayTransportReady, CommitPlain
<1>4. CASE /\ ~(is_confirmed(path.relay) /\ same_transport(path.relay.id, r))
           /\ path.active.kind = "Relay" /\ ~active_relay_is(r)
  <2>1. Commit(relay_degraded(ready, path.epoch), None, None, FALSE)
    BY <1>4 DEF RelayTransportReady, CommitPlain
  <2> QED BY <1>1, <1>2, <1>4, <2>1, RelayDegraded
<1>5. CASE /\ ~(is_confirmed(path.relay) /\ same_transport(path.relay.id, r))
           /\ ~(path.active.kind = "Relay" /\ ~active_relay_is(r))
  <2>1. Commit(ready, None, None, FALSE)
    BY <1>5 DEF RelayTransportReady, CommitPlain
  <2>2. path.active.kind # "Relay"
    BY <1>1, <1>5 DEF Good, state_is_valid, active_relay_is
  <2>3. ready \in PathState
    BY <1>1, <1>2 DEF PathState
  <2>4. /\ ready.lifecycle = "Online"
        /\ ready.epoch = path.epoch
        /\ ready.direct_first = path.direct_first
        /\ ready.direct = path.direct
        /\ commit_iff_active(ready)
    BY <1>1 DEF Good, PathState, commit_iff_active
  <2>5. state_is_valid(ready)
    BY <1>1, <1>2, <2>2 DEF Good, PathState, state_is_valid, direct_first_pending
  <2> QED BY <1>1, <2>1, <2>3, <2>4, <2>5, OnlineEdit
<1> QED BY <1>3, <1>4, <1>5

\* Lemma: a relay proof, selected for traffic or not.
LEMMA RelayProven ==
    ASSUME Inv, path.lifecycle = "Online",
           NEW r \in RelayConnectionIdentity, r.epoch = path.epoch,
           NEW relay \in {Confirmed(r), Usable(r)},
           NEW recovery \in {Stable, path.recovery},
           NEW next,
           next = IF ~relay_selectable THEN [path EXCEPT !.relay = relay]
                  ELSE [path EXCEPT !.relay = relay, !.active = OnRelay(r),
                                    !.compat = "Relay", !.recovery = recovery],
           path.active.kind = "Relay" => is_confirmed(path.relay) /\ same_transport(path.relay.id, r),
           NEW receipt, NEW observation, NEW clear,
           Commit(next, receipt, observation, clear)
    PROVE  Preserved
<1>1. Good(path) /\ path \in PathState /\ path.epoch \in PathEpoch
  BY DEF Inv, Good, PathState, state_is_valid
<1>2. /\ relay \in RelayPathState /\ relay.kind \in {"Confirmed", "Usable"}
      /\ relay.id = r
      /\ OnRelay(r) \in ActiveBusinessPath /\ OnRelay(r).kind = "Relay"
      /\ OnRelay(r).id = r
      /\ recovery \in PathRecoveryState
      /\ recovery.kind # "Stable" => recovery.epoch = path.epoch
  <2>1. /\ relay \in RelayPathState /\ relay.kind \in {"Confirmed", "Usable"}
        /\ relay.id = r
    <3>1. CASE relay = Confirmed(r)
      BY <3>1, RelayParts DEF Confirmed
    <3>2. CASE relay = Usable(r)
      BY <3>2, RelayParts DEF Usable
    <3> QED BY <3>1, <3>2
  <2>2. OnRelay(r) \in ActiveBusinessPath /\ OnRelay(r).kind = "Relay"
        /\ OnRelay(r).id = r
    BY RelayParts DEF OnRelay
  <2>3. recovery \in PathRecoveryState
    BY <1>1, Parts DEF PathState
  <2>4. recovery.kind # "Stable" => recovery.epoch = path.epoch
    BY <1>1 DEF Good, state_is_valid, Stable
  <2> QED BY <2>1, <2>2, <2>3, <2>4
<1>3. CASE ~relay_selectable
  <2>1. next = [path EXCEPT !.relay = relay]
    BY <1>3
  <2>2. path.active.kind # "Relay"
    BY <1>1, <1>3 DEF Good, state_is_valid, relay_selectable
  <2>3. next \in PathState
    BY <1>1, <1>2, <2>1 DEF PathState
  <2>4. /\ next.lifecycle = "Online"
        /\ next.epoch = path.epoch
        /\ next.direct_first = path.direct_first
        /\ next.direct = path.direct
        /\ commit_iff_active(next)
    BY <1>1, <2>1 DEF Good, PathState, commit_iff_active
  <2>5. state_is_valid(next)
    BY <1>1, <1>2, <2>1, <2>2 DEF Good, PathState, state_is_valid, direct_first_pending
  <2> QED BY <1>1, <2>3, <2>4, <2>5, OnlineEdit
<1>4. CASE relay_selectable
  <2>1. next = [path EXCEPT !.relay = relay, !.active = OnRelay(r),
                            !.compat = "Relay", !.recovery = recovery]
    BY <1>4
  <2>2. next \in PathState
    BY <1>1, <1>2, <2>1 DEF PathState, ConnectionStates
  <2>3. /\ next.lifecycle = "Online"
        /\ next.epoch = path.epoch
        /\ next.direct_first = path.direct_first
        /\ next.direct = path.direct
    BY <1>1, <2>1 DEF PathState
  <2>4. commit_iff_active(next)
    BY <1>1, <1>2, <1>4, <2>1
       DEF Good, PathState, commit_iff_active, relay_selectable, OnDirect, OnRelay
  <2>5. state_is_valid(next)
    BY <1>1, <1>2, <1>4, <2>1
       DEF Good, PathState, state_is_valid, direct_first_pending, is_confirmed,
           relay_selectable
  <2> QED BY <1>1, <2>2, <2>3, <2>4, <2>5, OnlineEdit
<1> QED BY <1>3, <1>4

\* Lemma: a delivery proof of the relay preserves everything.
LEMMA RelayPeerConfirmedOK ==
    ASSUME Inv, NEW r \in RelayConnectionIdentity, RelayPeerConfirmed(r)
    PROVE  Preserved
<1> DEFINE relay == IF path.relay.kind = "Usable" THEN Usable(r) ELSE Confirmed(r)
           recovery == IF path.direct.kind \in {"Probing", "Validating"}
                       THEN path.recovery ELSE Stable
           proven == [path EXCEPT !.relay = relay]
           next == IF ~relay_selectable THEN proven
                   ELSE [proven EXCEPT !.active = OnRelay(r), !.compat = "Relay",
                                       !.recovery = recovery]
           receipt == Receipt("RelayPeerConfirmed", r.epoch, r, None)
<1>1. Good(path) /\ path \in PathState /\ path.lifecycle = "Online" /\ r.epoch = path.epoch
  BY DEF Inv, Good, RelayPeerConfirmed, exact_epoch
<1>2. Commit(next, receipt, None, FALSE)
  BY DEF RelayPeerConfirmed
<1>3. path.active.kind = "Relay" =>
         is_confirmed(path.relay) /\ same_transport(path.relay.id, r)
  BY <1>1 DEF Good, state_is_valid, is_confirmed, RelayPeerConfirmed
<1>4. next = IF ~relay_selectable THEN [path EXCEPT !.relay = relay]
             ELSE [path EXCEPT !.relay = relay, !.active = OnRelay(r),
                               !.compat = "Relay", !.recovery = recovery]
  BY <1>1 DEF PathState
<1>5. relay \in {Confirmed(r), Usable(r)} /\ recovery \in {Stable, path.recovery}
  OBVIOUS
<1> HIDE DEF next, relay, recovery, receipt
<1> QED BY <1>1, <1>2, <1>3, <1>4, <1>5, RelayProven

\* Lemma: business seen over the proven relay preserves everything.
LEMMA RelayBusinessUsableOK ==
    ASSUME Inv, NEW r \in RelayConnectionIdentity, NEW direction,
           RelayBusinessUsable(r, direction)
    PROVE  Preserved
<1> DEFINE usable == [path EXCEPT !.relay = Usable(r)]
           next == IF ~relay_selectable THEN usable
                   ELSE [usable EXCEPT !.active = OnRelay(r), !.compat = "Relay"]
           receipt == Receipt("RelayBusiness", r.epoch, r, direction)
<1>1. Good(path) /\ path \in PathState /\ path.lifecycle = "Online" /\ r.epoch = path.epoch
  BY DEF Inv, Good, RelayBusinessUsable, exact_epoch
<1>2. /\ Commit(next, receipt, None, FALSE)
      /\ is_confirmed(path.relay) /\ same_transport(path.relay.id, r)
  BY DEF RelayBusinessUsable
<1>3. next = IF ~relay_selectable THEN [path EXCEPT !.relay = Usable(r)]
             ELSE [path EXCEPT !.relay = Usable(r), !.active = OnRelay(r),
                               !.compat = "Relay", !.recovery = path.recovery]
  BY <1>1 DEF PathState
<1> HIDE DEF next, receipt
<1> QED BY <1>1, <1>2, <1>3, RelayProven

\* Lemma: losing the relay transport preserves everything.
LEMMA RelayTransportLostOK ==
    ASSUME Inv, NEW r \in RelayConnectionIdentity, RelayTransportLost(r)
    PROVE  Preserved
<1> DEFINE gone == [path EXCEPT !.relay = Unavailable]
<1>1. Good(path) /\ path \in PathState /\ r.epoch = path.epoch
  BY DEF Inv, Good, RelayTransportLost, bound_epoch
<1>2. CASE path.relay.kind = "Unavailable"
  BY <1>2, KeepsPath DEF RelayTransportLost, CommitPlain
<1>3. CASE path.relay.kind # "Unavailable"
  <2>1. /\ path.lifecycle = "Online"
        /\ same_transport(path.relay.id, r)
        /\ path.epoch \in PathEpoch
    BY <1>1, <1>3 DEF Good, PathState, state_is_valid, RelayTransportLost, Unavailable
  <2>2. Unavailable \in RelayPathState /\ Unavailable.kind = "Unavailable"
    BY <2>1, Parts DEF Unavailable
  <2>3. CASE active_relay_is(r)
    <3>1. Commit(relay_degraded(gone, r.epoch), None, None, FALSE)
      BY <1>3, <2>3 DEF RelayTransportLost, CommitPlain
    <3> QED BY <1>1, <2>1, <2>2, <2>3, <3>1, RelayDegraded DEF active_relay_is
  <2>4. CASE ~active_relay_is(r)
    <3>1. Commit(gone, None, None, FALSE)
      BY <1>3, <2>4 DEF RelayTransportLost, CommitPlain
    <3>2. path.active.kind # "Relay"
      BY <1>1, <2>1, <2>4 DEF Good, state_is_valid, active_relay_is
    <3>3. gone \in PathState
      BY <1>1, <2>2 DEF PathState
    <3>4. /\ gone.lifecycle = "Online"
          /\ gone.epoch = path.epoch
          /\ gone.direct_first = path.direct_first
          /\ gone.direct = path.direct
          /\ commit_iff_active(gone)
      BY <1>1, <2>1 DEF Good, PathState, commit_iff_active
    <3>5. state_is_valid(gone)
      BY <1>1, <2>1, <2>2, <3>2
         DEF Good, PathState, state_is_valid, direct_first_pending
    <3> QED BY <2>1, <3>1, <3>3, <3>4, <3>5, OnlineEdit
  <2> QED BY <2>3, <2>4
<1> QED BY <1>2, <1>3

\* Lemma: a failed relay path leaves the relay proven and preserves everything.
LEMMA RelayPathFailedOK ==
    ASSUME Inv, NEW r \in RelayConnectionIdentity, RelayPathFailed(r)
    PROVE  Preserved
<1>1. Good(path) /\ path \in PathState /\ path.lifecycle = "Online" /\ r.epoch = path.epoch
  BY DEF Inv, Good, RelayPathFailed, exact_epoch
<1>2. CASE is_confirmed(path.relay) /\ active_relay_is(r)
  <2>1. Commit(relay_degraded(path, r.epoch), None, None, TRUE)
    BY <1>2 DEF RelayPathFailed
  <2>2. path = [path EXCEPT !.relay = path.relay] /\ path.relay \in RelayPathState
    BY <1>1 DEF PathState
  <2>3. path.relay.id.epoch = path.epoch /\ path.active.kind = "Relay"
    BY <1>1, <1>2 DEF Good, state_is_valid, is_confirmed, active_relay_is
  <2> QED BY <1>1, <2>1, <2>2, <2>3, RelayDegraded
<1>3. CASE ~(is_confirmed(path.relay) /\ active_relay_is(r))
  BY <1>3, KeepsPath DEF RelayPathFailed
<1> QED BY <1>2, <1>3

\* Lemma: every relay event preserves the invariant and takes an allowed step.
LEMMA RelayStepOK ==
    ASSUME Inv, RelayStep
    PROVE  Preserved
<1>1. ASSUME NEW r \in RelayConnectionIdentity, NEW token, RelayHealthObserved(r, token)
      PROVE  Preserved
  BY <1>1, KeepsPath DEF RelayHealthObserved
<1> QED
  BY <1>1, RelayTransportReadyOK, RelayPeerConfirmedOK, RelayBusinessUsableOK,
     RelayTransportLostOK, RelayPathFailedOK DEF RelayStep

-----------------------------------------------------------------------------
(* Direct events.                                                          *)

\* Lemma: Direct work that is not committed, with the projection it shows.
LEMMA DirectWork ==
    ASSUME Inv, path.lifecycle = "Online",
           NEW direct \in DirectPathState, direct.kind # "Committed",
           direct.kind # "Idle" => direct.id.epoch = path.epoch,
           NEW recovery \in PathRecoveryState,
           recovery.kind # "Stable" => recovery.epoch = path.epoch,
           NEW compat \in ConnectionStates,
           path.active.kind = "Unavailable" => compat \notin {"Direct", "Relay"},
           path.active.kind = "Relay" => compat = "Relay",
           path.active.kind # "Direct",
           NEW next,
           next = [path EXCEPT !.direct = direct, !.recovery = recovery,
                               !.compat = compat],
           Commit(next, None, None, FALSE)
    PROVE  Preserved
<1>1. Good(path) /\ path \in PathState
  BY DEF Inv, Good
<1>2. next \in PathState
  BY <1>1 DEF PathState
<1>3. /\ next.lifecycle = "Online"
      /\ next.epoch = path.epoch
      /\ next.direct_first = path.direct_first
      /\ next.direct.kind # "Committed"
      /\ commit_iff_active(next)
  BY <1>1 DEF PathState, commit_iff_active
<1>4. state_is_valid(next)
  BY <1>1 DEF Good, PathState, state_is_valid, direct_first_pending
<1> QED BY <1>2, <1>3, <1>4, OnlineEdit

\* Lemma: the projection punching() chooses.
LEMMA PunchingWork ==
    ASSUME Inv, path.lifecycle = "Online", path.direct.kind # "Committed",
           NEW direct \in DirectPathState,
           direct.kind \in {"Probing", "Validating"},
           direct.id.epoch = path.epoch,
           NEW e \in PathEpoch, e = path.epoch,
           Commit(punching([path EXCEPT !.direct = direct, !.recovery = Recovering(e)]),
                  None, None, FALSE)
    PROVE  Preserved
<1> DEFINE compat == IF path.active.kind = "Unavailable" THEN "HolePunching"
                     ELSE path.compat
           next == punching([path EXCEPT !.direct = direct, !.recovery = Recovering(e)])
<1>1. Good(path) /\ path \in PathState
  BY DEF Inv, Good
<1>2. next = [path EXCEPT !.direct = direct, !.recovery = Recovering(e),
                          !.compat = compat]
  BY <1>1 DEF PathState, punching
<1>3. path.active.kind # "Direct"
  BY <1>1 DEF Good, commit_iff_active, Committed
<1>4. /\ compat \in ConnectionStates
      /\ path.active.kind = "Unavailable" => compat \notin {"Direct", "Relay"}
      /\ path.active.kind = "Relay" => compat = "Relay"
  BY <1>1 DEF Good, PathState, ConnectionStates, state_is_valid
<1>5. Recovering(e) \in PathRecoveryState /\ Recovering(e).epoch = path.epoch
  BY Parts DEF Recovering
<1>6. Commit(next, None, None, FALSE)
  OBVIOUS
<1> HIDE DEF next, compat
<1> QED BY <1>2, <1>3, <1>4, <1>5, <1>6, DirectWork

\* Lemma: probing never disturbs a validation or a commit.
LEMMA DirectProbeStartedOK ==
    ASSUME Inv, NEW e \in PathEpoch, DirectProbeStarted(e)
    PROVE  Preserved
<1>1. Good(path) /\ path.lifecycle = "Online" /\ path.epoch = e
  BY DEF Inv, DirectProbeStarted, exact_epoch
<1>2. CASE path.direct.kind \in {"Validating", "Committed"}
  BY <1>2, KeepsPath DEF DirectProbeStarted, CommitPlain
<1>3. CASE path.direct.kind \notin {"Validating", "Committed"}
  <2>1. Commit(punching([path EXCEPT !.direct = Probing(e), !.recovery = Recovering(e)]),
               None, None, FALSE)
    BY <1>3 DEF DirectProbeStarted, CommitPlain
  <2>2. /\ Probing(e) \in DirectPathState
        /\ Probing(e).kind = "Probing" /\ Probing(e).id.epoch = e
    BY Parts DEF Probing
  <2> QED BY <1>1, <1>3, <2>1, <2>2, PunchingWork
<1> QED BY <1>2, <1>3

\* Lemma: a validation request never disturbs a commit.
LEMMA DirectValidationStartedOK ==
    ASSUME Inv, NEW v \in DirectValidationIdentity, DirectValidationStarted(v)
    PROVE  Preserved
<1>1. /\ Good(path) /\ path.lifecycle = "Online"
      /\ path.epoch = v.epoch /\ v.epoch \in PathEpoch
  BY DEF Inv, DirectValidationStarted, exact_epoch, DirectValidationIdentity
<1>2. CASE path.direct.kind = "Committed"
  BY <1>2, KeepsPath DEF DirectValidationStarted, CommitPlain
<1>3. CASE path.direct.kind # "Committed"
  <2>1. Commit(punching([path EXCEPT !.direct = Validating(v),
                                     !.recovery = Recovering(v.epoch)]),
               None, None, FALSE)
    BY <1>3 DEF DirectValidationStarted, CommitPlain
  <2>2. /\ Validating(v) \in DirectPathState
        /\ Validating(v).kind = "Validating" /\ Validating(v).id.epoch = v.epoch
    BY DirectParts DEF Validating
  <2> QED BY <1>1, <1>3, <2>1, <2>2, PunchingWork
<1> QED BY <1>2, <1>3

\* Lemma: a proof installed in the active path.
LEMMA DirectInstalled ==
    ASSUME Inv, path.lifecycle = "Online",
           NEW v \in DirectValidationIdentity, v.epoch = path.epoch,
           path.direct.kind = "Committed" => path.direct.id.owner = None /\ v.owner = None,
           NEW next,
           next = [path EXCEPT !.direct = Committed(v), !.active = OnDirect(v),
                               !.recovery = Stable, !.compat = "Direct"],
           NEW receipt, NEW observation, NEW clear,
           Commit(next, receipt, observation, clear)
    PROVE  Preserved
<1>1. Good(path) /\ path \in PathState /\ path.epoch \in PathEpoch
  BY DEF Inv, Good, PathState, state_is_valid
<1>2. /\ Committed(v) \in DirectPathState /\ OnDirect(v) \in ActiveBusinessPath
      /\ Stable \in PathRecoveryState
  BY <1>1, DirectParts, Parts
<1>3. next \in PathState
  BY <1>1, <1>2 DEF PathState, ConnectionStates
<1>4. /\ next.lifecycle = "Online"
      /\ next.epoch = path.epoch
      /\ next.direct_first = path.direct_first
      /\ next.direct = Committed(v)
      /\ next.active = OnDirect(v)
      /\ next.relay = path.relay
      /\ next.recovery = Stable
      /\ next.compat = "Direct"
  BY <1>1 DEF PathState
<1>5. commit_iff_active(next)
  BY <1>4 DEF commit_iff_active, Committed, OnDirect
<1>6. state_is_valid(next)
  BY <1>1, <1>4 DEF Good, state_is_valid, Committed, OnDirect, Stable
<1>7. \/ path.direct.kind # "Committed"
      \/ path.direct.id.owner = None /\ next.direct.id.owner = None
  BY <1>4 DEF Committed
<1> QED BY <1>3, <1>4, <1>5, <1>6, <1>7, OnlineEdit

\* Lemma: a commit installs one proof, or keeps the one it repeats.
LEMMA DirectCommittedOK ==
    ASSUME Inv, NEW v \in DirectValidationIdentity, DirectCommitted(v)
    PROVE  Preserved
<1> DEFINE repeated == /\ path.direct.kind = "Committed"
                       /\ \/ path.direct.id = v
                          \/ same_validation_request(path.direct.id, v)
           next == [path EXCEPT !.direct = Committed(v), !.active = OnDirect(v),
                                !.recovery = Stable, !.compat = "Direct"]
           receipt == Receipt("DirectCommitted", v.epoch, v, None)
<1>1. path.lifecycle = "Online" /\ v.epoch = path.epoch
  BY DEF DirectCommitted, exact_epoch
<1>2. CASE repeated
  BY <1>2, KeepsPath DEF DirectCommitted
<1>3. CASE ~repeated
  <2>1. Commit(next, receipt, None, FALSE)
    BY <1>3 DEF DirectCommitted
  <2>2. path.direct.kind = "Committed" => path.direct.id.owner = None /\ v.owner = None
    BY <1>3 DEF DirectCommitted
  <2> HIDE DEF receipt
  <2> QED BY <1>1, <2>1, <2>2, DirectInstalled
<1> QED BY <1>2, <1>3

\* Lemma: what is left when Direct work fails beside another path or none.
LEMMA DirectFailed ==
    ASSUME Inv, path.lifecycle = "Online", path.active.kind # "Direct",
           NEW e \in PathEpoch, e = path.epoch,
           Commit(direct_failed(path, e), None, None, FALSE)
    PROVE  Preserved
<1> DEFINE next == direct_failed(path, e)
<1>1. Good(path) /\ path \in PathState
  BY DEF Inv, Good
<1>2. /\ Idle \in DirectPathState /\ Idle.kind = "Idle"
      /\ Recovering(e) \in PathRecoveryState /\ Recovering(e).epoch = path.epoch
      /\ Degraded(e, "Direct", None) \in PathRecoveryState
      /\ Degraded(e, "Direct", None).epoch = path.epoch
  BY Parts DEF Idle, Recovering, Degraded, Paths
<1>3. CASE path.active.kind = "Relay"
  <2>1. next = [path EXCEPT !.direct = Idle, !.recovery = Recovering(e),
                            !.compat = "Relay"]
    BY <1>3 DEF direct_failed
  <2>2. "Relay" \in ConnectionStates
    BY DEF ConnectionStates
  <2>3. Commit(next, None, None, FALSE)
    OBVIOUS
  <2> HIDE DEF next
  <2> QED BY <1>2, <1>3, <2>1, <2>2, <2>3, DirectWork
<1>4. CASE path.active.kind # "Relay"
  <2>1. next = [path EXCEPT !.direct = Idle, !.recovery = Degraded(e, "Direct", None),
                            !.compat = "FallbackToRelay"]
    BY <1>4 DEF direct_failed
  <2>2. "FallbackToRelay" \in ConnectionStates
    BY DEF ConnectionStates
  <2>3. Commit(next, None, None, FALSE)
    OBVIOUS
  <2> HIDE DEF next
  <2> QED BY <1>2, <1>4, <2>1, <2>2, <2>3, DirectWork
<1> QED BY <1>3, <1>4

\* Lemma: a failed probe preserves everything.
LEMMA DirectProbeFailedOK ==
    ASSUME Inv, NEW e \in PathEpoch, DirectProbeFailed(e)
    PROVE  Preserved
<1>1. Good(path) /\ path.lifecycle = "Online" /\ path.epoch = e
  BY DEF Inv, DirectProbeFailed, exact_epoch
<1>2. CASE path.direct.kind = "Committed"
  BY <1>2, KeepsPath DEF DirectProbeFailed, CommitPlain
<1>3. CASE path.direct.kind # "Committed"
  <2>1. Commit(direct_failed(path, e), None, None, FALSE)
    BY <1>3 DEF DirectProbeFailed, CommitPlain
  <2>2. path.active.kind # "Direct"
    BY <1>1, <1>3 DEF Good, commit_iff_active, Committed
  <2> QED BY <1>1, <2>1, <2>2, DirectFailed
<1> QED BY <1>2, <1>3

\* Lemma: a failed Direct path falls back to what the relay offers.
LEMMA DirectPathFailedOK ==
    ASSUME Inv, NEW e \in PathEpoch, DirectPathFailed(e)
    PROVE  Preserved
<1> DEFINE fallback == IF direct_first_pending(path) THEN Unavailable
                       ELSE relay_or_unavailable(path.relay)
           lost == [path EXCEPT
                      !.direct = Idle, !.active = fallback,
                      !.recovery = Degraded(e, "Direct", network_path(fallback)),
                      !.compat = IF fallback = Unavailable THEN "FallbackToRelay"
                                 ELSE "Relay"]
<1>1. /\ Good(path) /\ path \in PathState
      /\ path.lifecycle = "Online" /\ path.epoch = e
  BY DEF Inv, Good, DirectPathFailed, exact_epoch
<1>2. CASE path.active.kind # "Direct"
  BY <1>1, <1>2, DirectFailed DEF DirectPathFailed, CommitPlain
<1>3. CASE path.active.kind = "Direct"
  <2>1. Commit(lost, None, None, FALSE)
    BY <1>3 DEF DirectPathFailed, CommitPlain
  <2>2. /\ fallback \in ActiveBusinessPath
        /\ network_path(fallback) \in {None, "Relay"}
        /\ fallback.kind \in {"Unavailable", "Relay"}
        /\ fallback.kind = "Unavailable" <=> fallback = Unavailable
        /\ fallback.kind = "Relay" => /\ ~direct_first_pending(path)
                                      /\ is_confirmed(path.relay)
                                      /\ fallback = OnRelay(path.relay.id)
    BY <1>1 DEF relay_or_unavailable, is_confirmed, OnRelay, Unavailable, PathState,
       ActiveBusinessPath, RelayPathState, network_path
  <2> HIDE DEF fallback
  <2>3. lost \in PathState
    BY <1>1, <2>2, Parts DEF PathState, Paths, ConnectionStates
  <2>4. /\ lost.lifecycle = "Online"
        /\ lost.epoch = path.epoch
        /\ lost.direct_first = path.direct_first
        /\ lost.direct.kind # "Committed"
        /\ commit_iff_active(lost)
    BY <1>1, <2>2 DEF PathState, commit_iff_active, Idle
  <2>5. state_is_valid(lost)
    BY <1>1, <2>2 DEF Good, PathState, state_is_valid, Degraded, Idle,
       direct_first_pending, OnRelay
  <2> QED BY <1>1, <2>1, <2>3, <2>4, <2>5, OnlineEdit
<1> QED BY <1>2, <1>3

\* Lemma: only the owner of a validation cancels it, and no commit goes.
LEMMA DirectAttemptCancelledOK ==
    ASSUME Inv, NEW e \in PathEpoch, NEW owner, DirectAttemptCancelled(e, owner)
    PROVE  Preserved
<1> DEFINE compat == IF path.active.kind = "Unavailable" THEN "Idle" ELSE path.compat
           next == [path EXCEPT !.direct = Idle, !.recovery = Stable, !.compat = compat]
<1>1. /\ Good(path) /\ path \in PathState
      /\ path.lifecycle = "Online" /\ path.epoch = e
  BY DEF Inv, Good, DirectAttemptCancelled, exact_epoch
<1>2. CASE path.direct.kind \in {"Committed", "Idle"}
  BY <1>2, KeepsPath DEF DirectAttemptCancelled, CommitPlain
<1>3. CASE path.direct.kind \notin {"Committed", "Idle"}
  <2>1. Commit(next, None, None, FALSE)
    BY <1>3 DEF DirectAttemptCancelled, CommitPlain
  <2>2. path.active.kind # "Direct"
    BY <1>1, <1>3 DEF Good, commit_iff_active, Committed
  <2>3. /\ compat \in ConnectionStates
        /\ path.active.kind = "Unavailable" => compat \notin {"Direct", "Relay"}
        /\ path.active.kind = "Relay" => compat = "Relay"
    BY <1>1 DEF Good, PathState, ConnectionStates, state_is_valid
  <2>4. /\ Idle \in DirectPathState /\ Idle.kind = "Idle"
        /\ Stable \in PathRecoveryState /\ Stable.kind = "Stable"
    BY Parts DEF Idle, Stable
  <2> HIDE DEF compat
  <2> QED BY <1>1, <2>1, <2>2, <2>3, <2>4, DirectWork
<1> QED BY <1>2, <1>3

-----------------------------------------------------------------------------
(* The startup window.                                                     *)

\* Lemma: releasing a window keeps its deadline and never loses it.
LEMMA Released ==
    ASSUME NEW w \in {None} \cup Windows
    PROVE  /\ release(w) \in {None} \cup Windows
           /\ w # None => /\ release(w) # None
                          /\ release(w).deadline = w.deadline
                          /\ release(w).released
           /\ w = None => release(w) = None
<1>1. None \notin Windows
  BY PathConstants DEF PathConstants
<1>2. CASE w = None
  BY <1>2 DEF release
<1>3. CASE w \in Windows
  <2>1. release(w) = [w EXCEPT !.released = TRUE]
    BY <1>1, <1>3 DEF release
  <2>2. release(w) \in Windows
    BY <1>3, <2>1 DEF Windows
  <2>3. release(w).deadline = w.deadline /\ release(w).released
    BY <1>3, <2>1 DEF Windows
  <2> QED BY <1>1, <1>3, <2>2, <2>3
<1> QED BY <1>2, <1>3

\* Lemma: the obligations of an event that closes the window of an epoch.
LEMMA ReleasePreserves ==
    ASSUME Inv, path.lifecycle = "Online",
           NEW next \in PathState,
           next.lifecycle = "Online",
           next.epoch = path.epoch,
           next.direct = path.direct,
           next.direct_first = release(path.direct_first),
           state_is_valid(next),
           commit_iff_active(next),
           Commit(next, None, None, FALSE)
    PROVE  Preserved
<1>1. Good(path) /\ path.direct_first \in {None} \cup Windows
  BY DEF Inv, Good, PathState
<1>2. StepAllowed(path, next)
  <2>1. fences_advance(path, next) /\ proof_kept(path, next)
    BY <1>1, StayAllowed DEF StepAllowed, fences_advance, proof_kept
  <2>2. window_kept(path, next)
    BY <1>1, Released DEF window_kept
  <2> QED BY <2>1, <2>2 DEF StepAllowed
<1>3. Good(next)
  BY <1>1 DEF Good, unbound_is_fresh
<1> QED BY <1>2, <1>3, CommitPreserves

\* Lemma: starting the window arms it once.
LEMMA DirectFirstStartedOK ==
    ASSUME Inv, NEW e \in PathEpoch, DirectFirstStarted(e), now \in Nat
    PROVE  Preserved
<1> DEFINE window == [deadline |-> now + DirectFirstWindow,
                      released |-> path.active.kind # "Unavailable"]
           next == [path EXCEPT !.direct_first = window]
<1>1. /\ Good(path) /\ path \in PathState
      /\ path.lifecycle = "Online" /\ path.epoch = e
  BY DEF Inv, Good, DirectFirstStarted, exact_epoch
<1>2. CASE path.direct_first # None
  BY <1>2, KeepsPath DEF DirectFirstStarted, CommitPlain
<1>3. CASE path.direct_first = None
  <2>1. Commit(next, None, None, FALSE)
    BY <1>3 DEF DirectFirstStarted, CommitPlain
  <2>2. window \in Windows
    <3>1. DirectFirstWindow \in Nat
      BY PathConstants DEF PathConstants
    <3> QED BY <3>1 DEF Windows
  <2>3. window.released <=> path.active.kind # "Unavailable"
    OBVIOUS
  <2> HIDE DEF window
  <2>4. next \in PathState
    BY <1>1, <2>2 DEF PathState
  <2>5. Good(next)
    <3>1. state_is_valid(next)
      BY <1>1, <2>3 DEF Good, PathState, state_is_valid, direct_first_pending
    <3>2. commit_iff_active(next) /\ unbound_is_fresh(next)
      BY <1>1 DEF Good, PathState, commit_iff_active, unbound_is_fresh
    <3> QED BY <2>4, <3>1, <3>2 DEF Good
  <2>6. StepAllowed(path, next)
    <3>1. next.epoch = path.epoch /\ next.direct = path.direct
      BY <1>1 DEF PathState
    <3> QED BY <1>1, <1>3, <3>1, StayAllowed
            DEF StepAllowed, fences_advance, window_kept, proof_kept
  <2> QED BY <2>1, <2>5, <2>6, CommitPreserves
<1> QED BY <1>2, <1>3

\* Lemma: the deadline releases the window and selects a proven relay.
LEMMA DirectFirstDeadlineOK ==
    ASSUME Inv, NEW e \in PathEpoch, DirectFirstDeadline(e)
    PROVE  Preserved
<1> DEFINE window == release(path.direct_first)
           released == [path EXCEPT !.direct_first = window]
           relayed == [released EXCEPT !.active = OnRelay(path.relay.id),
                                       !.compat = "Relay"]
<1>1. /\ Good(path) /\ path \in PathState
      /\ path.lifecycle = "Online" /\ path.epoch = e
  BY DEF Inv, Good, DirectFirstDeadline, exact_epoch
<1>2. /\ window \in {None} \cup Windows
      /\ window # None => window.released
  BY <1>1, Released DEF PathState
<1> HIDE DEF window
<1>3. released \in PathState
  BY <1>1, <1>2 DEF PathState
<1>4. CASE path.active.kind # "Direct" /\ is_confirmed(path.relay)
  <2>1. Commit(relayed, None, None, FALSE)
    BY <1>4 DEF DirectFirstDeadline, CommitPlain, window
  <2>2. /\ OnRelay(path.relay.id) \in ActiveBusinessPath
        /\ OnRelay(path.relay.id).kind = "Relay"
        /\ OnRelay(path.relay.id).id = path.relay.id
    BY <1>1, <1>4, RelayParts
       DEF PathState, RelayPathState, is_confirmed, Unavailable, OnRelay
  <2>3. /\ relayed \in PathState
        /\ relayed.lifecycle = "Online"
        /\ relayed.epoch = path.epoch
        /\ relayed.direct = path.direct
        /\ relayed.relay = path.relay
        /\ relayed.recovery = path.recovery
        /\ relayed.compat = "Relay"
        /\ relayed.active = OnRelay(path.relay.id)
        /\ relayed.direct_first = window
    BY <1>1, <1>3, <2>2 DEF PathState, ConnectionStates
  <2> HIDE DEF relayed
  <2>4. state_is_valid(relayed)
    BY <1>1, <1>2, <1>4, <2>2, <2>3 DEF Good, state_is_valid, direct_first_pending
  <2>5. commit_iff_active(relayed)
    BY <1>1, <1>4, <2>2, <2>3 DEF Good, commit_iff_active, OnDirect
  <2> QED BY <1>1, <2>1, <2>3, <2>4, <2>5, ReleasePreserves DEF window
<1>5. CASE ~(path.active.kind # "Direct" /\ is_confirmed(path.relay))
  <2>1. Commit(released, None, None, FALSE)
    BY <1>5 DEF DirectFirstDeadline, CommitPlain, window
  <2>2. /\ state_is_valid(released) /\ commit_iff_active(released)
        /\ released.lifecycle = "Online"
        /\ released.epoch = path.epoch
        /\ released.direct = path.direct
        /\ released.direct_first = window
    BY <1>1, <1>2
       DEF Good, PathState, state_is_valid, direct_first_pending, commit_iff_active
  <2> HIDE DEF released
  <2> QED BY <1>1, <1>3, <2>1, <2>2, ReleasePreserves DEF window
<1> QED BY <1>4, <1>5

\* Lemma: a Direct commit that carries traffic releases the window.
LEMMA DirectFirstSatisfiedOK ==
    ASSUME Inv, NEW v \in DirectValidationIdentity, DirectFirstSatisfied(v)
    PROVE  Preserved
<1> DEFINE window == release(path.direct_first)
           released == [path EXCEPT !.direct_first = window]
<1>1. Good(path) /\ path \in PathState /\ path.lifecycle = "Online"
  BY DEF Inv, Good, DirectFirstSatisfied, exact_epoch
<1>2. /\ window \in {None} \cup Windows
      /\ window # None => window.released
  BY <1>1, Released DEF PathState
<1>3. Commit(released, None, None, FALSE)
  BY DEF DirectFirstSatisfied, CommitPlain
<1> HIDE DEF window
<1>4. released \in PathState
  BY <1>1, <1>2 DEF PathState
<1>5. /\ state_is_valid(released) /\ commit_iff_active(released)
      /\ released.lifecycle = "Online"
      /\ released.epoch = path.epoch
      /\ released.direct = path.direct
      /\ released.direct_first = window
  BY <1>1, <1>2
     DEF Good, PathState, state_is_valid, direct_first_pending, commit_iff_active
<1> HIDE DEF released
<1> QED BY <1>1, <1>3, <1>4, <1>5, ReleasePreserves DEF window

\* Lemma: every Direct event preserves the invariant and takes an allowed step.
LEMMA DirectStepOK ==
    ASSUME Inv, DirectStep
    PROVE  Preserved
<1>1. ASSUME NEW e \in PathEpoch, NEW o \in Owners, NEW q \in Requests \cup {None},
             NEW t \in DirectEndpoints
      PROVE  owned(e, o, q, t) \in DirectValidationIdentity
  BY DEF owned, DirectValidationIdentity
<1>2. ASSUME NEW e \in PathEpoch, NEW o \in Owners, NEW q \in Requests,
             NEW t \in DirectEndpoints, NEW d \in DirectEndpoints
      PROVE  authenticated_ack(e, o, q, t, d) \in DirectValidationIdentity
  BY DEF authenticated_ack, DirectValidationIdentity
<1>3. ASSUME NEW e \in PathEpoch, NEW d \in DirectEndpoints
      PROVE  compatibility(e, d) \in DirectValidationIdentity
  BY DEF compatibility, DirectValidationIdentity
<1> QED
  BY <1>1, <1>2, <1>3, DirectProbeStartedOK, DirectProbeFailedOK, DirectPathFailedOK,
     DirectAttemptCancelledOK, DirectValidationStartedOK, DirectCommittedOK,
     DirectFirstSatisfiedOK DEF DirectStep

-----------------------------------------------------------------------------
(* Lifecycle and epoch changes.                                            *)

\* Lemma: a machine that starts from nothing is Good.
LEMMA FreshGood ==
    ASSUME NEW lifecycle, NEW epoch,
           \/ lifecycle = "Unbound" /\ epoch = None
           \/ lifecycle = "Online" /\ epoch \in PathEpoch
    PROVE  Good(fresh_state(lifecycle, epoch))
<1> DEFINE s == fresh_state(lifecycle, epoch)
<1>1. /\ Unavailable \in ActiveBusinessPath /\ Unavailable \in RelayPathState
      /\ Idle \in DirectPathState /\ Stable \in PathRecoveryState
  BY DEF ActiveBusinessPath, RelayPathState, DirectPathState, PathRecoveryState
<1>2. s \in PathState
  BY <1>1 DEF fresh_state, PathState, ConnectionStates
<1>3. epoch = None => lifecycle = "Unbound"
  BY EpochFacts
<1>4. state_is_valid(s)
  BY <1>3 DEF fresh_state, state_is_valid, direct_first_pending, Unavailable, Idle, Stable
<1>5. commit_iff_active(s) /\ unbound_is_fresh(s)
  BY <1>3 DEF fresh_state, commit_iff_active, unbound_is_fresh, Unavailable, Idle
<1> QED BY <1>2, <1>4, <1>5 DEF Good

\* Lemma: what offline() leaves of a Good state is Good under any epoch.
LEMMA OfflineGood ==
    ASSUME NEW s, s \in PathState, NEW e \in PathEpoch,
           s.lifecycle # "Unbound" \/ s.direct_first = None
    PROVE  /\ Good([offline(s) EXCEPT !.epoch = e])
           /\ [offline(s) EXCEPT !.epoch = e].direct_first = s.direct_first
           /\ [offline(s) EXCEPT !.epoch = e].epoch = e
           /\ [offline(s) EXCEPT !.epoch = e].direct.kind = "Idle"
<1> DEFINE t == [offline(s) EXCEPT !.epoch = e]
<1>1. t \in PathState
  BY Parts DEF offline, PathState, ConnectionStates
<1>2. /\ t.lifecycle = "Offline" /\ t.active = Unavailable /\ t.relay = Unavailable
      /\ t.direct = Idle /\ t.recovery = Stable /\ t.compat = "Closed"
      /\ t.direct_first = s.direct_first /\ t.epoch = e
  BY DEF offline, PathState
<1> HIDE DEF t
<1>3. state_is_valid(t)
  BY <1>2 DEF state_is_valid, direct_first_pending, Unavailable
<1>4. commit_iff_active(t) /\ unbound_is_fresh(t)
  BY <1>2, EpochFacts DEF commit_iff_active, unbound_is_fresh, Idle, Unavailable
<1>5. t.direct.kind = "Idle"
  BY <1>2 DEF Idle
<1> QED BY <1>1, <1>2, <1>3, <1>4, <1>5 DEF Good, t

\* Lemma: a new identity starts from the unbound machine.
LEMMA IdentityResetOK ==
    ASSUME Inv, IdentityReset
    PROVE  Preserved
<1>1. Good(unbound_state)
  BY FreshGood DEF unbound_state
<1>2. StepAllowed(path, unbound_state)
  BY DEF StepAllowed, fences_advance, window_kept, proof_kept, unbound_state,
     fresh_state, Idle
<1>3. Commit(unbound_state, None, None, FALSE)
  BY DEF IdentityReset, CommitPlain
<1> QED BY <1>1, <1>2, <1>3, CommitPreserves

\* Lemma: a newer session starts from nothing; the current one is kept.
LEMMA PeerOnlineOK ==
    ASSUME Inv, NEW e \in PathEpoch, PeerOnline(e)
    PROVE  Preserved
<1> DEFINE newer == path.epoch # None => e.session > path.epoch.session
           receipt == Receipt("PeerOnline", e, None, None)
<1>1. Good(path) /\ path.epoch \in PathEpoch \cup {None}
  BY DEF Inv, Good, PathState
<1>2. CASE ~newer
  BY <1>2, KeepsPath DEF PeerOnline
<1>3. CASE newer
  <2>1. Commit(fresh_state("Online", e), receipt, None, FALSE)
    BY <1>3 DEF PeerOnline
  <2>2. Good(fresh_state("Online", e))
    BY FreshGood
  <2>3. StepAllowed(path, fresh_state("Online", e))
    <3>1. CASE path.epoch = None
      BY <1>1, <3>1 DEF Good, unbound_is_fresh, StepAllowed, fences_advance,
         window_kept, proof_kept, fresh_state, Idle
    <3>2. CASE path.epoch \in PathEpoch
      <4>1. e.session > path.epoch.session /\ e.session # path.epoch.session
        BY <1>3, <3>2, EpochFacts
      <4> QED BY <4>1 DEF StepAllowed, fences_advance, window_kept, proof_kept,
              fresh_state, Idle
    <3> QED BY <1>1, <3>1, <3>2
  <2> HIDE DEF receipt
  <2> QED BY <2>1, <2>2, <2>3, CommitPreserves
<1> QED BY <1>2, <1>3

\* Lemma: a peer that leaves keeps its window and loses its paths.
LEMMA PeerLeftOK ==
    ASSUME Inv, NEW e \in PathEpoch, PeerLeft(e)
    PROVE  Preserved
<1> DEFINE next == [offline(path) EXCEPT !.epoch = e]
<1>1. /\ Good(path) /\ path \in PathState /\ path.epoch \in PathEpoch \cup {None}
      /\ path.lifecycle # "Unbound" \/ path.direct_first = None
  BY DEF Inv, Good, PathState, unbound_is_fresh
<1>2. /\ Good(next)
      /\ next.direct_first = path.direct_first
      /\ next.epoch = e
      /\ next.direct.kind = "Idle"
  BY <1>1, OfflineGood
<1>3. Commit(next, None, None, FALSE)
  BY DEF PeerLeft, CommitPlain
<1> HIDE DEF next
<1>4. fences_advance(path, next)
  <2>1. CASE path.lifecycle = "Unbound"
    BY <1>1, <2>1 DEF Good, state_is_valid, fences_advance
  <2>2. CASE path.epoch = e
    BY <1>2, <2>2, EpochFacts DEF fences_advance
  <2>3. CASE e.session > path.epoch.session
    BY <1>2, <2>3 DEF fences_advance
  <2> QED BY <2>1, <2>2, <2>3 DEF PeerLeft
<1>5. window_kept(path, next) /\ proof_kept(path, next)
  BY <1>2 DEF window_kept, proof_kept
<1> QED BY <1>2, <1>3, <1>4, <1>5, CommitPreserves DEF StepAllowed

\* Lemma: the projection a change of epoch leaves behind.
LEMMA ProjectionAfterEpochChange ==
    ASSUME NEW s \in PathState, NEW e \in PathEpoch,
           NEW previous \in {None} \cup Paths,
           s.active.kind = "Unavailable" /\ previous = None =>
              s.compat \notin {"Direct", "Relay"},
           NEW t, t = set_projection_after_epoch_change(s, previous, e)
    PROVE  /\ t \in PathState
           /\ t.lifecycle = s.lifecycle /\ t.epoch = s.epoch
           /\ t.direct_first = s.direct_first
           /\ t.active = s.active /\ t.relay = s.relay /\ t.direct = s.direct
           /\ t.recovery.kind # "Stable" => t.recovery.epoch = e
           /\ t.active.kind = "Unavailable" => t.compat \notin {"Direct", "Relay"}
           /\ t.active.kind = "Direct" => t.compat = "Direct"
           /\ t.active.kind = "Relay" => t.compat = "Relay"
<1> DEFINE current == network_path(s.active)
           dropped == current = None /\ previous # None
           recovery == IF dropped THEN Degraded(e, previous, None) ELSE Stable
           compat == IF current # None THEN current
                     ELSE IF dropped THEN "FallbackToRelay" ELSE s.compat
<1>1. t = [s EXCEPT !.recovery = recovery, !.compat = compat]
  BY DEF set_projection_after_epoch_change
<1>2. None \notin Paths
  BY PathConstants DEF PathConstants, Paths
<1>3. s.active.kind \in {"Unavailable", "Direct", "Relay"}
  BY DEF PathState, ActiveBusinessPath, Unavailable
<1>4. /\ current = None <=> s.active.kind = "Unavailable"
      /\ current # None => current = s.active.kind
  BY <1>2, <1>3 DEF network_path, Paths
<1> HIDE DEF current
<1>5. /\ recovery \in PathRecoveryState
      /\ recovery.kind # "Stable" => recovery.epoch = e
  <2>1. CASE dropped
    BY <2>1, Parts DEF Degraded
  <2>2. CASE ~dropped
    BY <2>2, Parts DEF Stable
  <2> QED BY <2>1, <2>2
<1>6. /\ compat \in ConnectionStates
      /\ s.active.kind = "Unavailable" => compat \notin {"Direct", "Relay"}
      /\ s.active.kind = "Direct" => compat = "Direct"
      /\ s.active.kind = "Relay" => compat = "Relay"
  BY <1>3, <1>4 DEF PathState, ConnectionStates
<1> HIDE DEF recovery, compat
<1> QED BY <1>1, <1>5, <1>6 DEF PathState

\* Lemma: what survives of relay and Direct carries the new epoch.
LEMMA Restamped ==
    ASSUME Good(path), path.lifecycle = "Online", NEW e \in PathEpoch
    PROVE  /\ relay_with_epoch(path.relay, e) \in RelayPathState
           /\ relay_with_epoch(path.relay, e).kind = path.relay.kind
           /\ path.relay.kind # "Unavailable" =>
                 /\ relay_with_epoch(path.relay, e).id.epoch = e
           /\ with_epoch_if_committed(path.direct, e) \in DirectPathState
           /\ with_epoch_if_committed(path.direct, e).kind \in {"Idle", "Committed"}
           /\ with_epoch_if_committed(path.direct, e).kind = "Committed" =>
                 /\ path.direct.kind = "Committed"
                 /\ with_epoch_if_committed(path.direct, e)
                       = Committed(with_epoch(path.direct.id, e))
                 /\ with_epoch(path.direct.id, e) \in DirectValidationIdentity
                 /\ with_epoch(path.direct.id, e).epoch = e
<1>1. path \in PathState
  BY DEF Good
<1>2. /\ relay_with_epoch(path.relay, e) \in RelayPathState
      /\ relay_with_epoch(path.relay, e).kind = path.relay.kind
      /\ path.relay.kind # "Unavailable" => relay_with_epoch(path.relay, e).id.epoch = e
  <2>1. CASE path.relay.kind = "Unavailable"
    BY <1>1, <2>1 DEF PathState, relay_with_epoch
  <2>2. CASE path.relay.kind # "Unavailable"
    <3>1. /\ path.relay.id \in RelayConnectionIdentity
          /\ path.relay.kind \in {"Ready", "Confirmed", "Usable"}
      BY <1>1, <2>2 DEF PathState, RelayPathState, Unavailable
    <3>2. /\ with_epoch(path.relay.id, e) \in RelayConnectionIdentity
          /\ with_epoch(path.relay.id, e).epoch = e
      BY <3>1 DEF with_epoch, RelayConnectionIdentity
    <3>3. relay_with_epoch(path.relay, e) = [path.relay EXCEPT !.id = with_epoch(path.relay.id, e)]
      BY <2>2 DEF relay_with_epoch
    <3> QED BY <1>1, <2>2, <3>1, <3>2, <3>3 DEF PathState, RelayPathState, Unavailable
  <2> QED BY <2>1, <2>2
<1>3. /\ with_epoch_if_committed(path.direct, e) \in DirectPathState
      /\ with_epoch_if_committed(path.direct, e).kind \in {"Idle", "Committed"}
      /\ with_epoch_if_committed(path.direct, e).kind = "Committed" =>
            /\ path.direct.kind = "Committed"
            /\ with_epoch_if_committed(path.direct, e)
                  = Committed(with_epoch(path.direct.id, e))
            /\ with_epoch(path.direct.id, e) \in DirectValidationIdentity
            /\ with_epoch(path.direct.id, e).epoch = e
  <2>1. CASE path.direct.kind = "Committed"
    <3>1. path.direct.id \in DirectValidationIdentity
      BY <1>1, <2>1 DEF PathState, DirectPathState, Idle
    <3>2. /\ with_epoch(path.direct.id, e) \in DirectValidationIdentity
          /\ with_epoch(path.direct.id, e).epoch = e
      BY <3>1 DEF with_epoch, DirectValidationIdentity
    <3>3. with_epoch_if_committed(path.direct, e) = Committed(with_epoch(path.direct.id, e))
      BY <2>1 DEF with_epoch_if_committed
    <3>4. Committed(with_epoch(path.direct.id, e)).kind = "Committed"
      BY DEF Committed
    <3> QED BY <2>1, <3>2, <3>3, <3>4, DirectParts
  <2>2. CASE path.direct.kind # "Committed"
    BY <2>2, Parts DEF with_epoch_if_committed, Idle
  <2> QED BY <2>1, <2>2
<1> QED BY <1>2, <1>3

\* Lemma: the state rebased on a later epoch is Good and allowed, whatever of
\* relay and Direct was kept.  Its active path never outlives its proof.
LEMMA Rebased ==
    ASSUME Inv, path.lifecycle = "Online",
           NEW e \in PathEpoch,
           e.session = path.epoch.session,
           e.net >= path.epoch.net,
           e.cand >= path.epoch.cand,
           NEW relay \in {Unavailable, relay_with_epoch(path.relay, e)},
           NEW direct \in {Idle, with_epoch_if_committed(path.direct, e)}
    PROVE  Good(rebased(e, relay, direct)) /\ StepAllowed(path, rebased(e, relay, direct))
<1> DEFINE fallback == relay_or_unavailable(relay)
           kept == CASE path.active.kind = "Unavailable" -> Unavailable
                     [] path.active.kind = "Direct" /\ direct.kind = "Committed" ->
                           OnDirect(direct.id)
                     [] OTHER -> fallback
           active == IF direct_first_pending(path) /\ kept.kind = "Relay"
                     THEN Unavailable ELSE kept
           s == [path EXCEPT !.epoch = e, !.relay = relay, !.direct = direct,
                             !.active = active]
           previous == network_path(path.active)
           t == rebased(e, relay, direct)
<1>1. Good(path) /\ path \in PathState
  BY DEF Inv, Good
<1>2. /\ relay \in RelayPathState
      /\ relay.kind # "Unavailable" => relay.id.epoch = e
      /\ relay.kind # "Unavailable" => relay.id \in RelayConnectionIdentity
  <2>1. CASE relay = Unavailable
    BY <2>1, Parts DEF Unavailable
  <2>2. CASE relay = relay_with_epoch(path.relay, e)
    <3>1. relay \in RelayPathState /\ (relay.kind # "Unavailable" => relay.id.epoch = e)
      BY <1>1, <2>2, Restamped
    <3>2. relay.kind # "Unavailable" => relay.id \in RelayConnectionIdentity
      BY <3>1 DEF RelayPathState, Unavailable
    <3> QED BY <3>1, <3>2
  <2> QED BY <2>1, <2>2
<1>3. /\ direct \in DirectPathState
      /\ direct.kind \in {"Idle", "Committed"}
      /\ direct.kind = "Committed" => /\ path.direct.kind = "Committed"
                                      /\ direct.id = with_epoch(path.direct.id, e)
                                      /\ direct = Committed(direct.id)
                                      /\ direct.id \in DirectValidationIdentity
                                      /\ direct.id.epoch = e
  <2>1. CASE direct = Idle
    BY <2>1, Parts DEF Idle
  <2>2. CASE direct = with_epoch_if_committed(path.direct, e)
    <3> DEFINE v == with_epoch(path.direct.id, e)
    <3>1. /\ direct \in DirectPathState
          /\ direct.kind \in {"Idle", "Committed"}
          /\ direct.kind = "Committed" =>
                /\ path.direct.kind = "Committed"
                /\ direct = Committed(v)
                /\ v \in DirectValidationIdentity
                /\ v.epoch = e
      BY <1>1, <2>2, Restamped
    <3> HIDE DEF v
    <3>2. Committed(v).id = v
      BY DEF Committed
    <3>3. direct.kind = "Committed" => direct.id = v
      BY <3>1, <3>2
    <3> QED BY <3>1, <3>3 DEF v
  <2> QED BY <2>1, <2>2
<1>4. /\ fallback \in ActiveBusinessPath
      /\ fallback.kind \in {"Unavailable", "Relay"}
      /\ fallback.kind = "Relay" => is_confirmed(relay) /\ fallback.id = relay.id
  <2>1. CASE is_confirmed(relay)
    <3>1. fallback = OnRelay(relay.id)
      BY <2>1 DEF relay_or_unavailable
    <3>2. relay.id \in RelayConnectionIdentity
      BY <1>2, <2>1 DEF is_confirmed
    <3> QED BY <2>1, <3>1, <3>2, RelayParts DEF OnRelay
  <2>2. CASE ~is_confirmed(relay)
    BY <2>2, Parts DEF relay_or_unavailable, Unavailable
  <2> QED BY <2>1, <2>2
<1> HIDE DEF fallback
<1>5. path.direct.kind = "Committed" => path.active.kind = "Direct"
  BY <1>1 DEF Good, commit_iff_active, OnDirect
<1>6. /\ kept \in ActiveBusinessPath
      /\ kept.kind \in {"Unavailable", "Direct", "Relay"}
      /\ kept.kind = "Relay" => is_confirmed(relay) /\ kept.id = relay.id
      /\ kept.kind = "Direct" => direct.kind = "Committed" /\ kept.id = direct.id
      /\ direct.kind = "Committed" => kept = OnDirect(direct.id)
      /\ path.active.kind = "Unavailable" => kept.kind = "Unavailable"
  <2>1. CASE path.active.kind = "Unavailable"
    <3>1. kept = Unavailable
      BY <2>1
    <3> QED BY <1>3, <1>5, <2>1, <3>1, Parts DEF Unavailable
  <2>2. CASE path.active.kind = "Direct" /\ direct.kind = "Committed"
    <3>1. kept = OnDirect(direct.id)
      BY <2>2
    <3>2. OnDirect(direct.id) \in ActiveBusinessPath
      BY <1>3, <2>2, DirectParts
    <3> QED BY <2>2, <3>1, <3>2 DEF OnDirect
  <2>3. CASE /\ path.active.kind # "Unavailable"
             /\ ~(path.active.kind = "Direct" /\ direct.kind = "Committed")
    <3>1. kept = fallback
      BY <2>3
    <3> QED BY <1>3, <1>4, <1>5, <2>3, <3>1
  <2> QED BY <2>1, <2>2, <2>3
<1> HIDE DEF kept
<1>7. /\ active \in ActiveBusinessPath
      /\ active.kind \in {"Unavailable", "Direct", "Relay"}
      /\ active.kind = "Relay" => /\ is_confirmed(relay) /\ active.id = relay.id
                                  /\ ~direct_first_pending(path)
      /\ active.kind = "Direct" => direct.kind = "Committed" /\ active.id = direct.id
      /\ direct.kind = "Committed" => active = OnDirect(direct.id)
      /\ path.active.kind = "Unavailable" => active.kind = "Unavailable"
  <2>1. CASE direct_first_pending(path) /\ kept.kind = "Relay"
    <3>1. direct.kind # "Committed"
      BY <1>6, <2>1 DEF OnDirect
    <3> QED BY <2>1, <3>1, Parts DEF Unavailable
  <2>2. CASE ~(direct_first_pending(path) /\ kept.kind = "Relay")
    BY <1>6, <2>2
  <2> QED BY <2>1, <2>2
<1> HIDE DEF active
<1>8. s \in PathState
  BY <1>1, <1>2, <1>3, <1>7 DEF PathState
<1>9. /\ s.lifecycle = "Online" /\ s.epoch = e /\ s.direct_first = path.direct_first
      /\ s.active = active /\ s.relay = relay /\ s.direct = direct
      /\ s.compat = path.compat
  BY <1>1 DEF PathState
<1>10. /\ previous \in {None} \cup Paths
       /\ previous = None => path.active.kind = "Unavailable"
  <2>1. None \notin Paths
    BY PathConstants DEF PathConstants, Paths
  <2> QED BY <1>1, <2>1 DEF PathState, ActiveBusinessPath, Unavailable, network_path, Paths
<1>11. s.active.kind = "Unavailable" /\ previous = None =>
          s.compat \notin {"Direct", "Relay"}
  BY <1>1, <1>9, <1>10 DEF Good, state_is_valid
<1>12. t = set_projection_after_epoch_change(s, previous, e)
  BY DEF rebased, active, kept, fallback
<1> HIDE DEF s, previous, t
<1>13. /\ t \in PathState
       /\ t.lifecycle = "Online" /\ t.epoch = e
       /\ t.direct_first = path.direct_first
       /\ t.active = active /\ t.relay = relay /\ t.direct = direct
       /\ t.recovery.kind # "Stable" => t.recovery.epoch = e
       /\ t.active.kind = "Unavailable" => t.compat \notin {"Direct", "Relay"}
       /\ t.active.kind = "Direct" => t.compat = "Direct"
       /\ t.active.kind = "Relay" => t.compat = "Relay"
  BY <1>8, <1>9, <1>10, <1>11, <1>12, ProjectionAfterEpochChange
<1>14. commit_iff_active(t)
  BY <1>3, <1>7, <1>13 DEF commit_iff_active
<1>15. state_is_valid(t)
  <2>1. t.active.kind = "Direct" => t.direct = Committed(t.active.id)
    BY <1>3, <1>7, <1>13
  <2>2. t.direct.kind # "Idle" => t.direct.id.epoch = e
    BY <1>3, <1>13
  <2> QED BY <1>2, <1>7, <1>13, <2>1, <2>2, EpochFacts
          DEF state_is_valid, direct_first_pending
<1>16. Good(t)
  BY <1>13, <1>14, <1>15, EpochFacts DEF Good, unbound_is_fresh
<1>17. fences_advance(path, t) /\ window_kept(path, t) /\ proof_kept(path, t)
  BY <1>3, <1>13 DEF fences_advance, window_kept, proof_kept
<1> QED BY <1>16, <1>17 DEF StepAllowed, t

\* Lemma: a network handover carries over what was retained, restamped.
LEMMA NetworkGenerationAdvancedOK ==
    ASSUME Inv, NEW e \in PathEpoch, NEW retained, NetworkGenerationAdvanced(e, retained)
    PROVE  Preserved
<1> DEFINE receipt == Receipt("NetworkGenerationAdvanced", e, None, retained)
           relay == IF keeps_relay(retained) THEN relay_with_epoch(path.relay, e)
                    ELSE Unavailable
           direct == IF keeps_direct(retained) THEN with_epoch_if_committed(path.direct, e)
                     ELSE Idle
           s == rebased(e, relay, direct)
           t == network_advance(e, retained)
<1>1. /\ Good(path) /\ path.lifecycle = "Online" /\ path.epoch \in PathEpoch
      /\ e.session = path.epoch.session
      /\ e.net >= path.epoch.net
      /\ e.cand >= path.epoch.cand
  <2>1. Good(path) /\ path.lifecycle = "Online"
    BY DEF Inv, NetworkGenerationAdvanced
  <2>2. path.epoch \in PathEpoch
    BY <2>1 DEF Good, PathState, state_is_valid
  <2> QED BY <2>1, <2>2, EpochFacts DEF NetworkGenerationAdvanced
<1>2. CASE e = path.epoch
  BY <1>2, KeepsPath DEF NetworkGenerationAdvanced
<1>3. CASE e # path.epoch
  <2>1. Commit(t, receipt, None, FALSE)
    BY <1>3 DEF NetworkGenerationAdvanced
  <2>2. /\ relay \in {Unavailable, relay_with_epoch(path.relay, e)}
        /\ direct \in {Idle, with_epoch_if_committed(path.direct, e)}
    OBVIOUS
  <2> HIDE DEF receipt, relay, direct
  <2>3. Good(s) /\ StepAllowed(path, s) /\ s.epoch = e /\ s.lifecycle = "Online"
    <3>1. Good(s) /\ StepAllowed(path, s)
      BY <1>1, <2>2, Rebased
    <3>2. s.epoch = e /\ s.lifecycle = "Online"
      BY <1>1 DEF Good, PathState, rebased, set_projection_after_epoch_change
    <3> QED BY <3>1, <3>2
  <2>4. t = IF path.active.kind = "Direct" /\ s.active.kind = "Relay"
            THEN [s EXCEPT !.recovery = Degraded(e, "Direct", "Relay")] ELSE s
    BY DEF network_advance, relay, direct
  <2> HIDE DEF s, t
  <2>5. Good(t) /\ StepAllowed(path, t)
    <3>1. CASE t = s
      BY <2>3, <3>1
    <3>2. CASE t = [s EXCEPT !.recovery = Degraded(e, "Direct", "Relay")]
      <4>1. /\ Degraded(e, "Direct", "Relay") \in PathRecoveryState
            /\ Degraded(e, "Direct", "Relay").epoch = e
        BY Parts DEF Degraded, Paths
      <4>2. t \in PathState
        BY <2>3, <3>2, <4>1 DEF Good, PathState
      <4>3. /\ state_is_valid(t) /\ commit_iff_active(t) /\ unbound_is_fresh(t)
        BY <2>3, <3>2, <4>1
           DEF Good, PathState, state_is_valid, direct_first_pending,
               commit_iff_active, unbound_is_fresh
      <4>4. StepAllowed(path, t)
        BY <2>3, <3>2 DEF Good, PathState, StepAllowed, fences_advance, window_kept,
           proof_kept
      <4> QED BY <4>2, <4>3, <4>4 DEF Good
    <3> QED BY <2>4, <3>1, <3>2
  <2> QED BY <2>1, <2>5, CommitPreserves
<1> QED BY <1>2, <1>3

\* Lemma: a candidate refresh carries over the relay, and Direct if retained.
LEMMA RemoteCandidateEpochAdvancedOK ==
    ASSUME Inv, NEW e \in PathEpoch, NEW retain, RemoteCandidateEpochAdvanced(e, retain)
    PROVE  Preserved
<1> DEFINE relay == relay_with_epoch(path.relay, e)
           direct == IF retain THEN with_epoch_if_committed(path.direct, e) ELSE Idle
<1>1. /\ Good(path) /\ path.lifecycle = "Online" /\ path.epoch \in PathEpoch
      /\ e.session = path.epoch.session
      /\ e.net >= path.epoch.net
      /\ e.cand >= path.epoch.cand
  <2>1. Good(path) /\ path.lifecycle = "Online"
    BY DEF Inv, RemoteCandidateEpochAdvanced
  <2>2. path.epoch \in PathEpoch
    BY <2>1 DEF Good, PathState, state_is_valid
  <2> QED BY <2>1, <2>2, EpochFacts DEF RemoteCandidateEpochAdvanced
<1>2. CASE e = path.epoch
  BY <1>2, KeepsPath DEF RemoteCandidateEpochAdvanced, CommitPlain
<1>3. CASE e # path.epoch
  <2>1. Commit(rebased(e, relay, direct), None, None, FALSE)
    BY <1>3 DEF RemoteCandidateEpochAdvanced, CommitPlain
  <2>2. /\ relay \in {Unavailable, relay_with_epoch(path.relay, e)}
        /\ direct \in {Idle, with_epoch_if_committed(path.direct, e)}
    OBVIOUS
  <2> HIDE DEF relay, direct
  <2> QED BY <1>1, <2>1, <2>2, Rebased, CommitPreserves
<1> QED BY <1>2, <1>3

\* Lemma: every lifecycle event preserves the invariant and takes an allowed
\* step.
LEMMA LifecycleStepOK ==
    ASSUME Inv, now \in Nat, LifecycleStep
    PROVE  Preserved
<1>1. BoundEpoch \subseteq PathEpoch
  BY DEF BoundEpoch
<1> QED
  BY <1>1, IdentityResetOK, PeerOnlineOK, PeerLeftOK, DirectFirstStartedOK,
     DirectFirstDeadlineOK, NetworkGenerationAdvancedOK, RemoteCandidateEpochAdvancedOK
     DEF LifecycleStep

-----------------------------------------------------------------------------
(* The compatibility seam.                                                 *)

\* Lemma: the machine a legacy caller meets, bound if it was not.
LEMMA CompatBase ==
    ASSUME Inv, NEW e \in PathEpoch,
           \/ path.lifecycle = "Unbound"
           \/ exact_epoch(path, e),
           NEW s, s = [path EXCEPT !.lifecycle = "Online", !.epoch = e]
    PROVE  /\ s \in PathState /\ s.lifecycle = "Online" /\ s.epoch = e
           /\ s.direct_first = path.direct_first
           /\ s.active = path.active /\ s.relay = path.relay /\ s.direct = path.direct
           /\ s.relay.kind # "Unavailable" => s.relay.id.epoch = e
           /\ path.epoch # None => path.epoch = e
           /\ path.epoch = None => path.direct_first = None
<1>1. Good(path) /\ path \in PathState
  BY DEF Inv, Good
<1>2. /\ s \in PathState /\ s.lifecycle = "Online" /\ s.epoch = e
      /\ s.direct_first = path.direct_first
      /\ s.active = path.active /\ s.relay = path.relay /\ s.direct = path.direct
  BY <1>1 DEF PathState
<1>3. s.relay.kind # "Unavailable" => s.relay.id.epoch = e
  BY <1>1, <1>2 DEF Good, state_is_valid, exact_epoch, Unavailable
<1>4. /\ path.epoch # None => path.epoch = e
      /\ path.epoch = None => path.direct_first = None
  BY <1>1 DEF Good, state_is_valid, exact_epoch, unbound_is_fresh
<1> QED BY <1>2, <1>3, <1>4

\* Lemma: a proposal of the seam that keeps epoch and window preserves
\* everything.
LEMMA CompatEdit ==
    ASSUME Inv, NEW e \in PathEpoch,
           path.epoch # None => path.epoch = e,
           path.epoch = None => path.direct_first = None,
           NEW next, Good(next), next.epoch = e,
           next.direct_first = path.direct_first,
           next.direct.kind # "Committed" \/ "Direct" \in CompatStates,
           Commit(next, None, None, FALSE)
    PROVE  Preserved
<1>1. fences_advance(path, next)
  BY EpochFacts DEF fences_advance
<1>2. window_kept(path, next) /\ proof_kept(path, next)
  BY DEF window_kept, proof_kept
<1> QED BY <1>1, <1>2, CommitPreserves DEF StepAllowed

\* Lemma: a request that leaves no active path and no proof.
LEMMA CompatInactive ==
    ASSUME NEW e \in PathEpoch,
           NEW next \in PathState, next.lifecycle = "Online", next.epoch = e,
           next.active = Unavailable,
           next.relay.kind # "Unavailable" => next.relay.id.epoch = e,
           next.direct = Idle \/ next.direct = Probing(e),
           next.recovery.kind # "Stable" => next.recovery.epoch = e,
           next.compat \notin {"Direct", "Relay"}
    PROVE  Good(next) /\ next.direct.kind # "Committed"
<1>1. next.direct.kind # "Committed"
  BY DEF Idle, Probing
<1>2. next.direct.kind # "Idle" => next.direct.id.epoch = e
  BY DEF Idle, Probing
<1>3. state_is_valid(next)
  BY <1>2, EpochFacts DEF state_is_valid, Unavailable
<1>4. commit_iff_active(next) /\ unbound_is_fresh(next)
  BY <1>1, EpochFacts DEF commit_iff_active, unbound_is_fresh, Unavailable
<1> QED BY <1>1, <1>3, <1>4 DEF Good

\* Lemma: a request for Direct installs an ownerless proof and its path.
LEMMA CompatDirect ==
    ASSUME NEW v \in DirectValidationIdentity,
           NEW next \in PathState, next.lifecycle = "Online", next.epoch = v.epoch,
           next.epoch \in PathEpoch,
           next.active = OnDirect(v), next.direct = Committed(v),
           next.relay.kind # "Unavailable" => next.relay.id.epoch = v.epoch,
           next.recovery = Stable, next.compat = "Direct"
    PROVE  Good(next)
<1>1. state_is_valid(next)
  BY EpochFacts DEF state_is_valid, OnDirect, Committed, Stable
<1>2. commit_iff_active(next) /\ unbound_is_fresh(next)
  BY EpochFacts DEF commit_iff_active, unbound_is_fresh, OnDirect, Committed
<1> QED BY <1>1, <1>2 DEF Good

\* Lemma: a request for Relay installs a confirmed relay, which carries
\* traffic unless the startup window still reserves it for Direct.
LEMMA CompatRelay ==
    ASSUME NEW r \in RelayConnectionIdentity,
           NEW next \in PathState, next.lifecycle = "Online", next.epoch = r.epoch,
           next.epoch \in PathEpoch,
           next.active = IF direct_first_pending(next) THEN Unavailable ELSE OnRelay(r),
           next.relay = Confirmed(r), next.direct = Idle, next.recovery = Stable,
           next.compat = IF direct_first_pending(next) THEN "Connecting" ELSE "Relay"
    PROVE  Good(next) /\ next.direct.kind # "Committed"
<1>1. state_is_valid(next)
  <2>1. CASE direct_first_pending(next)
    BY <2>1, EpochFacts DEF state_is_valid, Unavailable, Confirmed, Idle, Stable
  <2>2. CASE ~direct_first_pending(next)
    BY <2>2, EpochFacts
       DEF state_is_valid, OnRelay, Confirmed, is_confirmed, Idle, Stable
  <2> QED BY <2>1, <2>2
<1>2. commit_iff_active(next) /\ unbound_is_fresh(next)
  BY EpochFacts DEF commit_iff_active, unbound_is_fresh, OnRelay, Unavailable, Idle
<1> QED BY <1>1, <1>2 DEF Good, Idle

\* Lemma: whatever state a legacy caller asks for.
LEMMA TransitionRequestedOK ==
    ASSUME Inv, NEW e \in PathEpoch, NEW state, NEW d \in DirectEndpoints,
           NEW r \in RelayConnectionIdentity, TransitionRequested(e, state, d, r)
    PROVE  Preserved
<1> DEFINE s == [path EXCEPT !.lifecycle = "Online", !.epoch = e]
           next == compat_state(s, e, state, d, r)
<1>1. /\ state \in CompatStates /\ r.epoch = e
      /\ path.lifecycle = "Unbound" \/ exact_epoch(path, e)
      /\ Commit(next, None, None, FALSE)
  BY DEF TransitionRequested, CompatibilityStateRequested, CommitPlain
<1>2. /\ s \in PathState /\ s.lifecycle = "Online" /\ s.epoch = e
      /\ s.direct_first = path.direct_first
      /\ s.active = path.active /\ s.relay = path.relay
      /\ s.relay.kind # "Unavailable" => s.relay.id.epoch = e
      /\ path.epoch # None => path.epoch = e
      /\ path.epoch = None => path.direct_first = None
  BY <1>1, CompatBase
<1>3. state \in ConnectionStates
  BY <1>1, PathConstants DEF PathConstants
<1>4. direct_first_pending(path) = direct_first_pending(s)
  BY <1>2 DEF direct_first_pending
<1>5. s.relay \in RelayPathState
  BY <1>2 DEF PathState
<1>6. /\ Unavailable \in ActiveBusinessPath
      /\ Idle \in DirectPathState /\ Probing(e) \in DirectPathState
  BY Parts
<1> HIDE DEF s
<1>7. Good(next) /\ next.epoch = e /\ next.direct_first = s.direct_first
      /\ (next.direct.kind # "Committed" \/ "Direct" \in CompatStates)
  <2>1. CASE state = "Direct"
    <3> DEFINE v == compatibility(e, d)
               t == [s EXCEPT !.direct = Committed(v), !.active = OnDirect(v),
                              !.recovery = Stable, !.compat = "Direct"]
    <3>1. next = t
      BY <2>1 DEF compat_state
    <3>2. v \in DirectValidationIdentity /\ v.epoch = e
      BY DEF compatibility, DirectValidationIdentity
    <3> HIDE DEF v
    <3>3. /\ OnDirect(v) \in ActiveBusinessPath /\ Committed(v) \in DirectPathState
          /\ Stable \in PathRecoveryState /\ "Direct" \in ConnectionStates
      BY <3>2, DirectParts, Parts DEF ConnectionStates
    <3>4. t \in PathState
      BY <1>2, <3>3 DEF PathState
    <3>5. /\ t.lifecycle = "Online" /\ t.epoch = e /\ t.active = OnDirect(v)
          /\ t.relay = s.relay /\ t.direct = Committed(v) /\ t.recovery = Stable
          /\ t.compat = "Direct" /\ t.direct_first = s.direct_first
      BY <1>2 DEF PathState
    <3> HIDE DEF t, next
    <3>6. Good(t)
      BY <1>2, <3>2, <3>4, <3>5, CompatDirect
    <3> QED BY <1>1, <2>1, <3>1, <3>5, <3>6
  <2>2. CASE state = "Relay"
    <3> DEFINE pending == direct_first_pending(s)
               t == [s EXCEPT !.direct = Idle, !.recovery = Stable,
                              !.relay = Confirmed(r),
                              !.active = IF pending THEN Unavailable ELSE OnRelay(r),
                              !.compat = IF pending THEN "Connecting" ELSE "Relay"]
    <3>1. next = t
      BY <1>2, <1>4, <2>2 DEF compat_state, PathState
    <3>2. /\ OnRelay(r) \in ActiveBusinessPath /\ Confirmed(r) \in RelayPathState
          /\ Stable \in PathRecoveryState
          /\ "Connecting" \in ConnectionStates /\ "Relay" \in ConnectionStates
      BY RelayParts, Parts DEF ConnectionStates
    <3> HIDE DEF pending
    <3>3. t \in PathState
      BY <1>2, <1>6, <3>2 DEF PathState
    <3>4. /\ t.lifecycle = "Online" /\ t.epoch = r.epoch
          /\ t.active = IF pending THEN Unavailable ELSE OnRelay(r)
          /\ t.relay = Confirmed(r) /\ t.direct = Idle /\ t.recovery = Stable
          /\ t.compat = IF pending THEN "Connecting" ELSE "Relay"
          /\ t.direct_first = s.direct_first
      BY <1>1, <1>2 DEF PathState
    <3>5. direct_first_pending(t) = pending
      BY <3>4 DEF direct_first_pending, pending
    <3> HIDE DEF t, next
    <3>6. Good(t) /\ t.direct.kind # "Committed"
      BY <1>1, <3>3, <3>4, <3>5, CompatRelay
    <3> QED BY <1>1, <3>1, <3>4, <3>6
  <2>3. CASE state = "HolePunching"
    <3> DEFINE t == [s EXCEPT !.active = Unavailable, !.direct = Probing(e),
                              !.recovery = Recovering(e), !.compat = state]
    <3>1. next = t
      BY <1>2, <2>3 DEF compat_state, PathState
    <3>2. Probing(e) \in DirectPathState /\ Recovering(e) \in PathRecoveryState
      BY Parts DEF Paths
    <3>3. t \in PathState
      BY <1>2, <1>3, <1>6, <3>2 DEF PathState
    <3>4. /\ t.lifecycle = "Online" /\ t.epoch = e /\ t.active = Unavailable
          /\ t.relay = s.relay /\ t.direct = Probing(e) /\ t.recovery = Recovering(e)
          /\ t.compat = state /\ t.direct_first = s.direct_first
      BY <1>2 DEF PathState
    <3>5. t.recovery.kind # "Stable" => t.recovery.epoch = e
      BY <3>4 DEF Recovering
    <3>6. t.compat \notin {"Direct", "Relay"}
      BY <2>3, <3>4
    <3> HIDE DEF t, next
    <3>7. Good(t) /\ t.direct.kind # "Committed"
      BY <1>2, <3>3, <3>4, <3>5, <3>6, CompatInactive
    <3> QED BY <3>1, <3>4, <3>7
  <2>4. CASE state = "FallbackToRelay"
    <3> DEFINE recovery == Degraded(e, IF s.active.kind = "Relay" THEN "Relay"
                                       ELSE "Direct", None)
    <3> DEFINE t == [s EXCEPT !.active = Unavailable, !.direct = Idle,
                              !.recovery = recovery, !.compat = state]
    <3>1. next = t
      BY <1>2, <2>4 DEF compat_state, PathState
    <3>2. Idle \in DirectPathState /\ recovery \in PathRecoveryState
      BY Parts DEF Paths
    <3>3. t \in PathState
      BY <1>2, <1>3, <1>6, <3>2 DEF PathState
    <3>4. /\ t.lifecycle = "Online" /\ t.epoch = e /\ t.active = Unavailable
          /\ t.relay = s.relay /\ t.direct = Idle /\ t.recovery = recovery
          /\ t.compat = state /\ t.direct_first = s.direct_first
      BY <1>2 DEF PathState
    <3>5. t.recovery.kind # "Stable" => t.recovery.epoch = e
      BY <3>4 DEF Degraded
    <3>6. t.compat \notin {"Direct", "Relay"}
      BY <2>4, <3>4
    <3> HIDE DEF t, next
    <3>7. Good(t) /\ t.direct.kind # "Committed"
      BY <1>2, <3>3, <3>4, <3>5, <3>6, CompatInactive
    <3> QED BY <3>1, <3>4, <3>7
  <2>5. CASE state = "Closed"
    <3> DEFINE t == [offline(s) EXCEPT !.epoch = e]
    <3>1. next = t
      BY <1>2, <2>5 DEF compat_state, offline, PathState
    <3>2. Good(t) /\ t.direct_first = s.direct_first /\ t.epoch = e
          /\ t.direct.kind = "Idle"
      BY <1>2, OfflineGood
    <3> HIDE DEF t, next
    <3> QED BY <3>1, <3>2
  <2>6. CASE state \in {"Idle", "Connecting", "Failed"}
    <3> DEFINE t == [s EXCEPT !.active = Unavailable, !.direct = Idle,
                              !.recovery = Stable, !.compat = state]
    <3>1. next = t
      BY <1>2, <2>6 DEF compat_state, PathState
    <3>2. Idle \in DirectPathState /\ Stable \in PathRecoveryState
      BY Parts DEF Paths
    <3>3. t \in PathState
      BY <1>2, <1>3, <1>6, <3>2 DEF PathState
    <3>4. /\ t.lifecycle = "Online" /\ t.epoch = e /\ t.active = Unavailable
          /\ t.relay = s.relay /\ t.direct = Idle /\ t.recovery = Stable
          /\ t.compat = state /\ t.direct_first = s.direct_first
      BY <1>2 DEF PathState
    <3>5. t.recovery.kind # "Stable" => t.recovery.epoch = e
      BY <3>4 DEF Stable
    <3>6. t.compat \notin {"Direct", "Relay"}
      BY <2>6, <3>4
    <3> HIDE DEF t, next
    <3>7. Good(t) /\ t.direct.kind # "Committed"
      BY <1>2, <3>3, <3>4, <3>5, <3>6, CompatInactive
    <3> QED BY <3>1, <3>4, <3>7
  <2> QED BY <1>3, <2>1, <2>2, <2>3, <2>4, <2>5, <2>6 DEF ConnectionStates
<1> HIDE DEF next
<1> QED BY <1>1, <1>2, <1>7, CompatEdit

-----------------------------------------------------------------------------
(* What the machine remembers: receipts, observations, the clock.          *)

Observation == [relay: RelayConnectionIdentity, token: HealthTokens]

Log ==
    /\ \A r \in receipts : r.epoch \in PathEpoch
    /\ observations \in Seq(Observation)
    /\ Len(observations) <= MaxAcceptedHealthObservations
    /\ now \in 0..MaxNow
    /\ suppressed \subseteq {"illegal", "duplicate"}

\* Lemma: the observation queue keeps its element type and its limit.
LEMMA PushBounded ==
    ASSUME NEW q \in Seq(Observation), Len(q) <= MaxAcceptedHealthObservations,
           NEW x \in Observation
    PROVE  /\ push_bounded(q, x) \in Seq(Observation)
           /\ Len(push_bounded(q, x)) <= MaxAcceptedHealthObservations
<1> DEFINE longer == Append(q, x)
<1>1. longer \in Seq(Observation) /\ longer # <<>> /\ Len(longer) = Len(q) + 1
  BY AppendProperties
<1>2. Tail(longer) \in Seq(Observation) /\ Len(Tail(longer)) = Len(longer) - 1
  BY <1>1, HeadTailProperties
<1>3. Len(q) \in Nat /\ MaxAcceptedHealthObservations \in Nat
  BY PathConstants, LenProperties DEF PathConstants
<1>4. CASE Len(longer) > MaxAcceptedHealthObservations
  BY <1>1, <1>2, <1>3, <1>4 DEF push_bounded
<1>5. CASE ~(Len(longer) > MaxAcceptedHealthObservations)
  BY <1>1, <1>3, <1>5 DEF push_bounded
<1> QED BY <1>4, <1>5

\* Lemma: an event whose receipt and observation are typed keeps the log typed.
LEMMA CommitLogs ==
    ASSUME Log, NEW next, NEW receipt, NEW observation, NEW clear,
           Commit(next, receipt, observation, clear),
           receipt = None \/ receipt.epoch \in PathEpoch,
           observation = None \/ observation \in Observation
    PROVE  Log'
<1>1. receipts' \subseteq receipts \cup ({receipt} \ {None})
  BY DEF Commit
<1>2. \A r \in receipts' : r.epoch \in PathEpoch
  BY <1>1 DEF Log
<1>3. \/ observations' = observations
      \/ observation # None /\ observations' = push_bounded(observations, observation)
  BY DEF Commit
<1>4. /\ observations' \in Seq(Observation)
      /\ Len(observations') <= MaxAcceptedHealthObservations
  BY <1>3, PushBounded DEF Log
<1>5. suppressed' \subseteq {"illegal", "duplicate"} /\ now' \in 0..MaxNow
  BY DEF Commit, Log
<1> QED BY <1>2, <1>4, <1>5 DEF Log

\* Lemma: the events that carry neither receipt nor observation.
LEMMA PlainLogs ==
    ASSUME Log, NEW next, CommitPlain(next)
    PROVE  Log'
BY CommitLogs DEF CommitPlain

\* Lemma: the events that carry the receipt of an epoch.
LEMMA ReceiptLogs ==
    ASSUME Log, NEW next, NEW type, NEW e \in PathEpoch, NEW id, NEW note,
           Commit(next, Receipt(type, e, id, note), None, FALSE)
    PROVE  Log'
<1>1. Receipt(type, e, id, note).epoch \in PathEpoch
  BY DEF Receipt
<1> QED BY <1>1, CommitLogs

\* Lemma: every step of the machine keeps the log typed.
LEMMA LogOK ==
    ASSUME Log, [Next]_vars
    PROVE  Log'
<1>1. ASSUME NEW e \in PathEpoch,
             \/ IdentityReset
             \/ PeerLeft(e)
             \/ DirectFirstStarted(e)
             \/ DirectFirstDeadline(e)
             \/ \E retain \in BOOLEAN : RemoteCandidateEpochAdvanced(e, retain)
      PROVE  Log'
  BY <1>1, PlainLogs DEF IdentityReset, PeerLeft, DirectFirstStarted,
     DirectFirstDeadline, RemoteCandidateEpochAdvanced
<1>2. ASSUME NEW e \in PathEpoch,
             \/ PeerOnline(e)
             \/ \E retained \in Retentions : NetworkGenerationAdvanced(e, retained)
      PROVE  Log'
  BY <1>2, ReceiptLogs DEF PeerOnline, NetworkGenerationAdvanced
<1>3. ASSUME IdentityReset PROVE Log'
  BY <1>3, PlainLogs DEF IdentityReset
<1>4. CASE LifecycleStep
  <2>1. BoundEpoch \subseteq PathEpoch
    BY DEF BoundEpoch
  <2> QED BY <1>1, <1>2, <1>3, <1>4, <2>1 DEF LifecycleStep
<1>5. ASSUME NEW r \in RelayConnectionIdentity,
             \/ RelayTransportReady(r)
             \/ RelayTransportLost(r)
      PROVE  Log'
  BY <1>5, PlainLogs DEF RelayTransportReady, RelayTransportLost
<1>6. ASSUME NEW r \in RelayConnectionIdentity, RelayPathFailed(r)
      PROVE  Log'
  BY <1>6, CommitLogs DEF RelayPathFailed
<1>7. ASSUME NEW r \in RelayConnectionIdentity, NEW direction,
             RelayPeerConfirmed(r) \/ RelayBusinessUsable(r, direction)
      PROVE  Log'
  <2>1. r.epoch \in PathEpoch
    BY DEF RelayConnectionIdentity
  <2> QED BY <1>7, <2>1, ReceiptLogs DEF RelayPeerConfirmed, RelayBusinessUsable
<1>8. ASSUME NEW r \in RelayConnectionIdentity, NEW token \in HealthTokens,
             RelayHealthObserved(r, token)
      PROVE  Log'
  <2>1. [relay |-> r, token |-> token] \in Observation
    BY DEF Observation
  <2>2. Commit(path, None, [relay |-> r, token |-> token], FALSE)
    BY <1>8 DEF RelayHealthObserved
  <2> QED BY <2>1, <2>2, CommitLogs
<1>9. CASE RelayStep
  BY <1>5, <1>6, <1>7, <1>8, <1>9 DEF RelayStep
<1>10. ASSUME NEW e \in PathEpoch, NEW owner,
              \/ DirectProbeStarted(e)
              \/ DirectProbeFailed(e)
              \/ DirectPathFailed(e)
              \/ DirectAttemptCancelled(e, owner)
       PROVE  Log'
  BY <1>10, PlainLogs DEF DirectProbeStarted, DirectProbeFailed, DirectPathFailed,
     DirectAttemptCancelled
<1>11. ASSUME NEW v, DirectValidationStarted(v) \/ DirectFirstSatisfied(v)
       PROVE  Log'
  BY <1>11, PlainLogs DEF DirectValidationStarted, DirectFirstSatisfied
<1>12. ASSUME NEW v, v.epoch \in PathEpoch, DirectCommitted(v)
       PROVE  Log'
  BY <1>12, ReceiptLogs DEF DirectCommitted
<1>13. CASE DirectStep
  <2>1. PICK e \in PathEpoch :
           \/ DirectProbeStarted(e)
           \/ DirectProbeFailed(e)
           \/ DirectPathFailed(e)
           \/ \E o \in Owners \cup {None} : DirectAttemptCancelled(e, o)
           \/ \E o \in Owners, q \in Requests \cup {None}, t \in DirectEndpoints :
                 DirectValidationStarted(owned(e, o, q, t))
           \/ \E o \in Owners, q \in Requests, t, d \in DirectEndpoints :
                 LET v == authenticated_ack(e, o, q, t, d)
                 IN  DirectCommitted(v) \/ DirectFirstSatisfied(v)
           \/ \E d \in DirectEndpoints :
                 LET v == compatibility(e, d)
                 IN  DirectCommitted(v) \/ DirectFirstSatisfied(v)
    BY <1>13 DEF DirectStep
  <2>2. \A o, q, t, d : authenticated_ack(e, o, q, t, d).epoch = e
    BY DEF authenticated_ack
  <2>3. \A d : compatibility(e, d).epoch = e
    BY DEF compatibility
  <2> QED BY <1>10, <1>11, <1>12, <2>1, <2>2, <2>3
<1>14. CASE CompatStep
  BY <1>14, PlainLogs DEF CompatStep, TransitionRequested, CompatibilityStateRequested
<1>15. CASE Tick
  BY <1>15, PathConstants DEF Tick, Log, PathConstants
<1>16. CASE UNCHANGED vars
  BY <1>16 DEF vars, Log
<1> QED BY <1>4, <1>9, <1>13, <1>14, <1>15, <1>16 DEF Next

-----------------------------------------------------------------------------
(* The theorems.                                                           *)

\* The inductive invariant: the clock is only there to type the deadlines.
IInv == Inv /\ now \in Nat

\* Lemma: the machine starts unbound, which is Good.
LEMMA InitOK == Init => IInv
<1> SUFFICES ASSUME Init PROVE IInv
  OBVIOUS
<1>1. Good(path)
  BY FreshGood DEF Init, unbound_state
<1>2. ReducerClosed /\ now \in Nat
  BY DEF Init, ReducerClosed
<1> QED BY <1>1, <1>2 DEF IInv, Inv

\* Lemma: every step of the machine preserves the invariant and is allowed.
LEMMA StepOK ==
    ASSUME IInv, [Next]_vars
    PROVE  IInv' /\ StepAllowed(path, path')
<1>1. Inv /\ now \in Nat
  BY DEF IInv
<1>2. CASE LifecycleStep \/ RelayStep \/ DirectStep \/ CompatStep
  <2>1. Preserved
    <3>1. CASE LifecycleStep
      BY <1>1, <3>1, LifecycleStepOK
    <3>2. CASE RelayStep
      BY <1>1, <3>2, RelayStepOK
    <3>3. CASE DirectStep
      BY <1>1, <3>3, DirectStepOK
    <3>4. CASE CompatStep
      BY <1>1, <3>4, TransitionRequestedOK DEF CompatStep, RelayConnectionIdentity
    <3> QED BY <1>2, <3>1, <3>2, <3>3, <3>4
  <2> QED BY <1>1, <2>1 DEF Preserved, IInv
<1>3. CASE Tick \/ UNCHANGED vars
  <2>1. path' = path /\ suppressed' = suppressed /\ now' \in Nat
    BY <1>1, <1>3 DEF Tick, vars
  <2>2. StepAllowed(path, path') /\ Good(path)
    BY <1>1, <2>1, StayAllowed DEF Inv
  <2>3. Good(path)' /\ ReducerClosed'
    BY <1>1, <2>1, <2>2
       DEF Inv, ReducerClosed, Good, state_is_valid, commit_iff_active, unbound_is_fresh
  <2> QED BY <2>1, <2>2, <2>3 DEF Inv, IInv
<1> QED BY <1>2, <1>3 DEF Next

\* Theorem: the inductive invariant holds throughout every behaviour.
THEOREM Invariance == Spec => []IInv
<1>1. IInv /\ [Next]_vars => IInv'
  BY StepOK
<1> QED BY <1>1, InitOK, PTL DEF Spec

\* Theorem: the machine's state always has the shape of PathState, the receipts
\* carry epochs, and the observation queue stays within its limit.
THEOREM TypeCorrect == Spec => []TypeOK
<1>1. Init => Log
  BY PathConstants DEF Init, Log, PathConstants
<1>2. Log /\ [Next]_vars => Log'
  BY LogOK
<1>3. IInv /\ Log => TypeOK
  BY DEF IInv, Inv, Good, Log, TypeOK
<1> QED BY <1>1, <1>2, <1>3, Invariance, PTL DEF Spec

\* Theorem: reduce() never proposes a state its own final check refuses; no
\* event that passed its fences is ever dropped as an illegal transition.
THEOREM ReducerNeverRefuses == Spec => []ReducerClosed
<1>1. IInv => ReducerClosed
  BY DEF IInv, Inv
<1> QED BY <1>1, Invariance, PTL

\* Theorem: a Direct proof is committed exactly while it carries traffic.
THEOREM DirectProofCarriesTraffic == Spec => []CommittedIffActive
<1>1. IInv => CommittedIffActive
  BY DEF IInv, Inv, Good, commit_iff_active, CommittedIffActive
<1> QED BY <1>1, Invariance, PTL

\* Theorem: the session, and within it the network generation and the
\* candidate epoch, never go back.
THEOREM FencesOnlyAdvance == Spec => FencesAdvance
<1>1. IInv /\ [Next]_vars =>
        [LET a == path.epoch
             b == path'.epoch
         IN  a # None /\ b # None =>
                \/ b.session > a.session
                \/ b.session = a.session /\ b.net >= a.net /\ b.cand >= a.cand]_vars
  BY StepOK DEF StepAllowed, fences_advance
<1> QED BY <1>1, Invariance, PTL DEF Spec, FencesAdvance

\* Theorem: a session gets one startup window, whose deadline never moves and
\* whose release is final.
THEOREM OneStartupWindow == Spec => WindowNeverRearmed
<1>1. IInv /\ [Next]_vars =>
        [LET a == path.direct_first
             b == path'.direct_first
         IN  /\ a # None
             /\ path'.epoch # None
             /\ path'.epoch.session = path.epoch.session
             => b # None /\ b.deadline = a.deadline /\ (a.released => b.released)]_vars
  BY StepOK DEF StepAllowed, window_kept
<1> QED BY <1>1, Invariance, PTL DEF Spec, WindowNeverRearmed

\* Theorem: as long as no legacy caller asks for the state Direct, which none
\* does, a committed proof is restamped by epoch changes but never altered.
THEOREM ProofNeverAltered ==
    ASSUME "Direct" \notin CompatStates
    PROVE  Spec => CommittedProofIsStable
<1>1. IInv /\ [Next]_vars =>
        [/\ path.direct.kind = "Committed"
         /\ path'.direct.kind = "Committed"
         => \/ path'.direct.id = with_epoch(path.direct.id, path'.epoch)
            \/ path.direct.id.owner = None /\ path'.direct.id.owner = None]_vars
  BY StepOK DEF StepAllowed, proof_kept
<1> QED BY <1>1, Invariance, PTL DEF Spec, CommittedProofIsStable

-----------------------------------------------------------------------------
(***************************************************************************)
(* Proofs about what the path reducer remembers and about the relay beside *)
(* Direct work: a replay it drops would not have brought a path, and a     *)
(* proven relay outlives whatever Direct does.                             *)
(*                                                                         *)
(* A receipt is harmless as long as what it stands for still holds         *)
(* (holds).  Commit drops the receipts that the new state contradicts, so  *)
(* an event has to show three things: its own receipt tells the truth of   *)
(* the state it proposes, a replay proposes the path that is active, and a *)
(* relay proof that is remembered does not lose the active path unless the *)
(* startup window is what it waits for (standing_kept).                    *)
(***************************************************************************)

\* Some path carries traffic, or the startup window decides which one will.
standing(s) == s.active.kind # "Unavailable" \/ direct_first_pending(s)

\* What receipt r says of state s.
holds(r, s) ==
    /\ r.epoch = s.epoch
    /\ is_relay_receipt(r) =>
          is_confirmed(s.relay) /\ same_transport(s.relay.id, r.id) /\ standing(s)
    /\ r.type = "DirectCommitted" =>
          /\ s.direct.kind = "Committed"
          /\ s.direct.id = r.id \/ same_validation_request(s.direct.id, r.id)

Honest == \A r \in receipts : holds(r, path)

standing_kept(s, t) ==
    /\ t.epoch = s.epoch
    /\ is_confirmed(s.relay) /\ standing(s)
    /\ is_confirmed(t.relay)
    => standing(t)

relay_kept(s, t) ==
    /\ t.direct # s.direct
    /\ t.epoch = s.epoch
    /\ t.lifecycle = "Online"
    /\ is_confirmed(s.relay)
    => /\ is_confirmed(t.relay)
       /\ s.active.kind = "Relay" => t.active.kind # "Unavailable"

\* What the proofs conclude about one event.
Remembers ==
    /\ Honest'
    /\ ReplayHidesNoPath => ReplayHidesNoPath'
    /\ relay_kept(path, path')

\* The production callers of transition() ask for these two states only.
CompatCallers == CompatStates \subseteq {"Connecting", "Relay"}

-----------------------------------------------------------------------------
\* Lemma: what an event has to show for its receipt, its replay and the
\* receipts it finds.
LEMMA CommitRemembers ==
    ASSUME Honest, NEW next, NEW receipt, NEW observation, NEW clear \in BOOLEAN,
           Commit(next, receipt, observation, clear),
           receipt = None \/ holds(receipt, next),
           receipt # None /\ receipt \in receipts => next.active = path.active,
           observation # None => next.active = path.active,
           clear \/ standing_kept(path, next),
           relay_kept(path, next)
    PROVE  Remembers
<1> DEFINE legal == state_is_valid(next)
           replay == \/ receipt # None /\ receipt \in receipts
                     \/ observation # None
                        /\ \E i \in DOMAIN observations : observations[i] = observation
           cleared == {r \in receipts : clear => ~is_relay_receipt(r)}
           kept == {r \in cleared : next # path => remains_current(r, next)}
<1>1. CASE ~(legal /\ ~replay)
  <2>1. path' = path /\ receipts' = receipts
    BY <1>1 DEF Commit
  <2>2. "duplicate" \in suppressed' =>
           "duplicate" \in suppressed \/ (replay /\ next.active # path.active)
    BY DEF Commit
  <2>3. replay => next.active = path.active
    OBVIOUS
  <2>4. Honest'
    BY <2>1 DEF Honest, holds, is_relay_receipt, standing, direct_first_pending
  <2>5. relay_kept(path, path')
    BY <2>1 DEF relay_kept
  <2> HIDE DEF replay
  <2> QED BY <2>2, <2>3, <2>4, <2>5 DEF Remembers, ReplayHidesNoPath
<1>2. CASE legal /\ ~replay
  <2>1. path' = next /\ receipts' = kept \cup ({receipt} \ {None})
    BY <1>2 DEF Commit
  <2>2. "duplicate" \in suppressed' => "duplicate" \in suppressed
    BY <1>2 DEF Commit
  <2>3. ASSUME NEW r \in kept PROVE holds(r, next)
    <3>1. r \in receipts /\ holds(r, path) /\ (clear => ~is_relay_receipt(r))
      BY <2>3 DEF Honest
    <3>2. CASE next = path
      BY <3>1, <3>2
    <3>3. CASE next # path
      <4>1. remains_current(r, next)
        BY <2>3, <3>3
      <4>2. r.epoch = next.epoch
        BY <4>1 DEF remains_current
      <4>3. r.type = "DirectCommitted" => next.direct.kind = "Committed" /\ next.direct.id = r.id
        BY <4>1 DEF remains_current, Committed
      <4>4. ASSUME is_relay_receipt(r)
            PROVE  is_confirmed(next.relay) /\ same_transport(next.relay.id, r.id) /\ standing(next)
        <5>1. is_confirmed(next.relay) /\ same_transport(next.relay.id, r.id)
          BY <4>1, <4>4 DEF remains_current, is_relay_receipt, is_confirmed
        <5>2. is_confirmed(path.relay) /\ standing(path) /\ path.epoch = next.epoch
          BY <3>1, <4>2, <4>4 DEF holds
        <5>3. standing_kept(path, next)
          BY <3>1, <4>4
        <5> QED BY <5>1, <5>2, <5>3 DEF standing_kept
      <4> QED BY <4>2, <4>3, <4>4 DEF holds
    <3> QED BY <3>2, <3>3
  <2>4. \A r \in receipts' : holds(r, next)
    BY <2>1, <2>3
  <2>5. Honest'
    BY <2>1, <2>4 DEF Honest, holds, is_relay_receipt, standing, direct_first_pending
  <2> QED BY <2>1, <2>2, <2>5 DEF Remembers, ReplayHidesNoPath, relay_kept
<1> QED BY <1>1, <1>2

\* Lemma: the same for an event without receipt and observation.
LEMMA PlainRemembers ==
    ASSUME Honest, NEW next, CommitPlain(next),
           standing_kept(path, next), relay_kept(path, next)
    PROVE  Remembers
BY CommitRemembers DEF CommitPlain

\* Lemma: an event that proposes the state it found has nothing to show.
LEMMA StaysRemembers ==
    ASSUME Honest, CommitPlain(path)
    PROVE  Remembers
BY PlainRemembers DEF standing_kept, relay_kept

\* Lemma: an event that leaves path, relay and window as they are.
LEMMA AsideRemembers ==
    ASSUME Honest, NEW next, CommitPlain(next),
           next.active = path.active, next.relay = path.relay,
           next.direct_first = path.direct_first
    PROVE  Remembers
<1>1. standing_kept(path, next) /\ relay_kept(path, next)
  BY DEF standing_kept, relay_kept, standing, direct_first_pending
<1> QED BY <1>1, PlainRemembers

-----------------------------------------------------------------------------
(* Relay events.                                                           *)

\* Lemma: a transport that comes up is not proven, and a proven one that it
\* would replace leaves with its proof.
LEMMA RelayTransportReadyRemembers ==
    ASSUME Inv, Honest, NEW r \in RelayConnectionIdentity, RelayTransportReady(r)
    PROVE  Remembers
<1> DEFINE ready == [path EXCEPT !.relay = Ready(r)]
           next == IF is_confirmed(path.relay) /\ same_transport(path.relay.id, r) THEN path
                   ELSE IF path.active.kind = "Relay" /\ ~active_relay_is(r)
                        THEN relay_degraded(ready, path.epoch)
                   ELSE ready
<1>1. CommitPlain(next)
  BY DEF RelayTransportReady
<1>2. path \in PathState
  BY DEF Inv, Good
<1>3. CASE next = path
  BY <1>1, <1>3, StaysRemembers
<1>4. CASE next # path
  <2>1. next.direct = path.direct /\ next.relay = Ready(r)
    BY <1>2, <1>4 DEF PathState, relay_degraded
  <2>2. ~is_confirmed(next.relay)
    BY <2>1 DEF is_confirmed, Ready
  <2> HIDE DEF next
  <2> QED BY <1>1, <2>1, <2>2, PlainRemembers DEF standing_kept, relay_kept
<1> QED BY <1>3, <1>4

\* Lemma: a delivery proof the reducer has already seen proposes the path that
\* carries traffic, since what the receipt stands for still holds.
LEMMA RelayProofRemembers ==
    ASSUME Inv, Honest,
           NEW r \in RelayConnectionIdentity, exact_epoch(path, r.epoch),
           NEW relay \in {Confirmed(r), Usable(r)},
           NEW next,
           next.epoch = path.epoch, next.relay = relay, next.direct = path.direct,
           next.active = IF relay_selectable THEN OnRelay(r) ELSE path.active,
           next.direct_first = path.direct_first,
           NEW receipt, is_relay_receipt(receipt),
           receipt.epoch = r.epoch, receipt.id = r,
           Commit(next, receipt, None, FALSE)
    PROVE  Remembers
<1>1. Good(path) /\ path \in PathState /\ path.lifecycle = "Online" /\ r.epoch = path.epoch
  BY DEF Inv, Good, exact_epoch
<1>2. is_confirmed(relay) /\ relay.id = r /\ same_transport(r, r)
  BY DEF is_confirmed, Confirmed, Usable, same_transport
<1>3. OnRelay(r).kind = "Relay"
  BY DEF OnRelay
<1>4. standing(next)
  BY <1>3 DEF standing, direct_first_pending, relay_selectable
<1>5. holds(receipt, next)
  BY <1>1, <1>2, <1>4 DEF holds, is_relay_receipt
<1>6. ASSUME receipt \in receipts PROVE next.active = path.active
  <2>1. is_confirmed(path.relay) /\ same_transport(path.relay.id, r) /\ standing(path)
    BY <1>6 DEF Honest, holds
  <2>2. CASE relay_selectable
    <3>1. path.active.kind = "Relay"
      BY <1>1, <2>1, <2>2
         DEF standing, relay_selectable, PathState, ActiveBusinessPath, Unavailable
    <3>2. path.active.id = path.relay.id /\ path.relay.id.epoch = path.epoch
      BY <1>1, <2>1, <3>1 DEF Good, state_is_valid, is_confirmed
    <3>3. path.active \in [kind: {"Relay"}, id: RelayConnectionIdentity]
      BY <1>1, <3>1 DEF PathState, ActiveBusinessPath, Unavailable
    <3>4. path.active.id = r
      BY <1>1, <2>1, <3>2, <3>3 DEF same_transport, RelayConnectionIdentity
    <3> QED BY <2>2, <3>3, <3>4 DEF OnRelay
  <2>3. CASE ~relay_selectable
    BY <2>3
  <2> QED BY <2>2, <2>3
<1>7. standing_kept(path, next) /\ relay_kept(path, next)
  BY <1>4 DEF standing_kept, relay_kept
<1> QED BY <1>5, <1>6, <1>7, CommitRemembers

\* Lemma: the same, for the confirmation of the peer.
LEMMA RelayPeerConfirmedRemembers ==
    ASSUME Inv, Honest, NEW r \in RelayConnectionIdentity, RelayPeerConfirmed(r)
    PROVE  Remembers
<1> DEFINE relay == IF path.relay.kind = "Usable" THEN Usable(r) ELSE Confirmed(r)
           recovery == IF path.direct.kind \in {"Probing", "Validating"}
                       THEN path.recovery ELSE Stable
           proven == [path EXCEPT !.relay = relay]
           next == IF ~relay_selectable THEN proven
                   ELSE [proven EXCEPT !.active = OnRelay(r), !.compat = "Relay",
                                       !.recovery = recovery]
           receipt == Receipt("RelayPeerConfirmed", r.epoch, r, None)
<1>1. path \in PathState /\ exact_epoch(path, r.epoch)
  BY DEF Inv, Good, RelayPeerConfirmed
<1>2. Commit(next, receipt, None, FALSE)
  BY DEF RelayPeerConfirmed
<1>3. relay \in {Confirmed(r), Usable(r)}
  OBVIOUS
<1>4. is_relay_receipt(receipt) /\ receipt.epoch = r.epoch /\ receipt.id = r
  BY DEF is_relay_receipt, Receipt
<1> HIDE DEF relay, recovery, receipt
<1>5. /\ next.epoch = path.epoch /\ next.relay = relay /\ next.direct = path.direct
      /\ next.active = IF relay_selectable THEN OnRelay(r) ELSE path.active
      /\ next.direct_first = path.direct_first
  BY <1>1 DEF PathState
<1> HIDE DEF next
<1> QED BY <1>1, <1>2, <1>3, <1>4, <1>5, RelayProofRemembers

\* Lemma: the same for business.
LEMMA RelayBusinessUsableRemembers ==
    ASSUME Inv, Honest, NEW r \in RelayConnectionIdentity, NEW direction,
           RelayBusinessUsable(r, direction)
    PROVE  Remembers
<1> DEFINE usable == [path EXCEPT !.relay = Usable(r)]
           next == IF ~relay_selectable THEN usable
                   ELSE [usable EXCEPT !.active = OnRelay(r), !.compat = "Relay"]
           receipt == Receipt("RelayBusiness", r.epoch, r, direction)
<1>1. path \in PathState /\ exact_epoch(path, r.epoch)
  BY DEF Inv, Good, RelayBusinessUsable
<1>2. Commit(next, receipt, None, FALSE)
  BY DEF RelayBusinessUsable
<1>3. is_relay_receipt(receipt) /\ receipt.epoch = r.epoch /\ receipt.id = r
  BY DEF is_relay_receipt, Receipt
<1> HIDE DEF receipt
<1>4. /\ next.epoch = path.epoch /\ next.relay = Usable(r) /\ next.direct = path.direct
      /\ next.active = IF relay_selectable THEN OnRelay(r) ELSE path.active
      /\ next.direct_first = path.direct_first
  BY <1>1 DEF PathState
<1> HIDE DEF next
<1> QED BY <1>1, <1>2, <1>3, <1>4, RelayProofRemembers

\* Lemma: a lost transport takes its proof along.
LEMMA RelayTransportLostRemembers ==
    ASSUME Inv, Honest, NEW r \in RelayConnectionIdentity, RelayTransportLost(r)
    PROVE  Remembers
<1> DEFINE gone == [path EXCEPT !.relay = Unavailable]
           next == IF path.relay.kind = "Unavailable" THEN path
                   ELSE IF active_relay_is(r) THEN relay_degraded(gone, r.epoch)
                   ELSE gone
<1>1. CommitPlain(next)
  BY DEF RelayTransportLost
<1>2. path \in PathState
  BY DEF Inv, Good
<1>3. CASE next = path
  BY <1>1, <1>3, StaysRemembers
<1>4. CASE next # path
  <2>1. next.direct = path.direct /\ next.relay = Unavailable
    BY <1>2, <1>4 DEF PathState, relay_degraded
  <2>2. ~is_confirmed(next.relay)
    BY <2>1 DEF is_confirmed, Unavailable
  <2> HIDE DEF next
  <2> QED BY <1>1, <2>1, <2>2, PlainRemembers DEF standing_kept, relay_kept
<1> QED BY <1>3, <1>4

\* Lemma: a failed path leaves a proof without a path, which is why the relay
\* receipts go.
LEMMA RelayPathFailedRemembers ==
    ASSUME Inv, Honest, NEW r \in RelayConnectionIdentity, RelayPathFailed(r)
    PROVE  Remembers
<1> DEFINE next == IF is_confirmed(path.relay) /\ active_relay_is(r)
                   THEN relay_degraded(path, r.epoch) ELSE path
<1>1. Commit(next, None, None, TRUE)
  BY DEF RelayPathFailed
<1>2. next.direct = path.direct
  BY DEF Inv, Good, PathState, relay_degraded
<1> HIDE DEF next
<1> QED BY <1>1, <1>2, CommitRemembers DEF relay_kept

\* Lemma: a health sample changes no path.
LEMMA RelayHealthObservedRemembers ==
    ASSUME Honest, NEW r, NEW token, RelayHealthObserved(r, token)
    PROVE  Remembers
<1>1. Commit(path, None, [relay |-> r, token |-> token], FALSE)
  BY DEF RelayHealthObserved
<1>2. standing_kept(path, path) /\ relay_kept(path, path)
  BY DEF standing_kept, relay_kept
<1> QED BY <1>1, <1>2, CommitRemembers

\* Lemma: every relay event remembers only what holds.
LEMMA RelayStepRemembers ==
    ASSUME Inv, Honest, RelayStep
    PROVE  Remembers
BY RelayTransportReadyRemembers, RelayPeerConfirmedRemembers,
   RelayBusinessUsableRemembers, RelayHealthObservedRemembers,
   RelayTransportLostRemembers, RelayPathFailedRemembers DEF RelayStep

-----------------------------------------------------------------------------
(* Direct events.                                                          *)

\* Lemma: Direct work that is not proven leaves path, relay and window alone.
LEMMA DirectWorkRemembers ==
    ASSUME Inv, Honest, NEW v, NEW e, NEW owner,
           \/ DirectProbeStarted(e)
           \/ DirectValidationStarted(v)
           \/ DirectProbeFailed(e)
           \/ DirectAttemptCancelled(e, owner)
    PROVE  Remembers
<1> DEFINE aside(t) == /\ t.active = path.active
                       /\ t.relay = path.relay
                       /\ t.direct_first = path.direct_first
<1>1. path \in PathState
  BY DEF Inv, Good
<1>2. CASE DirectProbeStarted(e)
  <2> DEFINE next == punching([path EXCEPT !.direct = Probing(e), !.recovery = Recovering(e)])
  <2>1. aside(next)
    BY <1>1 DEF PathState, punching
  <2>2. CommitPlain(path) \/ CommitPlain(next)
    BY <1>2 DEF DirectProbeStarted
  <2> HIDE DEF next
  <2> QED BY <2>1, <2>2, AsideRemembers
<1>3. CASE DirectValidationStarted(v)
  <2> DEFINE next == punching([path EXCEPT !.direct = Validating(v),
                                           !.recovery = Recovering(v.epoch)])
  <2>1. aside(next)
    BY <1>1 DEF PathState, punching
  <2>2. CommitPlain(path) \/ CommitPlain(next)
    BY <1>3 DEF DirectValidationStarted
  <2> HIDE DEF next
  <2> QED BY <2>1, <2>2, AsideRemembers
<1>4. CASE DirectProbeFailed(e)
  <2> DEFINE next == direct_failed(path, e)
  <2>1. aside(next)
    BY <1>1 DEF PathState, direct_failed
  <2>2. CommitPlain(path) \/ CommitPlain(next)
    BY <1>4 DEF DirectProbeFailed
  <2> HIDE DEF next
  <2> QED BY <2>1, <2>2, AsideRemembers
<1>5. CASE DirectAttemptCancelled(e, owner)
  <2> DEFINE next == [path EXCEPT !.direct = Idle, !.recovery = Stable,
                                  !.compat = IF path.active.kind = "Unavailable"
                                             THEN "Idle" ELSE path.compat]
  <2>1. aside(next)
    BY <1>1 DEF PathState
  <2>2. CommitPlain(path) \/ CommitPlain(next)
    BY <1>5 DEF DirectAttemptCancelled
  <2> HIDE DEF next
  <2> QED BY <2>1, <2>2, AsideRemembers
<1> QED BY <1>2, <1>3, <1>4, <1>5

\* Lemma: a proof the reducer has already seen repeats the committed request.
LEMMA DirectCommittedRemembers ==
    ASSUME Inv, Honest, NEW v, DirectCommitted(v)
    PROVE  Remembers
<1> DEFINE repeated == /\ path.direct.kind = "Committed"
                       /\ \/ path.direct.id = v
                          \/ same_validation_request(path.direct.id, v)
           new == [path EXCEPT !.direct = Committed(v), !.active = OnDirect(v),
                               !.recovery = Stable, !.compat = "Direct"]
           next == IF repeated THEN path ELSE new
           receipt == Receipt("DirectCommitted", v.epoch, v, None)
<1>1. path \in PathState /\ path.epoch = v.epoch
  BY DEF Inv, Good, DirectCommitted, exact_epoch
<1>2. Commit(next, receipt, None, FALSE)
  BY DEF DirectCommitted
<1>3. /\ new.epoch = path.epoch /\ new.relay = path.relay
      /\ new.direct = Committed(v) /\ new.active = OnDirect(v)
  BY <1>1 DEF PathState
<1>4. /\ receipt.type = "DirectCommitted" /\ ~is_relay_receipt(receipt)
      /\ receipt.epoch = v.epoch /\ receipt.id = v
  BY DEF Receipt, is_relay_receipt
<1> HIDE DEF new, receipt
<1>5. holds(receipt, next)
  <2>1. CASE repeated
    BY <1>1, <1>4, <2>1 DEF holds
  <2>2. CASE ~repeated
    BY <1>1, <1>3, <1>4, <2>2 DEF holds, Committed
  <2> QED BY <2>1, <2>2
<1>6. receipt \in receipts => next.active = path.active
  BY <1>4 DEF Honest, holds
<1>7. standing_kept(path, next) /\ relay_kept(path, next)
  BY <1>3 DEF standing_kept, relay_kept, standing, OnDirect
<1> HIDE DEF next
<1> QED BY <1>2, <1>5, <1>6, <1>7, CommitRemembers

\* Lemma: a failed Direct path falls back to a proven relay, or the window
\* that is still open will.
LEMMA DirectPathFailedRemembers ==
    ASSUME Inv, Honest, NEW e, DirectPathFailed(e)
    PROVE  Remembers
<1> DEFINE fallback == IF direct_first_pending(path) THEN Unavailable
                       ELSE relay_or_unavailable(path.relay)
           lost == [path EXCEPT
                      !.direct = Idle, !.active = fallback,
                      !.recovery = Degraded(e, "Direct", network_path(fallback)),
                      !.compat = IF fallback = Unavailable THEN "FallbackToRelay"
                                 ELSE "Relay"]
           failed == direct_failed(path, e)
<1>1. path \in PathState
  BY DEF Inv, Good
<1>2. CASE path.active.kind # "Direct"
  <2>1. CommitPlain(failed)
    BY <1>2 DEF DirectPathFailed
  <2>2. /\ failed.active = path.active /\ failed.relay = path.relay
        /\ failed.direct_first = path.direct_first
    BY <1>1 DEF PathState, direct_failed
  <2> HIDE DEF failed
  <2> QED BY <2>1, <2>2, AsideRemembers
<1>3. CASE path.active.kind = "Direct"
  <2>1. CommitPlain(lost)
    BY <1>3 DEF DirectPathFailed
  <2>2. /\ lost.active = fallback /\ lost.relay = path.relay
        /\ lost.direct_first = path.direct_first
    BY <1>1 DEF PathState
  <2>3. is_confirmed(path.relay) /\ ~direct_first_pending(path) =>
           fallback.kind # "Unavailable"
    BY DEF relay_or_unavailable, OnRelay
  <2> HIDE DEF lost, fallback
  <2>4. standing_kept(path, lost) /\ relay_kept(path, lost)
    BY <1>3, <2>2, <2>3 DEF standing_kept, relay_kept, standing, direct_first_pending
  <2> QED BY <2>1, <2>4, PlainRemembers
<1> QED BY <1>2, <1>3

\* Lemma: a Direct path that carries traffic is a path, window or not.
LEMMA DirectFirstSatisfiedRemembers ==
    ASSUME Inv, Honest, NEW v, DirectFirstSatisfied(v)
    PROVE  Remembers
<1> DEFINE next == [path EXCEPT !.direct_first = release(path.direct_first)]
<1>1. CommitPlain(next) /\ path.active = OnDirect(v)
  BY DEF DirectFirstSatisfied
<1>2. next.active = path.active /\ next.direct = path.direct
  BY DEF Inv, Good, PathState
<1> HIDE DEF next
<1>3. standing_kept(path, next) /\ relay_kept(path, next)
  BY <1>1, <1>2 DEF standing_kept, relay_kept, standing, OnDirect
<1> QED BY <1>1, <1>3, PlainRemembers

\* Lemma: every Direct event remembers only what holds.
LEMMA DirectStepRemembers ==
    ASSUME Inv, Honest, DirectStep
    PROVE  Remembers
BY DirectWorkRemembers, DirectCommittedRemembers, DirectPathFailedRemembers,
   DirectFirstSatisfiedRemembers DEF DirectStep

-----------------------------------------------------------------------------
(* The startup window, the lifecycle and the legacy callers.               *)

\* Lemma: a window opens closed over a path that carries traffic, and where
\* none does nothing has been remembered that says otherwise.
LEMMA DirectFirstStartedRemembers ==
    ASSUME Inv, Honest, NEW e, DirectFirstStarted(e)
    PROVE  Remembers
<1> DEFINE window == [deadline |-> now + DirectFirstWindow,
                      released |-> path.active.kind # "Unavailable"]
           next == [path EXCEPT !.direct_first = window]
<1>1. CASE path.direct_first # None
  BY <1>1, StaysRemembers DEF DirectFirstStarted
<1>2. CASE path.direct_first = None
  <2>1. CommitPlain(next)
    BY <1>2 DEF DirectFirstStarted
  <2>2. next.active = path.active /\ next.direct = path.direct
    BY DEF Inv, Good, PathState
  <2> HIDE DEF next
  <2>3. standing_kept(path, next) /\ relay_kept(path, next)
    BY <1>2, <2>2 DEF standing_kept, relay_kept, standing, direct_first_pending
  <2> QED BY <2>1, <2>3, PlainRemembers
<1> QED BY <1>1, <1>2

\* Lemma: a window that closes hands over to the relay that waited for it.
LEMMA DirectFirstDeadlineRemembers ==
    ASSUME Inv, Honest, NEW e, DirectFirstDeadline(e)
    PROVE  Remembers
<1> DEFINE released == [path EXCEPT !.direct_first = release(path.direct_first)]
           relayed == [released EXCEPT !.active = OnRelay(path.relay.id),
                                       !.compat = "Relay"]
           next == IF path.active.kind # "Direct" /\ is_confirmed(path.relay)
                   THEN relayed ELSE released
<1>1. CommitPlain(next)
  BY DEF DirectFirstDeadline
<1>2. path \in PathState
  BY DEF Inv, Good
<1>3. /\ next.direct = path.direct /\ next.relay = path.relay
      /\ next.active = IF path.active.kind # "Direct" /\ is_confirmed(path.relay)
                       THEN OnRelay(path.relay.id) ELSE path.active
  BY <1>2 DEF PathState
<1> HIDE DEF next
<1>4. standing_kept(path, next) /\ relay_kept(path, next)
  BY <1>3 DEF standing_kept, relay_kept, standing, OnRelay
<1> QED BY <1>1, <1>4, PlainRemembers

\* Lemma: an event whose own receipt says nothing but the epoch it leads to.
LEMMA EpochReceiptRemembers ==
    ASSUME Honest, NEW e, NEW type \in {"PeerOnline", "NetworkGenerationAdvanced"},
           NEW note, NEW next, next.epoch = e,
           e = path.epoch => next = path,
           Commit(next, Receipt(type, e, None, note), None, FALSE)
    PROVE  Remembers
<1> DEFINE receipt == Receipt(type, e, None, note)
<1>1. receipt.type = type /\ receipt.epoch = e /\ ~is_relay_receipt(receipt)
  BY DEF Receipt, is_relay_receipt
<1>2. Commit(next, receipt, None, FALSE)
  OBVIOUS
<1> HIDE DEF receipt
<1>3. holds(receipt, next)
  BY <1>1 DEF holds
<1>4. receipt \in receipts => next.active = path.active
  BY <1>1 DEF Honest, holds
<1>5. standing_kept(path, next) /\ relay_kept(path, next)
  BY DEF standing_kept, relay_kept
<1> QED BY <1>2, <1>3, <1>4, <1>5, CommitRemembers

\* Lemma: a session that begins finds no receipt of its own.
LEMMA PeerOnlineRemembers ==
    ASSUME Inv, Honest, NEW e \in PathEpoch, PeerOnline(e)
    PROVE  Remembers
<1> DEFINE newer == path.epoch # None => e.session > path.epoch.session
           next == IF newer THEN fresh_state("Online", e) ELSE path
<1>1. Commit(next, Receipt("PeerOnline", e, None, None), None, FALSE)
  BY DEF PeerOnline
<1>2. next.epoch = e
  BY DEF PeerOnline, fresh_state
<1>3. ASSUME e = path.epoch PROVE next = path
  <2>1. ~newer
    BY <1>3, EpochFacts
  <2> QED BY <2>1
<1> HIDE DEF next
<1> QED BY <1>1, <1>2, <1>3, EpochReceiptRemembers

\* Lemma: a handover leads to an epoch of its own.
LEMMA NetworkGenerationAdvancedRemembers ==
    ASSUME Inv, Honest, NEW e, NEW retained, NetworkGenerationAdvanced(e, retained)
    PROVE  Remembers
<1> DEFINE next == IF e = path.epoch THEN path ELSE network_advance(e, retained)
<1>1. Commit(next, Receipt("NetworkGenerationAdvanced", e, None, retained), None, FALSE)
  BY DEF NetworkGenerationAdvanced
<1>2. next.epoch = e
  BY DEF Inv, Good, PathState, network_advance, rebased,
     set_projection_after_epoch_change
<1>3. e = path.epoch => next = path
  OBVIOUS
<1> HIDE DEF next
<1> QED BY <1>1, <1>2, <1>3, EpochReceiptRemembers

\* Lemma: so does a candidate refresh.
LEMMA RemoteCandidateEpochAdvancedRemembers ==
    ASSUME Inv, Honest, NEW e, NEW retain, RemoteCandidateEpochAdvanced(e, retain)
    PROVE  Remembers
<1> DEFINE next == rebased(e, relay_with_epoch(path.relay, e),
                           IF retain THEN with_epoch_if_committed(path.direct, e) ELSE Idle)
<1>1. CASE e = path.epoch
  BY <1>1, StaysRemembers DEF RemoteCandidateEpochAdvanced
<1>2. CASE e # path.epoch
  <2>1. CommitPlain(next)
    BY <1>2 DEF RemoteCandidateEpochAdvanced
  <2>2. next.epoch = e
    BY DEF Inv, Good, PathState, rebased, set_projection_after_epoch_change
  <2> HIDE DEF next
  <2> QED BY <1>2, <2>1, <2>2, PlainRemembers DEF standing_kept, relay_kept
<1> QED BY <1>1, <1>2

\* Lemma: a machine that is reset or left behind has no relay and is not online.
LEMMA LeavingRemembers ==
    ASSUME Inv, Honest, NEW e, IdentityReset \/ PeerLeft(e)
    PROVE  Remembers
<1>1. CASE IdentityReset
  <2>1. /\ unbound_state.lifecycle = "Unbound"
        /\ unbound_state.relay = Unavailable
    BY DEF unbound_state, fresh_state
  <2>2. CommitPlain(unbound_state)
    BY <1>1 DEF IdentityReset
  <2> QED BY <2>1, <2>2, PlainRemembers
          DEF standing_kept, relay_kept, is_confirmed, Unavailable
<1>2. CASE PeerLeft(e)
  <2> DEFINE next == [offline(path) EXCEPT !.epoch = e]
  <2>1. next.lifecycle = "Offline" /\ next.relay = Unavailable
    BY DEF Inv, Good, PathState, offline
  <2>2. CommitPlain(next)
    BY <1>2 DEF PeerLeft
  <2> HIDE DEF next
  <2> QED BY <2>1, <2>2, PlainRemembers
          DEF standing_kept, relay_kept, is_confirmed, Unavailable
<1> QED BY <1>1, <1>2

\* Lemma: every lifecycle event remembers only what holds.
LEMMA LifecycleStepRemembers ==
    ASSUME Inv, Honest, LifecycleStep
    PROVE  Remembers
<1>1. BoundEpoch \subseteq PathEpoch
  BY DEF BoundEpoch
<1> QED BY <1>1, LeavingRemembers, PeerOnlineRemembers, DirectFirstStartedRemembers,
           DirectFirstDeadlineRemembers, NetworkGenerationAdvancedRemembers,
           RemoteCandidateEpochAdvancedRemembers DEF LifecycleStep

\* Lemma: a legacy caller marks a peer Connecting only where no path carries
\* traffic, and Relay with the relay's proof.
LEMMA CompatStepRemembers ==
    ASSUME CompatCallers, Inv, Honest, CompatStep
    PROVE  Remembers
<1>1. PICK r \in RelayConnectionIdentity, state \in CompatStates, d \in DirectEndpoints :
         TransitionRequested(r.epoch, state, d, r)
  BY DEF CompatStep
<1> DEFINE e == r.epoch
           s == [path EXCEPT !.lifecycle = "Online", !.epoch = e]
           next == compat_state(s, e, state, d, r)
           offered == IF direct_first_pending(path) THEN Unavailable ELSE OnRelay(r)
<1>2. /\ path.lifecycle = "Unbound" \/ exact_epoch(path, e)
      /\ CommitPlain(next)
      /\ state = "Connecting" => path.compat \in {"Idle", "Failed"}
  BY <1>1 DEF TransitionRequested, CompatibilityStateRequested, should_mark_connecting
<1>3. Good(path) /\ path \in PathState
  BY DEF Inv, Good
<1>4. CASE path.lifecycle = "Unbound"
  <2>1. ~is_confirmed(path.relay)
    BY <1>3, <1>4 DEF Good, state_is_valid, is_confirmed, Unavailable
  <2> HIDE DEF next
  <2> QED BY <1>2, <2>1, PlainRemembers DEF standing_kept, relay_kept
<1>5. CASE exact_epoch(path, e) /\ state = "Connecting"
  <2>1. path.active.kind = "Unavailable"
    BY <1>2, <1>3, <1>5
       DEF Good, state_is_valid, exact_epoch, PathState, ActiveBusinessPath, Unavailable
  <2>2. /\ next.relay = path.relay
        /\ next.direct_first = path.direct_first
    BY <1>3, <1>5 DEF compat_state, PathState
  <2> HIDE DEF next
  <2> QED BY <1>2, <2>1, <2>2, PlainRemembers
          DEF standing_kept, relay_kept, standing, direct_first_pending
<1>6. CASE exact_epoch(path, e) /\ state = "Relay"
  <2>1. /\ next.relay = Confirmed(r)
        /\ next.direct_first = path.direct_first
        /\ next.active = offered
    BY <1>3, <1>6 DEF compat_state, PathState
  <2>2. path.active.kind = "Relay" => ~direct_first_pending(path)
    BY <1>3 DEF Good, state_is_valid
  <2>3. is_confirmed(next.relay) /\ OnRelay(r).kind = "Relay"
    BY <2>1 DEF is_confirmed, Confirmed, OnRelay
  <2> HIDE DEF next
  <2>4. standing_kept(path, next) /\ relay_kept(path, next)
    BY <2>1, <2>2, <2>3 DEF standing_kept, relay_kept, standing, direct_first_pending
  <2> QED BY <1>2, <2>4, PlainRemembers
<1> QED BY <1>2, <1>4, <1>5, <1>6 DEF CompatCallers

-----------------------------------------------------------------------------
(* The theorems.                                                           *)

\* Lemma: every step of the machine remembers only what holds.
LEMMA StepRemembers ==
    ASSUME CompatCallers, IInv, Honest, [Next]_vars
    PROVE  Remembers
<1>1. Inv
  BY DEF IInv
<1>2. CASE Tick \/ UNCHANGED vars
  <2>1. path' = path /\ receipts' = receipts /\ suppressed' = suppressed
    BY <1>2 DEF Tick, vars
  <2> QED BY <2>1 DEF Remembers, Honest, ReplayHidesNoPath, relay_kept, holds,
          is_relay_receipt, standing, direct_first_pending
<1>3. CASE LifecycleStep \/ RelayStep \/ DirectStep \/ CompatStep
  <2>1. CASE LifecycleStep
    BY <1>1, <2>1, LifecycleStepRemembers
  <2>2. CASE RelayStep
    BY <1>1, <2>2, RelayStepRemembers
  <2>3. CASE DirectStep
    BY <1>1, <2>3, DirectStepRemembers
  <2>4. CASE CompatStep
    BY <1>1, <2>4, CompatStepRemembers
  <2> QED BY <1>3, <2>1, <2>2, <2>3, <2>4
<1> QED BY <1>2, <1>3 DEF Next

\* Theorem: a replay the reducer drops would not have brought the peer a path:
\* no receipt outlives what it stands for.  It rests on the callers of
\* transition(), which ask for Connecting and Relay only.
THEOREM ReplaysAreHarmless ==
    ASSUME CompatCallers
    PROVE  Spec => []ReplayHidesNoPath
<1>1. Init => Honest /\ ReplayHidesNoPath
  BY DEF Init, Honest, ReplayHidesNoPath
<1>2. IInv /\ Honest /\ ReplayHidesNoPath /\ [Next]_vars
         => Honest' /\ ReplayHidesNoPath'
  BY StepRemembers DEF Remembers
<1> QED BY <1>1, <1>2, Invariance, PTL DEF Spec

\* Theorem: Direct work never costs a proven relay, and never leaves a peer
\* that was on it without a path, under the same assumption on the callers.
THEOREM RelayOutlivesDirectWork ==
    ASSUME CompatCallers
    PROVE  Spec => DirectWorkKeepsRelay
<1>1. Init => Honest
  BY DEF Init, Honest
<1>2. IInv /\ Honest /\ [Next]_vars => Honest'
  BY StepRemembers DEF Remembers
<1>3. IInv /\ Honest /\ [Next]_vars =>
        [/\ path'.direct # path.direct
         /\ path'.epoch = path.epoch
         /\ path'.lifecycle = "Online"
         /\ is_confirmed(path.relay)
         => /\ is_confirmed(path'.relay)
            /\ path.active.kind = "Relay" => path'.active.kind # "Unavailable"]_vars
  BY StepRemembers DEF Remembers, relay_kept
<1> QED BY <1>1, <1>2, <1>3, Invariance, PTL DEF Spec, DirectWorkKeepsRelay
=============================================================================
