-------------------------- MODULE ResponderSessions --------------------------
(***************************************************************************)
(* The keys of one peer at the answering end of its handshakes:            *)
(* PeerTransportSessions (transport/sessions.rs), the worker that answers  *)
(* its offers (handshake/offer.rs) with its replay cache and timestamp     *)
(* floor (pending_handshake.rs), and inbound traffic under a key that only *)
(* waits to be adopted (sessions/decryption.rs).                           *)
(*                                                                         *)
(* A token stands for one handshake transaction, its keys and its answer;  *)
(* tokens are numbered in the order of their initiations' authenticated    *)
(* timestamps.  Time passes in whole units: a grace of n has run out after *)
(* n ticks, and what ran out stays until the next prune_expired.  What the *)
(* worker does between two awaits is one step.                             *)
(***************************************************************************)
EXTENDS Integers, FiniteSets, SessionGraces

VARIABLES
    keys,       \* PeerTransportSessions of the peer
    cache,      \* responder_cache: ticks each exact answer is kept, 0 for none
    floor,      \* responder_timestamp_floors, 0 for none
    answerer,     \* the responder_work owner
    proven,     \* token whose packet the inbound worker decrypted and holds, or 0
    answered,   \* tokens whose answer may be on its way to the peer
    adopted,    \* tokens whose answer the peer has installed
    newest      \* the newest token that has ever been active (history)

sessionVars == <<keys, cache, floor, answerer, proven, answered, adopted, newest>>

Gone == -1          \* not in the map; 0 is in the map and expired
None == 0
NoSessions ==
    [active |-> None, previous |-> None, retained |-> 0,
     pending |-> [t \in Tokens |-> Gone],
     seen |-> [t \in Tokens |-> Gone], terminal |-> {}]
Sessions ==
    [active : Tokens \cup {None}, previous : Tokens \cup {None}, retained : 0..PreviousGrace,
     pending : [Tokens -> Gone..PendingGrace],
     seen : [Tokens -> Gone..ReplayGrace], terminal : SUBSET Tokens]
NoWork == [pc |-> "idle", token |-> None, replay |-> FALSE, stale |-> FALSE]

-----------------------------------------------------------------------------
(* PeerTransportSessions.                                                  *)

prune_expired(s) ==
    [s EXCEPT
       !.previous = IF s.retained = 0 THEN None ELSE @,
       !.pending  = [t \in Tokens |-> IF s.pending[t] = 0 THEN Gone ELSE s.pending[t]],
       !.seen     = [t \in Tokens |-> IF s.seen[t] = 0 THEN Gone ELSE s.seen[t]],
       !.terminal = {t \in @ : s.seen[t] # 0}]

remember_terminal(s, t) ==
    [s EXCEPT !.seen[t] = ReplayGrace, !.terminal = @ \cup {t}]

\* Mutant: the other pending keys stay.
promote_pending_alone(s, t) ==
    [s EXCEPT !.active = t, !.pending[t] = Gone, !.seen[t] = ReplayGrace, !.terminal = @ \cup {t}]

\* Every other transaction is over with it (mark_all_responder_tokens_terminal,
\* clear_pending_as_terminal).
promote_pending(s, t) ==
    LET known == {u \in Tokens : s.seen[u] # Gone \/ s.pending[u] # Gone} \cup {t} IN
    [active   |-> t,
     previous |-> IF s.active = None THEN s.previous ELSE s.active,
     retained |-> IF s.active = None THEN s.retained ELSE PreviousGrace,
     pending  |-> [u \in Tokens |-> Gone],
     seen     |-> [u \in Tokens |-> IF u \in known THEN ReplayGrace ELSE Gone],
     terminal |-> known]

duplicate(s, t) == s.active = t \/ s.pending[t] # Gone

\* A token seen before is staged again only from its cached answer, and never
\* after it was promoted, superseded or rolled back.
stageable(s, t, replay) ==
    /\ ~duplicate(s, t)
    /\ s.previous # t
    /\ s.seen[t] # Gone => t \notin s.terminal /\ replay
    /\ Cardinality({u \in Tokens : s.pending[u] # Gone}) < MaxPending

staged(s, t) ==
    [s EXCEPT !.pending[t] = PendingGrace, !.seen[t] = ReplayGrace, !.terminal = @ \ {t}]

\* refresh_responder_session_grace: no prune before it.
refreshed(s, t) ==
    IF s.pending[t] = Gone THEN s ELSE [s EXCEPT !.pending[t] = PendingGrace]

\* discard_responder_session; a peer whose keys have all expired counts as one
\* without an entry.
discarded(s, t) ==
    IF s = NoSessions \/ s.active = t THEN s
    ELSE remember_terminal([s EXCEPT !.pending[t] = Gone], t)

\* commit_responder_session_in: an initial handshake has no older key to wait
\* for; a rekey stays pending until the peer uses it.
commit_responder_session(s, t) ==
    LET p == prune_expired(s) IN
    IF p.active = t \/ p.pending[t] = Gone THEN p
    ELSE IF p.active = None THEN promote_pending(p, t)
    ELSE [p EXCEPT !.seen[t] = ReplayGrace, !.terminal = @ \ {t}]

-----------------------------------------------------------------------------
(* The worker that answers an offer.                                       *)

\* newest follows whatever a step makes active.
Becomes(s) ==
    /\ keys' = s
    /\ newest' = IF s.active > newest THEN s.active ELSE newest

\* One synchronous stretch: the replay cache, and on a miss the crypto, the
\* timestamp's commit and the exact response into the cache.
Admits(t) ==
    /\ answerer.pc = "idle"
    /\ \/ cache[t] > 0 /\ UNCHANGED <<cache, floor>>
       \/ cache[t] = 0 /\ t > floor /\ floor' = t /\ cache' = [cache EXCEPT ![t] = CacheTtl]
    /\ answerer' = [pc |-> "admitted", token |-> t, replay |-> cache[t] > 0, stale |-> FALSE]
    /\ UNCHANGED <<keys, proven, answered, adopted, newest>>

\* A refused fresh transaction forgets its answer.
DropsAnswer ==
    cache' = IF answerer.replay THEN cache ELSE [cache EXCEPT ![answerer.token] = 0]

\* Before it stages, or instead of staging, the worker finds its network
\* generation overtaken.
TurnsStale ==
    /\ answerer.pc = "admitted" /\ answerer.stale
    /\ DropsAnswer
    /\ answerer' = NoWork
    /\ UNCHANGED <<keys, floor, proven, answered, adopted, newest>>

\* stage_responder_session and, for a replay, restage_cached_responder_session;
\* then the Probe binding, which may be contended or refused.
Stages(binding) ==
    LET t == answerer.token
        p == prune_expired(keys)
    IN  /\ answerer.pc = "admitted"
        /\ stageable(p, t, answerer.replay)
        \* What was decrypted under an earlier instance of the key is dropped.
        /\ proven' = IF proven = t THEN None ELSE proven
        /\ CASE binding = "contended" ->
                  Becomes(staged(p, t)) /\ answerer' = NoWork /\ UNCHANGED cache
             [] binding = "refused" ->
                  Becomes(discarded(staged(p, t), t)) /\ answerer' = NoWork /\ DropsAnswer
             [] binding = "bound" /\ answerer.stale ->
                  Becomes(discarded(staged(p, t), t)) /\ answerer' = NoWork /\ UNCHANGED cache
             [] OTHER ->
                  /\ Becomes(staged(p, t)) /\ UNCHANGED cache
                  /\ answerer' = [answerer EXCEPT !.pc = "staged"]
        /\ UNCHANGED <<floor, answered, adopted>>

\* ReplayableDuplicate: the key is installed, the same answer may go out again.
ServesAgain(binding) ==
    LET t == answerer.token
        p == prune_expired(keys)
    IN  /\ answerer.pc = "admitted"
        /\ duplicate(p, t)
        /\ Becomes(IF p.active = t THEN p ELSE refreshed(p, t))
        /\ IF answerer.replay /\ binding = "bound" /\ ~answerer.stale
           THEN answerer' = [answerer EXCEPT !.pc = "staged"] /\ UNCHANGED cache
           ELSE answerer' = NoWork /\ DropsAnswer
        /\ UNCHANGED <<floor, proven, answered, adopted>>

\* StaleDuplicate or Busy.
RefusesOffer ==
    LET t == answerer.token
        p == prune_expired(keys)
    IN  /\ answerer.pc = "admitted"
        /\ ~duplicate(p, t) /\ ~stageable(p, t, answerer.replay)
        /\ Becomes(p)
        /\ DropsAnswer
        /\ answerer' = NoWork
        /\ UNCHANGED <<floor, proven, answered, adopted>>

\* RESPONDER_SESSION_STAGE_TIMEOUT: the exact response stays for a retry.
StageTimesOut ==
    /\ answerer.pc = "admitted"
    /\ answerer' = NoWork
    /\ UNCHANGED <<keys, cache, floor, proven, answered, adopted, newest>>

\* send_peer_answer: after an error the answer may be out or not.
Posts(outcome, out) ==
    /\ answerer.pc = "staged"
    /\ outcome = "accepted" => out
    /\ answered' = IF out THEN answered \cup {answerer.token} ELSE answered
    /\ answerer' = [answerer EXCEPT !.pc = outcome]
    /\ UNCHANGED <<keys, cache, floor, proven, adopted, newest>>

\* Mutant: a key whose answer may not have gone out is discarded.
Retries_discarding ==
    /\ answerer.pc \in {"accepted", "ambiguous"}
    /\ Becomes(discarded(keys, answerer.token))
    /\ answerer' = NoWork
    /\ UNCHANGED <<cache, floor, proven, answered, adopted>>

\* After an ambiguous answer, or when the commit meets a busy lock, the key
\* gets a new grace and the offer is retried.
Retries ==
    /\ answerer.pc \in {"accepted", "ambiguous"}
    /\ Becomes(refreshed(keys, answerer.token))
    /\ answerer' = NoWork
    /\ UNCHANGED <<cache, floor, proven, answered, adopted>>

Commits ==
    LET t == answerer.token
        r == refreshed(keys, t)
    IN  /\ answerer.pc = "accepted"
        /\ Becomes(IF answerer.stale THEN discarded(r, t) ELSE commit_responder_session(r, t))
        /\ answerer' = NoWork
        /\ UNCHANGED <<cache, floor, proven, answered, adopted>>

-----------------------------------------------------------------------------
(* Traffic under a key the peer has adopted.                               *)

\* decrypt_inbound_classified finds the key pending and lets go of the
\* sessions to take the emit lock.
Receives(t) ==
    LET p == prune_expired(keys) IN
    /\ t \in adopted /\ proven = None
    /\ p.active # t /\ p.pending[t] # Gone
    /\ Becomes(p)
    /\ proven' = t
    /\ UNCHANGED <<cache, floor, answerer, answered, adopted>>

\* Mutant: a packet does not promote its key over an active one.
Promotes_initial ==
    LET p == prune_expired(keys) IN
    /\ proven # None
    /\ Becomes(IF p.pending[proven] # Gone /\ p.active = None
               THEN promote_pending(p, proven) ELSE p)
    /\ proven' = None
    /\ UNCHANGED <<cache, floor, answerer, answered, adopted>>

\* With the emit lock it looks again for the same instance.
Promotes ==
    LET p == prune_expired(keys) IN
    /\ proven # None
    /\ Becomes(IF p.pending[proven] # Gone THEN promote_pending(p, proven) ELSE p)
    /\ proven' = None
    /\ UNCHANGED <<cache, floor, answerer, answered, adopted>>

\* confirm_responder_session_with_emit_guard, from an authenticated Probe:
\* nothing is pruned before it.
ProbeConfirms(t) ==
    /\ t \in adopted /\ keys.active # t
    /\ Becomes(IF keys.pending[t] # Gone THEN promote_pending(keys, t)
               ELSE prune_expired(keys))
    /\ UNCHANGED <<cache, floor, answerer, proven, answered, adopted>>

-----------------------------------------------------------------------------
(* Time, and what happens to the peer.                                     *)

\* session_status, read by maintenance and by the send path.
Prunes ==
    /\ keys # prune_expired(keys)
    /\ Becomes(prune_expired(keys))
    /\ UNCHANGED <<cache, floor, answerer, proven, answered, adopted>>

passed(n) == IF n > 0 THEN n - 1 ELSE n

\* An admitted offer is staged or given up within RESPONDER_SESSION_STAGE_TIMEOUT.
Tick ==
    /\ answerer.pc # "admitted"
    /\ keys' = [keys EXCEPT
                  !.retained = passed(@),
                  !.pending  = [t \in Tokens |-> passed(keys.pending[t])],
                  !.seen     = [t \in Tokens |-> passed(keys.seen[t])]]
    /\ cache' = [t \in Tokens |-> passed(cache[t])]
    /\ UNCHANGED <<floor, answerer, proven, answered, adopted, newest>>

\* clear_peer and remove_session_with_reason.  A worker that waits to stage
\* would keep the loop from finishing this (run control_loop_parked); a
\* cancelled one ends without touching the keys, its answer perhaps sent.
PeerRetired ==
    /\ answerer.pc # "admitted"
    /\ keys' = NoSessions
    /\ cache' = [t \in Tokens |-> 0]
    /\ answerer' = NoWork
    /\ answered' \in IF answerer.pc = "staged" THEN {answered, answered \cup {answerer.token}}
                     ELSE {answered}
    /\ UNCHANGED <<floor, proven, adopted, newest>>

\* A new local network generation.  An entry of the cache belongs to the old
\* one and refuses its offer, as the timestamp floor does without the entry.
NetworkChanges ==
    /\ cache' = [t \in Tokens |-> 0]
    /\ answerer' = [answerer EXCEPT !.stale = answerer.pc # "idle"]
    /\ UNCHANGED <<keys, floor, proven, answered, adopted, newest>>

\* The peer installs an answer: it accepts one only for the offer it made last.
PeerAdopts(t) ==
    /\ t \in answered /\ t = floor
    /\ adopted' = adopted \cup {t}
    /\ UNCHANGED <<keys, cache, floor, answerer, proven, answered, newest>>

SessionInit ==
    /\ keys = NoSessions
    /\ cache = [t \in Tokens |-> 0]
    /\ floor = 0 /\ answerer = NoWork /\ proven = None
    /\ answered = {} /\ adopted = {} /\ newest = None

Bindings == {"bound", "contended", "refused"}

SessionNext ==
    \/ \E t \in Tokens : Admits(t) \/ Receives(t) \/ ProbeConfirms(t) \/ PeerAdopts(t)
    \/ TurnsStale \/ RefusesOffer \/ StageTimesOut
    \/ \E b \in Bindings : Stages(b) \/ ServesAgain(b)
    \/ \E out \in BOOLEAN : Posts("accepted", out) \/ Posts("ambiguous", out)
    \/ Retries \/ Commits \/ Promotes \/ Prunes
    \/ Tick \/ PeerRetired \/ NetworkChanges

SessionSpec == SessionInit /\ [][SessionNext]_sessionVars

-----------------------------------------------------------------------------
(* Properties.                                                             *)

SessionTypeOK ==
    /\ keys \in Sessions
    /\ cache \in [Tokens -> 0..CacheTtl]
    /\ floor \in Tokens \cup {None} /\ newest \in Tokens \cup {None}
    /\ answerer \in [pc : {"idle", "admitted", "staged", "accepted", "ambiguous"},
                   token : Tokens \cup {None}, replay : BOOLEAN, stale : BOOLEAN]
    /\ answerer.pc = "idle" \/ answerer.token \in Tokens
    /\ proven \in Tokens \cup {None}
    /\ answered \subseteq Tokens /\ adopted \subseteq Tokens

\* The comment at transport/sessions.rs:12: replaying the cached keys of a
\* finished transaction could roll the peer back from a newer session.  A key
\* that becomes active is newer than every key that has been active before,
\* through retries, replays, expiry, discarded answers, network changes and
\* the peer leaving and coming back.
NeverRolledBack ==
    [][keys'.active \notin {keys.active, None} => keys'.active > newest]_sessionVars

=============================================================================
