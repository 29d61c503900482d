--------------------------- MODULE RevocationFeed ---------------------------
(***************************************************************************)
(* The relay's copy of the control server's revocations: the table and its *)
(* pages on the server (server/database/relay_revocations.go, authz.go),   *)
(* the polling relay (server/relay/revocation.go).                         *)
(*                                                                         *)
(* A revoked identity is a device, credential or ticket id.  A row older   *)
(* than the retention is "expired": every ticket its identity could still  *)
(* use has ended long before (tickets live 15 minutes, rows a day).  What  *)
(* the relay does to its connections when it applies a page is RelayHub.   *)
(* Left out: the one-page protocol of older servers, byte budgets of a     *)
(* page (a page is bounded by its rows), clocks that disagree.             *)
(***************************************************************************)
EXTENDS Integers, FiniteSets, FiniteSetsExt

CONSTANTS
    Identities,
    PageRows,          \* relayRevocationPageRows
    PagesPerRefresh,   \* the loop bound of refreshRevocationFeed
    MaxRevision,       \* bound: revocations issued
    MaxFaults,         \* bound: lost requests and answers, relay restarts
    None

VARIABLES
    revision,      \* relay_revocation_clock
    rows,          \* relay_revocations: identity and sequence
    age,           \* how old an identity's revocation is
    version,       \* revocationVersion
    cursor,        \* revocationCursor
    through,       \* revocationThrough
    tombstones,    \* onlineRevoked*: what the relay has observed
    fresh,         \* revocationLastSuccess lies within the allowed age
    pages,         \* pages fetched by the running refresh, None between two
    answer,        \* the page on its way to the relay, None if there is none
    faults

serverVars == <<revision, rows, age>>
relayVars == <<version, cursor, through, tombstones, fresh>>
vars == <<serverVars, relayVars, pages, answer, faults>>

-----------------------------------------------------------------------------
(* The server. *)

\* INSERT OR IGNORE; the trigger numbers the new row from the clock.
Revoke(v) ==
    /\ revision < MaxRevision
    /\ ~\E r \in rows : r.value = v
    /\ revision' = revision + 1
    /\ rows' = rows \cup {[seq |-> revision + 1, value |-> v]}
    /\ age' = [age EXCEPT ![v] = "live"]
    /\ UNCHANGED <<relayVars, pages, answer, faults>>

\* A day passes since v was revoked.
Expire(v) ==
    /\ age[v] = "live"
    /\ age' = [age EXCEPT ![v] = "expired"]
    /\ UNCHANGED <<revision, rows, relayVars, pages, answer, faults>>

\* PruneRelayRevocations, before every page.
kept == {r \in rows : age[r.value] # "expired"}

\* ORDER BY sequence LIMIT n
first(S, n) == {r \in S : Cardinality({q \in S : q.seq < r.seq}) < n}

\* Mutant: the version is the number the next revocation will get.
page_ahead(after, upto) ==
    LET end == IF upto > 0 THEN upto ELSE revision + 1
        wanted == {r \in kept : r.seq > after /\ r.seq <= end}
        more == Cardinality(wanted) > PageRows
        sent == first(wanted, PageRows)
    IN [version |-> end, after |-> after,
        values |-> {r.value : r \in sent},
        more |-> more,
        next |-> IF more THEN Max({r.seq : r \in sent}) ELSE end]

\* Mutant: the row at the end of the catch-up belongs to the next one.
page_exclusive(after, upto) ==
    LET end == IF upto > 0 THEN upto ELSE revision
        wanted == {r \in kept : r.seq > after /\ r.seq < end}
        more == Cardinality(wanted) > PageRows
        sent == first(wanted, PageRows)
    IN [version |-> end, after |-> after,
        values |-> {r.value : r \in sent},
        more |-> more,
        next |-> IF more THEN Max({r.seq : r \in sent}) ELSE end]

\* Mutant: the upper bound of the catch-up is read anew for every page.
page_chasing(after, upto) ==
    LET wanted == {r \in kept : r.seq > after}
        more == Cardinality(wanted) > PageRows
        sent == first(wanted, PageRows)
    IN [version |-> revision, after |-> after,
        values |-> {r.value : r \in sent},
        more |-> more,
        next |-> IF more THEN Max({r.seq : r \in sent}) ELSE revision]

\* RelayRevocationPage
page(after, upto) ==
    LET end == IF upto > 0 THEN upto ELSE revision
        wanted == {r \in kept : r.seq > after /\ r.seq <= end}
        more == Cardinality(wanted) > PageRows
        sent == first(wanted, PageRows)
    IN [version |-> end, after |-> after,
        values |-> {r.value : r \in sent},
        more |-> more,
        next |-> IF more THEN Max({r.seq : r \in sent}) ELSE end]

\* The request reaches the server, which prunes and answers in one transaction.
RelayRevocationPage ==
    /\ pages # None /\ answer = None
    /\ rows' = kept
    /\ answer' = page(cursor, through)
    /\ UNCHANGED <<revision, age, relayVars, pages, faults>>

-----------------------------------------------------------------------------
(* The relay. *)

StartRefresh ==
    /\ pages = None
    /\ pages' = 0
    /\ answer' = None
    /\ UNCHANGED <<serverVars, relayVars, faults>>

\* The checks of a page's progression, and of the version's.
acceptable(p) ==
    /\ p.after = cursor
    /\ p.next >= cursor
    /\ p.next <= p.version
    /\ through > 0 => p.version = through
    /\ p.more => p.next # cursor /\ p.next # p.version
    /\ ~p.more => p.next = p.version
    /\ p.version >= version

\* Mutant: the last page's identities replace the earlier ones.
merged_replacing(p) == p.values

\* Tombstones are merged, never replaced.
merged(p) == tombstones \cup p.values

\* pruneRevocationCacheLocked: any that have been known for a day by now, which
\* is never before a day has passed since the revocation.
prunable(S) == {v \in S : age[v] = "expired"}

ApplyPage ==
    /\ pages # None /\ answer # None
    /\ acceptable(answer)
    /\ answer.more
    /\ tombstones' = merged(answer)
    /\ version' = Max({version, answer.version})
    /\ cursor' = answer.next
    /\ through' = answer.version
    /\ pages' = IF pages + 1 = PagesPerRefresh THEN None ELSE pages + 1
    /\ answer' = None
    /\ UNCHANGED <<serverVars, fresh, faults>>

ApplyLastPage ==
    /\ pages # None /\ answer # None
    /\ acceptable(answer)
    /\ ~answer.more
    /\ \E forgotten \in SUBSET prunable(merged(answer)) :
          tombstones' = merged(answer) \ forgotten
    /\ version' = Max({version, answer.version})
    /\ cursor' = answer.next
    /\ through' = 0
    /\ fresh' = TRUE
    /\ pages' = None
    /\ answer' = None
    /\ UNCHANGED <<serverVars, faults>>

\* No answer in time, an HTTP error, or a body that cannot be read.
RefreshFails ==
    /\ pages # None
    /\ faults < MaxFaults
    /\ faults' = faults + 1
    /\ pages' = None
    /\ answer' = None
    /\ UNCHANGED <<serverVars, relayVars>>

\* Three intervals and ten seconds without a completed refresh.
GoesStale ==
    /\ fresh
    /\ fresh' = FALSE
    /\ UNCHANGED <<serverVars, version, cursor, through, tombstones, pages, answer, faults>>

Restart ==
    /\ faults < MaxFaults
    /\ faults' = faults + 1
    /\ version' = 0
    /\ cursor' = 0
    /\ through' = 0
    /\ tombstones' = {}
    /\ fresh' = FALSE
    /\ pages' = None
    /\ answer' = None
    /\ UNCHANGED serverVars

-----------------------------------------------------------------------------
Init ==
    /\ revision = 0
    /\ rows = {}
    /\ age = [v \in Identities |-> "none"]
    /\ version = 0
    /\ cursor = 0
    /\ through = 0
    /\ tombstones = {}
    /\ fresh = FALSE
    /\ pages = None
    /\ answer = None
    /\ faults = 0

Refresh == StartRefresh \/ RelayRevocationPage \/ ApplyPage \/ ApplyLastPage

Next ==
    \/ \E v \in Identities : Revoke(v) \/ Expire(v)
    \/ Refresh
    \/ RefreshFails \/ GoesStale \/ Restart

Spec == Init /\ [][Next]_vars

\* The polling goroutine runs for ever.
FairSpec == Spec /\ WF_vars(Refresh)

-----------------------------------------------------------------------------
(* Properties. *)

\* Type invariant: the feed's clock and rows, and the relay's cursors.
TypeOK ==
    /\ revision \in 0..MaxRevision
    /\ rows \subseteq [seq : 1..MaxRevision, value : Identities]
    /\ age \in [Identities -> {"none", "live", "expired"}]
    /\ version \in 0..revision
    /\ cursor \in 0..revision
    /\ through \in 0..revision
    /\ tombstones \subseteq Identities
    /\ fresh \in BOOLEAN
    /\ faults \in 0..MaxFaults

\* No revocation is skipped: whatever the cursor has passed and can still matter
\* is among the tombstones, with revocations, expiry, failures and restarts in
\* between the pages of a catch-up (relay_revocations.go, revocation.go).
NothingSkipped ==
    \A r \in rows : r.seq <= cursor /\ age[r.value] = "live" => r.value \in tombstones

\* The relay never rejects a page an honest server produced, which would leave
\* it stale and closed for every ticket (revocation.go, "invalid revocation page
\* progression" and "snapshot rollback").
PagesAccepted == answer # None => acceptable(answer)

\* A live tombstone is forgotten by a restart only: no later page resurrects an
\* identity this relay has seen revoked (revocation.go, applyRevocationSnapshot).
NothingResurrected ==
    [][\A v \in tombstones \ tombstones' : age[v] = "expired" \/ (cursor' = 0 /\ ~fresh')]_vars

\* Every revocation reaches the relay while it matters, although others keep
\* arriving during the catch-up.
EveryRevocationArrives ==
    \A v \in Identities : age[v] = "live" ~> (v \in tombstones \/ age[v] = "expired")

\* A catch-up in pages is complete: no row is skipped and no honest page refused.
CatchUpSound == TypeOK /\ NothingSkipped /\ PagesAccepted

\* What the relay learns of revocations arrives, and stays.
RevocationsArrive == NothingResurrected /\ EveryRevocationArrives
=============================================================================
