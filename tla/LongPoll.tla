------------------------------ MODULE LongPoll ------------------------------
(***************************************************************************)
(* The long poll of the control server: ListSignals and CreateSignal       *)
(* (server/api/signal_handlers.go) over the signal queue, with the         *)
(* notifier between them (server/api/signal_notifier.go).                  *)
(*                                                                         *)
(* Handlers run concurrently: a sender's is between its insert and its     *)
(* notification, or a poll is between its empty listing and its wait, when *)
(* others run.  The notifier's channel is closed and replaced by every     *)
(* notification, so a poll that waits for the channel of version v is      *)
(* woken when the version is no longer v.                                  *)
(***************************************************************************)
EXTENDS SignalQueue

CONSTANT Polls   \* requests of the receiver

VARIABLES
    version,     \* signalNotifyState.version of the receiver
    unnotified,  \* rows inserted by handlers that have not notified yet
    poll,        \* a request: its step, the version it read, its deadline passed
    refreed      \* history: rows that became free by the end of a lease

pollVars == <<version, unnotified, poll, refreed>>
lvars == <<queueVars, pollVars>>

\* Rows that a step of the queue makes free without inserting them.
freed == {id(r) : r \in free'} \ {id(r) : r \in free}

At(p, step) == poll[p].step = step
moves(p, step) == poll' = [poll EXCEPT ![p].step = step]

\* CreateSignal up to its insert, and its notification.
Post(s) ==
    /\ CreateSignal(s)
    /\ unnotified' = unnotified \cup {id(r) : r \in queue' \ queue}
    /\ UNCHANGED <<version, poll, refreed>>

\* Mutant: the handler notifies and does not notice that it has.
notify_again(k) ==
    /\ k \in unnotified
    /\ version' = version + 1
    /\ UNCHANGED <<queueVars, unnotified, poll, refreed>>

notify(k) ==
    /\ k \in unnotified
    /\ unnotified' = unnotified \ {k}
    /\ version' = version + 1
    /\ UNCHANGED <<queueVars, poll, refreed>>

\* A request with wait_ms = 0 has its deadline behind it.
PollStarts(p) ==
    /\ At(p, "idle")
    /\ \E past \in BOOLEAN :
          poll' = [poll EXCEPT ![p] = [step |-> "reading", version |-> 0, past |-> past]]
    /\ UNCHANGED <<queueVars, version, unnotified, refreed>>

ReadsVersion(p) ==
    /\ At(p, "reading")
    /\ poll' = [poll EXCEPT ![p].step = "listing", ![p].version = version]
    /\ UNCHANGED <<queueVars, version, unnotified, refreed>>

ListsRows(p) ==
    /\ At(p, "listing")
    /\ \E rows \in SUBSET free : ListSignalsWithLease(rows)
    /\ moves(p, "answered")
    /\ UNCHANGED <<version, unnotified, refreed>>

\* Mutant: a poll whose time is over waits once more.
ListsNothing_patiently(p) ==
    /\ At(p, "listing")
    /\ free = {}
    /\ moves(p, "waiting")
    /\ UNCHANGED <<queueVars, version, unnotified, refreed>>

ListsNothing(p) ==
    /\ At(p, "listing")
    /\ free = {}
    /\ moves(p, IF poll[p].past THEN "answered" ELSE "waiting")
    /\ UNCHANGED <<queueVars, version, unnotified, refreed>>

\* Mutant: the poll does not compare versions before it parks.
wait_unchecked(p) ==
    /\ At(p, "waiting")
    /\ poll' = [poll EXCEPT ![p].step = "parked", ![p].version = version]
    /\ UNCHANGED <<queueVars, version, unnotified, refreed>>

\* wait: under the notifier's lock, the version decides.
wait(p) ==
    /\ At(p, "waiting")
    /\ moves(p, IF version # poll[p].version THEN "reading" ELSE "parked")
    /\ UNCHANGED <<queueVars, version, unnotified, refreed>>

\* The channel is closed, or the fallback interval is over.
Wakes(p) ==
    /\ At(p, "parked")
    /\ version # poll[p].version
    /\ moves(p, "reading")
    /\ UNCHANGED <<queueVars, version, unnotified, refreed>>

FallbackTimer(p) ==
    /\ At(p, "parked")
    /\ moves(p, "reading")
    /\ UNCHANGED <<queueVars, version, unnotified, refreed>>

DeadlinePasses(p) ==
    /\ poll[p].step \in {"reading", "listing", "waiting", "parked"} /\ ~poll[p].past
    /\ poll' = [poll EXCEPT ![p].past = TRUE]
    /\ UNCHANGED <<queueVars, version, unnotified, refreed>>

\* r.Context() ends while the poll waits.
ClientLeaves(p) ==
    /\ At(p, "parked")
    /\ moves(p, "answered")
    /\ UNCHANGED <<queueVars, version, unnotified, refreed>>

\* The receiver acknowledges or releases what it was handed; leases run out.
LeaseEnds ==
    /\ \/ \E r \in live : r.token # 0 /\ \/ AckSignals({id(r)}, r.token)
                                         \/ ReleaseSignalLeases({id(r)}, r.token)
       \/ \E k \in 1..polls : LeasesExpire(k)
    /\ refreed' = refreed \cup freed
    /\ UNCHANGED <<version, unnotified, poll>>

-----------------------------------------------------------------------------
Init ==
    /\ QueueInit
    /\ version = 0
    /\ unnotified = {}
    /\ poll = [p \in Polls |-> [step |-> "idle", version |-> 0, past |-> FALSE]]
    /\ refreed = {}

PollStep(p) ==
    \/ ReadsVersion(p) \/ ListsRows(p) \/ ListsNothing(p) \/ wait(p) \/ Wakes(p)

Next ==
    \/ \E s \in Senders : Post(s)
    \/ \E k \in unnotified : notify(k)
    \/ \E p \in Polls : PollStarts(p) \/ PollStep(p) \/ FallbackTimer(p) \/ DeadlinePasses(p)
                        \/ ClientLeaves(p)
    \/ LeaseEnds

Spec == Init /\ [][Next]_lvars

\* Handlers that can run do, and timers fire.
FairSpec ==
    /\ Spec
    /\ \A p \in Polls : /\ WF_lvars(PollStep(p))
                        /\ WF_lvars(FallbackTimer(p))
                        /\ WF_lvars(DeadlinePasses(p))

\* The same without the fallback timer ever firing: notifications alone.
NextWithoutTimers == Next /\ ~\E p \in Polls : FallbackTimer(p) /\ version = poll[p].version

FairWithoutTimers ==
    /\ Init
    /\ [][NextWithoutTimers]_lvars
    /\ \A p \in Polls : WF_lvars(PollStep(p))
    /\ WF_lvars(\E k \in unnotified : notify(k))

-----------------------------------------------------------------------------
(* Properties. *)

\* Type invariant: the notifier and the requests.
TypeOK ==
    /\ QueueTypeOK
    /\ version \in Nat
    /\ poll \in [Polls -> [step : {"idle", "reading", "listing", "waiting", "parked", "answered"},
                           version : 0..version, past : BOOLEAN]]
    /\ Cardinality(unnotified) + version <= Cardinality(Senders) * MaxSeq

\* No wake-up is lost: a poll that sleeps on an open channel sleeps over no
\* deliverable row, except one whose sender is still to notify it or one that
\* the end of a lease made deliverable (signal_notifier.go, wait; ListSignals).
NoLostWakeup ==
    \A p \in Polls : At(p, "parked") /\ version = poll[p].version =>
       \A r \in free : id(r) \in unnotified \cup refreed

\* A poll answers at its deadline, however often it is woken and finds the row
\* already taken by another poll.
EveryPollReturns == \A p \in Polls : At(p, "reading") ~> At(p, "answered")

\* Notifications alone wake the polls: without the fallback timer, no poll sleeps
\* for ever over a row that no lease has covered yet.
NobodySleepsForever ==
    \A p \in Polls :
       []<>~(At(p, "parked") /\ \E r \in free : id(r) \notin refreed)
=============================================================================
