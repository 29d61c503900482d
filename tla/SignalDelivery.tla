--------------------------- MODULE SignalDelivery ---------------------------
(***************************************************************************)
(* Signals from the server's queue into a daemon's state machine           *)
(* (client/daemon/src/control/http/signal.rs, signal_delivery.rs,          *)
(* signal_ack.rs, signal_release.rs, control/types.rs).                    *)
(*                                                                         *)
(* A poll leases a batch.  The daemon starts one lane per sender: it       *)
(* applies the rows in order, one at a time, waiting for each receipt, and *)
(* a second task of the lane acknowledges what was applied, in the same    *)
(* order.  A tracker that outlives lanes and registrations recognises      *)
(* redelivered rows: applied ones are acknowledged at once, one still in   *)
(* the state machine is joined.  Waits time out, requests are lost or      *)
(* arrive late, the registration changes under a lane, the process dies.   *)
(*                                                                         *)
(* Failures are bounded by one budget.  Timing values are abstracted:      *)
(* anything that may time out may do so at any moment.                     *)
(***************************************************************************)
EXTENDS SignalQueue, Sequences

CONSTANTS
    Unsupported,         \* sequence numbers of rows of a type the daemon rejects
    MaxRecentSignalIds,
    MaxRegistrations,    \* bound: registrations of one process
    MaxExpiries,         \* bound: TTL expiries
    MaxFailures,         \* bound: timeouts, losses, early lease expiries, crashes
    None

ASSUME DeliveryConstants ==
    /\ Unsupported \subseteq Nat
    /\ MaxRecentSignalIds \in Nat \ {0}
    /\ MaxRegistrations \in Nat \ {0}
    /\ MaxExpiries \in Nat
    /\ MaxFailures \in Nat
    /\ None \notin [node: NodeIds, seq: 1..MaxRegistrations]

VARIABLES
    auth,       \* critical_auth: the current registration, or None
    regs,       \* registrations so far
    inbox,      \* the answer of the poll in flight, or None
    lanes,      \* running application lanes
    tracker,    \* SignalDeliveryTracker: recent ids, high-water per sender
    receipts,   \* receipts of applications some lane or the daemon still holds
    releasing,  \* deliveries a task is waiting to release
    late,       \* ACK requests the client has given up on but the network has not
    failures,   \* failures so far
    expiries,   \* TTL expiries so far
    effects,    \* history: ids applied by this process, in order
    settled,    \* history: ids applied or terminally rejected by any process
    acked       \* history: ids an ACK deleted

clientVars == <<auth, regs, inbox, lanes, tracker, receipts, releasing, late>>
history    == <<effects, settled, acked>>
vars == <<queueVars, clientVars, failures, expiries, history>>

SignalId == [from: Senders, to: NodeIds, seq: 1..MaxSeq]

Fail == failures < MaxFailures /\ failures' = failures + 1

-----------------------------------------------------------------------------
(* The tracker.                                                            *)

empty_tracker == [ids |-> <<>>, high |-> [s \in Senders |-> 0]]

\* Mutant: an application in flight already counts.
already_applied_early(i) ==
    \/ i.seq <= tracker.high[i.from]
    \/ \E c \in receipts : c.id = i /\ c.tracked

\* Mutant: only the recent ids are consulted.
already_applied_recently(i) == \E k \in DOMAIN tracker.ids : tracker.ids[k] = i

already_applied(i) ==
    \/ \E k \in DOMAIN tracker.ids : tracker.ids[k] = i
    \/ i.seq <= tracker.high[i.from]

\* Mutant: the list of recent ids is never shortened.
marked_unbounded(i) ==
    [ids  |-> Append(tracker.ids, i),
     high |-> [tracker.high EXCEPT ![i.from] = IF i.seq > @ THEN i.seq ELSE @]]

marked(i) ==
    LET longer == IF \E k \in DOMAIN tracker.ids : tracker.ids[k] = i
                  THEN tracker.ids ELSE Append(tracker.ids, i)
    IN  [ids  |-> IF Len(longer) > MaxRecentSignalIds THEN Tail(longer) ELSE longer,
         high |-> [tracker.high EXCEPT ![i.from] = IF i.seq > @ THEN i.seq ELSE @]]

\* A receipt is in_flight while the tracker holds its waiter.
in_flight(i) == {c \in receipts : c.id = i /\ c.tracked}

-----------------------------------------------------------------------------
(* Lanes: rows[acked+1 .. pos-1] wait in the ACK queue, rows[pos] is being *)
(* applied.  n names the receipt the lane waits for.                       *)

lane_of(batch, s, reg, rows) ==
    [batch |-> batch, from |-> s, reg |-> reg, rows |-> rows,
     pos |-> 1, acked |-> 0, phase |-> "next", n |-> 0, open |-> TRUE]

current(l) == auth = l.reg
row(l)     == l.rows[l.pos]
ids_of(l)  == {l.rows[k] : k \in DOMAIN l.rows}

\* Both halves of the lane have returned: nothing to apply, nothing to ACK.
\* Such a lane is dropped in the same step; what it could still release it
\* could also have released just before.
returned(l) == l.phase = "done" /\ (~l.open \/ l.acked + 1 = l.pos)

with_lane(l, l2) == (lanes \ {l}) \cup ({l2} \ {k \in {l2} : returned(k)})

becomes(l, l2) == lanes' = with_lane(l, l2)

\* The next row, or the end of the batch.
advanced(l) ==
    [l EXCEPT !.pos = @ + 1, !.n = 0,
              !.phase = IF l.pos < Len(l.rows) THEN "next" ELSE "done"]

\* The ACK queue is closed: the application loop stops before its next row.
closed(l) ==
    [l EXCEPT !.open = FALSE, !.phase = IF l.phase = "next" THEN "done" ELSE l.phase]

\* One sender's rows of a batch, in sequence order.
in_order(S) ==
    CHOOSE q \in [1..Cardinality(S) -> S] :
       \A j, k \in 1..Cardinality(S) : j < k => q[j].seq < q[k].seq

\* Receipts nobody holds any more are dropped.
held(cs, ls) ==
    {c \in cs : \/ c.tracked
                \/ c.outcome = "Pending"
                \/ \E l \in ls : l.phase # "done" /\ l.n = c.n /\ row(l) = c.id}

waiting_for(l) == CHOOSE c \in receipts : c.id = row(l) /\ c.n = l.n

-----------------------------------------------------------------------------
(* Polling.                                                                *)

Poll ==
    /\ auth # None
    /\ auth.node = node
    /\ inbox = None
    /\ \E rows \in SUBSET free :
          /\ ListSignalsWithLease(rows)
          /\ inbox' = [reg |-> auth, batch |-> polls + 1, ids |-> {id(r) : r \in rows}]
    /\ UNCHANGED <<auth, regs, lanes, tracker, receipts, releasing, late,
                   failures, expiries, history>>

\* The answer arrives.  If the registration changed while it was under way,
\* its leases are given back instead.
PollAnswered ==
    /\ inbox # None
    /\ inbox' = None
    /\ IF auth = inbox.reg
       THEN /\ lanes' = lanes \cup
                  {lane_of(inbox.batch, s, auth,
                           in_order({i \in inbox.ids : i.from = s})) :
                      s \in {i.from : i \in inbox.ids}}
            /\ UNCHANGED releasing
       ELSE /\ releasing' = releasing \cup
                  {[node |-> inbox.reg.node, ids |-> inbox.ids, token |-> inbox.batch]}
            /\ UNCHANGED lanes
    /\ UNCHANGED <<queueVars, auth, regs, tracker, receipts, late, failures, expiries,
                   history>>

PollLost ==
    /\ inbox # None
    /\ inbox' = None
    /\ Fail
    /\ UNCHANGED <<queueVars, auth, regs, lanes, tracker, receipts, releasing, late,
                   expiries, history>>

-----------------------------------------------------------------------------
(* Application: apply_signal_batch.                                        *)

\* The top of the loop, for a row the tracker knows or the daemon rejects by
\* its type: straight to the ACK queue.
ApplyKnown(l) ==
    /\ l.phase = "next"
    /\ l.open /\ current(l)
    /\ already_applied(row(l)) \/ row(l).seq \in Unsupported
    /\ tracker' = IF already_applied(row(l)) THEN tracker ELSE marked(row(l))
    /\ settled' = IF already_applied(row(l)) THEN settled ELSE settled \cup {row(l)}
    /\ becomes(l, advanced(l))
    /\ UNCHANGED <<queueVars, auth, regs, inbox, receipts, releasing, late,
                   failures, expiries, effects, acked>>

\* begin_application: join the application in flight, or start one.
BeginApplication(l) ==
    /\ l.phase = "next"
    /\ l.open /\ current(l)
    /\ ~already_applied(row(l)) /\ row(l).seq \notin Unsupported
    /\ IF in_flight(row(l)) # {}
       THEN /\ \E c \in in_flight(row(l)) :
                  becomes(l, [l EXCEPT !.phase = "waiting", !.n = c.n])
            /\ UNCHANGED receipts
       ELSE LET n == CHOOSE k \in 1..(Cardinality(receipts) + 1) :
                        \A c \in receipts : c.id = row(l) => c.n # k
            IN  /\ becomes(l, [l EXCEPT !.phase = "started", !.n = n])
                /\ receipts' = receipts \cup {[id |-> row(l), n |-> n, tracked |-> TRUE,
                                               outcome |-> "Undispatched"]}
    /\ UNCHANGED <<queueVars, auth, regs, inbox, tracker, releasing, late,
                   failures, expiries, history>>

\* Between the tracker's lock and the dispatch the registration may have
\* changed: then only this undispatched application is retired, and whoever
\* joined it sees Retry.
Dispatch(l) ==
    /\ l.phase = "started"
    /\ LET c  == waiting_for(l)
           ok == l.open /\ current(l)
           c2 == IF ok THEN [c EXCEPT !.outcome = "Pending"]
                 ELSE [c EXCEPT !.outcome = "Retry", !.tracked = FALSE]
           l2 == [l EXCEPT !.phase = IF ok THEN "waiting" ELSE "done"]
       IN  /\ becomes(l, l2)
           /\ receipts' = held((receipts \ {c}) \cup {c2}, with_lane(l, l2))
    /\ UNCHANGED <<queueVars, auth, regs, inbox, tracker, releasing, late,
                   failures, expiries, history>>

\* The daemon's state machine completes an application: once, in any order.
Complete(c, outcome) ==
    /\ c.outcome = "Pending"
    /\ outcome = "Retry" => failures < MaxFailures
    /\ failures' = failures + (IF outcome = "Retry" THEN 1 ELSE 0)
    /\ receipts' = held((receipts \ {c}) \cup {[c EXCEPT !.outcome = outcome]}, lanes)
    /\ effects' = IF outcome = "Applied" THEN Append(effects, c.id) ELSE effects
    /\ settled' = IF outcome = "Retry" THEN settled ELSE settled \cup {c.id}
    /\ UNCHANGED <<queueVars, auth, regs, inbox, lanes, tracker, releasing, late,
                   expiries, acked>>

\* The lane sees the outcome: finish_application, then the ACK queue, unless
\* the ACK task has closed it.
Finish(l) ==
    /\ l.phase = "waiting"
    /\ LET c  == waiting_for(l)
           ok == c.outcome # "Retry"
           l2 == IF ok /\ l.open THEN advanced(l) ELSE [l EXCEPT !.phase = "done"]
       IN  /\ c.outcome \in {"Applied", "TerminalRejected", "Retry"}
           /\ tracker' = IF ok THEN marked(c.id) ELSE tracker
           /\ becomes(l, l2)
           /\ receipts' = held((receipts \ {c}) \cup {[c EXCEPT !.tracked = FALSE]},
                               with_lane(l, l2))
    /\ UNCHANGED <<queueVars, auth, regs, inbox, releasing, late, failures, expiries,
                   history>>

\* Mutant: the lane that stops waiting also forgets the application.
WaitTimedOut_forgetting(l) ==
    /\ l.phase = "waiting"
    /\ LET c == waiting_for(l)
           l2 == [l EXCEPT !.phase = "done"]
       IN  /\ c.outcome = "Pending"
           /\ becomes(l, l2)
           /\ receipts' = (receipts \ {c}) \cup {[c EXCEPT !.tracked = FALSE]}
    /\ Fail
    /\ UNCHANGED <<queueVars, auth, regs, inbox, tracker, releasing, late, expiries,
                   history>>

\* A timeout says only that the lane stopped waiting: the waiter stays in
\* flight so that a redelivery joins the same work.
WaitTimedOut(l) ==
    /\ l.phase = "waiting"
    /\ waiting_for(l).outcome = "Pending"
    /\ becomes(l, [l EXCEPT !.phase = "done"])
    /\ Fail
    /\ UNCHANGED <<queueVars, auth, regs, inbox, tracker, receipts, releasing, late,
                   expiries, history>>

\* The loop finds the registration gone before its next row.
ApplyStops(l) ==
    /\ l.phase = "next"
    /\ ~current(l)
    /\ becomes(l, [l EXCEPT !.phase = "done"])
    /\ UNCHANGED <<queueVars, auth, regs, inbox, tracker, receipts, releasing, late,
                   failures, expiries, history>>

-----------------------------------------------------------------------------
(* Acknowledgement: acknowledge_signal_batch.                              *)

\* What an ACK of a delivery does at the server.
AckArrives(i, token) ==
    /\ AckSignals({i}, token)
    /\ acked' = acked \cup {id(r) : r \in {q \in queue : matches(q, {i}, token)}}

Acknowledge(l) ==
    /\ l.open /\ current(l)
    /\ l.reg.node = node
    /\ l.acked + 1 < l.pos
    /\ AckArrives(l.rows[l.acked + 1], l.batch)
    /\ becomes(l, [l EXCEPT !.acked = @ + 1])
    /\ UNCHANGED <<auth, regs, inbox, tracker, receipts, releasing, late,
                   failures, expiries, effects, settled>>

\* All attempts failed or timed out; the last request may still arrive.
AckFailed(l) ==
    /\ l.open /\ current(l)
    /\ l.acked + 1 < l.pos
    /\ becomes(l, closed(l))
    /\ late' = late \cup {[id |-> l.rows[l.acked + 1], token |-> l.batch]}
    /\ Fail
    /\ UNCHANGED <<queueVars, auth, regs, inbox, tracker, receipts, releasing,
                   expiries, history>>

LateAck(m) ==
    /\ AckArrives(m.id, m.token)
    /\ late' = late \ {m}
    /\ UNCHANGED <<auth, regs, inbox, lanes, tracker, receipts, releasing,
                   failures, expiries, effects, settled>>

\* The ACK task notices that its registration is gone: it closes the queue and
\* hands every delivery of the lane to a release.  An ACK may be under way.
LaneRevoked(l) ==
    /\ l.open /\ ~current(l)
    /\ becomes(l, closed(l))
    /\ releasing' = releasing \cup {[node |-> l.reg.node, ids |-> ids_of(l),
                                     token |-> l.batch]}
    /\ \/ UNCHANGED late
       \/ /\ l.acked + 1 < l.pos
          /\ late' = late \cup {[id |-> l.rows[l.acked + 1], token |-> l.batch]}
    /\ UNCHANGED <<queueVars, auth, regs, inbox, tracker, receipts,
                   failures, expiries, history>>

\* release_revoked_signal_leases: only a registration of the same node may
\* release; under another one the task returns.  A task that gives up, or whose
\* request is lost, simply never takes this step.
Release(t) ==
    /\ auth # None
    /\ releasing' = releasing \ {t}
    /\ IF auth.node = t.node /\ node = t.node
       THEN ReleaseSignalLeases(t.ids, t.token)
       ELSE UNCHANGED queueVars
    /\ UNCHANGED <<auth, regs, inbox, lanes, tracker, receipts, late,
                   failures, expiries, history>>

-----------------------------------------------------------------------------
(* Registration, time and crashes.                                         *)

Revoke ==
    /\ auth # None
    /\ regs < MaxRegistrations
    /\ auth' = None
    /\ UNCHANGED <<queueVars, regs, inbox, lanes, tracker, receipts, releasing, late,
                   failures, expiries, history>>

\* The new identity, or the old one again when the registration was repeated.
Register ==
    /\ auth = None
    /\ RegisterDevice
    /\ regs' = regs + 1
    /\ \E k \in {regs, regs + 1} \ {0} : auth' = [node |-> node', seq |-> k]
    /\ UNCHANGED <<inbox, lanes, tracker, receipts, releasing, late,
                   failures, expiries, history>>

Create(s) ==
    /\ CreateSignal(s)
    /\ UNCHANGED <<clientVars, failures, expiries, history>>

\* The device is deleted at the server.  The daemon learns of it from the next
\* request that is refused, which revokes its registration (Revoke).
Deleted ==
    /\ DeleteDevice
    /\ regs < MaxRegistrations
    /\ UNCHANGED <<clientVars, failures, expiries, history>>

\* A lease that outlives the work on its delivery is the normal case.
LeaseTimeout ==
    \E through \in 1..polls :
       /\ LeasesExpire(through)
       /\ IF \/ \E l \in lanes : l.batch <= through /\ l.batch > expiredThrough
             \/ inbox # None /\ inbox.batch <= through
          THEN Fail ELSE UNCHANGED failures
       /\ UNCHANGED <<clientVars, expiries, history>>

SignalTimeout ==
    /\ expiries < MaxExpiries
    /\ expiries' = expiries + 1
    /\ \E s \in Senders, k \in 1..MaxSeq : SignalsExpire(s, k)
    /\ UNCHANGED <<clientVars, failures, history>>

\* The process dies: everything in memory is gone, its requests may not be.
Crash ==
    /\ regs < MaxRegistrations
    /\ Fail
    /\ auth' = None
    /\ inbox' = None
    /\ lanes' = {}
    /\ tracker' = empty_tracker
    /\ receipts' = {}
    /\ releasing' = {}
    /\ effects' = <<>>
    /\ UNCHANGED <<queueVars, regs, late, expiries, settled, acked>>

-----------------------------------------------------------------------------
Init ==
    /\ QueueInit
    /\ auth = None
    /\ regs = 0
    /\ inbox = None
    /\ lanes = {}
    /\ tracker = empty_tracker
    /\ receipts = {}
    /\ releasing = {}
    /\ late = {}
    /\ failures = 0
    /\ expiries = 0
    /\ effects = <<>>
    /\ settled = {}
    /\ acked = {}

LaneStep(l) ==
    \/ ApplyKnown(l)
    \/ BeginApplication(l)
    \/ Dispatch(l)
    \/ Finish(l)
    \/ ApplyStops(l)
    \/ Acknowledge(l)
    \/ LaneRevoked(l)

\* The steps the daemon and the server take by themselves.
Progress ==
    \/ Poll
    \/ PollAnswered
    \/ \E l \in lanes : LaneStep(l)
    \/ \E c \in receipts, o \in {"Applied", "TerminalRejected"} : Complete(c, o)
    \/ Register
    \/ LeaseTimeout

Next ==
    \/ Progress
    \/ \E s \in Senders : Create(s)
    \/ PollLost
    \/ \E l \in lanes : WaitTimedOut(l) \/ AckFailed(l)
    \/ \E c \in receipts : Complete(c, "Retry")
    \/ \E m \in late : LateAck(m)
    \/ \E t \in releasing : Release(t)
    \/ Revoke
    \/ Deleted
    \/ SignalTimeout
    \/ Crash

Spec == Init /\ [][Next]_vars

\* The poll loop, the lanes, the state machine, re-registration and the clock
\* all keep going; failures, releases and late requests need not happen.
FairSpec == Spec /\ WF_vars(Progress)

-----------------------------------------------------------------------------
(* Properties.                                                             *)

\* Type invariant of the delivery, on top of the queue's.
TypeOK ==
    /\ QueueTypeOK
    /\ auth \in [node: NodeIds, seq: 1..MaxRegistrations] \cup {None}
    /\ tracker.high \in [Senders -> 0..MaxSeq]
    /\ Len(tracker.ids) <= MaxRecentSignalIds
    /\ \A c \in receipts : c.id \in SignalId
    /\ \A l \in lanes : l.pos \in 1..(Len(l.rows) + 1) /\ l.acked \in 0..(l.pos - 1)
    /\ settled \subseteq SignalId /\ acked \subseteq SignalId

\* "acknowledging each row only after state-machine application"
\* (control/http/signal.rs): a row the server deletes on an ACK was applied or
\* terminally rejected by some process of the daemon.  The tracker's high-water
\* must therefore never cover a signal that was not applied.
AckedOnlyAfterApplication == acked \subseteq settled

\* One process applies the signals of a sender in the order they were sent and
\* none of them twice, through redelivery, timeouts, joins and re-registration.
AppliedInSendOrder ==
    \A j, k \in DOMAIN effects :
       /\ j < k
       /\ effects[j].from = effects[k].from
       /\ effects[j].to = effects[k].to
       => effects[j].seq < effects[k].seq

\* "An active lease on an earlier row fences every later row of THAT pair"
\* (server/database/signals.go): while a lane works on a delivery whose lease
\* has not run out, no later row of its sender is in another delivery.
LeaseFencesLaterRows ==
    \A l \in lanes, r \in queue :
       /\ l.open
       /\ l.batch > expiredThrough
       /\ r.from = l.from
       /\ r.to = l.reg.node
       /\ r.token > l.batch
       => \A k \in (l.acked + 1)..Len(l.rows) : r.seq < l.rows[k].seq

\* Only one application of a signal is in the state machine at a time, however
\* many lanes hold a delivery of it.
OneApplicationAtATime ==
    \A c, d \in receipts :
       c.id = d.id /\ c.outcome = "Pending" /\ d.outcome = "Pending" => c = d

\* NoneLost, InSendOrder and OneDeliveryAtATime say when the three promises
\* hold: while the receiver keeps its first node id (node = 1) and while no row
\* has ended by age (expiries = 0).
\* An acknowledgement comes after its signal's outcome, unless the sender's
\* sequence restarted under a new node id (run signal_reregister).
NoneLost == node = 1 => AckedOnlyAfterApplication

\* Signals are applied in the order they were sent, unless rows end by age.
InSendOrder == node = 1 /\ expiries = 0 => AppliedInSendOrder

\* A signal is in one application at a time, and a leased row holds back the
\* rows behind it, unless its TTL ends while it is leased (run signal_ttl).
OneDeliveryAtATime ==
    /\ OneApplicationAtATime
    /\ expiries = 0 => LeaseFencesLaterRows

\* A release never takes a delivery from a lane that may still work on it: a
\* token is only cleared once the lane it was issued to has been revoked.
ReleaseSparesCurrentLane ==
    [][\A r \in queue, l \in lanes :
          /\ l.open /\ current(l)
          /\ r.token = l.batch /\ id(r) \in ids_of(l)
          => ~\E q \in queue' : id(q) = id(r) /\ q.token = 0]_vars

\* Every queued signal is eventually settled and acknowledged, unless it
\* outlives its TTL or its device is deleted.
EverySignalSettles ==
    \A i \in SignalId :
       (\E r \in queue : id(r) = i) ~> ~(\E r \in queue : id(r) = i /\ ~r.expired)
=============================================================================
