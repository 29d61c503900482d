------------------------- MODULE ControlEventLoop -------------------------
(* The daemon's control-event loop and the locks it shares with the work   *)
(* it polls itself.                                                        *)
(*                                                                         *)
(* One task receives control events and applies them in order.  The        *)
(* responder workers it starts are futures of that same task, not tasks of *)
(* their own: they run only while the loop is in its select! or in an      *)
(* await wrapped by await_peer_lifecycle_commit_while_driving_work.  At    *)
(* every other await of the loop they stand still, with what they hold.    *)
(* A worker that is polled runs until it has to wait.                      *)
(*                                                                         *)
(* The locks are Tokio's: first come, first served, and a lock that is     *)
(* released belongs to the next in its queue at once, whether that future  *)
(* is polled again or not.  A queue therefore starts with its owner.       *)
(*                                                                         *)
(* One peer.  Lanes of slow, retry and candidate work are Workers too;     *)
(* what they do is that of a responder worker.  Left out: the handshake    *)
(* arbiter (every wait for it has a time limit), and locks only one kind   *)
(* of task takes.                                                          *)
EXTENDS Naturals, Sequences, FiniteSets, Functions, SequencesExt

CONSTANTS
    Workers,      \* futures in responder_work and the other lanes
    Others,       \* tasks of their own: packets in and out, probes, timers
    Events,       \* kinds of control events that arrive: some of "updated",
                  \* "retired", "left", "answer", "offer"
    MaxEvents,    \* bound: events
    MaxTraffic    \* bound: jobs of other tasks

VARIABLES
    job,       \* what each task is doing
    line,      \* of each lock: its owner, then who waits for it
    queueing,  \* tasks that gave the epoch gate back and queue for connections
    polled,    \* what the loop's task is running: itself or one of its workers
    events, traffic \* bounds

vars == <<job, line, queueing, polled, events, traffic>>

Tasks == {"loop"} \cup Workers \cup Others
Locks == {"ingress", "emit", "epoch", "sessions", "connections"}

\* The locks of each job, in the order it takes them; it keeps each to the end.
Needs == [
    idle    |-> <<>>,
    \* the loop
    updated |-> <<"epoch", "connections">>,             \* add_peer, nothing to retire
    retired |-> <<"epoch", "connections">>,             \* add_peer, the old session must go
    left    |-> <<"connections">>,                      \* get_connection
    remove  |-> <<"ingress", "emit", "sessions">>,      \* remove_session_with_reason
    cleanup |-> <<"epoch", "connections">>,             \* cleanup_peer_lifecycle, remove_peer
    answer  |-> <<"emit", "epoch", "sessions">>,        \* install_active_session_locked
    bind    |-> <<"emit", "epoch", "connections">>,     \* install_probe_session_binding
    \* responder workers; confirm, flush and mark are the loop's, too
    stage   |-> <<"ingress", "sessions">>,              \* stage_responder_session
    post    |-> <<>>,                                   \* the answer's HTTP request
    refresh |-> <<"ingress", "sessions">>,              \* refresh_responder_session_grace
    flush   |-> <<"ingress">>,                          \* flush_pending_outbound_for_peer
    confirm |-> <<"connections">>,                      \* get_connection
    mark    |-> <<"epoch", "connections">>,             \* update_state_if_peer_session_current
    discard |-> <<"ingress", "sessions">>,              \* discard_responder_session
    unbind  |-> <<"connections">>,                      \* discard_pending_probe_session_binding
    \* other tasks
    forward |-> <<"ingress">>,                          \* forward_raw_outbound
    send    |-> <<"emit", "sessions">>,                 \* network outbound
    decrypt |-> <<"sessions">>,                         \* decrypt_inbound
    promote |-> <<"emit", "sessions">>,                 \* its first packet under a staged key
    path    |-> <<"epoch", "connections">>,             \* a commit under the epoch gate
    look    |-> <<"connections">> ]                     \* any reader of the table

\* What may follow a job, by branch taken.  A worker that retries its offer is one
\* that ends and is started again.
After == [
    updated |-> {"idle"}, retired |-> {"remove"}, left |-> {"remove"},
    remove |-> {"cleanup", "idle"}, cleanup |-> {"idle"},
    answer |-> {"bind", "idle"}, bind |-> {"flush"},
    stage |-> {"post", "discard", "idle"}, post |-> {"refresh"},
    refresh |-> {"flush", "confirm", "discard", "unbind", "idle"},
    flush |-> {"confirm", "idle"}, confirm |-> {"mark", "idle"}, mark |-> {"idle"},
    discard |-> {"unbind", "idle"}, unbind |-> {"idle"},
    forward |-> {"idle"}, send |-> {"idle"}, decrypt |-> {"promote", "idle"}, promote |-> {"idle"},
    path |-> {"idle"}, look |-> {"idle"} ]

Traffic == {"forward", "send", "decrypt", "path", "look"}
Reading == {"left", "confirm", "look"}

\* Locks a job hands on to the next one instead of releasing them.
Kept(from, to) == IF from = "answer" /\ to = "bind" THEN {"emit", "epoch"} ELSE {}

-----------------------------------------------------------------------------
\* Mutant of Driven: an answer is applied in plain awaits.
Driven_plain_answer == {"idle", "updated", "retired", "cleanup"}

\* The awaits at which the loop polls its lanes: the select!, and what is wrapped
\* by await_peer_lifecycle_commit_while_driving_work.
Driven == {"idle", "updated", "retired", "cleanup", "answer", "bind", "flush", "confirm", "mark"}

runs(t) ==
    \/ t \in Others
    \/ t = polled
    \/ t \in Workers /\ polled = "loop" /\ job["loop"] \in Driven

\* The step of a worker goes on to its next, until it has to wait.
goes_on(t, waits) ==
    polled' = IF t \in Others THEN polled ELSE IF waits THEN "loop" ELSE t

order(t) == IF t \in queueing THEN <<"connections">> ELSE Needs[job[t]]

\* Owners of a lock: the first in line, or the readers before any writer.
owns(t, l) ==
    \E i \in DOMAIN line[l] :
       /\ line[l][i] = t
       /\ \/ i = 1
          \/ l = "connections" /\ \A j \in 1..i : job[line[l][j]] \in Reading

joined(t) == {l \in Locks : t \in Range(line[l])}
ready(t) == \A l \in joined(t) : owns(t, l)

without(ls, t) == [l \in Locks |-> IF l \in ls THEN Remove(line[l], t) ELSE line[l]]

\* lock_epoch_and_connections_write: with the gate, it only tries connections.
tries(t) == Needs[job[t]] = <<"epoch", "connections">> /\ t \notin queueing

-----------------------------------------------------------------------------
Init ==
    /\ job = [t \in Tasks |-> "idle"]
    /\ line = [l \in Locks |-> <<>>]
    /\ queueing = {} /\ polled = "loop" /\ events = 0 /\ traffic = 0

\* The loop receives an event; an offer starts a worker and is done with.
Receives(e) ==
    /\ runs("loop") /\ job["loop"] = "idle" /\ e \in Events \ {"offer"} /\ events < MaxEvents
    /\ events' = events + 1
    /\ job' = [job EXCEPT !["loop"] = e]
    /\ UNCHANGED <<line, queueing, polled, traffic>>

ReceivesOffer(w) ==
    /\ runs("loop") /\ job["loop"] = "idle" /\ job[w] = "idle"
    /\ "offer" \in Events /\ events < MaxEvents
    /\ events' = events + 1
    /\ job' = [job EXCEPT ![w] = "stage"]
    /\ UNCHANGED <<line, queueing, polled, traffic>>

Begins(t, j) ==
    /\ job[t] = "idle" /\ traffic < MaxTraffic
    /\ traffic' = traffic + 1
    /\ job' = [job EXCEPT ![t] = j]
    /\ UNCHANGED <<line, queueing, polled, events>>

\* It owns what it has asked for and asks for the next lock of its job.
Joins(t) ==
    /\ runs(t) /\ ready(t)
    /\ LET n == Cardinality(joined(t)) + 1
       IN  /\ n <= Len(order(t))
           /\ LET l == order(t)[n]
              IN  /\ l = "connections" /\ tries(t) => line[l] = <<>>
                  /\ line' = [line EXCEPT ![l] = Append(@, t)]
                  /\ goes_on(t, line[l] # <<>>)
    /\ UNCHANGED <<job, queueing, events, traffic>>

\* Connections are taken: it gives the gate back, queues for connections, lets
\* them go as soon as it has them and starts over.
BacksOff(t) ==
    /\ runs(t) /\ ready(t) /\ tries(t)
    /\ joined(t) = {"epoch"} /\ line["connections"] # <<>>
    /\ line' = [without({"epoch"}, t) EXCEPT !["connections"] = Append(@, t)]
    /\ queueing' = queueing \cup {t}
    /\ goes_on(t, TRUE)
    /\ UNCHANGED <<job, events, traffic>>

StartsOver(t) ==
    /\ runs(t) /\ t \in queueing /\ owns(t, "connections")
    /\ line' = without({"connections"}, t)
    /\ queueing' = queueing \ {t}
    /\ goes_on(t, FALSE)
    /\ UNCHANGED <<job, events, traffic>>

\* With every lock of its job, it does its work and lets them go.
Finishes(t) ==
    /\ runs(t) /\ job[t] # "idle" /\ t \notin queueing
    /\ ready(t) /\ Cardinality(joined(t)) = Len(order(t))
    /\ \E j \in After[job[t]] :
          /\ job' = [job EXCEPT ![t] = j]
          /\ line' = without(Locks \ Kept(job[t], j), t)
          /\ goes_on(t, j \in {"idle", "post"})
    /\ UNCHANGED <<queueing, events, traffic>>

\* RESPONDER_SESSION_STAGE_TIMEOUT runs only while the worker is polled.
StageTimesOut(w) ==
    /\ runs(w) /\ job[w] = "stage"
    /\ job' = [job EXCEPT ![w] = "idle"]
    /\ line' = without(Locks, w)
    /\ goes_on(w, TRUE)
    /\ UNCHANGED <<queueing, events, traffic>>

Works(t) == Joins(t) \/ BacksOff(t) \/ StartsOver(t) \/ Finishes(t)

Next ==
    \/ \E e \in Events : Receives(e)
    \/ \E w \in Workers : ReceivesOffer(w) \/ StageTimesOut(w)
    \/ \E t \in Others, j \in Traffic : Begins(t, j)
    \/ \E t \in Tasks : Works(t)

Spec == Init /\ [][Next]_vars

\* Every task that can run is run; a task waits only for locks.
FairSpec == Spec /\ \A t \in Tasks : WF_vars(Works(t))

-----------------------------------------------------------------------------
TypeOK ==
    /\ job \in [Tasks -> DOMAIN Needs]
    /\ line \in [Locks -> Seq(Tasks)] /\ \A l \in Locks : IsInjective(line[l])
    /\ queueing \subseteq Tasks /\ polled \in Workers \cup {"loop"}
    /\ events \in 0..MaxEvents /\ traffic \in 0..MaxTraffic

\* event_loop.rs:15: waiting for a lock the loop never leaves a lane that it has
\* stopped polling ahead of itself, where the lock would stay forever.
NeverParkedBehindOwnWork ==
    job["loop"] \notin Driven =>
       \A l \in joined("loop"), w \in Workers :
          w \in Range(line[l]) => ~owns(w, l) \/ owns("loop", l)

\* Two tasks that queue for connections can hand them to each other for ever: one
\* lets them go to the other, which is next in line, and finds them taken.
CollidesForever == []<><<\E t \in Tasks : BacksOff(t)>>_vars

\* Whatever the lanes and the other tasks hold at that moment, the loop comes back
\* to its select! from every event it applies, and every admitted worker ends with
\* nothing held.
Returned == \A t \in Workers \cup {"loop"} : job[t] = "idle" /\ joined(t) = {}
LoopReturns == CollidesForever \/ []<>Returned
=============================================================================
