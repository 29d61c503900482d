---------------------------- MODULE SignalWakeup ----------------------------
(***************************************************************************)
(* The signaling hub with the sender's handler in front of it              *)
(* (server/api/signal_handlers.go, PostSignal: store the row, then notify) *)
(* and one daemon behind it (client/daemon/src/control/websocket.rs and    *)
(* the wake-up branch of control/runtime/loop.rs).                         *)
(*                                                                         *)
(* The daemon also polls on a timer, whatever the WebSocket does.  That    *)
(* timer is left out on purpose: the question here is what the wake-ups    *)
(* guarantee without it.  A poll is one read of the rows stored by then.   *)
(***************************************************************************)
EXTENDS SignalingHub

CONSTANTS
    wakeQueue,         \* SIGNAL_WS_WAKE_QUEUE
    Dialable,          \* bound: sockets the daemon may open
    MaxLosses          \* bound: lost connections and disconnects

\* The daemon authenticates as one device, whichever socket it opens.
ASSUME WakeupConstants ==
    /\ wakeQueue \in Nat \ {0} /\ MaxLosses \in Nat
    /\ Dialable \subseteq Sockets
    /\ \A c, d \in Dialable : owner[c] = owner[d]

\* The device the rows are for.
receiver == {owner[c] : c \in Dialable}

VARIABLES
    stored,          \* rows in the database; a row and its Notify share a name
    link,            \* the socket the daemon reads, None while it backs off
    dialed,          \* sockets the daemon has opened
    ready,           \* the ready frame has been read
    lastSequence,    \* last_sequence of this connection
    wakes,           \* wake-ups in the channel to the control loop
    seen,            \* rows some poll has read
    losses

daemonVars == <<link, dialed, ready, lastSequence, wakes, seen>>
wvars == <<vars, stored, daemonVars, losses>>

PostSignal(i) ==
    /\ i \notin stored
    /\ stored' = stored \cup {i}
    /\ UNCHANGED <<vars, daemonVars, losses>>

Notified(i, n) == i \in stored /\ NotifyLooksUp(i, n) /\ UNCHANGED <<stored, daemonVars, losses>>

-----------------------------------------------------------------------------
(* The daemon. *)

\* try_send: a full channel already holds a wake-up that will be polled later.
woken == IF wakes < wakeQueue THEN wakes + 1 ELSE wakes

Dial(c) ==
    /\ link = None
    /\ c \in Dialable \ dialed
    /\ link' = c
    /\ dialed' = dialed \cup {c}
    /\ ready' = FALSE
    /\ lastSequence' = 0
    /\ UNCHANGED <<vars, stored, wakes, seen, losses>>

unreadFrame == link # None /\ wire[link] # <<>>
frame == Head(wire[link])
takeFrame == wire' = [wire EXCEPT ![link] = Tail(@)]
hubUnchangedButWire == UNCHANGED <<hubVars, socketVars, done, closeReq, send, sequence, conn,
                                   notice, evicting, latest>>

\* Mutant: readiness alone does not start a poll.
ReadReady_quietly ==
    /\ unreadFrame
    /\ frame.kind = "ready" /\ ~ready
    /\ takeFrame
    /\ ready' = TRUE
    /\ UNCHANGED wakes
    /\ hubUnchangedButWire
    /\ UNCHANGED <<stored, link, dialed, lastSequence, seen, losses>>

ReadReady ==
    /\ unreadFrame
    /\ frame.kind = "ready" /\ ~ready
    /\ takeFrame
    /\ ready' = TRUE
    /\ wakes' = woken
    /\ hubUnchangedButWire
    /\ UNCHANGED <<stored, link, dialed, lastSequence, seen, losses>>

\* An overtaken sequence number is skipped without a wake-up.
ReadWakeup ==
    /\ unreadFrame
    /\ frame.kind = "signals_available" /\ ready
    /\ takeFrame
    /\ wakes' = IF frame.seq > lastSequence THEN woken ELSE wakes
    /\ lastSequence' = IF frame.seq > lastSequence THEN frame.seq ELSE lastSequence
    /\ hubUnchangedButWire
    /\ UNCHANGED <<stored, link, dialed, ready, seen, losses>>

\* A wake-up before the ready frame ends the connection.
ReadUnexpected ==
    /\ unreadFrame
    /\ frame.kind = "signals_available" /\ ~ready
    /\ conn' = [conn EXCEPT ![link] = FALSE]
    /\ link' = None
    /\ UNCHANGED <<hubVars, socketVars, done, closeReq, send, sequence, wire, notice, evicting,
                   latest, stored, dialed, ready, lastSequence, wakes, seen, losses>>

\* The read fails; frames still under way are gone with the connection.
LinkDown ==
    /\ link # None
    /\ ~conn[link]
    /\ link' = None
    /\ UNCHANGED <<vars, stored, dialed, ready, lastSequence, wakes, seen, losses>>

PollOnWake ==
    /\ wakes > 0
    /\ wakes' = wakes - 1
    /\ seen' = seen \cup stored
    /\ UNCHANGED <<vars, stored, link, dialed, ready, lastSequence, losses>>

-----------------------------------------------------------------------------
WakeupInit ==
    /\ HubInit
    /\ stored = {}
    /\ link = None
    /\ dialed = {}
    /\ ready = FALSE
    /\ lastSequence = 0
    /\ wakes = 0
    /\ seen = {}
    /\ losses = 0

Server(A) == A /\ UNCHANGED <<stored, daemonVars, losses>>

Registers(c) == c \in dialed /\ Server(register(c) \/ Refused(c))

Fault ==
    /\ losses < MaxLosses
    /\ losses' = losses + 1
    /\ \/ \E c \in Sockets : ConnectionLost(c)
       \/ \E n \in Nodes : DisconnectLooksUp(n)
    /\ UNCHANGED <<stored, daemonVars>>

Reads == ReadReady \/ ReadWakeup \/ ReadUnexpected \/ LinkDown

WakeupNext ==
    \/ \E i \in Notices : \/ PostSignal(i) \/ Server(NotifyStep(i))
                          \/ \E n \in receiver : Notified(i, n)
    \/ \E c \in Sockets : Dial(c) \/ Registers(c) \/ Server(SocketStep(c))
    \/ Server(DisconnectStops)
    \/ Reads
    \/ PollOnWake
    \/ Fault

WakeupSpec == WakeupInit /\ [][WakeupNext]_wvars

FairWakeupSpec ==
    /\ WakeupSpec
    /\ \A c \in Sockets : WF_wvars(Server(SocketStep(c))) /\ WF_wvars(Registers(c))
    /\ \A i \in Notices : WF_wvars(Server(NotifyStep(i)) \/ \E n \in receiver : Notified(i, n))
    /\ WF_wvars(Server(DisconnectStops))
    /\ WF_wvars(\E c \in Sockets : Dial(c))
    /\ WF_wvars(Reads)
    /\ WF_wvars(PollOnWake)

-----------------------------------------------------------------------------
(* Properties. *)

\* The daemon reads a connection that nothing is about to take down, and
\* nothing is on its way to it.
settled ==
    /\ link # None /\ ready
    /\ conn[link] /\ ~done[link] /\ ~closeReq[link] /\ reader[link] = "running"
    /\ evicting # link
    /\ send[link] = <<>> /\ wire[link] = <<>> /\ wakes = 0

\* No wake-up is lost between a stored row and a daemon that is connected: once
\* its connection has settled, every row whose sender has been through Notify
\* has been polled, whether Notify met the old connection, none, or this one,
\* and whichever of two numbers overtook the other.
WakeupsCovered ==
    settled => \A i \in stored : notice[i].step = "returned" => i \in seen

\* And the connection does settle: without the polling timer, every stored row
\* is eventually polled, through a lost connection or an eviction, unless the
\* model has no socket left to dial.
EveryRowIsPolled ==
    \A i \in Notices : i \in stored ~> (i \in seen \/ (link = None /\ dialed = Dialable))
=============================================================================
