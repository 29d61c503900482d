---------------------------- MODULE SignalingHub ----------------------------
(***************************************************************************)
(* The WebSocket hub of the control server (server/signaling/signaling.go).*)
(*                                                                         *)
(* A socket is one upgraded request.  Three goroutines touch it: its       *)
(* handler (ServeWS), which becomes the read pump, its write pump, and     *)
(* whoever notifies, disconnects or shuts the hub down.  They share the    *)
(* hub's map and counter under the hub's lock, and the socket's channels   *)
(* without one.  A step here is a stretch of code between two points where *)
(* another goroutine can get in between.                                   *)
(*                                                                         *)
(* Frames are a kind and a sequence number.  Pings, telemetry frames and   *)
(* the upgrade itself (authentication, protocol, origin) are left out; a   *)
(* read or write fails whenever the connection is closed.                  *)
(***************************************************************************)
EXTENDS Integers, Sequences, FiniteSets

CONSTANTS
    Nodes,
    Sockets,
    owner,              \* the device a socket's credential names
    Notices,            \* calls of Notify, each with its own identity
    maxConnections,
    sendQueueCapacity,
    None

ASSUME HubConstants ==
    /\ owner \in [Sockets -> Nodes]
    /\ maxConnections \in Nat \ {0}
    /\ sendQueueCapacity \in Nat \ {0}
    /\ None \notin Sockets
    /\ IsFiniteSet(Notices)

VARIABLES
    clients,         \* Hub.clients
    activeClients,   \* Hub.activeClients, and the wait group beside it
    closed,          \* Hub.closed
    handler,         \* where a socket's ServeWS stands
    previous,        \* what its register returned
    reader, writer,  \* its pumps
    done,            \* Client.done is closed
    closeReq,        \* Client.closeReq holds a request
    send,            \* Client.send
    sequence,        \* Client.sequence
    conn,            \* the connection has not been closed by either side
    wire,            \* frames written to the peer and not read by it yet
    notice,          \* a Notify call: its step, node, client and number
    evicting,        \* the client a Disconnect has looked up
    latest           \* history: the last socket registered for a node

socketVars == <<handler, previous, reader, writer>>
channelVars == <<done, closeReq, send, sequence, conn, wire>>
hubVars == <<clients, activeClients, closed>>
vars == <<hubVars, socketVars, channelVars, notice, evicting, latest>>

Maybe(S) == S \cup {None}

Frame == [kind : {"ready"}, seq : {0}] \cup
         [kind : {"signals_available"}, seq : 1..Cardinality(Notices)]
Ready == [kind |-> "ready", seq |-> 0]
SignalsAvailable(k) == [kind |-> "signals_available", seq |-> k]

\* Sockets that hold one of the hub's slots.
holding == {c \in Sockets : handler[c] \in {"registered", "handover", "pumping", "leaving"}}

\* requestClose: the channel holds one request and further ones are dropped.
requestClose(S) == closeReq' = [c \in Sockets |-> closeReq[c] \/ c \in S]

\* Mutant: any socket of the device removes the entry.
removed_by_node(c) == [clients EXCEPT ![owner[c]] = None]

\* unregister: only the entry that still names this client.
removed(c) == IF clients[owner[c]] = c THEN [clients EXCEPT ![owner[c]] = None] ELSE clients

-----------------------------------------------------------------------------
(* ServeWS. *)

\* Mutant: the device's own reconnect is never refused.
admits_reconnects(n) == activeClients >= maxConnections => clients[n] # None

\* The limit, with one overlap slot for the reconnect of a known device.
admits(n) ==
    activeClients >= maxConnections => /\ clients[n] # None
                                       /\ activeClients <= maxConnections

register(c) ==
    /\ handler[c] = "idle"
    /\ ~closed /\ admits(owner[c])
    /\ previous' = [previous EXCEPT ![c] = clients[owner[c]]]
    /\ clients' = [clients EXCEPT ![owner[c]] = c]
    /\ activeClients' = activeClients + 1
    /\ handler' = [handler EXCEPT ![c] = "registered"]
    /\ latest' = [latest EXCEPT ![owner[c]] = c]
    /\ UNCHANGED <<closed, reader, writer, channelVars, notice, evicting>>

\* ErrHubClosed or ErrConnectionLimit: the connection ends without a slot.
Refused(c) ==
    /\ handler[c] = "idle"
    /\ closed \/ ~admits(owner[c])
    /\ handler' = [handler EXCEPT ![c] = "exited"]
    /\ conn' = [conn EXCEPT ![c] = FALSE]
    /\ UNCHANGED <<hubVars, previous, reader, writer, done, closeReq, send, sequence, wire,
                   notice, evicting, latest>>

\* Mutant: the replaced connection is left to its read deadline.
ClosePrevious_never(c) ==
    /\ handler[c] = "registered"
    /\ UNCHANGED closeReq
    /\ handler' = [handler EXCEPT ![c] = "handover"]
    /\ UNCHANGED <<hubVars, previous, reader, writer, done, send, sequence, conn, wire,
                   notice, evicting, latest>>

ClosePrevious(c) ==
    /\ handler[c] = "registered"
    /\ requestClose({previous[c]} \ {None})
    /\ handler' = [handler EXCEPT ![c] = "handover"]
    /\ UNCHANGED <<hubVars, previous, reader, writer, done, send, sequence, conn, wire,
                   notice, evicting, latest>>

StartPumps(c) ==
    /\ handler[c] = "handover"
    /\ ~done[c] /\ Len(send[c]) < sendQueueCapacity
    /\ send' = [send EXCEPT ![c] = Append(@, Ready)]
    /\ handler' = [handler EXCEPT ![c] = "pumping"]
    /\ reader' = [reader EXCEPT ![c] = "running"]
    /\ writer' = [writer EXCEPT ![c] = "running"]
    /\ UNCHANGED <<hubVars, previous, done, closeReq, sequence, conn, wire, notice, evicting,
                   latest>>

\* The ready frame finds no room, or the client was stopped already.
FailReady(c) ==
    /\ handler[c] = "handover"
    /\ done[c] \/ Len(send[c]) = sendQueueCapacity
    /\ clients' = removed(c)
    /\ conn' = [conn EXCEPT ![c] = FALSE]
    /\ handler' = [handler EXCEPT ![c] = "leaving"]
    /\ UNCHANGED <<activeClients, closed, previous, reader, writer, done, closeReq, send,
                   sequence, wire, notice, evicting, latest>>

\* Mutant: the refused handler leaves the count itself, and its deferred call again.
connectionDone_twice(c) ==
    /\ \/ handler[c] = "leaving"
       \/ handler[c] = "pumping" /\ reader[c] = "stopped" /\ writer[c] = "stopped"
    /\ activeClients' = activeClients - (IF handler[c] = "leaving" THEN 2 ELSE 1)
    /\ handler' = [handler EXCEPT ![c] = "exited"]
    /\ UNCHANGED <<clients, closed, previous, reader, writer, channelVars, notice, evicting,
                   latest>>

connectionDone(c) ==
    /\ \/ handler[c] = "leaving"
       \/ handler[c] = "pumping" /\ reader[c] = "stopped" /\ writer[c] = "stopped"
    /\ activeClients' = activeClients - 1
    /\ handler' = [handler EXCEPT ![c] = "exited"]
    /\ UNCHANGED <<clients, closed, previous, reader, writer, channelVars, notice, evicting,
                   latest>>

-----------------------------------------------------------------------------
(* The pumps. *)

\* The read pump ends: by a failed read, or by a frame it answers with a close.
ReaderLeaves(c) ==
    /\ reader[c] = "running"
    /\ \/ ~conn[c] /\ UNCHANGED closeReq
       \/ conn[c] /\ requestClose({c})
    /\ clients' = removed(c)
    /\ reader' = [reader EXCEPT ![c] = "stopping"]
    /\ UNCHANGED <<activeClients, closed, handler, previous, writer, done, send, sequence, conn,
                   wire, notice, evicting, latest>>

ReaderStops(c) ==
    /\ reader[c] = "stopping"
    /\ done' = [done EXCEPT ![c] = TRUE]
    /\ conn' = [conn EXCEPT ![c] = FALSE]
    /\ reader' = [reader EXCEPT ![c] = "stopped"]
    /\ UNCHANGED <<hubVars, handler, previous, writer, closeReq, send, sequence, wire, notice,
                   evicting, latest>>

WriterSends(c) ==
    /\ writer[c] = "running"
    /\ send[c] # <<>> /\ conn[c]
    /\ wire' = [wire EXCEPT ![c] = Append(@, Head(send[c]))]
    /\ send' = [send EXCEPT ![c] = Tail(@)]
    /\ UNCHANGED <<hubVars, socketVars, done, closeReq, sequence, conn, notice, evicting, latest>>

\* A close request, a stopped client, or a write that fails.
WriterStops(c) ==
    /\ writer[c] = "running"
    /\ closeReq[c] \/ done[c] \/ ~conn[c]
    /\ closeReq' = [closeReq EXCEPT ![c] = FALSE]
    /\ done' = [done EXCEPT ![c] = TRUE]
    /\ conn' = [conn EXCEPT ![c] = FALSE]
    /\ writer' = [writer EXCEPT ![c] = "stopped"]
    /\ UNCHANGED <<hubVars, handler, previous, reader, send, sequence, wire, notice, evicting,
                   latest>>

\* The peer, the network or a deadline ends the connection.
ConnectionLost(c) ==
    /\ handler[c] \in {"registered", "handover", "pumping"}
    /\ conn[c]
    /\ conn' = [conn EXCEPT ![c] = FALSE]
    /\ UNCHANGED <<hubVars, socketVars, done, closeReq, send, sequence, wire, notice, evicting,
                   latest>>

-----------------------------------------------------------------------------
(* Notify, Disconnect and Close. *)

Call(step, n, c, k) == [step |-> step, node |-> n, client |-> c, seq |-> k]

NotifyLooksUp(i, n) ==
    /\ notice[i].step = "idle"
    /\ notice' = [notice EXCEPT ![i] = IF clients[n] = None
                                       THEN Call("returned", n, None, 0)
                                       ELSE Call("found", n, clients[n], 0)]
    /\ UNCHANGED <<hubVars, socketVars, channelVars, evicting, latest>>

\* Takes a number and sees whether the client still accepts frames.
NotifyNumbers(i) ==
    /\ notice[i].step = "found"
    /\ LET c == notice[i].client IN
         /\ sequence' = [sequence EXCEPT ![c] = @ + 1]
         /\ notice' = [notice EXCEPT ![i].seq = sequence[c] + 1,
                                     ![i].step = IF done[c] THEN "unsent" ELSE "open"]
    /\ UNCHANGED <<hubVars, socketVars, done, closeReq, send, conn, wire, evicting, latest>>

\* The second select of enqueue; with the client stopped by now it may take
\* either way.
NotifyEnqueues(i) ==
    /\ notice[i].step = "open"
    /\ LET c == notice[i].client IN
         \/ /\ Len(send[c]) < sendQueueCapacity
            /\ send' = [send EXCEPT ![c] = Append(@, SignalsAvailable(notice[i].seq))]
            /\ notice' = [notice EXCEPT ![i].step = "returned"]
         \/ /\ Len(send[c]) = sendQueueCapacity \/ done[c]
            /\ notice' = [notice EXCEPT ![i].step = "unsent"]
            /\ UNCHANGED send
    /\ UNCHANGED <<hubVars, socketVars, done, closeReq, sequence, conn, wire, evicting, latest>>

\* "signal notification backpressure"
NotifyGivesUp(i) ==
    /\ notice[i].step = "unsent"
    /\ requestClose({notice[i].client})
    /\ notice' = [notice EXCEPT ![i].step = "returned"]
    /\ UNCHANGED <<hubVars, socketVars, done, send, sequence, conn, wire, evicting, latest>>

DisconnectLooksUp(n) ==
    /\ evicting = None
    /\ clients[n] # None
    /\ evicting' = clients[n]
    /\ UNCHANGED <<hubVars, socketVars, channelVars, notice, latest>>

DisconnectStops ==
    /\ evicting # None
    /\ done' = [done EXCEPT ![evicting] = TRUE]
    /\ requestClose({evicting})
    /\ evicting' = None
    /\ UNCHANGED <<hubVars, socketVars, send, sequence, conn, wire, notice, latest>>

\* Mutant: only new registrations are refused.
Close_politely ==
    /\ ~closed
    /\ closed' = TRUE
    /\ clients' = [n \in Nodes |-> None]
    /\ UNCHANGED <<activeClients, socketVars, channelVars, notice, evicting, latest>>

\* Up to its wait for activeClients to reach zero.
Close ==
    /\ ~closed
    /\ closed' = TRUE
    /\ clients' = [n \in Nodes |-> None]
    /\ requestClose({clients[n] : n \in Nodes} \ {None})
    /\ UNCHANGED <<activeClients, socketVars, done, send, sequence, conn, wire, notice, evicting,
                   latest>>

-----------------------------------------------------------------------------
HubInit ==
    /\ clients = [n \in Nodes |-> None]
    /\ activeClients = 0
    /\ closed = FALSE
    /\ handler = [c \in Sockets |-> "idle"]
    /\ previous = [c \in Sockets |-> None]
    /\ reader = [c \in Sockets |-> "off"]
    /\ writer = [c \in Sockets |-> "off"]
    /\ done = [c \in Sockets |-> FALSE]
    /\ closeReq = [c \in Sockets |-> FALSE]
    /\ send = [c \in Sockets |-> <<>>]
    /\ sequence = [c \in Sockets |-> 0]
    /\ conn = [c \in Sockets |-> TRUE]
    /\ wire = [c \in Sockets |-> <<>>]
    /\ notice = [i \in Notices |-> [step |-> "idle", node |-> None, client |-> None, seq |-> 0]]
    /\ evicting = None
    /\ latest = [n \in Nodes |-> None]

\* What a socket's own goroutines do.
SocketStep(c) ==
    \/ ClosePrevious(c) \/ StartPumps(c) \/ FailReady(c) \/ connectionDone(c)
    \/ ReaderStops(c) \/ WriterSends(c) \/ WriterStops(c)
    \/ ReaderLeaves(c) /\ ~conn[c]

NotifyStep(i) == NotifyNumbers(i) \/ NotifyEnqueues(i) \/ NotifyGivesUp(i)

HubNext ==
    \/ \E c \in Sockets : register(c) \/ Refused(c) \/ SocketStep(c) \/ ReaderLeaves(c)
                          \/ ConnectionLost(c)
    \/ \E i \in Notices : NotifyStep(i) \/ \E n \in Nodes : NotifyLooksUp(i, n)
    \/ \E n \in Nodes : DisconnectLooksUp(n)
    \/ DisconnectStops
    \/ Close

Spec == HubInit /\ [][HubNext]_vars

\* Goroutines that can run do; peers, notifiers and the operator need not act.
FairSpec == Spec /\ \A c \in Sockets : WF_vars(SocketStep(c))

-----------------------------------------------------------------------------
(* Properties. *)

\* Type invariant: the hub's map and counter and every socket's channels.
TypeOK ==
    /\ clients \in [Nodes -> Maybe(Sockets)]
    /\ activeClients \in Nat
    /\ closed \in BOOLEAN
    /\ handler \in [Sockets -> {"idle", "registered", "handover", "pumping", "leaving", "exited"}]
    /\ previous \in [Sockets -> Maybe(Sockets)]
    /\ reader \in [Sockets -> {"off", "running", "stopping", "stopped"}]
    /\ writer \in [Sockets -> {"off", "running", "stopped"}]
    /\ done \in [Sockets -> BOOLEAN]
    /\ closeReq \in [Sockets -> BOOLEAN]
    /\ send \in [Sockets -> Seq(Frame)]
    /\ sequence \in [Sockets -> Nat]
    /\ conn \in [Sockets -> BOOLEAN]
    /\ wire \in [Sockets -> Seq(Frame)]
    /\ evicting \in Maybe(Sockets)
    /\ latest \in [Nodes -> Maybe(Sockets)]

\* activeClients counts exactly the sockets whose goroutines still run, and the
\* overlap slot is the only excess over the limit: a device that reconnects
\* faster than its old pumps end cannot grow the hub (signaling.go, register:
\* "Without the upper bound ...").
SlotsBounded ==
    /\ activeClients = Cardinality(holding)
    /\ activeClients <= maxConnections + 1
    /\ \A c \in Sockets \ holding : reader[c] \in {"off", "stopped"} /\ writer[c] \in {"off", "stopped"}

\* The teardown of a replaced connection never makes its successor unreachable:
\* the socket registered last for a device is the one Notify finds, until its
\* own reader leaves, its ready frame fails, or the hub closes.
NewestIsReachable ==
    \A n \in Nodes :
       (/\ latest[n] # None /\ ~closed
        /\ handler[latest[n]] \in {"registered", "handover", "pumping"}
        /\ reader[latest[n]] \in {"off", "running"})
       => clients[n] = latest[n]

\* The hub's map, channels and slots.
HubSound == TypeOK /\ NewestIsReachable /\ SlotsBounded

\* A replaced or disconnected connection gives its slot back, although nobody
\* but its own pumps can do that.
ReplacedSocketsEnd ==
    \A c \in Sockets : (c \in holding /\ latest[owner[c]] # c) ~> c \notin holding

\* Close returns: its wait for all connections ends, also when a socket was
\* between its registration and its pumps.
CloseDrains == closed ~> activeClients = 0

\* Every connection the hub has to be rid of gives its slot back.
SocketsEnd == ReplacedSocketsEnd /\ CloseDrains
=============================================================================
