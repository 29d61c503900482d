------------------------------ MODULE RelayHub ------------------------------
(***************************************************************************)
(* The relay server: accepting and registering connections, routing frames *)
(* between them, and taking connections out when their ticket is revoked   *)
(* (server/relay/server.go, connection.go, hub.go, revocation.go).         *)
(*                                                                         *)
(* Per connection one goroutine runs handleConn and one writes; the        *)
(* revocation poller sweeps the hub.  A step is a stretch of code between  *)
(* two points where another goroutine can get in between; the hub's lock   *)
(* and revocationMu make one step of what they cover.                      *)
(*                                                                         *)
(* A frame is "registered", "error" or "data"; byte and per-source budgets *)
(* of the queue are in RelaySendQueue, the feed's pages in RevocationFeed, *)
(* and the checks of a ticket other than its revocation are left out.      *)
(***************************************************************************)
EXTENDS Integers, Sequences, FiniteSets

CONSTANTS
    Conns,
    Nodes,
    Identities,
    Revocable,       \* bound: the identities that may be revoked
    node,            \* the network and node a connection registers
    identity,        \* its ticket's device, credential or ticket id
    Legacy,          \* connections that register without a ticket
    MaxConnections,  \* RelayConfig.MaxConnections
    capacity,        \* SendQueueCapacity
    MaxData,         \* bound: data frames forwarded
    None

ASSUME RelayConstants ==
    /\ node \in [Conns -> Nodes]
    /\ identity \in [Conns -> Identities]
    /\ Revocable \subseteq Identities
    /\ Legacy \subseteq Conns
    /\ MaxConnections \in Nat \ {0}
    /\ capacity \in Nat \ {0}
    /\ MaxData \in Nat
    /\ None \notin Conns

VARIABLES
    peers,              \* hub.peers
    tombstones, fresh,  \* revoked identities; revocationFeedUsableLocked
    retired,            \* connections a sweep still has to close
    closing, activeConnections,
    phase,              \* where a connection's handleConn stands
    old,                \* what its registerSwap returned
    revoked,            \* peer.revoked
    done,               \* peer.done is closed
    conn,               \* neither side has closed the connection
    send,               \* peer.send
    writing,            \* the frame its writer holds, "stopped" after its last
    forwarding,         \* the destination its read loop has looked up
    data,               \* bound: data frames read so far
    late, parting,      \* history: frames a revoked peer is sent, by its writer
                        \* and by its handler; the last connection published
    newest              \* for a node

routeVars == <<peers, tombstones, fresh, retired, newest>>
serverVars == <<closing, activeConnections>>
readerVars == <<phase, old, forwarding, data, parting>>
writerVars == <<writing, late>>
peerVars == <<revoked, done, conn, send>>
vars == <<routeVars, serverVars, readerVars, writerVars, peerVars>>

Maybe(S) == S \cup {None}
Frames == {"registered", "error", "data"}

ASSUME NoneIsNoFrame == None \notin Frames

Ticketed == Conns \ Legacy
slot == {c \in Conns : phase[c] \notin {"idle", "exited"}}

\* identityRevokedLocked, for the connections that hold a ticket.
identityRevoked(c, S) == c \in Ticketed /\ identity[c] \in S

reserve == IF capacity \div 4 < 16 THEN capacity \div 4 ELSE 16

\* enqueue: no data in the part of the queue kept for control frames.
room(c, frame) ==
    /\ ~revoked[c] /\ ~done[c]
    /\ Len(send[c]) < capacity - (IF frame = "data" THEN reserve ELSE 0)

\* queue: a control frame that does not fit ends the connection.
queue(c, frame) ==
    IF room(c, frame)
    THEN send' = [send EXCEPT ![c] = Append(@, frame)] /\ UNCHANGED conn
    ELSE conn' = [conn EXCEPT ![c] = FALSE] /\ UNCHANGED send

\* An error frame the handler writes to the socket itself as it leaves: it does
\* not go through the queue, and nobody asks whether the peer is revoked.
WritesError(c) ==
    parting' = [parting EXCEPT ![c] = IF conn[c] /\ revoked[c] THEN @ + 1 ELSE @]

-----------------------------------------------------------------------------
(* Accepting, registering. *)

Serve(c) ==
    /\ phase[c] = "idle" /\ ~closing
    /\ activeConnections + 1 <= MaxConnections
    /\ activeConnections' = activeConnections + 1
    /\ phase' = [phase EXCEPT ![c] = "accepted"]
    /\ UNCHANGED <<routeVars, closing, old, forwarding, data, parting, writerVars, peerVars>>

ServeRejects(c) ==
    /\ phase[c] = "idle"
    /\ closing \/ activeConnections + 1 > MaxConnections
    /\ phase' = [phase EXCEPT ![c] = "exited"]
    /\ conn' = [conn EXCEPT ![c] = FALSE]
    /\ UNCHANGED <<routeVars, serverVars, old, forwarding, data, parting, writerVars, revoked, done, send>>

\* The first frame is read and its ticket verified; or it is refused, late,
\* malformed, or never comes.
verifyTicket(c) ==
    /\ phase[c] = "accepted"
    /\ c \in Ticketed => fresh /\ ~identityRevoked(c, tombstones)
    /\ phase' = [phase EXCEPT ![c] = "verified"]
    /\ UNCHANGED <<routeVars, serverVars, old, forwarding, data, parting, writerVars, peerVars>>

\* Mutant: the refused connection gives its slot back itself, and again on exit.
RegistrationRefused_releasing(c) ==
    /\ phase[c] = "accepted"
    /\ phase' = [phase EXCEPT ![c] = "leaving"]
    /\ activeConnections' = activeConnections - 1
    /\ UNCHANGED <<routeVars, closing, old, forwarding, data, parting, writerVars, peerVars>>

\* A connection that just breaks off is told nothing.
RegistrationRefused(c) ==
    /\ phase[c] = "accepted"
    /\ WritesError(c) \/ UNCHANGED parting
    /\ phase' = [phase EXCEPT ![c] = "leaving"]
    /\ UNCHANGED <<routeVars, serverVars, old, forwarding, data, writerVars, peerVars>>

registerSwap(c) ==
    /\ old' = [old EXCEPT ![c] = peers[node[c]]]
    /\ peers' = [peers EXCEPT ![node[c]] = c]
    /\ newest' = [newest EXCEPT ![node[c]] = c]

\* Mutant: the ticket was good when it was verified.
registerAuthenticated_trusting(c) ==
    /\ phase[c] = "verified"
    /\ registerSwap(c)
    /\ phase' = [phase EXCEPT ![c] = "published"]
    /\ UNCHANGED <<tombstones, fresh, retired, serverVars, forwarding, data, parting,
                   writerVars, peerVars>>

\* The re-check and the publication are one critical section of revocationMu.
registerAuthenticated(c) ==
    /\ phase[c] = "verified"
    /\ \/ /\ c \in Ticketed => fresh /\ ~identityRevoked(c, tombstones)
          /\ registerSwap(c)
          /\ phase' = [phase EXCEPT ![c] = "published"]
          /\ UNCHANGED parting
       \/ /\ c \in Ticketed /\ (~fresh \/ identityRevoked(c, tombstones))
          /\ phase' = [phase EXCEPT ![c] = "leaving"]
          /\ WritesError(c) \/ UNCHANGED parting
          /\ UNCHANGED <<old, peers, newest>>
    /\ UNCHANGED <<tombstones, fresh, retired, serverVars, forwarding, data, writerVars,
                   peerVars>>

\* Mutant: the replaced connection is left to its own timeouts.
CloseReplaced_never(c) ==
    /\ phase[c] = "published"
    /\ UNCHANGED conn
    /\ phase' = [phase EXCEPT ![c] = "confirming"]
    /\ UNCHANGED <<routeVars, serverVars, old, forwarding, data, parting, writerVars, revoked, done, send>>

CloseReplaced(c) ==
    /\ phase[c] = "published"
    /\ conn' = [q \in Conns |-> conn[q] /\ q # old[c]]
    /\ phase' = [phase EXCEPT ![c] = "confirming"]
    /\ UNCHANGED <<routeVars, serverVars, old, forwarding, data, parting, writerVars, revoked, done, send>>

\* MSG_REGISTERED; a ticket that has expired by now goes no further.
ConfirmRegistration(c) ==
    /\ phase[c] = "confirming"
    /\ queue(c, "registered")
    /\ \/ phase' = [phase EXCEPT ![c] = "reading"]
       \/ c \in Ticketed /\ phase' = [phase EXCEPT ![c] = "expired"]
    /\ UNCHANGED <<routeVars, serverVars, old, forwarding, data, parting, writerVars, revoked, done>>

\* A sweep may have come between the answer and this.
TicketExpired(c) ==
    /\ phase[c] = "expired"
    /\ WritesError(c)
    /\ phase' = [phase EXCEPT ![c] = "leaving"]
    /\ UNCHANGED <<routeVars, serverVars, old, forwarding, data, writerVars, peerVars>>

-----------------------------------------------------------------------------
(* The read loop. *)

\* A forward frame arrives, the revoked flag is checked, the peer looked up.
ForwardLooksUp(c, n) ==
    /\ phase[c] = "reading" /\ forwarding[c] = None
    /\ conn[c] /\ ~revoked[c]
    /\ data < MaxData
    /\ data' = data + 1
    /\ \/ /\ peers[n] # None
          /\ forwarding' = [forwarding EXCEPT ![c] = peers[n]]
          /\ UNCHANGED <<conn, send>>
       \/ /\ peers[n] = None
          /\ queue(c, "error")
          /\ UNCHANGED forwarding
    /\ UNCHANGED <<routeVars, serverVars, phase, old, parting, writerVars, revoked, done>>

\* The peer found may be revoked, replaced or gone by now.
ForwardEnqueues(c) ==
    /\ forwarding[c] # None
    /\ LET dst == forwarding[c] IN
         \/ /\ room(dst, "data")
            /\ send' = [send EXCEPT ![dst] = Append(@, "data")]
            /\ UNCHANGED conn
         \/ /\ ~room(dst, "data")
            /\ queue(c, "error")
    /\ forwarding' = [forwarding EXCEPT ![c] = None]
    /\ UNCHANGED <<routeVars, serverVars, phase, old, data, parting, writerVars, revoked, done>>

\* Nothing is said on a broken connection, to a peer found revoked or after a
\* close frame; a silent client and a frame whose header is refused are answered
\* past the queue, a registration under another name through it.
ReaderEnds(c) ==
    /\ phase[c] = "reading" /\ forwarding[c] = None
    /\ \/ UNCHANGED <<parting, conn, send>>
       \/ WritesError(c) /\ UNCHANGED <<conn, send>>
       \/ conn[c] /\ ~revoked[c] /\ queue(c, "error") /\ UNCHANGED parting
    /\ phase' = [phase EXCEPT ![c] = "leaving"]
    /\ UNCHANGED <<routeVars, serverVars, old, forwarding, data, writerVars, revoked, done>>

\* The ticket's timer, the client or the network.
ConnectionLost(c) ==
    /\ phase[c] \in {"accepted", "verified", "published", "confirming", "expired", "reading"}
    /\ conn[c]
    /\ conn' = [conn EXCEPT ![c] = FALSE]
    /\ UNCHANGED <<routeVars, serverVars, readerVars, writerVars, revoked, done, send>>

-----------------------------------------------------------------------------
(* Teardown. *)

\* Mutant: the node's entry goes with whichever of its connections ends.
unregister_by_node(c) ==
    /\ phase[c] = "leaving"
    /\ peers' = [peers EXCEPT ![node[c]] = None]
    /\ phase' = [phase EXCEPT ![c] = "unregistered"]
    /\ UNCHANGED <<tombstones, fresh, retired, newest, serverVars, old, forwarding, data, parting,
                   writerVars, peerVars>>

unregister(c) ==
    /\ phase[c] = "leaving"
    /\ peers' = [n \in Nodes |-> IF n = node[c] /\ peers[n] = c THEN None ELSE peers[n]]
    /\ phase' = [phase EXCEPT ![c] = "unregistered"]
    /\ UNCHANGED <<tombstones, fresh, retired, newest, serverVars, old, forwarding, data, parting,
                   writerVars, peerVars>>

StopsWriter(c) ==
    /\ phase[c] = "unregistered"
    /\ done' = [done EXCEPT ![c] = TRUE]
    /\ conn' = [conn EXCEPT ![c] = FALSE]
    /\ phase' = [phase EXCEPT ![c] = "waiting"]
    /\ UNCHANGED <<routeVars, serverVars, old, forwarding, data, parting, writerVars, revoked, send>>

Exits(c) ==
    /\ phase[c] = "waiting" /\ writing[c] = "stopped"
    /\ activeConnections' = activeConnections - 1
    /\ phase' = [phase EXCEPT ![c] = "exited"]
    /\ UNCHANGED <<routeVars, closing, old, forwarding, data, parting, writerVars, peerVars>>

-----------------------------------------------------------------------------
(* The writer. *)

\* Mutant: the writer empties the queue of a revoked peer.
WriterTakes_unchecked(c) ==
    /\ c \in slot /\ writing[c] = None
    /\ send[c] # <<>>
    /\ send' = [send EXCEPT ![c] = Tail(@)]
    /\ writing' = [writing EXCEPT ![c] = Head(send[c])]
    /\ UNCHANGED <<routeVars, serverVars, readerVars, late, revoked, done, conn>>

WriterTakes(c) ==
    /\ c \in slot /\ writing[c] = None
    /\ send[c] # <<>>
    /\ send' = [send EXCEPT ![c] = Tail(@)]
    /\ writing' = [writing EXCEPT ![c] = IF revoked[c] THEN "stopped" ELSE Head(send[c])]
    /\ UNCHANGED <<routeVars, serverVars, readerVars, late, revoked, done, conn>>

WriterWrites(c) ==
    /\ writing[c] \in Frames
    /\ writing' = [writing EXCEPT ![c] = IF conn[c] THEN None ELSE "stopped"]
    /\ late' = [late EXCEPT ![c] = IF conn[c] /\ revoked[c] THEN @ + 1 ELSE @]
    /\ UNCHANGED <<routeVars, serverVars, readerVars, peerVars>>

WriterStops(c) ==
    /\ writing[c] = None /\ done[c]
    /\ writing' = [writing EXCEPT ![c] = "stopped"]
    /\ UNCHANGED <<routeVars, serverVars, readerVars, late, peerVars>>

-----------------------------------------------------------------------------
(* The revocation poller, and Close. *)

\* Mutant: the entry is left to the connection's own teardown.
sweep_marking(S) ==
    /\ revoked' = [c \in Conns |-> revoked[c] \/ c \in S]
    /\ UNCHANGED peers
    /\ retired' = S

\* Marks and unpublishes S under both locks; their sockets are closed later.
sweep(S) ==
    /\ revoked' = [c \in Conns |-> revoked[c] \/ c \in S]
    /\ peers' = [n \in Nodes |-> IF peers[n] \in S THEN None ELSE peers[n]]
    /\ retired' = S

routed == {c \in Ticketed : \E n \in Nodes : peers[n] = c}

applyRevocationSnapshot(v) ==
    /\ retired = {}
    /\ v \notin tombstones
    /\ tombstones' = tombstones \cup {v}
    /\ sweep({c \in routed : identityRevoked(c, tombstones')})
    /\ UNCHANGED <<fresh, newest, serverVars, readerVars, writerVars, done, conn, send>>

\* Mutant: without news from the control server nothing is done.
closePeersWhenRevocationsStale_never ==
    /\ retired = {} /\ ~fresh /\ routed # {}
    /\ sweep({})
    /\ UNCHANGED <<tombstones, fresh, newest, serverVars, readerVars, writerVars, done, conn, send>>

closePeersWhenRevocationsStale ==
    /\ retired = {} /\ ~fresh /\ routed # {}
    /\ sweep(routed)
    /\ UNCHANGED <<tombstones, fresh, newest, serverVars, readerVars, writerVars, done, conn, send>>

\* Mutant: the sockets are left to be closed by their clients.
CloseRetired_never ==
    /\ retired # {}
    /\ retired' = {}
    /\ UNCHANGED <<peers, tombstones, fresh, newest, serverVars, readerVars, writerVars, peerVars>>

CloseRetired ==
    /\ retired # {}
    /\ conn' = [c \in Conns |-> conn[c] /\ c \notin retired]
    /\ retired' = {}
    /\ UNCHANGED <<peers, tombstones, fresh, newest, serverVars, readerVars, writerVars, revoked,
                   done, send>>

\* The last success grows too old, or the feed is read to its end again.
FeedChanges ==
    /\ retired = {}
    /\ fresh' = ~fresh
    /\ UNCHANGED <<peers, tombstones, retired, newest, serverVars, readerVars, writerVars,
                   peerVars>>

\* Mutant: only the listener is closed.
Close_listener ==
    /\ ~closing
    /\ closing' = TRUE
    /\ UNCHANGED <<routeVars, activeConnections, readerVars, writerVars, peerVars>>

\* Up to the wait for every connection's goroutine.
Close ==
    /\ ~closing
    /\ closing' = TRUE
    /\ conn' = [c \in Conns |-> conn[c] /\ c \notin slot]
    /\ UNCHANGED <<routeVars, activeConnections, readerVars, writerVars, revoked, done, send>>

-----------------------------------------------------------------------------
Init ==
    /\ peers = [n \in Nodes |-> None]
    /\ tombstones = {}
    /\ fresh \in BOOLEAN
    /\ retired = {}
    /\ closing = FALSE
    /\ activeConnections = 0
    /\ phase = [c \in Conns |-> "idle"]
    /\ old = [c \in Conns |-> None]
    /\ revoked = [c \in Conns |-> FALSE]
    /\ done = [c \in Conns |-> FALSE]
    /\ conn = [c \in Conns |-> TRUE]
    /\ send = [c \in Conns |-> <<>>]
    /\ writing = [c \in Conns |-> None]
    /\ forwarding = [c \in Conns |-> None]
    /\ data = 0
    /\ late = [c \in Conns |-> 0]
    /\ parting = [c \in Conns |-> 0]
    /\ newest = [n \in Nodes |-> None]

\* What the goroutines of a connection do by themselves.
ConnStep(c) ==
    \/ verifyTicket(c) \/ RegistrationRefused(c) \/ registerAuthenticated(c)
    \/ CloseReplaced(c) \/ ConfirmRegistration(c) \/ TicketExpired(c)
    \/ ForwardEnqueues(c)
    \/ ReaderEnds(c) /\ ~conn[c]
    \/ unregister(c) \/ StopsWriter(c) \/ Exits(c)

WriterStep(c) == WriterTakes(c) \/ WriterWrites(c) \/ WriterStops(c)

PollerStep == closePeersWhenRevocationsStale \/ CloseRetired

Next ==
    \/ \E c \in Conns : \/ Serve(c) \/ ServeRejects(c)
                        \/ ConnStep(c) \/ WriterStep(c)
                        \/ ReaderEnds(c) \/ ConnectionLost(c)
                        \/ \E n \in Nodes : ForwardLooksUp(c, n)
    \/ \E v \in Revocable : applyRevocationSnapshot(v)
    \/ PollerStep \/ FeedChanges \/ Close

Spec == Init /\ [][Next]_vars

\* Goroutines that can run do, and the poller polls until the relay closes;
\* clients, the network, the control server and the operator need not act.
Fairness ==
    /\ \A c \in Conns : WF_vars(ConnStep(c)) /\ WF_vars(WriterStep(c))
    /\ WF_vars(CloseRetired)
    /\ WF_vars(closePeersWhenRevocationsStale /\ ~closing)

FairSpec == Spec /\ Fairness

-----------------------------------------------------------------------------
(* Properties. *)

\* Type invariant: the hub, the poller's view, and every connection's state.
TypeOK ==
    /\ peers \in [Nodes -> Maybe(Conns)]
    /\ tombstones \subseteq Identities
    /\ fresh \in BOOLEAN
    /\ retired \subseteq Ticketed
    /\ closing \in BOOLEAN
    /\ activeConnections \in Nat
    /\ phase \in [Conns -> {"idle", "accepted", "verified", "published", "confirming",
                            "expired", "reading", "leaving", "unregistered", "waiting", "exited"}]
    /\ old \in [Conns -> Maybe(Conns)]
    /\ revoked \in [Conns -> BOOLEAN]
    /\ done \in [Conns -> BOOLEAN]
    /\ conn \in [Conns -> BOOLEAN]
    /\ send \in [Conns -> Seq(Frames)]
    /\ writing \in [Conns -> Frames \cup {None, "stopped"}]
    /\ forwarding \in [Conns -> Maybe(Conns)]
    /\ data \in 0..MaxData
    /\ late \in [Conns -> Nat]
    /\ parting \in [Conns -> Nat]
    /\ newest \in [Nodes -> Maybe(Conns)]

\* A revocation is missed by neither the registration nor the sweep: no node is
\* ever routed to a connection whose ticket's identity the relay knows to be
\* revoked (revocation.go, registerAuthenticated).
RevokedUnrouted ==
    \A n \in Nodes : peers[n] # None => ~identityRevoked(peers[n], tombstones)

\* A connection that has begun its teardown is never found by a lookup again:
\* not through a late registration, nor because another one's teardown left it.
RoutedIsLive ==
    \A n \in Nodes :
       peers[n] # None =>
          /\ node[peers[n]] = n
          /\ phase[peers[n]] \in {"published", "confirming", "expired", "reading", "leaving"}
          /\ ~done[peers[n]] /\ ~revoked[peers[n]]

\* The connection published last for a node stays the one frames reach, through
\* the teardown of the ones it replaced, until it is swept or tears down itself.
NewestIsRouted ==
    \A n \in Nodes :
       newest[n] # None =>
          \/ peers[n] = newest[n]
          \/ peers[n] = None /\ (revoked[newest[n]] \/ phase[newest[n]] \in
                                    {"unregistered", "waiting", "exited"})

\* After a peer is swept its client is sent at most two more frames, whatever is
\* queued for it and whoever still has its pointer from a lookup: the one the
\* writer held and the error its own handler leaves with; and only until the
\* poller, who swept it, closes its socket.
FewLateFrames ==
    \A c \in Conns :
       /\ late[c] <= 1 /\ parting[c] <= 1
       /\ revoked[c] /\ conn[c] => c \in retired

\* The count Serve checks is exact, so the limit is: every slot taken is given
\* back once, on every way out of handleConn.
SlotsBounded ==
    /\ activeConnections = Cardinality(slot)
    /\ activeConnections <= MaxConnections

\* A connection whose identity is revoked ends, wherever its registration stood
\* and whether or not another one had replaced it in the hub.
RevokedConnectionsEnd ==
    \A c \in Ticketed :
       (identity[c] \in tombstones /\ phase[c] \notin {"idle", "exited"}) ~> phase[c] = "exited"

\* Without fresh revocations, every ticket's connection is taken out.
StaleDrains == ~fresh ~> (fresh \/ closing \/ routed = {})

\* A replaced connection ends although its client keeps it open.
ReplacedConnectionsEnd ==
    \A c \in Conns : (\E d \in Conns : old[d] = c) ~> phase[c] = "exited"

\* Close returns: every goroutine it waits for ends.
CloseDrains == closing ~> activeConnections = 0

\* What a look-up of the hub may find, and what may still reach a connection
\* that look-ups no longer find, through every interleaving of registrations,
\* revocations, replacements and teardowns.
RoutingSound == TypeOK /\ RevokedUnrouted /\ RoutedIsLive /\ NewestIsRouted /\ FewLateFrames

\* Every connection the relay has to be rid of ends without its client's help:
\* revoked, replaced, unverifiable since the feed is stale, or shut down.
ConnectionsEnd == RevokedConnectionsEnd /\ ReplacedConnectionsEnd /\ StaleDrains /\ CloseDrains
=============================================================================
