--------------------------- MODULE RelayHubProofs ---------------------------
(***************************************************************************)
(* Proofs about one relay, for every number of connections, every node and *)
(* ticket they register with, every limit and every queue capacity.        *)
(*                                                                         *)
(* The hub. RoutingSound is made inductive by two facts about a            *)
(* connection's life (LifeOK): a sweep only marks what is routed, so a     *)
(* connection that has not been published yet is not revoked; and done is  *)
(* closed after the connection has left the hub. LateOK says where the     *)
(* late frames of a revoked peer are, SweptOK that they end with its       *)
(* socket, and SlotsExact ties the counter of Serve to the handlers that   *)
(* run.                                                                    *)
(*                                                                         *)
(* The feed, for any page length. A page is the first rows of what the     *)
(* relay has not seen; that it ends before the next such row needs a least *)
(* number to exist, which is the well-foundedness of the naturals.         *)
(*                                                                         *)
(* The queue, for any frame sizes. What a sequence of frames weighs is the *)
(* size of a set, so that what appending and removing a frame do to it     *)
(* follows from unions and bijections of finite sets.                      *)
(***************************************************************************)
EXTENDS RelayServer, FiniteSetTheorems, WellFoundedInduction, TLAPS

-----------------------------------------------------------------------------
(* The inductive invariant.                                                *)

unstarted(c) == phase[c] \in {"idle", "accepted", "verified"}

LifeOK ==
    \A c \in Conns :
       /\ unstarted(c) => ~revoked[c] /\ ~done[c]
       /\ done[c] => phase[c] \in {"waiting", "exited"}

departed(c) == phase[c] \in {"leaving", "unregistered", "waiting", "exited"}

\* A revoked peer's writer holds no second frame, and its handler leaves with the
\* error it writes.
LateOK ==
    \A c \in Conns :
       /\ \/ late[c] = 0
          \/ late[c] = 1 /\ revoked[c] /\ writing[c] \notin Frames
       /\ \/ parting[c] = 0
          \/ parting[c] = 1 /\ departed(c)

\* What a sweep has marked is closed, or about to be by the same sweep.
SweptOK == \A c \in Conns : revoked[c] /\ conn[c] => c \in retired

SlotsExact == IsFiniteSet(slot) /\ activeConnections = Cardinality(slot)

Inv ==
    /\ TypeOK /\ LifeOK /\ LateOK /\ SweptOK
    /\ RevokedUnrouted /\ RoutedIsLive /\ NewestIsRouted
    /\ SlotsExact

-----------------------------------------------------------------------------
(* The counter: a step that moves no connection into or out of a slot, one *)
(* that takes a slot and one that gives it back.                           *)

LEMMA SlotKept ==
    ASSUME SlotsExact, slot' = slot, UNCHANGED activeConnections
    PROVE  SlotsExact'
  BY DEF SlotsExact

LEMMA SlotTaken ==
    ASSUME SlotsExact, NEW c \in Conns, c \notin slot, slot' = slot \cup {c},
           activeConnections' = activeConnections + 1
    PROVE  SlotsExact'
  BY FS_AddElement DEF SlotsExact

LEMMA SlotGiven ==
    ASSUME SlotsExact, NEW c \in Conns, c \in slot, slot' = slot \ {c},
           activeConnections' = activeConnections - 1
    PROVE  SlotsExact'
  BY FS_RemoveElement DEF SlotsExact

-----------------------------------------------------------------------------
(* What the shared parts of several actions do.                            *)

LEMMA QueueTyped ==
    ASSUME TypeOK, NEW c \in Conns, NEW frame \in Frames, queue(c, frame)
    PROVE  send' \in [Conns -> Seq(Frames)] /\ conn' \in [Conns -> BOOLEAN]
<1>1. CASE room(c, frame)
  <2>1. send' = [send EXCEPT ![c] = Append(send[c], frame)] /\ UNCHANGED conn
    BY <1>1 DEF queue
  <2> QED BY <2>1 DEF TypeOK
<1>2. CASE ~room(c, frame)
  BY <1>2 DEF queue, TypeOK
<1> QED BY <1>1, <1>2

\* A sweep marks what it unpublishes, so it takes the newest connection of a
\* node out only as a revoked one.
LEMMA SweepSound ==
    ASSUME TypeOK, LifeOK, RoutedIsLive, NewestIsRouted,
           NEW S, S \subseteq routed, sweep(S), UNCHANGED <<phase, done, newest>>
    PROVE  LifeOK' /\ RoutedIsLive' /\ NewestIsRouted'
<1>1. ASSUME NEW c \in Conns, c \in S PROVE ~unstarted(c)
  <2>1. PICK n \in Nodes : peers[n] = c
    BY <1>1 DEF routed
  <2>2. peers[n] # None
    BY <2>1, RelayConstants
  <2> QED BY <2>1, <2>2 DEF RoutedIsLive, unstarted
<1>2. \A c \in Conns : revoked'[c] <=> revoked[c] \/ c \in S
  BY DEF sweep, TypeOK
<1>3. \A n \in Nodes : peers'[n] = IF peers[n] \in S THEN None ELSE peers[n]
  BY DEF sweep
<1>4. S \subseteq Conns
  BY DEF routed, Ticketed
<1>5. LifeOK'
  BY <1>1, <1>2 DEF LifeOK, unstarted
<1>6. RoutedIsLive'
  BY <1>2, <1>3 DEF RoutedIsLive, TypeOK, Maybe
<1>7. NewestIsRouted'
  BY <1>2, <1>3, <1>4 DEF NewestIsRouted, TypeOK, Maybe
<1> QED BY <1>5, <1>6, <1>7

-----------------------------------------------------------------------------
(* One lemma per action.                                                   *)

LEMMA ServeKeeps == ASSUME Inv, NEW c \in Conns, Serve(c) PROVE Inv'
<1> USE DEF Inv, Serve, routeVars, writerVars, peerVars
<1>1. SlotsExact'
  <2>1. c \notin slot /\ slot' = slot \cup {c}
    BY DEF TypeOK, slot
  <2> QED BY <2>1, SlotTaken
<1>2. TypeOK'
  BY RelayConstants DEF TypeOK, Maybe, Frames, SlotsExact
<1>3. LifeOK'
  BY DEF TypeOK, LifeOK, unstarted
<1>4. LateOK'
  BY NoneIsNoFrame DEF TypeOK, LateOK, departed, Frames
<1>5. RevokedUnrouted'
  BY RelayConstants DEF TypeOK, RevokedUnrouted, identityRevoked
<1>6. RoutedIsLive'
  BY RelayConstants DEF TypeOK, LifeOK, unstarted, RoutedIsLive
<1>7. NewestIsRouted'
  BY RelayConstants DEF TypeOK, NewestIsRouted, RoutedIsLive
<1>8. SweptOK'
  BY DEF TypeOK, SweptOK
<1> QED BY <1>1, <1>2, <1>3, <1>4, <1>5, <1>6, <1>7, <1>8

LEMMA ServeRejectsKeeps == ASSUME Inv, NEW c \in Conns, ServeRejects(c) PROVE Inv'
<1> USE DEF Inv, ServeRejects, routeVars, serverVars, writerVars
<1>1. SlotsExact'
  BY SlotKept DEF TypeOK, SlotsExact, slot
<1>2. TypeOK'
  BY RelayConstants DEF TypeOK, Maybe, Frames, SlotsExact
<1>3. LifeOK'
  BY DEF TypeOK, LifeOK, unstarted
<1>4. LateOK'
  BY NoneIsNoFrame DEF TypeOK, LateOK, departed, Frames
<1>5. RevokedUnrouted'
  BY RelayConstants DEF TypeOK, RevokedUnrouted, identityRevoked
<1>6. RoutedIsLive'
  <2>1. ASSUME NEW n \in Nodes, peers[n] = c PROVE FALSE
    <3>1. peers[n] # None
      BY <2>1, RelayConstants
    <3> QED BY <2>1, <3>1 DEF RoutedIsLive
  <2> QED BY <2>1 DEF TypeOK, Maybe, RoutedIsLive
<1>7. NewestIsRouted'
  BY RelayConstants DEF TypeOK, NewestIsRouted, RoutedIsLive
<1>8. SweptOK'
  BY DEF TypeOK, SweptOK
<1> QED BY <1>1, <1>2, <1>3, <1>4, <1>5, <1>6, <1>7, <1>8

LEMMA verifyTicketKeeps == ASSUME Inv, NEW c \in Conns, verifyTicket(c) PROVE Inv'
<1> USE DEF Inv, verifyTicket, routeVars, serverVars, writerVars, peerVars
<1>1. SlotsExact'
  BY SlotKept DEF TypeOK, SlotsExact, slot
<1>2. TypeOK'
  BY RelayConstants DEF TypeOK, Maybe, Frames, SlotsExact
<1>3. LifeOK'
  BY DEF TypeOK, LifeOK, unstarted
<1>4. LateOK'
  BY NoneIsNoFrame DEF TypeOK, LateOK, departed, Frames
<1>5. RevokedUnrouted'
  BY RelayConstants DEF TypeOK, RevokedUnrouted, identityRevoked
<1>6. RoutedIsLive'
  BY RelayConstants DEF TypeOK, LifeOK, unstarted, RoutedIsLive
<1>7. NewestIsRouted'
  BY RelayConstants DEF TypeOK, NewestIsRouted, RoutedIsLive
<1>8. SweptOK'
  BY DEF TypeOK, SweptOK
<1> QED BY <1>1, <1>2, <1>3, <1>4, <1>5, <1>6, <1>7, <1>8

LEMMA RegistrationRefusedKeeps == ASSUME Inv, NEW c \in Conns, RegistrationRefused(c) PROVE Inv'
<1> USE DEF Inv, RegistrationRefused, WritesError, routeVars, serverVars, writerVars, peerVars
<1>1. SlotsExact'
  BY SlotKept DEF TypeOK, SlotsExact, slot
<1>2. TypeOK'
  <2>1. parting' \in [Conns -> Nat]
    BY DEF TypeOK
  <2>2. phase' \in [Conns -> {"idle", "accepted", "verified", "published", "confirming",
                             "expired", "reading", "leaving", "unregistered", "waiting", "exited"}]
    BY DEF TypeOK
  <2> QED BY <2>1, <2>2 DEF TypeOK
<1>3. LifeOK'
  BY DEF TypeOK, LifeOK, unstarted
<1>4. LateOK'
  BY NoneIsNoFrame DEF TypeOK, LateOK, departed, Frames
<1>5. RevokedUnrouted'
  BY RelayConstants DEF TypeOK, RevokedUnrouted, identityRevoked
<1>6. RoutedIsLive'
  BY RelayConstants DEF TypeOK, LifeOK, unstarted, RoutedIsLive
<1>7. NewestIsRouted'
  BY RelayConstants DEF TypeOK, NewestIsRouted, RoutedIsLive
<1>8. SweptOK'
  BY DEF TypeOK, SweptOK
<1> QED BY <1>1, <1>2, <1>3, <1>4, <1>5, <1>6, <1>7, <1>8

LEMMA registerAuthenticatedKeeps == ASSUME Inv, NEW c \in Conns, registerAuthenticated(c) PROVE Inv'
<1> USE DEF Inv, registerAuthenticated, WritesError, serverVars, writerVars, peerVars
<1>1. SlotsExact'
  BY SlotKept DEF TypeOK, SlotsExact, slot, registerSwap
<1>2. TypeOK'
  <2>1. parting' \in [Conns -> Nat]
    <3>1. \/ parting' = parting
          \/ parting' = [parting EXCEPT ![c] = IF conn[c] /\ revoked[c] THEN @ + 1 ELSE @]
      OBVIOUS
    <3>2. parting \in [Conns -> Nat]
      BY DEF TypeOK
    <3> QED BY <3>1, <3>2
  <2>2. phase' \in [Conns -> {"idle", "accepted", "verified", "published", "confirming",
                             "expired", "reading", "leaving", "unregistered", "waiting", "exited"}]
    BY DEF TypeOK
  <2>3. /\ old' \in [Conns -> Maybe(Conns)]
        /\ peers' \in [Nodes -> Maybe(Conns)] /\ newest' \in [Nodes -> Maybe(Conns)]
    <3>1. CASE registerSwap(c)
      BY <3>1, RelayConstants DEF TypeOK, Maybe, registerSwap
    <3>2. CASE UNCHANGED <<old, peers, newest>>
      BY <3>2 DEF TypeOK
    <3> QED BY <3>1, <3>2
  <2> QED BY <2>1, <2>2, <2>3 DEF TypeOK
<1>3. LifeOK'
  BY DEF TypeOK, LifeOK, unstarted, registerSwap
<1>4. LateOK'
  <2>1. \A d \in Conns : parting'[d] = parting[d]
    BY DEF TypeOK, LifeOK, unstarted
  <2>2. \A d \in Conns : departed(d) => departed(d)'
    BY DEF TypeOK, departed
  <2> QED BY <2>1, <2>2 DEF LateOK
<1>5. RevokedUnrouted'
  BY RelayConstants DEF TypeOK, RevokedUnrouted, identityRevoked, registerSwap
<1>6. RoutedIsLive'
  <2>1. CASE phase' = [phase EXCEPT ![c] = "published"] /\ registerSwap(c)
    <3> SUFFICES ASSUME NEW n \in Nodes, peers'[n] # None
                 PROVE  /\ node[peers'[n]] = n
                        /\ phase'[peers'[n]] \in {"published", "confirming", "expired", "reading", "leaving"}
                        /\ ~done[peers'[n]] /\ ~revoked[peers'[n]]
      BY DEF RoutedIsLive
    <3>1. CASE n = node[c]
      BY <2>1, <3>1 DEF TypeOK, LifeOK, unstarted, registerSwap
    <3>2. CASE n # node[c]
      BY <2>1, <3>2 DEF TypeOK, Maybe, RoutedIsLive, registerSwap
    <3> QED BY <3>1, <3>2
  <2>2. CASE phase' = [phase EXCEPT ![c] = "leaving"] /\ UNCHANGED <<old, peers, newest>>
    BY <2>2 DEF TypeOK, Maybe, RoutedIsLive
  <2> QED BY <2>1, <2>2
<1>7. NewestIsRouted'
  <2>1. CASE phase' = [phase EXCEPT ![c] = "published"] /\ registerSwap(c)
    <3> SUFFICES ASSUME NEW n \in Nodes, newest'[n] # None
                 PROVE  \/ peers'[n] = newest'[n]
                        \/ peers'[n] = None /\ (revoked[newest'[n]] \/ phase'[newest'[n]] \in
                                                  {"unregistered", "waiting", "exited"})
      BY DEF NewestIsRouted
    <3>1. CASE n = node[c]
      BY <2>1, <3>1 DEF TypeOK, registerSwap
    <3>2. CASE n # node[c]
      <4>1. newest'[n] = newest[n] /\ peers'[n] = peers[n]
        BY <2>1, <3>2 DEF TypeOK, registerSwap
      <4>2. phase[newest[n]] \in {"unregistered", "waiting", "exited"} => newest[n] # c
        OBVIOUS
      <4> QED BY <2>1, <4>1, <4>2 DEF TypeOK, Maybe, NewestIsRouted
    <3> QED BY <3>1, <3>2
  <2>2. CASE phase' = [phase EXCEPT ![c] = "leaving"] /\ UNCHANGED <<old, peers, newest>>
    BY <2>2 DEF TypeOK, Maybe, NewestIsRouted
  <2> QED BY <2>1, <2>2
<1>8. SweptOK'
  BY DEF TypeOK, SweptOK
<1> QED BY <1>1, <1>2, <1>3, <1>4, <1>5, <1>6, <1>7, <1>8

LEMMA CloseReplacedKeeps == ASSUME Inv, NEW c \in Conns, CloseReplaced(c) PROVE Inv'
<1> USE DEF Inv, CloseReplaced, routeVars, serverVars, writerVars
<1>1. SlotsExact'
  BY SlotKept DEF TypeOK, SlotsExact, slot
<1>2. TypeOK'
  BY RelayConstants DEF TypeOK, Maybe, Frames, SlotsExact
<1>3. LifeOK'
  BY DEF TypeOK, LifeOK, unstarted
<1>4. LateOK'
  BY NoneIsNoFrame DEF TypeOK, LateOK, departed, Frames
<1>5. RevokedUnrouted'
  BY RelayConstants DEF TypeOK, RevokedUnrouted, identityRevoked
<1>6. RoutedIsLive'
  BY RelayConstants DEF TypeOK, LifeOK, unstarted, RoutedIsLive
<1>7. NewestIsRouted'
  BY RelayConstants DEF TypeOK, NewestIsRouted, RoutedIsLive
<1>8. SweptOK'
  BY DEF TypeOK, SweptOK
<1> QED BY <1>1, <1>2, <1>3, <1>4, <1>5, <1>6, <1>7, <1>8

LEMMA ConfirmRegistrationKeeps == ASSUME Inv, NEW c \in Conns, ConfirmRegistration(c) PROVE Inv'
<1> USE DEF Inv, ConfirmRegistration, routeVars, serverVars, writerVars
<1>1. SlotsExact'
  BY SlotKept DEF TypeOK, SlotsExact, slot, queue
<1>2. TypeOK'
  <2>1. send' \in [Conns -> Seq(Frames)] /\ conn' \in [Conns -> BOOLEAN]
    BY QueueTyped DEF Frames
  <2> QED BY <2>1 DEF TypeOK
<1>3. LifeOK'
  BY DEF TypeOK, LifeOK, unstarted, queue
<1>4. LateOK'
  BY NoneIsNoFrame DEF TypeOK, LateOK, departed, Frames, queue
<1>5. RevokedUnrouted'
  BY RelayConstants DEF TypeOK, RevokedUnrouted, identityRevoked, queue
<1>6. RoutedIsLive'
  <2> SUFFICES ASSUME NEW n \in Nodes, peers[n] # None
               PROVE  phase'[peers[n]] \in {"published", "confirming", "expired", "reading", "leaving"}
    BY DEF RoutedIsLive
  <2>1. \A d \in Conns : phase'[d] = phase[d] \/ phase'[d] \in {"reading", "expired"}
    BY DEF TypeOK
  <2>2. peers[n] \in Conns
    BY DEF TypeOK, Maybe
  <2> QED BY <2>1, <2>2 DEF RoutedIsLive
<1>7. NewestIsRouted'
  <2>1. \A d \in Conns : d # c => phase'[d] = phase[d]
    BY DEF TypeOK
  <2> QED BY <2>1 DEF TypeOK, Maybe, NewestIsRouted
<1>8. SweptOK'
  BY DEF TypeOK, SweptOK, queue
<1> QED BY <1>1, <1>2, <1>3, <1>4, <1>5, <1>6, <1>7, <1>8

LEMMA TicketExpiredKeeps == ASSUME Inv, NEW c \in Conns, TicketExpired(c) PROVE Inv'
<1> USE DEF Inv, TicketExpired, WritesError, routeVars, serverVars, writerVars, peerVars
<1>1. SlotsExact'
  BY SlotKept DEF TypeOK, SlotsExact, slot
<1>2. TypeOK'
  BY RelayConstants DEF TypeOK, Maybe, Frames, SlotsExact
<1>3. LifeOK'
  BY DEF TypeOK, LifeOK, unstarted
<1>4. LateOK'
  BY NoneIsNoFrame DEF TypeOK, LateOK, departed, Frames
<1>5. RevokedUnrouted'
  BY RelayConstants DEF TypeOK, RevokedUnrouted, identityRevoked
<1>6. RoutedIsLive'
  BY RelayConstants DEF TypeOK, LifeOK, unstarted, RoutedIsLive
<1>7. NewestIsRouted'
  BY RelayConstants DEF TypeOK, NewestIsRouted, RoutedIsLive
<1>8. SweptOK'
  BY DEF TypeOK, SweptOK
<1> QED BY <1>1, <1>2, <1>3, <1>4, <1>5, <1>6, <1>7, <1>8

LEMMA ForwardLooksUpKeeps ==
    ASSUME Inv, NEW c \in Conns, NEW n \in Nodes, ForwardLooksUp(c, n) PROVE Inv'
<1> USE DEF Inv, ForwardLooksUp, routeVars, serverVars, writerVars
<1>1. SlotsExact'
  BY SlotKept DEF TypeOK, SlotsExact, slot, queue
<1>2. TypeOK'
  <2>1. send' \in [Conns -> Seq(Frames)] /\ conn' \in [Conns -> BOOLEAN]
    BY QueueTyped DEF TypeOK, Frames
  <2>2. forwarding' \in [Conns -> Maybe(Conns)]
    BY DEF TypeOK
  <2> QED BY <2>1, <2>2, RelayConstants DEF TypeOK
<1>3. LifeOK'
  BY DEF TypeOK, LifeOK, unstarted, queue
<1>4. LateOK'
  BY NoneIsNoFrame DEF TypeOK, LateOK, departed, Frames, queue
<1>5. RevokedUnrouted'
  BY RelayConstants DEF TypeOK, RevokedUnrouted, identityRevoked, queue
<1>6. RoutedIsLive'
  BY RelayConstants DEF TypeOK, LifeOK, unstarted, RoutedIsLive, queue
<1>7. NewestIsRouted'
  BY RelayConstants DEF TypeOK, NewestIsRouted, RoutedIsLive, queue
<1>8. SweptOK'
  BY DEF TypeOK, SweptOK, queue
<1> QED BY <1>1, <1>2, <1>3, <1>4, <1>5, <1>6, <1>7, <1>8

LEMMA ForwardEnqueuesKeeps == ASSUME Inv, NEW c \in Conns, ForwardEnqueues(c) PROVE Inv'
<1> USE DEF Inv, ForwardEnqueues, routeVars, serverVars, writerVars
<1>1. SlotsExact'
  BY SlotKept DEF TypeOK, SlotsExact, slot, queue
<1>2. TypeOK'
  <2> DEFINE dst == forwarding[c]
  <2>1. dst \in Conns
    BY DEF TypeOK, Maybe
  <2>2. send' \in [Conns -> Seq(Frames)] /\ conn' \in [Conns -> BOOLEAN]
    <3>1. CASE room(dst, "data")
      <4>1. send' = [send EXCEPT ![dst] = Append(send[dst], "data")] /\ UNCHANGED conn
        BY <3>1
      <4> QED BY <2>1, <4>1 DEF TypeOK, Frames
    <3>2. CASE ~room(dst, "data")
      BY <3>2, QueueTyped DEF Frames
    <3> QED BY <3>1, <3>2
  <2>3. forwarding' \in [Conns -> Maybe(Conns)]
    BY DEF TypeOK, Maybe
  <2> QED BY <2>2, <2>3 DEF TypeOK
<1>3. LifeOK'
  BY DEF TypeOK, LifeOK, unstarted, queue
<1>4. LateOK'
  BY NoneIsNoFrame DEF TypeOK, LateOK, departed, Frames, queue
<1>5. RevokedUnrouted'
  BY RelayConstants DEF TypeOK, RevokedUnrouted, identityRevoked, queue
<1>6. RoutedIsLive'
  BY RelayConstants DEF TypeOK, LifeOK, unstarted, RoutedIsLive, queue
<1>7. NewestIsRouted'
  BY RelayConstants DEF TypeOK, NewestIsRouted, RoutedIsLive, queue
<1>8. SweptOK'
  BY DEF TypeOK, SweptOK, queue
<1> QED BY <1>1, <1>2, <1>3, <1>4, <1>5, <1>6, <1>7, <1>8

LEMMA ReaderEndsKeeps == ASSUME Inv, NEW c \in Conns, ReaderEnds(c) PROVE Inv'
<1> USE DEF Inv, ReaderEnds, WritesError, routeVars, serverVars, writerVars
<1>1. SlotsExact'
  BY SlotKept DEF TypeOK, SlotsExact, slot, queue
<1>2. TypeOK'
  <2>1. send' \in [Conns -> Seq(Frames)] /\ conn' \in [Conns -> BOOLEAN]
    BY QueueTyped DEF TypeOK, Frames
  <2>2. parting' \in [Conns -> Nat]
    BY DEF TypeOK
  <2> QED BY <2>1, <2>2 DEF TypeOK
<1>3. LifeOK'
  BY DEF TypeOK, LifeOK, unstarted, queue
<1>4. LateOK'
  BY NoneIsNoFrame DEF TypeOK, LateOK, departed, Frames, queue
<1>5. RevokedUnrouted'
  BY RelayConstants DEF TypeOK, RevokedUnrouted, identityRevoked, queue
<1>6. RoutedIsLive'
  BY RelayConstants DEF TypeOK, LifeOK, unstarted, RoutedIsLive, queue
<1>7. NewestIsRouted'
  BY RelayConstants DEF TypeOK, NewestIsRouted, RoutedIsLive, queue
<1>8. SweptOK'
  BY DEF TypeOK, SweptOK, queue
<1> QED BY <1>1, <1>2, <1>3, <1>4, <1>5, <1>6, <1>7, <1>8

LEMMA ConnectionLostKeeps == ASSUME Inv, NEW c \in Conns, ConnectionLost(c) PROVE Inv'
<1> USE DEF Inv, ConnectionLost, routeVars, serverVars, readerVars, writerVars
<1>1. SlotsExact'
  BY SlotKept DEF TypeOK, SlotsExact, slot
<1>2. TypeOK'
  BY RelayConstants DEF TypeOK, Maybe, Frames, SlotsExact
<1>3. LifeOK'
  BY DEF TypeOK, LifeOK, unstarted
<1>4. LateOK'
  BY NoneIsNoFrame DEF TypeOK, LateOK, departed, Frames
<1>5. RevokedUnrouted'
  BY RelayConstants DEF TypeOK, RevokedUnrouted, identityRevoked
<1>6. RoutedIsLive'
  BY RelayConstants DEF TypeOK, LifeOK, unstarted, RoutedIsLive
<1>7. NewestIsRouted'
  BY RelayConstants DEF TypeOK, NewestIsRouted, RoutedIsLive
<1>8. SweptOK'
  BY DEF TypeOK, SweptOK
<1> QED BY <1>1, <1>2, <1>3, <1>4, <1>5, <1>6, <1>7, <1>8

LEMMA unregisterKeeps == ASSUME Inv, NEW c \in Conns, unregister(c) PROVE Inv'
<1> USE DEF Inv, unregister, serverVars, writerVars, peerVars
<1>1. SlotsExact'
  BY SlotKept DEF TypeOK, SlotsExact, slot
<1>2. TypeOK'
  BY RelayConstants DEF TypeOK, Maybe, Frames, SlotsExact
<1>3. LifeOK'
  BY DEF TypeOK, LifeOK, unstarted
<1>4. LateOK'
  BY NoneIsNoFrame DEF TypeOK, LateOK, departed, Frames
<1>5. RevokedUnrouted'
  BY RelayConstants DEF TypeOK, RevokedUnrouted, identityRevoked
<1>6. RoutedIsLive'
  BY RelayConstants DEF TypeOK, LifeOK, unstarted, RoutedIsLive
<1>7. NewestIsRouted'
  BY RelayConstants DEF TypeOK, NewestIsRouted, RoutedIsLive
<1>8. SweptOK'
  BY DEF TypeOK, SweptOK
<1> QED BY <1>1, <1>2, <1>3, <1>4, <1>5, <1>6, <1>7, <1>8

LEMMA StopsWriterKeeps == ASSUME Inv, NEW c \in Conns, StopsWriter(c) PROVE Inv'
<1> USE DEF Inv, StopsWriter, routeVars, serverVars, writerVars
<1>1. SlotsExact'
  BY SlotKept DEF TypeOK, SlotsExact, slot
<1>2. TypeOK'
  BY RelayConstants DEF TypeOK, Maybe, Frames, SlotsExact
<1>3. LifeOK'
  BY DEF TypeOK, LifeOK, unstarted
<1>4. LateOK'
  BY NoneIsNoFrame DEF TypeOK, LateOK, departed, Frames
<1>5. RevokedUnrouted'
  BY RelayConstants DEF TypeOK, RevokedUnrouted, identityRevoked
<1>6. RoutedIsLive'
  <2>1. ASSUME NEW n \in Nodes, peers[n] = c PROVE FALSE
    <3>1. peers[n] # None
      BY <2>1, RelayConstants
    <3> QED BY <2>1, <3>1 DEF RoutedIsLive
  <2> QED BY <2>1 DEF TypeOK, Maybe, RoutedIsLive
<1>7. NewestIsRouted'
  BY RelayConstants DEF TypeOK, NewestIsRouted, RoutedIsLive
<1>8. SweptOK'
  BY DEF TypeOK, SweptOK
<1> QED BY <1>1, <1>2, <1>3, <1>4, <1>5, <1>6, <1>7, <1>8

LEMMA ExitsKeeps == ASSUME Inv, NEW c \in Conns, Exits(c) PROVE Inv'
<1> USE DEF Inv, Exits, routeVars, writerVars, peerVars
<1>1. SlotsExact'
  <2>1. c \in slot /\ slot' = slot \ {c}
    BY DEF TypeOK, slot
  <2> QED BY <2>1, SlotGiven
<1>2. TypeOK'
  <2>1. activeConnections' \in Nat
    BY <1>1, FS_CardinalityType DEF SlotsExact
  <2> QED BY <2>1 DEF TypeOK
<1>3. LifeOK'
  BY DEF TypeOK, LifeOK, unstarted
<1>4. LateOK'
  BY NoneIsNoFrame DEF TypeOK, LateOK, departed, Frames
<1>5. RevokedUnrouted'
  BY RelayConstants DEF TypeOK, RevokedUnrouted, identityRevoked
<1>6. RoutedIsLive'
  BY RelayConstants DEF TypeOK, LifeOK, unstarted, RoutedIsLive
<1>7. NewestIsRouted'
  BY RelayConstants DEF TypeOK, NewestIsRouted, RoutedIsLive
<1>8. SweptOK'
  BY DEF TypeOK, SweptOK
<1> QED BY <1>1, <1>2, <1>3, <1>4, <1>5, <1>6, <1>7, <1>8

LEMMA WriterTakesKeeps == ASSUME Inv, NEW c \in Conns, WriterTakes(c) PROVE Inv'
<1> USE DEF Inv, WriterTakes, routeVars, serverVars, readerVars
<1>1. SlotsExact'
  BY SlotKept DEF TypeOK, SlotsExact, slot
<1>2. TypeOK'
  BY RelayConstants DEF TypeOK, Maybe, Frames, SlotsExact
<1>3. LifeOK'
  BY DEF TypeOK, LifeOK, unstarted
<1>4. LateOK'
  BY NoneIsNoFrame DEF TypeOK, LateOK, departed, Frames
<1>5. RevokedUnrouted'
  BY RelayConstants DEF TypeOK, RevokedUnrouted, identityRevoked
<1>6. RoutedIsLive'
  BY RelayConstants DEF TypeOK, LifeOK, unstarted, RoutedIsLive
<1>7. NewestIsRouted'
  BY RelayConstants DEF TypeOK, NewestIsRouted, RoutedIsLive
<1>8. SweptOK'
  BY DEF TypeOK, SweptOK
<1> QED BY <1>1, <1>2, <1>3, <1>4, <1>5, <1>6, <1>7, <1>8

LEMMA WriterWritesKeeps == ASSUME Inv, NEW c \in Conns, WriterWrites(c) PROVE Inv'
<1> USE DEF Inv, WriterWrites, routeVars, serverVars, readerVars, peerVars
<1>1. SlotsExact'
  BY SlotKept DEF TypeOK, SlotsExact, slot
<1>2. TypeOK'
  BY RelayConstants DEF TypeOK, Maybe, Frames, SlotsExact
<1>3. LifeOK'
  BY DEF TypeOK, LifeOK, unstarted
<1>4. LateOK'
  BY NoneIsNoFrame DEF TypeOK, LateOK, departed, Frames
<1>5. RevokedUnrouted'
  BY RelayConstants DEF TypeOK, RevokedUnrouted, identityRevoked
<1>6. RoutedIsLive'
  BY RelayConstants DEF TypeOK, LifeOK, unstarted, RoutedIsLive
<1>7. NewestIsRouted'
  BY RelayConstants DEF TypeOK, NewestIsRouted, RoutedIsLive
<1>8. SweptOK'
  BY DEF TypeOK, SweptOK
<1> QED BY <1>1, <1>2, <1>3, <1>4, <1>5, <1>6, <1>7, <1>8

LEMMA WriterStopsKeeps == ASSUME Inv, NEW c \in Conns, WriterStops(c) PROVE Inv'
<1> USE DEF Inv, WriterStops, routeVars, serverVars, readerVars, peerVars
<1>1. SlotsExact'
  BY SlotKept DEF TypeOK, SlotsExact, slot
<1>2. TypeOK'
  BY RelayConstants DEF TypeOK, Maybe, Frames, SlotsExact
<1>3. LifeOK'
  BY DEF TypeOK, LifeOK, unstarted
<1>4. LateOK'
  BY NoneIsNoFrame DEF TypeOK, LateOK, departed, Frames
<1>5. RevokedUnrouted'
  BY RelayConstants DEF TypeOK, RevokedUnrouted, identityRevoked
<1>6. RoutedIsLive'
  BY RelayConstants DEF TypeOK, LifeOK, unstarted, RoutedIsLive
<1>7. NewestIsRouted'
  BY RelayConstants DEF TypeOK, NewestIsRouted, RoutedIsLive
<1>8. SweptOK'
  BY DEF TypeOK, SweptOK
<1> QED BY <1>1, <1>2, <1>3, <1>4, <1>5, <1>6, <1>7, <1>8

LEMMA applyRevocationSnapshotKeeps ==
    ASSUME Inv, NEW v \in Revocable, applyRevocationSnapshot(v) PROVE Inv'
<1> USE DEF Inv, applyRevocationSnapshot, serverVars, readerVars, writerVars
<1>1. SlotsExact'
  BY SlotKept DEF TypeOK, SlotsExact, slot, sweep
<1>2. TypeOK'
  BY RelayConstants DEF TypeOK, Maybe, Frames, SlotsExact, sweep, routed, Ticketed
<1>3. LifeOK'
  BY SweepSound DEF TypeOK
<1>4. LateOK'
  BY NoneIsNoFrame DEF TypeOK, LateOK, departed, Frames, sweep
<1>5. RevokedUnrouted'
  BY RelayConstants DEF TypeOK, RevokedUnrouted, identityRevoked, sweep, routed
<1>6. RoutedIsLive'
  BY SweepSound DEF TypeOK
<1>7. NewestIsRouted'
  BY SweepSound DEF TypeOK
<1>8. SweptOK'
  BY DEF TypeOK, SweptOK, sweep
<1> QED BY <1>1, <1>2, <1>3, <1>4, <1>5, <1>6, <1>7, <1>8

LEMMA closePeersWhenRevocationsStaleKeeps == ASSUME Inv, closePeersWhenRevocationsStale PROVE Inv'
<1> USE DEF Inv, closePeersWhenRevocationsStale, serverVars, readerVars, writerVars
<1>1. SlotsExact'
  BY SlotKept DEF TypeOK, SlotsExact, slot, sweep
<1>2. TypeOK'
  BY RelayConstants DEF TypeOK, Maybe, Frames, SlotsExact, sweep, routed, Ticketed
<1>3. LifeOK'
  BY SweepSound DEF TypeOK
<1>4. LateOK'
  BY NoneIsNoFrame DEF TypeOK, LateOK, departed, Frames, sweep
<1>5. RevokedUnrouted'
  BY RelayConstants DEF TypeOK, RevokedUnrouted, identityRevoked, sweep, routed
<1>6. RoutedIsLive'
  BY SweepSound DEF TypeOK
<1>7. NewestIsRouted'
  BY SweepSound DEF TypeOK
<1>8. SweptOK'
  BY DEF TypeOK, SweptOK, sweep
<1> QED BY <1>1, <1>2, <1>3, <1>4, <1>5, <1>6, <1>7, <1>8

LEMMA CloseRetiredKeeps == ASSUME Inv, CloseRetired PROVE Inv'
<1> USE DEF Inv, CloseRetired, serverVars, readerVars, writerVars
<1>1. SlotsExact'
  BY SlotKept DEF TypeOK, SlotsExact, slot
<1>2. TypeOK'
  BY RelayConstants DEF TypeOK, Maybe, Frames, SlotsExact
<1>3. LifeOK'
  BY DEF TypeOK, LifeOK, unstarted
<1>4. LateOK'
  BY NoneIsNoFrame DEF TypeOK, LateOK, departed, Frames
<1>5. RevokedUnrouted'
  BY RelayConstants DEF TypeOK, RevokedUnrouted, identityRevoked
<1>6. RoutedIsLive'
  BY RelayConstants DEF TypeOK, LifeOK, unstarted, RoutedIsLive
<1>7. NewestIsRouted'
  BY RelayConstants DEF TypeOK, NewestIsRouted, RoutedIsLive
<1>8. SweptOK'
  BY DEF TypeOK, SweptOK
<1> QED BY <1>1, <1>2, <1>3, <1>4, <1>5, <1>6, <1>7, <1>8

LEMMA FeedChangesKeeps == ASSUME Inv, FeedChanges PROVE Inv'
<1> USE DEF Inv, FeedChanges, serverVars, readerVars, writerVars, peerVars
<1>1. SlotsExact'
  BY SlotKept DEF TypeOK, SlotsExact, slot
<1>2. TypeOK'
  BY RelayConstants DEF TypeOK, Maybe, Frames, SlotsExact
<1>3. LifeOK'
  BY DEF TypeOK, LifeOK, unstarted
<1>4. LateOK'
  BY NoneIsNoFrame DEF TypeOK, LateOK, departed, Frames
<1>5. RevokedUnrouted'
  BY RelayConstants DEF TypeOK, RevokedUnrouted, identityRevoked
<1>6. RoutedIsLive'
  BY RelayConstants DEF TypeOK, LifeOK, unstarted, RoutedIsLive
<1>7. NewestIsRouted'
  BY RelayConstants DEF TypeOK, NewestIsRouted, RoutedIsLive
<1>8. SweptOK'
  BY DEF TypeOK, SweptOK
<1> QED BY <1>1, <1>2, <1>3, <1>4, <1>5, <1>6, <1>7, <1>8

LEMMA CloseKeeps == ASSUME Inv, Close PROVE Inv'
<1> USE DEF Inv, Close, routeVars, readerVars, writerVars
<1>1. SlotsExact'
  BY SlotKept DEF TypeOK, SlotsExact, slot
<1>2. TypeOK'
  BY RelayConstants DEF TypeOK, Maybe, Frames, SlotsExact
<1>3. LifeOK'
  BY DEF TypeOK, LifeOK, unstarted
<1>4. LateOK'
  BY NoneIsNoFrame DEF TypeOK, LateOK, departed, Frames
<1>5. RevokedUnrouted'
  BY RelayConstants DEF TypeOK, RevokedUnrouted, identityRevoked
<1>6. RoutedIsLive'
  BY RelayConstants DEF TypeOK, LifeOK, unstarted, RoutedIsLive
<1>7. NewestIsRouted'
  BY RelayConstants DEF TypeOK, NewestIsRouted, RoutedIsLive
<1>8. SweptOK'
  BY DEF TypeOK, SweptOK
<1> QED BY <1>1, <1>2, <1>3, <1>4, <1>5, <1>6, <1>7, <1>8

LEMMA InitInv == Init => Inv
<1> SUFFICES ASSUME Init PROVE Inv
  OBVIOUS
<1> USE DEF Init
<1>1. SlotsExact
  <2>1. slot = {}
    BY DEF slot
  <2> QED BY <2>1, FS_EmptySet DEF SlotsExact
<1>2. TypeOK
  <2>1. send \in [Conns -> Seq(Frames)]
    OBVIOUS
  <2>2. data \in 0..MaxData
    BY RelayConstants
  <2> QED BY <2>1, <2>2, RelayConstants DEF TypeOK, Maybe
<1>3. LifeOK /\ LateOK /\ SweptOK
  BY DEF LifeOK, LateOK, SweptOK
<1>4. RevokedUnrouted /\ RoutedIsLive /\ NewestIsRouted
  BY DEF RevokedUnrouted, RoutedIsLive, NewestIsRouted
<1> QED BY <1>1, <1>2, <1>3, <1>4 DEF Inv

LEMMA NextInv == Inv /\ [Next]_vars => Inv'
<1> SUFFICES ASSUME Inv, [Next]_vars PROVE Inv'
  OBVIOUS
<1>1. ASSUME NEW c \in Conns, ConnStep(c) PROVE Inv'
  BY <1>1, verifyTicketKeeps, RegistrationRefusedKeeps, registerAuthenticatedKeeps,
     CloseReplacedKeeps, ConfirmRegistrationKeeps, TicketExpiredKeeps, ForwardEnqueuesKeeps,
     ReaderEndsKeeps, unregisterKeeps, StopsWriterKeeps, ExitsKeeps DEF ConnStep
<1>2. ASSUME NEW c \in Conns, WriterStep(c) PROVE Inv'
  BY <1>2, WriterTakesKeeps, WriterWritesKeeps, WriterStopsKeeps DEF WriterStep
<1>3. ASSUME NEW c \in Conns,
             \/ Serve(c) \/ ServeRejects(c) \/ ReaderEnds(c) \/ ConnectionLost(c)
             \/ \E n \in Nodes : ForwardLooksUp(c, n)
      PROVE  Inv'
  BY <1>3, ServeKeeps, ServeRejectsKeeps, ReaderEndsKeeps, ConnectionLostKeeps,
     ForwardLooksUpKeeps
<1>4. ASSUME NEW v \in Revocable, applyRevocationSnapshot(v) PROVE Inv'
  BY <1>4, applyRevocationSnapshotKeeps
<1>5. CASE PollerStep \/ FeedChanges \/ Close
  BY <1>5, closePeersWhenRevocationsStaleKeeps, CloseRetiredKeeps, FeedChangesKeeps, CloseKeeps
     DEF PollerStep
<1>6. CASE UNCHANGED vars
  BY <1>6 DEF vars, routeVars, serverVars, readerVars, writerVars, peerVars, Inv, TypeOK, LifeOK,
     LateOK, SweptOK, departed, unstarted, RevokedUnrouted, identityRevoked, RoutedIsLive, NewestIsRouted, SlotsExact,
     slot
<1> QED BY <1>1, <1>2, <1>3, <1>4, <1>5, <1>6 DEF Next

-----------------------------------------------------------------------------
(* The theorems.                                                           *)

\* Whatever the order of registrations, revocations, replacements, forwards and
\* teardowns: no look-up of the hub finds a connection whose ticket is revoked
\* or that has begun to end, the newest connection of a node is not displaced by
\* an older one's teardown, and a swept peer gets at most the frame its writer
\* already held and the error its handler leaves with, until the sweep closes its
\* socket (hub.go, connection.go, revocation.go).
THEOREM RoutingIsSound == Spec => []RoutingSound
<1>1. Inv => RoutingSound
  BY DEF Inv, LateOK, SweptOK, RoutingSound, FewLateFrames
<1> QED BY <1>1, InitInv, NextInv, PTL DEF Spec

\* The counter Serve compares with MaxConnections is the number of handlers
\* that run, and never exceeds it (server.go).
THEOREM SlotsAreExact == Spec => []SlotsBounded
<1>1. Inv /\ SlotsBounded /\ [Next]_vars => SlotsBounded'
  <2> SUFFICES ASSUME Inv, SlotsBounded, [Next]_vars PROVE SlotsBounded'
    OBVIOUS
  <2>1. activeConnections' <= MaxConnections
    <3>1. activeConnections \in Nat /\ MaxConnections \in Nat
      BY RelayConstants DEF Inv, TypeOK
    <3>2. \/ activeConnections' = activeConnections
          \/ activeConnections' = activeConnections - 1
          \/ activeConnections' = activeConnections + 1 /\ activeConnections + 1 <= MaxConnections
      BY DEF Next, ConnStep, WriterStep, PollerStep, Serve, ServeRejects, verifyTicket,
         RegistrationRefused, registerAuthenticated, CloseReplaced, ConfirmRegistration,
         TicketExpired, ForwardLooksUp, ForwardEnqueues, ReaderEnds, ConnectionLost, unregister, StopsWriter,
         Exits, WriterTakes, WriterWrites, WriterStops, applyRevocationSnapshot,
         closePeersWhenRevocationsStale, CloseRetired, FeedChanges, Close, vars, serverVars
    <3> QED BY <3>1, <3>2 DEF SlotsBounded
  <2>2. Inv'
    BY NextInv
  <2> QED BY <2>1, <2>2 DEF SlotsBounded, Inv, SlotsExact
<1>2. Init => SlotsBounded
  BY InitInv, RelayConstants DEF Init, Inv, SlotsExact, SlotsBounded
<1> QED BY <1>1, <1>2, InitInv, NextInv, PTL DEF Spec

-----------------------------------------------------------------------------
(* Least and greatest numbers.                                             *)

LEMMA Least == ASSUME NEW S \in SUBSET Nat, S # {} PROVE \E x \in S : \A y \in S : x <= y
<1> DEFINE R == OpToRel(<, Nat)
<1>1. IsWellFoundedOn(R, Nat)
  BY NatLessThanWellFounded
<1>2. R = {ss \in Nat \X Nat : ss[1] < ss[2]}
  BY DEF OpToRel
<1> HIDE DEF R
<1>3. PICK x \in S : \A y \in S : ~(<<y, x>> \in R)
  BY <1>1, WFMin
<1>4. ASSUME NEW y \in S PROVE ~(y < x)
  <2>1. <<y, x>> \in R <=> y < x
    BY <1>2
  <2> QED BY <1>3, <2>1
<1>5. \A y \in S : x <= y
  BY <1>4
<1> QED BY <1>5

LEMMA Greatest ==
    ASSUME NEW S \in SUBSET Nat, S # {}, NEW bound \in Nat, \A x \in S : x <= bound
    PROVE  /\ \E x \in S : \A y \in S : x >= y
           /\ Feed!Max(S) \in S /\ \A y \in S : Feed!Max(S) >= y
<1> DEFINE U == {n \in Nat : \A x \in S : x <= n}
<1>1. PICK u \in U : \A n \in U : u <= n
  <2>1. bound \in U /\ U \in SUBSET Nat
    OBVIOUS
  <2> HIDE DEF U
  <2> QED BY <2>1, Least
<1>2. u \in S
  <2> SUFFICES ASSUME u \notin S PROVE FALSE
    OBVIOUS
  <2>1. \A x \in S : x <= u - 1
    BY <1>1
  <2>2. u \in Nat /\ u # 0
    <3>1. PICK x \in S : TRUE
      OBVIOUS
    <3>2. x \in Nat /\ x <= u /\ x # u /\ u \in Nat
      BY <1>1
    <3> QED BY <3>2
  <2>3. u - 1 \in Nat
    BY <2>2
  <2>4. u - 1 \in U
    BY <2>1, <2>3
  <2> HIDE DEF U
  <2>5. u <= u - 1
    BY <1>1, <2>4
  <2> QED BY <2>2, <2>5
<1>3. \A y \in S : u >= y
  BY <1>1
<1> QED BY <1>2, <1>3 DEF Feed!Max

LEMMA MaxOfTwo ==
    ASSUME NEW a \in Nat, NEW b \in Nat, b >= a PROVE Feed!Max({a, b}) = b
<1>1. Feed!Max({a, b}) \in {a, b} /\ \A y \in {a, b} : Feed!Max({a, b}) >= y
  <2> DEFINE S == {a, b}
  <2>1. S \in SUBSET Nat /\ S # {} /\ \A x \in S : x <= b
    OBVIOUS
  <2> HIDE DEF S
  <2>2. Feed!Max(S) \in S /\ \A y \in S : Feed!Max(S) >= y
    BY <2>1, Greatest
  <2> QED BY <2>2 DEF S
<1> QED BY <1>1

-----------------------------------------------------------------------------
(* A page: the first rows of what is wanted.                               *)

Numbered(S) ==
    /\ IsFiniteSet(S)
    /\ S \subseteq [seq : 1..MaxRevision, value : Identities]
    /\ \A r, q \in S : r.seq = q.seq => r = q

before(S, r) == {q \in S : q.seq < r.seq}

LEMMA CardinalityIs == ASSUME NEW S PROVE Feed!Cardinality(S) = Cardinality(S)
<1>1. \A T : Feed!IsFiniteSet(T) = IsFiniteSet(T)
  BY DEF IsFiniteSet, Feed!IsFiniteSet
<1> QED BY <1>1, Zenon DEF Cardinality, Feed!Cardinality

LEMMA FirstIs ==
    ASSUME NEW S, NEW n
    PROVE  Feed!first(S, n) = {r \in S : Cardinality(before(S, r)) < n}
  BY CardinalityIs, Zenon DEF Feed!first, before

LEMMA BeforeIsFinite ==
    ASSUME NEW S, IsFiniteSet(S), NEW r
    PROVE  IsFiniteSet(before(S, r)) /\ Cardinality(before(S, r)) \in Nat
<1>1. before(S, r) \in SUBSET S
  BY DEF before
<1> QED BY <1>1, FS_Subset, FS_CardinalityType

LEMMA FirstIsDownward ==
    ASSUME NEW S, Numbered(S), NEW n \in Nat,
           NEW r \in Feed!first(S, n), NEW q \in S, q.seq <= r.seq
    PROVE  q \in Feed!first(S, n)
<1>1. r \in S /\ Cardinality(before(S, r)) < n
  BY FirstIs
<1>2. before(S, q) \subseteq before(S, r)
  <2> SUFFICES ASSUME NEW x \in S, x.seq < q.seq PROVE x.seq < r.seq
    BY DEF before
  <2>1. x.seq \in Nat /\ q.seq \in Nat /\ r.seq \in Nat
    BY <1>1 DEF Numbered
  <2> QED BY <2>1
<1>3. Cardinality(before(S, q)) <= Cardinality(before(S, r))
  BY <1>2, BeforeIsFinite, FS_Subset DEF Numbered
<1>4. Cardinality(before(S, q)) < n
  BY <1>1, <1>3, BeforeIsFinite DEF Numbered
<1> QED BY <1>4, FirstIs

\* Nothing is left out of a page that has room.
LEMMA FirstIsAll ==
    ASSUME NEW S, Numbered(S), NEW n \in Nat, Cardinality(S) <= n
    PROVE  Feed!first(S, n) = S
<1> SUFFICES ASSUME NEW r \in S PROVE Cardinality(before(S, r)) < n
  BY FirstIs
<1>1. IsFiniteSet(S \ {r}) /\ Cardinality(S \ {r}) = Cardinality(S) - 1
  BY FS_RemoveElement DEF Numbered
<1>2. before(S, r) \in SUBSET (S \ {r})
  BY DEF before, Numbered
<1>3. Cardinality(before(S, r)) <= Cardinality(S \ {r})
  BY <1>1, <1>2, FS_Subset
<1>4. Cardinality(S) \in Nat /\ Cardinality(before(S, r)) \in Nat
  BY BeforeIsFinite, FS_CardinalityType DEF Numbered
<1> QED BY <1>1, <1>3, <1>4

LEMMA FirstIsSomething ==
    ASSUME NEW S, Numbered(S), NEW n \in Nat \ {0}, S # {}
    PROVE  Feed!first(S, n) # {}
<1> DEFINE T == {r.seq : r \in S}
<1>1. T \in SUBSET Nat /\ T # {}
  BY DEF Numbered
<1> HIDE DEF T
<1>2. PICK x \in T : \A y \in T : x <= y
  BY <1>1, Least
<1>3. PICK r \in S : r.seq = x
  BY DEF T
<1>4. before(S, r) = {}
  <2> SUFFICES ASSUME NEW q \in S, q.seq < r.seq PROVE FALSE
    BY DEF before
  <2>1. q.seq \in T /\ q.seq \in Nat /\ r.seq \in Nat
    BY <1>1 DEF T
  <2> QED BY <1>2, <1>3, <2>1
<1>5. Cardinality(before(S, r)) < n
  BY <1>4, FS_EmptySet
<1> QED BY <1>5, FirstIs

\* When more is wanted than a page holds, the last row is not in it.
LEMMA FirstIsNotLast ==
    ASSUME NEW S, Numbered(S), NEW n \in Nat, Cardinality(S) > n
    PROVE  \E r \in S : \A q \in Feed!first(S, n) : q.seq < r.seq
<1> DEFINE T == {r.seq : r \in S}
<1>1. S # {}
  BY FS_EmptySet
<1>2. T \in SUBSET Nat /\ T # {} /\ \A x \in T : x <= MaxRevision
  BY <1>1 DEF Numbered
<1> HIDE DEF T
<1>3. PICK x \in T : \A y \in T : x >= y
  BY <1>2, Greatest, FeedAssumption
<1>4. PICK r \in S : r.seq = x
  BY DEF T
<1>5. \A q \in S : q.seq \in Nat /\ q.seq <= r.seq
  BY <1>2, <1>3, <1>4 DEF T
<1>6. before(S, r) = S \ {r}
  <2>1. \A q \in S : q # r => q.seq # r.seq
    BY DEF Numbered
  <2>2. \A q \in S : q.seq < r.seq <=> q # r
    BY <1>5, <2>1
  <2> QED BY <2>2 DEF before
<1>7. Cardinality(before(S, r)) = Cardinality(S) - 1 /\ Cardinality(S) \in Nat
  BY <1>6, FS_RemoveElement, FS_CardinalityType DEF Numbered
<1>8. r \notin Feed!first(S, n)
  BY <1>7, FirstIs
<1>9. ASSUME NEW q \in Feed!first(S, n) PROVE q.seq < r.seq
  <2>1. q \in S /\ q # r
    BY <1>8, <1>9, FirstIs
  <2>2. q \in before(S, r)
    BY <1>6, <2>1
  <2> QED BY <2>2 DEF before
<1> QED BY <1>9

-----------------------------------------------------------------------------
(* The feed's inductive invariant.                                         *)

\* The clock numbers every row once.
LedgerOK == Numbered(rows) /\ \A r \in rows : r.seq <= revision

\* A catch-up keeps the version of its first page as its end.
CursorsOK == cursor <= version /\ (through = 0 \/ through = version)

\* What page q tells of the rows between the cursor and its end.
Tells(q) ==
    \A r \in rows : r.seq > cursor /\ r.seq <= q.next /\ age[r.value] = "live"
                    => r.value \in q.values

\* A page on its way still fits the cursor it was asked for, although rows
\* arrive, expire and are pruned meanwhile.
AnswerOK ==
    answer # None =>
       /\ answer.version \in 0..revision /\ answer.next \in Nat
       /\ answer.values \subseteq Identities
       /\ Feed!acceptable(answer)
       /\ Tells(answer)

FeedInv ==
    /\ Feed!TypeOK /\ LedgerOK /\ CursorsOK /\ AnswerOK
    /\ Feed!NothingSkipped

LEMMA FeedTypes ==
    ASSUME Feed!TypeOK
    PROVE  /\ revision \in Nat /\ version \in Nat /\ cursor \in Nat /\ through \in Nat
           /\ version <= revision /\ cursor <= revision /\ through <= revision
           /\ revision <= MaxRevision /\ MaxRevision \in Nat /\ MaxFaults \in Nat
           /\ faults \in Nat /\ faults <= MaxFaults
  BY FeedAssumption DEF Feed!TypeOK

LEMMA SubsetIsNumbered ==
    ASSUME NEW S, Numbered(S), NEW T \in SUBSET S PROVE Numbered(T)
  BY FS_Subset DEF Numbered

\* Whatever page the server makes for the relay's cursors is acceptable, and
\* complete up to its end.
LEMMA PageIsHonest ==
    ASSUME FeedInv, NEW q, q = Feed!page(cursor, through)
    PROVE  /\ q.version \in 0..revision /\ q.next \in Nat
           /\ q.values \subseteq Identities
           /\ Feed!acceptable(q)
           /\ \A r \in Feed!kept : r.seq > cursor /\ r.seq <= q.next => r.value \in q.values
<1> DEFINE end == IF through > 0 THEN through ELSE revision
           wanted == {r \in Feed!kept : r.seq > cursor /\ r.seq <= end}
           more == Cardinality(wanted) > PageRows
           served == Feed!first(wanted, PageRows)
           last == IF more THEN Feed!Max({r.seq : r \in served}) ELSE end
<1>1. /\ q.version = end /\ q.after = cursor /\ q.values = {r.value : r \in served}
      /\ q.more = more /\ q.next = last
  <2>1. q = [version |-> end, after |-> cursor, values |-> {r.value : r \in served},
             more |-> more, next |-> last]
    BY CardinalityIs DEF Feed!page
  <2> HIDE DEF end, served, more, last
  <2> QED BY <2>1
<1>2. /\ Feed!TypeOK /\ LedgerOK /\ CursorsOK
      /\ revision \in Nat /\ version \in Nat /\ cursor \in Nat /\ through \in Nat
      /\ version <= revision /\ cursor <= revision /\ through <= revision
      /\ MaxRevision \in Nat /\ PageRows \in Nat \ {0}
  BY FeedTypes, FeedAssumption DEF FeedInv
<1>3. /\ end \in 0..revision /\ end >= cursor /\ end >= version
      /\ through > 0 => end = through
  BY <1>2 DEF CursorsOK
<1>4. Numbered(wanted) /\ wanted \subseteq Feed!kept
  BY <1>2, SubsetIsNumbered DEF LedgerOK, Feed!kept
<1>5. \A r \in wanted : r.seq \in Nat /\ r.seq > cursor /\ r.seq <= end /\ r.value \in Identities
                         /\ r.seq <= MaxRevision
  BY <1>4, <1>2 DEF Numbered
<1>6. \A r \in Feed!kept : r.seq > cursor /\ r.seq <= end => r \in wanted
  OBVIOUS
<1>7. served \subseteq wanted
  BY FirstIs
<1> HIDE DEF end, wanted, served
<1>8. q.values \subseteq Identities
  BY <1>1, <1>5, <1>7
<1>9. CASE ~more
  <2>1. served = wanted
    <3>1. Cardinality(wanted) \in Nat
      BY <1>4, FS_CardinalityType DEF Numbered
    <3>2. Cardinality(wanted) <= PageRows
      BY <1>2, <1>9, <3>1
    <3> QED BY <1>2, <1>4, <3>2, FirstIsAll DEF served
  <2>2. q.next = end /\ ~q.more
    BY <1>1, <1>9
  <2>3. Feed!acceptable(q)
    BY <1>1, <1>2, <1>3, <2>2 DEF Feed!acceptable
  <2>4. ASSUME NEW r \in Feed!kept, r.seq > cursor, r.seq <= q.next PROVE r.value \in q.values
    BY <1>1, <1>6, <2>1, <2>2, <2>4
  <2>5. q.next \in Nat /\ q.version \in 0..revision
    BY <1>1, <1>2, <1>3, <2>2
  <2> QED BY <1>8, <2>3, <2>4, <2>5
<1>10. CASE more
  <2> DEFINE T == {r.seq : r \in served}
  <2>1. served # {}
    <3>1. wanted # {}
      BY <1>2, <1>10, FS_EmptySet
    <3> QED BY <1>2, <1>4, <3>1, FirstIsSomething DEF served
  <2>2. T \in SUBSET Nat /\ T # {} /\ \A x \in T : x <= MaxRevision
    BY <1>5, <1>7, <2>1
  <2> HIDE DEF T
  <2>3. Feed!Max(T) \in T /\ \A y \in T : Feed!Max(T) >= y
    BY <1>2, <2>2, Greatest
  <2>4. q.next = Feed!Max(T) /\ q.more
    BY <1>1, <1>10 DEF T
  <2>5. PICK s \in served : s.seq = q.next
    BY <2>3, <2>4 DEF T
  <2>6. PICK z \in wanted : \A x \in served : x.seq < z.seq
    BY <1>2, <1>4, <1>10, FirstIsNotLast DEF served
  <2>7. q.next \in Nat /\ q.next > cursor /\ q.next < end
    <3>1. s.seq \in Nat /\ s.seq > cursor /\ s.seq < z.seq /\ z.seq <= end /\ z.seq \in Nat
      BY <1>5, <1>7, <2>5, <2>6
    <3> QED BY <1>2, <1>3, <2>5, <3>1
  <2>8. Feed!acceptable(q)
    BY <1>1, <1>2, <1>3, <2>4, <2>7 DEF Feed!acceptable
  <2>9. ASSUME NEW r \in Feed!kept, r.seq > cursor, r.seq <= q.next PROVE r.value \in q.values
    <3>1. r.seq \in Nat
      BY <1>2 DEF Feed!kept, LedgerOK, Numbered
    <3>2. r.seq <= end
      BY <1>2, <1>3, <2>7, <2>9, <3>1
    <3>3. r \in wanted
      BY <1>6, <2>9, <3>2
    <3>4. r \in served
      BY <1>2, <1>4, <2>5, <2>9, <3>3, FirstIsDownward DEF served
    <3> QED BY <1>1, <3>4
  <2>10. q.version \in 0..revision
    BY <1>1, <1>3
  <2> QED BY <1>8, <2>7, <2>8, <2>9, <2>10
<1> QED BY <1>9, <1>10

-----------------------------------------------------------------------------
(* The steps of the feed.                                                  *)

LEMMA InitFeed == Feed!Init => FeedInv
<1> SUFFICES ASSUME Feed!Init PROVE FeedInv
  OBVIOUS
<1>1. Feed!TypeOK
  <2>1. age \in [Identities -> {"none", "live", "expired"}] /\ tombstones \subseteq Identities
    BY DEF Feed!Init
  <2>2. rows \subseteq [seq : 1..MaxRevision, value : Identities]
    BY DEF Feed!Init
  <2>3. /\ revision \in 0..MaxRevision /\ faults \in 0..MaxFaults /\ revision = 0
        /\ version = 0 /\ cursor = 0 /\ through = 0 /\ fresh \in BOOLEAN
    <3>1. 0 \in 0..MaxRevision /\ 0 \in 0..MaxFaults
      BY FeedAssumption
    <3> QED BY <3>1 DEF Feed!Init
  <2> QED BY <2>1, <2>2, <2>3 DEF Feed!TypeOK
<1>2. LedgerOK
  BY FS_EmptySet DEF Feed!Init, LedgerOK, Numbered
<1>3. CursorsOK /\ AnswerOK /\ Feed!NothingSkipped
  BY DEF Feed!Init, CursorsOK, AnswerOK, Feed!NothingSkipped
<1> QED BY <1>1, <1>2, <1>3 DEF FeedInv

\* A new row has a number beyond every page.
LEMMA RevokeStep == ASSUME FeedInv, NEW v \in Identities, Feed!Revoke(v) PROVE FeedInv'
<1> DEFINE row == [seq |-> revision + 1, value |-> v]
<1>1. /\ revision < MaxRevision /\ revision' = revision + 1
      /\ rows' = rows \cup {row} /\ age' = [age EXCEPT ![v] = "live"]
      /\ UNCHANGED <<version, cursor, through, tombstones, fresh, answer, faults>>
      /\ \A r \in rows : r.value # v
  BY DEF Feed!Revoke, Feed!relayVars
<1>2. /\ Feed!TypeOK /\ LedgerOK /\ CursorsOK /\ AnswerOK /\ Feed!NothingSkipped
      /\ revision \in Nat /\ cursor \in Nat /\ version \in Nat /\ through \in Nat
      /\ version <= revision /\ cursor <= revision /\ through <= revision /\ MaxRevision \in Nat
  BY FeedTypes DEF FeedInv
<1>3. row \in [seq : 1..MaxRevision, value : Identities] /\ row.seq = revision + 1 /\ row.value = v
  BY <1>1, <1>2
<1> HIDE DEF row
<1>4. Feed!TypeOK'
  BY <1>1, <1>2, <1>3 DEF Feed!TypeOK
<1>5. \A r \in rows : r.seq \in Nat /\ r.seq <= revision /\ r.value \in Identities /\ r.value # v
  BY <1>1, <1>2 DEF LedgerOK, Numbered
<1>6. LedgerOK'
  <2>1. IsFiniteSet(rows')
    BY <1>1, <1>2, FS_AddElement DEF LedgerOK, Numbered
  <2>2. rows' \subseteq [seq : 1..MaxRevision, value : Identities]
    BY <1>1, <1>2, <1>3 DEF LedgerOK, Numbered
  <2>3. ASSUME NEW r \in rows', NEW q \in rows', r.seq = q.seq PROVE r = q
    <3>1. CASE r \in rows /\ q \in rows
      BY <1>2, <2>3, <3>1 DEF LedgerOK, Numbered
    <3>2. CASE r = row \/ q = row
      BY <1>1, <1>2, <1>3, <1>5, <2>3, <3>2
    <3> QED BY <1>1, <3>1, <3>2
  <2>4. \A r \in rows' : r.seq <= revision'
    BY <1>1, <1>2, <1>3, <1>5
  <2> QED BY <2>1, <2>2, <2>3, <2>4 DEF LedgerOK, Numbered
<1>7. CursorsOK'
  BY <1>1, <1>2 DEF CursorsOK
<1>8. \A r \in rows : age'[r.value] = age[r.value]
  BY <1>1, <1>2, <1>5 DEF Feed!TypeOK
<1>9. Feed!NothingSkipped'
  BY <1>1, <1>2, <1>3, <1>5, <1>8 DEF Feed!NothingSkipped
<1>10. AnswerOK'
  <2> SUFFICES ASSUME answer # None
               PROVE  /\ answer.version \in 0..revision' /\ answer.next \in Nat
                      /\ answer.values \subseteq Identities
                      /\ Feed!acceptable(answer)' /\ Tells(answer)'
    BY <1>1 DEF AnswerOK
  <2>1. /\ answer.version \in 0..revision /\ answer.next \in Nat
        /\ answer.values \subseteq Identities /\ Feed!acceptable(answer) /\ Tells(answer)
    BY <1>2 DEF AnswerOK
  <2>2. answer.next <= revision
    BY <1>2, <2>1 DEF Feed!acceptable
  <2>3. Feed!acceptable(answer)'
    BY <1>1, <2>1 DEF Feed!acceptable
  <2>4. Tells(answer)'
    BY <1>1, <1>2, <1>3, <1>5, <1>8, <2>1, <2>2 DEF Tells
  <2> QED BY <1>1, <1>2, <2>1, <2>3, <2>4
<1> QED BY <1>4, <1>6, <1>7, <1>9, <1>10 DEF FeedInv

LEMMA ExpireStep == ASSUME FeedInv, NEW v \in Identities, Feed!Expire(v) PROVE FeedInv'
<1>1. /\ age' = [age EXCEPT ![v] = "expired"]
      /\ UNCHANGED <<revision, rows, version, cursor, through, tombstones, fresh, answer, faults>>
  BY DEF Feed!Expire, Feed!relayVars
<1>2. Feed!TypeOK /\ LedgerOK /\ CursorsOK /\ AnswerOK /\ Feed!NothingSkipped
  BY DEF FeedInv
<1>3. \A w \in Identities : age'[w] = "live" => age[w] = "live"
  BY <1>1, <1>2 DEF Feed!TypeOK
<1>4. Feed!TypeOK'
  BY <1>1, <1>2 DEF Feed!TypeOK
<1>5. LedgerOK' /\ CursorsOK'
  BY <1>1, <1>2 DEF LedgerOK, CursorsOK
<1>6. \A r \in rows : age'[r.value] = "live" => age[r.value] = "live"
  BY <1>2, <1>3 DEF LedgerOK, Numbered
<1>7. Feed!NothingSkipped'
  BY <1>1, <1>2, <1>6 DEF Feed!NothingSkipped
<1>8. AnswerOK'
  BY <1>1, <1>2, <1>6 DEF AnswerOK, Feed!acceptable, Tells
<1> QED BY <1>4, <1>5, <1>7, <1>8 DEF FeedInv

LEMMA RelayRevocationPageStep == ASSUME FeedInv, Feed!RelayRevocationPage PROVE FeedInv'
<1>1. /\ rows' = Feed!kept /\ answer' = Feed!page(cursor, through)
      /\ UNCHANGED <<revision, age, version, cursor, through, tombstones, fresh, faults>>
  BY DEF Feed!RelayRevocationPage, Feed!relayVars
<1>2. Feed!TypeOK /\ LedgerOK /\ CursorsOK /\ Feed!NothingSkipped /\ Feed!kept \subseteq rows
  BY DEF FeedInv, Feed!kept
<1>3. Feed!TypeOK'
  BY <1>1, <1>2 DEF Feed!TypeOK
<1>4. LedgerOK'
  BY <1>1, <1>2, SubsetIsNumbered DEF LedgerOK
<1>5. CursorsOK' /\ Feed!NothingSkipped'
  BY <1>1, <1>2 DEF CursorsOK, Feed!NothingSkipped
<1>6. /\ answer'.version \in 0..revision /\ answer'.next \in Nat
      /\ answer'.values \subseteq Identities
      /\ Feed!acceptable(answer')
      /\ \A r \in Feed!kept : r.seq > cursor /\ r.seq <= answer'.next => r.value \in answer'.values
  BY <1>1, PageIsHonest
<1>7. AnswerOK'
  BY <1>1, <1>6 DEF AnswerOK, Feed!acceptable, Tells
<1> QED BY <1>3, <1>4, <1>5, <1>7 DEF FeedInv

\* The cursor moves to the end of a page only with its identities.
LEMMA PageApplied ==
    ASSUME FeedInv, answer # None, Feed!acceptable(answer),
           tombstones' \subseteq Identities,
           \A v \in tombstones \cup answer.values : age[v] = "live" => v \in tombstones',
           version' = Feed!Max({version, answer.version}),
           cursor' = answer.next, through' \in {0, answer.version},
           fresh' \in BOOLEAN, answer' = None,
           UNCHANGED <<revision, rows, age, faults>>
    PROVE  FeedInv'
<1>1. /\ Feed!TypeOK /\ LedgerOK /\ CursorsOK /\ Feed!NothingSkipped /\ Tells(answer)
      /\ answer.version \in 0..revision /\ answer.next \in Nat
      /\ revision \in Nat /\ version \in Nat /\ cursor \in Nat
  BY FeedTypes DEF FeedInv, AnswerOK
<1>2. answer.version >= version /\ answer.next <= answer.version /\ answer.next >= cursor
  BY DEF Feed!acceptable
<1>3. version' = answer.version
  BY <1>1, <1>2, MaxOfTwo
<1>4. Feed!TypeOK'
  BY <1>1, <1>2, <1>3 DEF Feed!TypeOK
<1>5. LedgerOK' /\ CursorsOK' /\ AnswerOK'
  BY <1>1, <1>2, <1>3 DEF LedgerOK, CursorsOK, AnswerOK
<1>6. ASSUME NEW r \in rows, r.seq <= answer.next, age[r.value] = "live"
      PROVE  r.value \in tombstones'
  <2>1. r.seq \in Nat
    BY <1>1 DEF LedgerOK, Numbered
  <2>2. CASE r.seq <= cursor
    BY <1>1, <1>6, <2>2 DEF Feed!NothingSkipped
  <2>3. CASE r.seq > cursor
    BY <1>1, <1>6, <2>3 DEF Tells
  <2> QED BY <1>1, <2>1, <2>2, <2>3
<1>7. Feed!NothingSkipped'
  BY <1>6 DEF Feed!NothingSkipped
<1> QED BY <1>4, <1>5, <1>7 DEF FeedInv

LEMMA ApplyStep ==
    ASSUME FeedInv, Feed!ApplyPage \/ Feed!ApplyLastPage PROVE FeedInv'
<1> DEFINE known == tombstones \cup answer.values
<1>1. /\ answer # None /\ Feed!acceptable(answer)
      /\ version' = Feed!Max({version, answer.version}) /\ cursor' = answer.next
      /\ through' \in {0, answer.version} /\ answer' = None
      /\ UNCHANGED <<revision, rows, age, faults>>
  BY DEF Feed!ApplyPage, Feed!ApplyLastPage, Feed!serverVars
<1>2. fresh' \in BOOLEAN /\ known \subseteq Identities
  BY <1>1 DEF Feed!ApplyPage, Feed!ApplyLastPage, FeedInv, Feed!TypeOK, AnswerOK
<1>3. tombstones' \subseteq known /\ \A v \in known : age[v] = "live" => v \in tombstones'
  BY DEF Feed!ApplyPage, Feed!ApplyLastPage, Feed!merged, Feed!prunable
<1> QED BY <1>1, <1>2, <1>3, PageApplied

LEMMA RelayOnlyStep ==
    ASSUME FeedInv, Feed!StartRefresh \/ Feed!RefreshFails \/ Feed!GoesStale PROVE FeedInv'
<1>1. /\ UNCHANGED <<revision, rows, age, version, cursor, through, tombstones>>
      /\ answer' \in {answer, None}
      /\ fresh' \in {fresh, FALSE}
      /\ faults' = faults \/ (faults' = faults + 1 /\ faults < MaxFaults)
  BY DEF Feed!StartRefresh, Feed!RefreshFails, Feed!GoesStale, Feed!serverVars, Feed!relayVars
<1>2. Feed!TypeOK /\ LedgerOK /\ CursorsOK /\ AnswerOK /\ Feed!NothingSkipped
  BY DEF FeedInv
<1>3. Feed!TypeOK'
  <2>1. faults' \in 0..MaxFaults /\ fresh' \in BOOLEAN
    <3>1. faults \in 0..MaxFaults /\ fresh \in BOOLEAN /\ MaxFaults \in Nat
      BY <1>2, FeedTypes DEF Feed!TypeOK
    <3>2. faults' \in 0..MaxFaults
      BY <1>1, <3>1
    <3> QED BY <1>1, <3>1, <3>2
  <2> QED BY <1>1, <1>2, <2>1 DEF Feed!TypeOK
<1>4. LedgerOK' /\ CursorsOK' /\ Feed!NothingSkipped'
  BY <1>1, <1>2 DEF LedgerOK, CursorsOK, Feed!NothingSkipped
<1>5. AnswerOK'
  BY <1>1, <1>2 DEF AnswerOK, Feed!acceptable, Tells
<1> QED BY <1>3, <1>4, <1>5 DEF FeedInv

\* A restarted relay knows nothing and has passed nothing.
LEMMA RestartStep == ASSUME FeedInv, Feed!Restart PROVE FeedInv'
<1>1. /\ UNCHANGED <<revision, rows, age>> /\ faults' \in 0..MaxFaults
      /\ version' = 0 /\ cursor' = 0 /\ through' = 0
      /\ tombstones' = {} /\ fresh' = FALSE /\ answer' = None
  BY FeedTypes DEF Feed!Restart, Feed!serverVars, FeedInv, Feed!TypeOK
<1>2. Feed!TypeOK /\ LedgerOK
  BY DEF FeedInv
<1>3. Feed!TypeOK'
  <2>1. revision \in 0..MaxRevision /\ revision \in Nat
    BY <1>2, FeedTypes DEF Feed!TypeOK
  <2>2. version' \in 0..revision /\ cursor' \in 0..revision /\ through' \in 0..revision
    BY <1>1, <2>1
  <2>3. tombstones' \subseteq Identities /\ fresh' \in BOOLEAN
    BY <1>1
  <2> QED BY <1>1, <1>2, <2>1, <2>2, <2>3 DEF Feed!TypeOK
<1>4. LedgerOK' /\ CursorsOK' /\ AnswerOK'
  BY <1>1, <1>2 DEF LedgerOK, CursorsOK, AnswerOK
<1>5. Feed!NothingSkipped'
  BY <1>1, <1>2 DEF Feed!NothingSkipped, LedgerOK, Numbered
<1> QED BY <1>3, <1>4, <1>5 DEF FeedInv

LEMMA FeedInvariance == FeedInv /\ [Feed!Next]_Feed!vars => FeedInv'
<1> SUFFICES ASSUME FeedInv, [Feed!Next]_Feed!vars PROVE FeedInv'
  OBVIOUS
<1>1. CASE Feed!Next
  BY <1>1, RevokeStep, ExpireStep, RelayRevocationPageStep, ApplyStep, RelayOnlyStep, RestartStep
  DEF Feed!Next, Feed!Refresh
<1>2. CASE UNCHANGED Feed!vars
  BY <1>2 DEF Feed!vars, Feed!serverVars, Feed!relayVars, FeedInv, Feed!TypeOK, LedgerOK, CursorsOK,
     AnswerOK, Feed!acceptable, Tells, Feed!NothingSkipped
<1> QED BY <1>1, <1>2

-----------------------------------------------------------------------------

\* For any number of rows to a page and any number of pages to a refresh, with
\* revocations, expiry, pruning, failures and restarts in between: the cursor
\* passes no live row the relay has not been told of, and the relay refuses no
\* page of an honest server (relay_revocations.go, revocation.go).
THEOREM CatchUpIsComplete == Feed!Spec => []CatchUpSound
<1>1. FeedInv => CatchUpSound
  BY DEF FeedInv, AnswerOK, CatchUpSound, Feed!CatchUpSound, Feed!PagesAccepted
<1> QED BY InitFeed, FeedInvariance, <1>1, PTL DEF Feed!Spec

\* What the relay knows to be revoked it forgets by expiry or by a restart, and
\* then it admits nobody until it has caught up (applyRevocationSnapshot).
THEOREM NobodyIsResurrected == Feed!Spec => Feed!NothingResurrected
<1>1. [Feed!Next]_Feed!vars
      => [\A v \in tombstones \ tombstones' :
             age[v] = "expired" \/ (cursor' = 0 /\ ~fresh')]_Feed!vars
  <2> SUFFICES ASSUME Feed!Next, NEW v \in tombstones \ tombstones'
               PROVE  age[v] = "expired" \/ (cursor' = 0 /\ ~fresh')
    OBVIOUS
  <2>1. CASE Feed!ApplyPage \/ Feed!ApplyLastPage
    BY <2>1 DEF Feed!ApplyPage, Feed!ApplyLastPage, Feed!merged, Feed!prunable
  <2>2. CASE Feed!Restart
    BY <2>2 DEF Feed!Restart
  <2>3. ASSUME NEW w \in Identities, Feed!Revoke(w) \/ Feed!Expire(w)
        PROVE  FALSE
    BY <2>3 DEF Feed!Revoke, Feed!Expire, Feed!relayVars
  <2>4. CASE Feed!StartRefresh \/ Feed!RelayRevocationPage \/ Feed!RefreshFails \/ Feed!GoesStale
    BY <2>4 DEF Feed!StartRefresh, Feed!RelayRevocationPage, Feed!RefreshFails, Feed!GoesStale,
       Feed!relayVars
  <2> QED BY <2>1, <2>2, <2>3, <2>4 DEF Feed!Next, Feed!Refresh
<1> QED BY <1>1, PTL DEF Feed!Spec, Feed!NothingResurrected
-----------------------------------------------------------------------------
(* The send queue: what a sequence of frames weighs.  A frame of size n is *)
(* n cells of the queue, and the frames of a source are marks in it.       *)

\* What is ever admitted: no frame larger than the budget of its kind.
Admissible ==
    {f \in Queue!Frames : /\ f.size <= maxBytes
                          /\ f.source # None => f.size <= maxBytes - controlBytes}

cells(q) == UNION {{k} \X (1..q[k].size) : k \in 1..Len(q)}
marks(q, s) == {k \in 1..Len(q) : q[k].source = s}
mark(f, s) == IF f.source = s THEN 1 ELSE 0

LEMMA UpTo == ASSUME NEW n \in Nat PROVE IsFiniteSet(1..n) /\ Cardinality(1..n) = n
<1>1. Cardinality(1..n) = IF 1 > n THEN 0 ELSE n - 1 + 1
  BY FS_Interval
<1> QED BY <1>1, FS_Interval

LEMMA WeightIs ==
    ASSUME NEW q, NEW s
    PROVE  /\ Queue!bytes(q) = Cardinality(cells(q))
           /\ Queue!from(q, s) = Cardinality(marks(q, s))
<1>1. \A S : Queue!Cardinality(S) = Cardinality(S)
  <2> SUFFICES ASSUME NEW S PROVE Queue!Cardinality(S) = Cardinality(S)
    OBVIOUS
  <2>1. \A T : Queue!IsFiniteSet(T) <=> IsFiniteSet(T)
    BY Zenon DEF IsFiniteSet, Queue!IsFiniteSet
  <2> QED BY <2>1, Zenon DEF Cardinality, Queue!Cardinality
<1>2. Queue!bytes(q) = Queue!Cardinality(cells(q))
  BY DEF Queue!bytes, cells
<1>3. Queue!from(q, s) = Queue!Cardinality(marks(q, s))
  BY DEF Queue!from, marks
<1> QED BY <1>1, <1>2, <1>3

LEMMA Admitted ==
    ASSUME NEW f \in Admissible
    PROVE  /\ f.size \in Nat \ {0} /\ f.size <= maxBytes
           /\ f.source \in Sources \cup {None}
           /\ f.source # None => f.size \in Sizes /\ f.size <= maxBytes - controlBytes
<1>1. CASE f \in [source : Sources, size : Sizes]
  BY <1>1, QueueAssumption DEF Admissible
<1>2. CASE f \in [source : {None}, size : ControlSizes]
  BY <1>2, QueueAssumption DEF Admissible
<1> QED BY <1>1, <1>2 DEF Admissible, Queue!Frames

\* A bound on every frame bounds the weight of all of them.
LEMMA WeightBounded ==
    ASSUME NEW q \in Seq(Admissible), NEW m \in Nat, \A k \in 1..Len(q) : q[k].size <= m, NEW s
    PROVE  /\ IsFiniteSet(cells(q)) /\ Cardinality(cells(q)) \in Nat
           /\ Cardinality(cells(q)) <= Len(q) * m
           /\ IsFiniteSet(marks(q, s)) /\ Cardinality(marks(q, s)) \in Nat
<1>1. Len(q) \in Nat /\ \A k \in 1..Len(q) : q[k] \in Admissible
  OBVIOUS
<1>2. cells(q) \in SUBSET ((1..Len(q)) \X (1..m))
  <2> SUFFICES ASSUME NEW k \in 1..Len(q), NEW j \in 1..q[k].size
               PROVE  j \in 1..m
    BY DEF cells
  <2>1. q[k].size \in Nat /\ q[k].size <= m
    BY <1>1, Admitted
  <2> QED BY <2>1
<1>3. IsFiniteSet(1..Len(q)) /\ Cardinality(1..Len(q)) = Len(q)
  BY <1>1, UpTo
<1>4. IsFiniteSet(1..m) /\ Cardinality(1..m) = m
  BY UpTo
<1>5. /\ IsFiniteSet((1..Len(q)) \X (1..m))
      /\ Cardinality((1..Len(q)) \X (1..m)) = Len(q) * m
  BY <1>3, <1>4, FS_Product
<1>6. marks(q, s) \in SUBSET (1..Len(q))
  BY DEF marks
<1> QED BY <1>2, <1>3, <1>5, <1>6, FS_Subset, FS_CardinalityType

LEMMA Weights ==
    ASSUME NEW q \in Seq(Admissible), NEW s
    PROVE  /\ IsFiniteSet(cells(q)) /\ Cardinality(cells(q)) \in Nat
           /\ IsFiniteSet(marks(q, s)) /\ Cardinality(marks(q, s)) \in Nat
<1>1. \A k \in 1..Len(q) : q[k].size <= maxBytes
  BY Admitted
<1>2. maxBytes \in Nat
  BY QueueAssumption
<1> QED BY <1>1, <1>2, WeightBounded

LEMMA Weightless == ASSUME NEW s PROVE Cardinality(cells(<<>>)) = 0 /\ Cardinality(marks(<<>>, s)) = 0
<1>1. 1..Len(<<>>) = {}
  OBVIOUS
<1>2. cells(<<>>) = {} /\ marks(<<>>, s) = {}
  BY <1>1 DEF cells, marks
<1> QED BY <1>2, FS_EmptySet

LEMMA AppendAdds ==
    ASSUME NEW q \in Seq(Admissible), NEW f \in Admissible, NEW s
    PROVE  /\ Cardinality(cells(Append(q, f))) = Cardinality(cells(q)) + f.size
           /\ Cardinality(marks(Append(q, f), s)) = Cardinality(marks(q, s)) + mark(f, s)
<1> DEFINE n == Len(q) + 1
           r == Append(q, f)
           new == {n} \X (1..f.size)
<1>1. /\ Len(q) \in Nat /\ Len(r) = n /\ r[n] = f
      /\ \A k \in 1..Len(q) : r[k] = q[k]
      /\ 1..n = (1..Len(q)) \cup {n} /\ n \notin 1..Len(q)
  OBVIOUS
<1>2. f.size \in Nat
  BY Admitted
<1> HIDE DEF n, r
<1>3. cells(r) = cells(q) \cup new
  BY <1>1 DEF cells
<1>4. cells(q) \cap new = {}
  BY <1>1 DEF cells
<1>5. IsFiniteSet(new) /\ Cardinality(new) = f.size
  <2>1. IsFiniteSet({n}) /\ Cardinality({n}) = 1
    BY FS_Singleton
  <2>3. IsFiniteSet(1..f.size) /\ Cardinality(1..f.size) = f.size
    BY <1>2, UpTo
  <2>4. IsFiniteSet(new) /\ Cardinality(new) = 1 * f.size
    BY <2>1, <2>3, FS_Product
  <2> QED BY <1>2, <2>4
<1>6. Cardinality(cells(r)) = Cardinality(cells(q)) + f.size
  <2> HIDE DEF new
  <2>1. IsFiniteSet(cells(q)) /\ Cardinality(cells(q)) \in Nat
    BY Weights
  <2>2. Cardinality(cells(q) \cup new)
          = Cardinality(cells(q)) + Cardinality(new) - Cardinality(cells(q) \cap new)
    BY <2>1, <1>5, FS_Union
  <2>3. Cardinality(cells(q) \cap new) = 0
    BY <1>4, FS_EmptySet
  <2> QED BY <1>2, <1>3, <1>5, <2>1, <2>2, <2>3
<1>7. Cardinality(marks(r, s)) = Cardinality(marks(q, s)) + mark(f, s)
  <2>1. IsFiniteSet(marks(q, s)) /\ Cardinality(marks(q, s)) \in Nat
    BY Weights
  <2>2. n \notin marks(q, s)
    BY <1>1 DEF marks
  <2>3. CASE f.source = s
    <3>1. marks(r, s) = marks(q, s) \cup {n}
      BY <1>1, <2>3 DEF marks
    <3> QED BY <2>1, <2>2, <2>3, <3>1, FS_AddElement DEF mark
  <2>4. CASE f.source # s
    <3>1. marks(r, s) = marks(q, s)
      BY <1>1, <2>4 DEF marks
    <3> QED BY <2>1, <2>4, <3>1 DEF mark
  <2> QED BY <2>3, <2>4
<1> QED BY <1>6, <1>7 DEF r

\* The head leaves with its cells, and the others move up by one.
LEMMA TailTakes ==
    ASSUME NEW q \in Seq(Admissible), q # <<>>, NEW s
    PROVE  /\ Tail(q) \in Seq(Admissible) /\ Head(q) \in Admissible
           /\ Cardinality(cells(q)) = Cardinality(cells(Tail(q))) + Head(q).size
           /\ Cardinality(marks(q, s)) = Cardinality(marks(Tail(q), s)) + mark(Head(q), s)
<1> DEFINE r == Tail(q)
           f == Head(q)
           first1 == {1} \X (1..f.size)
           rest == cells(q) \ first1
           others == marks(q, s) \ {1}
<1>1. /\ r \in Seq(Admissible) /\ f \in Admissible /\ f = q[1]
      /\ Len(q) \in Nat \ {0} /\ Len(r) = Len(q) - 1
      /\ \A k \in 1..Len(r) : r[k] = q[k + 1]
  OBVIOUS
<1>2. f.size \in Nat
  BY <1>1, Admitted
<1> HIDE DEF r, f
<1>3. IsFiniteSet(cells(r)) /\ Cardinality(cells(r)) \in Nat
      /\ IsFiniteSet(marks(r, s)) /\ Cardinality(marks(r, s)) \in Nat
  BY <1>1, Weights
<1>4. IsFiniteSet(cells(q)) /\ Cardinality(cells(q)) \in Nat
      /\ IsFiniteSet(marks(q, s)) /\ Cardinality(marks(q, s)) \in Nat
  BY Weights
<1>5. ExistsBijection(cells(r), rest)
  <2> DEFINE shift == [c \in cells(r) |-> <<c[1] + 1, c[2]>>]
  <2>1. ASSUME NEW c \in cells(r)
        PROVE  \E k \in 1..Len(r) : \E j \in 1..r[k].size : c = <<k, j>>
    BY DEF cells
  <2>2. ASSUME NEW c \in cells(r)
        PROVE  shift[c] \in rest
    <3>1. PICK k \in 1..Len(r) : \E j \in 1..r[k].size : c = <<k, j>>
      BY <2>1
    <3>1a. PICK j \in 1..r[k].size : c = <<k, j>>
      BY <3>1
    <3>2. k + 1 \in 1..Len(q) /\ k + 1 # 1 /\ r[k] = q[k + 1]
      BY <1>1
    <3>3. <<k + 1, j>> \in {k + 1} \X (1..q[k + 1].size)
      BY <3>2
    <3>4. <<k + 1, j>> \in cells(q)
      BY <3>2, <3>3 DEF cells
    <3>5. <<k + 1, j>> \notin first1
      BY <3>2
    <3> QED BY <3>1a, <3>4, <3>5
  <2>3. ASSUME NEW d \in rest
        PROVE  \E c \in cells(r) : shift[c] = d
    <3>1. PICK k \in 1..Len(q) : \E j \in 1..q[k].size : d = <<k, j>>
      BY DEF cells
    <3>1a. PICK j \in 1..q[k].size : d = <<k, j>>
      BY <3>1
    <3>2. k # 1
      BY <3>1a, <1>1
    <3>3. k - 1 \in 1..Len(r) /\ r[k - 1] = q[k]
      BY <3>2, <1>1
    <3>4. <<k - 1, j>> \in {k - 1} \X (1..r[k - 1].size)
      BY <3>3
    <3>5. <<k - 1, j>> \in cells(r)
      BY <3>3, <3>4 DEF cells
    <3>6. shift[<<k - 1, j>>] = <<k, j>>
      BY <3>5
    <3> QED BY <3>1a, <3>5, <3>6
  <2>4. ASSUME NEW c \in cells(r), NEW d \in cells(r), shift[c] = shift[d]
        PROVE  c = d
    <3>1. PICK k \in 1..Len(r) : \E j \in 1..r[k].size : c = <<k, j>>
      BY <2>1
    <3>1a. PICK j \in 1..r[k].size : c = <<k, j>>
      BY <3>1
    <3>2. PICK l \in 1..Len(r) : \E i \in 1..r[l].size : d = <<l, i>>
      BY <2>1
    <3>2a. PICK i \in 1..r[l].size : d = <<l, i>>
      BY <3>2
    <3>3. shift[c] = <<k + 1, j>> /\ shift[d] = <<l + 1, i>>
      BY <3>1a, <3>2a
    <3> QED BY <2>4, <3>1a, <3>2a, <3>3
  <2>5. shift \in [cells(r) -> rest]
    BY <2>2
  <2> HIDE DEF shift, rest
  <2>6. shift \in Bijection(cells(r), rest)
    BY <2>3, <2>4, <2>5 DEF Bijection, Injection, Surjection, IsInjective
  <2> QED BY <2>6 DEF ExistsBijection
<1>6. Cardinality(cells(q)) = Cardinality(cells(r)) + f.size
  <2>1. IsFiniteSet(first1) /\ Cardinality(first1) = f.size
    <3>1. IsFiniteSet({1}) /\ Cardinality({1}) = 1
      BY FS_Singleton
    <3>3. IsFiniteSet(1..f.size) /\ Cardinality(1..f.size) = f.size
      BY <1>2, UpTo
    <3>4. IsFiniteSet(first1) /\ Cardinality(first1) = 1 * f.size
      BY <3>1, <3>3, FS_Product
    <3> QED BY <1>2, <3>4
  <2>2. first1 \subseteq cells(q)
    BY <1>1 DEF cells
  <2>3. IsFiniteSet(rest) /\ Cardinality(rest) = Cardinality(cells(r))
    <3> HIDE DEF rest
    <3> QED BY <1>3, <1>5, FS_Bijection
  <2>4. cells(q) \cap first1 = first1
    BY <2>2
  <2>5. Cardinality(rest) = Cardinality(cells(q)) - Cardinality(first1)
    <3> HIDE DEF first1
    <3>1. Cardinality(rest) = Cardinality(cells(q)) - Cardinality(cells(q) \cap first1)
      BY <1>4, FS_Difference
    <3> QED BY <2>4, <3>1
  <2> HIDE DEF rest, first1
  <2> QED BY <1>2, <1>3, <1>4, <2>1, <2>3, <2>5
<1>7. ExistsBijection(marks(r, s), others)
  <2> DEFINE shift == [k \in marks(r, s) |-> k + 1]
  <2>1. shift \in [marks(r, s) -> others]
    BY <1>1 DEF marks
  <2>2. ASSUME NEW d \in others
        PROVE  \E k \in marks(r, s) : shift[k] = d
    <3>1. d \in 1..Len(q) /\ d # 1 /\ q[d].source = s
      BY DEF marks
    <3>2. d - 1 \in 1..Len(r) /\ r[d - 1] = q[d]
      BY <3>1, <1>1
    <3>3. d - 1 \in marks(r, s)
      BY <3>1, <3>2 DEF marks
    <3> QED BY <3>1, <3>3
  <2>3. ASSUME NEW k \in marks(r, s), NEW l \in marks(r, s), shift[k] = shift[l]
        PROVE  k = l
    BY <2>3 DEF marks
  <2> HIDE DEF shift, others
  <2>4. shift \in Bijection(marks(r, s), others)
    BY <2>1, <2>2, <2>3 DEF Bijection, Injection, Surjection, IsInjective
  <2> QED BY <2>4 DEF ExistsBijection
<1>8. Cardinality(marks(q, s)) = Cardinality(marks(r, s)) + mark(f, s)
  <2>1. Cardinality(others) = Cardinality(marks(r, s))
    <3> HIDE DEF others
    <3> QED BY <1>3, <1>7, FS_Bijection
  <2>2. Cardinality(others)
          = IF 1 \in marks(q, s) THEN Cardinality(marks(q, s)) - 1 ELSE Cardinality(marks(q, s))
    BY <1>4, FS_RemoveElement
  <2>3. 1 \in marks(q, s) <=> f.source = s
    BY <1>1 DEF marks
  <2> HIDE DEF others
  <2> QED BY <1>3, <1>4, <2>1, <2>2, <2>3 DEF mark
<1> QED BY <1>1, <1>6, <1>8 DEF r, f
-----------------------------------------------------------------------------
(* The send queue's inductive invariant.  While its writer runs the credits *)
(* out are exactly the frames queued and being written; a writer that finds *)
(* the peer revoked stops with the credit of one frame, and then nothing is *)
(* admitted any more.  The last frame in says what is left for a control    *)
(* frame: a data frame was admitted with that much to spare, and whatever   *)
(* came before it can only have left since.                                 *)

QueueTypes ==
    /\ sent \in Seq(Admissible)
    /\ held \in {<<>>} \cup {<<f>> : f \in Admissible}
    /\ queuedBytes \in Nat /\ queuedBySource \in [Sources -> Nat]
    /\ writer \in {"running", "stopped"} /\ swept \in BOOLEAN /\ ended \in BOOLEAN

weight == Cardinality(cells(sent \o held))
share(s) == Cardinality(marks(sent \o held, s))

CreditsExact ==
    writer = "running" \/ ~swept =>
       queuedBytes = weight /\ \A s \in Sources : queuedBySource[s] = share(s)

CreditsBounded ==
    /\ weight <= queuedBytes /\ queuedBytes <= maxBytes
    /\ \A s \in Sources : queuedBySource[s] <= Queue!sourceLimit

RoomBehindData ==
    sent # <<>> /\ sent[Len(sent)].source # None =>
       queuedBytes <= maxBytes - controlBytes /\ Len(sent) <= frames - Queue!reserve

QueueInv ==
    /\ QueueTypes
    /\ writer = "stopped" => held = <<>>
    /\ CreditsExact /\ CreditsBounded /\ RoomBehindData

LEMMA QueueLimits ==
    /\ Queue!reserve \in Nat /\ Queue!sourceLimit \in Nat \ {0}
    /\ frames >= 2 => Queue!sourceLimit < frames - Queue!reserve
  BY QueueAssumption DEF Queue!reserve, Queue!sourceLimit, Queue!least, Queue!greatest

\* What is out, in parts: the frames queued and the one being written.
LEMMA Parts ==
    ASSUME NEW q \in Seq(Admissible), NEW s
    PROVE  /\ q \o <<>> = q
           /\ \A f \in Admissible :
                 /\ q \o <<f>> = Append(q, f)
                 /\ q \o <<f>> \in Seq(Admissible)
                 /\ Cardinality(cells(q \o <<f>>)) = Cardinality(cells(q)) + f.size
                 /\ Cardinality(marks(q \o <<f>>, s)) = Cardinality(marks(q, s)) + mark(f, s)
<1>1. q \o <<>> = q
  OBVIOUS
<1>2. ASSUME NEW f \in Admissible
      PROVE  q \o <<f>> = Append(q, f) /\ Append(q, f) \in Seq(Admissible)
  OBVIOUS
<1> QED BY <1>1, <1>2, AppendAdds

LEMMA QueueInit == Queue!Init => QueueInv
<1> SUFFICES ASSUME Queue!Init PROVE QueueInv
  OBVIOUS
<1>1. QueueTypes
  <2>1. sent \in Seq(Admissible) /\ held \in {<<>>} \cup {<<f>> : f \in Admissible}
    BY DEF Queue!Init
  <2>2. queuedBytes \in Nat /\ queuedBySource \in [Sources -> Nat]
    BY DEF Queue!Init
  <2> QED BY <2>1, <2>2 DEF Queue!Init, QueueTypes
<1>2. weight = 0 /\ \A s \in Sources : share(s) = 0
  <2>1. sent \o held = <<>>
    BY DEF Queue!Init
  <2> QED BY <2>1, Weightless DEF weight, share
<1>3. CreditsExact /\ CreditsBounded
  BY <1>2, QueueAssumption, QueueLimits DEF Queue!Init, CreditsExact, CreditsBounded
<1> QED BY <1>1, <1>3 DEF QueueInv, RoomBehindData, Queue!Init

LEMMA EnqueueStep == ASSUME QueueInv, NEW f \in Queue!Frames, Queue!enqueue(f) PROVE QueueInv'
<1>1. /\ sent' = Append(sent, f) /\ queuedBytes' = queuedBytes + f.size
      /\ UNCHANGED <<held, writer, swept, ended>>
      /\ ~swept /\ queuedBytes + f.size <= maxBytes
      /\ f.source # None => /\ queuedBytes + f.size <= maxBytes - controlBytes
                            /\ Len(sent) < frames - Queue!reserve
                            /\ queuedBySource[f.source] < Queue!sourceLimit
  BY DEF Queue!enqueue, Queue!admits, Queue!business
<1>2. queuedBySource' = IF f.source # None
                        THEN [queuedBySource EXCEPT ![f.source] = @ + 1] ELSE queuedBySource
  BY DEF Queue!enqueue, Queue!business
<1>3. QueueTypes /\ maxBytes \in Nat /\ controlBytes \in Nat
  BY QueueAssumption DEF QueueInv
<1>4. f \in Admissible
  <2>1. f.size \in Nat
    <3>1. CASE f \in [source : Sources, size : Sizes]
      BY <3>1, QueueAssumption
    <3>2. CASE f \in [source : {None}, size : ControlSizes]
      BY <3>2, QueueAssumption
    <3> QED BY <3>1, <3>2 DEF Queue!Frames
  <2> QED BY <1>1, <1>3, <2>1 DEF Admissible, QueueTypes
<1>5. f.size \in Nat \ {0} /\ f.source \in Sources \cup {None}
  BY <1>4, Admitted
<1>6. queuedBySource' \in [Sources -> Nat]
      /\ \A s \in Sources : queuedBySource'[s] = queuedBySource[s] + mark(f, s)
  <2>1. CASE f.source # None
    BY <1>2, <1>3, <1>5, <2>1 DEF QueueTypes, mark
  <2>2. CASE f.source = None
    BY <1>2, <1>3, <2>2, QueueAssumption DEF QueueTypes, mark
  <2> QED BY <2>1, <2>2
<1>7. sent' \in Seq(Admissible) /\ Len(sent') = Len(sent) + 1 /\ sent'[Len(sent')] = f
  BY <1>1, <1>3, <1>4 DEF QueueTypes
<1>8. QueueTypes'
  BY <1>1, <1>3, <1>5, <1>6, <1>7 DEF QueueTypes
<1>9. weight' = weight + f.size /\ \A s \in Sources : share(s)' = share(s) + mark(f, s)
  <2> SUFFICES ASSUME NEW s
               PROVE  weight' = weight + f.size /\ share(s)' = share(s) + mark(f, s)
    OBVIOUS
  <2>1. /\ Cardinality(cells(sent')) = Cardinality(cells(sent)) + f.size
        /\ Cardinality(marks(sent', s)) = Cardinality(marks(sent, s)) + mark(f, s)
    BY <1>1, <1>3, <1>4, AppendAdds DEF QueueTypes
  <2>2. CASE held = <<>>
    <3>1. sent \o held = sent /\ sent' \o held' = sent'
      BY <1>1, <1>3, <1>7, <2>2 DEF QueueTypes
    <3> QED BY <2>1, <3>1 DEF weight, share
  <2>3. ASSUME NEW g \in Admissible, held = <<g>>
        PROVE  weight' = weight + f.size /\ share(s)' = share(s) + mark(f, s)
    <3>1. /\ weight = Cardinality(cells(sent)) + g.size
          /\ share(s) = Cardinality(marks(sent, s)) + mark(g, s)
      BY <1>3, <2>3, Parts DEF QueueTypes, weight, share
    <3>2. /\ weight' = Cardinality(cells(sent')) + g.size
          /\ share(s)' = Cardinality(marks(sent', s)) + mark(g, s)
      BY <1>1, <1>7, <2>3, Parts DEF weight, share
    <3>3. /\ Cardinality(cells(sent)) \in Nat /\ Cardinality(marks(sent, s)) \in Nat
          /\ g.size \in Nat /\ f.size \in Nat
      BY <1>3, <1>5, <2>3, Weights, Admitted DEF QueueTypes
    <3> QED BY <2>1, <3>1, <3>2, <3>3 DEF mark
  <2> QED BY <1>3, <2>2, <2>3 DEF QueueTypes
<1>10. queuedBytes = weight /\ \A s \in Sources : queuedBySource[s] = share(s)
  BY <1>1 DEF QueueInv, CreditsExact
<1>11. CreditsExact'
  BY <1>1, <1>6, <1>9, <1>10 DEF CreditsExact
<1>12. CreditsBounded'
  <2>1. weight' <= queuedBytes'
    BY <1>1, <1>3, <1>5, <1>9, <1>10 DEF QueueTypes
  <2>2. ASSUME NEW s \in Sources PROVE queuedBySource'[s] <= Queue!sourceLimit
    <3>1. /\ queuedBySource[s] \in Nat /\ queuedBySource[s] <= Queue!sourceLimit
          /\ queuedBySource'[s] = queuedBySource[s] + mark(f, s)
      BY <1>3, <1>6 DEF QueueTypes, QueueInv, CreditsBounded
    <3>2. CASE f.source = s
      <4>1. f.source # None
        BY <3>2, QueueAssumption
      <4> QED BY <1>1, <3>1, <3>2, <4>1, QueueLimits DEF mark
    <3>3. CASE f.source # s
      BY <3>1, <3>3 DEF mark
    <3> QED BY <3>2, <3>3
  <2> QED BY <1>1, <2>1, <2>2 DEF CreditsBounded
<1>13. RoomBehindData'
  <2> SUFFICES ASSUME f.source # None
               PROVE  queuedBytes' <= maxBytes - controlBytes
                      /\ Len(sent') <= frames - Queue!reserve
    BY <1>7 DEF RoomBehindData
  <2>1. Len(sent) \in Nat /\ frames - Queue!reserve \in Int
    BY <1>3, QueueLimits, QueueAssumption DEF QueueTypes
  <2> QED BY <1>1, <1>7, <2>1
<1> QED BY <1>1, <1>8, <1>11, <1>12, <1>13 DEF QueueInv

\* The frame at the head goes to the writer, or is lost with a revoked peer.
LEMMA WriterTakesStep == ASSUME QueueInv, Queue!WriterTakes PROVE QueueInv'
<1> DEFINE f == Head(sent)
<1>1. /\ writer = "running" /\ held = <<>> /\ sent # <<>> /\ sent' = Tail(sent)
      /\ UNCHANGED <<queuedBytes, queuedBySource, swept, ended>>
      /\ swept => writer' = "stopped" /\ held' = <<>>
      /\ ~swept => writer' = "running" /\ held' = <<f>>
  BY DEF Queue!WriterTakes
<1>2. QueueTypes
  BY DEF QueueInv
<1>3. sent' \in Seq(Admissible) /\ f \in Admissible
  BY <1>1, <1>2, TailTakes DEF QueueTypes
<1>4. QueueTypes'
  BY <1>1, <1>2, <1>3 DEF QueueTypes
<1>5. f.size \in Nat
  BY <1>3, Admitted
<1>6. queuedBytes = weight /\ \A s \in Sources : queuedBySource[s] = share(s)
  BY <1>1 DEF QueueInv, CreditsExact
<1>7. ASSUME NEW s
      PROVE  /\ weight = Cardinality(cells(sent')) + f.size
             /\ share(s) = Cardinality(marks(sent', s)) + mark(f, s)
             /\ Cardinality(cells(sent')) \in Nat /\ Cardinality(marks(sent', s)) \in Nat
  <2>1. sent \o held = sent
    BY <1>1, <1>2 DEF QueueTypes
  <2> HIDE DEF f
  <2> QED BY <1>1, <1>2, <1>3, <2>1, TailTakes, Weights DEF QueueTypes, weight, share, f
<1>8. RoomBehindData'
  <2>1. sent' # <<>> => /\ sent'[Len(sent')] = sent[Len(sent)] /\ Len(sent') <= Len(sent)
    BY <1>1, <1>2 DEF QueueTypes
  <2> QED BY <1>1, <1>2, <1>3, <2>1, QueueLimits, QueueAssumption
      DEF RoomBehindData, QueueInv, QueueTypes
<1>9. CASE swept
  <2>1. weight' = Cardinality(cells(sent'))
    BY <1>1, <1>3, <1>9, Parts DEF weight
  <2>2. weight' <= weight
    BY <1>5, <1>7, <2>1
  <2>3. CreditsBounded'
    BY <1>1, <1>2, <1>5, <1>7, <2>1, <1>6 DEF CreditsBounded, QueueInv, QueueTypes
  <2> QED BY <1>1, <1>4, <1>8, <1>9, <2>3 DEF QueueInv, CreditsExact
<1>10. CASE ~swept
  <2>1. weight' = weight /\ \A s \in Sources : share(s)' = share(s)
    <3> SUFFICES ASSUME NEW s PROVE weight' = weight /\ share(s)' = share(s)
      OBVIOUS
    <3>1. /\ weight' = Cardinality(cells(sent')) + f.size
          /\ share(s)' = Cardinality(marks(sent', s)) + mark(f, s)
      <4> HIDE DEF f
      <4>1. sent' \o held' = sent' \o <<f>>
        BY <1>1, <1>10
      <4> QED BY <1>3, <4>1, Parts DEF weight, share
    <3> QED BY <1>7, <3>1
  <2>2. CreditsExact' /\ CreditsBounded'
    BY <1>1, <1>6, <2>1 DEF CreditsExact, CreditsBounded, QueueInv
  <2> QED BY <1>1, <1>4, <1>8, <1>10, <2>2 DEF QueueInv
<1> QED BY <1>9, <1>10

LEMMA ReleaseStep == ASSUME QueueInv, Queue!releaseFrame PROVE QueueInv'
<1>1. QueueTypes /\ held # <<>>
  BY DEF QueueInv, Queue!releaseFrame
<1>2. PICK f \in Admissible : held = <<f>>
  BY <1>1 DEF QueueTypes
<1>3. /\ held' = <<>> /\ writer' \in {"running", "stopped"} /\ UNCHANGED <<sent, swept, ended>>
      /\ queuedBytes' = Queue!greatest(0, queuedBytes - f.size)
      /\ queuedBySource' = IF f.source # None
                           THEN [queuedBySource EXCEPT ![f.source] = Queue!greatest(0, @ - 1)]
                           ELSE queuedBySource
  BY <1>2 DEF Queue!releaseFrame, Queue!business
<1>4. f.size \in Nat /\ f.source \in Sources \cup {None}
  BY Admitted
<1>5. queuedBytes = weight /\ \A s \in Sources : queuedBySource[s] = share(s)
  BY <1>1 DEF QueueInv, CreditsExact, QueueTypes
<1>6. ASSUME NEW s
      PROVE  /\ weight = weight' + f.size /\ share(s) = share(s)' + mark(f, s)
             /\ weight' \in Nat /\ share(s)' \in Nat
  <2>1. /\ weight = Cardinality(cells(sent)) + f.size
        /\ share(s) = Cardinality(marks(sent, s)) + mark(f, s)
    BY <1>1, <1>2, Parts DEF QueueTypes, weight, share
  <2>2. weight' = Cardinality(cells(sent)) /\ share(s)' = Cardinality(marks(sent, s))
    BY <1>1, <1>3, Parts DEF QueueTypes, weight, share
  <2> QED BY <1>1, <2>1, <2>2, Weights DEF QueueTypes
<1>7. queuedBytes' = weight'
  BY <1>3, <1>4, <1>5, <1>6 DEF Queue!greatest
<1>8. ASSUME NEW s \in Sources
      PROVE  queuedBySource'[s] = share(s)' /\ queuedBySource'[s] <= queuedBySource[s]
  <2>1. /\ queuedBySource[s] = share(s) /\ share(s) = share(s)' + mark(f, s) /\ share(s)' \in Nat
        /\ queuedBySource \in [Sources -> Nat]
    BY <1>1, <1>5, <1>6 DEF QueueTypes
  <2>2. CASE f.source = s
    <3>1. queuedBySource'[s] = Queue!greatest(0, queuedBySource[s] - 1)
      BY <1>3, <2>1, <2>2, QueueAssumption
    <3> QED BY <2>1, <2>2, <3>1 DEF mark, Queue!greatest
  <2>3. CASE f.source # s
    <3>1. queuedBySource'[s] = queuedBySource[s]
      BY <1>3, <1>4, <2>1, <2>3
    <3> QED BY <2>1, <2>3, <3>1 DEF mark
  <2> QED BY <2>2, <2>3
<1>9. QueueTypes'
  <2>1. queuedBySource' \in [Sources -> Nat]
    BY <1>1, <1>3, <1>4 DEF QueueTypes, Queue!greatest
  <2>2. queuedBytes' \in Nat
    BY <1>6, <1>7
  <2> QED BY <1>1, <1>3, <2>1, <2>2 DEF QueueTypes
<1>10. CreditsExact'
  BY <1>7, <1>8 DEF CreditsExact
<1>11. CreditsBounded'
  <2>1. queuedBytes' <= maxBytes /\ weight' <= queuedBytes'
    BY <1>4, <1>5, <1>6, <1>7, QueueAssumption DEF QueueInv, CreditsBounded
  <2>2. ASSUME NEW s \in Sources PROVE queuedBySource'[s] <= Queue!sourceLimit
    <3>1. /\ queuedBySource'[s] <= queuedBySource[s] /\ queuedBySource[s] <= Queue!sourceLimit
          /\ queuedBySource'[s] \in Nat /\ queuedBySource[s] \in Nat
      BY <1>1, <1>8, <1>9 DEF QueueInv, CreditsBounded, QueueTypes
    <3> QED BY <3>1, QueueLimits
  <2> QED BY <2>1, <2>2 DEF CreditsBounded
<1>12. RoomBehindData'
  <2>1. queuedBytes' <= queuedBytes
    BY <1>1, <1>4, <1>5, <1>6, <1>7 DEF QueueTypes
  <2> QED BY <1>1, <1>3, <1>9, <2>1, QueueAssumption DEF RoomBehindData, QueueInv, QueueTypes
<1> QED BY <1>3, <1>9, <1>10, <1>11, <1>12 DEF QueueInv

LEMMA QueueInvariance == QueueInv /\ [Queue!Next]_Queue!vars => QueueInv'
<1> SUFFICES ASSUME QueueInv, [Queue!Next]_Queue!vars PROVE QueueInv'
  OBVIOUS
<1>1. ASSUME NEW f \in Queue!Frames, Queue!enqueue(f) PROVE QueueInv'
  BY <1>1, EnqueueStep
<1>2. CASE Queue!WriterTakes
  BY <1>2, WriterTakesStep
<1>3. CASE Queue!releaseFrame
  BY <1>3, ReleaseStep
<1>4. CASE Queue!WriterStops
  <2>1. writer = "running" /\ held = <<>> /\ writer' = "stopped"
        /\ UNCHANGED <<sent, held, queuedBytes, queuedBySource, swept, ended>>
    BY <1>4 DEF Queue!WriterStops
  <2>2. weight' = weight /\ \A s \in Sources : share(s)' = share(s)
    BY <2>1 DEF weight, share
  <2> QED BY <2>1, <2>2 DEF QueueInv, QueueTypes, CreditsExact, CreditsBounded, RoomBehindData
<1>5. CASE Queue!Revoked \/ Queue!Done \/ UNCHANGED Queue!vars
  <2>1. /\ UNCHANGED <<sent, held, queuedBytes, queuedBySource, writer>>
        /\ swept' \in BOOLEAN /\ ended' \in BOOLEAN /\ (swept => swept')
    BY <1>5 DEF Queue!Revoked, Queue!Done, Queue!vars, QueueInv, QueueTypes
  <2>2. weight' = weight /\ \A s \in Sources : share(s)' = share(s)
    BY <2>1 DEF weight, share
  <2> QED BY <2>1, <2>2 DEF QueueInv, QueueTypes, CreditsExact, CreditsBounded, RoomBehindData
<1> QED BY <1>1, <1>2, <1>3, <1>4, <1>5 DEF Queue!Next

-----------------------------------------------------------------------------
(* What the limits keep.                                                    *)

LEMMA CreditsFollow == QueueInv => Queue!CreditsMatch /\ Queue!MemoryBounded
<1> SUFFICES ASSUME QueueInv PROVE Queue!CreditsMatch /\ Queue!MemoryBounded
  OBVIOUS
<1>1. weight \in Nat /\ queuedBytes \in Nat /\ maxBytes \in Nat
  <2>1. sent \o held \in Seq(Admissible)
    BY Parts DEF QueueInv, QueueTypes
  <2> QED BY <2>1, Weights, QueueAssumption DEF weight, QueueInv, QueueTypes
<1>2. Queue!bytes(Queue!held) = weight /\ \A s : Queue!from(Queue!held, s) = share(s)
  BY WeightIs DEF weight, share, Queue!held
<1> QED BY <1>1, <1>2
    DEF Queue!CreditsMatch, Queue!MemoryBounded, QueueInv, CreditsExact, CreditsBounded

\* For every capacity, every budget and every frame size: the credits out are
\* those of the frames queued and being written, and a blocked writer's peer
\* never costs the relay more than its budget (send_queue.go).
THEOREM CreditsAreExact == Queue!Spec => [](Queue!CreditsMatch /\ Queue!MemoryBounded)
  BY QueueInit, QueueInvariance, CreditsFollow, PTL DEF Queue!Spec

LEMMA DataLeavesControl == ASSUME QueueInv PROVE Queue!ControlFits
<1>1. QueueTypes /\ maxBytes \in Nat /\ controlBytes \in Nat /\ controlBytes <= maxBytes
      /\ frames \in Nat \ {0}
  BY QueueAssumption DEF QueueInv
<1> SUFFICES ASSUME Queue!reserve > 0, Queue!from(Queue!held, None) = 0, ~swept, ~ended,
                    NEW n \in ControlSizes, n <= controlBytes
             PROVE  Queue!admits([source |-> None, size |-> n])
  BY DEF Queue!ControlFits
<1>2. sent \o held \in Seq(Admissible)
  BY <1>1, Parts DEF QueueTypes
<1>3. ASSUME NEW k \in 1..Len(sent \o held)
      PROVE  (sent \o held)[k].source # None
  <2>1. marks(sent \o held, None) = {}
    BY <1>2, WeightIs, Weights, FS_EmptySet DEF Queue!held
  <2> QED BY <2>1 DEF marks
<1>4. n \in Nat
  BY QueueAssumption
<1>5. queuedBytes + n <= maxBytes /\ Len(sent) < frames
  <2>1. CASE sent # <<>>
    <3>1. Len(sent) \in 1..Len(sent \o held) /\ (sent \o held)[Len(sent)] = sent[Len(sent)]
      BY <1>1, <2>1 DEF QueueTypes
    <3>2. queuedBytes <= maxBytes - controlBytes /\ Len(sent) <= frames - Queue!reserve
      BY <1>3, <2>1, <3>1 DEF QueueInv, RoomBehindData
    <3>3. Len(sent) \in Nat /\ queuedBytes \in Nat
      BY <1>1 DEF QueueTypes
    <3> QED BY <1>1, <1>4, <3>2, <3>3, QueueLimits
  <2>2. CASE sent = <<>> /\ held = <<>>
    <3>1. sent \o held = <<>>
      BY <2>2
    <3>2. queuedBytes = 0
      BY <3>1, Weightless DEF QueueInv, CreditsExact, weight
    <3> QED BY <1>1, <1>4, <2>2, <3>2
  <2>3. ASSUME sent = <<>>, NEW f \in Admissible, held = <<f>>
        PROVE  queuedBytes + n <= maxBytes /\ Len(sent) < frames
    <3>1. sent \o held = <<f>>
      BY <2>3
    <3>2. 1 \in 1..Len(sent \o held) /\ (sent \o held)[1] = f
      BY <3>1
    <3>3. f.size \in Nat /\ f.size <= maxBytes - controlBytes
      BY <1>3, <3>2, Admitted
    <3>4. weight = Cardinality(cells(sent)) + f.size
      BY <1>1, <2>3, Parts DEF QueueTypes, weight
    <3>5. queuedBytes = f.size
      BY <2>3, <3>3, <3>4, Weightless DEF QueueInv, CreditsExact
    <3> QED BY <1>1, <1>4, <2>3, <3>3, <3>5
  <2> QED BY <1>1, <2>1, <2>2, <2>3 DEF QueueTypes
<1> QED BY <1>5 DEF Queue!admits, Queue!business

LEMMA SourceLeavesSlots == ASSUME QueueInv PROVE Queue!OneSourceLeavesSlots
<1> SUFFICES ASSUME NEW s \in Sources, NEW t \in Sources, NEW n \in Sizes, s # t, frames > 1,
                    Queue!from(Queue!held, s) = Len(Queue!held),
                    writer = "running", ~swept, ~ended,
                    queuedBytes + n <= maxBytes - controlBytes
             PROVE  Queue!admits([source |-> t, size |-> n])
  BY DEF Queue!OneSourceLeavesSlots
<1> DEFINE q == sent \o held
<1>1. QueueTypes /\ maxBytes \in Nat /\ controlBytes \in Nat /\ frames \in Nat
  BY QueueAssumption DEF QueueInv
<1>2. q \in Seq(Admissible) /\ Len(q) \in Nat /\ Len(sent) \in Nat /\ Len(sent) <= Len(q)
  <2>1. CASE held = <<>>
    BY <1>1, <2>1 DEF QueueTypes
  <2>2. ASSUME NEW f \in Admissible, held = <<f>>
        PROVE  q \in Seq(Admissible) /\ Len(q) \in Nat /\ Len(sent) \in Nat /\ Len(sent) <= Len(q)
    BY <1>1, <2>2 DEF QueueTypes
  <2> QED BY <1>1, <2>1, <2>2 DEF QueueTypes
<1> HIDE DEF q
<1>3. Cardinality(marks(q, s)) = Len(q)
  BY WeightIs DEF q, Queue!held
<1>4. marks(q, s) = 1..Len(q)
  <2>1. IsFiniteSet(1..Len(q)) /\ Cardinality(1..Len(q)) = Len(q)
    BY <1>2, UpTo
  <2>2. marks(q, s) \in SUBSET (1..Len(q))
    BY DEF marks
  <2>3. Cardinality(1..Len(q)) = Cardinality(marks(q, s))
    BY <1>3, <2>1
  <2> QED BY <2>1, <2>2, <2>3, FS_Subset
<1>5. queuedBySource[s] = Len(q) /\ queuedBySource[t] = Cardinality(marks(q, t))
  BY <1>3 DEF QueueInv, CreditsExact, weight, share, q
<1>6. Len(q) <= Queue!sourceLimit
  BY <1>5 DEF QueueInv, CreditsBounded
<1>7. queuedBySource[t] = 0
  <2>1. marks(q, t) = {}
    BY <1>4 DEF marks
  <2> QED BY <1>5, <2>1, FS_EmptySet
<1>8. Len(sent) < frames - Queue!reserve
  BY <1>1, <1>2, <1>6, QueueLimits
<1>9. Len(sent) < frames
  BY <1>1, <1>2, <1>8, QueueLimits
<1>10. queuedBytes + n <= maxBytes
  <2>1. n \in Nat /\ queuedBytes \in Nat
    BY <1>1, QueueAssumption DEF QueueTypes
  <2> QED BY <1>1, <2>1
<1> QED BY <1>7, <1>8, <1>9, <1>10, QueueLimits DEF Queue!admits, Queue!business

\* For every capacity, every budget and every frame size: data frames alone never
\* leave a control frame without a place in what is reserved for it, no source
\* takes all the slots of another, credits are exact, memory is bounded, and the
\* relay serves no more connections than it has slots (send_queue.go, server.go).
THEOREM LimitsAreKept == Spec /\ Queue!Spec => []LimitsHold
<1>1. QueueInv => Queue!BudgetsKept
  BY CreditsFollow, DataLeavesControl, SourceLeavesSlots DEF Queue!BudgetsKept
<1>2. Queue!Spec => []QueueInv
  BY QueueInit, QueueInvariance, PTL DEF Queue!Spec
<1>3. SlotsBounded /\ Queue!BudgetsKept => LimitsHold
  BY DEF LimitsHold
<1> QED BY <1>1, <1>2, <1>3, SlotsAreExact, PTL
=============================================================================
