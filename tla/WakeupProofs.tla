---------------------------- MODULE WakeupProofs ----------------------------
(***************************************************************************)
(* Proofs about what wakes a daemon, for every set of devices, sockets and *)
(* calls of Notify, and every limit and queue capacity.                    *)
(*                                                                         *)
(* The hub's map and counter say too little to carry their own argument.   *)
(* The counter is exact (Slots) because a handler passes each of its       *)
(* stages once, and its pumps run in one of them only (Life). A map entry  *)
(* names a socket of its own device (Owners), so the teardown of a socket, *)
(* which looks at the entry of that device alone, cannot touch another     *)
(* one's. A client's frame numbers count the Notify calls that took one    *)
(* (Numbered): each call takes at most one, which bounds them.             *)
(*                                                                         *)
(* The daemon reads one socket and skips frames whose number is not above  *)
(* the last it took. While that socket is calm and no wake-up waits, a row *)
(* whose notifying has begun is read or its number is still to come        *)
(* (Covered). The long poll needs no socket: a poll that sleeps at the     *)
(* current version sleeps over rows that have not been notified yet, or    *)
(* that the end of a lease freed (Sleeps).                                 *)
(***************************************************************************)
EXTENDS Wakeups, FiniteSetTheorems, TLAPS

-----------------------------------------------------------------------------
(* The inductive invariant. *)

Calls == [step : {"idle", "found", "open", "unsent", "returned"}, node : Maybe(Nodes),
          client : Maybe(Sockets), seq : 0..Cardinality(Notices)]

\* A call of Notify holds a client between its lookup and its return, and a
\* number from the moment it may put a frame on the client's channel.
CallsOK ==
    /\ notice \in [Notices -> Calls]
    /\ \A i \in Notices :
         /\ notice[i].step \in {"found", "open", "unsent"} => notice[i].client \in Sockets
         /\ notice[i].step \in {"idle", "found"} => notice[i].seq = 0
         /\ notice[i].step = "open" => notice[i].seq > 0

\* The calls that took one of a client's numbers.
numbered(c) == {i \in Notices : notice[i].client = c /\ notice[i].seq > 0}

Numbered == \A c \in Sockets : sequence[c] = Cardinality(numbered(c))

Owners ==
    \A n \in Nodes : /\ clients[n] # None => owner[clients[n]] = n
                     /\ latest[n] # None => owner[latest[n]] = n

\* The pumps of a socket run in one stage of its handler.
Life ==
    \A c \in Sockets :
       /\ handler[c] \in {"idle", "registered", "handover", "leaving"} =>
             reader[c] = "off" /\ writer[c] = "off"
       /\ handler[c] = "exited" =>
             reader[c] \in {"off", "stopped"} /\ writer[c] \in {"off", "stopped"}

Slots ==
    /\ IsFiniteSet(holding)
    /\ activeClients = Cardinality(holding)
    /\ activeClients <= maxConnections + 1

Inv ==
    /\ TypeOK
    /\ CallsOK
    /\ Numbered
    /\ Owners
    /\ Life
    /\ Slots
    /\ NewestIsReachable

-----------------------------------------------------------------------------
(* What most steps leave alone. *)

LEMMA CallsKept ==
    ASSUME CallsOK, Numbered, UNCHANGED <<notice, sequence>>
    PROVE  CallsOK' /\ Numbered'
  BY DEF CallsOK, Numbered, numbered

LEMMA SlotsKept ==
    ASSUME Slots, UNCHANGED activeClients,
           \A c \in Sockets : handler'[c] = handler[c]
             \/ {handler[c], handler'[c]} \subseteq {"registered", "handover", "pumping", "leaving"}
             \/ {handler[c], handler'[c]} \subseteq {"idle", "exited"}
    PROVE  Slots'
<1>1. holding' = holding
  BY DEF holding
<1> QED BY <1>1 DEF Slots

\* A socket of the device that is not the one removed keeps its entry.
LEMMA RemovedIs ==
    ASSUME TypeOK, Owners, NEW c \in Sockets, clients' = removed(c)
    PROVE  /\ clients' \in [Nodes -> Maybe(Sockets)]
           /\ \A n \in Nodes : clients'[n] = IF clients[n] = c THEN None ELSE clients[n]
<1>1. owner[c] \in Nodes /\ c # None
  BY HubConstants
<1>2. \A n \in Nodes : clients[n] = c => n = owner[c]
  BY <1>1 DEF Owners
<1> QED BY <1>1, <1>2 DEF removed, TypeOK, Maybe

LEMMA OwnersKept ==
    ASSUME Owners, UNCHANGED latest,
           \A n \in Nodes : clients'[n] \in {clients[n], None}
    PROVE  Owners'
  BY DEF Owners

LEMMA RequestTyped ==
    ASSUME TypeOK, NEW S, requestClose(S)
    PROVE  closeReq' \in [Sockets -> BOOLEAN]
  BY DEF requestClose, TypeOK

-----------------------------------------------------------------------------
(* ServeWS. *)

LEMMA registerKeeps == ASSUME Inv, NEW c \in Sockets, register(c) PROVE Inv'
<1> USE DEF Inv, register, channelVars
<1>0. owner[c] \in Nodes /\ c # None
  BY HubConstants
<1>1. TypeOK'
  BY <1>0 DEF TypeOK, Maybe
<1>2. CallsOK' /\ Numbered'
  BY CallsKept
<1>3. Owners'
  BY <1>0 DEF TypeOK, Owners
<1>4. Life'
  BY DEF TypeOK, Life
<1>5. Slots'
  <2>1. holding' = holding \cup {c} /\ c \notin holding
    BY DEF TypeOK, holding
  <2>2. IsFiniteSet(holding') /\ Cardinality(holding') = Cardinality(holding) + 1
    BY <2>1, FS_AddElement DEF Slots
  <2>3. activeClients \in Nat /\ maxConnections \in Nat /\ activeClients <= maxConnections
    BY HubConstants DEF admits, TypeOK
  <2> QED BY <2>2, <2>3 DEF Slots
<1>6. NewestIsReachable'
  <2>1. ASSUME NEW n \in Nodes, n # owner[c], latest[n] # None
        PROVE  handler'[latest[n]] = handler[latest[n]]
    BY <2>1 DEF Owners, TypeOK
  <2>2. \A n \in Nodes : n # owner[c] => latest'[n] = latest[n] /\ clients'[n] = clients[n]
    BY DEF TypeOK
  <2>3. latest'[owner[c]] = c /\ clients'[owner[c]] = c
    BY <1>0 DEF TypeOK
  <2> QED BY <2>1, <2>2, <2>3 DEF NewestIsReachable
<1> QED BY <1>1, <1>2, <1>3, <1>4, <1>5, <1>6

LEMMA RefusedKeeps == ASSUME Inv, NEW c \in Sockets, Refused(c) PROVE Inv'
<1> USE DEF Inv, Refused, hubVars
<1>1. TypeOK'
  BY DEF TypeOK
<1>2. CallsOK' /\ Numbered'
  BY CallsKept
<1>3. Owners'
  BY DEF Owners
<1>4. Life'
  BY DEF TypeOK, Life
<1>5. Slots'
  <2>1. \A d \in Sockets : d # c => handler'[d] = handler[d]
    BY DEF TypeOK
  <2>2. handler[c] = "idle" /\ handler'[c] = "exited"
    BY DEF TypeOK
  <2> QED BY <2>1, <2>2, SlotsKept
<1>6. NewestIsReachable'
  BY DEF NewestIsReachable, TypeOK, Maybe
<1> QED BY <1>1, <1>2, <1>3, <1>4, <1>5, <1>6

LEMMA ClosePreviousKeeps == ASSUME Inv, NEW c \in Sockets, ClosePrevious(c) PROVE Inv'
<1> USE DEF Inv, ClosePrevious, hubVars
<1>1. TypeOK'
  BY RequestTyped DEF TypeOK
<1>2. CallsOK' /\ Numbered'
  BY CallsKept
<1>3. Owners'
  BY DEF Owners
<1>4. Life'
  BY DEF TypeOK, Life
<1>5. Slots'
  <2>1. \A d \in Sockets : d # c => handler'[d] = handler[d]
    BY DEF TypeOK
  <2>2. handler[c] = "registered" /\ handler'[c] = "handover"
    BY DEF TypeOK
  <2> QED BY <2>1, <2>2, SlotsKept
<1>6. NewestIsReachable'
  BY DEF NewestIsReachable, TypeOK, Maybe
<1> QED BY <1>1, <1>2, <1>3, <1>4, <1>5, <1>6

LEMMA StartPumpsKeeps == ASSUME Inv, NEW c \in Sockets, StartPumps(c) PROVE Inv'
<1> USE DEF Inv, StartPumps, hubVars
<1>1. TypeOK'
  <2>1. Ready \in Frame
    BY DEF Ready, Frame
  <2>2. Append(send[c], Ready) \in Seq(Frame)
    BY <2>1 DEF TypeOK
  <2> QED BY <2>2 DEF TypeOK
<1>2. CallsOK' /\ Numbered'
  BY CallsKept
<1>3. Owners'
  BY DEF Owners
<1>4. Life'
  BY DEF TypeOK, Life
<1>5. Slots'
  <2>1. \A d \in Sockets : d # c => handler'[d] = handler[d]
    BY DEF TypeOK
  <2>2. handler[c] = "handover" /\ handler'[c] = "pumping"
    BY DEF TypeOK
  <2> QED BY <2>1, <2>2, SlotsKept
<1>6. NewestIsReachable'
  <2>1. reader[c] = "off"
    BY DEF Life
  <2> QED BY <2>1 DEF NewestIsReachable, TypeOK, Maybe
<1> QED BY <1>1, <1>2, <1>3, <1>4, <1>5, <1>6

LEMMA FailReadyKeeps == ASSUME Inv, NEW c \in Sockets, FailReady(c) PROVE Inv'
<1> USE DEF Inv, FailReady
<1>0. /\ clients' \in [Nodes -> Maybe(Sockets)]
      /\ \A n \in Nodes : clients'[n] = IF clients[n] = c THEN None ELSE clients[n]
  BY RemovedIs
<1>1. TypeOK'
  BY <1>0 DEF TypeOK
<1>2. CallsOK' /\ Numbered'
  BY CallsKept
<1>3. Owners'
  BY <1>0, OwnersKept
<1>4. Life'
  BY DEF TypeOK, Life
<1>5. Slots'
  <2>1. \A d \in Sockets : d # c => handler'[d] = handler[d]
    BY DEF TypeOK
  <2>2. handler[c] = "handover" /\ handler'[c] = "leaving"
    BY DEF TypeOK
  <2> QED BY <2>1, <2>2, SlotsKept
<1>6. NewestIsReachable'
  BY <1>0 DEF NewestIsReachable, TypeOK, Maybe
<1> QED BY <1>1, <1>2, <1>3, <1>4, <1>5, <1>6

LEMMA connectionDoneKeeps == ASSUME Inv, NEW c \in Sockets, connectionDone(c) PROVE Inv'
<1> USE DEF Inv, connectionDone, channelVars
<1>1. holding' = holding \ {c} /\ c \in holding
  BY DEF TypeOK, holding
<1>2. /\ IsFiniteSet(holding') /\ Cardinality(holding) \in Nat /\ Cardinality(holding') \in Nat
      /\ Cardinality(holding') = Cardinality(holding) - 1
  BY <1>1, FS_RemoveElement, FS_CardinalityType DEF Slots
<1>3. Slots'
  <2>1. maxConnections \in Nat
    BY HubConstants
  <2> QED BY <1>2, <2>1 DEF Slots
<1>4. TypeOK'
  BY <1>2 DEF TypeOK, Slots
<1>5. CallsOK' /\ Numbered'
  BY CallsKept
<1>6. Owners'
  BY DEF Owners
<1>7. Life'
  BY DEF TypeOK, Life
<1>8. NewestIsReachable'
  BY DEF NewestIsReachable, TypeOK, Maybe
<1> QED BY <1>3, <1>4, <1>5, <1>6, <1>7, <1>8

-----------------------------------------------------------------------------
(* The pumps. *)

LEMMA ReaderLeavesKeeps == ASSUME Inv, NEW c \in Sockets, ReaderLeaves(c) PROVE Inv'
<1> USE DEF Inv, ReaderLeaves
<1>0. /\ clients' \in [Nodes -> Maybe(Sockets)]
      /\ \A n \in Nodes : clients'[n] = IF clients[n] = c THEN None ELSE clients[n]
  BY RemovedIs
<1>1. TypeOK'
  <2>1. closeReq' \in [Sockets -> BOOLEAN]
    BY RequestTyped DEF TypeOK
  <2> QED BY <1>0, <2>1 DEF TypeOK
<1>2. CallsOK' /\ Numbered'
  BY CallsKept
<1>3. Owners'
  BY <1>0, OwnersKept
<1>4. Life'
  BY DEF TypeOK, Life
<1>5. Slots'
  BY SlotsKept
<1>6. NewestIsReachable'
  BY <1>0 DEF NewestIsReachable, TypeOK, Maybe
<1> QED BY <1>1, <1>2, <1>3, <1>4, <1>5, <1>6

LEMMA ReaderStopsKeeps == ASSUME Inv, NEW c \in Sockets, ReaderStops(c) PROVE Inv'
<1> USE DEF Inv, ReaderStops, hubVars
<1>1. TypeOK'
  BY DEF TypeOK
<1>2. CallsOK' /\ Numbered'
  BY CallsKept
<1>3. Owners'
  BY DEF Owners
<1>4. Life'
  BY DEF TypeOK, Life
<1>5. Slots'
  BY SlotsKept
<1>6. NewestIsReachable'
  BY DEF NewestIsReachable, TypeOK, Maybe
<1> QED BY <1>1, <1>2, <1>3, <1>4, <1>5, <1>6

LEMMA WriterStopsKeeps == ASSUME Inv, NEW c \in Sockets, WriterStops(c) PROVE Inv'
<1> USE DEF Inv, WriterStops, hubVars
<1>1. TypeOK'
  BY DEF TypeOK
<1>2. CallsOK' /\ Numbered'
  BY CallsKept
<1>3. Owners'
  BY DEF Owners
<1>4. Life'
  BY DEF TypeOK, Life
<1>5. Slots'
  BY SlotsKept
<1>6. NewestIsReachable'
  BY DEF NewestIsReachable
<1> QED BY <1>1, <1>2, <1>3, <1>4, <1>5, <1>6

\* Steps that touch neither the map, the slots nor the pumps.
LEMMA HubKept ==
    ASSUME Inv, UNCHANGED <<hubVars, socketVars, latest>>
    PROVE  Owners' /\ Life' /\ Slots' /\ NewestIsReachable'
<1> USE DEF hubVars, socketVars, Inv
<1>1. Owners' /\ Life'
  BY DEF Owners, Life
<1>2. Slots'
  BY SlotsKept
<1>3. NewestIsReachable'
  BY DEF NewestIsReachable
<1> QED BY <1>1, <1>2, <1>3

LEMMA WriterSendsKeeps == ASSUME Inv, NEW c \in Sockets, WriterSends(c) PROVE Inv'
<1> USE DEF Inv, WriterSends
<1>1. TypeOK'
  <2>1. Head(send[c]) \in Frame /\ Tail(send[c]) \in Seq(Frame)
    BY DEF TypeOK
  <2>2. Append(wire[c], Head(send[c])) \in Seq(Frame)
    BY <2>1 DEF TypeOK
  <2> QED BY <2>1, <2>2 DEF TypeOK, hubVars, socketVars
<1>2. CallsOK' /\ Numbered'
  BY CallsKept
<1> QED BY <1>1, <1>2, HubKept

LEMMA ConnectionLostKeeps == ASSUME Inv, NEW c \in Sockets, ConnectionLost(c) PROVE Inv'
<1> USE DEF Inv, ConnectionLost
<1>1. TypeOK'
  BY DEF TypeOK, hubVars, socketVars
<1>2. CallsOK' /\ Numbered'
  BY CallsKept
<1> QED BY <1>1, <1>2, HubKept

-----------------------------------------------------------------------------
(* Notify, Disconnect and Close. *)

LEMMA NotifyLooksUpKeeps ==
    ASSUME Inv, NEW i \in Notices, NEW n \in Nodes, NotifyLooksUp(i, n)
    PROVE  Inv'
<1> USE DEF Inv, NotifyLooksUp
<1>1. TypeOK'
  BY DEF TypeOK, hubVars, socketVars, channelVars
<1> DEFINE a == IF clients[n] = None THEN Call("returned", n, None, 0)
                                     ELSE Call("found", n, clients[n], 0)
<1>2. /\ a.step = (IF clients[n] = None THEN "returned" ELSE "found")
      /\ a.client = clients[n] /\ a.seq = 0 /\ a \in Calls
  <2>1. clients[n] \in Maybe(Sockets) /\ n \in Maybe(Nodes) /\ None \in Maybe(Sockets)
    BY DEF TypeOK, Maybe
  <2>2. 0 \in 0..Cardinality(Notices)
    BY HubConstants, FS_CardinalityType
  <2>3. CASE clients[n] = None
    BY <2>1, <2>2, <2>3 DEF Call, Calls
  <2>4. CASE clients[n] # None
    BY <2>1, <2>2, <2>4 DEF Call, Calls
  <2> QED BY <2>3, <2>4
<1>b. notice' = [notice EXCEPT ![i] = a]
  OBVIOUS
<1> HIDE DEF a
<1>3. CallsOK'
  <2>1. clients[n] # None => clients[n] \in Sockets
    BY DEF TypeOK, Maybe
  <2> QED BY <1>2, <1>b, <2>1 DEF CallsOK
<1>4. Numbered'
  <2>1. \A j \in Notices : notice'[j].seq > 0 <=> notice[j].seq > 0
    BY <1>2, <1>b DEF CallsOK
  <2>2. \A j \in Notices : notice[j].seq > 0 => notice'[j] = notice[j]
    BY <1>2, <1>b DEF CallsOK
  <2>3. \A c \in Sockets : numbered(c)' = numbered(c)
    BY <2>1, <2>2 DEF numbered
  <2> QED BY <2>3 DEF Numbered, channelVars
<1> QED BY <1>1, <1>3, <1>4, HubKept

LEMMA NotifyNumbersKeeps == ASSUME Inv, NEW i \in Notices, NotifyNumbers(i) PROVE Inv'
<1> USE DEF Inv, NotifyNumbers
<1>1. PICK c \in Sockets : /\ c = notice[i].client /\ notice[i] \in Calls
                           /\ notice[i].seq = 0 /\ notice[i].step = "found"
                           /\ i \notin numbered(c)
  BY DEF CallsOK, numbered
<1>2. /\ notice' = [notice EXCEPT ![i].seq = sequence[c] + 1,
                                  ![i].step = IF done[c] THEN "unsent" ELSE "open"]
      /\ sequence' = [sequence EXCEPT ![c] = @ + 1]
  BY <1>1
<1>3. /\ notice'[i].client = c /\ notice'[i].seq = sequence[c] + 1
      /\ notice'[i].step = (IF done[c] THEN "unsent" ELSE "open")
      /\ notice'[i].node = notice[i].node
      /\ DOMAIN notice' = Notices
      /\ \A j \in Notices : j # i => notice'[j] = notice[j]
  BY <1>1, <1>2 DEF CallsOK, Calls
<1>4. IsFiniteSet(numbered(c)) /\ Cardinality(numbered(c)) < Cardinality(Notices)
  <2>1. numbered(c) \subseteq Notices /\ numbered(c) # Notices
    BY <1>1 DEF numbered
  <2> QED BY <2>1, HubConstants, FS_Subset, FS_CardinalityType
<1>5. sequence[c] \in Nat /\ sequence[c] = Cardinality(numbered(c))
  BY <1>1 DEF Numbered, TypeOK
<1>6. sequence[c] + 1 \in 0..Cardinality(Notices) /\ sequence[c] + 1 > 0
  BY <1>4, <1>5, HubConstants, FS_CardinalityType
<1>7. TypeOK'
  <2>1. sequence' \in [Sockets -> Nat]
    <3>1. sequence \in [Sockets -> Nat] /\ sequence[c] + 1 \in Nat
      BY <1>5 DEF TypeOK
    <3>2. sequence' = [sequence EXCEPT ![c] = sequence[c] + 1]
      BY <1>2
    <3> QED BY <3>1, <3>2
  <2> QED BY <2>1 DEF TypeOK, hubVars, socketVars
<1>8. CallsOK'
  <2>1. notice' \in [Notices -> Calls]
    <3>1. notice'[i] \in Calls
      BY <1>1, <1>2, <1>6 DEF CallsOK, Calls
    <3> QED BY <1>2, <1>3, <3>1 DEF CallsOK
  <2> QED BY <1>1, <1>3, <1>6, <2>1 DEF CallsOK
<1>9. Numbered'
  <2>1. numbered(c)' = numbered(c) \cup {i}
    BY <1>3, <1>6 DEF numbered
  <2>2. \A d \in Sockets : d # c => numbered(d)' = numbered(d)
    BY <1>1, <1>3 DEF numbered
  <2>3. Cardinality(numbered(c)') = Cardinality(numbered(c)) + 1
    BY <1>1, <1>4, <2>1, FS_AddElement
  <2>4. sequence'[c] = Cardinality(numbered(c)')
    BY <1>1, <1>2, <1>5, <2>3 DEF TypeOK
  <2>5. \A d \in Sockets : d # c => sequence'[d] = sequence[d]
    BY <1>2 DEF TypeOK
  <2>6. ASSUME NEW d \in Sockets PROVE sequence'[d] = Cardinality(numbered(d)')
    <3>1. CASE d = c
      BY <2>4, <3>1
    <3>2. CASE d # c
      BY <2>2, <2>5, <3>2 DEF Numbered
    <3> QED BY <3>1, <3>2
  <2> QED BY <2>6 DEF Numbered
<1> QED BY <1>7, <1>8, <1>9, HubKept

\* A call that changes its step alone keeps its client and its number.
LEMMA StepOnly ==
    ASSUME CallsOK, Numbered, NEW i \in Notices, NEW s \in {"unsent", "returned"},
           notice[i].step \in {"open", "unsent"},
           notice' = [notice EXCEPT ![i].step = s], UNCHANGED sequence
    PROVE  CallsOK' /\ Numbered'
<1>1. /\ notice'[i].client = notice[i].client /\ notice'[i].seq = notice[i].seq
      /\ notice'[i].step = s
      /\ \A j \in Notices : j # i => notice'[j] = notice[j]
  BY DEF CallsOK, Calls
<1>2. notice' \in [Notices -> Calls]
  <2>1. notice'[i] \in Calls
    BY DEF CallsOK, Calls
  <2> QED BY <1>1, <2>1 DEF CallsOK
<1>3. CallsOK'
  BY <1>1, <1>2 DEF CallsOK
<1>4. \A c \in Sockets : numbered(c)' = numbered(c)
  BY <1>1 DEF numbered
<1> QED BY <1>3, <1>4 DEF Numbered

LEMMA NotifyEnqueuesKeeps == ASSUME Inv, NEW i \in Notices, NotifyEnqueues(i) PROVE Inv'
<1> USE DEF Inv, NotifyEnqueues
<1> DEFINE c == notice[i].client
<1>1. c \in Sockets /\ notice[i].seq \in 1..Cardinality(Notices)
  BY HubConstants, FS_CardinalityType DEF CallsOK, Calls
<1>2. TypeOK'
  <2>1. SignalsAvailable(notice[i].seq) \in Frame
    BY <1>1 DEF SignalsAvailable, Frame
  <2>2. Append(send[c], SignalsAvailable(notice[i].seq)) \in Seq(Frame)
    BY <1>1, <2>1 DEF TypeOK
  <2>3. send' \in [Sockets -> Seq(Frame)]
    BY <1>1, <2>2 DEF TypeOK
  <2> QED BY <2>3 DEF TypeOK, hubVars, socketVars
<1>3. CallsOK' /\ Numbered'
  BY StepOnly
<1> QED BY <1>2, <1>3, HubKept

LEMMA NotifyGivesUpKeeps == ASSUME Inv, NEW i \in Notices, NotifyGivesUp(i) PROVE Inv'
<1> USE DEF Inv, NotifyGivesUp
<1>1. TypeOK'
  BY RequestTyped DEF TypeOK, hubVars, socketVars
<1>2. CallsOK' /\ Numbered'
  BY StepOnly
<1> QED BY <1>1, <1>2, HubKept

LEMMA DisconnectKeeps ==
    ASSUME Inv, DisconnectStops \/ \E n \in Nodes : DisconnectLooksUp(n)
    PROVE  Inv'
<1> USE DEF Inv
<1>1. CASE DisconnectStops
  <2> USE <1>1 DEF DisconnectStops
  <2>1. evicting \in Sockets
    BY DEF TypeOK, Maybe
  <2>2. TypeOK'
    BY <2>1, RequestTyped DEF TypeOK, Maybe, hubVars, socketVars
  <2>3. CallsOK' /\ Numbered'
    BY CallsKept
  <2> QED BY <2>2, <2>3, HubKept
<1>2. CASE \E n \in Nodes : DisconnectLooksUp(n)
  <2> USE <1>2 DEF DisconnectLooksUp
  <2>1. TypeOK'
    BY DEF TypeOK, hubVars, socketVars, channelVars
  <2>2. CallsOK' /\ Numbered'
    BY CallsKept DEF channelVars
  <2> QED BY <2>1, <2>2, HubKept
<1> QED BY <1>1, <1>2

LEMMA CloseKeeps == ASSUME Inv, Close PROVE Inv'
<1> USE DEF Inv, Close, socketVars
<1>1. TypeOK'
  BY RequestTyped DEF TypeOK, Maybe
<1>2. CallsOK' /\ Numbered'
  BY CallsKept
<1>3. Owners'
  BY OwnersKept
<1>4. Life'
  BY DEF Life
<1>5. Slots'
  BY SlotsKept
<1>6. NewestIsReachable'
  BY DEF NewestIsReachable
<1> QED BY <1>1, <1>2, <1>3, <1>4, <1>5, <1>6

-----------------------------------------------------------------------------
LEMMA InitKeeps == HubInit => Inv
<1> SUFFICES ASSUME HubInit PROVE Inv
  OBVIOUS
<1> USE DEF HubInit
<1>0. maxConnections \in Nat
  BY HubConstants
<1>1. TypeOK
  <2>1. [c \in Sockets |-> <<>>] \in [Sockets -> Seq(Frame)]
    OBVIOUS
  <2>2. [c \in Sockets |-> 0] \in [Sockets -> Nat] /\ activeClients \in Nat
    OBVIOUS
  <2> QED BY <2>1, <2>2 DEF TypeOK, Maybe
<1>2. CallsOK
  <2>1. 0 \in 0..Cardinality(Notices)
    BY HubConstants, FS_CardinalityType
  <2> QED BY <2>1 DEF CallsOK, Calls, Maybe
<1>3. Numbered
  <2>1. \A c \in Sockets : numbered(c) = {}
    BY DEF numbered
  <2> QED BY <2>1, FS_EmptySet DEF Numbered
<1>4. Owners /\ Life
  BY DEF Owners, Life
<1>5. Slots
  <2>1. holding = {}
    BY DEF holding
  <2> QED BY <1>0, <2>1, FS_EmptySet DEF Slots
<1>6. NewestIsReachable
  BY DEF NewestIsReachable
<1> QED BY <1>1, <1>2, <1>3, <1>4, <1>5, <1>6 DEF Inv

LEMMA UnchangedKeeps == ASSUME Inv, UNCHANGED vars PROVE Inv'
<1>1. TypeOK' /\ UNCHANGED <<notice, sequence, hubVars, socketVars, latest>>
  BY DEF Inv, TypeOK, vars, hubVars, socketVars, channelVars
<1>2. CallsOK' /\ Numbered'
  BY <1>1, CallsKept DEF Inv
<1> QED BY <1>1, <1>2, HubKept DEF Inv

LEMMA StepKeeps == Inv /\ [HubNext]_vars => Inv'
<1> SUFFICES ASSUME Inv, [HubNext]_vars PROVE Inv'
  OBVIOUS
<1>1. ASSUME NEW c \in Sockets,
             register(c) \/ Refused(c) \/ SocketStep(c) \/ ReaderLeaves(c) \/ ConnectionLost(c)
      PROVE  Inv'
  BY <1>1, registerKeeps, RefusedKeeps, ClosePreviousKeeps, StartPumpsKeeps, FailReadyKeeps,
     connectionDoneKeeps, ReaderLeavesKeeps, ReaderStopsKeeps, WriterSendsKeeps,
     WriterStopsKeeps, ConnectionLostKeeps DEF SocketStep
<1>2. ASSUME NEW i \in Notices, NotifyStep(i) \/ \E n \in Nodes : NotifyLooksUp(i, n)
      PROVE  Inv'
  BY <1>2, NotifyLooksUpKeeps, NotifyNumbersKeeps, NotifyEnqueuesKeeps, NotifyGivesUpKeeps
     DEF NotifyStep
<1> QED BY <1>1, <1>2, DisconnectKeeps, CloseKeeps, UnchangedKeeps DEF HubNext

LEMMA Invariance == Spec => []Inv
  BY InitKeeps, StepKeeps, PTL DEF Spec

\* The hub's map, counter and channels, whatever sockets come, are replaced,
\* lose their connection or are disconnected, whenever Notify calls overlap and
\* the hub closes: the counter is the number of sockets with a running
\* goroutine and exceeds the limit by one at most, and the teardown of a
\* replaced connection never takes its successor out of the map.
THEOREM HubIsSound == Spec => []HubSound
<1>1. Inv => HubSound
  <2> SUFFICES ASSUME Inv PROVE SlotsBounded
    BY DEF Inv, HubSound
  <2>1. \A c \in Sockets \ holding : handler[c] \in {"idle", "exited"}
    BY DEF Inv, TypeOK, holding
  <2> QED BY <2>1 DEF Inv, SlotsBounded, Slots, Life
<1> QED BY <1>1, Invariance, PTL
-----------------------------------------------------------------------------
(***************************************************************************)
(* The daemon behind the hub: once its connection has settled, no row is   *)
(* left that a sender notified and no poll has read.                       *)
(*                                                                         *)
(* As long as nothing is about to take the connection down (calm), a call  *)
(* of Notify that has begun is covered in one of three ways: a poll has    *)
(* read its row, a wake-up is waiting, or the call met this connection and *)
(* either still has its frame to send or has one of a higher number than   *)
(* the daemon has read before it (Covered).  That the call cannot have met *)
(* no connection or an older one rests on the daemon's side: it opens one  *)
(* socket at a time, so nobody else can be in the map (Linked).            *)
(***************************************************************************)

calm == conn[link] /\ ~done[link] /\ ~closeReq[link] /\ evicting # link /\ reader[link] = "running"

standing(c) == handler[c] \in {"registered", "handover", "pumping"} /\ reader[c] \in {"off", "running"}

DaemonOK ==
    /\ stored \subseteq Notices /\ ready \in BOOLEAN /\ lastSequence \in Nat /\ wakes \in Nat
    /\ dialed \subseteq Dialable
    /\ link # None => link \in dialed
    /\ \A i \in Notices : notice[i].step # "idle" => i \in stored

\* A socket is known to the hub only after the daemon opened it, and the daemon
\* leaves it only after the hub has answered.
Linked ==
    /\ \A c \in Sockets \ dialed : handler[c] = "idle"
    /\ \A c \in dialed : c # link => handler[c] # "idle"
    /\ \A c \in Sockets : handler[c] = "idle" => conn[c]
    /\ \A c \in Sockets : wire[c] # <<>> => handler[c] \in {"pumping", "exited"}
    /\ link # None /\ ready => handler[link] \in {"pumping", "exited"}
    /\ link # None /\ standing(link) => clients[owner[link]] = link

frames(s) == {s[k] : k \in 1..Len(s)}
upcoming(c) == frames(send[c]) \cup frames(wire[c])

NumbersOK ==
    /\ \A c \in Sockets : \A f \in upcoming(c) : f.seq <= sequence[c]
    /\ \A i \in Notices : notice[i].client \in Sockets =>
          notice[i].seq <= sequence[notice[i].client]
    /\ link # None => lastSequence <= sequence[link]

Covered ==
    link # None /\ ready /\ calm /\ wakes = 0 =>
       \A i \in Notices : notice[i].step # "idle" /\ i \notin seen =>
          /\ notice[i].client = link
          /\ notice[i].step \in {"open", "unsent"} => notice[i].seq > lastSequence
          /\ notice[i].step = "returned" => \E f \in upcoming(link) : f.seq > lastSequence

Awake == DaemonOK /\ Linked /\ NumbersOK /\ Covered

WInv == Inv /\ Awake

-----------------------------------------------------------------------------
(* Frames, and what most steps leave alone. *)

LEMMA FramesAppend ==
    ASSUME NEW S, NEW s \in Seq(S), NEW x \in S
    PROVE  frames(Append(s, x)) = frames(s) \cup {x}
<1>1. /\ Len(Append(s, x)) = Len(s) + 1 /\ Len(s) \in Nat
      /\ \A k \in 1..Len(s) : Append(s, x)[k] = s[k]
      /\ Append(s, x)[Len(s) + 1] = x
  OBVIOUS
<1>2. 1..(Len(s) + 1) = (1..Len(s)) \cup {Len(s) + 1}
  BY <1>1
<1>3. frames(Append(s, x)) \subseteq frames(s) \cup {x}
  BY <1>1, <1>2 DEF frames
<1>4. frames(s) \cup {x} \subseteq frames(Append(s, x))
  BY <1>1, <1>2 DEF frames
<1> QED BY <1>3, <1>4

LEMMA FramesHead ==
    ASSUME NEW S, NEW s \in Seq(S), s # <<>>
    PROVE  /\ Head(s) \in S /\ Tail(s) \in Seq(S)
           /\ frames(s) = {Head(s)} \cup frames(Tail(s))
<1>1. /\ Head(s) \in S /\ Tail(s) \in Seq(S) /\ Head(s) = s[1]
      /\ Len(s) \in Nat \ {0} /\ Len(Tail(s)) = Len(s) - 1
      /\ \A k \in 1..(Len(s) - 1) : Tail(s)[k] = s[k + 1]
  OBVIOUS
<1>2. ASSUME NEW f \in frames(s) PROVE f \in {Head(s)} \cup frames(Tail(s))
  <2>1. PICK k \in 1..Len(s) : f = s[k]
    BY DEF frames
  <2>2. CASE k = 1
    BY <1>1, <2>1, <2>2
  <2>3. CASE k # 1
    <3>1. k - 1 \in 1..Len(Tail(s)) /\ Tail(s)[k - 1] = s[k]
      BY <1>1, <2>1, <2>3
    <3> QED BY <2>1, <3>1 DEF frames
  <2> QED BY <2>2, <2>3
<1>3. frames(Tail(s)) \subseteq frames(s)
  <2>1. \A k \in 1..Len(Tail(s)) : k + 1 \in 1..Len(s) /\ Tail(s)[k] = s[k + 1]
    BY <1>1
  <2> QED BY <2>1 DEF frames
<1>4. Head(s) \in frames(s)
  BY <1>1 DEF frames
<1> QED BY <1>1, <1>2, <1>3, <1>4

LEMMA FramesTyped ==
    ASSUME TypeOK, NEW c \in Sockets
    PROVE  /\ upcoming(c) \subseteq Frame
           /\ \A f \in upcoming(c) : f.seq \in Nat
<1>1. \A f \in Frame : f.seq \in Nat
  BY HubConstants, FS_CardinalityType DEF Frame
<1> QED BY <1>1 DEF TypeOK, upcoming, frames

LEMMA LinkIs ==
    ASSUME DaemonOK, link # None
    PROVE  link \in Sockets /\ link \in dialed /\ owner[link] \in Nodes
  BY HubConstants, WakeupConstants DEF DaemonOK

\* A wake-up is never lost to a full channel: there is one in it.
LEMMA WokenIs == ASSUME DaemonOK PROVE woken \in Nat /\ woken > 0
  BY WakeupConstants DEF woken, DaemonOK

LEMMA DaemonKept ==
    ASSUME DaemonOK, UNCHANGED <<stored, daemonVars, notice>>
    PROVE  DaemonOK'
  BY DEF DaemonOK, daemonVars

LEMMA LinkedKept ==
    ASSUME Linked, DaemonOK, UNCHANGED <<clients, handler, reader, link, ready, dialed>>,
           \A c \in Sockets : conn'[c] = conn[c] \/ handler[c] # "idle",
           \A c \in Sockets : wire'[c] # <<>> => wire[c] # <<>>
                                              \/ handler[c] \in {"pumping", "exited"}
    PROVE  Linked'
  BY DEF Linked, standing

LEMMA NumbersKept ==
    ASSUME NumbersOK, UNCHANGED <<notice, sequence, link, lastSequence>>,
           \A c \in Sockets : upcoming(c)' \subseteq upcoming(c)
    PROVE  NumbersOK'
  BY DEF NumbersOK

LEMMA SameFrames ==
    ASSUME UNCHANGED <<send, wire>>
    PROVE  \A c : upcoming(c)' = upcoming(c)
  BY DEF upcoming, frames

LEMMA CoveredKept ==
    ASSUME Covered, UNCHANGED <<link, ready, lastSequence, wakes, seen, notice>>,
           link # None /\ ready /\ calm' => calm,
           link # None => upcoming(link) \subseteq upcoming(link)'
    PROVE  Covered'
  BY DEF Covered

-----------------------------------------------------------------------------
(* The hub's steps, seen by the daemon. *)

LEMMA registerAwake ==
    ASSUME WInv, NEW c \in Sockets, c \in dialed, Server(register(c))
    PROVE  Awake'
<1> USE DEF WInv, Inv, Awake, Server, register, daemonVars, channelVars
<1>1. c = link /\ link \in Sockets /\ owner[c] \in Nodes
  BY LinkIs, HubConstants DEF Linked
<1>2. DaemonOK'
  BY DaemonKept
<1>3. Linked'
  BY <1>1 DEF Linked, standing, TypeOK
<1>4. NumbersOK'
  BY NumbersKept, SameFrames
<1>5. Covered'
  BY SameFrames, CoveredKept DEF calm
<1> QED BY <1>2, <1>3, <1>4, <1>5

LEMMA RefusedAwake ==
    ASSUME WInv, NEW c \in Sockets, c \in dialed, Server(Refused(c))
    PROVE  Awake'
<1> USE DEF WInv, Inv, Awake, Server, Refused, daemonVars, hubVars
<1>1. c = link /\ link \in Sockets
  BY LinkIs, HubConstants DEF Linked
<1>2. DaemonOK'
  BY DaemonKept
<1>3. Linked'
  BY <1>1 DEF Linked, standing, TypeOK
<1>4. NumbersOK'
  BY NumbersKept, SameFrames
<1>5. Covered'
  <2>1. calm' => calm
    BY <1>1 DEF calm, TypeOK
  <2> QED BY <2>1, SameFrames, CoveredKept
<1> QED BY <1>2, <1>3, <1>4, <1>5

LEMMA ClosePreviousAwake ==
    ASSUME WInv, NEW c \in Sockets, Server(ClosePrevious(c))
    PROVE  Awake'
<1> USE DEF WInv, Inv, Awake, Server, ClosePrevious, daemonVars, hubVars
<1>2. DaemonOK'
  BY DaemonKept
<1>3. Linked'
  <2>1. handler' = [handler EXCEPT ![c] = "handover"] /\ handler[c] = "registered"
    OBVIOUS
  <2>2. \A d \in Sockets : /\ standing(d)' <=> standing(d)
                           /\ handler'[d] = "idle" <=> handler[d] = "idle"
                           /\ handler'[d] \in {"pumping", "exited"} <=>
                                 handler[d] \in {"pumping", "exited"}
    BY <2>1 DEF standing, TypeOK
  <2>3. dialed \subseteq Sockets
    BY WakeupConstants DEF DaemonOK
  <2> QED BY <2>2, <2>3, LinkIs DEF Linked
<1>4. NumbersOK'
  BY NumbersKept, SameFrames
<1>5. Covered'
  <2>1. link # None /\ calm' => calm
    BY LinkIs DEF calm, requestClose
  <2> QED BY <2>1, SameFrames, CoveredKept
<1> QED BY <1>2, <1>3, <1>4, <1>5

LEMMA StartPumpsAwake ==
    ASSUME WInv, NEW c \in Sockets, Server(StartPumps(c))
    PROVE  Awake'
<1> USE DEF WInv, Inv, Awake, Server, StartPumps, daemonVars, hubVars
<1>1. DaemonOK'
  BY DaemonKept
<1>2. Linked'
  <2>1. /\ handler[c] = "handover" /\ reader[c] = "off"
        /\ handler'[c] = "pumping" /\ reader'[c] = "running"
    BY DEF TypeOK, Life
  <2>2. \A d \in Sockets : d # c => handler'[d] = handler[d] /\ reader'[d] = reader[d]
    BY DEF TypeOK
  <2>3. \A d \in Sockets : /\ standing(d)' <=> standing(d)
                           /\ handler'[d] = "idle" <=> handler[d] = "idle"
                           /\ handler[d] \in {"pumping", "exited"} =>
                                 handler'[d] \in {"pumping", "exited"}
    BY <2>1, <2>2 DEF standing
  <2>4. dialed \subseteq Sockets
    BY WakeupConstants DEF DaemonOK
  <2> QED BY <2>3, <2>4, LinkIs DEF Linked
<1>3. \A d \in Sockets : upcoming(d)' \subseteq upcoming(d) \cup {Ready}
                         /\ upcoming(d) \subseteq upcoming(d)'
  <2>1. \A d \in Sockets : d # c => send'[d] = send[d]
    BY DEF TypeOK
  <2>2. frames(send'[c]) = frames(send[c]) \cup {Ready}
    <3>1. send[c] \in Seq(Frame) /\ Ready \in Frame /\ send'[c] = Append(send[c], Ready)
      BY DEF TypeOK, Ready, Frame
    <3> QED BY <3>1, FramesAppend
  <2> QED BY <2>1, <2>2 DEF upcoming
<1>4. NumbersOK'
  <2>1. \A d \in Sockets : Ready.seq <= sequence[d]
    BY DEF Ready, TypeOK
  <2> QED BY <1>3, <2>1 DEF NumbersOK
<1>5. Covered'
  <2>1. link # None /\ ready /\ calm' => calm
    <3>1. link # None /\ ready => link # c
      BY DEF Linked
    <3> QED BY <3>1, LinkIs DEF calm, TypeOK
  <2> QED BY <1>3, <2>1, LinkIs, CoveredKept
<1> QED BY <1>1, <1>2, <1>4, <1>5

LEMMA FailReadyAwake ==
    ASSUME WInv, NEW c \in Sockets, Server(FailReady(c))
    PROVE  Awake'
<1> USE DEF WInv, Inv, Awake, Server, FailReady, daemonVars
<1>0. \A n \in Nodes : clients'[n] = IF clients[n] = c THEN None ELSE clients[n]
  BY RemovedIs
<1>1. DaemonOK'
  BY DaemonKept
<1>2. Linked'
  <2>1. /\ handler[c] = "handover" /\ handler'[c] = "leaving" /\ ~conn'[c]
        /\ \A d \in Sockets : d # c => handler'[d] = handler[d] /\ conn'[d] = conn[d]
    BY DEF TypeOK
  <2>2. dialed \subseteq Sockets
    BY WakeupConstants DEF DaemonOK
  <2>3. link # None /\ standing(link)' => standing(link) /\ link # c
    BY <2>1, LinkIs DEF standing
  <2> QED BY <1>0, <2>1, <2>2, <2>3, LinkIs DEF Linked
<1>3. NumbersOK'
  BY NumbersKept, SameFrames
<1>4. Covered'
  <2>1. link # None /\ calm' => calm
    BY LinkIs DEF calm, TypeOK
  <2> QED BY <2>1, SameFrames, CoveredKept
<1> QED BY <1>1, <1>2, <1>3, <1>4

LEMMA connectionDoneAwake ==
    ASSUME WInv, NEW c \in Sockets, Server(connectionDone(c))
    PROVE  Awake'
<1> USE DEF WInv, Inv, Awake, Server, connectionDone, daemonVars, channelVars
<1>1. DaemonOK'
  BY DaemonKept
<1>2. Linked'
  <2>1. /\ handler[c] # "idle" /\ handler'[c] = "exited"
        /\ \A d \in Sockets : d # c => handler'[d] = handler[d]
    BY DEF TypeOK
  <2>2. dialed \subseteq Sockets
    BY WakeupConstants DEF DaemonOK
  <2>3. link # None /\ standing(link)' => standing(link)
    BY <2>1, LinkIs DEF standing
  <2> QED BY <2>1, <2>2, <2>3, LinkIs DEF Linked
<1>3. NumbersOK'
  BY NumbersKept, SameFrames
<1>4. Covered'
  BY SameFrames, CoveredKept DEF calm
<1> QED BY <1>1, <1>2, <1>3, <1>4

LEMMA ReaderLeavesAwake ==
    ASSUME WInv, NEW c \in Sockets, Server(ReaderLeaves(c))
    PROVE  Awake'
<1> USE DEF WInv, Inv, Awake, Server, ReaderLeaves, daemonVars
<1>0. \A n \in Nodes : clients'[n] = IF clients[n] = c THEN None ELSE clients[n]
  BY RemovedIs
<1>1. DaemonOK'
  BY DaemonKept
<1>2. reader'[c] = "stopping" /\ \A d \in Sockets : d # c => reader'[d] = reader[d]
  BY DEF TypeOK
<1>3. Linked'
  <2>1. link # None /\ standing(link)' => standing(link) /\ link # c
    BY <1>2, LinkIs DEF standing
  <2> QED BY <1>0, <2>1, LinkIs DEF Linked
<1>4. NumbersOK'
  BY NumbersKept, SameFrames
<1>5. Covered'
  <2>1. link # None /\ calm' => calm
    BY <1>2, LinkIs DEF calm, requestClose
  <2> QED BY <2>1, SameFrames, CoveredKept
<1> QED BY <1>1, <1>3, <1>4, <1>5

LEMMA ReaderStopsAwake ==
    ASSUME WInv, NEW c \in Sockets, Server(ReaderStops(c))
    PROVE  Awake'
<1> USE DEF WInv, Inv, Awake, Server, ReaderStops, daemonVars, hubVars
<1>1. DaemonOK'
  BY DaemonKept
<1>2. handler[c] # "idle"
  BY DEF Life
<1>3. Linked'
  <2>1. reader[c] = "stopping" /\ reader'[c] = "stopped"
        /\ \A d \in Sockets : d # c => reader'[d] = reader[d] /\ conn'[d] = conn[d]
    BY DEF TypeOK
  <2>2. \A d \in Sockets : standing(d)' <=> standing(d)
    BY <2>1 DEF standing
  <2> QED BY <1>2, <2>1, <2>2, LinkIs DEF Linked
<1>4. NumbersOK'
  BY NumbersKept, SameFrames
<1>5. Covered'
  <2>1. link # None /\ calm' => calm
    BY LinkIs DEF calm, TypeOK
  <2> QED BY <2>1, SameFrames, CoveredKept
<1> QED BY <1>1, <1>3, <1>4, <1>5

LEMMA WriterSendsAwake ==
    ASSUME WInv, NEW c \in Sockets, Server(WriterSends(c))
    PROVE  Awake'
<1> USE DEF WInv, Inv, Awake, Server, WriterSends, daemonVars, hubVars, socketVars
<1>1. DaemonOK'
  BY DaemonKept
<1>2. \A d \in Sockets : d # c => send'[d] = send[d] /\ wire'[d] = wire[d]
  BY DEF TypeOK
<1>3. Linked'
  <2>1. handler[c] \in {"pumping", "exited"}
    BY DEF Life, TypeOK
  <2> QED BY <1>2, <2>1, LinkedKept
<1>4. \A d \in Sockets : upcoming(d)' = upcoming(d)
  <2>1. /\ frames(send[c]) = {Head(send[c])} \cup frames(Tail(send[c]))
        /\ Head(send[c]) \in Frame
    BY FramesHead DEF TypeOK
  <2>2. frames(Append(wire[c], Head(send[c]))) = frames(wire[c]) \cup {Head(send[c])}
    BY <2>1, FramesAppend DEF TypeOK
  <2>3. send'[c] = Tail(send[c]) /\ wire'[c] = Append(wire[c], Head(send[c]))
    BY DEF TypeOK
  <2> QED BY <1>2, <2>1, <2>2, <2>3 DEF upcoming
<1>5. NumbersOK'
  BY <1>4, NumbersKept DEF NumbersOK
<1>6. Covered'
  BY <1>4, LinkIs, CoveredKept DEF calm
<1> QED BY <1>1, <1>3, <1>5, <1>6

LEMMA WriterStopsAwake ==
    ASSUME WInv, NEW c \in Sockets, Server(WriterStops(c))
    PROVE  Awake'
<1> USE DEF WInv, Inv, Awake, Server, WriterStops, daemonVars, hubVars
<1>1. DaemonOK'
  BY DaemonKept
<1>2. Linked'
  <2>1. handler[c] # "idle"
    BY DEF Life
  <2>2. \A d \in Sockets : d # c => conn'[d] = conn[d]
    BY DEF TypeOK
  <2> QED BY <2>1, <2>2, LinkedKept
<1>3. NumbersOK'
  BY NumbersKept, SameFrames
<1>4. Covered'
  <2>1. link # None /\ calm' => calm
    BY LinkIs DEF calm, TypeOK
  <2> QED BY <2>1, SameFrames, CoveredKept
<1> QED BY <1>1, <1>2, <1>3, <1>4

\* Faults end connections that have begun; the daemon's counters do not move.
LEMMA FaultAwake ==
    ASSUME WInv, Fault
    PROVE  Inv' /\ Awake'
<1> USE DEF WInv, Awake, Fault, daemonVars
<1>1. CASE \E c \in Sockets : ConnectionLost(c)
  <2>1. PICK c \in Sockets : ConnectionLost(c)
    BY <1>1
  <2>2. Inv'
    BY <2>1, ConnectionLostKeeps
  <2> USE <2>1 DEF ConnectionLost, Inv, hubVars, socketVars
  <2>3. DaemonOK'
    BY DaemonKept
  <2>4. Linked'
    <3>1. handler[c] # "idle" /\ \A d \in Sockets : d # c => conn'[d] = conn[d]
      BY DEF TypeOK
    <3> QED BY <3>1, LinkedKept
  <2>5. NumbersOK'
    BY NumbersKept, SameFrames
  <2>6. Covered'
    <3>1. link # None /\ calm' => calm
      BY LinkIs DEF calm, TypeOK
    <3> QED BY <3>1, SameFrames, CoveredKept
  <2> QED BY <2>2, <2>3, <2>4, <2>5, <2>6
<1>2. CASE \E n \in Nodes : DisconnectLooksUp(n)
  <2>1. Inv'
    BY <1>2, DisconnectKeeps
  <2> USE <1>2 DEF DisconnectLooksUp, Inv, hubVars, socketVars, channelVars
  <2>2. DaemonOK' /\ Linked' /\ NumbersOK'
    BY DaemonKept, LinkedKept, NumbersKept, SameFrames
  <2>3. Covered'
    <3>1. link # None /\ calm' => calm
      BY DEF calm
    <3> QED BY <3>1, SameFrames, CoveredKept
  <2> QED BY <2>1, <2>2, <2>3
<1> QED BY <1>1, <1>2

LEMMA DisconnectStopsAwake ==
    ASSUME WInv, Server(DisconnectStops)
    PROVE  Awake'
<1> USE DEF WInv, Inv, Awake, Server, DisconnectStops, daemonVars, hubVars, socketVars
<1>1. DaemonOK' /\ Linked' /\ NumbersOK'
  BY DaemonKept, LinkedKept, NumbersKept, SameFrames
<1>2. Covered'
  <2>1. link # None /\ calm' => calm
    <3>1. CASE evicting = link
      BY <3>1, LinkIs DEF calm, TypeOK
    <3>2. CASE evicting # link
      <4>1. link # None => (done'[link] = done[link])
        BY <3>2, LinkIs DEF TypeOK
      <4>2. link # None => (closeReq[link] => closeReq'[link])
        BY LinkIs DEF requestClose
      <4> QED BY <3>2, <4>1, <4>2 DEF calm
    <3> QED BY <3>1, <3>2
  <2> QED BY <2>1, SameFrames, CoveredKept
<1> QED BY <1>1, <1>2

-----------------------------------------------------------------------------
(* The sender's handler. *)

LEMMA PostSignalAwake ==
    ASSUME WInv, NEW i \in Notices, PostSignal(i)
    PROVE  Inv' /\ Awake'
<1> USE DEF WInv, Awake, PostSignal, daemonVars
<1>1. Inv'
  <2>1. UNCHANGED vars
    OBVIOUS
  <2> QED BY <2>1, UnchangedKeeps
<1> USE DEF vars, hubVars, socketVars, channelVars
<1>2. DaemonOK'
  BY DEF DaemonOK
<1>3. Linked' /\ NumbersOK'
  BY LinkedKept, NumbersKept, SameFrames
<1>4. Covered'
  BY SameFrames, CoveredKept DEF calm
<1> QED BY <1>1, <1>2, <1>3, <1>4

\* A calm connection is the one a call finds.
LEMMA NotifyLooksUpAwake ==
    ASSUME WInv, NEW i \in Notices, NEW n \in receiver, Notified(i, n)
    PROVE  Awake'
<1> USE DEF WInv, Awake, Notified, NotifyLooksUp, daemonVars
<1> DEFINE a == IF clients[n] = None THEN Call("returned", n, None, 0)
                                     ELSE Call("found", n, clients[n], 0)
<1>1. notice' = [notice EXCEPT ![i] = a]
  OBVIOUS
<1>2. a.client = clients[n] /\ a.seq = 0 /\ (clients[n] # None => a.step = "found")
  BY DEF Call
<1> HIDE DEF a
<1>3. notice'[i] = a /\ \A j \in Notices : j # i => notice'[j] = notice[j]
  BY <1>1 DEF Inv, CallsOK
<1> USE DEF hubVars, socketVars, channelVars
<1>4. DaemonOK'
  BY <1>3 DEF DaemonOK
<1>5. Linked'
  BY LinkedKept
<1>6. NumbersOK'
  <2>1. ASSUME NEW j \in Notices, notice'[j].client \in Sockets
        PROVE  notice'[j].seq <= sequence[notice'[j].client]
    <3>1. CASE j = i
      BY <1>2, <1>3, <2>1, <3>1 DEF Inv, TypeOK
    <3>2. CASE j # i
      BY <1>3, <2>1, <3>2 DEF NumbersOK
    <3> QED BY <3>1, <3>2
  <2> QED BY <2>1, SameFrames DEF NumbersOK
<1>7. Covered'
  <2>1. SUFFICES ASSUME link # None, ready, calm, wakes = 0
                 PROVE  notice'[i].client = link /\ notice'[i].step = "found"
    BY <1>3, SameFrames DEF Covered, calm
  <2>2. n = owner[link]
    <3>1. PICK d \in Dialable : n = owner[d]
      BY DEF receiver
    <3> QED BY <2>1, <3>1, WakeupConstants DEF DaemonOK
  <2>3. standing(link)
    <3>1. handler[link] = "pumping"
      BY <2>1, LinkIs DEF calm, Linked, Inv, Life
    <3> QED BY <2>1, <3>1 DEF standing, calm
  <2>4. clients[n] = link
    BY <2>1, <2>2, <2>3 DEF Linked
  <2> QED BY <1>2, <1>3, <2>1, <2>4
<1> QED BY <1>4, <1>5, <1>6, <1>7

LEMMA NotifyNumbersAwake ==
    ASSUME WInv, NEW i \in Notices, Server(NotifyNumbers(i))
    PROVE  Awake'
<1> USE DEF WInv, Awake, Server, NotifyNumbers, daemonVars, hubVars, socketVars
<1>1. PICK c \in Sockets : c = notice[i].client /\ notice[i].step = "found"
  BY DEF Inv, CallsOK
<1>2. /\ notice'[i].client = c /\ notice'[i].seq = sequence[c] + 1
      /\ notice'[i].step \in {"open", "unsent"}
      /\ \A j \in Notices : j # i => notice'[j] = notice[j]
  BY <1>1 DEF Inv, CallsOK, Calls
<1>3. /\ sequence'[c] = sequence[c] + 1 /\ sequence[c] \in Nat
      /\ \A d \in Sockets : sequence[d] <= sequence'[d] /\ sequence[d] \in Nat
                            /\ sequence'[d] \in Nat
  BY <1>1 DEF Inv, TypeOK
<1>4. DaemonOK'
  BY <1>1, <1>2 DEF DaemonOK
<1>5. Linked'
  BY LinkedKept
<1>6. NumbersOK'
  <2>1. ASSUME NEW d \in Sockets, NEW f \in upcoming(d)' PROVE f.seq <= sequence'[d]
    <3>1. f \in upcoming(d)
      BY SameFrames
    <3>2. f.seq \in Nat
      BY <3>1, FramesTyped DEF Inv
    <3>3. f.seq <= sequence[d]
      BY <3>1 DEF NumbersOK
    <3> QED BY <1>3, <3>2, <3>3
  <2>2. ASSUME NEW j \in Notices, notice'[j].client \in Sockets
        PROVE  notice'[j].seq <= sequence'[notice'[j].client]
    <3>1. CASE j = i
      BY <1>2, <1>3, <3>1
    <3>2. CASE j # i
      <4>1. notice'[j] = notice[j] /\ notice[j].seq \in Nat
        BY <1>2, <3>2, HubConstants, FS_CardinalityType DEF Inv, CallsOK, Calls
      <4>2. notice[j].seq <= sequence[notice[j].client]
        BY <2>2, <4>1 DEF NumbersOK
      <4> QED BY <1>3, <2>2, <4>1, <4>2
    <3> QED BY <3>1, <3>2
  <2>3. link # None => lastSequence <= sequence'[link]
    BY <1>3, LinkIs DEF NumbersOK, DaemonOK
  <2> QED BY <2>1, <2>2, <2>3 DEF NumbersOK
<1>7. Covered'
  <2>1. ASSUME link # None, ready, calm, wakes = 0, i \notin seen
        PROVE  c = link /\ notice'[i].seq > lastSequence
    <3>1. c = link
      BY <1>1, <2>1 DEF Covered
    <3>2. lastSequence <= sequence[c] /\ lastSequence \in Nat
      BY <2>1, <3>1 DEF NumbersOK, DaemonOK
    <3> QED BY <1>2, <1>3, <3>1, <3>2
  <2>2. calm' <=> calm
    BY DEF calm
  <2>3. upcoming(link)' = upcoming(link)
    BY SameFrames
  <2>4. notice'[i].step # "returned"
    BY <1>2
  <2>5. UNCHANGED <<link, ready, wakes, seen, lastSequence>>
    OBVIOUS
  <2> HIDE DEF Server, NotifyNumbers
  <2> QED BY <1>2, <2>1, <2>2, <2>3, <2>4, <2>5 DEF Covered
<1> QED BY <1>4, <1>5, <1>6, <1>7

LEMMA NotifyEnqueuesAwake ==
    ASSUME WInv, NEW i \in Notices, Server(NotifyEnqueues(i))
    PROVE  Awake'
<1> USE DEF WInv, Awake, Server, NotifyEnqueues, daemonVars, hubVars, socketVars
<1>1. PICK c \in Sockets : c = notice[i].client /\ notice[i].step = "open"
  BY DEF Inv, CallsOK
<1> DEFINE x == SignalsAvailable(notice[i].seq)
<1>2. /\ notice'[i].client = c /\ notice'[i].seq = notice[i].seq
      /\ notice'[i].step \in {"returned", "unsent"}
      /\ \A j \in Notices : j # i => notice'[j] = notice[j]
  BY <1>1 DEF Inv, CallsOK, Calls
<1>3. x.seq = notice[i].seq /\ x \in Frame
  <2>1. notice[i].seq \in 1..Cardinality(Notices)
    BY <1>1, HubConstants, FS_CardinalityType DEF Inv, CallsOK, Calls
  <2> QED BY <2>1 DEF SignalsAvailable, Frame
<1> HIDE DEF x
<1>4. /\ \A d \in Sockets : d # c => upcoming(d)' = upcoming(d)
      /\ upcoming(c)' = upcoming(c) \/ upcoming(c)' = upcoming(c) \cup {x}
      /\ notice'[i].step = "returned" => x \in upcoming(c)'
  <2>1. CASE /\ send' = [send EXCEPT ![c] = Append(@, x)]
             /\ notice' = [notice EXCEPT ![i].step = "returned"]
    <3>1. frames(Append(send[c], x)) = frames(send[c]) \cup {x}
      BY <1>3, FramesAppend DEF Inv, TypeOK
    <3>2. send'[c] = Append(send[c], x) /\ \A d \in Sockets : d # c => send'[d] = send[d]
      BY <2>1 DEF Inv, TypeOK
    <3> QED BY <3>1, <3>2 DEF upcoming
  <2>2. CASE UNCHANGED send /\ notice' = [notice EXCEPT ![i].step = "unsent"]
    <3>1. notice'[i].step = "unsent"
      BY <2>2 DEF Inv, CallsOK, Calls
    <3> QED BY <2>2, <3>1, SameFrames
  <2> QED BY <1>1, <2>1, <2>2 DEF x
<1>5. DaemonOK'
  BY <1>1, <1>2 DEF DaemonOK
<1>6. Linked'
  BY LinkedKept
<1>7. notice[i].seq <= sequence[c]
  BY <1>1 DEF NumbersOK
<1>8. NumbersOK'
  BY <1>1, <1>2, <1>3, <1>4, <1>7 DEF NumbersOK
<1>9. Covered'
  <2>1. SUFFICES ASSUME link # None, ready, calm, wakes = 0, i \notin seen
                 PROVE  /\ c = link /\ notice[i].seq > lastSequence
                        /\ notice'[i].step = "returned" => x \in upcoming(link)'
    <3>1. link # None => upcoming(link) \subseteq upcoming(link)'
      BY <1>4, LinkIs
    <3> QED BY <1>2, <1>3, <3>1 DEF Covered, calm
  <2> QED BY <1>1, <1>4, <2>1 DEF Covered
<1> QED BY <1>5, <1>6, <1>8, <1>9

\* A call that found no room has the connection closed, so it is not calm.
LEMMA NotifyGivesUpAwake ==
    ASSUME WInv, NEW i \in Notices, Server(NotifyGivesUp(i))
    PROVE  Awake'
<1> USE DEF WInv, Awake, Server, NotifyGivesUp, daemonVars, hubVars, socketVars
<1>1. PICK c \in Sockets : c = notice[i].client /\ notice[i].step = "unsent"
  BY DEF Inv, CallsOK
<1>2. /\ notice'[i].client = c /\ notice'[i].seq = notice[i].seq
      /\ notice'[i].step = "returned"
      /\ \A j \in Notices : j # i => notice'[j] = notice[j]
  BY <1>1 DEF Inv, CallsOK, Calls
<1>3. DaemonOK'
  BY <1>1, <1>2 DEF DaemonOK
<1>4. Linked'
  BY LinkedKept
<1>5. NumbersOK'
  BY <1>1, <1>2, SameFrames DEF NumbersOK
<1>6. closeReq'[c] /\ \A d \in Sockets : closeReq[d] => closeReq'[d]
  BY <1>1 DEF requestClose
<1>7. Covered'
  <2>1. link # None /\ calm' => calm /\ c # link
    BY <1>6, LinkIs DEF calm
  <2>2. SUFFICES ASSUME link # None, ready, calm', wakes = 0 PROVE i \in seen
    BY <1>2, <2>1, SameFrames DEF Covered
  <2> QED BY <1>1, <2>1, <2>2 DEF Covered
<1> QED BY <1>3, <1>4, <1>5, <1>7

-----------------------------------------------------------------------------
(* The daemon. *)

LEMMA DialKeeps ==
    ASSUME WInv, NEW c \in Sockets, Dial(c)
    PROVE  Inv' /\ Awake'
<1> USE DEF WInv, Awake, Dial
<1>1. Inv'
  BY UnchangedKeeps
<1> USE DEF vars, hubVars, socketVars, channelVars
<1>2. DaemonOK'
  BY DEF DaemonOK
<1>3. Linked'
  <2>1. link \notin dialed
    BY HubConstants, WakeupConstants DEF DaemonOK
  <2> QED BY <2>1 DEF Linked, standing
<1>4. NumbersOK'
  BY SameFrames DEF NumbersOK, Inv, TypeOK
<1>5. Covered'
  BY DEF Covered
<1> QED BY <1>1, <1>2, <1>3, <1>4, <1>5

LEMMA LinkDownKeeps ==
    ASSUME WInv, LinkDown
    PROVE  Inv' /\ Awake'
<1> USE DEF WInv, Awake, LinkDown
<1>1. Inv'
  BY UnchangedKeeps
<1> USE DEF vars, hubVars, socketVars, channelVars
<1>2. DaemonOK'
  BY DEF DaemonOK
<1>3. Linked'
  BY LinkIs DEF Linked, standing
<1>4. NumbersOK'
  BY SameFrames DEF NumbersOK
<1>5. Covered'
  BY DEF Covered
<1> QED BY <1>1, <1>2, <1>3, <1>4, <1>5

\* A poll reads every row that is stored.
LEMMA PollOnWakeKeeps ==
    ASSUME WInv, PollOnWake
    PROVE  Inv' /\ Awake'
<1> USE DEF WInv, Awake, PollOnWake
<1>1. Inv'
  BY UnchangedKeeps
<1> USE DEF vars, hubVars, socketVars, channelVars
<1>2. DaemonOK'
  BY DEF DaemonOK
<1>3. Linked' /\ NumbersOK'
  BY LinkedKept, NumbersKept, SameFrames
<1>4. Covered'
  BY DEF Covered, DaemonOK
<1> QED BY <1>1, <1>2, <1>3, <1>4

LEMMA FrameTaken ==
    ASSUME WInv, unreadFrame, takeFrame, hubUnchangedButWire, UNCHANGED link
    PROVE  /\ Inv'
           /\ frame \in Frame /\ frame \in upcoming(link)
           /\ upcoming(link) = upcoming(link)' \cup {frame}
           /\ \A c \in Sockets : upcoming(c)' \subseteq upcoming(c)
           /\ \A c \in Sockets : wire'[c] # <<>> => wire[c] # <<>>
           /\ UNCHANGED hubVars /\ UNCHANGED socketVars
           /\ UNCHANGED <<done, closeReq, sequence, conn, notice, evicting, latest>>
<1> USE DEF WInv, Awake, unreadFrame, takeFrame, hubUnchangedButWire, frame
<1>1. link \in Sockets /\ wire[link] \in Seq(Frame) /\ wire[link] # <<>>
  BY LinkIs DEF Inv, TypeOK
<1>2. /\ Head(wire[link]) \in Frame /\ Tail(wire[link]) \in Seq(Frame)
      /\ frames(wire[link]) = {Head(wire[link])} \cup frames(Tail(wire[link]))
  BY <1>1, FramesHead
<1>3. /\ wire'[link] = Tail(wire[link])
      /\ \A c \in Sockets : c # link => wire'[c] = wire[c]
      /\ wire' \in [Sockets -> Seq(Frame)]
  BY <1>1, <1>2 DEF Inv, TypeOK
<1>4. Inv'
  <2>1. TypeOK'
    BY <1>3 DEF Inv, TypeOK, hubVars, socketVars
  <2>2. CallsOK' /\ Numbered'
    BY CallsKept DEF Inv
  <2> QED BY <2>1, <2>2, HubKept DEF Inv
<1>5. \A c \in Sockets : c # link => upcoming(c)' = upcoming(c)
  BY <1>3 DEF upcoming
<1>6. frames(send[link]) \cup frames(wire'[link]) \cup {frame} = upcoming(link)
  BY <1>2, <1>3 DEF upcoming
<1>7. \A c \in Sockets : c = link => upcoming(c)' = frames(send[c]) \cup frames(wire'[c])
  BY DEF upcoming
<1>8. \A c \in Sockets : upcoming(c)' \subseteq upcoming(c)
  BY <1>5, <1>6, <1>7
<1>9. frame \in Frame /\ \A c \in Sockets : wire'[c] # <<>> => wire[c] # <<>>
  BY <1>1, <1>2, <1>3
<1>10. upcoming(link) = upcoming(link)' \cup {frame} /\ frame \in upcoming(link)
  BY <1>1, <1>6, <1>7
<1> QED BY <1>4, <1>8, <1>9, <1>10

LEMMA ReadReadyKeeps ==
    ASSUME WInv, ReadReady
    PROVE  Inv' /\ Awake'
<1> USE DEF WInv, Awake, ReadReady
<1>1. /\ Inv' /\ \A c \in Sockets : upcoming(c)' \subseteq upcoming(c)
      /\ \A c \in Sockets : wire'[c] # <<>> => wire[c] # <<>>
      /\ UNCHANGED hubVars /\ UNCHANGED socketVars
      /\ UNCHANGED <<done, closeReq, sequence, conn, notice, evicting, latest>>
  BY FrameTaken
<1>2. wakes' \in Nat /\ wakes' > 0
  BY WokenIs
<1>3. DaemonOK'
  BY <1>1, <1>2 DEF DaemonOK
<1>4. Linked'
  BY <1>1, LinkIs DEF Linked, standing, unreadFrame, hubVars, socketVars
<1>5. NumbersOK'
  BY <1>1, NumbersKept
<1>6. Covered'
  BY <1>2 DEF Covered
<1> QED BY <1>1, <1>3, <1>4, <1>5, <1>6

\* A number that was overtaken was stored before the one that overtook it was
\* read, and that one left a wake-up.
LEMMA ReadWakeupKeeps ==
    ASSUME WInv, ReadWakeup
    PROVE  Inv' /\ Awake'
<1> USE DEF WInv, Awake, ReadWakeup
<1>1. /\ Inv' /\ \A c \in Sockets : upcoming(c)' \subseteq upcoming(c)
      /\ \A c \in Sockets : wire'[c] # <<>> => wire[c] # <<>>
      /\ UNCHANGED hubVars /\ UNCHANGED socketVars
      /\ UNCHANGED <<done, closeReq, sequence, conn, notice, evicting, latest>>
  BY FrameTaken
<1>2. frame \in upcoming(link) /\ upcoming(link) = upcoming(link)' \cup {frame}
  BY FrameTaken
<1>3. link \in Sockets /\ frame.seq \in Nat
  BY <1>2, LinkIs, FramesTyped DEF unreadFrame, Inv
<1>4. wakes' \in Nat /\ lastSequence' \in Nat
  BY <1>3, WokenIs DEF DaemonOK
<1>5. DaemonOK'
  BY <1>1, <1>4 DEF DaemonOK
<1>6. Linked'
  BY <1>1, LinkedKept DEF hubVars, socketVars
<1>7. NumbersOK'
  <2>1. lastSequence' <= sequence[link]
    BY <1>2, <1>3 DEF NumbersOK, unreadFrame
  <2> QED BY <1>1, <2>1 DEF NumbersOK
<1>8. Covered'
  <2>1. CASE frame.seq > lastSequence
    BY <2>1, WokenIs DEF Covered
  <2>2. CASE ~(frame.seq > lastSequence)
    <3>1. \A f \in upcoming(link) : f.seq > lastSequence => f \in upcoming(link)'
      BY <1>2, <2>2
    <3>2. UNCHANGED <<link, ready, lastSequence, wakes, seen, notice>>
      BY <1>1, <2>2
    <3>3. calm' <=> calm
      BY <1>1, <3>2 DEF calm, socketVars
    <3> QED BY <3>1, <3>2, <3>3 DEF Covered
  <2> QED BY <2>1, <2>2
<1> QED BY <1>1, <1>5, <1>6, <1>7, <1>8

LEMMA ReadUnexpectedKeeps ==
    ASSUME WInv, ReadUnexpected
    PROVE  Inv' /\ Awake'
<1> USE DEF WInv, Awake, ReadUnexpected, hubVars, socketVars
<1>1. link \in Sockets /\ handler[link] \in {"pumping", "exited"}
  BY LinkIs DEF unreadFrame, Linked
<1>2. Inv'
  <2>1. TypeOK'
    BY DEF Inv, TypeOK
  <2>2. CallsOK' /\ Numbered'
    BY CallsKept DEF Inv
  <2> QED BY <2>1, <2>2, HubKept DEF Inv
<1>3. DaemonOK'
  BY DEF DaemonOK
<1>4. Linked'
  <2>1. \A c \in Sockets : c # link => conn'[c] = conn[c]
    BY DEF Inv, TypeOK
  <2> QED BY <1>1, <2>1 DEF Linked, standing
<1>5. NumbersOK'
  BY SameFrames DEF NumbersOK
<1>6. Covered'
  BY DEF Covered
<1> QED BY <1>2, <1>3, <1>4, <1>5, <1>6

-----------------------------------------------------------------------------
LEMMA WakeupInitKeeps == WakeupInit => WInv
<1> SUFFICES ASSUME WakeupInit PROVE Inv /\ Awake
  BY DEF WInv
<1> USE DEF WakeupInit
<1>1. Inv
  BY InitKeeps
<1> USE DEF HubInit
<1>2. DaemonOK
  BY DEF DaemonOK
<1>3. Linked
  BY DEF Linked
<1>4. NumbersOK
  <2>1. \A c \in Sockets : upcoming(c) = {}
    BY DEF upcoming, frames
  <2>2. \A i \in Notices : notice[i].client \notin Sockets
    BY HubConstants
  <2> QED BY <2>1, <2>2 DEF NumbersOK
<1>5. Covered
  BY DEF Covered
<1> QED BY <1>1, <1>2, <1>3, <1>4, <1>5 DEF Awake

LEMMA WakeupStepKeeps == WInv /\ [WakeupNext]_wvars => WInv'
<1> SUFFICES ASSUME WInv, [WakeupNext]_wvars PROVE Inv' /\ Awake'
  BY DEF WInv
<1>1. ASSUME NEW i \in Notices,
             PostSignal(i) \/ Server(NotifyStep(i)) \/ \E n \in receiver : Notified(i, n)
      PROVE  Inv' /\ Awake'
  <2>1. CASE PostSignal(i)
    BY <2>1, PostSignalAwake
  <2>2. CASE Server(NotifyStep(i))
    <3>1. Inv'
      BY <2>2, NotifyNumbersKeeps, NotifyEnqueuesKeeps, NotifyGivesUpKeeps
         DEF Server, NotifyStep, WInv
    <3>2. Awake'
      BY <2>2, NotifyNumbersAwake, NotifyEnqueuesAwake, NotifyGivesUpAwake DEF Server, NotifyStep
    <3> QED BY <3>1, <3>2
  <2>3. CASE \E n \in receiver : Notified(i, n)
    <3>1. receiver \subseteq Nodes
      BY HubConstants, WakeupConstants DEF receiver
    <3> QED BY <2>3, <3>1, NotifyLooksUpKeeps, NotifyLooksUpAwake DEF Notified, WInv
  <2> QED BY <1>1, <2>1, <2>2, <2>3
<1>2. ASSUME NEW c \in Sockets, Dial(c) \/ Registers(c) \/ Server(SocketStep(c))
      PROVE  Inv' /\ Awake'
  <2>1. CASE Dial(c)
    BY <2>1, DialKeeps
  <2>2. CASE Registers(c)
    BY <2>2, registerKeeps, RefusedKeeps, registerAwake, RefusedAwake DEF Registers, Server, WInv
  <2>3. CASE Server(SocketStep(c))
    <3>1. Inv'
      BY <2>3, ClosePreviousKeeps, StartPumpsKeeps, FailReadyKeeps, connectionDoneKeeps,
         ReaderLeavesKeeps, ReaderStopsKeeps, WriterSendsKeeps, WriterStopsKeeps
         DEF Server, SocketStep, WInv
    <3>2. Awake'
      BY <2>3, ClosePreviousAwake, StartPumpsAwake, FailReadyAwake, connectionDoneAwake,
         ReaderLeavesAwake, ReaderStopsAwake, WriterSendsAwake, WriterStopsAwake
         DEF Server, SocketStep
    <3> QED BY <3>1, <3>2
  <2> QED BY <1>2, <2>1, <2>2, <2>3
<1>3. CASE Server(DisconnectStops)
  BY <1>3, DisconnectKeeps, DisconnectStopsAwake DEF Server, WInv
<1>4. CASE Reads
  BY <1>4, ReadReadyKeeps, ReadWakeupKeeps, ReadUnexpectedKeeps, LinkDownKeeps DEF Reads
<1>5. CASE UNCHANGED wvars
  <2> USE <1>5 DEF wvars, WInv, Awake, daemonVars
  <2>1. Inv'
    BY UnchangedKeeps
  <2> USE DEF vars, hubVars, socketVars, channelVars
  <2>2. DaemonOK' /\ Linked' /\ NumbersOK'
    BY DaemonKept, LinkedKept, NumbersKept, SameFrames
  <2>3. Covered'
    BY CoveredKept, SameFrames DEF calm
  <2> QED BY <2>1, <2>2, <2>3
<1> QED BY <1>1, <1>2, <1>3, <1>4, <1>5, PollOnWakeKeeps, FaultAwake DEF WakeupNext

LEMMA WakeupInvariance == WakeupSpec => [](WInv)
  BY WakeupInitKeeps, WakeupStepKeeps, PTL DEF WakeupSpec

LEMMA CoveredIsEnough == WInv => WakeupsCovered
<1> SUFFICES ASSUME WInv, settled, NEW i \in stored, notice[i].step = "returned" PROVE i \in seen
  BY DEF WakeupsCovered
<1>1. i \in Notices /\ calm
  BY DEF WInv, Awake, DaemonOK, settled, calm
<1>2. upcoming(link) = {}
  BY DEF settled, upcoming, frames
<1> QED BY <1>1, <1>2 DEF WInv, Awake, Covered, settled

-----------------------------------------------------------------------------
(***************************************************************************)
(* The long poll.  From the moment a poll found nothing until it is woken, *)
(* and as long as the notifier's version is the one it read, whatever is   *)
(* deliverable has a sender that is still to notify, or became so by the   *)
(* end of a lease (Sleeps).  Every number a sender took is either still to *)
(* be notified or has moved the version by one, which bounds it.           *)
(***************************************************************************)

posted == {k \in [from : Senders, to : {node}, seq : 1..MaxSeq] : k.seq <= seqs[k.from][node]}

QueueOK ==
    /\ LP!QueueTypeOK
    /\ \A r \in queue : r.seq <= seqs[r.from][r.to]

NotifierOK ==
    /\ unnotified \subseteq posted
    /\ version = Cardinality(posted \ unnotified)

RequestsOK ==
    /\ poll \in [Polls -> [step : {"idle", "reading", "listing", "waiting", "parked", "answered"},
                           version : Nat, past : BOOLEAN]]
    /\ \A p \in Polls : poll[p].version <= version

Sleeps ==
    \A p \in Polls : poll[p].step \in {"waiting", "parked"} /\ version = poll[p].version =>
       \A r \in LP!free : LP!id(r) \in unnotified \cup refreed

PollInv == QueueOK /\ NotifierOK /\ RequestsOK /\ Sleeps

LEMMA PostedIsFinite ==
    /\ IsFiniteSet(posted)
    /\ Cardinality(posted) <= Cardinality(Senders) * MaxSeq
<1> DEFINE f == [k \in posted |-> <<k.from, k.seq>>]
<1>1. IsFiniteSet(1..MaxSeq) /\ Cardinality(1..MaxSeq) = MaxSeq
  BY PollConstants, FS_Interval
<1>2. /\ IsFiniteSet(Senders \X (1..MaxSeq))
      /\ Cardinality(Senders \X (1..MaxSeq)) = Cardinality(Senders) * MaxSeq
  BY <1>1, PollConstants, FS_Product
<1>3. f \in Injection(posted, Senders \X (1..MaxSeq))
  <2>1. f \in [posted -> Senders \X (1..MaxSeq)]
    BY DEF posted
  <2>2. ASSUME NEW a \in posted, NEW b \in posted, f[a] = f[b] PROVE a = b
    BY <2>2 DEF posted
  <2> QED BY <2>1, <2>2 DEF Injection, IsInjective
<1> QED BY <1>2, <1>3, FS_Injection

LEMMA PollCardinality == ASSUME NEW S PROVE LP!Cardinality(S) = Cardinality(S)
<1>1. \A T : LP!IsFiniteSet(T) = IsFiniteSet(T)
  BY DEF IsFiniteSet, LP!IsFiniteSet
<1> QED BY <1>1, Zenon DEF Cardinality, LP!Cardinality

LEMMA PostKeeps ==
    ASSUME PollInv, NEW s \in Senders, LP!Post(s)
    PROVE  PollInv'
<1> DEFINE new == [from |-> s, to |-> node, seq |-> seqs[s][node] + 1,
                   token |-> 0, expired |-> FALSE]
           k == [from |-> s, to |-> node, seq |-> seqs[s][node] + 1]
<1>1. /\ node \in 1..MaxNodes /\ seqs[s][node] \in 0..MaxSeq /\ seqs[s][node] < MaxSeq
      /\ seqs' = [seqs EXCEPT ![s][node] = seqs[s][node] + 1]
      /\ queue' = LP!live \cup {new}
      /\ unnotified' = unnotified \cup {LP!id(r) : r \in queue' \ queue}
      /\ UNCHANGED <<node, nodes, polls, expiredThrough, version, poll, refreed>>
  BY DEF LP!Post, LP!CreateSignal, PollInv, QueueOK, LP!QueueTypeOK, LP!NodeIds
<1>2. new \in LP!Row /\ LP!id(new) = k /\ new.seq = seqs[s][node] + 1
      /\ new.from = s /\ new.to = node /\ ~new.expired
  BY <1>1, PollConstants DEF LP!Row, LP!NodeIds, LP!id
<1>3. /\ seqs' \in [Senders -> [LP!NodeIds -> 0..MaxSeq]]
      /\ seqs'[s][node] = seqs[s][node] + 1
      /\ \A t \in Senders, n \in LP!NodeIds :
            seqs[t][n] \in Nat /\ seqs'[t][n] \in Nat /\ seqs[t][n] <= seqs'[t][n]
      /\ \A t \in Senders : t # s => seqs'[t][node] = seqs[t][node]
  <2>1. seqs \in [Senders -> [LP!NodeIds -> 0..MaxSeq]] /\ node \in LP!NodeIds
    BY <1>1 DEF PollInv, QueueOK, LP!QueueTypeOK, LP!NodeIds
  <2>2. seqs[s][node] + 1 \in 0..MaxSeq
    BY <1>1, PollConstants
  <2>3. seqs' = [seqs EXCEPT ![s] = [seqs[s] EXCEPT ![node] = seqs[s][node] + 1]]
    BY <1>1, <2>1
  <2>4. [seqs[s] EXCEPT ![node] = seqs[s][node] + 1] \in [LP!NodeIds -> 0..MaxSeq]
    BY <2>1, <2>2
  <2>5. \A t \in Senders : t # s => seqs'[t] = seqs[t]
    BY <2>1, <2>3
  <2>6. seqs'[s] = [seqs[s] EXCEPT ![node] = seqs[s][node] + 1]
    BY <2>1, <2>3
  <2>7. \A n \in LP!NodeIds : seqs'[s][n] = IF n = node THEN seqs[s][node] + 1 ELSE seqs[s][n]
    BY <2>1, <2>6
  <2>8. seqs' \in [Senders -> [LP!NodeIds -> 0..MaxSeq]]
    BY <2>1, <2>3, <2>4
  <2>9. \A t \in Senders, n \in LP!NodeIds : seqs[t][n] \in Nat /\ seqs'[t][n] \in Nat
    BY <2>1, <2>8
  <2>10. \A n \in LP!NodeIds : seqs[s][n] <= seqs'[s][n]
    BY <2>7, <2>9
  <2> QED BY <2>1, <2>5, <2>7, <2>8, <2>9, <2>10
<1>4. new \notin queue
  BY <1>1, <1>2 DEF PollInv, QueueOK
<1>5. unnotified' = unnotified \cup {k}
  <2>1. queue' \ queue = {new}
    BY <1>1, <1>4 DEF LP!live
  <2> HIDE DEF new, k
  <2>2. {LP!id(r) : r \in {new}} = {LP!id(new)}
    OBVIOUS
  <2> QED BY <1>1, <1>2, <2>1, <2>2
<1> HIDE DEF new
<1>6. posted' = posted \cup {k} /\ k \notin posted /\ k.from = s /\ k.seq = seqs[s][node] + 1
  <2>1. k \in [from : Senders, to : {node}, seq : 1..MaxSeq]
    BY <1>1, PollConstants
  <2>2. ASSUME NEW j \in [from : Senders, to : {node}, seq : 1..MaxSeq]
        PROVE  j.seq <= seqs'[j.from][node] <=> j.seq <= seqs[j.from][node] \/ j = k
    <3>1. CASE j.from # s
      BY <1>3, <3>1
    <3>2. CASE j.from = s
      <4>1. j = k <=> j.seq = seqs[s][node] + 1
        BY <3>2
      <4> QED BY <1>1, <1>3, <3>2, <4>1
    <3> QED BY <3>1, <3>2
  <2>3. ~(k.seq <= seqs[k.from][node])
    BY <1>1
  <2> QED BY <1>1, <2>1, <2>2, <2>3 DEF posted
<1>7. QueueOK'
  <2>1. queue' \subseteq LP!Row
    BY <1>1, <1>2 DEF PollInv, QueueOK, LP!QueueTypeOK, LP!live
  <2>2. LP!QueueTypeOK'
    BY <1>1, <1>3, <2>1 DEF PollInv, QueueOK, LP!QueueTypeOK
  <2>3. ASSUME NEW r \in LP!live PROVE r.seq <= seqs'[r.from][r.to]
    <3>1. r \in queue /\ r.from \in Senders /\ r.to \in LP!NodeIds /\ r.seq \in Nat
      BY DEF PollInv, QueueOK, LP!QueueTypeOK, LP!live, LP!Row
    <3>2. r.seq <= seqs[r.from][r.to]
      BY <3>1 DEF PollInv, QueueOK
    <3> QED BY <1>3, <3>1, <3>2
  <2>4. new.seq <= seqs'[new.from][new.to]
    BY <1>1, <1>2, <1>3
  <2> QED BY <1>1, <2>2, <2>3, <2>4 DEF QueueOK
<1>8. NotifierOK'
  <2>1. posted' \ unnotified' = posted \ unnotified
    BY <1>5, <1>6
  <2> QED BY <1>1, <1>5, <1>6, <2>1 DEF PollInv, NotifierOK
<1>9. RequestsOK'
  BY <1>1 DEF PollInv, RequestsOK
<1>10. Sleeps'
  <2>1. ASSUME NEW r \in LP!free' PROVE r \in LP!free \/ LP!id(r) = k
    <3>1. r \in queue' /\ ~r.expired
      BY DEF LP!free, LP!live
    <3>2. CASE r = new
      BY <1>2, <3>2
    <3>3. CASE r # new
      <4>1. r \in LP!live /\ LP!live \subseteq LP!live'
        BY <1>1, <3>1, <3>3 DEF LP!live
      <4> QED BY <1>1, <4>1 DEF LP!free, LP!leased
    <3> QED BY <3>2, <3>3
  <2> QED BY <1>1, <1>5, <2>1 DEF PollInv, Sleeps, LP!id
<1> QED BY <1>7, <1>8, <1>9, <1>10 DEF PollInv

\* Every poll that read an earlier version is awake now.
LEMMA notifyKeeps ==
    ASSUME PollInv, NEW k \in unnotified, LP!notify(k)
    PROVE  PollInv'
<1> USE DEF PollInv, LP!notify, LP!queueVars
<1>1. QueueOK'
  BY DEF QueueOK, LP!QueueTypeOK
<1>2. posted' = posted
  BY DEF posted
<1>3. /\ IsFiniteSet(posted \ unnotified) /\ k \notin posted \ unnotified
      /\ posted' \ unnotified' = (posted \ unnotified) \cup {k}
  BY <1>2, PostedIsFinite, FS_Subset DEF NotifierOK
<1>4. Cardinality(posted' \ unnotified') = version + 1 /\ version \in Nat
  BY <1>3, FS_AddElement, FS_CardinalityType DEF NotifierOK
<1>5. NotifierOK'
  BY <1>2, <1>4 DEF NotifierOK
<1>6. RequestsOK' /\ \A p \in Polls : poll[p].version # version'
  BY <1>4 DEF RequestsOK
<1>7. Sleeps'
  BY <1>6 DEF Sleeps
<1> QED BY <1>1, <1>5, <1>6, <1>7

LEMMA SleepersIn ==
    ASSUME PollInv, UNCHANGED <<queue, seqs, node, nodes, polls, expiredThrough, version,
                                unnotified, refreed>>,
           RequestsOK',
           \A p \in Polls : poll'[p].step \in {"waiting", "parked"} =>
              \/ LP!free = {}
              \/ /\ poll[p].step \in {"waiting", "parked"}
                 /\ poll'[p].version = poll[p].version
    PROVE  PollInv'
<1> USE DEF PollInv
<1>1. LP!free' = LP!free /\ posted' = posted
  BY DEF LP!free, LP!live, LP!leased, posted
<1>2. QueueOK' /\ NotifierOK'
  BY <1>1 DEF QueueOK, LP!QueueTypeOK, NotifierOK
<1>3. Sleeps'
  BY <1>1 DEF Sleeps, LP!id
<1> QED BY <1>2, <1>3

\* The steps of a request that touch the request alone.
LEMMA RequestKeeps ==
    ASSUME PollInv, NEW p \in Polls,
           \/ LP!PollStarts(p) \/ LP!ReadsVersion(p) \/ LP!ListsNothing(p) \/ LP!wait(p)
           \/ LP!Wakes(p) \/ LP!FallbackTimer(p) \/ LP!DeadlinePasses(p) \/ LP!ClientLeaves(p)
    PROVE  PollInv'
<1>0. version \in Nat
  BY PostedIsFinite, FS_Subset, FS_CardinalityType DEF PollInv, NotifierOK
<1> USE DEF LP!queueVars, LP!At, LP!moves
<1>1. CASE LP!PollStarts(p)
  BY <1>0, <1>1, SleepersIn DEF LP!PollStarts, RequestsOK, PollInv
<1>2. CASE LP!ReadsVersion(p)
  <2> USE <1>2 DEF LP!ReadsVersion, PollInv
  <2>1. /\ poll'[p].step = "listing" /\ poll'[p].version = version
        /\ poll'[p].past = poll[p].past
        /\ \A q \in Polls : q # p => poll'[q] = poll[q]
    BY DEF RequestsOK
  <2>2. RequestsOK'
    <3> DEFINE R == [step : {"idle", "reading", "listing", "waiting", "parked", "answered"},
                     version : Nat, past : BOOLEAN]
    <3>1. [poll[p] EXCEPT !.step = "listing", !.version = version] \in R
      BY <1>0 DEF RequestsOK
    <3>2. poll' = [poll EXCEPT ![p] = [poll[p] EXCEPT !.step = "listing", !.version = version]]
      OBVIOUS
    <3> HIDE DEF R
    <3>3. poll' \in [Polls -> R]
      BY <3>1, <3>2 DEF RequestsOK, R
    <3>4. \A q \in Polls : poll'[q].version <= version'
      BY <1>0, <2>1 DEF RequestsOK
    <3> QED BY <3>3, <3>4 DEF RequestsOK, R
  <2>3. \A q \in Polls : poll'[q].step \in {"waiting", "parked"} => poll'[q] = poll[q]
    BY <2>1
  <2> QED BY <2>2, <2>3, SleepersIn
<1>3. CASE LP!ListsNothing(p)
  BY <1>0, <1>3, SleepersIn DEF LP!ListsNothing, RequestsOK, PollInv
<1>4. CASE LP!wait(p)
  BY <1>0, <1>4, SleepersIn DEF LP!wait, RequestsOK, PollInv
<1>5. CASE LP!Wakes(p)
  BY <1>0, <1>5, SleepersIn DEF LP!Wakes, RequestsOK, PollInv
<1>6. CASE LP!FallbackTimer(p)
  BY <1>0, <1>6, SleepersIn DEF LP!FallbackTimer, RequestsOK, PollInv
<1>7. CASE LP!DeadlinePasses(p)
  BY <1>0, <1>7, SleepersIn DEF LP!DeadlinePasses, RequestsOK, PollInv
<1>8. CASE LP!ClientLeaves(p)
  BY <1>0, <1>8, SleepersIn DEF LP!ClientLeaves, RequestsOK, PollInv
<1> QED BY <1>1, <1>2, <1>3, <1>4, <1>5, <1>6, <1>7, <1>8

\* A listing only takes rows from what is deliverable: it puts no lease on a row
\* that fenced another one.
LEMMA ListsRowsKeeps ==
    ASSUME PollInv, NEW p \in Polls, LP!ListsRows(p)
    PROVE  PollInv'
<1> USE DEF PollInv
<1>1. PICK rows : rows \subseteq LP!free /\ LP!ListSignalsWithLease(rows)
  BY DEF LP!ListsRows
<1>2. /\ polls < MaxPolls /\ polls' = polls + 1 /\ polls \in Nat
      /\ expiredThrough \in Nat /\ expiredThrough <= polls
      /\ queue' = (LP!live \ rows) \cup {[r EXCEPT !.token = polls + 1] : r \in rows}
      /\ UNCHANGED <<seqs, node, nodes, expiredThrough, version, unnotified, refreed>>
      /\ poll' = [poll EXCEPT ![p].step = "answered"]
  BY <1>1, PollConstants DEF LP!ListSignalsWithLease, LP!ListsRows, LP!moves, QueueOK,
     LP!QueueTypeOK
<1>3. ASSUME NEW r \in rows
      PROVE  /\ [r EXCEPT !.token = polls + 1] \in LP!Row
             /\ [r EXCEPT !.token = polls + 1].seq <= seqs[r.from][r.to]
             /\ [r EXCEPT !.token = polls + 1].from = r.from
             /\ [r EXCEPT !.token = polls + 1].to = r.to
             /\ [r EXCEPT !.token = polls + 1].token = polls + 1
  <2>1. r \in LP!Row /\ r.seq <= seqs[r.from][r.to]
    BY <1>1 DEF LP!free, LP!live, QueueOK, LP!QueueTypeOK
  <2>2. polls + 1 \in 0..MaxPolls
    BY <1>2, PollConstants
  <2> QED BY <2>1, <2>2 DEF LP!Row
<1>4. QueueOK'
  <2>1. queue' \subseteq LP!Row
    BY <1>2, <1>3 DEF QueueOK, LP!QueueTypeOK, LP!live
  <2>2. polls' \in 0..MaxPolls /\ expiredThrough' \in 0..polls'
    BY <1>2, PollConstants
  <2>3. LP!QueueTypeOK'
    BY <1>2, <2>1, <2>2 DEF QueueOK, LP!QueueTypeOK
  <2>4. \A r \in queue' : r.seq <= seqs[r.from][r.to]
    BY <1>2, <1>3 DEF QueueOK, LP!live
  <2> QED BY <1>2, <2>3, <2>4 DEF QueueOK
<1>5. NotifierOK'
  BY <1>2 DEF NotifierOK, posted
<1>6. /\ RequestsOK'
      /\ \A q \in Polls : poll'[q].step \in {"waiting", "parked"} => poll'[q] = poll[q]
  BY <1>2 DEF RequestsOK
<1>7. LP!free' \subseteq LP!free
  <2>1. SUFFICES ASSUME NEW r \in LP!free' PROVE r \in LP!free
    OBVIOUS
  <2>2. r \in LP!live \ rows
    <3>1. r \in queue' /\ ~LP!leased(r)'
      BY DEF LP!free, LP!live
    <3>2. ~(r.token > expiredThrough)
      BY <1>2, <3>1 DEF LP!leased
    <3>3. polls + 1 > expiredThrough
      BY <1>2
    <3>4. \A q \in rows : r # [q EXCEPT !.token = polls + 1]
      BY <1>3, <3>2, <3>3
    <3> QED BY <1>2, <3>1, <3>4
  <2>3. \A e \in LP!live : LP!leased(e) => e \in LP!live' /\ LP!leased(e)'
    <3>1. \A e \in LP!live : LP!leased(e) => e \notin rows
      BY <1>1 DEF LP!free
    <3> QED BY <1>2, <3>1 DEF LP!live, LP!leased
  <2> QED BY <1>2, <2>2, <2>3 DEF LP!free, LP!leased
<1>8. Sleeps'
  BY <1>2, <1>6, <1>7 DEF Sleeps, LP!id
<1> QED BY <1>4, <1>5, <1>6, <1>8

LEMMA LeaseEndsKeeps == ASSUME PollInv, LP!LeaseEnds PROVE PollInv'
<1> USE DEF PollInv
<1>1. UNCHANGED <<seqs, node, nodes, polls, version, unnotified, poll>>
  BY DEF LP!LeaseEnds, LP!AckSignals, LP!ReleaseSignalLeases, LP!LeasesExpire
<1>2. QueueOK'
  <2>1. ASSUME NEW ids, NEW token, LP!AckSignals(ids, token) PROVE QueueOK'
    BY <2>1 DEF QueueOK, LP!QueueTypeOK, LP!AckSignals
  <2>2. ASSUME NEW ids, NEW token, LP!ReleaseSignalLeases(ids, token) PROVE QueueOK'
    <3>1. ASSUME NEW r \in queue
          PROVE  /\ [r EXCEPT !.token = 0] \in LP!Row
                 /\ [r EXCEPT !.token = 0].seq <= seqs[r.from][r.to]
                 /\ [r EXCEPT !.token = 0].from = r.from
                 /\ [r EXCEPT !.token = 0].to = r.to
      <4>1. r \in LP!Row /\ r.seq <= seqs[r.from][r.to]
        BY DEF QueueOK, LP!QueueTypeOK
      <4>2. 0 \in 0..MaxPolls
        BY PollConstants
      <4> QED BY <4>1, <4>2 DEF LP!Row
    <3>2. \A r \in queue : r \in LP!Row /\ r.seq <= seqs[r.from][r.to]
      BY DEF QueueOK, LP!QueueTypeOK
    <3>3. \A r \in queue' : r \in LP!Row /\ r.seq <= seqs[r.from][r.to]
      BY <2>2, <3>1, <3>2 DEF LP!ReleaseSignalLeases
    <3> QED BY <2>2, <3>3 DEF QueueOK, LP!QueueTypeOK, LP!ReleaseSignalLeases
  <2>3. ASSUME NEW k \in 1..polls, LP!LeasesExpire(k) PROVE QueueOK'
    BY <2>3 DEF QueueOK, LP!QueueTypeOK, LP!LeasesExpire
  <2> QED BY <2>1, <2>2, <2>3 DEF LP!LeaseEnds
<1>3. NotifierOK' /\ RequestsOK'
  BY <1>1 DEF NotifierOK, RequestsOK, posted
<1>4. Sleeps'
  <2>1. refreed' = refreed \cup ({LP!id(r) : r \in LP!free'} \ {LP!id(r) : r \in LP!free})
    BY DEF LP!LeaseEnds, LP!freed, LP!id
  <2>2. \A r \in LP!free' : LP!id(r) \in refreed' \/ \E q \in LP!free : LP!id(r) = LP!id(q)
    BY <2>1
  <2>3. refreed \subseteq refreed'
    BY <2>1
  <2> QED BY <1>1, <2>2, <2>3 DEF Sleeps, LP!id
<1> QED BY <1>2, <1>3, <1>4

LEMMA PollInvariance == LP!Spec => []PollInv
<1>1. LP!Init => PollInv
  <2> SUFFICES ASSUME LP!Init PROVE PollInv
    OBVIOUS
  <2> USE DEF LP!Init, LP!QueueInit
  <2>1. QueueOK
    BY PollConstants DEF QueueOK, LP!QueueTypeOK, LP!NodeIds
  <2>2. NotifierOK
    <3>1. posted = {}
      <4>1. \A s \in Senders : seqs[s][node] = 0
        BY PollConstants DEF LP!NodeIds
      <4> QED BY <4>1 DEF posted
    <3> QED BY <3>1, FS_EmptySet DEF NotifierOK
  <2>3. RequestsOK /\ Sleeps
    BY DEF RequestsOK, Sleeps
  <2> QED BY <2>1, <2>2, <2>3 DEF PollInv
<1>2. PollInv /\ [LP!Next]_LP!lvars => PollInv'
  <2> SUFFICES ASSUME PollInv, [LP!Next]_LP!lvars PROVE PollInv'
    OBVIOUS
  <2>1. CASE UNCHANGED LP!lvars
    BY <2>1, SleepersIn DEF LP!lvars, LP!queueVars, LP!pollVars, RequestsOK, PollInv
  <2>2. CASE LP!Next
    BY <2>2, PostKeeps, notifyKeeps, RequestKeeps, ListsRowsKeeps, LeaseEndsKeeps
       DEF LP!Next, LP!PollStep
  <2> QED BY <2>1, <2>2
<1> QED BY <1>1, <1>2, PTL DEF LP!Spec

LEMMA SleepingIsSafe == PollInv => LP!TypeOK /\ LP!NoLostWakeup
<1> SUFFICES ASSUME PollInv PROVE LP!TypeOK /\ LP!NoLostWakeup
  OBVIOUS
<1> USE DEF PollInv
<1>1. IsFiniteSet(posted) /\ unnotified = posted \cap unnotified
  BY PostedIsFinite DEF NotifierOK
<1>2. version = Cardinality(posted) - Cardinality(unnotified)
  BY <1>1, FS_Difference DEF NotifierOK
<1>3. version \in Nat /\ Cardinality(unnotified) \in Nat /\ Cardinality(posted) \in Nat
  BY <1>1, FS_Subset, FS_CardinalityType DEF NotifierOK
<1>4. Cardinality(Senders) * MaxSeq \in Nat
  BY PollConstants, FS_CardinalityType
<1>5. Cardinality(unnotified) + version <= Cardinality(Senders) * MaxSeq
  <2>1. Cardinality(unnotified) + version = Cardinality(posted)
    BY <1>2, <1>3
  <2> QED BY <2>1, PostedIsFinite
<1>6. poll \in [Polls -> [step : {"idle", "reading", "listing", "waiting", "parked", "answered"},
                          version : 0..version, past : BOOLEAN]]
  BY <1>3 DEF RequestsOK
<1>7. LP!TypeOK
  BY <1>3, <1>5, <1>6, PollCardinality DEF LP!TypeOK, QueueOK
<1>8. LP!NoLostWakeup
  BY DEF LP!NoLostWakeup, LP!At, Sleeps
<1> QED BY <1>7, <1>8

\* No row is slept through.  A daemon whose connection has settled has read
\* every row whose sender is done notifying it, through lost connections,
\* evictions, overtaken numbers and full channels; and a poll that sleeps on an
\* open channel sleeps over no deliverable row whose sender is done, unless the
\* end of a lease made it deliverable.
THEOREM NoWakeupIsLost == WakeupSpec /\ LP!Spec => []NothingSleptThrough
<1>1. WInv /\ PollInv => NothingSleptThrough
  BY CoveredIsEnough, SleepingIsSafe DEF NothingSleptThrough
<1> QED BY <1>1, WakeupInvariance, PollInvariance, PTL
=============================================================================
