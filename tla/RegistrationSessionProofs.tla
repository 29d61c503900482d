--------------------- MODULE RegistrationSessionProofs ---------------------
(***************************************************************************)
(* Proofs about registration sessions, for any number of processes with    *)
(* any incarnations and any number of requests.                            *)
(*                                                                         *)
(* Inv is about what the fences of the transactions achieve, for a device  *)
(* that may be registering for the first time.  Guarded is about what the  *)
(* device's lock adds: only its holder is between check and answer, so     *)
(* what a holder has read of the row still holds.  That needs the row to   *)
(* exist from the start (enrolled): a first registration takes no lock.    *)
(***************************************************************************)
EXTENDS RegistrationSession, TLAPS

-----------------------------------------------------------------------------
(* The inductive invariants.                                               *)

\* What a process has been told, or sends, was the row's at some time.
Told ==
    /\ row = None =>
          /\ clients = None
          /\ \A b \in Boots : /\ session[b] = 0
                              /\ call[b].at = "idle"
                              /\ reg[b].at \in {"idle", "fencing"}
    /\ row # None =>
          \A b \in Boots : reg[b].at \in {"committed", "answered"} => reg[b].seq <= row.seq

\* A request to go offline carries a sequence that has asked for it.
Asked ==
    \A b \in Boots :
       call[b].at # "idle" /\ call[b].kind = "offline" => call[b].seq \in left

Inv == TypeOK /\ Told /\ Asked /\ FactsAreCurrent /\ OfflineIsDeliberate

\* The socket of a superseded process is about to be closed.
SocketBeingClosed ==
    \E b \in Boots : reg[b].at = "committed" /\ reg[b].seq = row.seq /\ supersedes(b)

Guarded ==
    /\ row # None
    /\ \A b \in Boots :
          /\ reg[b].at \notin {"idle", "waiting"} => reg[b].held
          /\ reg[b].at = "fencing" => reg[b].previous = row.seq
          /\ reg[b].at = "committed" => reg[b].seq = row.seq /\ reg[b].previous # 0
          /\ call[b].at \in {"checked", "done"} => call[b].seq = row.seq
    /\ clients # None => clients.seq = row.seq \/ SocketBeingClosed

-----------------------------------------------------------------------------
(* The transaction of a registration.                                      *)

LEMMA RegisteredRow ==
    ASSUME row \in Rows \union {None}, NEW b \in Boots,
           row # None => row.incarnation <= incarnation[b]
    PROVE  /\ registered(b) \in Rows
           /\ registered(b).online
           /\ registered(b).incarnation = incarnation[b]
           /\ row # None =>
                 \/ /\ incarnation[b] = row.incarnation
                    /\ registered(b).seq = row.seq /\ registered(b).facts = row.facts
                 \/ /\ incarnation[b] > row.incarnation
                    /\ registered(b).seq = row.seq + 1 /\ registered(b).facts = 0
           /\ row = None => registered(b).seq = 1 /\ registered(b).facts = 0
<1>1. incarnation[b] \in Seqs
  BY SessionConstants DEF Seqs
<1>2. CASE row = None
  BY <1>1, <1>2 DEF registered, Row, Rows, Seqs
<1>3. CASE row # None /\ row.incarnation = incarnation[b]
  <2>1. registered(b) = [row EXCEPT !.online = TRUE]
    BY <1>3 DEF registered
  <2> QED BY <1>3, <2>1 DEF Rows
<1>4. CASE row # None /\ row.incarnation # incarnation[b]
  <2>1. registered(b) = Row(row.seq + 1, incarnation[b], TRUE, 0)
    BY <1>4 DEF registered
  <2> QED BY <1>1, <1>4, <2>1 DEF Row, Rows, Seqs
<1> QED BY <1>2, <1>3, <1>4

\* What a heartbeat that passed its check writes.
Heartbeat(b) ==
    /\ call[b].seq = row.seq
    /\ row' = [row EXCEPT !.online = TRUE, !.facts = call[b].seq]

\* What a later request of the registered process changes of its row.
LEMMA ShownRow ==
    ASSUME row \in Rows, NEW o \in BOOLEAN, NEW f \in Nat
    PROVE  /\ [row EXCEPT !.online = o, !.facts = f] \in Rows
           /\ [row EXCEPT !.online = o, !.facts = f].seq = row.seq
           /\ [row EXCEPT !.online = o, !.facts = f].incarnation = row.incarnation
           /\ [row EXCEPT !.online = o, !.facts = f].online = o
           /\ [row EXCEPT !.online = o, !.facts = f].facts = f
           /\ [row EXCEPT !.online = o] \in Rows
           /\ [row EXCEPT !.online = o].seq = row.seq
           /\ [row EXCEPT !.online = o].incarnation = row.incarnation
           /\ [row EXCEPT !.online = o].online = o
           /\ [row EXCEPT !.online = o].facts = row.facts
  BY DEF Rows

LEMMA HeartbeatRow ==
    ASSUME row \in Rows, NEW b \in Boots, Heartbeat(b)
    PROVE  /\ row' \in Rows /\ row'.seq = row.seq /\ row'.incarnation = row.incarnation
           /\ row'.online /\ row'.facts = row.seq
  BY ShownRow DEF Heartbeat, Rows, Seqs

LEMMA RegisterLooksUpKeeps == ASSUME Inv, NEW b \in Boots, RegisterLooksUp(b) PROVE Inv'
<1> USE DEF Inv, RegisterLooksUp, registering, calling
<1>1. TypeOK'
  BY SessionConstants, NoneIsNothing DEF TypeOK, seqNow, Registrations, Requests, Rows, Sockets,
     Holders, Seqs, Idle
<1>2. Told'
  BY SessionConstants, NoneIsNothing DEF TypeOK, Told, Registrations, Requests, Rows, Sockets,
     Holders, Seqs, Idle
<1>3. Asked'
  BY DEF TypeOK, Asked, Registrations, Requests, Rows, Sockets, Holders, Seqs, Idle
<1>4. FactsAreCurrent'
  BY DEF TypeOK, FactsAreCurrent, Rows
<1>5. OfflineIsDeliberate'
  BY DEF TypeOK, OfflineIsDeliberate, Asked, Rows
<1> QED BY <1>1, <1>2, <1>3, <1>4, <1>5

LEMMA RegisterLocksKeeps == ASSUME Inv, NEW b \in Boots, RegisterLocks(b) PROVE Inv'
<1> USE DEF Inv, RegisterLocks, calling
<1>1. TypeOK'
  <2>1. row \in Rows
    BY DEF TypeOK, Told
  <2>2. reg' \in [Boots -> Registrations]
    BY <2>1 DEF TypeOK, Registrations, Rows, Seqs
  <2>3. \A d \in Boots :
           locks' = <<"reg", d>> <=> reg'[d].at \notin {"idle", "waiting"} /\ reg'[d].held
    BY NoneIsNothing DEF TypeOK, Holders
  <2>4. \A d \in Boots : locks' # <<"call", d>> /\ call[d].at \notin {"checked", "done", "refused"}
    BY NoneIsNothing DEF TypeOK, Holders
  <2> QED BY <2>2, <2>3, <2>4 DEF TypeOK, Holders, seqNow
<1>2. Told'
  BY SessionConstants, NoneIsNothing DEF TypeOK, Told, Registrations, Requests, Rows, Sockets,
     Holders, Seqs, Idle
<1>3. Asked'
  BY DEF TypeOK, Asked, Registrations, Requests, Rows, Sockets, Holders, Seqs, Idle
<1>4. FactsAreCurrent'
  BY DEF TypeOK, FactsAreCurrent, Rows
<1>5. OfflineIsDeliberate'
  BY DEF TypeOK, OfflineIsDeliberate, Asked, Rows
<1> QED BY <1>1, <1>2, <1>3, <1>4, <1>5

LEMMA RegisterCommitsKeeps == ASSUME Inv, NEW b \in Boots, RegisterCommits(b) PROVE Inv'
<1> USE DEF Inv, RegisterCommits, calling
<1>1. TypeOK'
  <2> DEFINE new == registered(b)
  <2>1. new \in Rows /\ new # None /\ row' = new
    BY RegisteredRow, NoneIsNothing DEF TypeOK
  <2>2. row # None => row \in Rows /\ new.seq >= row.seq
    BY <2>1, RegisteredRow DEF TypeOK, Rows, Seqs
  <2>3. \A d \in Boots : session'[d] <= seqNow'
    BY <2>1, <2>2 DEF TypeOK, Told, seqNow, Rows, Seqs
  <2>4. reg[b].previous \in Nat /\ reg[b].held \in BOOLEAN
    BY DEF TypeOK, Registrations
  <2>5. reg' \in [Boots -> Registrations]
    BY <2>1, <2>4 DEF TypeOK, Registrations, Rows
  <2>6. \A d \in Boots : locks' = <<"reg", d>> <=> reg'[d].at \notin {"idle", "waiting"} /\ reg'[d].held
    BY DEF TypeOK
  <2> QED BY <2>1, <2>3, <2>5, <2>6 DEF TypeOK
<1>2. Told'
  <2> DEFINE new == registered(b)
  <2>1. new \in Rows /\ new # None /\ row' = new
    BY RegisteredRow, NoneIsNothing DEF TypeOK
  <2>2. row # None => row \in Rows /\ new.seq >= row.seq
    BY <2>1, RegisteredRow DEF TypeOK, Rows, Seqs
  <2> SUFFICES ASSUME NEW d \in Boots, reg'[d].at \in {"committed", "answered"}
               PROVE  reg'[d].seq <= new.seq
    BY <2>1 DEF Told
  <2>3. CASE d = b
    BY <2>1, <2>3 DEF TypeOK, Rows, Seqs
  <2>4. CASE d # b
    <3>1. reg'[d] = reg[d] /\ reg[d].seq \in Nat
      BY <2>4 DEF TypeOK, Registrations, Seqs
    <3> QED BY <2>1, <2>2, <3>1 DEF Told, Rows, Seqs
  <2> QED BY <2>3, <2>4
<1>3. Asked'
  BY DEF TypeOK, Asked, Registrations, Requests, Rows, Sockets, Holders, Seqs, Idle
<1>4. FactsAreCurrent'
  <2> DEFINE new == registered(b)
  <2>1. new \in Rows /\ new # None /\ row' = new
    BY RegisteredRow, NoneIsNothing DEF TypeOK
  <2> QED BY <2>1, RegisteredRow DEF TypeOK, FactsAreCurrent
<1>5. OfflineIsDeliberate'
  <2> DEFINE new == registered(b)
  <2>1. new \in Rows /\ new # None /\ row' = new
    BY RegisteredRow, NoneIsNothing DEF TypeOK
  <2> QED BY <2>1, RegisteredRow DEF TypeOK, OfflineIsDeliberate
<1> QED BY <1>1, <1>2, <1>3, <1>4, <1>5

LEMMA RegisterRefusedKeeps == ASSUME Inv, NEW b \in Boots, RegisterRefused(b) PROVE Inv'
<1> USE DEF Inv, RegisterRefused, registering, calling
<1>1. TypeOK'
  BY SessionConstants, NoneIsNothing DEF TypeOK, seqNow, Registrations, Requests, Rows, Sockets,
     Holders, Seqs, Idle
<1>2. Told'
  BY SessionConstants, NoneIsNothing DEF TypeOK, Told, Registrations, Requests, Rows, Sockets,
     Holders, Seqs, Idle
<1>3. Asked'
  BY DEF TypeOK, Asked, Registrations, Requests, Rows, Sockets, Holders, Seqs, Idle
<1>4. FactsAreCurrent'
  BY DEF TypeOK, FactsAreCurrent, Rows
<1>5. OfflineIsDeliberate'
  BY DEF TypeOK, OfflineIsDeliberate, Asked, Rows
<1> QED BY <1>1, <1>2, <1>3, <1>4, <1>5

LEMMA RegisterAnswersKeeps == ASSUME Inv, NEW b \in Boots, RegisterAnswers(b) PROVE Inv'
<1> USE DEF Inv, RegisterAnswers, calling
<1>1. TypeOK'
  BY SessionConstants, NoneIsNothing DEF TypeOK, seqNow, Registrations, Requests, Rows, Sockets,
     Holders, Seqs, Idle
<1>2. Told'
  BY SessionConstants, NoneIsNothing DEF TypeOK, Told, Registrations, Requests, Rows, Sockets,
     Holders, Seqs, Idle
<1>3. Asked'
  BY DEF TypeOK, Asked, Registrations, Requests, Rows, Sockets, Holders, Seqs, Idle
<1>4. FactsAreCurrent'
  BY DEF TypeOK, FactsAreCurrent, Rows
<1>5. OfflineIsDeliberate'
  BY DEF TypeOK, OfflineIsDeliberate, Asked, Rows
<1> QED BY <1>1, <1>2, <1>3, <1>4, <1>5

LEMMA RegisterReturnsKeeps == ASSUME Inv, NEW b \in Boots, RegisterReturns(b) PROVE Inv'
<1> USE DEF Inv, RegisterReturns
<1>1. TypeOK'
  <2>1. reg' \in [Boots -> Registrations]
    BY DEF TypeOK, Registrations, Idle
  <2>2. ASSUME NEW d \in Boots
        PROVE  locks' = <<"reg", d>> <=> reg'[d].at \notin {"idle", "waiting"} /\ reg'[d].held
    <3>1. CASE d = b
      <4>1. reg'[b] = Idle
        BY DEF TypeOK
      <4>2. reg'[b].at = "idle"
        BY <4>1 DEF Idle
      <4>3. <<"reg", b>> \in Holders
        BY DEF Holders
      <4>4. locks = <<"reg", b>> => reg[b].held
        BY DEF TypeOK
      <4>5. locks' # <<"reg", b>>
        BY <4>3, <4>4, NoneIsNothing
      <4> QED BY <3>1, <4>2, <4>5
    <3>2. CASE d # b /\ ~reg[b].held
      <4>1. reg'[d] = reg[d] /\ locks' = locks
        BY <3>2 DEF TypeOK
      <4> QED BY <4>1 DEF TypeOK
    <3>3. CASE d # b /\ reg[b].held
      <4>1. locks = <<"reg", b>> /\ locks' = None
        BY <3>3 DEF TypeOK
      <4> QED BY <3>3, <4>1, NoneIsNothing DEF TypeOK, Holders
    <3>4. reg[b].held \in BOOLEAN
      BY DEF TypeOK, Registrations
    <3> QED BY <3>1, <3>2, <3>3, <3>4
  <2>3. \A d \in Boots :
           locks' = <<"call", d>> <=> call'[d].at \in {"checked", "done", "refused"}
    BY NoneIsNothing DEF TypeOK, Holders
  <2>4. row \in Rows /\ row # None /\ reg[b].seq \in Nat /\ reg[b].seq <= row.seq
    BY NoneIsNothing DEF TypeOK, Told, Registrations
  <2>5. session' \in [Boots -> Nat] /\ \A d \in Boots : session'[d] <= seqNow'
    BY <2>4 DEF TypeOK, seqNow, Rows, Seqs
  <2> QED BY <2>1, <2>2, <2>3, <2>5 DEF TypeOK
<1>2. Told'
  BY SessionConstants, NoneIsNothing DEF TypeOK, Told, Registrations, Requests, Rows, Sockets,
     Holders, Seqs, Idle
<1>3. Asked'
  BY DEF TypeOK, Asked, Registrations, Requests, Rows, Sockets, Holders, Seqs, Idle
<1>4. FactsAreCurrent'
  BY DEF TypeOK, FactsAreCurrent, Rows
<1>5. OfflineIsDeliberate'
  BY DEF TypeOK, OfflineIsDeliberate, Asked, Rows
<1> QED BY <1>1, <1>2, <1>3, <1>4, <1>5

LEMMA CallArrivesKeeps ==
    ASSUME Inv, NEW b \in Boots, NEW kind \in Kinds, CallArrives(b, kind)
    PROVE Inv'
<1> USE DEF Inv, CallArrives
<1>1. TypeOK'
  BY SessionConstants, NoneIsNothing DEF TypeOK, seqNow, Registrations, Requests, Rows, Sockets,
     Holders, Seqs, Idle
<1>2. Told'
  BY SessionConstants, NoneIsNothing DEF TypeOK, Told, Registrations, Requests, Rows, Sockets,
     Holders, Seqs, Idle
<1>3. Asked'
  BY DEF TypeOK, Asked, Registrations, Requests, Rows, Sockets, Holders, Seqs, Idle
<1>4. FactsAreCurrent'
  BY DEF TypeOK, FactsAreCurrent, Rows
<1>5. OfflineIsDeliberate'
  BY DEF TypeOK, OfflineIsDeliberate, Asked, Rows
<1> QED BY <1>1, <1>2, <1>3, <1>4, <1>5

LEMMA CallChecksKeeps == ASSUME Inv, NEW b \in Boots, CallChecks(b) PROVE Inv'
<1> USE DEF Inv, CallChecks, checked
<1>1. TypeOK'
  BY SessionConstants, NoneIsNothing DEF TypeOK, seqNow, Registrations, Requests, Rows, Sockets,
     Holders, Seqs, Idle
<1>2. Told'
  BY SessionConstants, NoneIsNothing DEF TypeOK, Told, Registrations, Requests, Rows, Sockets,
     Holders, Seqs, Idle
<1>3. Asked'
  BY DEF TypeOK, Asked, Registrations, Requests, Rows, Sockets, Holders, Seqs, Idle
<1>4. FactsAreCurrent'
  BY DEF TypeOK, FactsAreCurrent, Rows
<1>5. OfflineIsDeliberate'
  BY DEF TypeOK, OfflineIsDeliberate, Asked, Rows
<1> QED BY <1>1, <1>2, <1>3, <1>4, <1>5

LEMMA UpdateEndpointKeeps == ASSUME Inv, NEW b \in Boots, UpdateEndpoint(b) PROVE Inv'
<1> USE DEF Inv, UpdateEndpoint, checked
<1>1. TypeOK'
  <2>1. row \in Rows /\ row # None
    BY NoneIsNothing DEF TypeOK, Told
  <2>2. row' = row \/ Heartbeat(b)
    BY DEF Heartbeat
  <2>3. row' \in Rows /\ row' # None /\ row'.seq = row.seq
    BY <2>1, <2>2, HeartbeatRow, NoneIsNothing
  <2>4. call' \in [Boots -> Requests]
    BY DEF TypeOK, Requests, Idle
  <2>5. \A d \in Boots : locks' = <<"call", d>> <=> call'[d].at \in {"checked", "done", "refused"}
    BY DEF TypeOK, Requests, Idle
  <2> QED BY <2>1, <2>3, <2>4, <2>5 DEF TypeOK, seqNow
<1>2. Told'
  <2>1. row \in Rows /\ row # None
    BY NoneIsNothing DEF TypeOK, Told
  <2>2. row' = row \/ Heartbeat(b)
    BY DEF Heartbeat
  <2>3. row' \in Rows /\ row' # None /\ row'.seq = row.seq
    BY <2>1, <2>2, HeartbeatRow, NoneIsNothing
  <2> QED BY <2>1, <2>3 DEF Told
<1>3. Asked'
  BY DEF TypeOK, Asked, Registrations, Requests, Rows, Sockets, Holders, Seqs, Idle
<1>4. FactsAreCurrent'
  <2>1. row \in Rows /\ row # None
    BY NoneIsNothing DEF TypeOK, Told
  <2>2. row' = row \/ Heartbeat(b)
    BY DEF Heartbeat
  <2>3. row' \in Rows /\ row' # None /\ row'.seq = row.seq
    BY <2>1, <2>2, HeartbeatRow, NoneIsNothing
  <2> QED BY <2>1, <2>2, <2>3, HeartbeatRow DEF FactsAreCurrent
<1>5. OfflineIsDeliberate'
  <2>1. row \in Rows /\ row # None
    BY NoneIsNothing DEF TypeOK, Told
  <2>2. row' = row \/ Heartbeat(b)
    BY DEF Heartbeat
  <2>3. row' \in Rows /\ row' # None /\ row'.seq = row.seq
    BY <2>1, <2>2, HeartbeatRow, NoneIsNothing
  <2> QED BY <2>1, <2>2, <2>3, HeartbeatRow DEF OfflineIsDeliberate
<1> QED BY <1>1, <1>2, <1>3, <1>4, <1>5

LEMMA ReleasePresenceKeeps == ASSUME Inv, NEW b \in Boots, ReleasePresence(b) PROVE Inv'
<1> USE DEF Inv, ReleasePresence, checked
<1>1. TypeOK'
  <2>1. call[b].seq \in Nat /\ row \in Rows
    BY DEF TypeOK, Told, Requests, Seqs, Idle
  <2>2. row' \in Rows /\ row'.seq = row.seq
    BY <2>1, ShownRow DEF TypeOK
  <2>3. row # None /\ row' # None
    BY <2>1, <2>2, NoneIsNothing
  <2>4. call' \in [Boots -> Requests]
    BY DEF TypeOK, Requests, Idle
  <2>5. \A d \in Boots : locks' = <<"call", d>> <=> call'[d].at \in {"checked", "done", "refused"}
    BY DEF TypeOK, Requests, Idle
  <2> QED BY <2>2, <2>3, <2>4, <2>5 DEF TypeOK, seqNow
<1>2. Told'
  <2>1. call[b].seq \in Nat /\ row \in Rows
    BY DEF TypeOK, Told, Requests, Seqs, Idle
  <2>2. row' \in Rows /\ row'.seq = row.seq
    BY <2>1, ShownRow DEF TypeOK
  <2>3. row # None /\ row' # None
    BY <2>1, <2>2, NoneIsNothing
  <2> QED BY <2>2, <2>3 DEF Told
<1>3. Asked'
  BY DEF TypeOK, Asked, Registrations, Requests, Rows, Sockets, Holders, Seqs, Idle
<1>4. FactsAreCurrent'
  <2>1. call[b].seq \in Nat /\ row \in Rows
    BY DEF TypeOK, Told, Requests, Seqs, Idle
  <2>2. row' \in Rows /\ row'.seq = row.seq
    BY <2>1, ShownRow DEF TypeOK
  <2>3. row # None /\ row' # None
    BY <2>1, <2>2, NoneIsNothing
  <2>4. row'.facts = row.facts
    BY <2>1, ShownRow DEF TypeOK
  <2> QED BY <2>2, <2>3, <2>4 DEF FactsAreCurrent
<1>5. OfflineIsDeliberate'
  <2>1. call[b].seq \in Nat /\ row \in Rows
    BY DEF TypeOK, Told, Requests, Seqs, Idle
  <2>2. row' \in Rows /\ row'.seq = row.seq
    BY <2>1, ShownRow DEF TypeOK
  <2>3. row # None /\ row' # None
    BY <2>1, <2>2, NoneIsNothing
  <2>4. row' = row \/ call[b].seq = row.seq
    OBVIOUS
  <2>5. call[b].seq \in left
    BY DEF Asked
  <2> QED BY <2>2, <2>3, <2>4, <2>5 DEF OfflineIsDeliberate
<1> QED BY <1>1, <1>2, <1>3, <1>4, <1>5

LEMMA OtherActionKeeps == ASSUME Inv, NEW b \in Boots, OtherAction(b) PROVE Inv'
<1> USE DEF Inv, OtherAction, checked
<1>1. TypeOK'
  BY SessionConstants, NoneIsNothing DEF TypeOK, seqNow, Registrations, Requests, Rows, Sockets,
     Holders, Seqs, Idle
<1>2. Told'
  BY SessionConstants, NoneIsNothing DEF TypeOK, Told, Registrations, Requests, Rows, Sockets,
     Holders, Seqs, Idle
<1>3. Asked'
  BY DEF TypeOK, Asked, Registrations, Requests, Rows, Sockets, Holders, Seqs, Idle
<1>4. FactsAreCurrent'
  BY DEF TypeOK, FactsAreCurrent, Rows
<1>5. OfflineIsDeliberate'
  BY DEF TypeOK, OfflineIsDeliberate, Asked, Rows
<1> QED BY <1>1, <1>2, <1>3, <1>4, <1>5

LEMMA UpgradeRegistersKeeps == ASSUME Inv, NEW b \in Boots, UpgradeRegisters(b) PROVE Inv'
<1> USE DEF Inv, UpgradeRegisters, checked
<1>1. TypeOK'
  BY SessionConstants, NoneIsNothing DEF TypeOK, seqNow, Registrations, Requests, Rows, Sockets,
     Holders, Seqs, Idle
<1>2. Told'
  BY SessionConstants, NoneIsNothing DEF TypeOK, Told, Registrations, Requests, Rows, Sockets,
     Holders, Seqs, Idle
<1>3. Asked'
  BY DEF TypeOK, Asked, Registrations, Requests, Rows, Sockets, Holders, Seqs, Idle
<1>4. FactsAreCurrent'
  BY DEF TypeOK, FactsAreCurrent, Rows
<1>5. OfflineIsDeliberate'
  BY DEF TypeOK, OfflineIsDeliberate, Asked, Rows
<1> QED BY <1>1, <1>2, <1>3, <1>4, <1>5

LEMMA CallReturnsKeeps == ASSUME Inv, NEW b \in Boots, CallReturns(b) PROVE Inv'
<1> USE DEF Inv, CallReturns
<1>1. TypeOK'
  BY SessionConstants, NoneIsNothing DEF TypeOK, seqNow, Registrations, Requests, Rows, Sockets,
     Holders, Seqs, Idle
<1>2. Told'
  BY SessionConstants, NoneIsNothing DEF TypeOK, Told, Registrations, Requests, Rows, Sockets,
     Holders, Seqs, Idle
<1>3. Asked'
  BY DEF TypeOK, Asked, Registrations, Requests, Rows, Sockets, Holders, Seqs, Idle
<1>4. FactsAreCurrent'
  BY DEF TypeOK, FactsAreCurrent, Rows
<1>5. OfflineIsDeliberate'
  BY DEF TypeOK, OfflineIsDeliberate, Asked, Rows
<1> QED BY <1>1, <1>2, <1>3, <1>4, <1>5

LEMMA BootEndsKeeps == ASSUME Inv, NEW b \in Boots, BootEnds(b) PROVE Inv'
<1> USE DEF Inv, BootEnds
<1>1. TypeOK'
  BY SessionConstants, NoneIsNothing DEF TypeOK, seqNow, Registrations, Requests, Rows, Sockets,
     Holders, Seqs, Idle
<1>2. Told'
  BY SessionConstants, NoneIsNothing DEF TypeOK, Told, Registrations, Requests, Rows, Sockets,
     Holders, Seqs, Idle
<1>3. Asked'
  BY DEF TypeOK, Asked, Registrations, Requests, Rows, Sockets, Holders, Seqs, Idle
<1>4. FactsAreCurrent'
  BY DEF TypeOK, FactsAreCurrent, Rows
<1>5. OfflineIsDeliberate'
  BY DEF TypeOK, OfflineIsDeliberate, Asked, Rows
<1> QED BY <1>1, <1>2, <1>3, <1>4, <1>5

LEMMA SocketBreaksKeeps == ASSUME Inv, SocketBreaks PROVE Inv'
<1> USE DEF Inv, SocketBreaks
<1>1. TypeOK'
  BY SessionConstants, NoneIsNothing DEF TypeOK, seqNow, Registrations, Requests, Rows, Sockets,
     Holders, Seqs, Idle
<1>2. Told'
  BY SessionConstants, NoneIsNothing DEF TypeOK, Told, Registrations, Requests, Rows, Sockets,
     Holders, Seqs, Idle
<1>3. Asked'
  BY DEF TypeOK, Asked, Registrations, Requests, Rows, Sockets, Holders, Seqs, Idle
<1>4. FactsAreCurrent'
  BY DEF TypeOK, FactsAreCurrent, Rows
<1>5. OfflineIsDeliberate'
  BY DEF TypeOK, OfflineIsDeliberate, Asked, Rows
<1> QED BY <1>1, <1>2, <1>3, <1>4, <1>5

LEMMA MarkStaleDevicesOfflineKeeps == ASSUME Inv, MarkStaleDevicesOffline PROVE Inv'
<1> USE DEF Inv, MarkStaleDevicesOffline
<1>1. TypeOK'
  <2>1. row' \in Rows /\ row'.seq = row.seq
    BY ShownRow DEF TypeOK
  <2> QED BY <2>1, NoneIsNothing DEF TypeOK, seqNow
<1>2. Told'
  BY SessionConstants, NoneIsNothing DEF TypeOK, Told, Registrations, Requests, Rows, Sockets,
     Holders, Seqs, Idle
<1>3. Asked'
  BY DEF TypeOK, Asked, Registrations, Requests, Rows, Sockets, Holders, Seqs, Idle
<1>4. FactsAreCurrent'
  BY DEF TypeOK, FactsAreCurrent, Rows
<1>5. OfflineIsDeliberate'
  BY DEF TypeOK, OfflineIsDeliberate, Asked, Rows
<1> QED BY <1>1, <1>2, <1>3, <1>4, <1>5

LEMMA InitInv == Init => Inv
<1> SUFFICES ASSUME Init PROVE Inv
  OBVIOUS
<1> USE DEF Init
<1>1. TypeOK
  <2>1. row \in Rows \union {None} /\ 0 <= seqNow
    <3>1. Row(1, 1, FALSE, 0) \in Rows /\ Row(1, 1, FALSE, 0).seq = 1
      BY DEF Row, Rows, Seqs
    <3>2. CASE row = None
      BY <3>2 DEF seqNow
    <3>3. CASE row = Row(1, 1, FALSE, 0)
      <4>1. row \in Rows /\ row.seq = 1
        BY <3>1, <3>3
      <4> QED BY <4>1 DEF seqNow
    <3> QED BY <3>2, <3>3
  <2>2. ASSUME NEW b \in Boots PROVE locks # <<"reg", b>> /\ locks # <<"call", b>>
    <3>1. <<"reg", b>> \in Holders /\ <<"call", b>> \in Holders
      BY DEF Holders
    <3> QED BY <3>1, NoneIsNothing
  <2> QED BY <2>1, <2>2 DEF TypeOK, Registrations, Requests, Idle
<1>2. Told /\ Asked
  BY DEF Told, Asked, Idle
<1>3. FactsAreCurrent /\ OfflineIsDeliberate
  BY DEF FactsAreCurrent, OfflineIsDeliberate, Row, seqNow
<1> QED BY <1>1, <1>2, <1>3 DEF Inv

LEMMA NextInv == Inv /\ [Next]_vars => Inv'
<1> SUFFICES ASSUME Inv, [Next]_vars PROVE Inv'
  OBVIOUS
<1>1. ASSUME NEW b \in Boots, Handler(b) PROVE Inv'
  BY <1>1, RegisterLocksKeeps, RegisterCommitsKeeps, RegisterRefusedKeeps, RegisterAnswersKeeps,
     RegisterReturnsKeeps, CallChecksKeeps, UpdateEndpointKeeps, ReleasePresenceKeeps,
     OtherActionKeeps, UpgradeRegistersKeeps, CallReturnsKeeps DEF Handler
<1>2. ASSUME NEW b \in Boots, RegisterLooksUp(b) \/ BootEnds(b) PROVE Inv'
  BY <1>2, RegisterLooksUpKeeps, BootEndsKeeps
<1>3. ASSUME NEW b \in Boots, NEW kind \in Kinds, CallArrives(b, kind) PROVE Inv'
  BY <1>3, CallArrivesKeeps
<1>4. CASE SocketBreaks \/ MarkStaleDevicesOffline
  BY <1>4, SocketBreaksKeeps, MarkStaleDevicesOfflineKeeps
<1>5. CASE UNCHANGED vars
  BY <1>5 DEF vars, Inv, TypeOK, Told, Asked, FactsAreCurrent, OfflineIsDeliberate, seqNow
<1> QED BY <1>1, <1>2, <1>3, <1>4, <1>5 DEF Next

-----------------------------------------------------------------------------
(* What the lock adds.                                                     *)

LEMMA RegisterLooksUpGuarded ==
    ASSUME Inv, Guarded, NEW b \in Boots, RegisterLooksUp(b)
    PROVE Guarded'
  BY NoneIsNothing DEF Inv, TypeOK, Told, Guarded, SocketBeingClosed, supersedes, RegisterLooksUp,
     registering, calling, Registrations, Requests, Rows, Sockets, Holders, Seqs, Idle

LEMMA RegisterLocksGuarded ==
    ASSUME Inv, Guarded, NEW b \in Boots, RegisterLocks(b)
    PROVE Guarded'
  BY NoneIsNothing DEF Inv, TypeOK, Told, Guarded, SocketBeingClosed, supersedes, RegisterLocks,
     calling, Registrations, Requests, Rows, Sockets, Holders, Seqs, Idle

LEMMA RegisterCommitsGuarded ==
    ASSUME Inv, Guarded, NEW b \in Boots, RegisterCommits(b)
    PROVE Guarded'
<1> DEFINE new == registered(b)
<1>1. /\ row \in Rows /\ row # None /\ row' = new
      /\ new \in Rows /\ new # None /\ new.seq \in Seqs
  BY RegisteredRow, NoneIsNothing DEF Inv, TypeOK, Guarded, RegisterCommits, Rows
<1>2. reg[b].held /\ reg[b].previous = row.seq /\ row.seq \in Seqs
  BY <1>1 DEF Guarded, RegisterCommits, Rows
<1>3. locks = <<"reg", b>>
  BY <1>2 DEF Inv, TypeOK, RegisterCommits
<1>4. \A d \in Boots : d # b => reg[d].at \in {"idle", "waiting"}
  BY <1>3 DEF Inv, TypeOK, Guarded
<1>5. \A d \in Boots : call[d].at \notin {"checked", "done"}
  BY <1>3 DEF Inv, TypeOK
<1>6. /\ reg'[b].at = "committed" /\ reg'[b].seq = new.seq
      /\ reg'[b].previous = row.seq /\ reg'[b].held
      /\ \A d \in Boots : d # b => reg'[d] = reg[d]
      /\ UNCHANGED <<call, clients>>
  BY <1>2 DEF Inv, TypeOK, RegisterCommits, calling
<1>7. clients # None => clients.seq = row.seq
  BY <1>4 DEF Guarded, SocketBeingClosed, RegisterCommits
<1>8. clients' # None => clients'.seq = new.seq \/ SocketBeingClosed'
  BY <1>1, <1>2, <1>6, <1>7 DEF SocketBeingClosed, supersedes, Seqs
<1> QED BY <1>1, <1>2, <1>4, <1>5, <1>6, <1>8 DEF Guarded, Seqs

LEMMA RegisterRefusedGuarded ==
    ASSUME Inv, Guarded, NEW b \in Boots, RegisterRefused(b)
    PROVE Guarded'
  BY NoneIsNothing DEF Inv, TypeOK, Told, Guarded, SocketBeingClosed, supersedes, RegisterRefused,
     registering, calling, Registrations, Requests, Rows, Sockets, Holders, Seqs, Idle

LEMMA RegisterAnswersGuarded ==
    ASSUME Inv, Guarded, NEW b \in Boots, RegisterAnswers(b)
    PROVE Guarded'
  BY NoneIsNothing DEF Inv, TypeOK, Told, Guarded, SocketBeingClosed, supersedes, RegisterAnswers,
     calling, Registrations, Requests, Rows, Sockets, Holders, Seqs, Idle

LEMMA RegisterReturnsGuarded ==
    ASSUME Inv, Guarded, NEW b \in Boots, RegisterReturns(b)
    PROVE Guarded'
  BY NoneIsNothing DEF Inv, TypeOK, Told, Guarded, SocketBeingClosed, supersedes, RegisterReturns,
     Registrations, Requests, Rows, Sockets, Holders, Seqs, Idle

LEMMA CallArrivesGuarded ==
    ASSUME Inv, Guarded, NEW b \in Boots, NEW kind \in Kinds, CallArrives(b, kind)
    PROVE Guarded'
  BY NoneIsNothing DEF Inv, TypeOK, Told, Guarded, SocketBeingClosed, supersedes, CallArrives,
     Registrations, Requests, Rows, Sockets, Holders, Seqs, Idle

LEMMA CallChecksGuarded == ASSUME Inv, Guarded, NEW b \in Boots, CallChecks(b) PROVE Guarded'
  BY NoneIsNothing DEF Inv, TypeOK, Told, Guarded, SocketBeingClosed, supersedes, CallChecks,
     checked, Registrations, Requests, Rows, Sockets, Holders, Seqs, Idle

LEMMA UpdateEndpointGuarded ==
    ASSUME Inv, Guarded, NEW b \in Boots, UpdateEndpoint(b)
    PROVE Guarded'
<1>1. row \in Rows /\ row # None
  BY NoneIsNothing DEF Inv, TypeOK, Guarded
<1>2. row' \in Rows /\ row' # None /\ row'.seq = row.seq
  BY <1>1, HeartbeatRow, NoneIsNothing DEF UpdateEndpoint, Heartbeat
<1>3. UNCHANGED <<reg, clients>>
  BY DEF UpdateEndpoint
<1>4. \A d \in Boots : call'[d].at \in {"checked", "done"} => call'[d].seq = row.seq
  BY DEF Inv, TypeOK, Guarded, UpdateEndpoint, Requests, Idle
<1> QED BY <1>2, <1>3, <1>4 DEF Guarded, SocketBeingClosed, supersedes

LEMMA ReleasePresenceGuarded ==
    ASSUME Inv, Guarded, NEW b \in Boots, ReleasePresence(b)
    PROVE Guarded'
<1>1. row \in Rows /\ row # None
  BY NoneIsNothing DEF Inv, TypeOK, Guarded
<1>2. row' \in Rows /\ row' # None /\ row'.seq = row.seq
  BY <1>1, ShownRow, NoneIsNothing DEF ReleasePresence
<1>3. UNCHANGED <<reg, clients>>
  BY DEF ReleasePresence
<1>4. \A d \in Boots : call'[d].at \in {"checked", "done"} => call'[d].seq = row.seq
  BY DEF Inv, TypeOK, Guarded, ReleasePresence, Requests, Idle
<1> QED BY <1>2, <1>3, <1>4 DEF Guarded, SocketBeingClosed, supersedes

LEMMA OtherActionGuarded == ASSUME Inv, Guarded, NEW b \in Boots, OtherAction(b) PROVE Guarded'
  BY NoneIsNothing DEF Inv, TypeOK, Told, Guarded, SocketBeingClosed, supersedes, OtherAction,
     checked, Registrations, Requests, Rows, Sockets, Holders, Seqs, Idle

LEMMA UpgradeRegistersGuarded ==
    ASSUME Inv, Guarded, NEW b \in Boots, UpgradeRegisters(b)
    PROVE Guarded'
  BY NoneIsNothing DEF Inv, TypeOK, Told, Guarded, SocketBeingClosed, supersedes,
     UpgradeRegisters, checked, Registrations, Requests, Rows, Sockets, Holders, Seqs, Idle

LEMMA CallReturnsGuarded == ASSUME Inv, Guarded, NEW b \in Boots, CallReturns(b) PROVE Guarded'
  BY NoneIsNothing DEF Inv, TypeOK, Told, Guarded, SocketBeingClosed, supersedes, CallReturns,
     Registrations, Requests, Rows, Sockets, Holders, Seqs, Idle

LEMMA BootEndsGuarded == ASSUME Inv, Guarded, NEW b \in Boots, BootEnds(b) PROVE Guarded'
  BY NoneIsNothing DEF Inv, TypeOK, Told, Guarded, SocketBeingClosed, supersedes, BootEnds,
     Registrations, Requests, Rows, Sockets, Holders, Seqs, Idle

LEMMA SocketBreaksGuarded == ASSUME Inv, Guarded, SocketBreaks PROVE Guarded'
  BY NoneIsNothing DEF Inv, TypeOK, Told, Guarded, SocketBeingClosed, supersedes, SocketBreaks,
     Registrations, Requests, Rows, Sockets, Holders, Seqs, Idle

LEMMA MarkStaleDevicesOfflineGuarded ==
    ASSUME Inv, Guarded, MarkStaleDevicesOffline
    PROVE Guarded'
  BY NoneIsNothing DEF Inv, TypeOK, Told, Guarded, SocketBeingClosed, supersedes,
     MarkStaleDevicesOffline, Registrations, Requests, Rows, Sockets, Holders, Seqs, Idle

LEMMA NextGuarded == Inv /\ Guarded /\ [Next]_vars => Guarded'
<1> SUFFICES ASSUME Inv, Guarded, [Next]_vars PROVE Guarded'
  OBVIOUS
<1>1. ASSUME NEW b \in Boots, Handler(b) PROVE Guarded'
  BY <1>1, RegisterLocksGuarded, RegisterCommitsGuarded, RegisterRefusedGuarded,
     RegisterAnswersGuarded, RegisterReturnsGuarded, CallChecksGuarded, UpdateEndpointGuarded,
     ReleasePresenceGuarded, OtherActionGuarded, UpgradeRegistersGuarded, CallReturnsGuarded
     DEF Handler
<1>2. ASSUME NEW b \in Boots, RegisterLooksUp(b) \/ BootEnds(b) PROVE Guarded'
  BY <1>2, RegisterLooksUpGuarded, BootEndsGuarded
<1>3. ASSUME NEW b \in Boots, NEW kind \in Kinds, CallArrives(b, kind) PROVE Guarded'
  BY <1>3, CallArrivesGuarded
<1>4. CASE SocketBreaks \/ MarkStaleDevicesOffline
  BY <1>4, SocketBreaksGuarded, MarkStaleDevicesOfflineGuarded
<1>5. CASE UNCHANGED vars
  BY <1>5 DEF vars, Guarded, SocketBeingClosed, supersedes
<1> QED BY <1>1, <1>2, <1>3, <1>4, <1>5 DEF Next

LEMMA InitGuarded == Init => (enrolled => Guarded)
<1> SUFFICES ASSUME Init, enrolled PROVE Guarded
  OBVIOUS
<1>1. row # None
  BY DEF Init, enrolled, seqNow
<1> QED BY <1>1 DEF Init, Guarded, Idle

\* No process asks with the number of a session it does not have.
LEMMA EnrolledStays == Inv /\ [Next]_vars => (enrolled' <=> enrolled)
<1> SUFFICES ASSUME Inv, [Next]_vars PROVE enrolled' <=> enrolled
  OBVIOUS
<1>1. \/ left' = left
      \/ \E b \in Boots : session[b] # 0 /\ left' = left \union {session[b]}
      \/ row # None /\ left' = left \union {row.seq}
  BY DEF Next, Handler, RegisterLooksUp, RegisterLocks, RegisterCommits, RegisterRefused,
     RegisterAnswers, RegisterReturns, CallArrives, CallChecks, UpdateEndpoint, ReleasePresence,
     OtherAction, UpgradeRegisters, CallReturns, BootEnds, SocketBreaks, MarkStaleDevicesOffline,
     vars, registering, calling
<1>2. row # None => row.seq # 0
  BY DEF Inv, TypeOK, Rows, Seqs
<1> QED BY <1>1, <1>2 DEF enrolled

-----------------------------------------------------------------------------
(* The theorems.                                                           *)

\* Whether or not the device existed before: its row shows the facts of the
\* process that is registered, and it goes offline because that process asked
\* or fell silent, never because a superseded one is still shutting down
\* (devices.go, each transaction's check of the sequence).
THEOREM RowStaysCurrent == Spec => []RowIsCurrent
<1>1. Inv => RowIsCurrent
  BY DEF Inv, RowIsCurrent
<1> QED BY <1>1, InitInv, NextInv, PTL DEF Spec

\* A registration that is repeated, delayed or late neither renumbers its own
\* session nor takes the device back from a newer process
\* (registerDeviceWithOptions).
THEOREM RegistrationsOnlyAdvance == Spec => SessionsAdvance
<1> DEFINE Advance ==
       row # None =>
          /\ row'.incarnation >= row.incarnation
          /\ row'.seq > row.seq <=> row'.incarnation > row.incarnation
<1>1. ASSUME Inv, [Next]_vars PROVE [Advance]_vars
  <2> SUFFICES ASSUME row # None PROVE Advance
    OBVIOUS
  <2>1. row \in Rows
    BY <1>1 DEF Inv, TypeOK
  <2>2. \/ row' = row
        \/ \E b \in Boots : RegisterCommits(b)
        \/ \E b \in Boots : UpdateEndpoint(b) \/ ReleasePresence(b)
        \/ MarkStaleDevicesOffline
    BY <1>1 DEF Next, Handler, RegisterLooksUp, RegisterLocks, RegisterRefused, RegisterAnswers,
       RegisterReturns, CallArrives, CallChecks, OtherAction, UpgradeRegisters, CallReturns,
       BootEnds, SocketBreaks, vars, registering, calling
  <2>3. ASSUME NEW b \in Boots, RegisterCommits(b) PROVE Advance
    <3>1. row' = registered(b) /\ row.incarnation <= incarnation[b]
      BY <2>3 DEF RegisterCommits
    <3> QED BY <2>1, <3>1, RegisteredRow, SessionConstants DEF Rows, Seqs
  <2>4. ASSUME NEW b \in Boots, UpdateEndpoint(b) PROVE Advance
    <3>1. row' = row \/ Heartbeat(b)
      BY <2>4 DEF UpdateEndpoint, Heartbeat
    <3> QED BY <2>1, <3>1, HeartbeatRow DEF Rows, Seqs
  <2>5. ASSUME NEW b \in Boots, ReleasePresence(b) PROVE Advance
    <3>1. row' = row \/ row' = [row EXCEPT !.online = FALSE]
      BY <2>5 DEF ReleasePresence
    <3> QED BY <2>1, <3>1 DEF Rows, Seqs
  <2>6. ASSUME MarkStaleDevicesOffline PROVE Advance
    <3>1. row' = row \/ row' = [row EXCEPT !.online = FALSE]
      BY <2>6 DEF MarkStaleDevicesOffline
    <3> QED BY <2>1, <3>1 DEF Rows, Seqs
  <2>7. row' = row => Advance
    BY <2>1 DEF Rows, Seqs
  <2> QED BY <2>2, <2>3, <2>4, <2>5, <2>6, <2>7
<1> QED BY <1>1, InitInv, NextInv, PTL DEF Spec, SessionsAdvance

\* Whether a device was enrolled before the first process here is settled at the
\* start: what is stated for an enrolled device is not given up on the way.
THEOREM EnrolmentIsSettled == Spec => [][enrolled' <=> enrolled]_vars
<1>1. Inv /\ [Next]_vars => [enrolled' <=> enrolled]_vars
  BY EnrolledStays
<1> QED BY <1>1, InitInv, NextInv, PTL DEF Spec

\* A device that is enrolled: whatever a request does, it does while the session
\* it proved is the registered one, so no registration gets between its check
\* and its action (registration_session.go).
THEOREM RequestsActUnderTheirLock == Spec => ActsUnderItsLock
<1>1. Inv /\ (enrolled => Guarded) => [enrolled => acts_under_its_session]_vars
  BY DEF Guarded, acts_under_its_session
<1>2. Inv /\ (enrolled => Guarded) /\ [Next]_vars => (enrolled => Guarded)'
  BY EnrolledStays, NextGuarded
<1> QED BY <1>1, <1>2, InitInv, NextInv, InitGuarded, PTL DEF Spec, ActsUnderItsLock

\* And its wake-up socket is the registered process's, but for the moment
\* between a registration's commit and its Disconnect (device_handlers.go).
THEOREM SocketStaysCurrent == Spec => []SocketFollowsRow
<1>1. (enrolled => Guarded) => SocketFollowsRow
  BY DEF Guarded, SocketBeingClosed, SocketIsCurrent, SocketFollowsRow
<1>2. Inv /\ (enrolled => Guarded) /\ [Next]_vars => (enrolled => Guarded)'
  BY EnrolledStays, NextGuarded
<1> QED BY <1>1, <1>2, InitInv, NextInv, InitGuarded, PTL DEF Spec
=============================================================================
