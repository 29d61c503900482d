-------------------------- MODULE HandshakeSessions --------------------------
(***************************************************************************)
(* Two peers that agree on keys: the answering end of ResponderSessions    *)
(* and the end whose static key is the smaller one, which always initiates *)
(* (handshake/initiate.rs, handshake_maintenance.rs, handshake/answer.rs). *)
(*                                                                         *)
(* Offers travel as durable signals of one sender: they are handled in the *)
(* order they were sent, and again when their handling asks for a retry    *)
(* (SignalDelivery).  An answer that Control has accepted stays available  *)
(* until it is taken or no longer wanted.                                  *)
(***************************************************************************)
EXTENDS ResponderSessions

CONSTANTS
    RekeyAfter,         \* REKEY_AFTER_TIME
    InitiatorTimeout,   \* HANDSHAKE_TIMEOUT_SECS
    MaxMishaps           \* bound: what may go wrong

\* An initiation is given up before a key staged for it has expired.
ASSUME TimeoutsAssumption ==
    /\ {RekeyAfter, InitiatorTimeout} \subseteq Nat \ {0}
    /\ InitiatorTimeout <= PendingGrace
    /\ MaxMishaps \in Nat

VARIABLES
    mine,       \* the pending initiation: its token and the ticks it has left
    own,        \* the initiator's active key: its token and age
    offers,     \* offers on their way or to be redelivered
    offered,    \* the last token offered (history)
    lost,       \* tokens whose key the answering end let go for a named reason (history)
    faults,
    calm        \* the last handshake began after the last fault (history)

initiator == <<mine, own, offers, offered>>
allVars == <<sessionVars, initiator, lost, faults, calm>>

NoOffer == [token |-> None, left |-> 0]
NoKey == [token |-> None, age |-> 0]
Last == CHOOSE t \in Tokens : \A u \in Tokens : u <= t

-----------------------------------------------------------------------------
(* The initiator.                                                          *)

\* Nothing of an earlier handshake is under way.
settled ==
    /\ answerer = NoWork /\ proven = None /\ offers = {}
    /\ own # NoKey => keys.pending[own.token] = Gone

\* Without a session at once, with one when it needs a rekey; never while one
\* initiation is pending.
Offers(t) ==
    /\ mine = NoOffer /\ t > offered /\ \A u \in Tokens : u > offered => t <= u
    /\ own = NoKey \/ own.age >= RekeyAfter
    /\ mine' = [token |-> t, left |-> InitiatorTimeout]
    /\ offers' = offers \cup {t}
    /\ offered' = t
    /\ calm' = (t = Last /\ faults = MaxMishaps /\ settled)
    /\ UNCHANGED <<sessionVars, own, lost, faults>>

\* spawn_bounded_handshake_retransmission: the exact same offer.
Retransmits ==
    /\ mine # NoOffer
    /\ offers' = offers \cup {mine.token}
    /\ UNCHANGED <<sessionVars, mine, own, offered, lost, faults, calm>>

\* An answer counts for the pending initiation only; it takes it away and
\* makes its key active.
TakesAnswer ==
    /\ mine # NoOffer
    /\ PeerAdopts(mine.token)
    /\ mine' = NoOffer
    /\ own' = [token |-> mine.token, age |-> 0]
    /\ UNCHANGED <<offers, offered, lost, faults, calm>>

-----------------------------------------------------------------------------
(* The answering end, with its offers.                                     *)

first(t) == t \in offers /\ \A u \in offers : t <= u

Takes(t) ==
    /\ first(t) /\ Admits(t)
    /\ offers' = offers \ {t}
    /\ UNCHANGED <<mine, own, offered, lost, faults, calm>>

\* Neither cached nor above the timestamp floor: a replayed initiation.
Rejects(t) ==
    /\ first(t) /\ answerer.pc = "idle" /\ cache[t] = 0 /\ t <= floor
    /\ offers' = offers \ {t}
    /\ UNCHANGED <<sessionVars, mine, own, offered, lost, faults, calm>>

\* A key discarded after its answer went out, and pending keys that traffic
\* under another adopted key makes obsolete.
Loses ==
    lost' = lost \cup
        (IF answerer.pc = "accepted" /\ answerer.stale /\ answerer' = NoWork
           THEN {answerer.token} ELSE {}) \cup
        (IF keys'.active \notin {keys.active, None} /\ keys'.active \in adopted
           THEN {t \in Tokens \ {keys'.active} : keys.pending[t] # Gone} ELSE {})

Handles ==
    \/ TurnsStale \/ RefusesOffer \/ Stages("bound") \/ ServesAgain("bound")
    \/ Posts("accepted", TRUE) \/ Commits

Uses ==
    \/ own # NoKey /\ (Receives(own.token) \/ ProbeConfirms(own.token))
    \/ Promotes

\* The offer behind an ambiguous answer comes again.
RepeatsAmbiguous ==
    /\ answerer.pc = "ambiguous" /\ Retries
    /\ offers' = offers \cup {answerer.token}
    /\ UNCHANGED <<mine, own, offered, lost, faults, calm>>

Works ==
    /\ Handles \/ Uses \/ Prunes
    /\ Loses
    /\ UNCHANGED <<initiator, faults, calm>>

-----------------------------------------------------------------------------
(* What goes wrong.                                                        *)

Fault == faults < MaxMishaps /\ faults' = faults + 1 /\ UNCHANGED calm

\* The offer is not settled and comes again.
AsksForRetry ==
    /\ Fault
    /\ \/ StageTimesOut \/ Stages("contended") \/ ServesAgain("contended")
       \/ answerer.pc = "accepted" /\ Retries
    /\ offers' = offers \cup {answerer.token}
    /\ UNCHANGED <<mine, own, offered, lost>>

AnswersBadly ==
    /\ Fault
    /\ Stages("refused") \/ \E out \in BOOLEAN : Posts("ambiguous", out)
    /\ UNCHANGED <<initiator, lost>>

\* A late packet of a key the initiator does not use any more.
OldPacket ==
    /\ Fault
    /\ \E t \in adopted : Receives(t) \/ ProbeConfirms(t)
    /\ Loses
    /\ UNCHANGED initiator

OfferLost ==
    /\ Fault
    /\ \E t \in offers : offers' = offers \ {t}
    /\ UNCHANGED <<sessionVars, mine, own, offered, lost>>

NetworkMoves == Fault /\ NetworkChanges /\ UNCHANGED <<initiator, lost>>

\* The answering end loses the peer, and with it whatever it has answered.
AnswererRetires ==
    /\ Fault
    /\ PeerRetired
    /\ lost' = lost \cup {t \in Tokens : t <= floor}
    /\ UNCHANGED initiator

\* The initiator's own network generation changes (its pending initiation is
\* replaced), or it loses the peer.
InitiatorMoves ==
    /\ Fault
    /\ mine # NoOffer
    /\ mine' = NoOffer
    /\ UNCHANGED <<sessionVars, own, offers, offered, lost>>

InitiatorRetires ==
    /\ Fault
    /\ own # NoKey
    /\ mine' = NoOffer /\ own' = NoKey
    /\ UNCHANGED <<sessionVars, offers, offered, lost>>

-----------------------------------------------------------------------------

Agreed == keys.active = Last /\ own.token = Last

\* The graces are minutes, a handshake without a fault takes seconds.
TimePasses ==
    /\ calm => Agreed
    /\ Tick
    /\ mine' = IF mine.left > 1 THEN [mine EXCEPT !.left = @ - 1] ELSE NoOffer
    /\ own' = IF own # NoKey /\ own.age < RekeyAfter THEN [own EXCEPT !.age = @ + 1] ELSE own
    /\ UNCHANGED <<offers, offered, lost, faults, calm>>

HandshakeInit ==
    /\ SessionInit
    /\ mine = NoOffer /\ own = NoKey
    /\ offers = {} /\ offered = None /\ lost = {}
    /\ faults = 0 /\ calm = FALSE

HandshakeNext ==
    \/ \E t \in Tokens : Offers(t) \/ Takes(t) \/ Rejects(t)
    \/ Retransmits \/ TakesAnswer \/ Works \/ RepeatsAmbiguous
    \/ AsksForRetry \/ AnswersBadly \/ OldPacket \/ OfferLost
    \/ NetworkMoves \/ AnswererRetires \/ InitiatorMoves \/ InitiatorRetires
    \/ TimePasses

HandshakeSpec == HandshakeInit /\ [][HandshakeNext]_allVars

\* The worker and the inbound worker run, an accepted answer arrives, and the
\* confirmation packets that follow an installed answer reach the other end.
Progress ==
    \/ RepeatsAmbiguous \/ \E t \in Tokens : Takes(t) \/ Rejects(t)
    \/ Handles /\ Loses /\ UNCHANGED <<initiator, faults, calm>>
Confirms == Uses /\ Loses /\ UNCHANGED <<initiator, faults, calm>>

HandshakeFairSpec ==
    HandshakeSpec /\ WF_allVars(Progress) /\ WF_allVars(TakesAnswer) /\ WF_allVars(Confirms)

-----------------------------------------------------------------------------
(* Properties.                                                             *)

HandshakeTypeOK ==
    /\ SessionTypeOK
    /\ mine \in [token : Tokens \cup {None}, left : 0..InitiatorTimeout]
    /\ own \in [token : Tokens \cup {None}, age : 0..RekeyAfter]
    /\ offers \subseteq Tokens /\ offered \in Tokens \cup {None}
    /\ lost \subseteq Tokens /\ faults \in 0..MaxMishaps
    \* What PeerAdopts asks for holds whenever the initiator takes an answer.
    /\ mine.token \in answered => mine.token = floor

\* The comment at transport/sessions.rs:528: an answer whose key the responder
\* has discarded can make the initiator install a key nobody holds.  A key the
\* initiator has just installed is active or pending at the other end, unless
\* one of the reasons of lost took it.
InstalledKeyIsHeld ==
    /\ HandshakeTypeOK
    /\ own # NoKey /\ own.age = 0 /\ own.token \notin lost =>
          keys.active = own.token \/ keys.pending[own.token] > 0

\* Once nothing goes wrong any more the next handshake ends with one key
\* active at both ends, whatever was left behind by those before it.
EndsAgree == <>[](calm => Agreed)
=============================================================================
