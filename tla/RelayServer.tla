----------------------------- MODULE RelayServer -----------------------------
(***************************************************************************)
(* One relay: its hub, its copy of the control server's revocations, and   *)
(* the send queue of one of its peers.                                     *)
(* Hub and feed share what the relay knows to be revoked (tombstones) and  *)
(* whether that is recent enough to admit anyone (fresh).                  *)
(***************************************************************************)
EXTENDS RelayHub

CONSTANTS
    PageRows, PagesPerRefresh, MaxRevision, MaxFaults,      \* RevocationFeed
    Sources, Sizes, ControlSizes, frames, maxBytes, controlBytes   \* RelaySendQueue

\* A page holds at least one row.
ASSUME FeedAssumption ==
    /\ PageRows \in Nat \ {0}
    /\ MaxRevision \in Nat /\ MaxFaults \in Nat

\* The bytes kept for control frames are some of the queue's (send_queue.go).
ASSUME QueueAssumption ==
    /\ None \notin Sources
    /\ Sizes \subseteq Nat \ {0} /\ ControlSizes \subseteq Nat \ {0}
    /\ frames \in Nat \ {0}
    /\ maxBytes \in Nat /\ controlBytes \in 0..maxBytes

VARIABLES
    revision, rows, age, version, cursor, through, pages, answer, faults,
    sent, held, queuedBytes, queuedBySource, writer, swept, ended

feedVars == <<revision, rows, age, version, cursor, through, pages, answer, faults>>
queueVars == <<sent, held, queuedBytes, queuedBySource, writer, swept, ended>>

Feed == INSTANCE RevocationFeed

Queue == INSTANCE RelaySendQueue WITH
    send <- sent, writing <- held, revoked <- swept, done <- ended, capacity <- frames

\* The properties of the feed, under the names they have there.
CatchUpSound == Feed!CatchUpSound
RevocationsArrive == Feed!RevocationsArrive

\* The slots of the relay and the budgets of a send queue.
LimitsHold == SlotsBounded /\ Queue!BudgetsKept
=============================================================================
