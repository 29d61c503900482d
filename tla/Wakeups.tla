------------------------------ MODULE Wakeups ------------------------------
(***************************************************************************)
(* The two ways a stored signal reaches the daemon it is for without a     *)
(* timer: a notification of the hub makes the daemon poll (SignalWakeup),  *)
(* and a poll that found nothing is woken by the notifier (LongPoll).      *)
(***************************************************************************)
EXTENDS SignalWakeup

CONSTANTS
    Senders, MaxNodes, MaxSeq, MaxPolls, MaxSignalsPerPair, MaxSignalBatch, Polls   \* LongPoll

ASSUME PollConstants ==
    /\ IsFiniteSet(Senders)
    /\ MaxNodes \in Nat \ {0}
    /\ MaxSeq \in Nat
    /\ MaxPolls \in Nat

VARIABLES
    queue, seqs, node, nodes, polls, expiredThrough, version, unnotified, poll, refreed

longPollVars == <<queue, seqs, node, nodes, polls, expiredThrough, version, unnotified, poll,
                  refreed>>

LP == INSTANCE LongPoll

\* No row is slept through, by a connected daemon or by a long poll.
NothingSleptThrough == WakeupsCovered /\ LP!TypeOK /\ LP!NoLostWakeup
=============================================================================
