---------------------------- MODULE SessionGraces ----------------------------
(***************************************************************************)
(* The limits the handshakes of one peer live by (transport.rs, lib.rs).   *)
(***************************************************************************)
EXTENDS Integers

CONSTANTS
    Tokens,         \* handshake transactions
    MaxPending,     \* MAX_PENDING_RESPONDER_SESSIONS_PER_PEER
    PendingGrace,   \* PENDING_RESPONDER_SESSION_GRACE
    PreviousGrace,  \* PREVIOUS_SESSION_GRACE
    ReplayGrace,    \* RESPONDER_SESSION_REPLAY_GRACE
    CacheTtl        \* RESPONDER_HANDSHAKE_CACHE_TTL

ASSUME TokensAssumption == Tokens \subseteq Nat \ {0}
\* A cached answer is never kept longer than the memory of what became of it.
ASSUME GracesAssumption ==
    /\ {PendingGrace, PreviousGrace, ReplayGrace, CacheTtl} \subseteq Nat \ {0}
    /\ CacheTtl <= ReplayGrace
    /\ MaxPending \in Nat
=============================================================================
