--------------------------- MODULE HandshakeMark ---------------------------
(***************************************************************************)
(* The handshake beside the path machine of one peer                       *)
(* (client/daemon/src/lib/daemon/handshake/offer.rs, answer.rs).           *)
(*                                                                         *)
(* After a session is installed the handshake task reads a clone of the    *)
(* connection, decides from its state that the peer should show as         *)
(* Connecting, and only then takes the locks and asks for the transition.  *)
(* The second step re-checks the peer session and that the connection is   *)
(* not Closed, but not the state the decision was made from.  Any path     *)
(* event may be committed in between.                                      *)
(***************************************************************************)
EXTENDS PathStateMachine

VARIABLE decided   \* the session a Connecting mark was decided for, or None

handshakeVars == <<path, receipts, observations, now, suppressed, decided>>

HandshakeInit == Init /\ decided = None

\* get_connection() returns a clone; should_mark_connecting_after_session_install
\* reads the state in it.
DecideConnecting ==
    /\ decided = None
    /\ path.lifecycle = "Online"
    /\ should_mark_connecting(path.compat)
    /\ decided' = path.epoch.session
    /\ UNCHANGED vars

\* update_state_if_peer_session_current: session, online and not Closed are
\* checked under the locks, then transition(Connecting) commits.
MarkConnecting ==
    /\ decided # None
    /\ decided' = None
    /\ IF path.lifecycle = "Online" /\ path.epoch.session = decided
       THEN \E d \in DirectEndpoints, r \in RelayConnectionIdentity :
               CompatibilityStateRequested(path.epoch, "Connecting", d, r)
       ELSE UNCHANGED vars

HandshakeNext ==
    \/ (LifecycleStep \/ RelayStep \/ DirectStep \/ Tick) /\ UNCHANGED decided
    \/ DecideConnecting
    \/ MarkConnecting

HandshakeSpec == HandshakeInit /\ [][HandshakeNext]_handshakeVars

-----------------------------------------------------------------------------
\* "the direct keepalive/probe machinery is the only authoritative demoter (it
\* transitions Direct -> FallbackToRelay on ACK timeouts)"
\* (peer/manager/relay/confirmation.rs): within an epoch and a session a peer
\* leaves Direct only for the fallback, by a Direct failure.
OnlyDirectMachineryDemotes ==
    [][/\ path.active.kind = "Direct"
       /\ path'.active.kind # "Direct"
       /\ path'.epoch = path.epoch
       /\ path'.lifecycle = "Online"
       => path'.compat \in {"FallbackToRelay", "Relay"}]_handshakeVars
=============================================================================
