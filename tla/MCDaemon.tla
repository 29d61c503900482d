----------------------------- MODULE MCDaemon ------------------------------
(* Three parts of the daemon that keep going until their work is done.  A    *)
(* behaviour starts in one scenario and stays in it:                       *)
(*   mtu      one path, whose network changes what it carries              *)
(*   repath   paths that come and go under two reconciliations             *)
(*   loop     control events and the workers of the loop they arrive at    *)
(*   keys     the handshakes of two peers                                  *)
EXTENDS Dplpmtud, HandshakeSessions

CONSTANTS
    Lanes, Others, MaxEvents, MaxTraffic            \* ControlEventLoop

VARIABLES
    scenario,
    job, line, queueing, polled, events, traffic

loopVars == <<job, line, queueing, polled, events, traffic>>

OnePath == INSTANCE Dplpmtud WITH MaxPaths <- 1, MaxInbound <- 0
Repath == INSTANCE Dplpmtud WITH
    Ceiling <- 6, MaxRetries <- 0, Mtus <- {5}, Nonces <- {1, 2},
    MaxMtuChanges <- 0, MaxFaults <- 0, MaxSends <- 0

\* Without the events that retire a session, whose handlers stop polling the
\* workers (run control_loop_parked).
Loop == INSTANCE ControlEventLoop WITH Workers <- Lanes, Events <- {"updated", "answer", "offer"}

ScenarioInit ==
    /\ Loop!Init /\ HandshakeInit
    /\ \/ scenario = "mtu" /\ Init /\ mtu # Ceiling
       \/ scenario \in {"repath", "loop", "keys"} /\ Repath!Init

ScenarioNext ==
    \/ scenario = "mtu" /\ OnePath!Next /\ UNCHANGED <<loopVars, allVars, scenario>>
    \/ scenario = "repath" /\ Repath!Next /\ UNCHANGED <<loopVars, allVars, scenario>>
    \/ scenario = "loop" /\ Loop!Next /\ UNCHANGED <<vars, allVars, scenario>>
    \/ scenario = "keys" /\ HandshakeNext /\ UNCHANGED <<vars, loopVars, scenario>>

OverPaths == scenario \in {"mtu", "repath"}

ScenarioSpec ==
    /\ ScenarioInit /\ [][ScenarioNext]_<<vars, loopVars, allVars, scenario>>
    /\ \A w \in Workers : WF_vars(\/ scenario = "mtu" /\ OnePath!WorkerStep(w)
                                  \/ scenario = "repath" /\ Repath!WorkerStep(w))
    /\ \A r \in Reconcilers : WF_vars(\/ scenario = "mtu" /\ OnePath!ReconcileActs(r)
                                      \/ scenario = "repath" /\ Repath!ReconcileActs(r))
    /\ WF_vars(OverPaths /\ ReconcileReads("scheduler"))
    /\ WF_vars(OverPaths /\ ConfirmationDue)
    /\ WF_vars(\/ scenario = "mtu" /\ OnePath!ProbeLate
               \/ scenario = "repath" /\ Repath!ProbeLate)
    /\ WF_vars(\/ scenario = "mtu" /\ OnePath!RaiseDue
               \/ scenario = "repath" /\ Repath!RaiseDue)
    /\ WF_vars(\/ scenario = "mtu" /\ \E a \in answers : OnePath!AnswerArrives(a)
               \/ scenario = "repath" /\ \E a \in answers : Repath!AnswerArrives(a))
    /\ \A t \in Loop!Tasks : WF_loopVars(scenario = "loop" /\ Loop!Works(t))
    /\ WF_allVars(scenario = "keys" /\ Progress)
    /\ WF_allVars(scenario = "keys" /\ TakesAnswer)
    /\ WF_allVars(scenario = "keys" /\ Confirms)

-----------------------------------------------------------------------------
\* The properties, with the sizes of their scenario.
BudgetSettlesEverywhere ==
    <>[](CASE scenario = "mtu" -> Settled
           [] scenario = "repath" -> Repath!Settled
           [] OTHER -> TRUE)
LoopReturns == []Loop!TypeOK /\ Loop!LoopReturns
=============================================================================
