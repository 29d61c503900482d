------------------------------ MODULE MCRelay ------------------------------
(* The parts of the relay server in one run.  A behaviour starts in one    *)
(* scenario and stays in it:                                               *)
(*   renewal  two connections of one node, the second with a new ticket    *)
(*   outage   a ticketed and a legacy connection, staleness and shutdown   *)
(*   limit    three connections at a relay with room for two               *)
(*   traffic  one connection that is revoked while it receives frames      *)
(*   feed     the revocation feed, its pages, failures and restarts        *)
(*   queue    the budgets of one send queue                                *)
EXTENDS RelayServer

CONSTANTS c1, c2, c3, n1, n2, i1, i2

VARIABLE scenario

hubVars == vars
allVars == <<hubVars, feedVars, queueVars, scenario>>

\* c1 and c2 are two connections of one node, the second with a new ticket.
TwoNodes == [c \in Conns |-> IF c = c3 THEN n2 ELSE n1]
TwoTickets == [c \in Conns |-> IF c = c2 THEN i2 ELSE i1]

Quiet == INSTANCE RelayHub WITH MaxData <- 0

\* What a scenario's connections are.
only(S) == \A c \in Conns \ S : phase'[c] = "idle"

ScenarioInit ==
    /\ Init /\ Feed!Init /\ Queue!Init
    /\ scenario \in {"renewal", "outage", "limit", "traffic", "feed", "queue"}

ScenarioNext ==
    \/ /\ scenario = "renewal"
       /\ Quiet!Next /\ only({c1, c2})
       /\ ~closing' /\ (fresh => fresh')
       /\ UNCHANGED <<feedVars, queueVars, scenario>>
    \/ /\ scenario = "outage"
       /\ Quiet!Next /\ only({c1, c3})
       /\ tombstones' = {}
       /\ UNCHANGED <<feedVars, queueVars, scenario>>
    \/ /\ scenario = "limit"
       /\ Quiet!Next
       /\ ~closing' /\ fresh' = fresh /\ tombstones' = {}
       /\ UNCHANGED <<feedVars, queueVars, scenario>>
    \/ /\ scenario = "traffic"
       /\ Next /\ only({c1})
       /\ UNCHANGED <<feedVars, queueVars, scenario>>
    \/ /\ scenario = "feed"
       /\ Feed!Next
       /\ UNCHANGED <<peers, retired, newest, serverVars, readerVars, writerVars, peerVars,
                      queueVars, scenario>>
    \/ /\ scenario = "queue"
       /\ Queue!Next
       /\ UNCHANGED <<hubVars, feedVars, scenario>>

\* In the feed's scenario no connection has anything to do.
ScenarioSpec ==
    /\ ScenarioInit /\ [][ScenarioNext]_allVars
    /\ Fairness
    /\ WF_feedVars(scenario = "feed" /\ Feed!Refresh)
=============================================================================
