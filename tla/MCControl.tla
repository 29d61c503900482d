----------------------------- MODULE MCControl -----------------------------
(* What the control server keeps of one device: its registration, its path *)
(* telemetry and the signals for it.  A behaviour starts in one            *)
(* scenario and stays in it:                                               *)
(*   retries  an enrolled device whose registrations are repeated          *)
(*   calls    an enrolled device whose processes call twice                *)
(*   first    the first registrations of a device, which take no lock      *)
(*   http     telemetry by the HTTP worker, whose requests are answered    *)
(*   lossy    telemetry by HTTP, one request of which gets no answer       *)
(*   socket   telemetry by both senders, a queue of one, and every fault   *)
(*   signals  signals delivered, redelivered and applied, with one failure *)
EXTENDS RegistrationSession, TelemetryState

CONSTANTS
    b1, b2,
    MaxCommits, MaxProcesses, MaxSockets, MaxFailures,  \* PathTelemetry
    Senders, MaxSeq, MaxPolls, MaxSignalsPerPair, MaxRegistrations                  \* SignalDelivery

VARIABLES
    scenario,
    queue, seqs, node, nodes, polls, expiredThrough, auth, regs, inbox, lanes, tracker, receipts,
    releasing, late, signalFailures, expiries, effects, settled, ackedSignals

signalVars == <<queue, seqs, node, nodes, polls, expiredThrough, auth, regs, inbox, lanes, tracker,
                receipts, releasing, late, signalFailures, expiries, effects, settled, ackedSignals>>

Incarnations == [b \in Boots |-> IF b = b1 THEN 2 ELSE 3]

Retries == INSTANCE RegistrationSession WITH MaxCalls <- 1
Calls == INSTANCE RegistrationSession WITH MaxTries <- 1
First == INSTANCE RegistrationSession WITH MaxTries <- 1

Http == INSTANCE PathTelemetry WITH MaxSockets <- 0, MaxFailures <- 0, MaxProcesses <- 1
Lossy == INSTANCE PathTelemetry WITH MaxSockets <- 0, MaxCommits <- 2
Socket == INSTANCE PathTelemetry WITH MaxDirty <- 1, MaxCommits <- 2, MaxProcesses <- 1

Signals == INSTANCE SignalDelivery WITH
    MaxNodes <- 1, MaxExpiries <- 0, MaxSignalBatch <- 2, MaxRecentSignalIds <- 1, Unsupported <- {2},
    failures <- signalFailures, acked <- ackedSignals

ScenarioInit ==
    /\ Init /\ Http!Init /\ Signals!Init
    /\ scenario \in {"retries", "calls", "first", "http", "lossy", "socket", "signals"}
    /\ scenario = "first" <=> row = None

ScenarioNext ==
    \/ scenario = "retries" /\ Retries!Next /\ UNCHANGED <<telemetryVars, signalVars, scenario>>
    \/ scenario = "calls" /\ Calls!Next /\ UNCHANGED <<telemetryVars, signalVars, scenario>>
    \/ scenario = "first" /\ First!Next /\ UNCHANGED <<telemetryVars, signalVars, scenario>>
    \/ scenario = "http" /\ Http!Next /\ UNCHANGED <<vars, signalVars, scenario>>
    \/ scenario = "lossy" /\ Lossy!Next /\ UNCHANGED <<vars, signalVars, scenario>>
    \/ scenario = "socket" /\ Socket!Next /\ UNCHANGED <<vars, signalVars, scenario>>
    \/ scenario = "signals" /\ Signals!Next /\ UNCHANGED <<vars, telemetryVars, scenario>>

ScenarioSpec ==
    /\ ScenarioInit /\ [][ScenarioNext]_<<vars, telemetryVars, signalVars, scenario>>
    /\ \A b \in Boots : WF_vars(Handler(b))
    /\ WF_telemetryVars(scenario = "http" /\ Http!Hub)
    /\ WF_telemetryVars(scenario = "http" /\ Http!Flush)
    /\ WF_telemetryVars(scenario = "http" /\ Http!Control)
    /\ WF_signalVars(scenario = "signals" /\ Signals!Progress)

-----------------------------------------------------------------------------
\* The newest process gets the device, and where registrations take the lock the
\* socket of a superseded one ends.
NewestProcessTakesOver ==
    /\ NewestTakesOver
    /\ enrolled => SupersededSocketEnds

\* Where no POST is lost, Control ends with the latest observation of each peer.
LatestIsStoredOverHttp == scenario = "http" => Http!LatestIsStored
EverySignalSettles == Signals!EverySignalSettles
=============================================================================
