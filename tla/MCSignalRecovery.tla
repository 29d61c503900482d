------------------------- MODULE MCSignalRecovery -------------------------
(* Two instances of SignalDelivery in one run; a behaviour starts in one   *)
(* and stays in it.  "recovery" has failures; "churn" adds a TTL expiry, a *)
(* deleted device and a full pair queue.                                   *)
EXTENDS SignalDelivery

VARIABLE scenario

Recovery == INSTANCE SignalDelivery WITH MaxNodes <- 1, MaxExpiries <- 0

Churn == INSTANCE SignalDelivery WITH MaxPolls <- 2, MaxSignalsPerPair <- 1

ScenarioInit == Init /\ scenario \in {"recovery", "churn"}

ScenarioNext ==
    \/ scenario = "recovery" /\ Recovery!Next /\ UNCHANGED scenario
    \/ scenario = "churn" /\ Churn!Next /\ UNCHANGED scenario

ScenarioSpec == ScenarioInit /\ [][ScenarioNext]_<<vars, scenario>>

=============================================================================
