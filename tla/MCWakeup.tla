------------------------------ MODULE MCWakeup ------------------------------
(* What wakes a daemon up, in one run.  A behaviour starts in one scenario *)
(* and stays in it:                                                        *)
(*   wake     rows posted and notified to a daemon behind the hub          *)
(*   limit    three sockets of one device at a hub with room for one       *)
(*   closing  two sockets of one device at a hub that may be closed        *)
(*   poll     the long poll, with its timers                               *)
(*   untimed  the long poll, whose fallback timer never helps              *)
EXTENDS Wakeups

CONSTANTS n1, s3

VARIABLE scenario

allVars == <<wvars, longPollVars, scenario>>

OneOwner == [c \in Sockets |-> n1]

\* The daemon's hub has room for its sockets, the others for one.
Wake == INSTANCE SignalWakeup WITH maxConnections <- 2

ScenarioInit ==
    /\ WakeupInit /\ LP!Init
    /\ scenario \in {"wake", "limit", "closing", "poll", "untimed"}

ScenarioNext ==
    \/ /\ scenario = "wake"
       /\ Wake!WakeupNext
       /\ UNCHANGED <<longPollVars, scenario>>
    \/ /\ scenario = "limit"
       /\ Server(HubNext)
       /\ ~\E c \in Sockets : ConnectionLost(c)
       /\ UNCHANGED <<notice, evicting, closed, longPollVars, scenario>>
    \/ /\ scenario = "closing"
       /\ Server(HubNext)
       /\ handler'[s3] = "idle"
       /\ UNCHANGED <<notice, longPollVars, scenario>>
    \/ /\ scenario = "poll"
       /\ LP!Next
       /\ UNCHANGED <<wvars, scenario>>
    \/ /\ scenario = "untimed"
       /\ LP!NextWithoutTimers
       /\ UNCHANGED <<wvars, scenario>>

ScenarioSpec ==
    /\ ScenarioInit /\ [][ScenarioNext]_allVars
    /\ \A c \in Sockets : WF_wvars(Server(SocketStep(c))) /\ WF_wvars(Wake!Registers(c))
    /\ \A i \in Notices : WF_wvars(Server(NotifyStep(i)) \/ \E n \in receiver : Notified(i, n))
    /\ WF_wvars(scenario = "wake" /\ Server(DisconnectStops))
    /\ WF_wvars(scenario = "wake" /\ \E c \in Sockets : Dial(c))
    /\ WF_wvars(Reads)
    /\ WF_wvars(PollOnWake)
    /\ \A p \in Polls : /\ WF_longPollVars(LP!PollStep(p))
                        /\ WF_longPollVars(scenario = "poll" /\ LP!FallbackTimer(p))
                        /\ WF_longPollVars(scenario = "poll" /\ LP!DeadlinePasses(p))
    /\ WF_longPollVars(scenario = "untimed" /\ \E k \in unnotified : LP!notify(k))

-----------------------------------------------------------------------------
\* With its timers a poll answers at its deadline, without them its
\* notifications still wake it.
PollsEnd ==
    /\ scenario = "poll" => LP!EveryPollReturns
    /\ scenario = "untimed" => LP!NobodySleepsForever
=============================================================================
