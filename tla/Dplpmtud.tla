------------------------------ MODULE Dplpmtud ------------------------------
(***************************************************************************)
(* Path MTU discovery of one peer's Direct path: the pure reducer          *)
(* (dplpmtud/state_machine.rs), the registry entry that fences it          *)
(* (dplpmtud/runtime.rs), the worker that probes (udp_direct.rs), the      *)
(* reconciliation with the committed path and the traffic that uses the    *)
(* budget (udp/business_mtu.rs).                                           *)
(*                                                                         *)
(* A step holds the registry's lock at most once; what a worker, a         *)
(* reconciliation or a sender read before is its own copy.  Time enters as *)
(* "late" for the deadline of a probe and "due" for the two timers.        *)
(* Sequence number, nonce and path cookie of a probe only tell probes      *)
(* apart, so a fresh nonce of a small pool stands for all three; the same  *)
(* goes for budget revisions, which are only compared with a held one, and *)
(* for the tokens of worker owners.                                        *)
(***************************************************************************)
EXTENDS Naturals, FiniteSets

CONSTANTS
    Base, Ceiling, Granularity, \* sizes of a UDP datagram
    MaxRetries,
    Mtus,           \* what the network may carry
    Workers,        \* worker tasks, reused after they ended
    Nonces, Revs,   \* pools of fresh values
    MaxPaths,       \* bound: paths the peer commits
    MaxMtuChanges,  \* bound: changes of what the network carries
    MaxFaults,      \* bound: lost answers, failed sends, expired workers
    MaxInbound,     \* bound: reconciliations beside the scheduler's
    MaxSends        \* bound: tokens the sender captures

ASSUME SizesAssumption ==
    /\ {Base, Ceiling, Granularity} \subseteq Nat \ {0}
    /\ Base < Ceiling /\ Granularity < Base
    /\ MaxRetries \in Nat /\ MaxPaths \in Nat /\ Mtus \subseteq Nat
    /\ 0 \notin Workers \cup Nonces

\* There is a revision beside the entry's and the one a sender holds.
ASSUME RevsAssumption ==
    Revs # {} /\ \A held \in Revs \cup {0} : \A r \in Revs : Revs \ {r, held} # {}

VARIABLES
    committed,  \* the Direct path the path reducer has committed, 0 for none
    m,          \* DplpmtudStateMachine of the peer's entry
    rev,        \* budget_revision of the entry
    owner,      \* worker_owner_token, 0 for none (and then not running)
    sip,        \* send_in_progress
    worker,     \* the tasks of run_dplpmtud_worker
    rec,        \* the two places that reconcile, and what each has read
    due,        \* the scheduler has to reconcile
    answers,    \* probes the peer has answered, the answer on its way
    token,      \* DirectBusinessSendToken of one business sender
    mtu,        \* what the network carries at present
    used        \* what has been spent of the bounds

vars == <<committed, m, rev, owner, sip, worker, rec, due, answers, token, mtu, used>>
entry == <<m, rev, owner, sip>>

Paths == 1..MaxPaths
Sizes == Base..Ceiling
NoProbe == [nonce |-> 0, cand |-> 0, path |-> 0]
NoOut == [probe |-> NoProbe, sent |-> FALSE, late |-> FALSE, retry |-> 0]
NoToken == [path |-> 0, size |-> 0, rev |-> 0, state |-> "none", old |-> FALSE]
Reconcilers == {"scheduler", "inbound"}
Timer == {"off", "armed", "ripe", "due"}

-----------------------------------------------------------------------------
(* The reducer.                                                            *)

max(a, b) == IF a > b THEN a ELSE b
min(a, b) == IF a < b THEN a ELSE b
saturating_sub(a, b) == IF a > b THEN a - b ELSE 0

\* for_path_with_reason(identity, supported = true)
for_path(p) ==
    [path |-> p, state |-> "Base", base_confirmed |-> FALSE, confirmed |-> 0,
     upper |-> Ceiling, pending |-> Base, confirming |-> FALSE,
     confirm_at |-> "off", raise_at |-> "off", out |-> NoOut, retry |-> 0]

\* The next size to try, 0 when the search is over.
next_search_candidate(confirmed, upper) ==
    IF upper <= confirmed THEN 0
    ELSE LET steps == ((upper - confirmed) \div 2) \div Granularity
         IN  min(max(confirmed + steps * Granularity, confirmed + Granularity), upper)

business_confirmed(n) ==
    IF n.state = "Disabled" \/ ~n.base_confirmed THEN 0 ELSE n.confirmed

Cancelled(n) ==
    [n EXCEPT !.state = "Disabled", !.base_confirmed = FALSE, !.confirmed = 0,
              !.out = NoOut, !.pending = 0, !.confirming = FALSE,
              !.confirm_at = "off", !.raise_at = "off"]

enter_base_error(n) ==
    [n EXCEPT !.base_confirmed = FALSE, !.confirmed = 0, !.pending = 0,
              !.confirming = FALSE, !.confirm_at = "off",
              !.state = "Error", !.raise_at = "armed"]

\* Where a search goes on, or rests until one of its timers.
searched(n, confirmed, upper) ==
    LET next == next_search_candidate(confirmed, upper)
    IN  [n EXCEPT !.confirmed = confirmed, !.upper = upper, !.pending = next,
                  !.state = IF next = 0 THEN "SearchComplete" ELSE "Searching",
                  !.confirm_at = IF next = 0 THEN "armed" ELSE @,
                  !.raise_at = IF next = 0 THEN "armed" ELSE "off"]

lower_after_failed_search_candidate(n, failed) ==
    LET failed_upper == max(saturating_sub(failed, Granularity), n.confirmed)
    IN  searched([n EXCEPT !.confirming = FALSE, !.confirm_at = "off"],
                 n.confirmed, min(n.upper, failed_upper))

\* Mutant: a failed confirmation narrows the search and keeps the budget.
lower_keeping_confirmed(n, failed) ==
    searched([n EXCEPT !.confirming = FALSE, !.confirm_at = "off"], n.confirmed, n.confirmed)

\* Mutant: the base is probed as if it were still the confirmation.
lower_still_confirming(n, failed) ==
    [n EXCEPT !.confirm_at = "off", !.raise_at = "off",
              !.upper = max(min(n.upper, saturating_sub(failed, Granularity)), Base),
              !.base_confirmed = FALSE, !.confirmed = 0,
              !.out = NoOut, !.pending = Base, !.retry = 0, !.state = "Base"]

\* A confirmation that fails invalidates the size; the base has to be
\* answered anew before anything is usable.
lower_after_current_confirmation_failure(n, failed) ==
    [n EXCEPT !.confirming = FALSE, !.confirm_at = "off", !.raise_at = "off",
              !.upper = max(min(n.upper, saturating_sub(failed, Granularity)), Base),
              !.base_confirmed = FALSE, !.confirmed = 0,
              !.out = NoOut, !.pending = Base, !.retry = 0, !.state = "Base"]

\* The size of the probe is given up for good.
given_up(n, cand) ==
    LET k == [n EXCEPT !.out = NoOut]
    IN  IF n.confirming THEN lower_after_current_confirmation_failure(k, cand)
        ELSE IF n.confirmed = 0 THEN enter_base_error(k)
        ELSE lower_after_failed_search_candidate(k, cand)

retried(n, cand) ==
    [n EXCEPT !.out = NoOut, !.retry = @ + 1, !.pending = cand, !.state = "Searching"]

ProbeTimedOut(n, probe) ==
    IF n.out.probe # probe \/ ~n.out.sent \/ ~n.out.late THEN n
    ELSE IF n.out.retry < MaxRetries THEN retried(n, probe.cand)
    ELSE given_up([n EXCEPT !.retry = 0], probe.cand)

\* LocalPacketTooLarge condemns the size at once; every other failure is
\* retried and then parks the search in Error with what it had confirmed.
ProbeSendFailed(n, probe, failure) ==
    IF n.out.probe # probe THEN n
    ELSE IF failure = "LocalPacketTooLarge" THEN given_up(n, probe.cand)
    ELSE IF n.retry < MaxRetries THEN retried(n, probe.cand)
    ELSE IF n.confirming \/ ~n.base_confirmed THEN given_up(n, probe.cand)
    ELSE [n EXCEPT !.out = NoOut, !.state = "Error", !.pending = 0, !.raise_at = "armed"]

\* The answer to an outstanding probe arrives in time and counts.
counts(n, probe) ==
    /\ n.out.probe = probe
    /\ n.out.sent /\ ~n.out.late
    /\ IF n.confirming THEN n.confirmed = probe.cand
       ELSE probe.cand = Base \/ n.confirmed \in 1..probe.cand

ProbeAcked(n, probe) ==
    LET k == [n EXCEPT !.out = NoOut, !.retry = 0]
    IN  IF n.out.probe # probe \/ ~n.out.sent \/ n.out.late THEN n
        ELSE IF ~counts(n, probe) THEN k
        ELSE IF n.confirming
             THEN [k EXCEPT !.confirming = FALSE, !.confirm_at = "armed",
                            !.pending = 0, !.state = "SearchComplete"]
        ELSE searched([k EXCEPT !.base_confirmed = TRUE], probe.cand, n.upper)

\* Mutant: the base still counts as confirmed.
BusinessPacketTooLarge_keeping_base(n) ==
    [n EXCEPT !.confirmed = 0, !.out = NoOut, !.pending = Base,
              !.confirming = FALSE, !.confirm_at = "off", !.retry = 0,
              !.raise_at = "off", !.state = "Base"]

BusinessPacketTooLarge(n) ==
    [n EXCEPT !.base_confirmed = FALSE, !.confirmed = 0, !.out = NoOut, !.pending = Base,
              !.confirming = FALSE, !.confirm_at = "off", !.retry = 0,
              !.raise_at = "off", !.state = "Base"]

CurrentPlpmtuConfirmationTimerExpired(n) ==
    IF n.state = "SearchComplete" /\ n.confirm_at = "due" /\ n.confirmed # 0 /\ ~n.confirming
    THEN [n EXCEPT !.pending = n.confirmed, !.confirm_at = "off", !.confirming = TRUE,
                   !.retry = 0, !.state = "Searching"]
    ELSE n

RaiseTimerExpired(n) ==
    IF n.state \notin {"SearchComplete", "Error"} \/ n.raise_at # "due" THEN n
    ELSE LET k == [n EXCEPT !.upper = Ceiling, !.confirming = FALSE, !.confirm_at = "off",
                            !.retry = 0, !.raise_at = "off"]
         IN  IF n.confirmed = 0 THEN [k EXCEPT !.pending = Base, !.state = "Base"]
             ELSE searched(k, n.confirmed, Ceiling)

-----------------------------------------------------------------------------
(* The registry entry and its worker.                                      *)

current(p) == p # 0 /\ committed = p

\* A revision no holder of a token has seen.
fresh_rev == CHOOSE r \in Revs : r \notin {rev, token.rev}

\* Mutant: the revision is not renewed when the budget changes.
refresh_budget_revision_never(n) == rev' = rev

\* A change of path or of the visible budget gets a new revision.
refresh_budget_revision(n) ==
    rev' = IF n.path = m.path /\ business_confirmed(n) = business_confirmed(m)
           THEN rev ELSE fresh_rev

\* publish_snapshot_locked: the mirror the senders read follows the machine.
publish(n) ==
    /\ m' = n
    /\ refresh_budget_revision(n)
    /\ token' = IF token.state # "none"
                   /\ (n.path # m.path \/ business_confirmed(n) # business_confirmed(m))
                THEN [token EXCEPT !.old = TRUE] ELSE token

\* notify_waiters() reaches the workers that already wait.
woken(ws) ==
    [w \in Workers |-> IF ws[w].pc = "asleep" /\ ws[w].path = m.path
                       THEN [ws[w] EXCEPT !.pc = "run"] ELSE ws[w]]

Idle == [pc |-> "done", path |-> 0, probe |-> NoProbe, failure |-> "none", cancelled |-> FALSE]

\* The entry loses its worker: the cancel channel is signalled and the owner
\* token withdrawn.
disowned(ws) ==
    IF owner = 0 THEN ws ELSE [ws EXCEPT ![owner].cancelled = TRUE]

\* cancel_peer, cancel_before_network_generation
cancel_peer ==
    IF m.path = 0 THEN UNCHANGED <<entry, worker, token>>
    ELSE /\ publish(Cancelled(m))
         /\ owner' = 0 /\ sip' = FALSE
         /\ worker' = woken(disowned(worker))

\* Mutant: a path that is installed again keeps the machine it had.
machine_for_keeping(p) == IF m.path # 0 THEN [m EXCEPT !.path = p] ELSE for_path(p)

\* The machine an installed path goes on with.
machine_for(p) == IF m.path = p /\ m.state # "Disabled" THEN m ELSE for_path(p)

\* Mutant: the path that is installed needs nothing more.
install_path_once(p) ==
    IF m.path = p THEN UNCHANGED <<entry, worker, token>>
    ELSE \E w \in Workers :
        /\ worker[w].pc = "done"
        /\ publish(machine_for(p))
        /\ owner' = w /\ sip' = FALSE
        /\ worker' = [disowned(worker) EXCEPT ![w] = [Idle EXCEPT !.pc = "run", !.path = p]]

\* A path that is installed already and has its worker is left alone.
install_path(p) ==
    IF m.path = p /\ owner # 0 /\ m.state # "Disabled"
    THEN UNCHANGED <<entry, worker, token>>
    ELSE \E w \in Workers :
        /\ worker[w].pc = "done"
        /\ publish(machine_for(p))
        /\ owner' = w /\ sip' = FALSE
        /\ worker' = [disowned(worker) EXCEPT ![w] = [Idle EXCEPT !.pc = "run", !.path = p]]

\* The probe timers of a search that rests, in the order schedule_probe
\* looks at them.
started(n) ==
    LET a == IF n.state # "Base" THEN n
             ELSE IF n.pending = 0 THEN [n EXCEPT !.state = "SearchComplete", !.raise_at = "armed"]
             ELSE [n EXCEPT !.state = "Searching"]
    IN  RaiseTimerExpired(CurrentPlpmtuConfirmationTimerExpired(a))

owns(w) == owner = w /\ m.path = worker[w].path

\* Nonces some probe still goes by.
live_nonces ==
    {a.nonce : a \in answers} \cup {m.out.probe.nonce} \cup {worker[w].probe.nonce : w \in Workers}

free_nonce == CHOOSE n \in Nonces : n \notin live_nonces

\* finish_worker; the scheduler, which awaits its tasks, reconciles after it.
finish_worker(w) ==
    /\ IF owns(w) THEN owner' = 0 /\ sip' = FALSE ELSE UNCHANGED <<owner, sip>>
    /\ worker' = [worker EXCEPT ![w] = Idle]
    /\ due' = TRUE
    /\ UNCHANGED <<committed, m, rev, token, rec, answers, mtu>>

\* The worker has run for an hour (DPLPMTUD_WORKER_MAX_LIFETIME).
WorkerExpires(w) ==
    /\ worker[w].pc = "run"
    /\ used.faults < MaxFaults
    /\ used' = [used EXCEPT !.faults = @ + 1]
    /\ finish_worker(w)

\* The worker's loop: it ends, plans a probe, or looks how long to sleep.
WorkerRuns(w) ==
    /\ worker[w].pc = "run"
    /\ IF worker[w].cancelled \/ ~current(worker[w].path) \/ ~owns(w)
       THEN finish_worker(w)
       ELSE LET n == started(m)
                probe == [nonce |-> free_nonce, cand |-> n.pending, path |-> n.path]
            IN  IF n.state \in {"Base", "Searching"} /\ n.out = NoOut /\ n.pending # 0
                THEN /\ Nonces \ live_nonces # {}
                     /\ m' = [n EXCEPT !.state = "Searching",
                                       !.out = [NoOut EXCEPT !.probe = probe, !.retry = n.retry]]
                     /\ worker' = [worker EXCEPT ![w].pc = "planned", ![w].probe = probe]
                     /\ UNCHANGED <<rev, owner, sip, token, due, committed, rec, answers, mtu>>
                ELSE /\ m' = n
                     /\ worker' = [worker EXCEPT ![w].pc = "looked", ![w].probe = n.out.probe]
                     /\ UNCHANGED <<rev, owner, sip, token, due, committed, rec, answers, mtu>>
    /\ UNCHANGED used

Sleep(w) ==
    /\ worker[w].pc = "looked"
    /\ worker' = [worker EXCEPT ![w].pc = IF worker[w].cancelled THEN "run" ELSE "asleep"]
    /\ UNCHANGED <<committed, entry, rec, due, answers, token, mtu, used>>

\* The time the worker had read has come: timeout_probe for the probe that
\* was outstanding when it looked.
Wakes(w) ==
    /\ worker[w].pc = "asleep"
    /\ LET n == IF owns(w) /\ worker[w].probe # NoProbe THEN ProbeTimedOut(m, worker[w].probe) ELSE m
       IN  publish(n)
    /\ worker' = [worker EXCEPT ![w].pc = "run", ![w].probe = NoProbe]
    /\ UNCHANGED <<committed, owner, sip, rec, due, answers, mtu, used>>

\* finish_probe_send(plan, Err(failure))
fails(w, failure) ==
    /\ IF owns(w)
       THEN publish(ProbeSendFailed(m, worker[w].probe, failure)) /\ sip' = FALSE
       ELSE UNCHANGED <<m, rev, sip, token>>
    /\ worker' = [woken(worker) EXCEPT ![w].pc = "run", ![w].probe = NoProbe]

\* begin_probe_send accepts the plan.
may_begin(w) ==
    /\ owns(w) /\ ~sip /\ current(worker[w].path)
    /\ m.out.probe = worker[w].probe
    /\ ~m.out.sent /\ ~m.out.late

BeginSend(w) ==
    /\ worker[w].pc = "planned"
    /\ IF may_begin(w)
       THEN /\ publish([m EXCEPT !.out.sent = TRUE])
            /\ sip' = TRUE
            /\ worker' = [woken(worker) EXCEPT ![w].pc = "sending"]
       ELSE fails(w, "TransientSend")
    /\ UNCHANGED <<committed, owner, rec, due, answers, mtu, used>>

\* The emit lock is taken or the session is gone before the send begins.
SendIsRefused(w) ==
    /\ worker[w].pc = "planned"
    /\ used.faults < MaxFaults
    /\ fails(w, "EmitLockUnavailable")
    /\ used' = [used EXCEPT !.faults = @ + 1]
    /\ UNCHANGED <<committed, owner, rec, due, answers, mtu>>

\* The kernel takes the datagram; the peer answers it if it fits the path.
KernelSends(w) ==
    /\ worker[w].pc = "sending"
    /\ answers' = IF worker[w].probe.cand <= mtu THEN answers \cup {worker[w].probe} ELSE answers
    /\ worker' = [worker EXCEPT ![w].pc = "sent"]
    /\ UNCHANGED <<committed, entry, rec, due, token, mtu, used>>

\* The kernel knows the path's MTU and says so.
KernelSaysTooBig(w) ==
    /\ worker[w].pc = "sending"
    /\ worker[w].probe.cand > mtu
    /\ fails(w, "LocalPacketTooLarge")
    /\ UNCHANGED <<committed, owner, rec, due, answers, mtu, used>>

KernelFails(w) ==
    /\ worker[w].pc = "sending"
    /\ used.faults < MaxFaults
    /\ fails(w, "TransientSend")
    /\ used' = [used EXCEPT !.faults = @ + 1]
    /\ UNCHANGED <<committed, owner, rec, due, answers, mtu>>

\* finish_probe_send(plan, Ok)
FinishSend(w) ==
    /\ worker[w].pc = "sent"
    /\ sip' = IF owns(w) THEN FALSE ELSE sip
    /\ worker' = [(IF owns(w) THEN woken(worker) ELSE worker)
                    EXCEPT ![w].pc = "run", ![w].probe = NoProbe]
    /\ UNCHANGED <<committed, m, rev, owner, rec, due, answers, token, mtu, used>>

\* try_accept_ack: the answer names the path that is installed and committed,
\* and the path has its worker.
accepts(a) == owner # 0 /\ current(m.path) /\ a.path = m.path

AnswerArrives(a) ==
    /\ answers' = answers \ {a}
    /\ IF accepts(a) THEN publish(ProbeAcked(m, a)) ELSE UNCHANGED <<m, rev, token>>
    /\ worker' = woken(worker)
    /\ UNCHANGED <<committed, owner, sip, rec, due, mtu, used>>

AnswerLost(a) ==
    /\ used.faults < MaxFaults
    /\ answers' = answers \ {a}
    /\ used' = [used EXCEPT !.faults = @ + 1]
    /\ UNCHANGED <<committed, entry, worker, rec, due, token, mtu>>

-----------------------------------------------------------------------------
(* Time.                                                                   *)

\* The deadline of the probe passes.  Unless the probe is lost for certain,
\* that is a fault: a slow worker or a slow answer.
ProbeLate ==
    /\ m.out # NoOut /\ ~m.out.late
    /\ IF m.out.probe \in answers \/ \E w \in Workers : worker[w].probe = m.out.probe /\ worker[w].pc \in {"planned", "sending"}
       THEN used.faults < MaxFaults /\ used' = [used EXCEPT !.faults = @ + 1]
       ELSE UNCHANGED used
    /\ m' = [m EXCEPT !.out.late = TRUE]
    /\ UNCHANGED <<committed, rev, owner, sip, worker, rec, due, answers, token, mtu>>

\* A worker acts on a raise that is due long before the next confirmation.
ConfirmationDue ==
    /\ m.confirm_at = "armed" /\ m.raise_at # "due"
    /\ m' = [m EXCEPT !.confirm_at = "due", !.raise_at = IF @ = "armed" THEN "ripe" ELSE @]
    /\ UNCHANGED <<committed, rev, owner, sip, worker, rec, due, answers, token, mtu, used>>

\* A search that is complete rests for 30 s before a confirmation and for ten
\* minutes before it is raised, one in error for 5 s.
RaiseDue ==
    /\ \/ m.raise_at = "ripe"
       \/ m.raise_at = "armed" /\ m.state = "Error"
    /\ m' = [m EXCEPT !.raise_at = "due"]
    /\ UNCHANGED <<committed, rev, owner, sip, worker, rec, due, answers, token, mtu, used>>

-----------------------------------------------------------------------------
(* The network, the path reducer and the reconciliation.                   *)

MtuChanges ==
    /\ used.mtus < MaxMtuChanges
    /\ mtu' \in Mtus \ {mtu}
    /\ used' = [used EXCEPT !.mtus = @ + 1]
    /\ UNCHANGED <<committed, entry, worker, rec, due, answers, token>>

\* A validation commits a path under a new identity, or traffic leaves Direct.
PathChanges ==
    /\ \/ /\ used.paths < MaxPaths
          /\ committed' = used.paths + 1
          /\ used' = [used EXCEPT !.paths = @ + 1]
       \/ committed # 0 /\ used.paths < MaxPaths /\ committed' = 0 /\ UNCHANGED used
    /\ due' = TRUE
    /\ UNCHANGED <<entry, worker, rec, answers, token, mtu>>

\* A new network generation takes the path back and cancels its worker.
GenerationAdvances ==
    /\ committed # 0 /\ used.paths < MaxPaths
    /\ committed' = 0
    /\ due' = TRUE
    /\ cancel_peer
    /\ UNCHANGED <<rec, answers, mtu, used>>

\* reconcile_dplpmtud_paths reads the committed paths, and acts on what it
\* read after an await.  It runs in the scheduler whenever the paths change
\* or a worker ends, and beside it when a peer turns out to be capable.
ReconcileReads(r) ==
    /\ rec[r].pc = "idle"
    /\ IF r = "scheduler" THEN due /\ due' = FALSE /\ UNCHANGED used
       ELSE /\ used.inbound < MaxInbound
            /\ used' = [used EXCEPT !.inbound = @ + 1] /\ UNCHANGED due
    /\ rec' = [rec EXCEPT ![r] = [pc |-> "read", path |-> committed]]
    /\ UNCHANGED <<committed, entry, worker, answers, token, mtu>>

ReconcileActs(r) ==
    /\ rec[r].pc = "read"
    /\ rec' = [rec EXCEPT ![r] = [pc |-> "idle", path |-> 0]]
    /\ IF rec[r].path = 0 THEN cancel_peer ELSE install_path(rec[r].path)
    /\ UNCHANGED <<committed, due, answers, mtu, used>>

-----------------------------------------------------------------------------
(* A sender of the peer's traffic.                                         *)

\* prepare_direct_business_send
Captures ==
    /\ token.state = "none" /\ used.sends < MaxSends
    /\ current(m.path) /\ business_confirmed(m) # 0
    /\ used' = [used EXCEPT !.sends = @ + 1]
    /\ token' = [path |-> m.path, size |-> business_confirmed(m), rev |-> rev,
                 state |-> "held", old |-> FALSE]
    /\ UNCHANGED <<committed, entry, worker, rec, due, answers, mtu>>

\* with_current_direct_business_token accepts the token.
token_is_current == token.path = m.path /\ token.rev = rev /\ business_confirmed(m) = token.size

\* The datagram goes out, or the token is stale and nothing does.
SendsOrDrops ==
    /\ token.state = "held"
    /\ token' = NoToken
    /\ UNCHANGED <<committed, entry, worker, rec, due, answers, mtu, used>>

\* The kernel refuses the datagram; the report comes later.
BusinessTooBig ==
    /\ token.state = "held"
    /\ token_is_current /\ token.size > mtu
    /\ token' = [token EXCEPT !.state = "refused"]
    /\ UNCHANGED <<committed, entry, worker, rec, due, answers, mtu, used>>

\* The report is about the path and the revision that are current.
invalidates == token.path = m.path /\ token.rev = rev /\ business_confirmed(m) # 0

\* invalidate_direct_business_budget
Invalidates ==
    /\ token.state = "refused"
    /\ IF invalidates
       THEN /\ m' = BusinessPacketTooLarge(m)
            /\ refresh_budget_revision(m')
            /\ worker' = woken(worker)
       ELSE UNCHANGED <<m, rev, worker>>
    /\ token' = NoToken
    /\ UNCHANGED <<committed, owner, sip, rec, due, answers, mtu, used>>

-----------------------------------------------------------------------------
Init ==
    /\ committed = 0 /\ m = Cancelled(for_path(0)) /\ rev = CHOOSE r \in Revs : TRUE
    /\ owner = 0 /\ sip = FALSE
    /\ worker = [w \in Workers |-> Idle]
    /\ rec = [r \in Reconcilers |-> [pc |-> "idle", path |-> 0]]
    /\ due = FALSE /\ answers = {} /\ token = NoToken
    /\ mtu \in Mtus
    /\ used = [paths |-> 0, mtus |-> 0, faults |-> 0, inbound |-> 0, sends |-> 0]

WorkerStep(w) ==
    \/ WorkerRuns(w) \/ Sleep(w) \/ Wakes(w) \/ BeginSend(w)
    \/ KernelSends(w) \/ FinishSend(w)

Next ==
    \/ \E w \in Workers :
          \/ WorkerStep(w) \/ WorkerExpires(w)
          \/ SendIsRefused(w) \/ KernelSaysTooBig(w) \/ KernelFails(w)
    \/ \E a \in answers : AnswerArrives(a) \/ AnswerLost(a)
    \/ ProbeLate \/ ConfirmationDue \/ RaiseDue
    \/ MtuChanges \/ PathChanges \/ GenerationAdvances
    \/ \E r \in Reconcilers : ReconcileReads(r) \/ ReconcileActs(r)
    \/ Captures \/ SendsOrDrops \/ BusinessTooBig \/ Invalidates

Spec == Init /\ [][Next]_vars

\* Tasks run, time passes and answers arrive or are lost; nothing is assumed
\* of the network, the path reducer or the senders.
FairSpec ==
    /\ Spec
    /\ \A w \in Workers : WF_vars(WorkerStep(w))
    /\ \A r \in Reconcilers : WF_vars(ReconcileActs(r))
    /\ WF_vars(ReconcileReads("scheduler"))
    /\ WF_vars(ProbeLate) /\ WF_vars(ConfirmationDue) /\ WF_vars(RaiseDue)
    /\ WF_vars(\E a \in answers : AnswerArrives(a))

-----------------------------------------------------------------------------
(* Properties.                                                             *)

\* The registry entry, the tasks and the network hold values of their types.
TypeOK ==
    /\ committed \in 0..MaxPaths /\ rev \in Revs /\ owner \in Workers \cup {0}
    /\ sip \in BOOLEAN /\ due \in BOOLEAN /\ mtu \in Nat
    /\ m.path \in 0..MaxPaths /\ m.confirmed \in {0} \cup Sizes /\ m.upper \in Sizes
    /\ m.pending \in {0} \cup m.confirmed..m.upper
    /\ m.confirm_at \in Timer /\ m.raise_at \in Timer /\ m.retry \in 0..MaxRetries
    /\ m.state \in {"Disabled", "Base", "Searching", "SearchComplete", "Error"}
    /\ m.base_confirmed = (m.confirmed # 0)
    /\ answers \subseteq [nonce : Nonces, cand : Sizes, path : Paths]

\* ProbeAcked (state_machine.rs:371-400): an answer in time to the outstanding
\* probe always moves the search; the two branches that take it for stale
\* after consuming the probe are never reached.
AnswersCount ==
    m.out # NoOut => counts([m EXCEPT !.out.sent = TRUE, !.out.late = FALSE], m.out.probe)

\* refresh_budget_revision and the two places that compare tokens
\* (runtime.rs:263, 1097 and 1126): once the budget of a path has changed, a
\* token of before neither sends nor withdraws, also when the same size has
\* been confirmed again.
OldTokensAreInert ==
    token.state # "none" /\ token.old => ~token_is_current /\ ~invalidates

\* What answers and tokens are compared with is what they are about.
AnswersAndTokens == TypeOK /\ AnswersCount /\ OldTokensAreInert

\* The traffic of a peer uses only sizes the peer has answered on the very
\* path, whatever workers, reconciliations and late answers do.
Promise == INSTANCE DirectBudget WITH
    budget <- IF business_confirmed(m) = 0 THEN [path |-> 0, size |-> 0]
              ELSE [path |-> m.path, size |-> business_confirmed(m)],
    answered <- {[path |-> a.path, size |-> a.cand] : a \in answers}

ImplementsDirectBudget == Promise!Spec

\* What the committed path carries, up to a step of the search.
Fits ==
    /\ m.path = committed
    /\ business_confirmed(m) <= mtu
    /\ business_confirmed(m) + Granularity > mtu \/ business_confirmed(m) = Ceiling \/ mtu < Base

\* The worker loop, its timers and the reconciliation (udp_direct.rs:1112 and
\* 1421): once faults, paths and the network's MTU stop changing, the
\* committed path has a budget that fits it, for good.
Settled == IF committed # 0 THEN Fits ELSE business_confirmed(m) = 0

BudgetSettles == <>[]Settled
=============================================================================
