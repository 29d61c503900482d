--------------------------- MODULE DplpmtudProofs ---------------------------
(***************************************************************************)
(* Two results, for any sizes, number of workers, paths and nonces, and    *)
(* whatever the network carries.                                           *)
(*                                                                         *)
(* The refinement of DirectBudget. Every function of the reducer but       *)
(* ProbeAcked keeps the budget or drops it (Keeps), and none brings back   *)
(* the one of a disabled machine (Consistent). So a step either withdraws, *)
(* or it handles an answer to a probe of the installed path, which is what *)
(* the abstract machine proves. The rest of that invariant says that       *)
(* probes, on their way to the kernel or answered, are sizes of paths the  *)
(* peer has committed.                                                     *)
(*                                                                         *)
(* The search and the tokens. An answer to the outstanding probe moves the *)
(* search because what is outstanding or pending lies between the          *)
(* confirmed size and the bound, a confirmation repeats the confirmed size, *)
(* and the first probe is the base (Wanted, OnCourse). And a step that     *)
(* changes the budget gives it a revision that no token held by a sender   *)
(* carries, since there is always another one (RevsAssumption).            *)
(***************************************************************************)
EXTENDS Dplpmtud, Integers, TLAPS

-----------------------------------------------------------------------------
(* The invariant.                                                          *)

States == {"Disabled", "Base", "Searching", "SearchComplete", "Error"}
Probes == [nonce : Nonces, cand : Sizes, path : Paths]
Outs == [probe : Probes \cup {NoProbe}, sent : BOOLEAN, late : BOOLEAN, retry : Nat]

Machines ==
    [path : Paths \cup {0}, state : States, base_confirmed : BOOLEAN, confirmed : Sizes \cup {0},
     upper : Sizes, pending : Sizes \cup {0}, confirming : BOOLEAN,
     confirm_at : Timer, raise_at : Timer, out : Outs, retry : Nat]

Tasks ==
    [pc : {"done", "run", "planned", "looked", "asleep", "sending", "sent"},
     path : Paths \cup {0}, probe : Probes \cup {NoProbe}, failure : {"none"},
     cancelled : BOOLEAN]

\* A disabled machine holds nothing a later step could make usable again.
Consistent(n) == n.state = "Disabled" => ~n.base_confirmed /\ n.out = NoOut

Good(n) == n \in Machines /\ Consistent(n)

\* A task between its plan and the end of its send has a probe.
Carry(ws) ==
    /\ ws \in [Workers -> Tasks]
    /\ \A w \in Workers : ws[w].pc \in {"planned", "sending", "sent"} => ws[w].probe \in Probes

WorkersOK == owner \in Workers \cup {0} /\ Carry(worker)

PathsOK ==
    /\ committed \in Paths \cup {0}
    /\ rec \in [Reconcilers -> [pc : {"idle", "read"}, path : Paths \cup {0}]]
    /\ used \in [paths : Nat, mtus : Nat, faults : Nat, inbound : Nat, sends : Nat]

Inv == Good(m) /\ WorkersOK /\ PathsOK /\ answers \subseteq Probes

-----------------------------------------------------------------------------
(* The reducer.                                                            *)

\* What a step of the reducer other than an answer does to the budget.
Keeps(n, k) ==
    /\ Good(k)
    /\ k.path = n.path
    /\ business_confirmed(k) \in {0, business_confirmed(n)}

\* A machine whose probe is out is not disabled.
LEMMA Outstanding ==
    ASSUME NEW n, Good(n), n.out.probe \in Probes
    PROVE  n.state # "Disabled"
  BY SizesAssumption DEF Good, Consistent, Probes, NoOut, NoProbe

LEMMA Candidate ==
    ASSUME NEW c \in Sizes, NEW u \in Sizes
    PROVE  next_search_candidate(c, u) \in Sizes \cup {0}
<1>1. CASE u <= c
  BY <1>1 DEF next_search_candidate
<1>2. CASE ~(u <= c)
  <2> DEFINE x == (((u - c) \div 2) \div Granularity) * Granularity
  <2>1. x \in Int
    <3> DEFINE half == (u - c) \div 2
    <3>1. half \in Int
      BY SizesAssumption DEF Sizes
    <3> HIDE DEF half
    <3>2. half \div Granularity \in Int
      BY <3>1, SizesAssumption
    <3>3. \A a, b \in Int : a * b \in Int
      OBVIOUS
    <3> QED BY <3>2, <3>3, SizesAssumption DEF half
  <2>2. next_search_candidate(c, u) = min(max(c + x, c + Granularity), u)
    BY <1>2 DEF next_search_candidate
  <2> HIDE DEF x
  <2> QED BY <1>2, <2>1, <2>2, SizesAssumption DEF Sizes, min, max
<1> QED BY <1>1, <1>2

LEMMA Searched ==
    ASSUME NEW n, Good(n), NEW c \in Sizes, NEW u \in Sizes
    PROVE  /\ searched(n, c, u) \in Machines
           /\ searched(n, c, u).state # "Disabled"
           /\ searched(n, c, u).path = n.path
           /\ searched(n, c, u).confirmed = c
           /\ searched(n, c, u).base_confirmed = n.base_confirmed
  BY Candidate DEF searched, Good, Machines, States, Timer

LEMMA LowerSearch ==
    ASSUME NEW n, Good(n), n.confirmed # 0, n.state # "Disabled", NEW f \in Sizes
    PROVE  Keeps(n, lower_after_failed_search_candidate(n, f))
<1> DEFINE k == [n EXCEPT !.confirming = FALSE, !.confirm_at = "off"]
           u == min(n.upper, max(saturating_sub(f, Granularity), n.confirmed))
<1>1. Good(k) /\ k.path = n.path /\ k.base_confirmed = n.base_confirmed
  BY DEF Good, Machines, Consistent, Timer
<1>2. n.confirmed \in Sizes /\ n.upper \in Sizes
  BY DEF Good, Machines
<1>3. u \in Sizes
  BY <1>2, SizesAssumption DEF Sizes, min, max, saturating_sub
<1>4. lower_after_failed_search_candidate(n, f) = searched(k, n.confirmed, u)
  BY DEF lower_after_failed_search_candidate
<1> HIDE DEF k, u
<1> QED BY <1>1, <1>2, <1>3, <1>4, Searched DEF Keeps, Good, Consistent, business_confirmed

LEMMA LowerConfirmation ==
    ASSUME NEW n, Good(n), NEW f \in Sizes
    PROVE  Keeps(n, lower_after_current_confirmation_failure(n, f))
<1>1. max(min(n.upper, saturating_sub(f, Granularity)), Base) \in Sizes
  BY SizesAssumption DEF Good, Machines, Sizes, min, max, saturating_sub
<1>2. NoOut \in Outs /\ Base \in Sizes
  BY SizesAssumption DEF NoOut, Outs, Sizes
<1> QED BY <1>1, <1>2 DEF lower_after_current_confirmation_failure, Keeps, Good, Machines, States,
        Timer, Consistent, business_confirmed

LEMMA GivenUp ==
    ASSUME NEW n, Good(n), n.state # "Disabled", NEW f \in Sizes
    PROVE  Keeps(n, given_up(n, f))
<1> DEFINE k == [n EXCEPT !.out = NoOut]
<1>1. /\ Good(k) /\ k.path = n.path /\ k.state = n.state
      /\ k.confirmed = n.confirmed /\ k.confirming = n.confirming
      /\ business_confirmed(k) = business_confirmed(n)
  BY DEF Good, Machines, Consistent, business_confirmed, NoOut, Outs
<1>2. Keeps(k, enter_base_error(k))
  BY <1>1 DEF enter_base_error, Keeps, Good, Machines, States, Timer, Consistent, business_confirmed
<1>3. given_up(n, f) = IF n.confirming THEN lower_after_current_confirmation_failure(k, f)
                       ELSE IF n.confirmed = 0 THEN enter_base_error(k)
                       ELSE lower_after_failed_search_candidate(k, f)
  BY DEF given_up
<1> HIDE DEF k
<1>4. Keeps(k, given_up(n, f))
  BY <1>1, <1>2, <1>3, LowerSearch, LowerConfirmation
<1> QED BY <1>1, <1>4 DEF Keeps

LEMMA Retried ==
    ASSUME NEW n, Good(n), n.state # "Disabled", NEW f \in Sizes
    PROVE  Keeps(n, retried(n, f))
<1>1. n.retry + 1 \in Nat /\ NoOut \in Outs
  BY DEF Good, Machines, NoOut, Outs
<1>2. retried(n, f) = [n EXCEPT !.out = NoOut, !.retry = n.retry + 1, !.pending = f,
                                !.state = "Searching"]
  BY DEF retried, Good, Machines
<1>3. retried(n, f) \in Machines
  BY <1>1, <1>2 DEF Good, Machines, States
<1>4. /\ retried(n, f).state = "Searching" /\ retried(n, f).path = n.path
      /\ retried(n, f).confirmed = n.confirmed
      /\ retried(n, f).base_confirmed = n.base_confirmed
  BY <1>2 DEF Good, Machines
<1> QED BY <1>3, <1>4 DEF Keeps, Good, Consistent, business_confirmed

LEMMA Unchanged == ASSUME NEW n, Good(n) PROVE Keeps(n, n)
  BY DEF Keeps

LEMMA TimedOut ==
    ASSUME NEW n, Good(n), NEW p \in Probes
    PROVE  Keeps(n, ProbeTimedOut(n, p))
<1> SUFFICES ASSUME n.state # "Disabled" PROVE Keeps(n, ProbeTimedOut(n, p))
  BY Outstanding, Unchanged DEF ProbeTimedOut
<1> DEFINE k == [n EXCEPT !.retry = 0]
<1>1. Good(k) /\ k.path = n.path /\ k.state = n.state /\ business_confirmed(k) = business_confirmed(n)
  BY DEF Good, Machines, Consistent, business_confirmed
<1>2. p.cand \in Sizes
  BY DEF Probes
<1>3. ProbeTimedOut(n, p) \in {n, retried(n, p.cand), given_up(k, p.cand)}
  BY DEF ProbeTimedOut
<1> HIDE DEF k
<1>4. Keeps(n, given_up(k, p.cand))
  BY <1>1, <1>2, GivenUp DEF Keeps
<1> QED BY <1>2, <1>3, <1>4, Retried, Unchanged

LEMMA SendFailed ==
    ASSUME NEW n, Good(n), NEW p \in Probes, NEW failure
    PROVE  Keeps(n, ProbeSendFailed(n, p, failure))
<1> SUFFICES ASSUME n.state # "Disabled" PROVE Keeps(n, ProbeSendFailed(n, p, failure))
  BY Outstanding, Unchanged DEF ProbeSendFailed
<1> DEFINE k == [n EXCEPT !.out = NoOut, !.state = "Error", !.pending = 0, !.raise_at = "armed"]
<1>1. Keeps(n, k)
  <2>1. k \in Machines
    BY DEF Good, Machines, States, Timer, NoOut, Outs
  <2>2. /\ k.state = "Error" /\ k.path = n.path /\ k.confirmed = n.confirmed
        /\ k.base_confirmed = n.base_confirmed
    BY DEF Good, Machines
  <2> HIDE DEF k
  <2> QED BY <2>1, <2>2 DEF Keeps, Good, Consistent, business_confirmed
<1>2. p.cand \in Sizes
  BY DEF Probes
<1>3. ProbeSendFailed(n, p, failure) \in {n, k, retried(n, p.cand), given_up(n, p.cand)}
  BY DEF ProbeSendFailed
<1> HIDE DEF k
<1> QED BY <1>1, <1>2, <1>3, GivenUp, Retried, Unchanged

LEMMA TooLarge == ASSUME NEW n, Good(n) PROVE Keeps(n, BusinessPacketTooLarge(n))
<1>1. Base \in Sizes
  BY SizesAssumption DEF Sizes
<1> QED BY <1>1 DEF BusinessPacketTooLarge, Keeps, Good, Machines, States, Timer, Consistent,
        business_confirmed, NoOut, Outs

LEMMA ConfirmationExpired ==
    ASSUME NEW n, Good(n)
    PROVE  Keeps(n, CurrentPlpmtuConfirmationTimerExpired(n))
<1> DEFINE k == [n EXCEPT !.pending = n.confirmed, !.confirm_at = "off", !.confirming = TRUE,
                          !.retry = 0, !.state = "Searching"]
<1>1. /\ k \in Machines /\ k.state = "Searching" /\ k.path = n.path /\ k.confirmed = n.confirmed
      /\ k.base_confirmed = n.base_confirmed
  BY DEF Good, Machines, States, Timer
<1>2. \/ CurrentPlpmtuConfirmationTimerExpired(n) = n
      \/ CurrentPlpmtuConfirmationTimerExpired(n) = k /\ n.state = "SearchComplete"
  BY DEF CurrentPlpmtuConfirmationTimerExpired
<1> HIDE DEF k
<1> QED BY <1>1, <1>2, Unchanged DEF Keeps, Good, Consistent, business_confirmed

LEMMA RaiseExpired == ASSUME NEW n, Good(n) PROVE Keeps(n, RaiseTimerExpired(n))
<1> DEFINE k == [n EXCEPT !.upper = Ceiling, !.confirming = FALSE, !.confirm_at = "off",
                          !.retry = 0, !.raise_at = "off"]
           again == [k EXCEPT !.pending = Base, !.state = "Base"]
<1>1. Base \in Sizes /\ Ceiling \in Sizes
  BY SizesAssumption DEF Sizes
<1>2. CASE n.state \notin {"SearchComplete", "Error"} \/ n.raise_at # "due"
  BY <1>2, Unchanged DEF RaiseTimerExpired
<1>3. CASE ~(n.state \notin {"SearchComplete", "Error"} \/ n.raise_at # "due")
  <2>1. /\ Good(k) /\ k.path = n.path /\ k.state = n.state /\ k.state # "Disabled"
        /\ k.confirmed = n.confirmed /\ k.base_confirmed = n.base_confirmed
    BY <1>1, <1>3 DEF Good, Machines, Consistent, Timer
  <2>2. RaiseTimerExpired(n) = IF n.confirmed = 0 THEN again ELSE searched(k, n.confirmed, Ceiling)
    BY <1>3 DEF RaiseTimerExpired
  <2>3. Good(again) /\ again.path = k.path /\ again.confirmed = k.confirmed /\ again.state = "Base"
    BY <1>1, <2>1 DEF Good, Machines, States, Consistent
  <2>4. CASE n.confirmed = 0
    BY <2>1, <2>2, <2>3, <2>4 DEF Keeps, business_confirmed
  <2>5. CASE n.confirmed # 0
    <3>1. n.confirmed \in Sizes
      BY <2>5 DEF Good, Machines
    <3> HIDE DEF k
    <3> QED BY <1>1, <2>1, <2>2, <2>5, <3>1, Searched DEF Keeps, Good, Consistent, business_confirmed
  <2> QED BY <2>4, <2>5
<1> QED BY <1>2, <1>3

LEMMA Started == ASSUME NEW n, Good(n) PROVE Keeps(n, started(n))
<1> DEFINE a == IF n.state # "Base" THEN n
                ELSE IF n.pending = 0
                     THEN [n EXCEPT !.state = "SearchComplete", !.raise_at = "armed"]
                ELSE [n EXCEPT !.state = "Searching"]
<1>1. Keeps(n, a)
  <2>1. CASE n.state # "Base"
    BY <2>1, Unchanged
  <2>2. CASE n.state = "Base"
    <3>1. a \in Machines
      BY <2>2 DEF Good, Machines, States, Timer
    <3>2. /\ a.path = n.path /\ a.state # "Disabled" /\ a.confirmed = n.confirmed
          /\ a.base_confirmed = n.base_confirmed
      BY <2>2 DEF Good, Machines
    <3> HIDE DEF a
    <3> QED BY <2>2, <3>1, <3>2 DEF Keeps, Good, Consistent, business_confirmed
  <2> QED BY <2>1, <2>2
<1>2. started(n) = RaiseTimerExpired(CurrentPlpmtuConfirmationTimerExpired(a))
  BY DEF started
<1> HIDE DEF a
<1>3. Keeps(a, CurrentPlpmtuConfirmationTimerExpired(a))
  BY <1>1, ConfirmationExpired DEF Keeps
<1>4. Keeps(CurrentPlpmtuConfirmationTimerExpired(a), started(n))
  BY <1>2, <1>3, RaiseExpired DEF Keeps
<1> QED BY <1>1, <1>3, <1>4 DEF Keeps

LEMMA ForPath ==
    ASSUME NEW p \in Paths \cup {0}
    PROVE  Good(for_path(p)) /\ for_path(p).path = p /\ business_confirmed(for_path(p)) = 0
<1>1. Base \in Sizes /\ Ceiling \in Sizes
  BY SizesAssumption DEF Sizes
<1> QED BY <1>1 DEF for_path, Good, Machines, States, Timer, Consistent, business_confirmed, NoOut, Outs

LEMMA IsCancelled == ASSUME NEW n, Good(n) PROVE Keeps(n, Cancelled(n))
  BY DEF Cancelled, Keeps, Good, Machines, States, Timer, Consistent, business_confirmed, NoOut, Outs

\* An answer is the only thing that gives a budget, and gives the answered size.
LEMMA Acked ==
    ASSUME NEW n, Good(n), NEW p \in Probes
    PROVE  /\ Good(ProbeAcked(n, p)) /\ ProbeAcked(n, p).path = n.path
           /\ business_confirmed(ProbeAcked(n, p)) \in {business_confirmed(n), p.cand}
<1> DEFINE k == [n EXCEPT !.out = NoOut, !.retry = 0]
           held == [k EXCEPT !.confirming = FALSE, !.confirm_at = "armed", !.pending = 0,
                             !.state = "SearchComplete"]
           proved == [k EXCEPT !.base_confirmed = TRUE]
<1>1. Good(k) /\ k.path = n.path /\ business_confirmed(k) = business_confirmed(n)
  BY DEF Good, Machines, Consistent, business_confirmed, NoOut, Outs
<1>2. ProbeAcked(n, p) \in {n, k} \/ counts(n, p)
  BY DEF ProbeAcked
<1>3. CASE counts(n, p) /\ n.confirming
  <2>1. ProbeAcked(n, p) \in {n, held}
    BY <1>3 DEF ProbeAcked
  <2>2. /\ Good(held) /\ held.path = n.path /\ held.confirmed = p.cand
        /\ held.state # "Disabled"
    BY <1>3 DEF counts, Good, Machines, States, Timer, Consistent, NoOut, Outs
  <2>3. held.base_confirmed = n.base_confirmed
    BY DEF Good, Machines
  <2>4. business_confirmed(held) \in {business_confirmed(n), p.cand}
    BY <2>2, <2>3 DEF business_confirmed
  <2> QED BY <2>1, <2>2, <2>4
<1>4. CASE counts(n, p) /\ ~n.confirming /\ n.state # "Disabled"
  <2>1. ProbeAcked(n, p) \in {n, searched(proved, p.cand, n.upper)}
    BY <1>4 DEF ProbeAcked
  <2>2. Good(proved) /\ proved.path = n.path /\ proved.base_confirmed
    BY <1>4 DEF Good, Machines, Consistent, NoOut, Outs
  <2>3. p.cand \in Sizes /\ n.upper \in Sizes
    BY DEF Probes, Good, Machines
  <2> HIDE DEF proved
  <2> QED BY <2>1, <2>2, <2>3, Searched DEF Good, Consistent, business_confirmed
<1>5. counts(n, p) => n.state # "Disabled"
  BY Outstanding DEF counts
<1> QED BY <1>1, <1>2, <1>3, <1>4, <1>5

-----------------------------------------------------------------------------
(* The tasks.                                                              *)

LEMMA IdleIsTask == Idle \in Tasks
  BY DEF Idle, Tasks, Paths

LEMMA WokenCarries == ASSUME NEW ws, Carry(ws) PROVE Carry(woken(ws))
  BY DEF Carry, woken, Tasks

LEMMA DisownedCarries ==
    ASSUME NEW ws, Carry(ws), owner \in Workers \cup {0} PROVE Carry(disowned(ws))
<1>1. CASE owner = 0
  BY <1>1 DEF disowned
<1>2. CASE owner \in Workers
  <2>1. disowned(ws) = [ws EXCEPT ![owner].cancelled = TRUE]
    BY <1>2, SizesAssumption DEF disowned
  <2> QED BY <1>2, <2>1 DEF Carry, Tasks
<1> QED BY <1>1, <1>2

LEMMA SetCarries ==
    ASSUME NEW ws, Carry(ws), NEW w \in Workers, NEW t \in Tasks,
           t.pc \in {"planned", "sending", "sent"} => t.probe \in Probes
    PROVE  Carry([ws EXCEPT ![w] = t])
  BY DEF Carry

\* A task that goes on without a probe, or with the one it has.
LEMMA GoesOn ==
    ASSUME NEW ws, Carry(ws), NEW w \in Workers
    PROVE  /\ Carry([ws EXCEPT ![w].pc = "run"])
           /\ Carry([ws EXCEPT ![w].pc = "asleep"])
           /\ Carry([ws EXCEPT ![w].pc = "run", ![w].probe = NoProbe])
           /\ ws[w].pc = "planned" => Carry([ws EXCEPT ![w].pc = "sending"])
           /\ ws[w].pc = "sending" => Carry([ws EXCEPT ![w].pc = "sent"])
  BY DEF Carry, Tasks

\* A task that takes up a probe it planned, or looks at one.
LEMMA TakesUp ==
    ASSUME NEW ws, Carry(ws), NEW w \in Workers, NEW p \in Probes \cup {NoProbe}
    PROVE  /\ Carry([ws EXCEPT ![w].pc = "looked", ![w].probe = p])
           /\ p \in Probes => Carry([ws EXCEPT ![w].pc = "planned", ![w].probe = p])
<1> DEFINE looked == [ws[w] EXCEPT !.pc = "looked", !.probe = p]
           planned == [ws[w] EXCEPT !.pc = "planned", !.probe = p]
<1>1. looked \in Tasks /\ looked.pc = "looked"
  BY DEF Carry, Tasks
<1>2. planned \in Tasks /\ planned.probe = p
  BY DEF Carry, Tasks
<1>3. /\ [ws EXCEPT ![w].pc = "looked", ![w].probe = p] = [ws EXCEPT ![w] = looked]
      /\ [ws EXCEPT ![w].pc = "planned", ![w].probe = p] = [ws EXCEPT ![w] = planned]
  BY DEF Carry, Tasks
<1> HIDE DEF looked, planned
<1>4. Carry([ws EXCEPT ![w] = looked])
  BY <1>1, SetCarries
<1>5. p \in Probes => Carry([ws EXCEPT ![w] = planned])
  BY <1>2, SetCarries
<1> QED BY ONLY <1>3, <1>4, <1>5

-----------------------------------------------------------------------------
(* The abstract step of each action.                                       *)

Nothing == [path |-> 0, size |-> 0]

budgetOf(n) ==
    IF business_confirmed(n) = 0 THEN Nothing ELSE [path |-> n.path, size |-> business_confirmed(n)]

image(a) == [path |-> a.path, size |-> a.cand]

sizesOf(S) == {image(a) : a \in S}

\* A step that brings no answer: the budget stays or is withdrawn.
Quiet == Good(m') /\ budgetOf(m') \in {budgetOf(m), Nothing} /\ UNCHANGED answers

LEMMA KeepsIsQuiet ==
    ASSUME Keeps(m, m'), UNCHANGED answers PROVE Quiet
  BY DEF Keeps, Quiet, budgetOf

LEMMA SameIsQuiet ==
    ASSUME Good(m), UNCHANGED <<m, answers>> PROVE Quiet
  BY DEF Quiet

LEMMA CancelIsQuiet ==
    ASSUME Good(m), WorkersOK, cancel_peer, UNCHANGED answers
    PROVE  Quiet /\ WorkersOK'
<1>1. CASE m.path = 0
  BY <1>1, SameIsQuiet DEF cancel_peer, entry, WorkersOK
<1>2. CASE m.path # 0
  <2>1. m' = Cancelled(m) /\ owner' = 0 /\ worker' = woken(disowned(worker))
    BY <1>2 DEF cancel_peer, publish
  <2>2. Keeps(m, m')
    BY <2>1, IsCancelled
  <2> QED BY <2>1, <2>2, KeepsIsQuiet, WokenCarries, DisownedCarries DEF WorkersOK
<1> QED BY <1>1, <1>2

LEMMA InstallIsQuiet ==
    ASSUME Good(m), WorkersOK, NEW p \in Paths \cup {0}, install_path(p), UNCHANGED answers
    PROVE  Quiet /\ WorkersOK'
<1>1. CASE UNCHANGED <<entry, worker, token>>
  BY <1>1, SameIsQuiet DEF entry, WorkersOK
<1>2. ASSUME NEW w \in Workers, publish(machine_for(p)), owner' = w,
             worker' = [disowned(worker) EXCEPT ![w] = [Idle EXCEPT !.pc = "run", !.path = p]]
      PROVE  Quiet /\ WorkersOK'
  <2>1. m' = machine_for(p)
    BY <1>2 DEF publish
  <2>2. Quiet
    BY <2>1, ForPath DEF Quiet, machine_for, budgetOf
  <2>3. [Idle EXCEPT !.pc = "run", !.path = p] \in Tasks
    BY DEF Idle, Tasks
  <2> QED BY <1>2, <2>2, <2>3, SetCarries, DisownedCarries DEF WorkersOK, Idle
<1> QED BY <1>1, <1>2 DEF install_path

LEMMA FailsIsQuiet ==
    ASSUME Inv, NEW w \in Workers, worker[w].pc \in {"planned", "sending"},
           NEW failure, fails(w, failure), UNCHANGED <<owner, answers>>
    PROVE  Quiet /\ WorkersOK'
<1>1. worker[w].probe \in Probes
  BY DEF Inv, WorkersOK, Carry
<1>2. Quiet
  <2>1. CASE owns(w)
    BY <1>1, <2>1, SendFailed, KeepsIsQuiet DEF Inv, fails, publish
  <2>2. CASE ~owns(w)
    BY <2>2, SameIsQuiet DEF Inv, fails
  <2> QED BY <2>1, <2>2
<1> QED BY <1>2, WokenCarries, GoesOn DEF Inv, WorkersOK, fails

\* A worker that ends takes nothing with it but its own place.
LEMMA FinishStep ==
    ASSUME Inv, NEW w \in Workers, WorkerExpires(w) \/ WorkerRuns(w), finish_worker(w)
    PROVE  Quiet /\ Inv'
<1>1. PathsOK'
  <2>1. CASE WorkerExpires(w)
    BY <2>1 DEF Inv, PathsOK, finish_worker, WorkerExpires
  <2>2. CASE WorkerRuns(w)
    <3>1. used' = used
      BY <2>2 DEF WorkerRuns
    <3> QED BY <3>1 DEF Inv, PathsOK, finish_worker
  <2> QED BY <2>1, <2>2
<1>2. worker' = [worker EXCEPT ![w] = Idle]
  BY DEF finish_worker
<1>3. Idle.pc = "done"
  BY DEF Idle
<1>4. Carry(worker')
  BY <1>2, <1>3, SetCarries, IdleIsTask DEF Inv, WorkersOK
<1> QED BY <1>1, <1>4, SameIsQuiet DEF Inv, WorkersOK, finish_worker

\* The worker plans a probe of the size that is pending on the installed path,
\* which is the committed one; or it ends, or goes to sleep.
LEMMA RunsStep == ASSUME Inv, NEW w \in Workers, WorkerRuns(w) PROVE Quiet /\ Inv'
<1>1. PathsOK'
  BY DEF Inv, PathsOK, WorkerRuns, finish_worker
<1>2. CASE worker[w].cancelled \/ ~current(worker[w].path) \/ ~owns(w)
  BY <1>2, FinishStep DEF WorkerRuns
<1>3. CASE ~(worker[w].cancelled \/ ~current(worker[w].path) \/ ~owns(w))
  <2> DEFINE n == started(m)
             probe == [nonce |-> free_nonce, cand |-> n.pending, path |-> n.path]
             planned == [n EXCEPT !.state = "Searching",
                                  !.out = [NoOut EXCEPT !.probe = probe, !.retry = n.retry]]
  <2>1. Keeps(m, n)
    BY Started DEF Inv
  <2>2. n.path \in Paths
    BY <1>3, <2>1 DEF Inv, Keeps, Good, Machines, current, owns
  <2>3. CASE n.state \in {"Base", "Searching"} /\ n.out = NoOut /\ n.pending # 0
    <3>1. /\ m' = planned
          /\ worker' = [worker EXCEPT ![w].pc = "planned", ![w].probe = probe]
          /\ Nonces \ live_nonces # {}
          /\ UNCHANGED <<owner, answers>>
      BY <1>3, <2>3 DEF WorkerRuns
    <3>2. free_nonce \in Nonces
      BY <3>1 DEF free_nonce
    <3>3. probe \in Probes
      BY <2>1, <2>2, <2>3, <3>2 DEF Keeps, Good, Machines, Probes
    <3> HIDE DEF probe
    <3>4. [NoOut EXCEPT !.probe = probe, !.retry = n.retry] \in Outs
      BY <2>1, <3>3 DEF Keeps, Good, Machines, Outs, NoOut
    <3>5. Keeps(n, planned)
      <4> HIDE DEF n
      <4>1. /\ planned \in Machines /\ planned.state = "Searching" /\ planned.path = n.path
            /\ planned.confirmed = n.confirmed /\ planned.base_confirmed = n.base_confirmed
        BY <2>1, <3>4 DEF Keeps, Good, Machines, States
      <4> HIDE DEF planned
      <4> QED BY <2>3, <4>1 DEF Keeps, Good, Consistent, business_confirmed
    <3>6. Carry(worker')
      BY <3>1, <3>3, TakesUp DEF Inv, WorkersOK
    <3>7. Keeps(m, m')
      BY <2>1, <3>1, <3>5 DEF Keeps
    <3> QED BY <1>1, <3>1, <3>3, <3>6, <3>7, KeepsIsQuiet DEF Inv, WorkersOK, Keeps
  <2>4. CASE ~(n.state \in {"Base", "Searching"} /\ n.out = NoOut /\ n.pending # 0)
    <3>1. /\ m' = n
          /\ worker' = [worker EXCEPT ![w].pc = "looked", ![w].probe = n.out.probe]
          /\ UNCHANGED <<owner, answers>>
      BY <1>3, <2>4 DEF WorkerRuns
    <3>2. n.out.probe \in Probes \cup {NoProbe}
      BY <2>1 DEF Keeps, Good, Machines, Outs
    <3>3. Carry(worker')
      BY <3>1, <3>2, TakesUp DEF Inv, WorkersOK
    <3> QED BY <1>1, <2>1, <3>1, <3>3, KeepsIsQuiet DEF Inv, WorkersOK, Keeps
  <2> QED BY <2>3, <2>4
<1> QED BY <1>2, <1>3

LEMMA WakesStep == ASSUME Inv, NEW w \in Workers, Wakes(w) PROVE Quiet /\ Inv'
<1>1. Keeps(m, m')
  <2>1. worker[w].probe \in Probes \cup {NoProbe}
    BY DEF Inv, WorkersOK, Carry, Tasks
  <2>2. CASE owns(w) /\ worker[w].probe # NoProbe
    BY <2>1, <2>2, TimedOut DEF Inv, Wakes, publish
  <2>3. CASE ~(owns(w) /\ worker[w].probe # NoProbe)
    BY <2>3, Unchanged DEF Inv, Wakes, publish
  <2> QED BY <2>2, <2>3
<1>2. WorkersOK' /\ PathsOK'
  BY GoesOn DEF Inv, WorkersOK, PathsOK, Wakes
<1> QED BY <1>1, <1>2, KeepsIsQuiet DEF Inv, Keeps, Wakes

LEMMA BeginStep == ASSUME Inv, NEW w \in Workers, BeginSend(w) PROVE Quiet /\ Inv'
<1>1. PathsOK'
  BY DEF Inv, PathsOK, BeginSend
<1>2. CASE may_begin(w)
  <2> DEFINE n == [m EXCEPT !.out.sent = TRUE]
  <2>1. m' = n /\ worker' = [woken(worker) EXCEPT ![w].pc = "sending"]
    BY <1>2 DEF BeginSend, publish
  <2>2. worker[w].probe \in Probes /\ woken(worker)[w].pc = "planned"
    BY DEF Inv, WorkersOK, Carry, BeginSend, woken
  <2>3. m.state # "Disabled"
    BY <1>2, <2>2, Outstanding DEF Inv, may_begin
  <2>4. Keeps(m, n)
    BY <2>3 DEF Inv, Keeps, Good, Machines, Outs, Consistent, business_confirmed
  <2>5. Carry(worker')
    BY <2>1, <2>2, WokenCarries, GoesOn DEF Inv, WorkersOK
  <2> QED BY <1>1, <2>1, <2>4, <2>5, KeepsIsQuiet DEF Inv, WorkersOK, Keeps, BeginSend
<1>3. CASE ~may_begin(w)
  BY <1>1, <1>3, FailsIsQuiet DEF BeginSend, Inv, Quiet
<1> QED BY <1>2, <1>3

LEMMA RefusedStep ==
    ASSUME Inv, NEW w \in Workers, SendIsRefused(w) \/ KernelSaysTooBig(w) \/ KernelFails(w)
    PROVE  Quiet /\ Inv'
<1>1. PathsOK'
  BY DEF Inv, PathsOK, SendIsRefused, KernelSaysTooBig, KernelFails
<1>2. CASE SendIsRefused(w)
  BY <1>1, <1>2, FailsIsQuiet DEF SendIsRefused, Inv, Quiet
<1>3. CASE KernelSaysTooBig(w)
  BY <1>1, <1>3, FailsIsQuiet DEF KernelSaysTooBig, Inv, Quiet
<1>4. CASE KernelFails(w)
  BY <1>1, <1>4, FailsIsQuiet DEF KernelFails, Inv, Quiet
<1> QED BY <1>2, <1>3, <1>4

LEMMA TaskStep ==
    ASSUME Inv, NEW w \in Workers, Sleep(w) \/ FinishSend(w)
    PROVE  Quiet /\ Inv'
<1>1. UNCHANGED <<m, owner, answers, committed, rec, used>>
  BY DEF Sleep, FinishSend, entry
<1>2. Carry(worker')
  <2>1. CASE Sleep(w)
    <3>1. \/ worker' = [worker EXCEPT ![w].pc = "run"]
          \/ worker' = [worker EXCEPT ![w].pc = "asleep"]
      BY <2>1 DEF Sleep
    <3> QED BY <3>1, GoesOn DEF Inv, WorkersOK
  <2>2. CASE FinishSend(w)
    <3>1. PICK ws \in {worker, woken(worker)} :
             worker' = [ws EXCEPT ![w].pc = "run", ![w].probe = NoProbe]
      BY <2>2 DEF FinishSend
    <3> QED BY <3>1, WokenCarries, GoesOn DEF Inv, WorkersOK
  <2> QED BY <2>1, <2>2
<1> QED BY <1>1, <1>2, SameIsQuiet DEF Inv, WorkersOK, PathsOK

LEMMA TimeStep ==
    ASSUME Inv, ProbeLate \/ ConfirmationDue \/ RaiseDue
    PROVE  Quiet /\ Inv'
<1>1. Keeps(m, m')
  <2>1. m' \in Machines
    <3>1. CASE ProbeLate
      <4>1. m' = [m EXCEPT !.out = [m.out EXCEPT !.late = TRUE]] /\ m.out \in Outs
        BY <3>1 DEF Inv, Good, Machines, ProbeLate
      <4>2. [m.out EXCEPT !.late = TRUE] \in Outs
        BY <4>1 DEF Outs
      <4> QED BY <4>1, <4>2 DEF Inv, Good, Machines
    <3>2. CASE ConfirmationDue
      BY <3>2 DEF Inv, Good, Machines, Timer, ConfirmationDue
    <3>3. CASE RaiseDue
      BY <3>3 DEF Inv, Good, Machines, Timer, RaiseDue
    <3> QED BY <3>1, <3>2, <3>3
  <2>2. /\ m'.state = m.state /\ m'.path = m.path /\ m'.confirmed = m.confirmed
        /\ m'.base_confirmed = m.base_confirmed
        /\ m'.out = m.out \/ m.out # NoOut
    BY DEF Inv, Good, Machines, ProbeLate, ConfirmationDue, RaiseDue
  <2> QED BY <2>1, <2>2 DEF Inv, Keeps, Good, Consistent, business_confirmed
<1>2. WorkersOK' /\ PathsOK'
  BY DEF Inv, WorkersOK, PathsOK, ProbeLate, ConfirmationDue, RaiseDue
<1>3. UNCHANGED answers
  BY DEF ProbeLate, ConfirmationDue, RaiseDue
<1> QED BY <1>1, <1>2, <1>3, KeepsIsQuiet DEF Inv, Keeps

LEMMA EnvironmentStep ==
    ASSUME Inv, MtuChanges \/ PathChanges \/ Captures \/ SendsOrDrops \/ BusinessTooBig
    PROVE  Quiet /\ Inv'
<1>1. UNCHANGED <<m, owner, worker, answers, rec>>
  BY DEF MtuChanges, PathChanges, Captures, SendsOrDrops, BusinessTooBig, entry
<1>2. committed' \in Paths \cup {0}
  BY SizesAssumption DEF Inv, PathsOK, Paths, MtuChanges, PathChanges, Captures, SendsOrDrops,
     BusinessTooBig
<1>3. used' \in [paths : Nat, mtus : Nat, faults : Nat, inbound : Nat, sends : Nat]
  BY DEF Inv, PathsOK, MtuChanges, PathChanges, Captures, SendsOrDrops, BusinessTooBig
<1> QED BY <1>1, <1>2, <1>3, SameIsQuiet DEF Inv, WorkersOK, PathsOK

LEMMA GenerationStep == ASSUME Inv, GenerationAdvances PROVE Quiet /\ Inv'
  BY CancelIsQuiet DEF Inv, Quiet, PathsOK, GenerationAdvances

LEMMA ReadStep ==
    ASSUME Inv, NEW r \in Reconcilers, ReconcileReads(r) PROVE Quiet /\ Inv'
<1>1. UNCHANGED <<m, owner, worker, answers, committed>>
  BY DEF ReconcileReads, entry
<1>2. PathsOK'
  BY DEF Inv, PathsOK, ReconcileReads
<1> QED BY <1>1, <1>2, SameIsQuiet DEF Inv, WorkersOK

LEMMA ActStep ==
    ASSUME Inv, NEW r \in Reconcilers, ReconcileActs(r) PROVE Quiet /\ Inv'
<1>1. UNCHANGED <<answers, committed, used>>
  BY DEF ReconcileActs
<1>2. PathsOK'
  BY <1>1 DEF Inv, PathsOK, ReconcileActs
<1>3. rec[r].path \in Paths \cup {0}
  BY DEF Inv, PathsOK
<1>4. Quiet /\ WorkersOK'
  BY <1>1, <1>3, CancelIsQuiet, InstallIsQuiet DEF Inv, ReconcileActs
<1> QED BY <1>1, <1>2, <1>4 DEF Inv, Quiet

LEMMA InvalidateStep == ASSUME Inv, Invalidates PROVE Quiet /\ Inv'
<1>1. UNCHANGED <<answers, owner, committed, rec, used>>
  BY DEF Invalidates
<1>2. Keeps(m, m')
  BY TooLarge, Unchanged DEF Inv, Invalidates
<1>3. Carry(worker')
  BY WokenCarries DEF Inv, WorkersOK, Invalidates
<1> QED BY <1>1, <1>2, <1>3, KeepsIsQuiet DEF Inv, WorkersOK, PathsOK, Keeps

\* The other steps: a probe is answered, an answer is lost, an answer arrives.
Answered(a) == UNCHANGED m /\ answers' = answers \cup {a}
Handled(a) == answers' = answers \ {a} /\ budgetOf(m') \in {budgetOf(m), image(a)}

LEMMA SendStep ==
    ASSUME Inv, NEW w \in Workers, KernelSends(w)
    PROVE  Inv' /\ (Quiet \/ \E a \in Probes : Answered(a))
<1>1. worker[w].probe \in Probes
  BY DEF Inv, WorkersOK, Carry, KernelSends
<1>2. UNCHANGED <<m, owner, committed, rec, used>>
  BY DEF KernelSends, entry
<1>3. Carry(worker')
  BY GoesOn DEF Inv, WorkersOK, KernelSends
<1>4. answers' = answers \/ answers' = answers \cup {worker[w].probe}
  BY DEF KernelSends
<1>5. Inv'
  BY <1>1, <1>2, <1>3, <1>4 DEF Inv, WorkersOK, PathsOK
<1> QED BY <1>1, <1>2, <1>4, <1>5, SameIsQuiet DEF Inv, Answered

LEMMA LossStep ==
    ASSUME Inv, NEW a \in answers, AnswerLost(a) PROVE Inv' /\ Handled(a)
<1>1. UNCHANGED <<m, owner, worker, committed, rec>>
  BY DEF AnswerLost, entry
<1>2. PathsOK'
  BY <1>1 DEF Inv, PathsOK, AnswerLost
<1> QED BY <1>1, <1>2 DEF Inv, WorkersOK, AnswerLost, Handled

LEMMA ArrivalStep ==
    ASSUME Inv, NEW a \in answers, AnswerArrives(a) PROVE Inv' /\ Handled(a)
<1>1. a \in Probes /\ a.cand # 0
  BY SizesAssumption DEF Inv, Probes, Sizes
<1>2. UNCHANGED <<owner, committed, rec, used>> /\ answers' = answers \ {a}
  BY DEF AnswerArrives
<1>3. Carry(worker')
  BY WokenCarries DEF Inv, WorkersOK, AnswerArrives
<1>4. Good(m') /\ budgetOf(m') \in {budgetOf(m), image(a)}
  <2>1. CASE accepts(a)
    <3>1. m' = ProbeAcked(m, a) /\ a.path = m.path
      BY <2>1 DEF AnswerArrives, publish, accepts
    <3> QED BY <1>1, <3>1, Acked DEF Inv, budgetOf, image
  <2>2. CASE ~accepts(a)
    BY <2>2 DEF Inv, AnswerArrives
  <2> QED BY <2>1, <2>2
<1> QED BY <1>2, <1>3, <1>4 DEF Inv, WorkersOK, PathsOK, Handled

-----------------------------------------------------------------------------
(* The refinement.                                                         *)

LEMMA InitInv == Init => Inv /\ budgetOf(m) = Nothing
<1> SUFFICES ASSUME Init PROVE Inv /\ budgetOf(m) = Nothing
  OBVIOUS
<1>1. Good(m) /\ budgetOf(m) = Nothing
  BY ForPath, IsCancelled DEF Init, Keeps, budgetOf
<1>2. WorkersOK
  <2>1. Idle.pc = "done"
    BY DEF Idle
  <2> QED BY <2>1, IdleIsTask DEF Init, WorkersOK, Carry
<1>3. PathsOK /\ answers = {}
  BY DEF Init, PathsOK
<1> QED BY <1>1, <1>2, <1>3 DEF Inv

LEMMA NextInv ==
    ASSUME Inv, Next
    PROVE  /\ Inv'
           /\ \/ Quiet
              \/ \E a \in Probes : Answered(a)
              \/ \E a \in answers : Handled(a)
<1>1. ASSUME NEW w \in Workers, WorkerStep(w)
      PROVE  Inv' /\ (Quiet \/ \E a \in Probes : Answered(a))
  BY <1>1, RunsStep, TaskStep, WakesStep, BeginStep, SendStep DEF WorkerStep
<1>2. ASSUME NEW w \in Workers, \/ WorkerExpires(w) \/ SendIsRefused(w)
                                \/ KernelSaysTooBig(w) \/ KernelFails(w)
      PROVE  Inv' /\ Quiet
  BY <1>2, RefusedStep, FinishStep DEF WorkerExpires
<1>3. ASSUME NEW a \in answers, AnswerArrives(a) \/ AnswerLost(a)
      PROVE  Inv' /\ Handled(a)
  BY <1>3, ArrivalStep, LossStep
<1>4. CASE ProbeLate \/ ConfirmationDue \/ RaiseDue
  BY <1>4, TimeStep
<1>5. CASE MtuChanges \/ PathChanges \/ Captures \/ SendsOrDrops \/ BusinessTooBig
  BY <1>5, EnvironmentStep
<1>6. CASE GenerationAdvances \/ Invalidates
  BY <1>6, GenerationStep, InvalidateStep
<1>7. ASSUME NEW r \in Reconcilers, ReconcileReads(r) \/ ReconcileActs(r) PROVE Inv' /\ Quiet
  BY <1>7, ReadStep, ActStep
<1> QED BY <1>1, <1>2, <1>3, <1>4, <1>5, <1>6, <1>7 DEF Next

LEMMA Removed ==
    ASSUME NEW S, NEW a \in S
    PROVE  sizesOf(S \ {a}) \in {sizesOf(S), sizesOf(S) \ {image(a)}}
<1>1. CASE \E b \in S : b # a /\ image(b) = image(a)
  BY <1>1 DEF sizesOf
<1>2. CASE ~\E b \in S : b # a /\ image(b) = image(a)
  BY <1>2 DEF sizesOf
<1> QED BY <1>1, <1>2

\* A step of the peer's entry as a step of the promise.
Refines == [Promise!Next]_<<budgetOf(m), sizesOf(answers)>>

LEMMA QuietRefines == Quiet => Refines
<1> SUFFICES ASSUME Quiet PROVE Refines
  OBVIOUS
<1>1. UNCHANGED sizesOf(answers)
  BY DEF Quiet, sizesOf
<1>2. CASE UNCHANGED budgetOf(m)
  BY <1>1, <1>2 DEF Refines
<1>3. CASE budgetOf(m)' = Nothing
  <2>1. Promise!Withdraw
    BY <1>1, <1>3 DEF Promise!Withdraw, Promise!Nothing, Nothing, budgetOf, sizesOf, image
  <2> QED BY <2>1 DEF Promise!Next, Refines
<1> QED BY <1>2, <1>3 DEF Quiet

LEMMA AnswerRefines == ASSUME NEW a \in Probes, Answered(a) PROVE Refines
<1>1. sizesOf(answers)' = sizesOf(answers) \cup {image(a)} /\ UNCHANGED budgetOf(m)
  BY DEF Answered, sizesOf
<1>2. Promise!Answer(a.path, a.cand)
  BY <1>1 DEF Promise!Answer, sizesOf, image, budgetOf, Nothing
<1> QED BY <1>2 DEF Probes, Promise!Next, Refines

LEMMA HandledRefines == ASSUME NEW a \in answers, Handled(a) PROVE Refines
<1>1. sizesOf(answers)' \in {sizesOf(answers), sizesOf(answers) \ {image(a)}}
  BY Removed DEF Handled
<1>2. image(a) \in sizesOf(answers)
  BY DEF sizesOf
<1>3. CASE budgetOf(m') = image(a)
  <2>1. Promise!Prove(image(a))
    BY <1>1, <1>3 DEF Promise!Prove, sizesOf, image, budgetOf, Nothing
  <2> QED BY <1>2, <2>1 DEF Promise!Next, Refines, sizesOf, image
<1>4. CASE UNCHANGED budgetOf(m) /\ sizesOf(answers)' = sizesOf(answers) \ {image(a)}
  <2>1. Promise!Lose(image(a))
    BY <1>4 DEF Promise!Lose, sizesOf, image, budgetOf, Nothing
  <2> QED BY <1>2, <2>1 DEF Promise!Next, Refines, sizesOf, image
<1>5. CASE UNCHANGED <<budgetOf(m), sizesOf(answers)>>
  BY <1>5 DEF Refines
<1> QED BY <1>1, <1>3, <1>4, <1>5 DEF Handled

\* What the traffic of a peer may send is withdrawn, or is a size the peer has
\* answered on the very path, through every order of probes, answers, timers,
\* reconciliations and reports (dplpmtud/state_machine.rs, dplpmtud/runtime.rs).
THEOREM BudgetIsAnswered == Spec => ImplementsDirectBudget
<1>1. Init => Promise!Init
  BY InitInv DEF Init, Promise!Init, Promise!Nothing, Nothing, budgetOf
<1>2. Inv /\ [Next]_vars => Inv' /\ Refines
  <2>1. CASE Inv /\ UNCHANGED vars
    <3>1. UNCHANGED <<m, answers, worker, owner, committed, rec, used>>
      BY <2>1 DEF vars
    <3>2. Inv'
      BY <2>1, <3>1 DEF Inv, WorkersOK, PathsOK
    <3> QED BY <3>1, <3>2 DEF Refines
  <2>2. CASE Inv /\ Next
    BY <2>2, NextInv, QuietRefines, AnswerRefines, HandledRefines
  <2> QED BY <2>1, <2>2
<1> QED BY <1>1, <1>2, InitInv, PTL DEF Spec, ImplementsDirectBudget, Promise!Spec, Refines, budgetOf,
        sizesOf, image, Nothing
-----------------------------------------------------------------------------
(* What the search may ask for, so that every answer in time counts.       *)

\* A size worth probing: within the search, the one that is being confirmed,
\* or the base as long as nothing is confirmed.
Wanted(n, c) ==
    /\ n.confirmed <= c /\ c <= n.upper
    /\ n.confirming => c = n.confirmed
    /\ n.confirmed = 0 => c = Base

OnCourse(n) ==
    /\ n.base_confirmed = (n.confirmed # 0)
    /\ n.confirming => n.confirmed # 0
    /\ n.confirmed <= n.upper
    /\ n.retry <= MaxRetries
    /\ n.pending # 0 => Wanted(n, n.pending)
    /\ n.out # NoOut => /\ n.out.probe \in Probes /\ n.state = "Searching"
                        /\ n.out.retry = n.retry /\ Wanted(n, n.out.probe.cand)

\* A search goes up, and not beyond its bound.
LEMMA CandidateAbove ==
    ASSUME NEW c \in Sizes, NEW u \in Sizes, next_search_candidate(c, u) # 0
    PROVE  c < next_search_candidate(c, u) /\ next_search_candidate(c, u) <= u
<1>1. u > c
  BY DEF next_search_candidate, Sizes
<1> DEFINE x == (((u - c) \div 2) \div Granularity) * Granularity
<1>2. x \in Int
  <2> DEFINE half == (u - c) \div 2
  <2>1. half \in Int
    BY SizesAssumption DEF Sizes
  <2> HIDE DEF half
  <2>2. half \div Granularity \in Int
    BY <2>1, SizesAssumption
  <2>3. \A a, b \in Int : a * b \in Int
    OBVIOUS
  <2> QED BY <2>2, <2>3, SizesAssumption DEF half
<1>3. next_search_candidate(c, u) = min(max(c + x, c + Granularity), u)
  BY <1>1, SizesAssumption DEF next_search_candidate, Sizes
<1> HIDE DEF x
<1> QED BY <1>1, <1>2, <1>3, SizesAssumption DEF Sizes, min, max

LEMMA SearchedOnCourse ==
    ASSUME NEW n \in Machines, n.base_confirmed, ~n.confirming, n.retry <= MaxRetries,
           n.out = NoOut, NEW c \in Sizes, NEW u \in Sizes, c <= u
    PROVE  OnCourse(searched(n, c, u))
<1> DEFINE next == next_search_candidate(c, u)
           k == searched(n, c, u)
<1>1. next \in Sizes \cup {0} /\ (next # 0 => c < next /\ next <= u)
  BY Candidate, CandidateAbove
<1>2. c # 0
  BY SizesAssumption DEF Sizes
<1>3. /\ k.base_confirmed = n.base_confirmed /\ k.confirming = n.confirming
      /\ k.confirmed = c /\ k.upper = u /\ k.pending = next
      /\ k.retry = n.retry /\ k.out = n.out
  BY DEF searched, Machines
<1> HIDE DEF next, k
<1>4. next # 0 => Wanted(k, next)
  <2>1. Sizes \subseteq Nat
    BY SizesAssumption DEF Sizes
  <2> QED BY <1>1, <1>2, <1>3, <2>1 DEF Wanted
<1> QED BY <1>2, <1>3, <1>4 DEF OnCourse, k, Machines

LEMMA LowerSearchOnCourse ==
    ASSUME NEW n, Good(n), OnCourse(n), n.out = NoOut, n.confirmed # 0, NEW f \in Sizes
    PROVE  OnCourse(lower_after_failed_search_candidate(n, f))
<1> DEFINE k == [n EXCEPT !.confirming = FALSE, !.confirm_at = "off"]
           u == min(n.upper, max(saturating_sub(f, Granularity), n.confirmed))
<1>1. /\ k \in Machines /\ k.base_confirmed = n.base_confirmed /\ ~k.confirming
      /\ k.retry = n.retry /\ k.out = n.out
  BY DEF Good, Machines, Timer
<1>2. n.confirmed \in Sizes /\ n.upper \in Sizes
  BY DEF Good, Machines
<1>3. n.confirmed <= n.upper /\ n.base_confirmed /\ n.retry <= MaxRetries
  BY DEF OnCourse, Good, Machines
<1>4. u \in Sizes /\ n.confirmed <= u
  BY <1>2, <1>3, SizesAssumption DEF Sizes, min, max, saturating_sub
<1>5. lower_after_failed_search_candidate(n, f) = searched(k, n.confirmed, u)
  BY DEF lower_after_failed_search_candidate
<1> HIDE DEF k, u
<1> QED BY <1>1, <1>2, <1>3, <1>4, <1>5, SearchedOnCourse

\* A search that starts from nothing.
LEMMA BaseOnCourse ==
    ASSUME NEW n, n.base_confirmed = FALSE, n.confirming = FALSE, n.confirmed = 0,
           n.upper \in Sizes, n.retry \in 0..MaxRetries, n.out = NoOut, n.pending \in {0, Base}
    PROVE  OnCourse(n)
<1>1. Base \in Nat /\ n.upper \in Nat /\ Base <= n.upper
  BY SizesAssumption DEF Sizes
<1>2. n.retry <= MaxRetries
  BY SizesAssumption
<1>3. n.pending # 0 => Wanted(n, n.pending)
  BY <1>1 DEF Wanted
<1>4. n.base_confirmed = (n.confirmed # 0)
  OBVIOUS
<1>5. n.confirmed <= n.upper
  BY <1>1
<1> QED BY <1>2, <1>3, <1>4, <1>5 DEF OnCourse

LEMMA LowerConfirmationOnCourse ==
    ASSUME NEW n, Good(n), OnCourse(n), NEW f \in Sizes
    PROVE  OnCourse(lower_after_current_confirmation_failure(n, f))
<1> DEFINE u == max(min(n.upper, saturating_sub(f, Granularity)), Base)
           k == lower_after_current_confirmation_failure(n, f)
<1>1. u \in Sizes
  BY SizesAssumption DEF Good, Machines, Sizes, min, max, saturating_sub
<1>2. /\ k.base_confirmed = FALSE /\ k.confirming = FALSE /\ k.confirmed = 0
      /\ k.upper = u /\ k.pending = Base /\ k.retry = 0 /\ k.out = NoOut
  BY DEF lower_after_current_confirmation_failure, Good, Machines
<1>3. OnCourse(k)
  <2>1. 0 \in 0..MaxRetries
    BY SizesAssumption
  <2> HIDE DEF k, u
  <2> QED BY <1>1, <1>2, <2>1, BaseOnCourse
<1> QED BY <1>3

\* Without its probe a search is as before, and it may start counting anew.
LEMMA WithoutProbeOnCourse ==
    ASSUME NEW n, Good(n), OnCourse(n)
    PROVE  /\ OnCourse([n EXCEPT !.out = NoOut])
           /\ OnCourse([[n EXCEPT !.retry = 0] EXCEPT !.out = NoOut])
           /\ OnCourse([n EXCEPT !.out = NoOut, !.retry = 0])
  BY SizesAssumption DEF OnCourse, Wanted, Good, Machines

LEMMA GivenUpOnCourse ==
    ASSUME NEW n, Good(n), OnCourse([n EXCEPT !.out = NoOut]), NEW f \in Sizes
    PROVE  OnCourse(given_up(n, f))
<1> DEFINE k == [n EXCEPT !.out = NoOut]
<1>1. Good(k) /\ k.out = NoOut /\ k.confirmed = n.confirmed /\ k.confirming = n.confirming
  BY DEF Good, Machines, Consistent, NoOut, Outs
<1>2. OnCourse(k)
  OBVIOUS
<1>3. OnCourse(enter_base_error(k))
  <2> DEFINE e == enter_base_error(k)
  <2>1. /\ e.base_confirmed = FALSE /\ e.confirming = FALSE /\ e.confirmed = 0
        /\ e.upper = k.upper /\ e.pending = 0 /\ e.retry = k.retry /\ e.out = NoOut
    BY <1>1 DEF enter_base_error, Good, Machines
  <2>2. k.upper \in Sizes /\ k.retry \in 0..MaxRetries
    BY <1>1, <1>2, SizesAssumption DEF Good, Machines, OnCourse
  <2>3. OnCourse(e)
    <3> HIDE DEF e, k
    <3> QED BY <2>1, <2>2, BaseOnCourse
  <2> QED BY <2>3
<1>4. given_up(n, f) = IF n.confirming THEN lower_after_current_confirmation_failure(k, f)
                       ELSE IF n.confirmed = 0 THEN enter_base_error(k)
                       ELSE lower_after_failed_search_candidate(k, f)
  BY DEF given_up
<1> HIDE DEF k
<1> QED BY <1>1, <1>2, <1>3, <1>4, LowerSearchOnCourse, LowerConfirmationOnCourse

LEMMA RetriedOnCourse ==
    ASSUME NEW n, Good(n), OnCourse(n), n.out # NoOut, n.retry < MaxRetries
    PROVE  OnCourse(retried(n, n.out.probe.cand))
<1> DEFINE c == n.out.probe.cand
           k == retried(n, c)
<1>1. /\ k.base_confirmed = n.base_confirmed /\ k.confirming = n.confirming
      /\ k.confirmed = n.confirmed /\ k.upper = n.upper /\ k.pending = c
      /\ k.retry = n.retry + 1 /\ k.out = NoOut
  BY DEF retried, Good, Machines
<1>2. n.retry \in Nat /\ Wanted(n, c)
  BY DEF Good, Machines, OnCourse
<1> HIDE DEF k, c
<1> QED BY <1>1, <1>2, SizesAssumption DEF OnCourse, Wanted, k, c

LEMMA TimedOutOnCourse ==
    ASSUME NEW n, Good(n), OnCourse(n), NEW p \in Probes
    PROVE  OnCourse(ProbeTimedOut(n, p))
<1> SUFFICES ASSUME n.out.probe = p PROVE OnCourse(ProbeTimedOut(n, p))
  BY DEF ProbeTimedOut
<1> DEFINE k == [n EXCEPT !.retry = 0]
<1>1. n.out # NoOut /\ n.out.retry = n.retry /\ p.cand \in Sizes
  BY SizesAssumption DEF NoOut, NoProbe, Probes, OnCourse
<1>2. Good(k) /\ OnCourse([k EXCEPT !.out = NoOut])
  BY WithoutProbeOnCourse DEF Good, Machines, Consistent
<1>3. OnCourse(given_up(k, p.cand))
  <2> HIDE DEF k
  <2> QED BY <1>1, <1>2, GivenUpOnCourse
<1>4. n.retry < MaxRetries => OnCourse(retried(n, p.cand))
  BY <1>1, RetriedOnCourse
<1>5. \/ ProbeTimedOut(n, p) = n
      \/ ProbeTimedOut(n, p) = retried(n, p.cand) /\ n.retry < MaxRetries
      \/ ProbeTimedOut(n, p) = given_up(k, p.cand)
  BY <1>1 DEF ProbeTimedOut
<1> HIDE DEF k
<1> QED BY <1>3, <1>4, <1>5

LEMMA SendFailedOnCourse ==
    ASSUME NEW n, Good(n), OnCourse(n), NEW p \in Probes, NEW failure
    PROVE  OnCourse(ProbeSendFailed(n, p, failure))
<1> SUFFICES ASSUME n.out.probe = p PROVE OnCourse(ProbeSendFailed(n, p, failure))
  BY DEF ProbeSendFailed
<1> DEFINE k == [n EXCEPT !.out = NoOut, !.state = "Error", !.pending = 0, !.raise_at = "armed"]
<1>1. n.out # NoOut /\ p.cand \in Sizes
  BY SizesAssumption DEF NoOut, NoProbe, Probes
<1>2. OnCourse(k)
  BY DEF OnCourse, Good, Machines
<1>3. OnCourse(given_up(n, p.cand))
  BY <1>1, WithoutProbeOnCourse, GivenUpOnCourse
<1>4. n.retry < MaxRetries => OnCourse(retried(n, p.cand))
  BY <1>1, RetriedOnCourse
<1>5. \/ ProbeSendFailed(n, p, failure) \in {n, k, given_up(n, p.cand)}
      \/ ProbeSendFailed(n, p, failure) = retried(n, p.cand) /\ n.retry < MaxRetries
  BY DEF ProbeSendFailed
<1> HIDE DEF k
<1> QED BY <1>2, <1>3, <1>4, <1>5

LEMMA TooLargeOnCourse ==
    ASSUME NEW n, Good(n), OnCourse(n) PROVE OnCourse(BusinessPacketTooLarge(n))
<1>1. 0 \in 0..MaxRetries
  BY SizesAssumption
<1> QED BY <1>1, BaseOnCourse DEF BusinessPacketTooLarge, Good, Machines

LEMMA ConfirmationOnCourse ==
    ASSUME NEW n, Good(n), OnCourse(n)
    PROVE  OnCourse(CurrentPlpmtuConfirmationTimerExpired(n))
<1> DEFINE k == [n EXCEPT !.pending = n.confirmed, !.confirm_at = "off", !.confirming = TRUE,
                          !.retry = 0, !.state = "Searching"]
<1>1. \/ CurrentPlpmtuConfirmationTimerExpired(n) = n
      \/ /\ CurrentPlpmtuConfirmationTimerExpired(n) = k
         /\ n.state = "SearchComplete" /\ n.confirmed # 0
  BY DEF CurrentPlpmtuConfirmationTimerExpired
<1>2. CASE n.state = "SearchComplete" /\ n.confirmed # 0
  <2>1. /\ k.base_confirmed = n.base_confirmed /\ k.confirming /\ k.confirmed = n.confirmed
        /\ k.upper = n.upper /\ k.pending = n.confirmed /\ k.retry = 0 /\ k.out = n.out
    BY DEF Good, Machines
  <2>2. n.out = NoOut /\ n.confirmed \in Sizes
    BY <1>2 DEF OnCourse, Good, Machines
  <2> HIDE DEF k
  <2>3. OnCourse(k)
    BY <1>2, <2>1, <2>2, SizesAssumption DEF OnCourse, Wanted, Sizes
  <2> QED BY <1>1, <2>3
<1> QED BY <1>1, <1>2

LEMMA RaiseOnCourse ==
    ASSUME NEW n, Good(n), OnCourse(n) PROVE OnCourse(RaiseTimerExpired(n))
<1> SUFFICES ASSUME n.state \in {"SearchComplete", "Error"}, n.raise_at = "due"
             PROVE  OnCourse(RaiseTimerExpired(n))
  BY DEF RaiseTimerExpired
<1> DEFINE k == [n EXCEPT !.upper = Ceiling, !.confirming = FALSE, !.confirm_at = "off",
                          !.retry = 0, !.raise_at = "off"]
           again == [k EXCEPT !.pending = Base, !.state = "Base"]
<1>1. Ceiling \in Sizes
  BY SizesAssumption DEF Sizes
<1>2. n.out = NoOut
  BY DEF OnCourse
<1>3. /\ k \in Machines /\ k.out = NoOut /\ k.retry = 0 /\ ~k.confirming
      /\ k.base_confirmed = n.base_confirmed /\ k.confirmed = n.confirmed
  BY <1>1, <1>2 DEF Good, Machines, Timer
<1>4. RaiseTimerExpired(n) = IF n.confirmed = 0 THEN again ELSE searched(k, n.confirmed, Ceiling)
  BY DEF RaiseTimerExpired
<1>5. CASE n.confirmed = 0
  <2>1. /\ again.base_confirmed = FALSE /\ again.confirming = FALSE /\ again.confirmed = 0
        /\ again.upper = Ceiling /\ again.retry = 0 /\ again.out = NoOut /\ again.pending = Base
    BY <1>2, <1>5 DEF OnCourse, Good, Machines
  <2>2. OnCourse(again)
    <3>1. 0 \in 0..MaxRetries
      BY SizesAssumption
    <3> HIDE DEF again
    <3> QED BY <1>1, <2>1, <3>1, BaseOnCourse
  <2> HIDE DEF k, again
  <2> QED BY <1>4, <1>5, <2>2
<1>6. CASE n.confirmed # 0
  <2>1. n.confirmed \in Sizes /\ n.confirmed <= Ceiling /\ n.base_confirmed
    BY <1>6 DEF OnCourse, Good, Machines, Sizes
  <2>2. k.retry <= MaxRetries
    BY <1>3, SizesAssumption
  <2>3. OnCourse(searched(k, n.confirmed, Ceiling))
    <3> HIDE DEF k
    <3> QED BY <1>1, <1>3, <1>6, <2>1, <2>2, SearchedOnCourse
  <2> HIDE DEF k, again
  <2> QED BY <1>4, <1>6, <2>3
<1> QED BY <1>5, <1>6

LEMMA StartedOnCourse ==
    ASSUME NEW n, Good(n), OnCourse(n) PROVE OnCourse(started(n))
<1> DEFINE a == IF n.state # "Base" THEN n
                ELSE IF n.pending = 0
                     THEN [n EXCEPT !.state = "SearchComplete", !.raise_at = "armed"]
                ELSE [n EXCEPT !.state = "Searching"]
<1>1. Good(a) /\ OnCourse(a)
  <2>1. CASE n.state # "Base"
    BY <2>1
  <2>2. CASE n.state = "Base"
    <3>1. n.out = NoOut
      BY <2>2 DEF OnCourse
    <3>2. Good(a)
      BY <2>2 DEF Good, Machines, States, Timer, Consistent
    <3>3. OnCourse(a)
      BY <2>2, <3>1 DEF OnCourse, Wanted, Good, Machines
    <3> QED BY <3>2, <3>3
  <2> QED BY <2>1, <2>2
<1>2. started(n) = RaiseTimerExpired(CurrentPlpmtuConfirmationTimerExpired(a))
  BY DEF started
<1> HIDE DEF a
<1>3. Good(CurrentPlpmtuConfirmationTimerExpired(a))
  BY <1>1, ConfirmationExpired DEF Keeps
<1> QED BY <1>1, <1>2, <1>3, ConfirmationOnCourse, RaiseOnCourse

LEMMA CancelledOnCourse ==
    ASSUME NEW n, Good(n), OnCourse(n) PROVE OnCourse(Cancelled(n))
<1> DEFINE k == Cancelled(n)
<1>1. /\ k.base_confirmed = FALSE /\ k.confirming = FALSE /\ k.confirmed = 0
      /\ k.upper = n.upper /\ k.retry = n.retry /\ k.out = NoOut /\ k.pending = 0
  BY DEF Cancelled, Good, Machines
<1>2. n.upper \in Sizes /\ n.retry \in 0..MaxRetries
  BY SizesAssumption DEF OnCourse, Good, Machines
<1>3. OnCourse(k)
  <2> HIDE DEF k
  <2> QED BY <1>1, <1>2, BaseOnCourse
<1> QED BY <1>3

LEMMA ForPathOnCourse ==
    ASSUME NEW p PROVE OnCourse(for_path(p))
<1>1. Ceiling \in Sizes
  BY SizesAssumption DEF Sizes
<1>2. 0 \in 0..MaxRetries
  BY SizesAssumption
<1> QED BY <1>1, <1>2, BaseOnCourse DEF for_path

LEMMA AckedOnCourse ==
    ASSUME NEW n, Good(n), OnCourse(n), NEW p \in Probes
    PROVE  OnCourse(ProbeAcked(n, p))
<1> SUFFICES ASSUME n.out.probe = p PROVE OnCourse(ProbeAcked(n, p))
  BY DEF ProbeAcked
<1> DEFINE k == [n EXCEPT !.out = NoOut, !.retry = 0]
           held == [k EXCEPT !.confirming = FALSE, !.confirm_at = "armed", !.pending = 0,
                             !.state = "SearchComplete"]
           proved == [k EXCEPT !.base_confirmed = TRUE]
<1>1. n.out # NoOut /\ Wanted(n, p.cand)
  BY SizesAssumption DEF NoOut, NoProbe, Probes, OnCourse
<1>2. OnCourse(k)
  BY WithoutProbeOnCourse
<1>3. OnCourse(held)
  BY <1>2 DEF OnCourse, Good, Machines
<1>4. CASE ~n.confirming
  <2>1. /\ proved \in Machines /\ proved.base_confirmed /\ ~proved.confirming
        /\ proved.retry = 0 /\ proved.out = NoOut
    BY <1>4 DEF Good, Machines, NoOut, Outs
  <2>2. p.cand \in Sizes /\ n.upper \in Sizes /\ p.cand <= n.upper
    BY <1>1 DEF Probes, Good, Machines, Wanted
  <2> HIDE DEF proved
  <2>3. OnCourse(searched(proved, p.cand, n.upper))
    BY <2>1, <2>2, SearchedOnCourse, SizesAssumption
  <2>4. ProbeAcked(n, p) \in {n, k, searched(proved, p.cand, n.upper)}
    BY <1>4 DEF ProbeAcked, proved
  <2> QED BY <1>2, <2>3, <2>4
<1>5. CASE n.confirming
  <2>1. ProbeAcked(n, p) \in {n, k, held}
    BY <1>5 DEF ProbeAcked
  <2> QED BY <1>2, <1>3, <2>1
<1> QED BY <1>4, <1>5

-----------------------------------------------------------------------------
(* Tokens, and the steps.                                                  *)

BusinessTokens ==
    [path : Paths \cup {0}, size : Sizes \cup {0}, rev : Revs \cup {0},
     state : {"none", "held", "refused"}, old : BOOLEAN]

\* A token of before the budget changed names another revision than the entry.
Held ==
    /\ rev \in Revs /\ token \in BusinessTokens
    /\ sip \in BOOLEAN /\ due \in BOOLEAN /\ mtu \in Nat
    /\ token.state # "none" /\ token.old => token.rev # rev

Compared == Inv /\ OnCourse(m) /\ Held

\* A revision that is drawn is neither the entry's nor the sender's.
LEMMA FreshRev ==
    ASSUME Held
    PROVE  fresh_rev \in Revs /\ fresh_rev \notin {rev, token.rev}
<1>1. rev \in Revs /\ token.rev \in Revs \cup {0}
  BY DEF Held, BusinessTokens
<1>2. \E r \in Revs : r \notin {rev, token.rev}
  BY <1>1, RevsAssumption
<1> QED BY <1>2 DEF fresh_rev

\* A step changes the machine by publishing it, or leaves revision and token.
EntryKept ==
    /\ OnCourse(m')
    /\ UNCHANGED <<rev, token>> \/ publish(m')

LEMMA PublishedIsHeld ==
    ASSUME Held, publish(m')
    PROVE  /\ rev' \in Revs /\ token' \in BusinessTokens
           /\ token'.state # "none" /\ token'.old => token'.rev # rev'
<1> DEFINE same == m'.path = m.path /\ business_confirmed(m') = business_confirmed(m)
<1>1. CASE same
  <2>1. rev' = rev /\ token' = token
    BY <1>1 DEF publish, refresh_budget_revision
  <2> QED BY <2>1 DEF Held
<1>2. CASE ~same
  <2>1. rev' = fresh_rev
    BY <1>2 DEF publish, refresh_budget_revision
  <2>2. token' = token \/ token' = [token EXCEPT !.old = TRUE]
    BY DEF publish
  <2>3. token' \in BusinessTokens /\ token'.rev = token.rev
    BY <2>2 DEF Held, BusinessTokens
  <2> QED BY <2>1, <2>3, FreshRev
<1> QED BY <1>1, <1>2

LEMMA KeptIsHeld ==
    ASSUME Held, EntryKept, sip' \in BOOLEAN, due' \in BOOLEAN, mtu' \in Nat
    PROVE  OnCourse(m') /\ Held'
<1>1. CASE UNCHANGED <<rev, token>>
  BY <1>1 DEF Held, EntryKept
<1>2. CASE publish(m')
  BY <1>2, PublishedIsHeld DEF Held, EntryKept
<1> QED BY <1>1, <1>2 DEF EntryKept

LEMMA CancelKeepsEntry ==
    ASSUME Compared, cancel_peer PROVE EntryKept /\ sip' \in BOOLEAN
<1>1. CASE m.path = 0
  BY <1>1 DEF cancel_peer, entry, EntryKept, Compared, Held
<1>2. CASE m.path # 0
  <2>1. publish(Cancelled(m)) /\ sip' = FALSE
    BY <1>2 DEF cancel_peer
  <2>2. m' = Cancelled(m)
    BY <2>1 DEF publish
  <2> QED BY <2>1, <2>2, CancelledOnCourse DEF EntryKept, Compared, Inv
<1> QED BY <1>1, <1>2

LEMMA InstallKeepsEntry ==
    ASSUME Compared, NEW p, install_path(p) PROVE EntryKept /\ sip' \in BOOLEAN
<1>1. CASE UNCHANGED <<entry, worker, token>>
  BY <1>1 DEF entry, EntryKept, Compared, Held
<1>2. CASE publish(machine_for(p)) /\ sip' = FALSE
  <2>1. m' = machine_for(p)
    BY <1>2 DEF publish
  <2> QED BY <1>2, <2>1, ForPathOnCourse DEF EntryKept, Compared, machine_for
<1> QED BY <1>1, <1>2 DEF install_path

LEMMA FailsKeepsEntry ==
    ASSUME Compared, NEW w \in Workers, worker[w].pc \in {"planned", "sending"},
           NEW failure, fails(w, failure)
    PROVE  EntryKept /\ sip' \in BOOLEAN
<1>1. CASE owns(w)
  <2> DEFINE n == ProbeSendFailed(m, worker[w].probe, failure)
  <2>1. publish(n) /\ sip' = FALSE
    BY <1>1 DEF fails
  <2>2. OnCourse(n)
    BY SendFailedOnCourse DEF Compared, Inv, WorkersOK, Carry
  <2> HIDE DEF n
  <2>3. m' = n
    BY <2>1 DEF publish
  <2> QED BY <2>1, <2>2, <2>3 DEF EntryKept
<1>2. CASE ~owns(w)
  BY <1>2 DEF fails, EntryKept, Compared, Held
<1> QED BY <1>1, <1>2

\* A worker that ends leaves the search as it is.
LEMMA FinishKeepsEntry ==
    ASSUME Compared, NEW w \in Workers, finish_worker(w)
    PROVE  EntryKept /\ sip' \in BOOLEAN /\ due' \in BOOLEAN
BY DEF finish_worker, EntryKept, Compared, Held

\* The planned probe is the size that is wanted.
LEMMA PlanKeepsEntry ==
    ASSUME Compared, NEW w \in Workers, WorkerRuns(w)
    PROVE  EntryKept /\ sip' \in BOOLEAN /\ due' \in BOOLEAN
<1>1. CASE worker[w].cancelled \/ ~current(worker[w].path) \/ ~owns(w)
  BY <1>1, FinishKeepsEntry DEF WorkerRuns
<1>2. CASE ~(worker[w].cancelled \/ ~current(worker[w].path) \/ ~owns(w))
  <2> DEFINE n == started(m)
             probe == [nonce |-> free_nonce, cand |-> n.pending, path |-> n.path]
             planned == [n EXCEPT !.state = "Searching",
                                  !.out = [NoOut EXCEPT !.probe = probe, !.retry = n.retry]]
  <2>1. Keeps(m, n) /\ OnCourse(n)
    BY Started, StartedOnCourse DEF Compared, Inv
  <2>2. n.path \in Paths
    BY <1>2, <2>1 DEF Compared, Inv, Keeps, Good, Machines, current, owns
  <2>3. UNCHANGED <<rev, token, sip, due>>
    BY <1>2 DEF WorkerRuns
  <2>4. CASE n.state \in {"Base", "Searching"} /\ n.out = NoOut /\ n.pending # 0
    <3>1. m' = planned /\ Nonces \ live_nonces # {}
      BY <1>2, <2>4 DEF WorkerRuns
    <3>2. free_nonce \in Nonces
      BY <3>1 DEF free_nonce
    <3>3. probe \in Probes
      BY <2>1, <2>2, <2>4, <3>2 DEF Keeps, Good, Machines, Probes
    <3>4. /\ planned.base_confirmed = n.base_confirmed /\ planned.confirming = n.confirming
          /\ planned.confirmed = n.confirmed /\ planned.upper = n.upper
          /\ planned.pending = n.pending /\ planned.retry = n.retry
          /\ planned.state = "Searching"
          /\ planned.out.probe = probe /\ planned.out.retry = n.retry
      <4> HIDE DEF n, probe
      <4>1. n \in Machines
        BY <2>1 DEF Keeps, Good
      <4> QED BY <4>1 DEF Machines, NoOut
    <3>5. probe.cand = n.pending
      OBVIOUS
    <3> HIDE DEF n, probe, planned
    <3>6. OnCourse(planned)
      BY <2>1, <2>4, <3>3, <3>4, <3>5 DEF OnCourse, Wanted
    <3> QED BY <2>3, <3>1, <3>6 DEF EntryKept, Compared, Held
  <2>5. CASE ~(n.state \in {"Base", "Searching"} /\ n.out = NoOut /\ n.pending # 0)
    <3>1. m' = n
      BY <1>2, <2>5 DEF WorkerRuns
    <3> QED BY <2>1, <2>3, <3>1 DEF EntryKept, Compared, Held
  <2> QED BY <2>4, <2>5
<1> QED BY <1>1, <1>2

LEMMA WorkersCompare ==
    ASSUME Compared, NEW w \in Workers,
           \/ WorkerStep(w) \/ WorkerExpires(w) \/ SendIsRefused(w)
           \/ KernelSaysTooBig(w) \/ KernelFails(w)
    PROVE  OnCourse(m') /\ Held'
<1> SUFFICES EntryKept /\ sip' \in BOOLEAN /\ due' \in BOOLEAN /\ mtu' \in Nat
  BY KeptIsHeld DEF Compared
<1>1. mtu' = mtu /\ mtu \in Nat
  BY DEF WorkerStep, WorkerRuns, finish_worker, WorkerExpires, Sleep, Wakes, BeginSend,
     KernelSends, FinishSend, SendIsRefused, KernelSaysTooBig, KernelFails, Compared, Held
<1>2. CASE WorkerRuns(w)
  BY <1>1, <1>2, PlanKeepsEntry
<1>3. CASE Sleep(w) \/ KernelSends(w) \/ FinishSend(w)
  BY <1>1, <1>3 DEF Sleep, KernelSends, FinishSend, entry, EntryKept, Compared, Held
<1>4. CASE Wakes(w)
  <2>1. worker[w].probe \in Probes \cup {NoProbe}
    BY DEF Compared, Inv, WorkersOK, Carry, Tasks
  <2>2. PICK n : publish(n) /\ n \in {m, ProbeTimedOut(m, worker[w].probe)}
                 /\ (n # m => worker[w].probe # NoProbe)
    BY <1>4 DEF Wakes
  <2>3. OnCourse(n)
    BY <2>1, <2>2, TimedOutOnCourse DEF Compared, Inv
  <2>4. m' = n
    BY <2>2 DEF publish
  <2>5. UNCHANGED <<sip, due>>
    BY <1>4 DEF Wakes
  <2> QED BY <1>1, <2>2, <2>3, <2>4, <2>5 DEF EntryKept, Compared, Held
<1>5. CASE BeginSend(w) /\ may_begin(w)
  <2> DEFINE n == [m EXCEPT !.out.sent = TRUE]
  <2>1. publish(n) /\ sip' = TRUE /\ due' = due
    BY <1>5 DEF BeginSend
  <2>2. m.out.probe \in Probes
    BY <1>5 DEF Compared, Inv, WorkersOK, Carry, BeginSend, may_begin
  <2>3. m.out # NoOut
    BY <2>2, SizesAssumption DEF NoOut, NoProbe, Probes
  <2>4. OnCourse(n)
    <3>1. /\ n.base_confirmed = m.base_confirmed /\ n.confirming = m.confirming
          /\ n.confirmed = m.confirmed /\ n.upper = m.upper /\ n.pending = m.pending
          /\ n.retry = m.retry /\ n.state = m.state
          /\ n.out.probe = m.out.probe /\ n.out.retry = m.out.retry
      BY DEF Compared, Inv, Good, Machines, Outs
    <3> HIDE DEF n
    <3> QED BY <2>3, <3>1 DEF Compared, OnCourse, Wanted
  <2> HIDE DEF n
  <2>5. m' = n
    BY <2>1 DEF publish
  <2> QED BY <1>1, <2>1, <2>4, <2>5 DEF EntryKept, Compared, Held
<1>6. CASE BeginSend(w) /\ ~may_begin(w)
  <2>1. worker[w].pc = "planned" /\ fails(w, "TransientSend") /\ due' = due
    BY <1>6 DEF BeginSend
  <2> QED BY <1>1, <2>1, FailsKeepsEntry DEF Compared, Held
<1>7. CASE SendIsRefused(w)
  BY <1>1, <1>7, FailsKeepsEntry DEF SendIsRefused, Compared, Held
<1>8. CASE KernelSaysTooBig(w)
  BY <1>1, <1>8, FailsKeepsEntry DEF KernelSaysTooBig, Compared, Held
<1>9. CASE KernelFails(w)
  BY <1>1, <1>9, FailsKeepsEntry DEF KernelFails, Compared, Held
<1>10. CASE WorkerExpires(w)
  BY <1>1, <1>10, FinishKeepsEntry DEF WorkerExpires
<1> QED BY <1>2, <1>3, <1>4, <1>5, <1>6, <1>7, <1>8, <1>9, <1>10 DEF WorkerStep

LEMMA AnswersCompare ==
    ASSUME Compared, NEW a \in answers, AnswerArrives(a) \/ AnswerLost(a)
    PROVE  OnCourse(m') /\ Held'
<1>1. UNCHANGED <<sip, due, mtu>>
  BY DEF AnswerArrives, AnswerLost, entry
<1>2. EntryKept
  <2>1. CASE AnswerLost(a)
    BY <2>1 DEF AnswerLost, entry, EntryKept, Compared
  <2>2. CASE AnswerArrives(a) /\ ~accepts(a)
    BY <2>2 DEF AnswerArrives, EntryKept, Compared
  <2>3. CASE AnswerArrives(a) /\ accepts(a)
    <3>1. publish(ProbeAcked(m, a))
      BY <2>3 DEF AnswerArrives
    <3>2. OnCourse(ProbeAcked(m, a))
      BY AckedOnCourse DEF Compared, Inv
    <3>3. m' = ProbeAcked(m, a)
      BY <3>1 DEF publish
    <3> QED BY <3>1, <3>2, <3>3 DEF EntryKept
  <2> QED BY <2>1, <2>2, <2>3
<1> QED BY <1>1, <1>2, KeptIsHeld DEF Compared, Held

LEMMA TimersCompare ==
    ASSUME Compared, ProbeLate \/ ConfirmationDue \/ RaiseDue
    PROVE  OnCourse(m') /\ Held'
<1>1. UNCHANGED <<rev, token, sip, due, mtu>>
  BY DEF ProbeLate, ConfirmationDue, RaiseDue
<1>2. /\ m'.base_confirmed = m.base_confirmed /\ m'.confirming = m.confirming
      /\ m'.confirmed = m.confirmed /\ m'.upper = m.upper /\ m'.pending = m.pending
      /\ m'.retry = m.retry /\ m'.state = m.state
      /\ m'.out.probe = m.out.probe /\ m'.out.retry = m.out.retry
      /\ m'.out = m.out \/ m.out # NoOut
  BY DEF ProbeLate, ConfirmationDue, RaiseDue, Compared, Inv, Good, Machines, Outs
<1>3. OnCourse(m')
  BY <1>2 DEF Compared, OnCourse, Wanted
<1> QED BY <1>1, <1>3, KeptIsHeld DEF Compared, Held, EntryKept

LEMMA EnvironmentCompares ==
    ASSUME Compared, MtuChanges \/ PathChanges \/ GenerationAdvances
    PROVE  OnCourse(m') /\ Held'
<1>1. mtu' \in Nat
  BY SizesAssumption DEF MtuChanges, PathChanges, GenerationAdvances, Compared, Held
<1>2. CASE MtuChanges \/ PathChanges
  <2>1. UNCHANGED <<m, rev, token, sip>> /\ due' \in BOOLEAN
    BY <1>2 DEF MtuChanges, PathChanges, entry, Compared, Held
  <2> QED BY <1>1, <2>1, KeptIsHeld DEF Compared, Held, EntryKept
<1>3. CASE GenerationAdvances
  BY <1>1, <1>3, CancelKeepsEntry, KeptIsHeld DEF GenerationAdvances, Compared
<1> QED BY <1>2, <1>3

LEMMA ReconcilersCompare ==
    ASSUME Compared, NEW r \in Reconcilers, ReconcileReads(r) \/ ReconcileActs(r)
    PROVE  OnCourse(m') /\ Held'
<1>1. CASE ReconcileReads(r)
  <2>1. UNCHANGED <<m, rev, token, sip, mtu>> /\ due' \in BOOLEAN
    BY <1>1 DEF ReconcileReads, entry, Compared, Held
  <2> QED BY <2>1, KeptIsHeld DEF Compared, Held, EntryKept
<1>2. CASE ReconcileActs(r)
  <2>1. UNCHANGED <<due, mtu>>
    BY <1>2 DEF ReconcileActs
  <2>2. EntryKept /\ sip' \in BOOLEAN
    BY <1>2, CancelKeepsEntry, InstallKeepsEntry DEF ReconcileActs
  <2> QED BY <2>1, <2>2, KeptIsHeld DEF Compared, Held
<1> QED BY <1>1, <1>2

LEMMA SenderCompares ==
    ASSUME Compared, Captures \/ SendsOrDrops \/ BusinessTooBig \/ Invalidates
    PROVE  OnCourse(m') /\ Held'
<1>1. UNCHANGED <<sip, due, mtu>>
  BY DEF Captures, SendsOrDrops, BusinessTooBig, Invalidates, entry
<1>2. OnCourse(m')
  BY TooLargeOnCourse DEF Captures, SendsOrDrops, BusinessTooBig, Invalidates, entry, Compared, Inv
<1>3. rev' \in Revs
  BY FreshRev DEF Captures, SendsOrDrops, BusinessTooBig, Invalidates, refresh_budget_revision,
     entry, Compared, Held
<1>4. NoToken \in BusinessTokens /\ NoToken.state = "none"
  BY DEF NoToken, BusinessTokens
<1>5. CASE SendsOrDrops \/ Invalidates
  BY <1>1, <1>2, <1>3, <1>4, <1>5 DEF SendsOrDrops, Invalidates, Compared, Held
<1>6. CASE Captures
  <2>1. m.path \in Paths \cup {0} /\ business_confirmed(m) \in Sizes \cup {0}
    BY DEF Compared, Inv, Good, Machines, business_confirmed
  <2>2. token' \in BusinessTokens /\ ~token'.old
    BY <1>6, <2>1 DEF Captures, BusinessTokens, Compared, Held
  <2> QED BY <1>1, <1>2, <1>3, <2>2 DEF Compared, Held
<1>7. CASE BusinessTooBig
  <2>1. /\ token' \in BusinessTokens /\ token'.rev = token.rev /\ token'.old = token.old
        /\ token.state # "none" /\ rev' = rev
    BY <1>7 DEF BusinessTooBig, BusinessTokens, Compared, Held, entry
  <2> QED BY <1>1, <1>2, <1>3, <2>1 DEF Compared, Held
<1> QED BY <1>5, <1>6, <1>7

LEMMA InitCompared == Init => Compared
<1> SUFFICES ASSUME Init PROVE Compared
  OBVIOUS
<1>1. OnCourse(m)
  BY ForPath, ForPathOnCourse, CancelledOnCourse DEF Init
<1>2. rev \in Revs
  BY RevsAssumption DEF Init
<1>3. NoToken \in BusinessTokens /\ NoToken.state = "none"
  BY DEF NoToken, BusinessTokens
<1>4. mtu \in Nat /\ sip = FALSE /\ due = FALSE /\ token = NoToken
  BY SizesAssumption DEF Init
<1> QED BY <1>1, <1>2, <1>3, <1>4, InitInv DEF Compared, Held

LEMMA NextCompared == ASSUME Compared, Next PROVE Compared'
<1>1. Inv'
  BY NextInv DEF Compared
<1>2. OnCourse(m') /\ Held'
  BY WorkersCompare, AnswersCompare, TimersCompare, EnvironmentCompares, ReconcilersCompare,
     SenderCompares DEF Next
<1> QED BY <1>1, <1>2 DEF Compared

LEMMA ComparedSuffices == Compared => AnswersAndTokens
<1> SUFFICES ASSUME Compared PROVE AnswersAndTokens
  OBVIOUS
<1>1. m \in Machines /\ OnCourse(m) /\ Held
  BY DEF Compared, Inv, Good
<1>2. TypeOK
  <2>1. m.pending \in {0} \cup m.confirmed..m.upper
    <3>1. m.confirmed \in Nat /\ m.upper \in Nat /\ m.pending \in Nat
      BY <1>1, SizesAssumption DEF Machines, Sizes
    <3> QED BY <1>1, <3>1 DEF OnCourse, Wanted
  <2>2. m.retry \in 0..MaxRetries
    BY <1>1, SizesAssumption DEF Machines, OnCourse
  <2>3. m.base_confirmed = (m.confirmed # 0)
    BY <1>1 DEF OnCourse
  <2>4. committed \in 0..MaxPaths /\ m.path \in 0..MaxPaths
    BY <1>1, SizesAssumption DEF Machines, Compared, Inv, PathsOK, Paths
  <2> QED BY <1>1, <2>1, <2>2, <2>3, <2>4 DEF TypeOK, Compared, Inv, WorkersOK, Machines, States,
          Held, Probes
<1>3. AnswersCount
  <2> SUFFICES ASSUME m.out # NoOut
               PROVE  counts([m EXCEPT !.out.sent = TRUE, !.out.late = FALSE], m.out.probe)
    BY DEF AnswersCount
  <2> DEFINE n == [m EXCEPT !.out.sent = TRUE, !.out.late = FALSE]
             c == m.out.probe.cand
  <2>1. /\ n.out.probe = m.out.probe /\ n.out.sent /\ ~n.out.late
        /\ n.confirming = m.confirming /\ n.confirmed = m.confirmed
    BY <1>1 DEF Machines, Outs
  <2>2. Wanted(m, c) /\ c \in Sizes
    BY <1>1 DEF OnCourse, Probes
  <2>3. m.confirmed = 0 \/ m.confirmed \in 1..c
    BY <1>1, <2>2, SizesAssumption DEF Machines, Sizes, Wanted
  <2> HIDE DEF n
  <2> QED BY <2>1, <2>2, <2>3 DEF counts, Wanted, n
<1>4. OldTokensAreInert
  BY <1>1 DEF OldTokensAreInert, Held, token_is_current, invalidates
<1> QED BY <1>2, <1>3, <1>4 DEF AnswersAndTokens

\* Every answer in time to the outstanding probe moves the search, the search
\* stays between what is confirmed and its bound, and a token of before the
\* budget changed neither sends nor withdraws, whatever workers, timers, late
\* answers, reconciliations and reports do (state_machine.rs, runtime.rs).
THEOREM ComparisonsHold == Spec => []AnswersAndTokens
<1>1. Compared /\ [Next]_vars => Compared'
  <2>1. CASE Compared /\ UNCHANGED vars
    <3>1. UNCHANGED <<m, answers, worker, owner, committed, rec, used, rev, token, sip, due, mtu>>
      BY <2>1 DEF vars
    <3> QED BY <2>1, <3>1 DEF Compared, Inv, WorkersOK, PathsOK, Held
  <2>2. CASE Compared /\ Next
    BY <2>2, NextCompared
  <2> QED BY <2>1, <2>2
<1> QED BY <1>1, InitCompared, ComparedSuffices, PTL DEF Spec
=============================================================================
