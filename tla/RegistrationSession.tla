------------------------ MODULE RegistrationSession ------------------------
(***************************************************************************)
(* Which daemon process speaks for a device: registrations of several      *)
(* processes that share one key, the per-device lock, and the session      *)
(* number every device request is fenced by (server/api/device_handlers.go,*)
(* registration_session.go, database/devices.go, auth/auth.go).            *)
(*                                                                         *)
(* One device.  A boot is a daemon process; its incarnation was reserved   *)
(* durably before it started, so no two boots share one.  Each has at most *)
(* one registration and one other request under way, which run on after it *)
(* has gone.  A step is a database transaction or the stretch between two  *)
(* of them; the lock is held across steps.                                 *)
(*                                                                         *)
(* Room access, addresses, capabilities, credentials, rows without an      *)
(* incarnation and the deletion of the row are left out.                   *)
(***************************************************************************)
EXTENDS Integers

CONSTANTS
    Boots,
    incarnation,     \* the incarnation each boot registers with
    MaxTries,        \* bound: registration requests of one boot
    MaxCalls,        \* bound: session requests of one boot
    None

ASSUME SessionConstants ==
    /\ incarnation \in [Boots -> Nat \ {0, 1}]
    /\ \A b, c \in Boots : incarnation[b] = incarnation[c] => b = c
    /\ MaxTries \in Nat
    /\ MaxCalls \in Nat
    /\ None \notin Boots

VARIABLES
    row,        \* the device's row, None before the first registration
    locks,      \* who holds the device's lock: a handler or None
    reg,        \* the registration handler of each boot
    call,       \* the session request handler of each boot
    session,    \* the sequence the boot's last answer gave it, 0 before
    state,      \* "running"; "fenced" after a conflict; "gone"
    clients,    \* hub.clients of the device: None or its boot and sequence
    tries, calls, \* bounds
    left        \* history: sequences that asked to be offline or timed out,
                \* beginning with the one of the first row, 0 if there is none

vars == <<row, locks, reg, call, session, state, clients, tries, calls, left>>

Kinds == {"endpoint", "offline", "signals", "upgrade"}
Idle == [at |-> "idle"]

\* RegistrationSeq, RegistrationIncarnation, online, and the sequence of the
\* process whose endpoint, NAT type and relay RTT the row shows.
Row(seq, inc, online, facts) ==
    [seq |-> seq, incarnation |-> inc, online |-> online, facts |-> facts]

Seqs == Nat \ {0}
Rows == [seq : Seqs, incarnation : Seqs, online : BOOLEAN, facts : Nat]
Sockets == [boot : Boots, seq : Seqs]
Holders == {"reg", "call"} \X Boots

Registrations ==
    [at : {"idle", "waiting"}]
    \union [at : {"fencing"}, previous : Nat, held : BOOLEAN]
    \union [at : {"committed"}, seq : Seqs, previous : Nat, held : BOOLEAN]
    \union [at : {"answered"}, seq : Nat, held : BOOLEAN]

Requests ==
    {Idle} \union [at : {"waiting", "checked", "refused", "done"}, kind : Kinds, seq : Seqs]

ASSUME NoneIsNothing == None \notin Rows \union Sockets \union Holders

seqNow == IF row = None THEN 0 ELSE row.seq

Init ==
    /\ row \in {None, Row(1, 1, FALSE, 0)}
    /\ locks = None
    /\ reg = [b \in Boots |-> Idle]
    /\ call = [b \in Boots |-> Idle]
    /\ session = [b \in Boots |-> 0]
    /\ state = [b \in Boots |-> "running"]
    /\ clients = None
    /\ tries = [b \in Boots |-> 0]
    /\ calls = [b \in Boots |-> 0]
    /\ left = {seqNow}

-----------------------------------------------------------------------------
(* Registration.                                                           *)

registering == <<row, locks, clients, left>>
calling == <<call, calls, session, state>>

\* POST /devices arrives: the look-up decides whether there is a lock to take.
RegisterLooksUp(b) ==
    /\ state[b] = "running"
    /\ reg[b].at = "idle"
    /\ tries[b] < MaxTries
    /\ tries' = [tries EXCEPT ![b] = @ + 1]
    /\ reg' = [reg EXCEPT ![b] =
           IF row = None THEN [at |-> "fencing", previous |-> 0, held |-> FALSE]
           ELSE [at |-> "waiting"]]
    /\ UNCHANGED <<registering, calling>>

\* Mutant: the lock is given back before the answer.
RegisterLocks_unheld(b) ==
    /\ reg[b].at = "waiting"
    /\ locks = None
    /\ reg' = [reg EXCEPT ![b] =
           [at |-> "fencing", previous |-> row.seq, held |-> FALSE]]
    /\ UNCHANGED <<row, clients, left, calling, tries, locks>>

\* The existing device's lock, and the sequence re-read under it.
RegisterLocks(b) ==
    /\ reg[b].at = "waiting"
    /\ locks = None
    /\ locks' = <<"reg", b>>
    /\ reg' = [reg EXCEPT ![b] =
           [at |-> "fencing", previous |-> row.seq, held |-> TRUE]]
    /\ UNCHANGED <<row, clients, left, calling, tries>>

\* Mutant: the new registration keeps the old endpoint.
registered_keeping_facts(b) ==
    IF row = None THEN Row(1, incarnation[b], TRUE, 0)
    ELSE IF row.incarnation = incarnation[b] THEN [row EXCEPT !.online = TRUE]
    ELSE Row(row.seq + 1, incarnation[b], TRUE, row.facts)

\* Mutant: every registration is a new session.
registered_anew(b) ==
    IF row = None THEN Row(1, incarnation[b], TRUE, 0)
    ELSE Row(row.seq + 1, incarnation[b], TRUE, 0)

\* Mutant: the new registration does not show the device online.
registered_quietly(b) ==
    IF row = None THEN Row(1, incarnation[b], TRUE, 0)
    ELSE IF row.incarnation = incarnation[b] THEN [row EXCEPT !.online = TRUE]
    ELSE Row(row.seq + 1, incarnation[b], row.online, 0)

\* The transaction of registerDeviceWithOptions.
registered(b) ==
    IF row = None THEN Row(1, incarnation[b], TRUE, 0)
    ELSE IF row.incarnation = incarnation[b] THEN [row EXCEPT !.online = TRUE]
    ELSE Row(row.seq + 1, incarnation[b], TRUE, 0)

RegisterCommits(b) ==
    /\ reg[b].at = "fencing"
    /\ row # None => row.incarnation <= incarnation[b]
    /\ row' = registered(b)
    /\ reg' = [reg EXCEPT ![b] =
           [at |-> "committed", seq |-> registered(b).seq,
            previous |-> reg[b].previous, held |-> reg[b].held]]
    /\ UNCHANGED <<locks, clients, left, calling, tries>>

\* A newer incarnation owns the device: 409 registration_conflict.
RegisterRefused(b) ==
    /\ reg[b].at = "fencing"
    /\ row # None
    /\ row.incarnation > incarnation[b]
    /\ reg' = [reg EXCEPT ![b] =
           [at |-> "answered", seq |-> 0, held |-> reg[b].held]]
    /\ UNCHANGED <<registering, calling, tries>>

\* Mutant: no socket is closed.
supersedes_never(b) == FALSE

\* hub.Disconnect where the sequence moved, and the answer is written.
supersedes(b) == reg[b].previous # 0 /\ reg[b].seq # reg[b].previous

RegisterAnswers(b) ==
    /\ reg[b].at = "committed"
    /\ clients' = IF supersedes(b) THEN None ELSE clients
    /\ reg' = [reg EXCEPT ![b] =
           [at |-> "answered", seq |-> reg[b].seq, held |-> reg[b].held]]
    /\ UNCHANGED <<row, locks, left, calling, tries>>

\* Mutant: the lock is not released after a conflict.
RegisterReturns_leaking(b) ==
    /\ reg[b].at = "answered"
    /\ locks' = IF reg[b].held /\ reg[b].seq # 0 THEN None ELSE locks
    /\ reg' = [reg EXCEPT ![b] = Idle]
    /\ UNCHANGED <<session, state, row, clients, left, call, tries, calls>>


\* The deferred unlock.  The answer reaches its boot or is lost; a conflict
\* stops the boot.
RegisterReturns(b) ==
    /\ reg[b].at = "answered"
    /\ locks' = IF reg[b].held THEN None ELSE locks
    /\ reg' = [reg EXCEPT ![b] = Idle]
    /\ \/ UNCHANGED <<session, state>>
       \/ /\ state[b] = "running"
          /\ \/ /\ reg[b].seq # 0
                /\ session' = [session EXCEPT ![b] = reg[b].seq]
                /\ UNCHANGED state
             \/ /\ reg[b].seq = 0
                /\ state' = [state EXCEPT ![b] = "fenced"]
                /\ UNCHANGED session
    /\ UNCHANGED <<row, clients, left, call, tries, calls>>

-----------------------------------------------------------------------------
(* Requests of a registered daemon.                                        *)

\* It carries the sequence of the boot's session in a header.
CallArrives(b, kind) ==
    /\ state[b] = "running"
    /\ session[b] # 0
    /\ call[b].at = "idle"
    /\ calls[b] < MaxCalls
    /\ calls' = [calls EXCEPT ![b] = @ + 1]
    /\ call' = [call EXCEPT ![b] =
           [at |-> "waiting", kind |-> kind, seq |-> session[b]]]
    /\ left' = IF kind = "offline" THEN left \union {session[b]} ELSE left
    /\ UNCHANGED <<row, locks, reg, session, state, clients, tries>>

\* The lock, then the session proof against the row.
checked(b) == IF call[b].seq = row.seq THEN "checked" ELSE "refused"

CallChecks(b) ==
    /\ call[b].at = "waiting"
    /\ locks = None
    /\ locks' = <<"call", b>>
    /\ call' = [call EXCEPT ![b].at = checked(b)]
    /\ UNCHANGED <<row, reg, session, state, clients, tries, calls, left>>

\* Mutant: the heartbeat does not check again.
UpdateEndpoint_unchecked(b) ==
    /\ call[b].at = "checked"
    /\ call[b].kind = "endpoint"
    /\ row' = [row EXCEPT !.online = TRUE, !.facts = call[b].seq]
    /\ call' = [call EXCEPT ![b].at = "done"]
    /\ UNCHANGED <<locks, reg, session, state, clients, tries, calls, left>>

\* A heartbeat, whose transaction checks the sequence once more.
UpdateEndpoint(b) ==
    /\ call[b].at = "checked"
    /\ call[b].kind = "endpoint"
    /\ IF call[b].seq = row.seq
       THEN /\ row' = [row EXCEPT !.online = TRUE, !.facts = call[b].seq]
            /\ call' = [call EXCEPT ![b].at = "done"]
       ELSE /\ call' = [call EXCEPT ![b].at = "refused"]
            /\ UNCHANGED row
    /\ UNCHANGED <<locks, reg, session, state, clients, tries, calls, left>>

\* Mutant: the release does not check again.
ReleasePresence_unchecked(b) ==
    /\ call[b].at = "checked"
    /\ call[b].kind = "offline"
    /\ row' = [row EXCEPT !.online = FALSE]
    /\ call' = [call EXCEPT ![b].at = "done"]
    /\ UNCHANGED <<locks, reg, session, state, clients, tries, calls, left>>

\* The release of a stopping daemon, which checks it too.
ReleasePresence(b) ==
    /\ call[b].at = "checked"
    /\ call[b].kind = "offline"
    /\ IF call[b].seq = row.seq
       THEN /\ row' = [row EXCEPT !.online = FALSE]
            /\ call' = [call EXCEPT ![b].at = "done"]
       ELSE /\ call' = [call EXCEPT ![b].at = "refused"]
            /\ UNCHANGED row
    /\ UNCHANGED <<locks, reg, session, state, clients, tries, calls, left>>

\* A poll, an acknowledgement, a ticket: nothing checks again.
OtherAction(b) ==
    /\ call[b].at = "checked"
    /\ call[b].kind = "signals"
    /\ call' = [call EXCEPT ![b].at = "done"]
    /\ UNCHANGED <<row, locks, reg, session, state, clients, tries, calls, left>>

\* An upgrade holds the lock until the hub has the socket.
UpgradeRegisters(b) ==
    /\ call[b].at = "checked"
    /\ call[b].kind = "upgrade"
    /\ clients' = [boot |-> b, seq |-> call[b].seq]
    /\ call' = [call EXCEPT ![b].at = "done"]
    /\ UNCHANGED <<row, locks, reg, session, state, tries, calls, left>>

\* Mutant: an upgrade keeps the lock while its socket lives.
CallReturns_holding(b) ==
    /\ call[b].at \in {"done", "refused"}
    /\ locks' = IF call[b].at = "done" /\ call[b].kind = "upgrade" THEN locks ELSE None
    /\ call' = [call EXCEPT ![b] = Idle]
    /\ UNCHANGED <<state, row, reg, session, clients, tries, calls, left>>

\* The answer: a conflict stops the boot, an answer may be lost.
CallReturns(b) ==
    /\ call[b].at \in {"done", "refused"}
    /\ locks' = None
    /\ call' = [call EXCEPT ![b] = Idle]
    /\ \/ UNCHANGED state
       \/ /\ call[b].at = "refused"
          /\ state[b] = "running"
          /\ state' = [state EXCEPT ![b] = "fenced"]
    /\ UNCHANGED <<row, reg, session, clients, tries, calls, left>>

-----------------------------------------------------------------------------
(* The rest of the world.                                                  *)

\* A process ends; what it sent runs on.  Its socket breaks.
BootEnds(b) ==
    /\ state[b] # "gone"
    /\ state' = [state EXCEPT ![b] = "gone"]
    /\ UNCHANGED <<row, locks, reg, call, session, clients, tries, calls, left>>

SocketBreaks ==
    /\ clients # None
    /\ clients' = None
    /\ UNCHANGED <<row, locks, reg, call, session, state, tries, calls, left>>

\* MarkStaleDevicesOffline, where no heartbeat came for the TTL.
MarkStaleDevicesOffline ==
    /\ row # None
    /\ row.online
    /\ row' = [row EXCEPT !.online = FALSE]
    /\ left' = left \union {row.seq}
    /\ UNCHANGED <<locks, reg, call, session, state, clients, tries, calls>>

Handler(b) ==
    \/ RegisterLocks(b)
    \/ RegisterCommits(b)
    \/ RegisterRefused(b)
    \/ RegisterAnswers(b)
    \/ RegisterReturns(b)
    \/ CallChecks(b)
    \/ UpdateEndpoint(b)
    \/ ReleasePresence(b)
    \/ OtherAction(b)
    \/ UpgradeRegisters(b)
    \/ CallReturns(b)

Next ==
    \/ \E b \in Boots : Handler(b) \/ RegisterLooksUp(b) \/ BootEnds(b)
    \/ \E b \in Boots, kind \in Kinds : CallArrives(b, kind)
    \/ SocketBreaks
    \/ MarkStaleDevicesOffline

Spec == Init /\ [][Next]_vars

\* A handler runs to its end; a process or the network need not do anything.
FairSpec == Spec /\ \A b \in Boots : WF_vars(Handler(b))

-----------------------------------------------------------------------------
(* Properties.                                                             *)

\* Type invariant; a held lock has its handler between lock and unlock.
TypeOK ==
    /\ row \in Rows \union {None}
    /\ locks \in Holders \union {None}
    /\ reg \in [Boots -> Registrations]
    /\ call \in [Boots -> Requests]
    /\ session \in [Boots -> Nat]
    /\ state \in [Boots -> {"running", "fenced", "gone"}]
    /\ clients \in Sockets \union {None}
    /\ \A b \in Boots :
           /\ locks = <<"reg", b>> <=> reg[b].at \notin {"idle", "waiting"} /\ reg[b].held
           /\ locks = <<"call", b>> <=> call[b].at \in {"checked", "done", "refused"}
           /\ session[b] <= seqNow

\* The endpoint a row shows was published by the process that is registered:
\* a heartbeat of the superseded one, however late, leaves no trace
\* (devices.go: the facts are cleared, and each heartbeat is fenced).
FactsAreCurrent == row = None \/ row.facts \in {0, row.seq}

\* A device goes offline because its registered process said so or fell
\* silent; a superseded process that shuts down does not take its successor
\* offline (ReleaseDevicePresenceForRegistrationSession).
OfflineIsDeliberate == row = None \/ row.online \/ row.seq \in left

\* The wake-up socket belongs to the registered process, but for the moment
\* between a registration's commit and its Disconnect (device_handlers.go).
SocketIsCurrent ==
    \/ clients = None
    \/ clients.seq = row.seq
    \/ \E b \in Boots : reg[b].at = "committed" /\ reg[b].seq = row.seq

\* A device request acts only while the session it proved is the current one:
\* no registration gets between its check and its action
\* (registration_session.go, the per-device lock).
acts_under_its_session ==
    \A b \in Boots : call[b].at = "checked" /\ call'[b].at = "done" => call[b].seq = row.seq

\* The device's row existed before the first boot here.
enrolled == 0 \notin left

\* A first registration finds no row and takes no lock: until it commits, the
\* session may change under a request, and a socket may outlive its session.
SocketFollowsRow == enrolled => SocketIsCurrent
ActsUnderItsLock == [][enrolled => acts_under_its_session]_vars

\* Registrations only advance: a delayed or repeated one neither renumbers
\* its own session nor takes the device back (registration_conflict).
SessionsAdvance ==
    [][row # None =>
          /\ row'.incarnation >= row.incarnation
          /\ row'.seq > row.seq <=> row'.incarnation > row.incarnation]_vars

\* What the row says of its device is what the registered process said, and a
\* superseded one changes nothing about it.
RowIsCurrent == TypeOK /\ FactsAreCurrent /\ OfflineIsDeliberate

\* The newest process that asks for the device gets it, whatever the others
\* do and whether or not it lives to see the answer.
NewestTakesOver ==
    \A b \in Boots :
        (/\ reg[b].at # "idle"
         /\ \A c \in Boots : incarnation[c] <= incarnation[b])
        ~> (row # None /\ row.incarnation = incarnation[b])

\* A socket of a superseded process ends without its help.
SupersededSocketEnds ==
    (clients # None /\ row # None /\ clients.seq # row.seq)
    ~> (clients = None \/ clients.seq = row.seq)

=============================================================================
