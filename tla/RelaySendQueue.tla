--------------------------- MODULE RelaySendQueue ---------------------------
(***************************************************************************)
(* The send queue of one relay peer and its budgets                        *)
(* (server/relay/send_queue.go): read loops of any number of sources       *)
(* enqueue under the queue's lock, one writer takes a frame, writes it     *)
(* without the lock and then returns its credits.                          *)
(***************************************************************************)
EXTENDS Integers, Sequences, FiniteSets

CONSTANTS
    Sources,
    Sizes,             \* encoded lengths of data frames
    ControlSizes,      \* and of control frames: a pong is as long as its ping
    capacity,          \* cap(p.send)
    maxBytes,          \* maxPeerQueuedBytes
    controlBytes,      \* relayControlByteReserve
    None

VARIABLES
    send,            \* peer.send
    writing,         \* the frame the writer holds: a sequence of at most one
    queuedBytes,
    queuedBySource,
    writer,          \* "running" until the writer returns
    revoked, done

vars == <<send, writing, queuedBytes, queuedBySource, writer, revoked, done>>

least(a, b) == IF a < b THEN a ELSE b
greatest(a, b) == IF a > b THEN a ELSE b

reserve == least(16, capacity \div 4)
sourceLimit == greatest(1, capacity \div 2)

\* Control frames have no source.
Frames == [source : Sources, size : Sizes] \cup [source : {None}, size : ControlSizes]
business(f) == f.source # None

\* The frames whose credits are out.
held == send \o writing
bytes(q) == Cardinality(UNION {{k} \X (1..q[k].size) : k \in 1..Len(q)})
from(q, s) == Cardinality({k \in 1..Len(q) : q[k].source = s})

-----------------------------------------------------------------------------
\* Mutant: control frames have no part of the bytes for themselves.
admits_bytes(f) ==
    /\ ~revoked /\ ~done
    /\ queuedBytes + f.size <= maxBytes
    /\ business(f) => /\ Len(send) < capacity - reserve
                      /\ queuedBySource[f.source] < sourceLimit
    /\ Len(send) < capacity

\* Mutant: a source is limited by the bytes of the queue only.
admits_greedy(f) ==
    /\ ~revoked /\ ~done
    /\ queuedBytes + f.size <= maxBytes
    /\ business(f) => /\ queuedBytes + f.size <= maxBytes - controlBytes
                      /\ Len(send) < capacity - reserve
    /\ Len(send) < capacity

admits(f) ==
    /\ ~revoked /\ ~done
    /\ queuedBytes + f.size <= maxBytes
    /\ business(f) => /\ queuedBytes + f.size <= maxBytes - controlBytes
                      /\ Len(send) < capacity - reserve
                      /\ queuedBySource[f.source] < sourceLimit
    /\ Len(send) < capacity

\* Refused frames leave the queue as it is; what the caller does then is RelayHub's.
enqueue(f) ==
    /\ admits(f)
    /\ send' = Append(send, f)
    /\ queuedBytes' = queuedBytes + f.size
    /\ queuedBySource' = IF business(f) THEN [queuedBySource EXCEPT ![f.source] = @ + 1]
                                        ELSE queuedBySource
    /\ UNCHANGED <<writing, writer, revoked, done>>

\* Mutant: the credit of a frame is back as soon as it leaves the channel.
WriterTakes_releasing ==
    /\ writer = "running" /\ writing = <<>>
    /\ send # <<>>
    /\ send' = Tail(send)
    /\ IF revoked THEN writer' = "stopped" /\ UNCHANGED writing
                  ELSE writing' = <<Head(send)>> /\ UNCHANGED writer
    /\ queuedBytes' = queuedBytes - Head(send).size
    /\ UNCHANGED <<queuedBySource, revoked, done>>

WriterTakes ==
    /\ writer = "running" /\ writing = <<>>
    /\ send # <<>>
    /\ send' = Tail(send)
    /\ IF revoked THEN writer' = "stopped" /\ UNCHANGED writing
                  ELSE writing' = <<Head(send)>> /\ UNCHANGED writer
    /\ UNCHANGED <<queuedBytes, queuedBySource, revoked, done>>

\* Written in full or failed; releaseFrame comes first either way.
releaseFrame ==
    /\ writing # <<>>
    /\ LET f == Head(writing) IN
         /\ queuedBytes' = greatest(0, queuedBytes - f.size)
         /\ queuedBySource' = IF business(f)
                              THEN [queuedBySource EXCEPT ![f.source] = greatest(0, @ - 1)]
                              ELSE queuedBySource
    /\ writing' = <<>>
    /\ writer' \in {"running", "stopped"}
    /\ UNCHANGED <<send, revoked, done>>

WriterStops ==
    /\ writer = "running" /\ writing = <<>> /\ done
    /\ writer' = "stopped"
    /\ UNCHANGED <<send, writing, queuedBytes, queuedBySource, revoked, done>>

\* The poller revokes the peer; its connection ends.
Revoked == ~revoked /\ revoked' = TRUE
           /\ UNCHANGED <<send, writing, queuedBytes, queuedBySource, writer, done>>
Done == ~done /\ done' = TRUE
        /\ UNCHANGED <<send, writing, queuedBytes, queuedBySource, writer, revoked>>

Init ==
    /\ send = <<>>
    /\ writing = <<>>
    /\ queuedBytes = 0
    /\ queuedBySource = [s \in Sources |-> 0]
    /\ writer = "running"
    /\ revoked = FALSE
    /\ done = FALSE

Next ==
    \/ \E f \in Frames : enqueue(f)
    \/ WriterTakes \/ releaseFrame \/ WriterStops
    \/ Revoked \/ Done

Spec == Init /\ [][Next]_vars

-----------------------------------------------------------------------------
(* Properties. *)

\* The credits are those of the frames queued and being written, no more and no
\* less: a blocked write keeps its credit, a finished one never leaks it.
CreditsMatch ==
    writer = "running" =>
       /\ queuedBytes = bytes(held)
       /\ \A s \in Sources : queuedBySource[s] = from(held, s)

\* What the relay holds in memory for a peer whose writer is blocked is bounded,
\* the frame being written included.
MemoryBounded == bytes(held) <= maxBytes

\* Where some slots are kept for control frames, data alone never costs a peer a
\* control frame that the reserve is large enough for, whatever its sources send:
\* refusing one would close the connection (protocol.go, queue).
ControlFits ==
    reserve > 0 /\ from(held, None) = 0 /\ ~revoked /\ ~done =>
       \A n \in ControlSizes : n <= controlBytes => admits([source |-> None, size |-> n])

\* One source never has all the slots of the destination, where there are two:
\* with only its own frames queued, a frame of another source is admitted as
\* soon as the bytes left for data allow it.  Of those bytes one source may well
\* have taken all; the limit on a source counts its frames, not their length.
OneSourceLeavesSlots ==
    \A s \in Sources, t \in Sources : \A n \in Sizes :
       /\ s # t /\ capacity > 1 /\ from(held, s) = Len(held)
       /\ writer = "running" /\ ~revoked /\ ~done
       /\ queuedBytes + n <= maxBytes - controlBytes
       => admits([source |-> t, size |-> n])

\* The budgets of a queue: exact credits, bounded memory, room for control frames
\* whatever is queued, and slots for a second source whatever one source does.
BudgetsKept == CreditsMatch /\ MemoryBounded /\ ControlFits /\ OneSourceLeavesSlots
=============================================================================
