---------------------------- MODULE DirectBudget ----------------------------
(***************************************************************************)
(* What path MTU discovery promises the traffic of a peer: the largest     *)
(* datagram it may send on the Direct path is a size the peer has answered *)
(* on exactly that path, and it is withdrawn at any time.  How sizes are   *)
(* tried, retried and lowered is the business of Dplpmtud, which           *)
(* implements this.                                                        *)
(***************************************************************************)
EXTENDS Naturals

CONSTANTS
    Paths,      \* committed Direct paths of the peer
    Sizes       \* sizes of a datagram

VARIABLES
    budget,     \* what the peer's traffic may use: [path, size], size 0 for nothing
    answered    \* answers the peer has sent and the prober has not consumed

Nothing == [path |-> 0, size |-> 0]

Init ==
    /\ budget = Nothing
    /\ answered = {}

\* The peer answers a probe.
Answer(p, s) ==
    /\ answered' = answered \cup {[path |-> p, size |-> s]}
    /\ UNCHANGED budget

\* An answer becomes the budget of its path, or is lost, late or of no use.
Prove(a) ==
    /\ answered' \in {answered, answered \ {a}}
    /\ budget' = a

Lose(a) ==
    /\ answered' = answered \ {a}
    /\ UNCHANGED budget

\* The budget is given up: a confirmation failed, the kernel refused a
\* datagram, or the path is gone.
Withdraw ==
    /\ budget' = Nothing
    /\ UNCHANGED answered

Next ==
    \/ \E p \in Paths, s \in Sizes : Answer(p, s)
    \/ \E a \in answered : Prove(a) \/ Lose(a)
    \/ Withdraw

Spec == Init /\ [][Next]_<<budget, answered>>
=============================================================================
