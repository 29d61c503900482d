------------------------ MODULE MCPathStateMachine ------------------------
(* Small instances of PathStateMachine for TLC.                            *)
EXTENDS PathStateMachine, TLC

\* Owners and endpoints are only ever compared for equality.
Symmetry == Permutations(Owners) \cup Permutations(DirectEndpoints)
            \cup Permutations(RelayEndpoints)
=============================================================================
