------------------------- MODULE MCSignalDelivery -------------------------
(* Small instances of SignalDelivery for TLC.                              *)
EXTENDS SignalDelivery, TLC

Symmetry == Permutations(Senders)
=============================================================================
