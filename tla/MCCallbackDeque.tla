--------------------------- MODULE MCCallbackDeque ---------------------------
(* Instances of CallbackDeque for TLC.  Jobs are interchangeable, and so    *)
(* are blocks.                                                              *)
EXTENDS CallbackDeque, TLC

Symmetry == Permutations(Jobs) \cup Permutations(Nodes)
=============================================================================
