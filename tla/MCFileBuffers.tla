---------------------------- MODULE MCFileBuffers ----------------------------
(* Instances of FileBuffers for TLC.                                        *)
EXTENDS FileBuffers, TLC

Symmetry == Permutations(Ids) \cup Permutations(Stores) \cup Permutations(Ops)
=============================================================================
