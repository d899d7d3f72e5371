---------------------------- MODULE MCBufferPool -----------------------------
(* Instances of BufferPool for TLC.  Names and addresses are                *)
(* interchangeable.                                                         *)
EXTENDS BufferPool, TLC

Symmetry == Permutations(Ids) \cup Permutations(Stores)
=============================================================================
