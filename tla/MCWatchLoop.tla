---------------------------- MODULE MCWatchLoop ----------------------------
(***************************************************************************)
(* Instances of WatchLoop for TLC.                                         *)
(***************************************************************************)
EXTENDS WatchLoop, TLC

\* Job objects are interchangeable, and so are watchers.
ThreadSymmetry == Permutations(Jobs) \cup Permutations(Watchers)
=============================================================================
