---------------------------- MODULE MCFileWatch -----------------------------
(* Instances of FileWatch for TLC.                                          *)
EXTENDS FileWatch, SequencesExt

CONSTANTS
  MaxSize,   \* bound on the sizes of which all contents are checked
  MoreSizes  \* larger sizes, for which a file has all bytes the same

AllContents ==
  BoundedSeq(Bytes, MaxSize) \cup
  UNION {{[i \in 1 .. n |-> b] : b \in Bytes} : n \in MoreSizes}
=============================================================================
