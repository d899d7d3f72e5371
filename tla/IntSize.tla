------------------------------- MODULE IntSize -------------------------------
(***************************************************************************)
(* Sizes of files that engine/FileSystem.cpp stores in a variable of type  *)
(* int: in the message of stat (line 251) and in a watcher (359, 368).     *)
(***************************************************************************)
EXTENDS Integers

CONSTANT
  IntRange  \* 2^w for the w bits of the integer

ASSUME RangeAssumption == IntRange \in Nat \ {0}

Largest == (IntRange \div 2) - 1

\* The integer that is left of a 64-bit size.
ToInt(n) == LET m == n % IntRange IN IF m > Largest THEN m - IntRange ELSE m
=============================================================================
