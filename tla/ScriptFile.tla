----------------------------- MODULE ScriptFile ------------------------------
(***************************************************************************)
(* Lemon::ReadFile (engine/Lemon.cpp 19-52): the size of the script file   *)
(* is taken first, then fread is called until that many bytes have come.   *)
(* fread returns early at the end of the file or on an error, and both     *)
(* stay with the stream.  The model ends with the array of bytes; V8 gets  *)
(* its size as an int (line 46).                                           *)
(***************************************************************************)
EXTENDS ChangingFile

VARIABLES
  pc,     \* where ReadFile is
  size,   \* what ftell reported
  chars,  \* the array, 0 where it is uninitialized
  i,      \* bytes read so far
  eof,    \* the stream's end-of-file flag
  error   \* the stream's error flag

scriptVars == <<fileVars, pc, size, chars, i, eof, error>>

-----------------------------------------------------------------------------
Fopen ==
  /\ pc = "fopen"
  /\ pc' = IF exists THEN "ftell" ELSE "empty"
  /\ UNCHANGED <<fileVars, size, chars, i, eof, error>>

Ftell ==
  /\ pc = "ftell"
  /\ size' = Len(file)
  /\ chars' = [k \in 1 .. Len(file) |-> 0]
  /\ pc' = "loop"
  /\ UNCHANGED <<fileVars, i, eof, error>>

\* Mutant of Loop: the comparison admits the size.
LoopToSize ==
  /\ pc = "loop"
  /\ pc' = IF i <= size THEN "fread" ELSE "done"
  /\ UNCHANGED <<fileVars, size, chars, i, eof, error>>

\* The condition of the loop, and fclose after it.
Loop ==
  /\ pc = "loop"
  /\ pc' = IF i < size THEN "fread" ELSE "done"
  /\ UNCHANGED <<fileVars, size, chars, i, eof, error>>

\* fread gets the next byte of the file.
FreadByte ==
  /\ pc = "fread"
  /\ ~eof /\ ~error /\ i < size /\ i < Len(file)
  /\ chars' = [chars EXCEPT ![i + 1] = file[i + 1]]
  /\ i' = i + 1
  /\ UNCHANGED <<fileVars, pc, size, eof, error>>

\* fread returns: all bytes have come, the file ends, or reading fails.
FreadReturns ==
  /\ pc = "fread"
  /\ \/ i = size /\ UNCHANGED <<eof, error>>
     \/ i < size /\ (eof \/ i >= Len(file)) /\ eof' = TRUE /\ UNCHANGED error
     \/ i < size /\ error' = TRUE /\ UNCHANGED eof
  /\ pc' = "ferror"
  /\ UNCHANGED <<fileVars, size, chars, i>>

\* Mutant of Ferror: an error ends the loop like success.
FerrorDone ==
  /\ pc = "ferror"
  /\ pc' = IF error THEN "done" ELSE "loop"
  /\ UNCHANGED <<fileVars, size, chars, i, eof, error>>

Ferror ==
  /\ pc = "ferror"
  /\ pc' = IF error THEN "empty" ELSE "loop"
  /\ UNCHANGED <<fileVars, size, chars, i, eof, error>>

ScriptStep == Fopen \/ Ftell \/ Loop \/ FreadByte \/ FreadReturns \/ Ferror

ScriptInit ==
  /\ FileInit
  /\ pc = "fopen"
  /\ size = 0
  /\ chars = <<>>
  /\ i = 0
  /\ eof = FALSE
  /\ error = FALSE

Returned == pc \in {"done", "empty"} /\ UNCHANGED scriptVars

ScriptNext ==
  \/ FileChanges /\ UNCHANGED <<pc, size, chars, i, eof, error>>
  \/ ScriptStep
  \/ Returned

ScriptSpec == ScriptInit /\ [][ScriptNext]_scriptVars

\* ReadFile goes on running.
FairScriptSpec == ScriptSpec /\ WF_scriptVars(ScriptStep)

-----------------------------------------------------------------------------
\* The text that ReadFile hands to V8 is made of bytes of its file: no
\* uninitialized byte gets into it, although fread may return early, and for
\* a file that nobody changes meanwhile it is the file.
ScriptIsFile ==
  pc = "done" =>
    /\ \A k \in 1 .. size : chars[k] \in seen[k] \ {0, Gone}
    /\ changes = 0 => chars = file

\* ReadFile returns, unless the file becomes shorter than it was at ftell:
\* then fread returns 0 without an error for ever.
ReturnsUnlessCutOff == <>(pc \in {"done", "empty"} \/ Len(file) < size)
=============================================================================
