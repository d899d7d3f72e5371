----------------------------- MODULE FileBuffers -----------------------------
(***************************************************************************)
(* Reads and writes of files with the buffers of BufferPool: Files.read    *)
(* and Files.write of App.js and the worker threads of                     *)
(* engine/FileSystem.cpp.  A call takes the address of the backing store,  *)
(* and its worker uses the address later, while scripts go on creating     *)
(* buffers and the collector frees stores.  The callback of a read refers  *)
(* to the buffer; nothing holds the buffer of a write.                     *)
(*                                                                         *)
(* Nothing checks the offset and the length of a read, nor whether the     *)
(* buffer begins its store: a read may strike other buffers, and run out   *)
(* of its store.                                                           *)
(*                                                                         *)
(* A worker's input/output is one step: what the properties say, they say  *)
(* of each byte and of any moment between the call and the callback.       *)
(***************************************************************************)
EXTENDS BufferPool

CONSTANTS
  Available,  \* bytes that a file can have from a read's position on
  Offsets,    \* values of options.offset
  Asked,      \* values of options.length
  Ops,        \* the reads and writes under way at the same time
  NoOp

ASSUME OpsAssumption ==
  /\ NoOp \notin Ops
  /\ "file" \notin Ids
  /\ Available \subseteq Nat /\ Offsets \subseteq Nat /\ Asked \subseteq Nat

VARIABLES
  op,    \* each call under way: its buffer, the place in the store that the
         \* worker gets (from, length), its stage, the bytes that were read,
         \* and whether the buffer or the pool still holds the memory
  stray  \* history: <<id, place>> if a read into another buffer was directed
         \* at that place, which is one of a buffer of this name that has the
         \* bytes it was made with

poolVars == <<allocPool, poolOffset, zero_fill_toggle, total_mem_usage>>
fileVars == <<vars, op, stray>>

Active(o) == op[o] # NoOp
Pending(o) == Active(o) /\ op[o].stage = "io"
Done(o) == Active(o) /\ op[o].stage = "done"
Serves(o, b) == Active(o) /\ op[o].buffer.id = b.id

\* What is left of the buffer's hold on its memory after a step.
Hold ==
  [o \in Ops |->
     IF ~Active(o) THEN NoOp
     ELSE [op[o] EXCEPT !.held =
             /\ op[o].held
             /\ \/ \E b \in buffers' : b.id = op[o].buffer.id
                \/ op[o].buffer.store = allocPool']]

-----------------------------------------------------------------------------
(* Calls, on the loop thread.                                              *)

\* The bytes of the buffer are not what it was made from any more.  What is
\* made from an array stays apart, for it shares its memory with the next
\* slice.
ReadInto(b) == [b EXCEPT !.kind = IF @ = "array" THEN "array" ELSE "raw"]

\* The address is the start of the store plus options.offset, wherever in the
\* store the buffer begins; the length is that of the buffer, whatever the
\* offset, or any other that the script gives.  A script can have several
\* reads into a buffer under way; the buffer of a write it cannot reach, as
\* Files.write has made it.
ReadFileAsync(o, b, offset, length) ==
  /\ ~Active(o)
  /\ \A p \in Ops : Serves(p, b) => op[p].call = "read"
  /\ buffers' = (buffers \ {b}) \cup {ReadInto(b)}
  /\ op' = [op EXCEPT ![o] =
       [call |-> "read", buffer |-> ReadInto(b),
        from |-> offset, length |-> length,
        stage |-> "io", bytesRead |-> 0, held |-> TRUE]]
  /\ UNCHANGED <<bytes, poolVars, stray>>

\* Mutant of WriteFileAsync: the length of the store is taken.
WriteFileAsyncStore(o, b) ==
  /\ ~Active(o)
  /\ \A p \in Ops : ~Serves(p, b)
  /\ op' = [op EXCEPT ![o] =
       [call |-> "write", buffer |-> b, from |-> 0,
        length |-> Len(bytes[b.store]),
        stage |-> "io", bytesRead |-> 0, held |-> TRUE]]
  /\ UNCHANGED <<vars, stray>>

\* A write takes byteLength bytes from the start of the store.  Files.write
\* has made the buffer, so that no read uses it.
WriteFileAsync(o, b) ==
  /\ ~Active(o)
  /\ \A p \in Ops : ~Serves(p, b)
  /\ op' = [op EXCEPT ![o] =
       [call |-> "write", buffer |-> b, from |-> 0, length |-> b.length,
        stage |-> "io", bytesRead |-> 0, held |-> TRUE]]
  /\ UNCHANGED <<vars, stray>>

-----------------------------------------------------------------------------
(* Worker threads.                                                         *)

\* The places that n bytes for a read go to.  Behind the end of the store they
\* go to what lies there in memory: another store, or nothing of this model.
Places(o, n, next) ==
  LET own == op[o].buffer.store
      asked == op[o].from + 1 .. op[o].from + n
      end == Len(bytes[own])
  IN  {own} \X {p \in asked : p <= end}
        \cup {next} \X {p - end : p \in {q \in asked : q > end}}

\* The places of its store that are the buffer's own.
Own(b) == {b.store} \X (IF b.kind = "array" THEN {} ELSE Span(b))

\* The buffers that nobody has read into; scripts or calls have them.
Intact ==
  {b \in buffers \cup {op[o].buffer : o \in {p \in Ops : Active(p)}} :
     b.kind \in {"string", "filled", "zeroed"}}

\* The read is directed at places of others.
GoesAstray(o, next) ==
  LET others == Places(o, op[o].length, next) \ Own(op[o].buffer)
  IN  stray' = stray \cup
        UNION {{b.id} \X {i \in Span(b) : <<b.store, i>> \in others} : b \in Intact}

\* The name is free for other data.
Forget(id) == stray' = {s \in stray : s[1] # id}

\* n bytes of the file arrive.
Arrive(o, n, next) ==
  bytes' = [s \in Stores |-> [i \in DOMAIN bytes[s] |->
    IF <<s, i>> \in Places(o, n, next) THEN "file" ELSE bytes[s][i]]]

\* Mutant of ReadIO: as many bytes as the file has, not at most length.
ReadIOAll(o, available, next) ==
  /\ Pending(o)
  /\ op[o].call = "read"
  /\ next # op[o].buffer.store
  /\ Arrive(o, available, next)
  /\ op' = [op EXCEPT ![o].stage = "done",
                      ![o].bytesRead = Min({available, op[o].length})]
  /\ GoesAstray(o, next)
  /\ UNCHANGED <<buffers, poolVars>>

\* readAsync.
ReadIO(o, available, next) ==
  LET n == Min({available, op[o].length})
  IN  /\ Pending(o)
      /\ op[o].call = "read"
      /\ next # op[o].buffer.store
      /\ Arrive(o, n, next)
      /\ op' = [op EXCEPT ![o].stage = "done", ![o].bytesRead = n]
      /\ GoesAstray(o, next)
      /\ UNCHANGED <<buffers, poolVars>>

\* The bytes that a write hands to the file; memory that is no store any
\* more reads as junk.
Output(o) ==
  LET memory == bytes[op[o].buffer.store]
  IN  [i \in 1 .. op[o].length |->
         IF op[o].from + i \in DOMAIN memory
         THEN memory[op[o].from + i] ELSE "junk"]

\* writeAsync.
WriteIO(o) ==
  /\ Pending(o)
  /\ op[o].call = "write"
  /\ op' = [op EXCEPT ![o].stage = "done"]
  /\ UNCHANGED <<vars, stray>>

-----------------------------------------------------------------------------
(* The callback, and what scripts and the collector do meanwhile.          *)

Callback(o) ==
  /\ Done(o)
  /\ op' = [op EXCEPT ![o] = NoOp]
  /\ IF Unused(op[o].buffer.id)
     THEN bytes' = Disowned(op[o].buffer.id) /\ Forget(op[o].buffer.id)
     ELSE UNCHANGED <<bytes, stray>>
  /\ UNCHANGED <<buffers, poolVars>>

CreateBuffer ==
  /\ \E id \in Ids, n \in Lengths :
       /\ Unused(id)
       /\ \A o \in Ops : Active(o) => op[o].buffer.id # id
       /\ \/ Slice(id, n)
          \/ \E s \in Stores : Unallocated(s) /\ Create(id, s, n)
  /\ op' = Hold
  /\ UNCHANGED stray

\* Mutant of DropBuffer: the callback of a read does not refer to the buffer.
DropBufferRead(b) ==
  /\ IF \E o \in Ops : Serves(o, b)
     THEN buffers' = buffers \ {b} /\ UNCHANGED <<bytes, poolVars, stray>>
     ELSE Drop(b) /\ Forget(b.id)
  /\ op' = Hold

\* A buffer that no callback refers to is dropped.
DropBuffer(b) ==
  /\ \A o \in Ops : Serves(o, b) => op[o].call = "write"
  /\ IF \E o \in Ops : Serves(o, b)
     THEN buffers' = buffers \ {b} /\ UNCHANGED <<bytes, poolVars, stray>>
     ELSE Drop(b) /\ Forget(b.id)
  /\ op' = Hold

CollectStore(s) ==
  /\ Collect(s)
  /\ UNCHANGED <<op, stray>>

FileInit == Init /\ op = [o \in Ops |-> NoOp] /\ stray = {}

FileNext ==
  \/ \E o \in Ops :
       \/ \E b \in buffers : WriteFileAsync(o, b)
       \/ \E b \in buffers, offset \in Offsets :
            \E length \in Asked \cup {b.length} :
              ReadFileAsync(o, b, offset, length)
       \/ \E n \in Available, next \in Stores : ReadIO(o, n, next)
       \/ WriteIO(o)
       \/ Callback(o)
  \/ CreateBuffer
  \/ UnsafeFails /\ UNCHANGED <<op, stray>>
  \/ \E b \in buffers : DropBuffer(b)
  \/ \E s \in Stores : CollectStore(s)

FileSpec == FileInit /\ [][FileNext]_fileVars

-----------------------------------------------------------------------------
\* What a write hands to the file are the bytes of its string, but for those
\* that a read went astray to, provided that the string begins its store and
\* that the memory was held until the input/output: by the buffer, which
\* Files.write does not keep, or, for a short string, by the pool until the
\* next pool is created (FileSystem.cpp 127-139, App.js 386-407).
WritesIntact ==
  [][\A o \in Ops : WriteIO(o) =>
       LET b == op[o].buffer
       IN  (b.kind = "string" /\ b.offset = 0 /\ op[o].held) =>
             /\ DOMAIN Output(o) = 1 .. b.length
             /\ \A i \in 1 .. b.length :
                  <<b.id, i>> \notin stray => Output(o)[i] = b.id]_fileVars

\* A byte of a string, a fill value or zeros that nobody reads into keeps its
\* value, unless a read was directed at its very place from another buffer:
\* one with an offset, whose default length then reaches behind its end, one
\* that does not begin its store, so that the address is not its own, or one
\* made from an array, which the next slice overlaps (App.js 286, 376-379,
\* FileSystem.cpp 17, 46).
ReadsSpareStrings ==
  \A b \in buffers : \A i \in Span(b) : <<b.id, i>> \notin stray =>
    /\ b.kind \in {"string", "filled"} => bytes[b.store][i] = b.id
    /\ b.kind = "zeroed" => bytes[b.store][i] = "zero"

\* When the callback of a read is due, the bytes that were read are in the
\* buffer it gets, which still has its memory, as far as they were asked for
\* within the buffer; provided that the buffer begins its store and was not
\* made from an array (App.js 359-385, FileSystem.cpp 6-65).
ReadArrives ==
  \A o \in Ops :
    LET b == op[o].buffer
    IN  (Done(o) /\ op[o].call = "read" /\ b.kind # "array" /\ b.offset = 0) =>
          \A i \in 1 .. op[o].bytesRead :
            LET place == op[o].from + i
            IN  place <= b.length =>
                  /\ place \in DOMAIN bytes[b.store]
                  /\ bytes[b.store][place] = "file"
=============================================================================
