----------------------------- MODULE BufferPool ------------------------------
(***************************************************************************)
(* Buffers: the Buffer functions of App.js, the natives that write into    *)
(* backing stores (engine/Buffer.cpp) and the allocator of the stores      *)
(* (engine/Buffers/NestArrayBufferAllocator.cpp).                          *)
(*                                                                         *)
(* A backing store is a sequence of bytes.  A byte is abstracted to its    *)
(* origin: zeroed or left over by the allocator, a string's terminator, or *)
(* the data that a certain buffer was made from.  Short strings and arrays *)
(* become slices of the pool.  Everything runs on the loop thread, in one  *)
(* step per call; only allocation can fail.  The small typed arrays that   *)
(* V8 keeps in its heap until their memory is asked for are treated like   *)
(* the others.                                                             *)
(***************************************************************************)
EXTENDS Integers, Sequences, FiniteSets, FiniteSetsExt

CONSTANTS
  Ids,        \* names of buffers, and of the data they are made from
  Stores,     \* the addresses of backing stores
  Lengths,    \* lengths in bytes that the scripts ask for
  PoolSize,   \* poolSize (8192)
  Alignment,  \* alignment of slices (8)
  WordRange   \* 2^w for the w bits of total_mem_usage_

Half == PoolSize \div 2

ASSUME PoolAssumption ==
  /\ {"zero", "junk", "null"} \cap Ids = {}
  /\ IsFiniteSet(Stores)
  /\ Lengths \subseteq Nat \ {0}
  /\ PoolSize \in Nat \ {0}
  /\ Alignment \in Nat \ {0} /\ PoolSize % Alignment = 0
  /\ WordRange \in Nat \ {0}

VARIABLES
  bytes,             \* the bytes of every store, <<>> if not allocated
  buffers,           \* the buffers that the script can reach
  allocPool,         \* the store of the pool
  poolOffset,        \* where the next slice begins
  zero_fill_toggle,  \* zero_fill_field_ of the allocator
  total_mem_usage    \* total_mem_usage_

vars == <<bytes, buffers, allocPool, poolOffset, zero_fill_toggle,
          total_mem_usage>>

Byte == {"zero", "junk", "null"} \cup Ids

\* A typed array on a store.  Its kind says what it was made by: from a
\* string or an array, alloc with zeros or a fill value, or left raw.
Buffer == [id : Ids, kind : {"string", "array", "zeroed", "filled", "raw"},
           store : Stores, offset : Nat, length : Nat]

Span(b) == b.offset + 1 .. b.offset + b.length

TypeOK ==
  /\ bytes \in [Stores -> Seq(Byte)]
  /\ buffers \subseteq Buffer
  /\ \A b \in buffers : Span(b) \subseteq DOMAIN bytes[b.store]
  /\ allocPool \in Stores
  /\ Len(bytes[allocPool]) = PoolSize
  /\ poolOffset \in 0 .. PoolSize /\ poolOffset % Alignment = 0
  /\ zero_fill_toggle \in {0, 1}
  /\ total_mem_usage \in 0 .. WordRange - 1

Unused(id) == \A b \in buffers : b.id # id
Unallocated(s) == bytes[s] = <<>>

-----------------------------------------------------------------------------
(* The allocator.                                                          *)

\* NestArrayBufferAllocator::Allocate.
Allocated(size, toggle) ==
  [i \in 1 .. size |-> IF toggle # 0 THEN "zero" ELSE "junk"]

CountAllocation(size) ==
  total_mem_usage' = (total_mem_usage + size) % WordRange

\* NestArrayBufferAllocator::Free, called by the collector.
CountFree(size) ==
  total_mem_usage' = (total_mem_usage - size) % WordRange

-----------------------------------------------------------------------------
(* Buffer.from.                                                            *)

\* Mutant of AlignPool: the increment after setting the low bits is missing.
AlignPoolShort(offset) ==
  IF offset % Alignment = 0 THEN offset
  ELSE offset + (Alignment - 1 - (offset % Alignment))

\* alignPool.
AlignPool(offset) ==
  IF offset % Alignment = 0 THEN offset
  ELSE offset + (Alignment - (offset % Alignment))

\* utf8Write and ucs2Write: a string of n bytes goes to the place `at' of the
\* store.  ucs2Write passes the number of bytes as the number of characters,
\* which makes V8 add a terminator of two bytes.
WriteString(store, id, at, n, wide) ==
  [i \in DOMAIN store |->
     IF i \in at + 1 .. at + n THEN id
     ELSE IF wide /\ i \in at + n + 1 .. at + n + 2 THEN "null"
     ELSE store[i]]

\* The loop of __fromArrayLike.
WriteArray(store, id, at, n) == WriteString(store, id, at, n, FALSE)

NewBuffer(id, kind, s, offset, n) ==
  buffers' = buffers \cup
    {[id |-> id, kind |-> kind, store |-> s, offset |-> offset, length |-> n]}

\* createUnsafeBuffer: the toggle is on again whatever happens.
AfterUnsafe == zero_fill_toggle' = 1

\* Mutant of UnsafeFails: the toggle is set back after success only.
UnsafeFailsToggled ==
  /\ zero_fill_toggle' = 0
  /\ UNCHANGED <<bytes, buffers, allocPool, poolOffset, total_mem_usage>>

\* Mutant of UnsafeFails: memory is counted before the null test.
UnsafeFailsCounted ==
  /\ AfterUnsafe
  /\ CountAllocation(PoolSize)
  /\ UNCHANGED <<bytes, buffers, allocPool, poolOffset>>

\* The allocation within createUnsafeBuffer fails; the exception leaves
\* createPool, from or alloc.
UnsafeFails ==
  /\ AfterUnsafe
  /\ UNCHANGED <<bytes, buffers, allocPool, poolOffset, total_mem_usage>>

\* A long string gets a store of its own.
LongString(id, s, n, wide) ==
  /\ n >= Half
  /\ bytes' = [bytes EXCEPT
       ![s] = WriteString(Allocated(n, 0), id, 0, n, wide)]
  /\ CountAllocation(n)
  /\ AfterUnsafe
  /\ NewBuffer(id, "string", s, 0, n)
  /\ UNCHANGED <<allocPool, poolOffset>>

Fits(n) == n < Half /\ n <= PoolSize - poolOffset
NeedsPool(n) == n < Half /\ n > PoolSize - poolOffset

\* Mutant of PooledString: poolOffset is left where it is.
PooledStringStays(id, n, wide) ==
  /\ Fits(n)
  /\ bytes' = [bytes EXCEPT ![allocPool] =
       WriteString(@, id, poolOffset, n, wide)]
  /\ NewBuffer(id, "string", allocPool, poolOffset, n)
  /\ UNCHANGED <<allocPool, poolOffset, zero_fill_toggle, total_mem_usage>>

PooledString(id, n, wide) ==
  /\ Fits(n)
  /\ bytes' = [bytes EXCEPT ![allocPool] =
       WriteString(@, id, poolOffset, n, wide)]
  /\ NewBuffer(id, "string", allocPool, poolOffset, n)
  /\ poolOffset' = AlignPool(poolOffset + n)
  /\ UNCHANGED <<allocPool, zero_fill_toggle, total_mem_usage>>

\* createPool; the old pool lives on in its slices.
CreatePool(s) ==
  /\ allocPool' = s
  /\ CountAllocation(PoolSize)
  /\ AfterUnsafe

StringInNewPool(id, s, n, wide) ==
  /\ NeedsPool(n)
  /\ CreatePool(s)
  /\ bytes' = [bytes EXCEPT
       ![s] = WriteString(Allocated(PoolSize, 0), id, 0, n, wide)]
  /\ NewBuffer(id, "string", s, 0, n)
  /\ poolOffset' = AlignPool(n)

\* __fromArrayLike leaves poolOffset where it is.  (For an array of half the
\* pool or more it refers to an undeclared variable and throws.)
PooledArray(id, n) ==
  /\ Fits(n)
  /\ bytes' = [bytes EXCEPT ![allocPool] = WriteArray(@, id, poolOffset, n)]
  /\ NewBuffer(id, "array", allocPool, poolOffset, n)
  /\ UNCHANGED <<allocPool, poolOffset, zero_fill_toggle, total_mem_usage>>

ArrayInNewPool(id, s, n) ==
  /\ NeedsPool(n)
  /\ CreatePool(s)
  /\ bytes' = [bytes EXCEPT
       ![s] = WriteArray(Allocated(PoolSize, 0), id, 0, n)]
  /\ NewBuffer(id, "array", s, 0, n)
  /\ poolOffset' = 0

-----------------------------------------------------------------------------
(* Buffer.alloc and Buffer.allocUnsafe.                                    *)

AllocZeroed(id, s, n) ==
  /\ bytes' = [bytes EXCEPT ![s] = Allocated(n, zero_fill_toggle)]
  /\ CountAllocation(n)
  /\ NewBuffer(id, "zeroed", s, 0, n)
  /\ UNCHANGED <<allocPool, poolOffset, zero_fill_toggle>>

\* A fill value that is a number or a string: fill writes the whole store.
AllocFilled(id, s, n) ==
  /\ bytes' = [bytes EXCEPT ![s] = WriteArray(Allocated(n, 0), id, 0, n)]
  /\ CountAllocation(n)
  /\ AfterUnsafe
  /\ NewBuffer(id, "filled", s, 0, n)
  /\ UNCHANGED <<allocPool, poolOffset>>

\* allocUnsafe, and alloc with a fill value of another type, which __fill
\* ignores.
AllocRaw(id, s, n) ==
  /\ bytes' = [bytes EXCEPT ![s] = Allocated(n, 0)]
  /\ CountAllocation(n)
  /\ AfterUnsafe
  /\ NewBuffer(id, "raw", s, 0, n)
  /\ UNCHANGED <<allocPool, poolOffset>>

\* __fill throws, for an empty string or an unknown encoding, when the
\* buffer has been allocated.
AllocBadFill(s, n) ==
  /\ bytes' = [bytes EXCEPT ![s] = Allocated(n, 0)]
  /\ CountAllocation(n)
  /\ AfterUnsafe
  /\ UNCHANGED <<buffers, allocPool, poolOffset>>

-----------------------------------------------------------------------------
(* The collector.                                                          *)

\* The bytes that the data of a name leave behind are nobody's.
Disowned(id) ==
  [s \in Stores |-> [i \in DOMAIN bytes[s] |->
     IF bytes[s][i] = id THEN "junk" ELSE bytes[s][i]]]

\* The script loses its last reference to a buffer, and the name is free for
\* new data.
Drop(b) ==
  /\ buffers' = buffers \ {b}
  /\ bytes' = Disowned(b.id)
  /\ UNCHANGED <<allocPool, poolOffset, zero_fill_toggle, total_mem_usage>>

\* A store without typed arrays is freed.
Collect(s) ==
  /\ ~Unallocated(s)
  /\ s # allocPool
  /\ \A b \in buffers : b.store # s
  /\ bytes' = [bytes EXCEPT ![s] = <<>>]
  /\ CountFree(Len(bytes[s]))
  /\ UNCHANGED <<buffers, allocPool, poolOffset, zero_fill_toggle>>

-----------------------------------------------------------------------------
Create(id, s, n) ==
  \/ \E wide \in BOOLEAN :
       /\ wide => n % 2 = 0
       /\ \/ LongString(id, s, n, wide)
          \/ StringInNewPool(id, s, n, wide)
  \/ ArrayInNewPool(id, s, n)
  \/ AllocZeroed(id, s, n)
  \/ AllocFilled(id, s, n)
  \/ AllocRaw(id, s, n)
  \/ AllocBadFill(s, n)

Slice(id, n) ==
  \/ \E wide \in BOOLEAN : (wide => n % 2 = 0) /\ PooledString(id, n, wide)
  \/ PooledArray(id, n)

\* The script App.js begins with createPool().
Init ==
  /\ allocPool \in Stores
  /\ bytes = [s \in Stores |-> IF s = allocPool THEN Allocated(PoolSize, 0) ELSE <<>>]
  /\ buffers = {}
  /\ poolOffset = 0
  /\ zero_fill_toggle = 1
  /\ total_mem_usage = PoolSize % WordRange

Next ==
  \/ \E id \in Ids, n \in Lengths :
       /\ Unused(id)
       /\ \/ Slice(id, n)
          \/ \E s \in Stores : Unallocated(s) /\ Create(id, s, n)
  \/ UnsafeFails
  \/ \E b \in buffers : Drop(b)
  \/ \E s \in Stores : Collect(s)

Spec == Init /\ [][Next]_vars

-----------------------------------------------------------------------------
\* A buffer made from a string, or filled by alloc, keeps its bytes as long
\* as the script can reach it, whatever is created after it: the slices of
\* strings do not overlap, arrays do not reach back into them, terminators
\* fall behind all of them, and no store is freed under a buffer
\* (App.js 235-289, Buffer.cpp 29-65).
StringsKeepBytes ==
  \A b \in buffers : b.kind \in {"string", "filled"} =>
    \A i \in Span(b) : bytes[b.store][i] = b.id

\* What alloc returns without a fill value is all zeros, also after an
\* allocation within createUnsafeBuffer has failed (App.js 137-143, 355).
ZeroedIsZero ==
  \A b \in buffers : b.kind = "zeroed" =>
    \A i \in Span(b) : bytes[b.store][i] = "zero"

\* total_mem_usage_ is the memory of the stores that are allocated, modulo
\* its width (NestArrayBufferAllocator.cpp 6-41).
UsageExact ==
  total_mem_usage =
    MapThenSumSet(LAMBDA s : Len(bytes[s]), Stores) % WordRange
=============================================================================
