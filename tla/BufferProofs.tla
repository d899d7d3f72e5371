---------------------------- MODULE BufferProofs -----------------------------
(***************************************************************************)
(* Proofs about BufferPool and FileBuffers, for any pool size, alignment   *)
(* and lengths: buffers made from strings keep their bytes and zeroed ones *)
(* their zeros; reads and writes of files touch only what they should.     *)
(*                                                                         *)
(* The invariant is stated for a set L of live buffers, which are those    *)
(* that scripts can reach and, in FileBuffers, those whose memory a write  *)
(* still has; for a set H of places about which nothing is promised, since *)
(* a read into another was directed at them; and for a set D of bytes.     *)
(***************************************************************************)
EXTENDS FileBuffers, FiniteSetTheorems, WellFoundedInduction, TLAPS

\* The stores have contents, and the pool is one of them, ...
Shape(L, D) ==
  /\ bytes \in [Stores -> Seq(D)]
  /\ L \subseteq Buffer
  /\ allocPool \in Stores
  /\ Len(bytes[allocPool]) = PoolSize
  /\ poolOffset \in Nat
  /\ zero_fill_toggle = 1

\* ... every buffer lies in its store, ...
Placed(L) ==
  \A b \in L : b.length > 0 /\ b.offset + b.length <= Len(bytes[b.store])

\* ... buffers have different data, ...
OneOwner(L) == \A a, b \in L : a.id = b.id => a = b

\* ... the pool holds slices only, those not made from arrays below
\* poolOffset (without this a new slice could cover an older one), ...
Apart(L) ==
  \A b \in L : b.store = allocPool =>
    /\ b.kind \notin {"zeroed", "filled"}
    /\ b.kind # "array" => b.offset + b.length <= poolOffset

\* ... and buffers not made from arrays do not overlap ...
Disjoint(L) ==
  \A a, b \in L :
    (a # b /\ a.store = b.store /\ a.kind # "array" /\ b.kind # "array")
    => Span(a) \cap Span(b) = {}

\* ... and have the bytes they were made with.
Kept(L, H) ==
  \A b \in L : \A i \in Span(b) : <<b.id, i>> \notin H =>
    /\ b.kind \in {"string", "filled"} => bytes[b.store][i] = b.id
    /\ b.kind = "zeroed" => bytes[b.store][i] = "zero"

\* The inductive invariant.
Sound(L, H, D) ==
  /\ Shape(L, D) /\ Placed(L) /\ OneOwner(L)
  /\ Apart(L) /\ Disjoint(L) /\ Kept(L, H)

Kinds == {"string", "array", "zeroed", "filled", "raw"}

\* A step leaves the bytes of live buffers alone.
Untouched(L) ==
  \A b \in L : b.kind # "array" =>
    \A i \in Span(b) : bytes'[b.store][i] = bytes[b.store][i]

\* What the bytes of a new buffer have to be.
Filled(c, id, kind, offset, n) ==
  /\ kind \in {"string", "filled"} =>
       \A i \in offset + 1 .. offset + n : c[i] = id
  /\ kind = "zeroed" => \A i \in offset + 1 .. offset + n : c[i] = "zero"

-----------------------------------------------------------------------------
(* The operators.                                                          *)

\* alignPool never goes back.
LEMMA AlignForward ==
  ASSUME NEW n \in Nat
  PROVE  AlignPool(n) \in Nat /\ AlignPool(n) >= n
<1>1. Alignment \in Nat /\ Alignment > 0
  BY PoolAssumption
<1>2. n % Alignment \in 0 .. Alignment - 1
  BY <1>1
<1> QED BY <1>1, <1>2 DEF AlignPool

\* The allocator hands out as many bytes as were asked for.
LEMMA AllocatedBytes ==
  ASSUME NEW D, Byte \subseteq D, NEW n \in Nat, NEW toggle \in {0, 1}
  PROVE  /\ Allocated(n, toggle) \in Seq(D)
         /\ Len(Allocated(n, toggle)) = n
         /\ toggle = 1 => \A i \in 1 .. n : Allocated(n, toggle)[i] = "zero"
<1>1. Allocated(n, toggle) \in [1 .. n -> D]
  BY DEF Allocated, Byte
<1> QED BY <1>1 DEF Allocated

\* A write of a string keeps the length of the store and the bytes before
\* its place, and leaves the string there.
LEMMA WrittenBytes ==
  ASSUME NEW D, Byte \subseteq D, NEW store \in Seq(D), NEW id \in Ids, NEW at \in Nat,
         NEW n \in Nat, NEW wide,
         NEW c, c = WriteString(store, id, at, n, wide)
  PROVE  /\ c \in Seq(D)
         /\ Len(c) = Len(store)
         /\ \A i \in 1 .. Len(store) : i <= at => c[i] = store[i]
         /\ at + n <= Len(store) => \A i \in at + 1 .. at + n : c[i] = id
<1>1. DOMAIN store = 1 .. Len(store) /\ Len(store) \in Nat
  OBVIOUS
<1>2. \A i \in DOMAIN store : store[i] \in D
  OBVIOUS
<1>3. \A i \in DOMAIN store : c[i] \in D
  BY <1>2 DEF WriteString, Byte
<1>4. c \in [1 .. Len(store) -> D]
  BY <1>1, <1>3 DEF WriteString
<1>5. c \in Seq(D) /\ Len(c) = Len(store)
  BY <1>1, <1>4
<1>6. \A i \in 1 .. Len(store) : i <= at => c[i] = store[i]
  BY <1>1 DEF WriteString
<1>7. at + n <= Len(store) => \A i \in at + 1 .. at + n : c[i] = id
  BY <1>1 DEF WriteString
<1> QED BY <1>5, <1>6, <1>7

-----------------------------------------------------------------------------
(* The kinds of steps.                                                     *)

\* No live buffer has a store that is not allocated, nor has the pool.
LEMMA UnusedStore ==
  ASSUME NEW L, NEW H, NEW D, Sound(L, H, D), NEW s \in Stores, Unallocated(s)
  PROVE  s # allocPool /\ \A b \in L : b.store # s
<1>1. Len(bytes[s]) = 0
  BY DEF Unallocated
<1>2. s # allocPool
  BY <1>1, PoolAssumption DEF Sound, Shape
<1>3. ASSUME NEW b \in L, b.store = s PROVE FALSE
  <2>1. b.offset \in Nat /\ b.length \in Nat
    BY DEF Sound, Shape, Buffer
  <2> QED BY <1>1, <1>3, <2>1 DEF Sound, Placed
<1> QED BY <1>2, <1>3

\* What a step leaves to the live buffers of a store whose bytes become c.
Spares(L, s, c) ==
  \A b \in L : b.store = s =>
    /\ b.kind \notin {"zeroed", "filled"}
    /\ Len(c) = Len(bytes[s])
    /\ b.kind # "array" => \A i \in Span(b) : c[i] = bytes[s][i]

LEMMA OldBuffersKeep ==
  ASSUME NEW L, NEW H, NEW D, Sound(L, H, D),
         NEW s \in Stores, NEW c \in Seq(D),
         bytes' = [bytes EXCEPT ![s] = c], Spares(L, s, c)
  PROVE  Untouched(L) /\ Placed(L)' /\ Kept(L, H)'
<1>1. L \subseteq Buffer /\ bytes \in [Stores -> Seq(D)]
  BY DEF Sound, Shape
<1>2. ASSUME NEW b \in L
      PROVE  /\ Len(bytes'[b.store]) = Len(bytes[b.store])
             /\ b.kind # "array" =>
                  \A i \in Span(b) : bytes'[b.store][i] = bytes[b.store][i]
  <2>1. b.store \in Stores
    BY <1>1 DEF Buffer
  <2>2. CASE b.store = s
    <3>1. bytes'[b.store] = c
      BY <1>1, <2>2
    <3> QED BY <2>2, <3>1 DEF Spares
  <2>3. CASE b.store # s
    <3>1. bytes'[b.store] = bytes[b.store]
      BY <1>1, <2>1, <2>3
    <3> QED BY <3>1
  <2> QED BY <2>2, <2>3
<1>3. Untouched(L)
  BY <1>2 DEF Untouched
<1>4. Placed(L)'
  BY <1>2 DEF Sound, Placed
<1>5. Kept(L, H)'
  BY <1>2 DEF Sound, Kept, Span
<1> QED BY <1>3, <1>4, <1>5

\* A step that leaves the pool alone, and every store with a live buffer.
LEMMA BuffersKept ==
  ASSUME NEW L, NEW H, NEW D, Sound(L, H, D), NEW s \in Stores, s # allocPool,
         \A b \in L : b.store # s,
         NEW c \in Seq(D), bytes' = [bytes EXCEPT ![s] = c],
         UNCHANGED <<allocPool, poolOffset>>, zero_fill_toggle' = 1
  PROVE  Sound(L, H, D)' /\ Untouched(L)
<1>1. Spares(L, s, c)
  BY DEF Spares
<1>2. Untouched(L) /\ Placed(L)' /\ Kept(L, H)'
  BY <1>1, OldBuffersKeep
<1>3. Shape(L, D)'
  BY DEF Sound, Shape
<1>4. OneOwner(L)' /\ Apart(L)' /\ Disjoint(L)'
  BY DEF Sound, OneOwner, Apart, Disjoint, Span
<1> QED BY <1>2, <1>3, <1>4 DEF Sound

\* The result of a step that makes a buffer for the data id, or none.
Grown(L, H, D, id) ==
  \E N, M : /\ buffers' = buffers \cup N
            /\ M = L \cup N
            /\ \A b \in N : b.id = id
            /\ Sound(M, H, D)'

\* A step that makes a buffer in a store, whose bytes become c.
Makes(L, s, c, id, kind, offset, n) ==
  /\ bytes' = [bytes EXCEPT ![s] = c]
  /\ \A b \in L : b.id # id
  /\ NewBuffer(id, kind, s, offset, n)
  /\ offset + n <= Len(c) /\ Filled(c, id, kind, offset, n)

\* The place is new: behind the other buffers of its store.
Behind(L, s, offset) ==
  \A b \in L : (b.store = s /\ b.kind # "array")
                => b.offset + b.length <= offset

\* What becomes of the pool.
Pools(L, s, kind, offset, n) ==
  /\ allocPool' \in Stores /\ Len(bytes'[allocPool']) = PoolSize
  /\ poolOffset' \in Nat /\ zero_fill_toggle' = 1
  /\ \/ allocPool' = allocPool /\ poolOffset' >= poolOffset
     \/ \A b \in L : b.store # allocPool'
  /\ s = allocPool' =>
       /\ kind \in {"string", "array"}
       /\ kind = "string" => offset + n <= poolOffset'

LEMMA BufferMade ==
  ASSUME NEW L, NEW H, NEW D, Sound(L, H, D),
         NEW s \in Stores, NEW c \in Seq(D),
         NEW id \in Ids, NEW kind \in Kinds,
         NEW offset \in Nat, NEW n \in Lengths,
         Makes(L, s, c, id, kind, offset, n), Spares(L, s, c),
         Behind(L, s, offset), Pools(L, s, kind, offset, n)
  PROVE  Grown(L, H, D, id) /\ Untouched(L)
<1> DEFINE new == [id |-> id, kind |-> kind, store |-> s, offset |-> offset,
                   length |-> n]
           M == L \cup {new}
<1>1. buffers' = buffers \cup {new}
  BY DEF Makes, NewBuffer
<1>2. n \in Nat /\ n > 0
  BY PoolAssumption
<1>3. new \in Buffer
  BY <1>2 DEF Buffer, Kinds
<1>4. \A b \in L : b \in Buffer /\ b.offset \in Nat /\ b.length \in Nat
  BY DEF Sound, Shape, Buffer
<1>5. bytes \in [Stores -> Seq(D)] /\ bytes' \in [Stores -> Seq(D)]
      /\ bytes'[s] = c
  BY DEF Sound, Shape, Makes
<1>6. Shape(M, D)'
  BY <1>3, <1>4, <1>5 DEF Shape, Pools
<1>7. Untouched(L) /\ Placed(L)' /\ Kept(L, H)'
  BY OldBuffersKeep DEF Makes
<1>8. Span(new) = offset + 1 .. offset + n
  BY DEF Span
<1>9. Placed(M)'
  BY <1>2, <1>5, <1>7 DEF Placed, Makes
<1>10. OneOwner(M)'
  <2>1. \A b \in L : b.id # new.id
    BY DEF Makes
  <2> QED BY <2>1 DEF Sound, OneOwner
<1>11. Apart(M)'
  <2> SUFFICES ASSUME NEW b \in M, b.store = allocPool'
      PROVE  /\ b.kind \notin {"zeroed", "filled"}
             /\ b.kind # "array" =>
                  b.offset + b.length <= poolOffset'
    BY DEF Apart
  <2>1. CASE b = new
    BY <2>1 DEF Pools
  <2>2. CASE b \in L
    <3>1. b.store = allocPool /\ poolOffset' >= poolOffset
      BY <2>2 DEF Pools
    <3>2. /\ b.kind \notin {"zeroed", "filled"}
          /\ b.kind # "array" =>
               b.offset + b.length <= poolOffset
      BY <2>2, <3>1 DEF Sound, Apart
    <3>3. poolOffset \in Nat /\ poolOffset' \in Nat
      BY DEF Sound, Shape, Pools
    <3> QED BY <1>4, <2>2, <3>1, <3>2, <3>3
  <2> QED BY <2>1, <2>2
<1>12. Disjoint(M)'
  <2>1. ASSUME NEW b \in L, b.store = s, b.kind # "array"
        PROVE  Span(b) \cap Span(new) = {}
    <3>1. b.offset + b.length <= offset
      BY <2>1 DEF Behind
    <3> QED BY <1>4, <1>8, <3>1 DEF Span
  <2>2. Disjoint(L)
    BY DEF Sound
  <2> QED BY <2>1, <2>2 DEF Disjoint, Span
<1>13. Kept(M, H)'
  <2>1. /\ kind \in {"string", "filled"} => \A i \in Span(new) : bytes'[s][i] = id
        /\ kind = "zeroed" => \A i \in Span(new) : bytes'[s][i] = "zero"
    BY <1>5, <1>8 DEF Makes, Filled
  <2> SUFFICES ASSUME NEW b \in M, NEW i \in Span(b), <<b.id, i>> \notin H
      PROVE  /\ b.kind \in {"string", "filled"} => bytes'[b.store][i] = b.id
             /\ b.kind = "zeroed" => bytes'[b.store][i] = "zero"
    BY DEF Kept, Span
  <2>2. CASE b = new
    BY <2>1, <2>2
  <2>3. CASE b \in L
    <3>1. Kept(L, H)'
      BY <1>7
    <3>2. /\ b.kind \in {"string", "filled"} => bytes'[b.store][i] = b.id
          /\ b.kind = "zeroed" => bytes'[b.store][i] = "zero"
      BY <2>3, <3>1, Zenon DEF Kept, Span
    <3> QED BY <3>2
  <2> QED BY <2>2, <2>3
<1>14. Sound(M, H, D)'
  BY <1>6, <1>9, <1>10, <1>11, <1>12, <1>13 DEF Sound
<1>15. \A b \in {new} : b.id = id
  OBVIOUS
<1>16. M = L \cup {new}
  OBVIOUS
<1> HIDE DEF new, M
<1>17. \E N, O : /\ buffers' = buffers \cup N
                 /\ O = L \cup N
                 /\ \A b \in N : b.id = id
                 /\ Sound(O, H, D)'
  <2> WITNESS {new}, M
  <2> QED BY <1>1, <1>14, <1>15, <1>16
<1> QED BY <1>7, <1>17 DEF Grown

\* A buffer gets an allocated store of its own, with the bytes c.
OwnStore(s, c, id, kind, n) ==
  /\ bytes' = [bytes EXCEPT ![s] = c] /\ Len(c) = n
  /\ NewBuffer(id, kind, s, 0, n) /\ Filled(c, id, kind, 0, n)
  /\ UNCHANGED <<allocPool, poolOffset>> /\ zero_fill_toggle' = 1

LEMMA OwnStoreMade ==
  ASSUME NEW L, NEW H, NEW D, Sound(L, H, D), NEW s \in Stores, Unallocated(s),
         NEW id \in Ids, \A b \in L : b.id # id, NEW n \in Lengths, NEW kind \in Kinds,
         NEW c \in Seq(D), OwnStore(s, c, id, kind, n)
  PROVE  Grown(L, H, D, id) /\ Untouched(L)
<1> USE DEF OwnStore
<1>1. s # allocPool /\ \A b \in L : b.store # s
  BY UnusedStore
<1>2. /\ allocPool \in Stores /\ Len(bytes[allocPool]) = PoolSize
      /\ poolOffset \in Nat /\ bytes \in [Stores -> Seq(D)]
  BY DEF Sound, Shape
<1>3. n \in Nat
  BY PoolAssumption
<1>4. allocPool' = allocPool /\ bytes'[allocPool] = bytes[allocPool]
  BY <1>1, <1>2
<1>5. Makes(L, s, c, id, kind, 0, n)
  BY <1>3 DEF Makes
<1>6. Spares(L, s, c) /\ Behind(L, s, 0)
  BY <1>1 DEF Spares, Behind
<1>7. Pools(L, s, kind, 0, n)
  BY <1>1, <1>2, <1>4 DEF Pools
<1> QED BY BufferMade, <1>5, <1>6, <1>7

\* A buffer at the beginning of a new pool.
LEMMA NewPoolMade ==
  ASSUME NEW L, NEW H, NEW D, Sound(L, H, D), NEW s \in Stores, Unallocated(s),
         NEW id \in Ids, \A b \in L : b.id # id, NEW n \in Lengths,
         NEW kind \in {"string", "array"},
         NEW c \in Seq(D), Len(c) = PoolSize, n <= PoolSize,
         bytes' = [bytes EXCEPT ![s] = c],
         NewBuffer(id, kind, s, 0, n), Filled(c, id, kind, 0, n),
         allocPool' = s, zero_fill_toggle' = 1,
         poolOffset' \in Nat, kind = "string" => n <= poolOffset'
  PROVE  Grown(L, H, D, id) /\ Untouched(L)
<1>1. s # allocPool /\ \A b \in L : b.store # s
  BY UnusedStore
<1>2. bytes \in [Stores -> Seq(D)]
  BY DEF Sound, Shape
<1>3. n \in Nat /\ PoolSize \in Nat /\ kind \in Kinds
  BY PoolAssumption DEF Kinds
<1>4. Len(bytes'[allocPool']) = PoolSize
  BY <1>2
<1>5. Makes(L, s, c, id, kind, 0, n)
  BY <1>3 DEF Makes
<1>6. Spares(L, s, c) /\ Behind(L, s, 0)
  BY <1>1 DEF Spares, Behind
<1>7. Pools(L, s, kind, 0, n)
  BY <1>1, <1>3, <1>4 DEF Pools
<1> QED BY BufferMade, <1>3, <1>5, <1>6, <1>7

\* A slice of the pool behind the slices of all strings.
LEMMA SliceMade ==
  ASSUME NEW L, NEW H, NEW D, Byte \subseteq D, Sound(L, H, D),
         NEW id \in Ids, \A b \in L : b.id # id, NEW n \in Lengths, Fits(n),
         NEW kind \in {"string", "array"}, NEW wide \in BOOLEAN,
         bytes' = [bytes EXCEPT ![allocPool] =
           WriteString(@, id, poolOffset, n, wide)],
         NewBuffer(id, kind, allocPool, poolOffset, n),
         UNCHANGED <<allocPool, zero_fill_toggle>>,
         poolOffset' \in Nat, poolOffset' >= poolOffset,
         kind = "string" => poolOffset + n <= poolOffset'
  PROVE  Grown(L, H, D, id) /\ Untouched(L)
<1>1. /\ allocPool \in Stores /\ Len(bytes[allocPool]) = PoolSize
      /\ poolOffset \in Nat /\ bytes \in [Stores -> Seq(D)]
      /\ zero_fill_toggle = 1 /\ L \subseteq Buffer
  BY DEF Sound, Shape
<1>2. n \in Nat /\ PoolSize \in Nat /\ poolOffset + n <= PoolSize
      /\ kind \in Kinds
  BY <1>1, PoolAssumption DEF Fits, Kinds
<1> DEFINE pool == bytes[allocPool]
<1>3. pool \in Seq(D) /\ Len(pool) = PoolSize
  BY <1>1
<1>4. PICK c : c = WriteString(pool, id, poolOffset, n, wide)
  OBVIOUS
<1>5. bytes' = [bytes EXCEPT ![allocPool] = c]
  BY <1>4
<1> HIDE DEF pool
<1>6. /\ c \in Seq(D) /\ Len(c) = PoolSize
      /\ \A i \in 1 .. PoolSize : i <= poolOffset => c[i] = pool[i]
      /\ \A i \in poolOffset + 1 .. poolOffset + n : c[i] = id
  <2>1. poolOffset + n <= Len(pool)
    BY <1>2, <1>3
  <2>2. /\ c \in Seq(D) /\ Len(c) = Len(pool)
        /\ \A i \in 1 .. Len(pool) : i <= poolOffset => c[i] = pool[i]
        /\ \A i \in poolOffset + 1 .. poolOffset + n : c[i] = id
    <3>1. /\ pool \in Seq(D) /\ poolOffset \in Nat /\ n \in Nat
          /\ c = WriteString(pool, id, poolOffset, n, wide)
      BY <1>1, <1>2, <1>3, <1>4
    <3>2. c \in Seq(D)
      BY <3>1, WrittenBytes
    <3>3. Len(c) = Len(pool)
      BY <3>1, WrittenBytes
    <3>4. \A i \in 1 .. Len(pool) : i <= poolOffset => c[i] = pool[i]
      BY <3>1, WrittenBytes
    <3>5. \A i \in poolOffset + 1 .. poolOffset + n : c[i] = id
      BY <2>1, <3>1, WrittenBytes
    <3> QED BY <3>2, <3>3, <3>4, <3>5
  <2> QED BY <1>3, <2>2
<1> USE DEF pool
<1>7. Spares(L, allocPool, c) /\ Behind(L, allocPool, poolOffset)
  <2> SUFFICES ASSUME NEW b \in L, b.store = allocPool
      PROVE  /\ b.kind \notin {"zeroed", "filled"}
             /\ Len(c) = Len(bytes[allocPool])
             /\ b.kind # "array" =>
                  /\ b.offset + b.length <= poolOffset
                  /\ \A i \in Span(b) : c[i] = bytes[allocPool][i]
    BY DEF Spares, Behind
  <2>1. /\ b.kind \notin {"zeroed", "filled"}
        /\ b.kind # "array" => b.offset + b.length <= poolOffset
    BY DEF Sound, Apart
  <2>2. b.offset \in Nat /\ b.length \in Nat
        /\ b.offset + b.length <= PoolSize
    BY <1>1 DEF Sound, Placed, Buffer
  <2>3. b.offset + b.length <= poolOffset =>
          \A i \in Span(b) : i \in 1 .. PoolSize /\ i <= poolOffset
    BY <1>1, <1>2, <2>2 DEF Span
  <2> QED BY <1>1, <1>6, <2>1, <2>3
<1>8. Filled(c, id, kind, poolOffset, n)
  BY <1>6 DEF Filled
<1>9. bytes'[allocPool'] = c
  BY <1>1, <1>5
<1>10. Makes(L, allocPool, c, id, kind, poolOffset, n)
  BY <1>2, <1>5, <1>6, <1>8 DEF Makes
<1>11. Pools(L, allocPool, kind, poolOffset, n)
  BY <1>1, <1>6, <1>9 DEF Pools
<1> QED BY BufferMade, <1>1, <1>2, <1>6, <1>7, <1>10, <1>11

-----------------------------------------------------------------------------
(* The actions of BufferPool.                                              *)

\* What an unzeroed store of a new string, array or fill value contains.
LEMMA FreshlyWritten ==
  ASSUME NEW D, Byte \subseteq D,
         NEW id \in Ids, NEW bound \in Nat, NEW n \in Nat, n <= bound,
         NEW wide, NEW kind \in {"string", "array", "filled"},
         NEW c, c = WriteString(Allocated(bound, 0), id, 0, n, wide)
  PROVE  c \in Seq(D) /\ Len(c) = bound /\ Filled(c, id, kind, 0, n)
<1> DEFINE raw == Allocated(bound, 0)
           start == 0
<1>1. raw \in Seq(D) /\ Len(raw) = bound /\ start \in Nat
  BY AllocatedBytes
<1>2. c = WriteString(raw, id, start, n, wide)
  OBVIOUS
<1>3. start + n <= Len(raw)
  BY <1>1
<1> HIDE DEF raw, start
<1>4. c \in Seq(D)
  BY <1>1, <1>2, WrittenBytes
<1>5. Len(c) = Len(raw)
  BY <1>1, <1>2, WrittenBytes
<1>6. \A i \in start + 1 .. start + n : c[i] = id
  BY <1>1, <1>2, <1>3, WrittenBytes
<1> QED BY <1>1, <1>4, <1>5, <1>6 DEF Filled, start

\* The lengths that go to the pool are smaller than the pool.
LEMMA ShortLengths ==
  ASSUME NEW n \in Lengths
  PROVE  n \in Nat /\ PoolSize \in Nat /\ (n < Half => n <= PoolSize)
<1>1. Half <= PoolSize
  BY PoolAssumption DEF Half
<1> QED BY <1>1, PoolAssumption DEF Half

\* Buffers that get a store of their own.
LEMMA OwnStoreSteps ==
  ASSUME NEW L, NEW H, NEW D, Byte \subseteq D, Sound(L, H, D),
         NEW id \in Ids, \A b \in L : b.id # id, NEW n \in Lengths,
         NEW s \in Stores, Unallocated(s),
         \/ \E wide \in BOOLEAN : LongString(id, s, n, wide)
         \/ AllocZeroed(id, s, n)
         \/ AllocFilled(id, s, n)
         \/ AllocRaw(id, s, n)
  PROVE  Grown(L, H, D, id) /\ Untouched(L)
<1>1. n \in Nat
  BY ShortLengths
<1>2. ASSUME NEW wide \in BOOLEAN, LongString(id, s, n, wide)
      PROVE  Grown(L, H, D, id) /\ Untouched(L)
  <2>1. PICK c : c = WriteString(Allocated(n, 0), id, 0, n, wide)
    OBVIOUS
  <2>2. c \in Seq(D) /\ Len(c) = n /\ Filled(c, id, "string", 0, n)
    BY <1>1, <2>1, FreshlyWritten
  <2>3. OwnStore(s, c, id, "string", n)
    BY <1>2, <2>1, <2>2 DEF LongString, AfterUnsafe, OwnStore
  <2>4. "string" \in Kinds
    BY DEF Kinds
  <2> QED BY <2>2, <2>3, <2>4, OwnStoreMade
<1>3. CASE AllocZeroed(id, s, n)
  <2>1. zero_fill_toggle = 1
    BY DEF Sound, Shape
  <2>2. PICK c : c = Allocated(n, 1)
    OBVIOUS
  <2>3. c \in Seq(D) /\ Len(c) = n
    BY <1>1, <2>2, AllocatedBytes
  <2>4. Filled(c, id, "zeroed", 0, n)
    <3>1. \A i \in 1 .. n : c[i] = "zero"
      BY <1>1, <2>2, AllocatedBytes
    <3> QED BY <1>1, <3>1 DEF Filled
  <2>5. OwnStore(s, c, id, "zeroed", n)
    BY <1>3, <2>1, <2>2, <2>3, <2>4 DEF AllocZeroed, OwnStore
  <2>6. "zeroed" \in Kinds
    BY DEF Kinds
  <2> QED BY <2>3, <2>4, <2>5, <2>6, OwnStoreMade
<1>4. CASE AllocFilled(id, s, n)
  <2> DEFINE narrow == FALSE
  <2>1. PICK c : c = WriteString(Allocated(n, 0), id, 0, n, narrow)
    OBVIOUS
  <2> HIDE DEF narrow
  <2>2. c \in Seq(D) /\ Len(c) = n /\ Filled(c, id, "filled", 0, n)
    BY <1>1, <2>1, FreshlyWritten
  <2>3. OwnStore(s, c, id, "filled", n)
    BY <1>4, <2>1, <2>2 DEF AllocFilled, WriteArray, narrow, AfterUnsafe, OwnStore
  <2>4. "filled" \in Kinds
    BY DEF Kinds
  <2> QED BY <2>2, <2>3, <2>4, OwnStoreMade
<1>5. CASE AllocRaw(id, s, n)
  <2>1. PICK c : c = Allocated(n, 0)
    OBVIOUS
  <2>2. c \in Seq(D) /\ Len(c) = n
    BY <1>1, <2>1, AllocatedBytes
  <2>3. Filled(c, id, "raw", 0, n)
    BY DEF Filled
  <2>4. OwnStore(s, c, id, "raw", n)
    BY <1>5, <2>1, <2>2, <2>3 DEF AllocRaw, AfterUnsafe, OwnStore
  <2>5. "raw" \in Kinds
    BY DEF Kinds
  <2> QED BY <2>2, <2>3, <2>4, <2>5, OwnStoreMade
<1> QED BY <1>2, <1>3, <1>4, <1>5

\* Buffers at the beginning of a new pool.
LEMMA NewPoolSteps ==
  ASSUME NEW L, NEW H, NEW D, Byte \subseteq D, Sound(L, H, D),
         NEW id \in Ids, \A b \in L : b.id # id, NEW n \in Lengths,
         NEW s \in Stores, Unallocated(s),
         \/ \E wide \in BOOLEAN : StringInNewPool(id, s, n, wide)
         \/ ArrayInNewPool(id, s, n)
  PROVE  Grown(L, H, D, id) /\ Untouched(L)
<1>1. n \in Nat /\ PoolSize \in Nat /\ (n < Half => n <= PoolSize)
  BY ShortLengths
<1>2. ASSUME NEW wide \in BOOLEAN, StringInNewPool(id, s, n, wide)
      PROVE  Grown(L, H, D, id) /\ Untouched(L)
  <2>1. PICK c : c = WriteString(Allocated(PoolSize, 0), id, 0, n, wide)
    OBVIOUS
  <2>2. n <= PoolSize
    BY <1>1, <1>2 DEF StringInNewPool, NeedsPool
  <2>3. c \in Seq(D) /\ Len(c) = PoolSize /\ Filled(c, id, "string", 0, n)
    BY <1>1, <2>1, <2>2, FreshlyWritten
  <2>4. /\ bytes' = [bytes EXCEPT ![s] = c]
        /\ NewBuffer(id, "string", s, 0, n)
        /\ allocPool' = s /\ zero_fill_toggle' = 1
    BY <1>2, <2>1 DEF StringInNewPool, CreatePool, AfterUnsafe
  <2>5. poolOffset' \in Nat /\ n <= poolOffset'
    <3>1. poolOffset' = AlignPool(n)
      BY <1>2 DEF StringInNewPool
    <3> QED BY <1>1, <3>1, AlignForward
  <2> QED BY <2>2, <2>3, <2>4, <2>5, NewPoolMade
<1>3. CASE ArrayInNewPool(id, s, n)
  <2> DEFINE narrow == FALSE
  <2>1. PICK c : c = WriteString(Allocated(PoolSize, 0), id, 0, n, narrow)
    OBVIOUS
  <2> HIDE DEF narrow
  <2>2. n <= PoolSize
    BY <1>1, <1>3 DEF ArrayInNewPool, NeedsPool
  <2>3. c \in Seq(D) /\ Len(c) = PoolSize /\ Filled(c, id, "array", 0, n)
    BY <1>1, <2>1, <2>2, FreshlyWritten
  <2>4. /\ bytes' = [bytes EXCEPT ![s] = c]
        /\ NewBuffer(id, "array", s, 0, n)
        /\ allocPool' = s /\ zero_fill_toggle' = 1 /\ poolOffset' = 0
    BY <1>3, <2>1 DEF ArrayInNewPool, CreatePool, WriteArray, narrow, AfterUnsafe
  <2> QED BY <2>2, <2>3, <2>4, NewPoolMade
<1> QED BY <1>2, <1>3

\* Slices of the present pool.
LEMMA SliceSteps ==
  ASSUME NEW L, NEW H, NEW D, Byte \subseteq D, Sound(L, H, D),
         NEW id \in Ids, \A b \in L : b.id # id, NEW n \in Lengths, Slice(id, n)
  PROVE  Grown(L, H, D, id) /\ Untouched(L)
<1>1. n \in Nat /\ poolOffset \in Nat
  BY ShortLengths DEF Sound, Shape
<1>2. ASSUME NEW wide \in BOOLEAN, PooledString(id, n, wide)
      PROVE  Grown(L, H, D, id) /\ Untouched(L)
  <2>1. /\ Fits(n)
        /\ bytes' = [bytes EXCEPT ![allocPool] =
             WriteString(@, id, poolOffset, n, wide)]
        /\ NewBuffer(id, "string", allocPool, poolOffset, n)
        /\ UNCHANGED <<allocPool, zero_fill_toggle>>
        /\ poolOffset' = AlignPool(poolOffset + n)
    BY <1>2 DEF PooledString
  <2>2. AlignPool(poolOffset + n) \in Nat
        /\ AlignPool(poolOffset + n) >= poolOffset + n
    BY <1>1, AlignForward
  <2>3. poolOffset' \in Nat /\ poolOffset + n <= poolOffset'
        /\ poolOffset' >= poolOffset
    BY <1>1, <2>1, <2>2
  <2> QED BY <2>1, <2>3, SliceMade
<1>3. CASE PooledArray(id, n)
  <2>1. /\ Fits(n)
        /\ bytes' = [bytes EXCEPT ![allocPool] =
             WriteString(@, id, poolOffset, n, FALSE)]
        /\ NewBuffer(id, "array", allocPool, poolOffset, n)
        /\ UNCHANGED <<allocPool, poolOffset, zero_fill_toggle>>
    BY <1>3 DEF PooledArray, WriteArray
  <2>2. poolOffset' \in Nat /\ poolOffset' >= poolOffset
    BY <1>1, <2>1
  <2> QED BY <2>1, <2>2, SliceMade
<1> QED BY <1>2, <1>3 DEF Slice

\* Everything that scripts create.
LEMMA CreateSteps ==
  ASSUME NEW L, NEW H, NEW D, Byte \subseteq D, Sound(L, H, D),
         NEW id \in Ids, \A b \in L : b.id # id, NEW n \in Lengths,
         \/ Slice(id, n)
         \/ \E s \in Stores : Unallocated(s) /\ Create(id, s, n)
  PROVE  Grown(L, H, D, id) /\ Untouched(L)
<1>1. ASSUME NEW s \in Stores, Unallocated(s), AllocBadFill(s, n)
      PROVE  Grown(L, H, D, id) /\ Untouched(L)
  <2>1. PICK c : c = Allocated(n, 0)
    OBVIOUS
  <2>2. c \in Seq(D)
    BY <2>1, ShortLengths, AllocatedBytes
  <2>3. s # allocPool /\ \A b \in L : b.store # s
    BY <1>1, UnusedStore
  <2>4. /\ bytes' = [bytes EXCEPT ![s] = c] /\ buffers' = buffers
        /\ UNCHANGED <<allocPool, poolOffset>> /\ zero_fill_toggle' = 1
    BY <1>1, <2>1 DEF AllocBadFill, AfterUnsafe
  <2>5. Sound(L, H, D)' /\ Untouched(L)
    BY <2>2, <2>3, <2>4, BuffersKept
  <2>6. \E N, M : /\ buffers' = buffers \cup N
                  /\ M = L \cup N
                  /\ \A b \in N : b.id = id
                  /\ Sound(M, H, D)'
    <3>1. PICK N : N = {}
      OBVIOUS
    <3>2. buffers' = buffers \cup N /\ L = L \cup N /\ \A b \in N : b.id = id
      BY <2>4, <3>1
    <3> QED BY <2>5, <3>2
  <2> QED BY <2>5, <2>6 DEF Grown
<1>2. ASSUME NEW s \in Stores, Unallocated(s), Create(id, s, n)
      PROVE  Grown(L, H, D, id) /\ Untouched(L)
  <2>1. CASE \/ \E wide \in BOOLEAN : StringInNewPool(id, s, n, wide)
             \/ ArrayInNewPool(id, s, n)
    BY <1>2, <2>1, NewPoolSteps
  <2>2. CASE \/ \E wide \in BOOLEAN : LongString(id, s, n, wide)
             \/ AllocZeroed(id, s, n)
             \/ AllocFilled(id, s, n)
             \/ AllocRaw(id, s, n)
    BY <1>2, <2>2, OwnStoreSteps
  <2>3. CASE AllocBadFill(s, n)
    BY <1>1, <1>2, <2>3
  <2> QED BY <1>2, <2>1, <2>2, <2>3 DEF Create
<1> QED BY <1>2, SliceSteps

\* A store that no live buffer has is freed.
LEMMA CollectStep ==
  ASSUME NEW L, NEW H, NEW D, Sound(L, H, D), NEW s \in Stores, Collect(s),
         \A b \in L : b.store # s
  PROVE  Sound(L, H, D)' /\ Untouched(L)
<1>1. PICK c : c = <<>>
  OBVIOUS
<1>2. c \in Seq(D)
  BY <1>1
<1>3. zero_fill_toggle = 1
  BY DEF Sound, Shape
<1>4. /\ s # allocPool /\ bytes' = [bytes EXCEPT ![s] = c]
      /\ UNCHANGED <<allocPool, poolOffset>> /\ zero_fill_toggle' = 1
  BY <1>1, <1>3 DEF Collect
<1> QED BY <1>2, <1>4, BuffersKept

\* When a name is given up, the bytes that are not of it remain.
LEMMA DisownedBytes ==
  ASSUME NEW D, Byte \subseteq D, bytes \in [Stores -> Seq(D)], NEW id,
         bytes' = Disowned(id)
  PROVE  /\ bytes' \in [Stores -> Seq(D)]
         /\ \A s \in Stores :
              /\ Len(bytes'[s]) = Len(bytes[s])
              /\ \A i \in 1 .. Len(bytes[s]) :
                   bytes[s][i] # id => bytes'[s][i] = bytes[s][i]
<1>1. ASSUME NEW s \in Stores
      PROVE  /\ bytes'[s] \in Seq(D) /\ Len(bytes'[s]) = Len(bytes[s])
             /\ \A i \in 1 .. Len(bytes[s]) :
                  bytes[s][i] # id => bytes'[s][i] = bytes[s][i]
  <2> DEFINE old == bytes[s]
  <2>1. old \in Seq(D)
    OBVIOUS
  <2>2. bytes'[s] = [i \in DOMAIN old |-> IF old[i] = id THEN "junk" ELSE old[i]]
    BY DEF Disowned
  <2> HIDE DEF old
  <2>3. bytes'[s] \in [1 .. Len(old) -> D]
    BY <2>1, <2>2 DEF Byte
  <2>4. \A i \in 1 .. Len(old) : old[i] # id => bytes'[s][i] = old[i]
    BY <2>1, <2>2
  <2>5. bytes'[s] \in Seq(D) /\ Len(bytes'[s]) = Len(old)
    <3>1. PICK c : c = bytes'[s]
      OBVIOUS
    <3>2. c \in [1 .. Len(old) -> D]
      BY <2>3, <3>1
    <3>3. c \in Seq(D) /\ Len(c) = Len(old)
      BY <2>1, <3>2
    <3> QED BY <3>1, <3>3
  <2> QED BY <2>4, <2>5 DEF old
<1>2. bytes' \in [Stores -> Seq(D)]
  BY <1>1 DEF Disowned
<1> QED BY <1>1, <1>2

\* A name is given up when no live buffer has it any more.
LEMMA DisownStep ==
  ASSUME NEW L, NEW H, NEW D, Byte \subseteq D, Sound(L, H, D),
         NEW id \in Ids, bytes' = Disowned(id),
         NEW M, M \subseteq L, \A b \in M : b.id # id,
         UNCHANGED <<allocPool, poolOffset, zero_fill_toggle>>
  PROVE  Sound(M, H, D)'
<1>1. bytes \in [Stores -> Seq(D)] /\ L \subseteq Buffer /\ allocPool \in Stores
  BY DEF Sound, Shape
<1>2. /\ bytes' \in [Stores -> Seq(D)]
      /\ \A s \in Stores :
           /\ Len(bytes'[s]) = Len(bytes[s])
           /\ \A i \in 1 .. Len(bytes[s]) :
                bytes[s][i] # id => bytes'[s][i] = bytes[s][i]
  BY <1>1, DisownedBytes
<1>3. \A b \in M : /\ b.store \in Stores
                   /\ b.offset \in Nat /\ b.length \in Nat /\ b.id \in Ids
                   /\ b.offset + b.length <= Len(bytes[b.store])
  BY <1>1 DEF Sound, Placed, Buffer
<1>4. Shape(M, D)'
  BY <1>1, <1>2 DEF Sound, Shape
<1>5. Placed(M)'
  BY <1>2, <1>3 DEF Sound, Placed
<1>6. OneOwner(M)' /\ Apart(M)'
  BY DEF Sound, OneOwner, Apart
<1>7. Disjoint(M)'
  BY DEF Sound, Disjoint, Span
<1>8. ASSUME NEW b \in M, NEW i \in Span(b), bytes[b.store][i] # id
      PROVE  bytes'[b.store][i] = bytes[b.store][i]
  <2>1. i \in 1 .. Len(bytes[b.store]) /\ b.store \in Stores
    BY <1>1, <1>3 DEF Span
  <2> QED BY <1>2, <1>8, <2>1
<1>9. Kept(M, H)'
  <2> SUFFICES ASSUME NEW b \in M, NEW i \in Span(b), <<b.id, i>> \notin H
      PROVE  /\ b.kind \in {"string", "filled"} => bytes'[b.store][i] = b.id
             /\ b.kind = "zeroed" => bytes'[b.store][i] = "zero"
    BY DEF Kept, Span
  <2>1. /\ b.kind \in {"string", "filled"} => bytes[b.store][i] = b.id
        /\ b.kind = "zeroed" => bytes[b.store][i] = "zero"
    BY DEF Sound, Kept
  <2>2. b.id # id /\ "zero" # id
    BY PoolAssumption
  <2> QED BY <1>8, <2>1, <2>2
<1> QED BY <1>4, <1>5, <1>6, <1>7, <1>9 DEF Sound

\* A step that changes neither bytes nor the pool.
LEMMA StillStep ==
  ASSUME NEW L, NEW H, NEW D, Sound(L, H, D),
         NEW M, M \subseteq L, NEW I, H \subseteq I,
         UNCHANGED <<bytes, allocPool, poolOffset>>, zero_fill_toggle' = 1
  PROVE  Sound(M, I, D)'
<1>1. Shape(M, D)' /\ Placed(M)' /\ OneOwner(M)'
  BY DEF Sound, Shape, Placed, OneOwner
<1>2. Apart(M)' /\ Disjoint(M)' /\ Kept(M, I)'
  BY DEF Sound, Apart, Disjoint, Kept, Span
<1> QED BY <1>1, <1>2 DEF Sound

-----------------------------------------------------------------------------
(* BufferPool.                                                             *)

PoolInv == Sound(buffers, {}, Byte)

LEMMA InitPool == Init => PoolInv
<1> SUFFICES ASSUME Init PROVE PoolInv
  OBVIOUS
<1>1. allocPool \in Stores /\ buffers = {} /\ poolOffset = 0
      /\ zero_fill_toggle = 1
      /\ bytes = [s \in Stores |->
           IF s = allocPool THEN Allocated(PoolSize, 0) ELSE <<>>]
  BY DEF Init
<1>2. Allocated(PoolSize, 0) \in Seq(Byte)
      /\ Len(Allocated(PoolSize, 0)) = PoolSize
  BY AllocatedBytes, PoolAssumption
<1>3. Shape({}, Byte)
  BY <1>1, <1>2 DEF Shape
<1> QED
  BY <1>1, <1>3 DEF PoolInv, Sound, Placed, OneOwner, Apart, Disjoint, Kept

LEMMA NextPool == PoolInv /\ [Next]_vars => PoolInv'
<1> SUFFICES ASSUME PoolInv, [Next]_vars PROVE PoolInv'
  OBVIOUS
<1>1. PICK L : L = buffers
  OBVIOUS
<1>2. Sound(L, {}, Byte) /\ zero_fill_toggle = 1
  BY <1>1 DEF PoolInv, Sound, Shape
<1>3. ASSUME NEW M, M = buffers', Sound(M, {}, Byte)' PROVE PoolInv'
  BY <1>3 DEF PoolInv
<1>4. ASSUME NEW id \in Ids, NEW n \in Lengths, Unused(id),
             \/ Slice(id, n)
             \/ \E s \in Stores : Unallocated(s) /\ Create(id, s, n)
      PROVE  PoolInv'
  <2>1. \A b \in L : b.id # id
    BY <1>1, <1>4 DEF Unused
  <2>2. Grown(L, {}, Byte, id)
    BY <1>2, <1>4, <2>1, CreateSteps
  <2>3. PICK N, M : buffers' = buffers \cup N /\ M = L \cup N /\ Sound(M, {}, Byte)'
    BY <2>2 DEF Grown
  <2> QED BY <1>1, <1>3, <2>3
<1>5. CASE UnsafeFails
  <2>1. UNCHANGED <<bytes, buffers, allocPool, poolOffset>> /\ zero_fill_toggle' = 1
    BY <1>5 DEF UnsafeFails, AfterUnsafe
  <2>2. Sound(L, {}, Byte)'
    BY <1>2, <2>1, StillStep
  <2> QED BY <1>1, <1>3, <2>1, <2>2
<1>6. ASSUME NEW d \in buffers, Drop(d) PROVE PoolInv'
  <2>1. PICK M : M = L \ {d}
    OBVIOUS
  <2>2. /\ M = buffers' /\ bytes' = Disowned(d.id)
        /\ UNCHANGED <<allocPool, poolOffset, zero_fill_toggle>>
    BY <1>1, <1>6, <2>1 DEF Drop
  <2>3. d.id \in Ids /\ \A b \in M : b.id # d.id
    BY <1>1, <1>2, <2>1 DEF Sound, Shape, OneOwner, Buffer
  <2>4. Sound(M, {}, Byte)'
    BY <1>2, <2>1, <2>2, <2>3, DisownStep
  <2> QED BY <1>3, <2>2, <2>4
<1>7. ASSUME NEW s \in Stores, Collect(s) PROVE PoolInv'
  <2>1. buffers' = buffers /\ \A b \in L : b.store # s
    BY <1>1, <1>7 DEF Collect
  <2>2. Sound(L, {}, Byte)'
    BY <1>2, <1>7, <2>1, CollectStep
  <2> QED BY <1>1, <1>3, <2>1, <2>2
<1>8. CASE UNCHANGED vars
  <2>1. UNCHANGED <<bytes, buffers, allocPool, poolOffset>> /\ zero_fill_toggle' = 1
    BY <1>2, <1>8 DEF vars
  <2>2. Sound(L, {}, Byte)'
    BY <1>2, <2>1, StillStep
  <2> QED BY <1>1, <1>3, <2>1, <2>2
<1> QED BY <1>4, <1>5, <1>6, <1>7, <1>8 DEF Next

LEMMA PoolInvariant == Spec => []PoolInv
BY InitPool, NextPool, PTL DEF Spec

\* Nothing that is created later and put into memory ever reaches
\* the bytes of an earlier string or fill value, for any alignment, pool size
\* and lengths (App.js 235-289, Buffer.cpp 29-65).
THEOREM StringsKeep == Spec => []StringsKeepBytes
<1>1. PoolInv => StringsKeepBytes
  BY DEF PoolInv, Sound, Kept, StringsKeepBytes
<1> QED BY <1>1, PoolInvariant, PTL

\* Buffer.alloc without a fill value returns zeros that nobody overwrites:
\* the toggle is on whenever it is called (App.js 137-143, 355).
THEOREM ZeroedStays == Spec => []ZeroedIsZero
<1>1. PoolInv => ZeroedIsZero
  BY DEF PoolInv, Sound, Kept, ZeroedIsZero
<1> QED BY <1>1, PoolInvariant, PTL

\* alignPool does not go beyond the pool, and returns an aligned offset.
LEMMA AlignWithin ==
  ASSUME NEW n \in 0 .. PoolSize
  PROVE  AlignPool(n) \in 0 .. PoolSize /\ AlignPool(n) % Alignment = 0
<1> DEFINE A == Alignment
           r == n % A
           k == n \div A
           q == PoolSize \div A
<1>1. A \in Nat /\ A > 0 /\ PoolSize \in Nat /\ n \in Nat
  BY PoolAssumption
<1>2. r \in 0 .. A - 1 /\ k \in Int /\ n = A * k + r
  BY <1>1
<1>3. q \in Int /\ PoolSize = A * q
  BY <1>1, PoolAssumption
<1>4. CASE r = 0
  BY <1>1, <1>4 DEF AlignPool
<1>5. CASE r # 0
  <2>1. AlignPool(n) = A * (k + 1)
    BY <1>1, <1>2, <1>5 DEF AlignPool
  <2>2. A * k < A * q
    BY <1>1, <1>2, <1>3, <1>5
  <2> HIDE DEF k, q, r, A
  <2>3. k < q
    BY <1>1, <1>2, <1>3, <2>2
  <2>4. A * (k + 1) <= A * q
    BY <1>1, <1>2, <1>3, <2>3
  <2>5. (A * (k + 1)) % A = 0
    BY <1>1, <1>2
  <2> QED BY <1>1, <1>2, <1>3, <2>1, <2>4, <2>5, AlignForward DEF A
<1> QED BY <1>4, <1>5

\* What PoolInv does not say of the types.
Counters ==
  /\ poolOffset \in 0 .. PoolSize /\ poolOffset % Alignment = 0
  /\ total_mem_usage \in 0 .. WordRange - 1

LEMMA CountersStep ==
  ASSUME PoolInv, Counters, [Next]_vars
  PROVE  Counters'
<1>1. /\ PoolSize \in Nat /\ Alignment \in Nat \ {0} /\ WordRange \in Nat \ {0}
      /\ \A n \in Lengths : n \in Nat
      /\ 0 % Alignment = 0
  BY PoolAssumption
<1>2. /\ poolOffset \in 0 .. PoolSize /\ poolOffset % Alignment = 0
      /\ total_mem_usage \in 0 .. WordRange - 1
  BY DEF Counters
<1>3. ASSUME NEW n \in Int, CountAllocation(n) PROVE total_mem_usage' \in 0 .. WordRange - 1
  BY <1>1, <1>2, <1>3 DEF CountAllocation
<1>4. ASSUME UNCHANGED poolOffset,
             \/ UNCHANGED total_mem_usage
             \/ \E n \in Int : CountAllocation(n)
      PROVE  Counters'
  <2>1. poolOffset' \in 0 .. PoolSize /\ poolOffset' % Alignment = 0
    BY <1>2, <1>4
  <2>2. total_mem_usage' \in 0 .. WordRange - 1
    BY <1>2, <1>3, <1>4
  <2> QED BY <2>1, <2>2 DEF Counters
<1>5. ASSUME NEW id \in Ids, NEW n \in Lengths, Slice(id, n) PROVE Counters'
  <2>1. ASSUME NEW wide \in BOOLEAN, PooledString(id, n, wide) PROVE Counters'
    <3>1. poolOffset' = AlignPool(poolOffset + n) /\ n <= PoolSize - poolOffset
          /\ UNCHANGED total_mem_usage
      BY <2>1 DEF PooledString, Fits
    <3>2. poolOffset + n \in 0 .. PoolSize
      BY <1>1, <1>2, <3>1
    <3> QED BY <1>2, <3>1, <3>2, AlignWithin DEF Counters
  <2>2. CASE PooledArray(id, n)
    BY <1>4, <2>2 DEF PooledArray
  <2> QED BY <1>5, <2>1, <2>2 DEF Slice
<1>6. ASSUME NEW id \in Ids, NEW n \in Lengths, NEW s \in Stores, Create(id, s, n)
      PROVE  Counters'
  <2>1. n \in Int /\ PoolSize \in Int
    BY <1>1
  <2>2. ASSUME NEW wide \in BOOLEAN, LongString(id, s, n, wide) PROVE Counters'
    BY <1>4, <2>1, <2>2 DEF LongString
  <2>3. ASSUME NEW wide \in BOOLEAN, StringInNewPool(id, s, n, wide) PROVE Counters'
    <3>1. poolOffset' = AlignPool(n) /\ CountAllocation(PoolSize) /\ n < Half
      BY <2>3 DEF StringInNewPool, NeedsPool, CreatePool
    <3>2. n \in 0 .. PoolSize
      BY <3>1, ShortLengths
    <3> QED BY <1>3, <2>1, <3>1, <3>2, AlignWithin DEF Counters
  <2>4. CASE ArrayInNewPool(id, s, n)
    <3>1. poolOffset' = 0 /\ CountAllocation(PoolSize)
      BY <2>4 DEF ArrayInNewPool, CreatePool
    <3> QED BY <1>1, <1>3, <2>1, <3>1 DEF Counters
  <2>5. CASE AllocZeroed(id, s, n)
    BY <1>4, <2>1, <2>5 DEF AllocZeroed
  <2>6. CASE AllocFilled(id, s, n)
    BY <1>4, <2>1, <2>6 DEF AllocFilled
  <2>7. CASE AllocRaw(id, s, n)
    BY <1>4, <2>1, <2>7 DEF AllocRaw
  <2>8. CASE AllocBadFill(s, n)
    BY <1>4, <2>1, <2>8 DEF AllocBadFill
  <2> QED BY <1>6, <2>2, <2>3, <2>4, <2>5, <2>6, <2>7, <2>8 DEF Create
<1>7. CASE UnsafeFails
  BY <1>4, <1>7 DEF UnsafeFails
<1>8. ASSUME NEW b \in buffers, Drop(b) PROVE Counters'
  BY <1>4, <1>8 DEF Drop
<1>9. ASSUME NEW s \in Stores, Collect(s) PROVE Counters'
  <2>1. Len(bytes[s]) \in Nat
    <3>1. bytes[s] \in Seq(Byte)
      BY DEF PoolInv, Sound, Shape
    <3> QED BY <3>1
  <2>2. /\ poolOffset' = poolOffset
        /\ total_mem_usage' = (total_mem_usage - Len(bytes[s])) % WordRange
    BY <1>9 DEF Collect, CountFree
  <2>3. total_mem_usage' \in 0 .. WordRange - 1
    <3>1. PICK n : n = total_mem_usage - Len(bytes[s])
      OBVIOUS
    <3>2. n \in Int
      BY <1>1, <1>2, <2>1, <3>1
    <3>3. n % WordRange \in 0 .. WordRange - 1
      BY <1>1, <3>2
    <3> QED BY <2>2, <3>1, <3>3
  <2> QED BY <1>2, <2>2, <2>3 DEF Counters
<1>10. CASE UNCHANGED vars
  BY <1>4, <1>10 DEF vars
<1> QED BY <1>5, <1>6, <1>7, <1>8, <1>9, <1>10 DEF Next

\* Buffers lie within their stores and the pool offset within the pool,
\* aligned, whatever is created and collected (App.js 235-289).
THEOREM PoolTypes == Spec => []TypeOK
<1>1. Init => Counters
  BY PoolAssumption DEF Init, Counters
<1>2. PoolInv /\ Counters /\ [Next]_vars => Counters'
  BY CountersStep
<1>3. PoolInv /\ Counters => TypeOK
  <2> SUFFICES ASSUME PoolInv, Counters PROVE TypeOK
    OBVIOUS
  <2>1. Shape(buffers, Byte) /\ Placed(buffers)
    BY DEF PoolInv, Sound
  <2>2. ASSUME NEW b \in buffers PROVE Span(b) \subseteq DOMAIN bytes[b.store]
    <3>1. b.offset \in Nat /\ b.length \in Nat /\ b.store \in Stores
      BY <2>1 DEF Shape, Buffer
    <3>2. bytes[b.store] \in Seq(Byte)
      BY <2>1, <3>1 DEF Shape
    <3>3. b.offset + b.length <= Len(bytes[b.store])
      BY <2>1 DEF Placed
    <3> QED BY <3>1, <3>2, <3>3 DEF Span
  <2> QED BY <2>1, <2>2 DEF TypeOK, Counters, Shape
<1> QED BY <1>1, <1>2, <1>3, PoolInvariant, PTL DEF Spec

-----------------------------------------------------------------------------
(* The count of the allocator.                                             *)

LEMMA InductionOverNat ==
  ASSUME NEW X, 0 \in X, \A n \in Nat : n \in X => n + 1 \in X
  PROVE  Nat \subseteq X
<1> SUFFICES ASSUME Nat \ X # {} PROVE FALSE
  OBVIOUS
<1>1. PICK R : R = OpToRel(<, Nat)
  OBVIOUS
<1>2. IsWellFoundedOn(R, Nat)
  BY <1>1, NatLessThanWellFounded
<1>3. \A m, n \in Nat : m < n => <<m, n>> \in R
  BY <1>1 DEF OpToRel
<1>4. PICK x \in Nat \ X : \A y \in Nat \ X : ~(<<y, x>> \in R)
  BY <1>2, WFMin
<1>5. x # 0 /\ x - 1 \in Nat /\ x - 1 < x /\ x - 1 + 1 = x
  OBVIOUS
<1>6. x - 1 \notin X
  BY <1>5
<1> QED BY <1>3, <1>4, <1>5, <1>6

\* The sum that UsageExact is about: its recursive function, and the
\* equation of that function.
Any(T) == CHOOSE s \in T : TRUE

SumOver(F, b) ==
  [T \in SUBSET Stores |->
     IF T = {} THEN 0 ELSE Len(b[Any(T)]) + F[T \ {Any(T)}]]

Sums(b) == CHOOSE F : F = SumOver(F, b)
Total(b) == MapThenSumSet(LAMBDA s : Len(b[s]), Stores)

LEMMA TotalIsSum == ASSUME NEW b PROVE Total(b) = Sums(b)[Stores]
BY DEF Total, MapThenSumSet, MapThenFoldSet, Sums, SumOver, Any

UpTo(n) == {T \in SUBSET Stores : Cardinality(T) <= n}

LEMMA OneFewer ==
  ASSUME NEW n \in Nat, NEW T \in UpTo(n + 1), T # {}
  PROVE  Any(T) \in T /\ Any(T) \in Stores /\ T \ {Any(T)} \in UpTo(n)
<1>1. Any(T) \in T /\ T \subseteq Stores /\ Cardinality(T) <= n + 1
  BY DEF Any, UpTo
<1>2. IsFiniteSet(T)
  BY <1>1, FS_Subset, PoolAssumption
<1>3. Cardinality(T) \in Nat
  BY <1>2, FS_CardinalityType
<1>4. Cardinality(T \ {Any(T)}) = Cardinality(T) - 1
  BY <1>1, <1>2, FS_RemoveElement
<1> QED BY <1>1, <1>3, <1>4 DEF UpTo

LEMMA OnlyEmpty == UpTo(0) = {{}}
<1>1. ASSUME NEW T \in UpTo(0) PROVE T = {}
  <2>1. T \subseteq Stores /\ Cardinality(T) <= 0
    BY DEF UpTo
  <2>2. IsFiniteSet(T)
    BY <2>1, FS_Subset, PoolAssumption
  <2>3. Cardinality(T) = 0
    BY <2>1, <2>2, FS_CardinalityType
  <2> QED BY <2>2, <2>3, FS_EmptySet
<1>2. {} \in UpTo(0)
  BY FS_EmptySet DEF UpTo
<1> QED BY <1>1, <1>2

LEMMA EverySubset == \E n \in Nat : UpTo(n) = SUBSET Stores
<1>1. PICK n \in Nat : n = Cardinality(Stores)
  BY PoolAssumption, FS_CardinalityType
<1>2. \A T \in SUBSET Stores : Cardinality(T) <= n
  BY <1>1, PoolAssumption, FS_Subset
<1> QED BY <1>2 DEF UpTo

SumsUpTo(F, b, n) ==
  /\ F \in [UpTo(n) -> Nat]
  /\ \A T \in UpTo(n) :
       F[T] = IF T = {} THEN 0 ELSE Len(b[Any(T)]) + F[T \ {Any(T)}]

Sized(b) == \A s \in Stores : Len(b[s]) \in Nat

LEMMA SumsExist == ASSUME NEW b, Sized(b) PROVE \E F : F = SumOver(F, b)
<1>1. PICK X : X = {n \in Nat : \E F : SumsUpTo(F, b, n)}
  OBVIOUS
<1>2. 0 \in X
  <2>1. PICK F : F = [T \in UpTo(0) |-> 0]
    OBVIOUS
  <2>2. SumsUpTo(F, b, 0)
    BY <2>1, OnlyEmpty DEF SumsUpTo
  <2> QED BY <1>1, <2>2
<1>3. ASSUME NEW n \in Nat, n \in X PROVE n + 1 \in X
  <2>1. PICK F : SumsUpTo(F, b, n)
    BY <1>1, <1>3
  <2>2. PICK G : G = [T \in UpTo(n + 1) |->
                 IF T = {} THEN 0 ELSE Len(b[Any(T)]) + F[T \ {Any(T)}]]
    OBVIOUS
  <2>3. \A T \in UpTo(n + 1) :
          T # {} => /\ Len(b[Any(T)]) \in Nat
                    /\ T \ {Any(T)} \in UpTo(n)
                    /\ F[T \ {Any(T)}] \in Nat
    BY <2>1, OneFewer DEF Sized, SumsUpTo
  <2>4. \A T \in UpTo(n) : T \in UpTo(n + 1)
    <3> SUFFICES ASSUME NEW T \in UpTo(n) PROVE T \in UpTo(n + 1)
      OBVIOUS
    <3>1. T \subseteq Stores /\ Cardinality(T) <= n
      BY DEF UpTo
    <3>2. Cardinality(T) \in Nat
      BY <3>1, FS_Subset, FS_CardinalityType, PoolAssumption
    <3> QED BY <3>1, <3>2 DEF UpTo
  <2>5. \A T \in UpTo(n) : G[T] = F[T]
    BY <2>1, <2>2, <2>4 DEF SumsUpTo
  <2>6. G \in [UpTo(n + 1) -> Nat]
    <3>1. ASSUME NEW T \in UpTo(n + 1) PROVE G[T] \in Nat
      <4>1. CASE T = {}
        BY <2>2, <4>1
      <4>2. CASE T # {}
        <5>1. PICK k \in Nat, l \in Nat :
                k = Len(b[Any(T)]) /\ l = F[T \ {Any(T)}]
          BY <2>3, <4>2
        <5>2. G[T] = k + l
          BY <2>2, <4>2, <5>1
        <5> QED BY <5>2
      <4> QED BY <4>1, <4>2
    <3> QED BY <2>2, <3>1
  <2>7. \A T \in UpTo(n + 1) :
          G[T] = IF T = {} THEN 0 ELSE Len(b[Any(T)]) + G[T \ {Any(T)}]
    BY <2>2, <2>3, <2>5
  <2>8. SumsUpTo(G, b, n + 1)
    BY <2>6, <2>7 DEF SumsUpTo
  <2> QED BY <1>1, <2>8
<1>4. PICK n \in Nat : UpTo(n) = SUBSET Stores
  BY EverySubset
<1>5. n \in X
  BY <1>2, <1>3, InductionOverNat
<1>6. PICK F : SumsUpTo(F, b, n)
  BY <1>1, <1>5
<1>7. F = SumOver(F, b)
  BY <1>4, <1>6 DEF SumsUpTo, SumOver
<1> QED BY <1>7

LEMMA SumEquation ==
  ASSUME NEW b, Sized(b), NEW T \in SUBSET Stores
  PROVE  Sums(b)[T] = IF T = {} THEN 0
                      ELSE Len(b[Any(T)]) + Sums(b)[T \ {Any(T)}]
<1>1. Sums(b) = SumOver(Sums(b), b)
  BY SumsExist DEF Sums
<1> QED BY <1>1 DEF SumOver

LEMMA SumOfNone == ASSUME NEW b, Sized(b) PROVE Sums(b)[{}] = 0
BY SumEquation

\* What a store of another size changes.
Shifts(b, c, s, T) ==
  /\ Sums(b)[T] \in Nat
  /\ Sums(c)[T] = IF s \in T THEN Sums(b)[T] + (Len(c[s]) - Len(b[s]))
                  ELSE Sums(b)[T]

\* One store less or more.
LEMMA SumChanges ==
  ASSUME NEW b, Sized(b), NEW c, Sized(c), NEW s \in Stores,
         \A t \in Stores \ {s} : Len(c[t]) = Len(b[t])
  PROVE  Total(b) \in Nat /\ Total(c) = Total(b) + (Len(c[s]) - Len(b[s]))
<1>1. PICK X : X = {n \in Nat : \A T \in UpTo(n) : Shifts(b, c, s, T)}
  OBVIOUS
<1>6. Shifts(b, c, s, {})
  BY SumOfNone DEF Shifts
<1>2. 0 \in X
  BY <1>1, <1>6, OnlyEmpty
<1>3. ASSUME NEW n \in Nat, n \in X PROVE n + 1 \in X
  <2> SUFFICES ASSUME NEW T \in UpTo(n + 1)
               PROVE  Shifts(b, c, s, T)
    BY <1>1
  <2>1. CASE T = {}
    BY <1>6, <2>1
  <2>2. CASE T # {}
    <3>1. PICK x : x = Any(T)
      OBVIOUS
    <3>2. PICK U : U = T \ {x}
      OBVIOUS
    <3>3. x \in T /\ x \in Stores /\ U \in UpTo(n) /\ T \in SUBSET Stores
      BY <2>2, <3>1, <3>2, OneFewer DEF UpTo
    <3>4. /\ Sums(b)[T] = Len(b[x]) + Sums(b)[U]
          /\ Sums(c)[T] = Len(c[x]) + Sums(c)[U]
      BY <2>2, <3>1, <3>2, <3>3, SumEquation
    <3>5. PICK p \in Nat, q \in Nat : p = Len(b[x]) /\ q = Len(c[x])
      BY <3>3 DEF Sized
    <3>6. PICK d \in Int : d = Len(c[s]) - Len(b[s])
      <4>1. PICK g \in Nat, h \in Nat : g = Len(c[s]) /\ h = Len(b[s])
        BY DEF Sized
      <4>2. g - h \in Int /\ g - h = Len(c[s]) - Len(b[s])
        BY <4>1
      <4> QED BY <4>2
    <3>7. Shifts(b, c, s, U)
      BY <1>1, <1>3, <3>3
    <3>8. PICK u \in Nat : u = Sums(b)[U]
      BY <3>7 DEF Shifts
    <3>9. Sums(c)[U] = IF s \in U THEN u + d ELSE u
      BY <3>6, <3>7, <3>8 DEF Shifts
    <3>10. Sums(b)[T] = p + u /\ p + u \in Nat
      BY <3>4, <3>5, <3>8
    <3>11. Sums(c)[T] = IF s \in T THEN p + u + d ELSE p + u
      <4>1. CASE x = s
        <5>1. s \notin U /\ s \in T
          BY <3>2, <3>3, <4>1
        <5>2. q = p + d
          BY <3>5, <3>6, <4>1
        <5>3. Sums(c)[T] = q + u
          BY <3>4, <3>5, <3>9, <5>1
        <5> QED BY <5>1, <5>2, <5>3
      <4>2. CASE x # s
        <5>1. p = q
          BY <3>3, <3>5, <4>2
        <5>2. s \in U <=> s \in T
          BY <3>2, <4>2
        <5>3. CASE s \in T
          <6>1. Sums(c)[T] = p + (u + d)
            BY <3>4, <3>5, <3>9, <5>1, <5>2, <5>3
          <6> QED BY <5>3, <6>1
        <5>4. CASE s \notin T
          BY <3>4, <3>5, <3>9, <5>1, <5>2, <5>4
        <5> QED BY <5>3, <5>4
      <4> QED BY <4>1, <4>2
    <3> QED BY <3>6, <3>10, <3>11 DEF Shifts
  <2> QED BY <2>1, <2>2
<1>4. PICK n \in Nat : UpTo(n) = SUBSET Stores
  BY EverySubset
<1>5. n \in X
  BY <1>2, <1>3, InductionOverNat
<1> QED BY <1>1, <1>4, <1>5, TotalIsSum DEF Shifts

LEMMA NothingAllocated ==
  ASSUME NEW b, \A s \in Stores : Len(b[s]) = 0
  PROVE  Total(b) = 0
<1>0. Sized(b)
  BY DEF Sized
<1>1. PICK X : X = {n \in Nat : \A T \in UpTo(n) : Sums(b)[T] = 0}
  OBVIOUS
<1>2. 0 \in X
  BY <1>0, <1>1, OnlyEmpty, SumOfNone
<1>3. ASSUME NEW n \in Nat, n \in X PROVE n + 1 \in X
  <2> SUFFICES ASSUME NEW T \in UpTo(n + 1) PROVE Sums(b)[T] = 0
    BY <1>1
  <2>1. CASE T = {}
    BY <1>0, <2>1, SumOfNone
  <2>2. CASE T # {}
    <3>1. Any(T) \in Stores /\ T \ {Any(T)} \in UpTo(n) /\ T \in SUBSET Stores
      BY <2>2, OneFewer DEF UpTo
    <3>2. Sums(b)[T \ {Any(T)}] = 0 /\ Len(b[Any(T)]) = 0
      BY <1>1, <1>3, <3>1
    <3>3. Sums(b)[T] = Len(b[Any(T)]) + Sums(b)[T \ {Any(T)}]
      BY <1>0, <2>2, <3>1, SumEquation
    <3> QED BY <3>2, <3>3
  <2> QED BY <2>1, <2>2
<1>4. PICK n \in Nat : UpTo(n) = SUBSET Stores
  BY EverySubset
<1>5. n \in X
  BY <1>2, <1>3, InductionOverNat
<1> QED BY <1>1, <1>4, <1>5, TotalIsSum

LEMMA ProductOfInts ==
  ASSUME NEW n \in Nat, NEW a \in Int, NEW b \in Int, a < b
  PROVE  n * a + n <= n * b
<1>1. PICK d \in Nat : b = a + 1 + d
  <2>1. b - a - 1 \in Nat /\ b = a + 1 + (b - a - 1)
    OBVIOUS
  <2> QED BY <2>1
<1>2. n * b = n * a + n + n * d
  BY <1>1
<1>3. n * d \in Nat /\ n * a \in Int
  OBVIOUS
<1> QED BY <1>2, <1>3

\* The remainder is the number in the word that differs by whole words.
LEMMA OneRemainder ==
  ASSUME NEW n \in Nat \ {0}, NEW a \in Int, NEW b \in Int,
         NEW r \in 0 .. n - 1, NEW s \in 0 .. n - 1, n * a + r = n * b + s
  PROVE  r = s
<1>1. n * a \in Int /\ n * b \in Int
  OBVIOUS
<1>2. ~(a < b)
  <2> SUFFICES ASSUME a < b PROVE FALSE
    OBVIOUS
  <2>1. n * a + n <= n * b
    BY ProductOfInts
  <2> QED BY <1>1, <2>1
<1>3. ~(b < a)
  <2> SUFFICES ASSUME b < a PROVE FALSE
    OBVIOUS
  <2>1. n * b + n <= n * a
    BY ProductOfInts
  <2> QED BY <1>1, <2>1
<1>4. a = b
  BY <1>2, <1>3
<1> QED BY <1>1, <1>4

LEMMA AddModulo ==
  ASSUME NEW w \in Nat \ {0}, NEW t \in Int, NEW d \in Int
  PROVE  ((t % w) + d) % w = (t + d) % w
<1>1. PICK a \in Int, r \in 0 .. w - 1 : r = t % w /\ t = w * a + r
  <2>1. t \div w \in Int /\ t % w \in 0 .. w - 1 /\ t = w * (t \div w) + (t % w)
    OBVIOUS
  <2> QED BY <2>1
<1>2. PICK m \in Int : m = r + d
  OBVIOUS
<1>3. PICK b \in Int, s \in 0 .. w - 1 : s = m % w /\ m = w * b + s
  <2>1. m \div w \in Int /\ m % w \in 0 .. w - 1 /\ m = w * (m \div w) + (m % w)
    OBVIOUS
  <2> QED BY <2>1
<1>4. PICK u \in Int : u = t + d
  OBVIOUS
<1>5. PICK c \in Int, q \in 0 .. w - 1 : q = u % w /\ u = w * c + q
  <2>1. u \div w \in Int /\ u % w \in 0 .. w - 1 /\ u = w * (u \div w) + (u % w)
    OBVIOUS
  <2> QED BY <2>1
<1>6. w * (a + b) + s = w * c + q
  <2>1. w * (a + b) = w * a + w * b /\ w * a \in Int /\ w * b \in Int
    OBVIOUS
  <2>2. PICK x \in Int, y \in Int : x = w * a /\ y = w * b
    BY <2>1
  <2>3. t = x + r /\ m = y + s
    BY <1>1, <1>3, <2>2
  <2>4. u = x + (y + s)
    BY <1>2, <1>4, <2>3
  <2>5. w * (a + b) + s = x + y + s
    BY <2>1, <2>2
  <2>6. u = x + y + s
    BY <2>4
  <2> QED BY <1>5, <2>5, <2>6
<1>7. s = q
  <2>1. a + b \in Int
    OBVIOUS
  <2> QED BY <1>6, <2>1, OneRemainder
<1> QED BY <1>1, <1>2, <1>3, <1>4, <1>5, <1>7

Counted == total_mem_usage = Sums(bytes)[Stores] % WordRange

LEMMA UsageCounted == UsageExact <=> Counted
BY TotalIsSum DEF UsageExact, Counted, Total

LEMMA UsageCountedNext == UsageExact' <=> Counted'
BY UsageCounted, PTL

\* The count follows a store that is allocated or freed.
LEMMA CountFollows ==
  ASSUME UsageExact, NEW c, c = bytes', Sized(bytes), Sized(c), NEW s \in Stores,
         \A t \in Stores \ {s} : Len(c[t]) = Len(bytes[t]),
         NEW d \in Int, Len(c[s]) = Len(bytes[s]) + d,
         total_mem_usage' = (total_mem_usage + d) % WordRange
  PROVE  UsageExact'
<1>1. PICK m \in Nat : m = Total(bytes)
  BY SumChanges
<1>2. Total(c) = m + d
  <2>1. Total(c) = m + (Len(c[s]) - Len(bytes[s]))
    BY <1>1, SumChanges
  <2>2. PICK g \in Nat, h \in Nat : g = Len(c[s]) /\ h = Len(bytes[s])
    BY DEF Sized
  <2>3. g - h = d
    BY <2>2
  <2> QED BY <2>1, <2>2, <2>3
<1>3. total_mem_usage = m % WordRange
  BY <1>1 DEF UsageExact, Total
<1>4. total_mem_usage' = (m + d) % WordRange
  <2>1. PICK w \in Nat \ {0} : w = WordRange
    BY PoolAssumption
  <2>2. ((m % w) + d) % w = (m + d) % w
    <3>1. m \in Int
      OBVIOUS
    <3> QED BY <3>1, AddModulo
  <2> QED BY <1>3, <2>1, <2>2
<1>5. Sums(c)[Stores] = m + d
  BY <1>2, TotalIsSum
<1>6. Counted'
  BY <1>4, <1>5 DEF Counted, Sums, SumOver
<1> QED BY <1>6, UsageCountedNext

LEMMA CountStays ==
  ASSUME UsageExact, NEW c, c = bytes', Sized(bytes), allocPool \in Stores,
         \A t \in Stores : Len(c[t]) = Len(bytes[t]),
         UNCHANGED total_mem_usage
  PROVE  UsageExact'
<1>1. Sized(c)
  BY DEF Sized
<1>2. Total(c) = Total(bytes)
  <2>1. PICK m \in Nat : m = Total(bytes)
    BY <1>1, SumChanges
  <2>2. Total(c) = m + (Len(c[allocPool]) - Len(bytes[allocPool]))
    BY <1>1, <2>1, SumChanges
  <2>3. PICK g \in Nat : g = Len(bytes[allocPool]) /\ g = Len(c[allocPool])
    BY DEF Sized
  <2> QED BY <2>1, <2>2, <2>3
<1>3. Sums(c)[Stores] = Sums(bytes)[Stores]
  BY <1>2, TotalIsSum
<1>4. Counted
  BY UsageCounted
<1>5. Counted'
  BY <1>3, <1>4 DEF Counted, Sums, SumOver
<1> QED BY <1>5, UsageCountedNext

LEMMA StoreLengths ==
  PoolInv => /\ Sized(bytes) /\ bytes \in [Stores -> Seq(Byte)]
             /\ allocPool \in Stores /\ zero_fill_toggle = 1
BY DEF PoolInv, Sound, Shape, Sized

LEMMA StoreLengthsNext == PoolInv' => Sized(bytes)'
BY StoreLengths, PTL

LEMMA StoreGets ==
  ASSUME PoolInv, PoolInv', UsageExact, NEW s \in Stores, NEW x,
         bytes' = [bytes EXCEPT ![s] = x], NEW d \in Int,
         Len(x) = Len(bytes[s]) + d,
         total_mem_usage' = (total_mem_usage + d) % WordRange
  PROVE  UsageExact'
<1>1. PICK c : c = bytes'
  OBVIOUS
<1>2. Sized(bytes) /\ bytes \in [Stores -> Seq(Byte)]
  BY StoreLengths
<1>3. Sized(c)
  BY <1>1, StoreLengthsNext DEF Sized
<1>4. c[s] = x /\ \A t \in Stores \ {s} : c[t] = bytes[t]
  BY <1>1, <1>2
<1> QED BY <1>1, <1>2, <1>3, <1>4, CountFollows

LEMMA StoreMade ==
  ASSUME PoolInv, PoolInv', UsageExact, NEW s \in Stores, Unallocated(s), NEW x,
         bytes' = [bytes EXCEPT ![s] = x], NEW n \in Nat, Len(x) = n,
         CountAllocation(n)
  PROVE  UsageExact'
<1>1. Len(bytes[s]) = 0
  BY DEF Unallocated
<1>2. Len(x) = Len(bytes[s]) + n
  BY <1>1
<1>3. n \in Int /\ total_mem_usage' = (total_mem_usage + n) % WordRange
  BY DEF CountAllocation
<1> QED BY <1>2, <1>3, StoreGets

LEMMA UsageCreate ==
  ASSUME PoolInv, PoolInv', UsageExact, NEW id \in Ids, NEW n \in Lengths,
         NEW s \in Stores, Unallocated(s), Create(id, s, n)
  PROVE  UsageExact'
<1>1. n \in Nat /\ PoolSize \in Nat /\ (n < Half => n <= PoolSize)
  BY ShortLengths
<1>2. \A k \in Nat, toggle \in {0, 1} : Len(Allocated(k, toggle)) = k
  BY AllocatedBytes
<1>3. \A wide : \A k \in Nat :
        n <= k => Len(WriteString(Allocated(k, 0), id, 0, n, wide)) = k
  <2> SUFFICES ASSUME NEW k \in Nat, NEW wide, n <= k
               PROVE  Len(WriteString(Allocated(k, 0), id, 0, n, wide)) = k
    OBVIOUS
  <2>1. PICK x : x = WriteString(Allocated(k, 0), id, 0, n, wide)
    OBVIOUS
  <2> QED BY <1>1, <2>1, FreshlyWritten
<1>4. ASSUME NEW wide \in BOOLEAN, LongString(id, s, n, wide) PROVE UsageExact'
  <2>1. PICK x : x = WriteString(Allocated(n, 0), id, 0, n, wide)
    OBVIOUS
  <2>2. bytes' = [bytes EXCEPT ![s] = x] /\ CountAllocation(n)
    BY <1>4, <2>1 DEF LongString
  <2>3. Len(x) = n
    BY <1>1, <1>3, <2>1
  <2> QED BY <1>1, <2>2, <2>3, StoreMade
<1>5. ASSUME NEW wide \in BOOLEAN, StringInNewPool(id, s, n, wide) PROVE UsageExact'
  <2>1. PICK x : x = WriteString(Allocated(PoolSize, 0), id, 0, n, wide)
    OBVIOUS
  <2>2. bytes' = [bytes EXCEPT ![s] = x] /\ CountAllocation(PoolSize) /\ n < Half
    BY <1>5, <2>1 DEF StringInNewPool, CreatePool, NeedsPool
  <2>3. Len(x) = PoolSize
    BY <1>1, <1>3, <2>1, <2>2
  <2> QED BY <1>1, <2>2, <2>3, StoreMade
<1>6. CASE ArrayInNewPool(id, s, n)
  <2>1. PICK x : x = WriteString(Allocated(PoolSize, 0), id, 0, n, FALSE)
    OBVIOUS
  <2>2. bytes' = [bytes EXCEPT ![s] = x] /\ CountAllocation(PoolSize) /\ n < Half
    BY <1>6, <2>1 DEF ArrayInNewPool, WriteArray, CreatePool, NeedsPool
  <2>3. Len(x) = PoolSize
    BY <1>1, <1>3, <2>1, <2>2
  <2> QED BY <1>1, <2>2, <2>3, StoreMade
<1>7. ASSUME NEW x, Len(x) = n, bytes' = [bytes EXCEPT ![s] = x], CountAllocation(n)
      PROVE  UsageExact'
  BY <1>1, <1>7, StoreMade
<1>8. CASE AllocZeroed(id, s, n)
  <2>1. zero_fill_toggle = 1
    BY StoreLengths
  <2> QED BY <1>1, <1>2, <1>7, <1>8, <2>1 DEF AllocZeroed
<1>9. CASE AllocFilled(id, s, n)
  <2>1. PICK x : x = WriteString(Allocated(n, 0), id, 0, n, FALSE)
    OBVIOUS
  <2>2. bytes' = [bytes EXCEPT ![s] = x] /\ CountAllocation(n)
    BY <1>9, <2>1 DEF AllocFilled, WriteArray
  <2>3. Len(x) = n
    <3>1. n <= n
      BY <1>1
    <3>2. Len(WriteString(Allocated(n, 0), id, 0, n, FALSE)) = n
      BY <1>1, <1>3, <3>1
    <3> QED BY <2>1, <3>2
  <2> QED BY <1>7, <2>2, <2>3
<1>10. CASE AllocRaw(id, s, n)
  BY <1>1, <1>2, <1>7, <1>10 DEF AllocRaw
<1>11. CASE AllocBadFill(s, n)
  BY <1>1, <1>2, <1>7, <1>11 DEF AllocBadFill
<1> QED BY <1>4, <1>5, <1>6, <1>8, <1>9, <1>10, <1>11 DEF Create

LEMMA UsageSlice ==
  ASSUME PoolInv, PoolInv', UsageExact, NEW id \in Ids, NEW n \in Lengths,
         Slice(id, n)
  PROVE  UsageExact'
<1>0. PICK wide \in BOOLEAN :
        /\ bytes' = [bytes EXCEPT ![allocPool] =
             WriteString(bytes[allocPool], id, poolOffset, n, wide)]
        /\ UNCHANGED total_mem_usage
  BY DEF Slice, PooledString, PooledArray, WriteArray
<1>1. PICK x :
        /\ x = WriteString(bytes[allocPool], id, poolOffset, n, wide)
        /\ bytes' = [bytes EXCEPT ![allocPool] = x]
        /\ UNCHANGED total_mem_usage
  BY <1>0
<1>2. /\ Sized(bytes) /\ bytes \in [Stores -> Seq(Byte)] /\ allocPool \in Stores
      /\ poolOffset \in Nat /\ n \in Nat
  BY StoreLengths, ShortLengths DEF PoolInv, Sound, Shape
<1>3. Len(x) = Len(bytes[allocPool])
  <2>1. PICK b \in Seq(Byte) : b = bytes[allocPool]
    BY <1>2
  <2> QED BY <1>1, <1>2, <2>1, WrittenBytes
<1>4. PICK c : c = bytes'
  OBVIOUS
<1>5. \A t \in Stores : Len(c[t]) = Len(bytes[t])
  BY <1>1, <1>2, <1>3, <1>4
<1> QED BY <1>1, <1>2, <1>4, <1>5, CountStays

LEMMA UsageStep == PoolInv /\ UsageExact /\ [Next]_vars => UsageExact'
<1> SUFFICES ASSUME PoolInv, UsageExact, [Next]_vars PROVE UsageExact'
  OBVIOUS
<1>1. PoolInv'
  BY NextPool
<1>2. Sized(bytes) /\ bytes \in [Stores -> Seq(Byte)] /\ allocPool \in Stores
  BY StoreLengths
<1>3. ASSUME NEW c, c = bytes', \A t \in Stores : Len(c[t]) = Len(bytes[t]),
             UNCHANGED total_mem_usage
      PROVE  UsageExact'
  BY <1>2, <1>3, CountStays
<1>4. ASSUME NEW id \in Ids, NEW n \in Lengths, Slice(id, n) PROVE UsageExact'
  BY <1>1, <1>4, UsageSlice
<1>5. ASSUME NEW id \in Ids, NEW n \in Lengths, NEW s \in Stores,
             Unallocated(s), Create(id, s, n)
      PROVE  UsageExact'
  BY <1>1, <1>5, UsageCreate
<1>6. CASE UNCHANGED <<bytes, total_mem_usage>>
  BY <1>3, <1>6
<1>7. ASSUME NEW b \in buffers, Drop(b) PROVE UsageExact'
  <2>1. bytes' = Disowned(b.id) /\ UNCHANGED total_mem_usage
    BY <1>7 DEF Drop
  <2>2. \A t \in Stores : Len(bytes'[t]) = Len(bytes[t])
    BY <1>2, <2>1, DisownedBytes
  <2> QED BY <1>3, <2>1, <2>2
<1>8. ASSUME NEW s \in Stores, Collect(s) PROVE UsageExact'
  <2>1. PICK k \in Nat : k = Len(bytes[s])
    BY <1>2 DEF Sized
  <2>2. PICK d \in Int : d = 0 - k
    OBVIOUS
  <2>3. PICK x : x = <<>>
    OBVIOUS
  <2>4. /\ bytes' = [bytes EXCEPT ![s] = x]
        /\ total_mem_usage' = (total_mem_usage - k) % WordRange
    BY <1>8, <2>1, <2>3 DEF Collect, CountFree
  <2>5. total_mem_usage - k = total_mem_usage + d
    <3>1. total_mem_usage \in Int
      <4>1. PICK m \in Nat : m = Total(bytes)
        BY <1>2, SumChanges
      <4>2. PICK w \in Nat \ {0} : w = WordRange
        BY PoolAssumption
      <4>3. m % w \in Int
        OBVIOUS
      <4> QED BY <4>1, <4>2, <4>3 DEF UsageExact, Total
    <3> QED BY <2>2, <3>1
  <2>6. Len(x) = Len(bytes[s]) + d
    BY <2>1, <2>2, <2>3
  <2> QED BY <1>1, <2>4, <2>5, <2>6, StoreGets
<1> QED
  BY <1>4, <1>5, <1>6, <1>7, <1>8 DEF Next, UnsafeFails, vars

\* The allocator's count is that of the memory of all stores, modulo its
\* width, whatever is allocated, fails and is collected
\* (NestArrayBufferAllocator.cpp 6-41).
THEOREM UsageIsExact == Spec => []UsageExact
<1>1. Init => UsageExact
  <2> SUFFICES ASSUME Init PROVE UsageExact
    OBVIOUS
  <2>1. PICK b : b = [s \in Stores |-> <<>>]
    OBVIOUS
  <2>2. Total(b) = 0
    BY <2>1, NothingAllocated
  <2>3. PICK p \in Stores : p = allocPool
    BY DEF Init
  <2>4. PoolSize \in Nat /\ Len(Allocated(PoolSize, 0)) = PoolSize
    BY PoolAssumption DEF Allocated
  <2>5. /\ Sized(b) /\ Len(b[p]) = 0
        /\ Sized(bytes) /\ Len(bytes[p]) = PoolSize
        /\ \A t \in Stores \ {p} : Len(bytes[t]) = Len(b[t])
    BY <2>1, <2>3, <2>4 DEF Init, Sized
  <2>6. Total(bytes) = 0 + (PoolSize - 0)
    BY <2>2, <2>5, SumChanges
  <2>7. Total(bytes) = PoolSize
    BY <2>4, <2>6
  <2> QED BY <2>7 DEF Init, UsageExact, Total
<1> QED BY <1>1, UsageStep, PoolInvariant, PTL DEF Spec

-----------------------------------------------------------------------------
(* FileBuffers.                                                            *)

Marks == Byte \cup {"file"}

\* A write that holds its memory keeps the buffer alive.
Live == buffers \cup {op[o].buffer : o \in {p \in Ops : Active(p) /\ op[p].held}}

Call == [call : {"read", "write"}, buffer : Buffer, from : Nat, length : Nat,
         stage : {"io", "done"}, bytesRead : Nat, held : BOOLEAN]

\* The buffer of a read is kept by its callback, and has lost the bytes it was
\* made with; the memory of a write is held by the buffer or by the pool.
CallOK(o) ==
  Active(o) =>
    LET b == op[o].buffer
    IN  /\ op[o].bytesRead <= op[o].length
        /\ op[o].call = "read" => b \in buffers /\ b.kind \in {"raw", "array"}
        /\ op[o].call = "write" => op[o].from = 0 /\ op[o].length = b.length
        /\ op[o].held => b \in buffers \/ b.store = allocPool

\* Only reads share a buffer.
Shares(o, p) ==
  op[o].buffer.id = op[p].buffer.id =>
    o = p \/ (op[o].call = "read" /\ op[p].call = "read")

Calls ==
  /\ op \in [Ops -> {NoOp} \cup Call]
  /\ \A o \in Ops : CallOK(o)
  /\ \A o, p \in Ops : Active(o) /\ Active(p) => Shares(o, p)

\* The bytes that were read are where they were read to, as far as that is
\* within the buffer.
Arrived ==
  \A o \in Ops :
    (Done(o) /\ op[o].call = "read" /\ op[o].buffer.kind # "array") =>
      \A i \in 1 .. op[o].bytesRead :
        op[o].from + i \in Span(op[o].buffer) =>
          bytes[op[o].buffer.store][op[o].from + i] = "file"

FileInv == Sound(Live, stray, Marks) /\ Calls /\ Arrived

LEMMA MarksOK == Byte \subseteq Marks /\ \A id \in Ids : id # "file"
BY OpsAssumption DEF Marks

LEMMA InitFiles == FileInit => FileInv
<1> SUFFICES ASSUME FileInit PROVE FileInv
  OBVIOUS
<1>1. /\ Init /\ op = [o \in Ops |-> NoOp] /\ stray = {}
      /\ allocPool \in Stores /\ buffers = {} /\ poolOffset = 0
      /\ zero_fill_toggle = 1
      /\ bytes = [s \in Stores |->
           IF s = allocPool THEN Allocated(PoolSize, 0) ELSE <<>>]
  BY DEF FileInit, Init
<1>2. Allocated(PoolSize, 0) \in Seq(Marks)
      /\ Len(Allocated(PoolSize, 0)) = PoolSize
  BY AllocatedBytes, PoolAssumption, MarksOK
<1>3. \A o \in Ops : ~Active(o)
  BY <1>1 DEF Active
<1>4. Live = {}
  BY <1>1, <1>3 DEF Live
<1>5. Shape({}, Marks)
  BY <1>1, <1>2 DEF Shape
<1>6. Sound(Live, stray, Marks)
  BY <1>4, <1>5 DEF Sound, Placed, OneOwner, Apart, Disjoint, Kept
<1>7. Calls
  BY <1>1, <1>3 DEF Calls, CallOK
<1>8. Arrived
  BY <1>3 DEF Arrived, Done
<1> QED BY <1>6, <1>7, <1>8 DEF FileInv

\* The live buffers after a step that leaves the calls alone but for what
\* they hold.
LEMMA HoldOK ==
  ASSUME Calls, OneOwner(Live), op' = Hold,
         \A b \in buffers' : \A o \in Ops : Serves(o, b) /\ op[o].held => b \in Live,
         \A o \in Ops : Active(o) /\ op[o].call = "read" => op[o].buffer \in buffers'
  PROVE  /\ Calls'
         /\ Live' \subseteq buffers' \cup Live
         /\ \A o \in Ops : Done(o)' /\ op'[o].call = "read" =>
              /\ Done(o) /\ op[o].call = "read"
              /\ op'[o].buffer = op[o].buffer /\ op'[o].from = op[o].from
              /\ op'[o].bytesRead = op[o].bytesRead
<1>1. op \in [Ops -> {NoOp} \cup Call]
  BY DEF Calls
<1> DEFINE held(o) ==
      /\ op[o].held
      /\ \/ \E b \in buffers' : b.id = op[o].buffer.id
         \/ op[o].buffer.store = allocPool'
<1>2. \A o \in Ops : ~Active(o) => op'[o] = NoOp
  BY DEF Hold
<1>3. ASSUME NEW o \in Ops, Active(o)
      PROVE  /\ op[o] \in Call /\ op'[o] \in Call
             /\ op'[o] = [op[o] EXCEPT !.held = held(o)]
             /\ op'[o].call = op[o].call /\ op'[o].buffer = op[o].buffer
             /\ op'[o].from = op[o].from /\ op'[o].length = op[o].length
             /\ op'[o].stage = op[o].stage /\ op'[o].bytesRead = op[o].bytesRead
             /\ op'[o].held = held(o)
  <2>1. op[o] \in Call
    BY <1>1, <1>3 DEF Active
  <2>2. op'[o] = [op[o] EXCEPT !.held = held(o)]
    BY <1>3 DEF Hold
  <2>3. held(o) \in BOOLEAN
    BY <2>1 DEF Call
  <2> HIDE DEF held
  <2> QED BY <2>1, <2>2, <2>3 DEF Call
<1>4. \A o \in Ops : Active(o)' => Active(o)
  BY <1>2 DEF Active
<1>5. op' \in [Ops -> {NoOp} \cup Call]
  BY <1>2, <1>3 DEF Hold
<1> HIDE DEF held
<1>6. ASSUME NEW o \in Ops, Active(o), op[o].held PROVE op[o].buffer \in Live
  BY <1>6 DEF Live
<1>7. Live' \subseteq buffers' \cup Live
  <2> SUFFICES ASSUME NEW o \in Ops, Active(o)', op'[o].held PROVE op'[o].buffer \in Live
    BY DEF Live
  <2> QED BY <1>3, <1>4, <1>6 DEF held
<1>8. ASSUME NEW o \in Ops, Active(o)', held(o), op[o].buffer.store # allocPool'
      PROVE  op[o].buffer \in buffers'
  <2>1. Active(o) /\ op[o].held
    BY <1>4, <1>8 DEF held
  <2>2. PICK b \in buffers' : b.id = op[o].buffer.id
    BY <1>8 DEF held
  <2>3. b \in Live /\ op[o].buffer \in Live
    BY <1>6, <2>1, <2>2 DEF Serves
  <2> QED BY <2>2, <2>3 DEF OneOwner
<1>9. ASSUME NEW o \in Ops PROVE CallOK(o)'
  <2> SUFFICES ASSUME Active(o)' PROVE CallOK(o)'
    BY DEF CallOK
  <2>1. Active(o) /\ CallOK(o)
    BY <1>4 DEF Calls
  <2> QED BY <1>3, <1>8, <2>1 DEF CallOK
<1>10. \A o, p \in Ops : (Active(o) /\ Active(p))' => Shares(o, p)'
  <2> SUFFICES ASSUME NEW o \in Ops, NEW p \in Ops, Active(o)', Active(p)'
               PROVE  Shares(o, p)'
    OBVIOUS
  <2>1. Active(o) /\ Active(p) /\ Shares(o, p)
    BY <1>4 DEF Calls
  <2>2. /\ op'[o].buffer = op[o].buffer /\ op'[o].call = op[o].call
        /\ op'[p].buffer = op[p].buffer /\ op'[p].call = op[p].call
    BY <1>3, <2>1
  <2> QED BY <2>1, <2>2 DEF Shares
<1>11. Calls'
  BY <1>5, <1>9, <1>10 DEF Calls
<1> QED BY <1>3, <1>4, <1>7, <1>11 DEF Done

\* Nothing happens to a call.
LEMMA CallKept ==
  ASSUME NEW o \in Ops, CallOK(o), op'[o] = op[o], allocPool' = allocPool,
         Active(o) /\ op[o].buffer \in buffers => op[o].buffer \in buffers'
  PROVE  CallOK(o)'
BY DEF CallOK, Active

\* A subset of the live buffers, and more places, may be looked at.
LEMMA SoundPart ==
  ASSUME NEW L, NEW H, NEW D, Sound(L, H, D)', NEW M, M \subseteq L, NEW I, H \subseteq I
  PROVE  Sound(M, I, D)'
BY DEF Sound, Shape, Placed, OneOwner, Apart, Disjoint, Kept, Span

\* Files.read: the buffer loses the bytes it was made with.
LEMMA ReadFileStep ==
  ASSUME FileInv, NEW o \in Ops, NEW b \in buffers, NEW offset \in Offsets,
         NEW length \in Asked \cup {b.length}, ReadFileAsync(o, b, offset, length)
  PROVE  FileInv'
<1>1. PICK L, H : L = Live /\ H = stray
  OBVIOUS
<1>2. Sound(L, H, Marks) /\ Calls /\ Arrived
  BY <1>1 DEF FileInv
<1> DEFINE raw == ReadInto(b)
           new == [call |-> "read", buffer |-> raw, from |-> offset,
                   length |-> length, stage |-> "io", bytesRead |-> 0,
                   held |-> TRUE]
           M == (L \ {b}) \cup {raw}
<1>3. /\ ~Active(o) /\ (\A p \in Ops : Serves(p, b) => op[p].call = "read")
      /\ buffers' = (buffers \ {b}) \cup {raw}
      /\ op' = [op EXCEPT ![o] = new]
      /\ stray' = H /\ bytes' = bytes /\ allocPool' = allocPool
      /\ poolOffset' = poolOffset /\ zero_fill_toggle' = zero_fill_toggle
  BY <1>1 DEF ReadFileAsync, poolVars
<1>4. b \in L /\ b \in Buffer /\ b.offset \in Nat /\ b.length \in Nat /\ b.store \in Stores
  BY <1>1, <1>2 DEF Live, Sound, Shape, Buffer
<1>5. /\ raw \in Buffer /\ raw.id = b.id /\ raw.store = b.store
      /\ raw.offset = b.offset /\ raw.length = b.length /\ Span(raw) = Span(b)
      /\ raw.kind \in {"raw", "array"} /\ (raw.kind = "array" <=> b.kind = "array")
      /\ b.kind \in {"raw", "array"} => raw = b
  BY <1>4 DEF Buffer, Span, ReadInto
<1>6. offset \in Nat /\ length \in Nat
  BY <1>4, OpsAssumption, PoolAssumption
<1> HIDE DEF raw
<1>7. Sound(M, H, Marks)'
  <2>1. Sound(L, H, Marks)'
    BY <1>2, <1>3, StillStep DEF Sound, Shape
  <2>2. Shape(M, Marks)' /\ Placed(M)' /\ OneOwner(M)'
    BY <1>4, <1>5, <2>1 DEF Sound, Shape, Placed, OneOwner
  <2>3. Apart(M)'
    BY <1>4, <1>5, <2>1 DEF Sound, Apart
  <2>4. Disjoint(M)'
    <3> SUFFICES ASSUME NEW a1 \in M, NEW a2 \in M, a1 # a2, a1.store = a2.store,
                        a1.kind # "array", a2.kind # "array"
                 PROVE  Span(a1) \cap Span(a2) = {}
      BY DEF Disjoint, Span
    <3>1. \A a \in L : a # b /\ a.store = b.store /\ a.kind # "array"
                        /\ b.kind # "array" => Span(a) \cap Span(b) = {}
      BY <1>4, <2>1 DEF Sound, Disjoint, Span
    <3>2. CASE a1 = raw
      BY <1>5, <3>1, <3>2
    <3>3. CASE a2 = raw
      BY <1>5, <3>1, <3>3
    <3>4. CASE a1 \in L /\ a2 \in L
      BY <2>1, <3>4 DEF Sound, Disjoint, Span
    <3> QED BY <3>2, <3>3, <3>4
  <2>5. Kept(M, H)'
    BY <1>5, <2>1 DEF Sound, Kept, Span
  <2> QED BY <2>2, <2>3, <2>4, <2>5 DEF Sound
<1>8. op \in [Ops -> {NoOp} \cup Call]
  BY <1>2 DEF Calls
<1>9. /\ new \in Call /\ new.buffer = raw /\ new.length \in Nat /\ new.bytesRead = 0
      /\ new.call = "read" /\ new.stage = "io" /\ new.held
  BY <1>5, <1>6 DEF Call
<1> HIDE DEF new
<1>10. op'[o] = new /\ \A p \in Ops : p # o => op'[p] = op[p]
  BY <1>3, <1>8
\* Another read of the buffer has already made it raw, if it could.
<1>11. ASSUME NEW p \in Ops, Active(p), op[p].buffer.id = b.id
       PROVE  op[p].call = "read" /\ op[p].buffer = b /\ raw = b /\ buffers' = buffers
  <2>1. op[p].call = "read" /\ op[p].buffer \in buffers
        /\ op[p].buffer.kind \in {"raw", "array"}
    BY <1>2, <1>3, <1>11 DEF Serves, Calls, CallOK
  <2>2. op[p].buffer \in L
    BY <1>1, <2>1 DEF Live
  <2>3. op[p].buffer = b
    BY <1>2, <1>4, <1>11, <2>2 DEF Sound, OneOwner
  <2>4. raw = b
    BY <1>5, <2>1, <2>3
  <2> QED BY <1>3, <2>1, <2>3, <2>4
<1>12. Live' \subseteq M
  <2>1. buffers' \subseteq M
    BY <1>1, <1>3 DEF Live
  <2>2. ASSUME NEW p \in Ops, Active(p)', op'[p].held PROVE op'[p].buffer \in M
    <3>1. CASE p = o
      BY <1>9, <1>10, <3>1
    <3>2. CASE p # o
      <4>1. Active(p) /\ op[p].held /\ op'[p].buffer = op[p].buffer
        BY <1>10, <2>2, <3>2 DEF Active
      <4>2. op[p].buffer \in L /\ (op[p].buffer = b => raw = b)
        BY <1>1, <1>11, <4>1 DEF Live
      <4> QED BY <4>1, <4>2
    <3> QED BY <3>1, <3>2
  <2> QED BY <2>1, <2>2 DEF Live
<1>13. Sound(Live, stray, Marks)'
  <2>1. PICK K, I : K = Live' /\ I = stray'
    OBVIOUS
  <2>2. K \subseteq M /\ H \subseteq I
    BY <1>3, <1>12, <2>1
  <2>3. Sound(K, I, Marks)'
    BY <1>7, <2>2, SoundPart
  <2> QED BY <2>1, <2>3
<1>14. Calls'
  <2>1. op' \in [Ops -> {NoOp} \cup Call]
    BY <1>3, <1>8, <1>9
  <2>2. ASSUME NEW p \in Ops PROVE CallOK(p)'
    <3>1. CASE p = o
      BY <1>3, <1>5, <1>9, <1>10, <3>1 DEF CallOK
    <3>2. CASE p # o
      <4>1. Active(p) /\ op[p].buffer \in buffers => op[p].buffer \in buffers'
        BY <1>3, <1>11
      <4>2. CallOK(p) /\ op'[p] = op[p]
        BY <1>2, <1>10, <3>2 DEF Calls
      <4> QED BY <1>3, <4>1, <4>2, CallKept
    <3> QED BY <3>1, <3>2
  <2>3. ASSUME NEW p \in Ops, NEW q \in Ops, Active(p)', Active(q)'
        PROVE  Shares(p, q)'
    <3>1. \A r \in Ops : r # o /\ Active(r)' =>
             /\ Active(r) /\ op'[r] = op[r]
             /\ op[r].buffer.id = b.id => op[r].call = "read"
      BY <1>10, <1>11 DEF Active
    <3>2. op'[o].buffer.id = b.id /\ op'[o].call = "read"
      BY <1>5, <1>9, <1>10
    <3>3. CASE p = o \/ q = o
      BY <2>3, <3>1, <3>2, <3>3 DEF Shares
    <3>4. CASE p # o /\ q # o
      BY <1>2, <2>3, <3>1, <3>4 DEF Calls, Shares
    <3> QED BY <3>3, <3>4
  <2> QED BY <2>1, <2>2, <2>3 DEF Calls
<1>15. Arrived'
  <2>1. \A p \in Ops : Done(p)' => Done(p) /\ op'[p] = op[p]
    BY <1>9, <1>10 DEF Done, Active
  <2> QED BY <1>2, <1>3, <2>1 DEF Arrived, Span
<1> QED BY <1>13, <1>14, <1>15 DEF FileInv

\* When neither buffers nor the pool change, and no call gets another buffer
\* or begins to hold one, no buffer comes to life.
LEMMA LiveShrinks ==
  ASSUME UNCHANGED buffers,
         \A o \in Ops : Active(o)' /\ op'[o].held =>
           op'[o].buffer \in buffers \/
           (Active(o) /\ op[o].held /\ op'[o].buffer = op[o].buffer)
  PROVE  Live' \subseteq Live
BY DEF Live

\* Files.write.
LEMMA WriteFileStep ==
  ASSUME FileInv, NEW o \in Ops, NEW b \in buffers, WriteFileAsync(o, b)
  PROVE  FileInv'
<1>1. PICK L, H : L = Live /\ H = stray
  OBVIOUS
<1>2. Sound(L, H, Marks) /\ Calls /\ Arrived
  BY <1>1 DEF FileInv
<1> DEFINE new == [call |-> "write", buffer |-> b, from |-> 0, length |-> b.length,
                   stage |-> "io", bytesRead |-> 0, held |-> TRUE]
<1>3. /\ \A p \in Ops : ~Serves(p, b)
      /\ op' = [op EXCEPT ![o] = new]
      /\ UNCHANGED <<buffers, stray, bytes, allocPool, poolOffset>>
      /\ zero_fill_toggle' = zero_fill_toggle
  BY DEF WriteFileAsync, vars
<1>4. b \in Buffer /\ b.length \in Nat
  BY <1>1, <1>2 DEF Live, Sound, Shape, Buffer
<1>5. op \in [Ops -> {NoOp} \cup Call]
  BY <1>2 DEF Calls
<1>6. /\ new \in Call /\ new.buffer = b /\ new.from = 0 /\ new.length = b.length
      /\ new.bytesRead = 0 /\ new.call = "write" /\ new.stage = "io" /\ new.held
  BY <1>4 DEF Call
<1> HIDE DEF new
<1>7. op'[o] = new /\ \A p \in Ops : p # o => op'[p] = op[p]
  BY <1>3, <1>5
<1>8. Sound(Live, stray, Marks)'
  <2>1. zero_fill_toggle' = 1
    BY <1>2, <1>3 DEF Sound, Shape
  <2>2. Sound(L, H, Marks)'
    BY <1>2, <1>3, <2>1, StillStep
  <2>3. Live' \subseteq Live
    <3> SUFFICES ASSUME NEW p \in Ops, Active(p)', op'[p].held
                 PROVE  op'[p].buffer \in buffers \/
                        (Active(p) /\ op[p].held /\ op'[p].buffer = op[p].buffer)
      BY <1>3, LiveShrinks
    <3>1. CASE p = o
      BY <1>6, <1>7, <3>1
    <3>2. CASE p # o
      BY <1>7, <3>2 DEF Active
    <3> QED BY <3>1, <3>2
  <2>4. PICK K, I : K = Live' /\ I = stray'
    OBVIOUS
  <2>5. K \subseteq L /\ H \subseteq I
    BY <1>1, <1>3, <2>3, <2>4
  <2>6. Sound(K, I, Marks)'
    BY <2>2, <2>5, SoundPart
  <2> QED BY <2>4, <2>6
<1>9. Calls'
  <2>1. op' \in [Ops -> {NoOp} \cup Call]
    BY <1>3, <1>5, <1>6
  <2>2. ASSUME NEW p \in Ops PROVE CallOK(p)'
    <3>1. CASE p = o
      BY <1>3, <1>4, <1>6, <1>7, <3>1 DEF CallOK
    <3>2. CASE p # o
      BY <1>2, <1>3, <1>7, <3>2, CallKept DEF Calls
    <3> QED BY <3>1, <3>2
  <2>3. ASSUME NEW p \in Ops, NEW q \in Ops, Active(p)', Active(q)'
        PROVE  Shares(p, q)'
    <3>1. \A r \in Ops : r # o /\ Active(r)' =>
             Active(r) /\ op'[r] = op[r] /\ op[r].buffer.id # b.id
      BY <1>3, <1>7 DEF Active, Serves
    <3>2. op'[o].buffer.id = b.id
      BY <1>6, <1>7
    <3> QED BY <1>2, <2>3, <3>1, <3>2 DEF Calls, Shares
  <2> QED BY <2>1, <2>2, <2>3 DEF Calls
<1>10. Arrived'
  <2>1. \A p \in Ops : Done(p)' => p # o /\ Done(p) /\ op'[p] = op[p]
    BY <1>6, <1>7 DEF Done, Active
  <2> QED BY <1>2, <1>3, <2>1 DEF Arrived, Span
<1> QED BY <1>8, <1>9, <1>10 DEF FileInv

\* The stage of a call moves on.
LEMMA MovesOn ==
  ASSUME Calls, NEW o \in Ops, Pending(o), NEW n \in 0 .. op[o].length,
         op' = [op EXCEPT ![o].stage = "done", ![o].bytesRead = n],
         UNCHANGED <<buffers, allocPool>>
  PROVE  /\ Calls' /\ Live' \subseteq Live
         /\ op'[o].call = op[o].call /\ op'[o].buffer = op[o].buffer
         /\ op'[o].from = op[o].from /\ op'[o].bytesRead = n
         /\ \A p \in Ops : p # o => op'[p] = op[p]
<1>1. op \in [Ops -> {NoOp} \cup Call] /\ Active(o)
  BY DEF Calls, Pending
<1>2. op[o] \in Call /\ n \in Nat
  BY <1>1 DEF Active, Call
<1>3. op'[o] = [op[o] EXCEPT !.stage = "done", !.bytesRead = n]
      /\ \A p \in Ops : p # o => op'[p] = op[p]
  BY <1>1
<1>4. /\ op'[o] \in Call
      /\ op'[o].call = op[o].call /\ op'[o].buffer = op[o].buffer
      /\ op'[o].from = op[o].from /\ op'[o].length = op[o].length
      /\ op'[o].held = op[o].held /\ op'[o].bytesRead = n
  <2>1. PICK c, d : c = op[o] /\ d = [c EXCEPT !.stage = "done", !.bytesRead = n]
    OBVIOUS
  <2>2. c \in Call /\ op'[o] = d
    BY <1>2, <1>3, <2>1
  <2>3. /\ d.call = c.call /\ d.buffer = c.buffer /\ d.from = c.from
        /\ d.length = c.length /\ d.held = c.held /\ d.bytesRead = n
    BY <2>1, <2>2 DEF Call
  <2>4. d \in Call
    BY <1>2, <2>1, <2>2 DEF Call
  <2> QED BY <2>1, <2>2, <2>3, <2>4
<1>5. op' \in [Ops -> {NoOp} \cup Call]
  BY <1>1, <1>4
<1>6. \A p \in Ops : Active(p)' => /\ Active(p) /\ op'[p].buffer = op[p].buffer
                                 /\ op'[p].held = op[p].held
                                 /\ op'[p].call = op[p].call
  BY <1>1, <1>3, <1>4 DEF Active
<1>7. Live' \subseteq Live
  BY <1>6, LiveShrinks
<1>8. ASSUME NEW p \in Ops PROVE CallOK(p)'
  <2>1. CASE p = o
    BY <1>1, <1>2, <1>4, <2>1 DEF CallOK, Calls
  <2>2. CASE p # o
    BY <1>3, <2>2, CallKept DEF Calls
  <2> QED BY <2>1, <2>2
<1>9. Calls'
  BY <1>5, <1>6, <1>8 DEF Calls, Shares
<1> QED BY <1>3, <1>4, <1>7, <1>9

\* The buffer of a read whose callback is due is live, and in its store.
LEMMA ReaderPlaced ==
  ASSUME FileInv, NEW p \in Ops, Active(p), op[p].call = "read"
  PROVE  LET b == op[p].buffer
         IN  /\ op[p] \in Call /\ b \in buffers /\ b \in Live /\ b \in Buffer
             /\ b.store \in Stores /\ b.kind \in {"raw", "array"}
             /\ Len(bytes[b.store]) \in Nat
             /\ Span(b) \subseteq 1 .. Len(bytes[b.store])
<1>1. op[p] \in Call /\ op[p].buffer \in buffers /\ op[p].buffer.kind \in {"raw", "array"}
  BY DEF FileInv, Calls, CallOK, Active
<1>2. PICK b : b = op[p].buffer
  OBVIOUS
<1>3. b \in Live /\ b \in Buffer /\ b.store \in Stores /\ b.offset \in Nat /\ b.length \in Nat
  BY <1>1, <1>2 DEF Live, Call, Buffer
<1>4. b.offset + b.length <= Len(bytes[b.store]) /\ bytes[b.store] \in Seq(Marks)
  BY <1>3 DEF FileInv, Sound, Shape, Placed
<1>5. Span(b) \subseteq 1 .. Len(bytes[b.store]) /\ Len(bytes[b.store]) \in Nat
  BY <1>3, <1>4 DEF Span
<1> QED BY <1>1, <1>2, <1>3, <1>5

\* What was read stays while the step leaves it alone.
LEMMA ArrivedStays ==
  ASSUME Arrived,
         \A p \in Ops : Done(p)' /\ op'[p].call = "read" =>
           /\ Done(p) /\ op[p].call = "read"
           /\ op'[p].buffer = op[p].buffer /\ op'[p].from = op[p].from
           /\ op'[p].bytesRead = op[p].bytesRead,
         \A p \in Ops :
           Done(p) /\ op[p].call = "read" /\ op[p].buffer.kind # "array" =>
             \A i \in Span(op[p].buffer) :
               bytes[op[p].buffer.store][i] = "file" =>
                 bytes'[op[p].buffer.store][i] = "file"
  PROVE  Arrived'
<1> SUFFICES ASSUME NEW p \in Ops, Done(p)', op'[p].call = "read",
                    op'[p].buffer.kind # "array",
                    NEW i \in 1 .. op'[p].bytesRead,
                    op'[p].from + i \in Span(op'[p].buffer)
             PROVE  bytes'[op'[p].buffer.store][op'[p].from + i] = "file"
  BY DEF Arrived, Span
<1>1. /\ Done(p) /\ op[p].call = "read"
      /\ op'[p].buffer = op[p].buffer /\ op'[p].from = op[p].from
      /\ op'[p].bytesRead = op[p].bytesRead
  OBVIOUS
<1>2. bytes[op[p].buffer.store][op[p].from + i] = "file"
  BY <1>1 DEF Arrived
<1> QED BY <1>1, <1>2

\* The bytes of a read change the places that they go to, and no others.
LEMMA ArriveBytes ==
  ASSUME bytes \in [Stores -> Seq(Marks)], NEW o, NEW n, NEW next, Arrive(o, n, next)
  PROVE  /\ bytes' \in [Stores -> Seq(Marks)]
         /\ \A s \in Stores :
              /\ Len(bytes'[s]) = Len(bytes[s])
              /\ \A i \in 1 .. Len(bytes[s]) :
                   bytes'[s][i] =
                     IF <<s, i>> \in Places(o, n, next) THEN "file" ELSE bytes[s][i]
<1>1. PICK P : P = Places(o, n, next)
  OBVIOUS
<1>2. bytes' = [s \in Stores |-> [i \in DOMAIN bytes[s] |->
        IF <<s, i>> \in P THEN "file" ELSE bytes[s][i]]]
  BY <1>1 DEF Arrive
<1>3. ASSUME NEW s \in Stores
      PROVE  /\ bytes'[s] \in Seq(Marks) /\ Len(bytes'[s]) = Len(bytes[s])
             /\ \A i \in 1 .. Len(bytes[s]) :
                  bytes'[s][i] = IF <<s, i>> \in P THEN "file" ELSE bytes[s][i]
  <2>1. PICK old, c : old = bytes[s] /\ c = bytes'[s]
    OBVIOUS
  <2>2. old \in Seq(Marks) /\ c = [i \in DOMAIN old |-> IF <<s, i>> \in P THEN "file" ELSE old[i]]
    BY <1>2, <2>1
  <2>3. DOMAIN old = 1 .. Len(old) /\ Len(old) \in Nat /\ \A i \in 1 .. Len(old) : old[i] \in Marks
    BY <2>2
  <2>4. c \in [1 .. Len(old) -> Marks]
    BY <2>2, <2>3 DEF Marks
  <2>5. c \in Seq(Marks) /\ Len(c) = Len(old)
    BY <2>3, <2>4
  <2> QED BY <2>1, <2>2, <2>3, <2>5
<1>4. bytes' \in [Stores -> Seq(Marks)]
  BY <1>2, <1>3
<1> QED BY <1>1, <1>3, <1>4

\* The places of fewer bytes are among those of all that were asked for, and
\* those within the store are where they were asked to be.
LEMMA PlacesOK ==
  ASSUME NEW o, NEW next, NEW from \in Nat, from = op[o].from,
         NEW length \in Nat, NEW n \in 0 .. length,
         Len(bytes[op[o].buffer.store]) \in Nat
  PROVE  /\ Places(o, n, next) \subseteq Places(o, length, next)
         /\ \A i \in 1 .. n :
              from + i <= Len(bytes[op[o].buffer.store]) =>
                <<op[o].buffer.store, from + i>> \in Places(o, n, next)
<1> DEFINE own == op[o].buffer.store
           end == Len(bytes[own])
           asked(k) == from + 1 .. from + k
           rest(k) == {q \in asked(k) : q > end}
<1>1. asked(n) \subseteq asked(length)
  OBVIOUS
<1>2. {p - end : p \in rest(n)} \subseteq {p - end : p \in rest(length)}
  BY <1>1
<1>3. {p \in asked(n) : p <= end} \subseteq {p \in asked(length) : p <= end}
  BY <1>1
<1>4. \A k : Places(o, k, next) =
        {own} \X {p \in asked(k) : p <= end} \cup {next} \X {p - end : p \in rest(k)}
  BY DEF Places
<1>5. \A i \in 1 .. n : from + i \in asked(n)
  OBVIOUS
<1> HIDE DEF own, end, asked, rest
<1>6. Places(o, n, next) \subseteq Places(o, length, next)
  <2>1. PICK A, B, C, D : /\ A = {p \in asked(n) : p <= end}
                          /\ B = {p - end : p \in rest(n)}
                          /\ C = {p \in asked(length) : p <= end}
                          /\ D = {p - end : p \in rest(length)}
    OBVIOUS
  <2>2. Places(o, n, next) = {own} \X A \cup {next} \X B
    BY <1>4, <2>1
  <2>3. Places(o, length, next) = {own} \X C \cup {next} \X D
    BY <1>4, <2>1
  <2>4. A \subseteq C /\ B \subseteq D
    BY <1>2, <1>3, <2>1
  <2>5. {own} \X A \subseteq {own} \X C /\ {next} \X B \subseteq {next} \X D
    BY <2>4
  <2> QED BY <2>2, <2>3, <2>5
<1>7. \A i \in 1 .. n : from + i <= end => <<own, from + i>> \in Places(o, n, next)
  BY <1>4, <1>5
<1> QED BY <1>6, <1>7 DEF own, end

\* What a read is directed at outside its buffer is recorded.
LEMMA AstrayOK ==
  ASSUME NEW o, NEW next, GoesAstray(o, next)
  PROVE  /\ stray \subseteq stray'
         /\ \A b \in Live : \A i \in Span(b) :
              (b.kind \in {"string", "filled", "zeroed"}
                 /\ <<b.store, i>> \in Places(o, op[o].length, next) \ Own(op[o].buffer))
              => <<b.id, i>> \in stray'
<1>1. PICK P : P = Places(o, op[o].length, next) \ Own(op[o].buffer)
  OBVIOUS
<1>2. stray' = stray \cup
        UNION {{b.id} \X {i \in Span(b) : <<b.store, i>> \in P} : b \in Intact}
  BY <1>1 DEF GoesAstray
<1>3. \A b \in Live : b.kind \in {"string", "filled", "zeroed"} => b \in Intact
  BY DEF Live, Intact
<1>4. ASSUME NEW b \in Live, NEW i \in Span(b), b.kind \in {"string", "filled", "zeroed"},
             <<b.store, i>> \in P
      PROVE  <<b.id, i>> \in stray'
  <2>1. PICK R : R = {b.id} \X {j \in Span(b) : <<b.store, j>> \in P}
    OBVIOUS
  <2>2. <<b.id, i>> \in R
    BY <1>4, <2>1
  <2>3. R \in {{c.id} \X {j \in Span(c) : <<c.store, j>> \in P} : c \in Intact}
    BY <1>3, <1>4, <2>1
  <2> QED BY <1>2, <2>2, <2>3
<1> QED BY <1>1, <1>2, <1>4

\* readAsync: the bytes go into the buffer of the call, or astray.
LEMMA ReadIOStep ==
  ASSUME FileInv, NEW o \in Ops, NEW available \in Available, NEW next \in Stores,
         ReadIO(o, available, next)
  PROVE  FileInv'
<1>1. PICK L, H, I : L = Live /\ H = stray /\ I = stray'
  OBVIOUS
<1>2. Sound(L, H, Marks) /\ Calls /\ Arrived
  BY <1>1 DEF FileInv
<1> DEFINE n == Min({available, op[o].length})
           b == op[o].buffer
           from == op[o].from
<1>3. /\ Pending(o) /\ Active(o) /\ op[o].call = "read"
      /\ Arrive(o, n, next) /\ GoesAstray(o, next)
      /\ op' = [op EXCEPT ![o].stage = "done", ![o].bytesRead = n]
      /\ UNCHANGED <<buffers, allocPool, poolOffset, zero_fill_toggle>>
  BY DEF ReadIO, Pending, poolVars
<1>4. /\ op[o] \in Call /\ b \in L /\ b.store \in Stores /\ b.kind \in {"raw", "array"}
      /\ Len(bytes[b.store]) \in Nat /\ Span(b) \subseteq 1 .. Len(bytes[b.store])
  BY <1>1, <1>3, ReaderPlaced
<1>5. from \in Nat /\ op[o].length \in Nat /\ n \in 0 .. op[o].length
  <2>1. available \in Nat /\ op[o].length \in Nat /\ from \in Nat
    BY <1>4, OpsAssumption DEF Call
  <2> QED BY <2>1 DEF Min
<1> HIDE DEF n
<1>6. bytes \in [Stores -> Seq(Marks)] /\ L \subseteq Buffer
  BY <1>2 DEF Sound, Shape
<1>7. /\ bytes' \in [Stores -> Seq(Marks)]
      /\ \A s \in Stores :
           /\ Len(bytes'[s]) = Len(bytes[s])
           /\ \A i \in 1 .. Len(bytes[s]) :
                bytes'[s][i] =
                  IF <<s, i>> \in Places(o, n, next) THEN "file" ELSE bytes[s][i]
  BY <1>3, <1>6, ArriveBytes
<1>8. /\ Places(o, n, next) \subseteq Places(o, op[o].length, next)
      /\ \A i \in 1 .. n : from + i <= Len(bytes[b.store]) =>
           <<b.store, from + i>> \in Places(o, n, next)
  BY <1>4, <1>5, PlacesOK
<1>9. /\ H \subseteq I
      /\ \A a \in L : \A i \in Span(a) :
           (a.kind \in {"string", "filled", "zeroed"}
              /\ <<a.store, i>> \in Places(o, op[o].length, next) \ Own(b))
           => <<a.id, i>> \in I
  BY <1>1, <1>3, AstrayOK
<1>10. \A a \in L : /\ a \in Buffer /\ a.store \in Stores
                    /\ Span(a) \subseteq 1 .. Len(bytes[a.store])
  <2> SUFFICES ASSUME NEW a \in L
               PROVE  /\ a \in Buffer /\ a.store \in Stores
                      /\ Span(a) \subseteq 1 .. Len(bytes[a.store])
    OBVIOUS
  <2>1. /\ a \in Buffer /\ a.store \in Stores /\ a.offset \in Nat /\ a.length \in Nat
        /\ a.offset + a.length <= Len(bytes[a.store])
    BY <1>2, <1>6 DEF Sound, Placed, Buffer
  <2>2. Len(bytes[a.store]) \in Nat
    BY <1>6, <2>1
  <2> QED BY <2>1, <2>2 DEF Span
\* The buffer of the read has no place in common with another that keeps its
\* bytes.
<1>11. ASSUME NEW a \in L, a.kind \in {"string", "filled", "zeroed"}, NEW i \in Span(a),
              <<a.id, i>> \notin I
       PROVE  bytes'[a.store][i] = bytes[a.store][i]
  <2>1. <<a.store, i>> \notin Own(b)
    <3> SUFFICES ASSUME <<a.store, i>> \in Own(b) PROVE FALSE
      OBVIOUS
    <3>1. b.kind # "array" /\ a.store = b.store /\ i \in Span(b)
      BY DEF Own
    <3>2. a # b /\ a.kind # "array"
      BY <1>4, <1>11
    <3>3. Span(a) \cap Span(b) = {}
      BY <1>2, <1>4, <3>1, <3>2 DEF Sound, Disjoint
    <3> QED BY <3>1, <3>3
  <2>2. <<a.store, i>> \notin Places(o, op[o].length, next)
    BY <1>9, <1>11, <2>1
  <2>3. <<a.store, i>> \notin Places(o, n, next)
    BY <1>8, <2>2
  <2>4. a.store \in Stores /\ i \in 1 .. Len(bytes[a.store])
    BY <1>10
  <2> QED BY <1>7, <2>3, <2>4
<1>12. Sound(L, I, Marks)'
  <2>1. allocPool \in Stores
    BY <1>2 DEF Sound, Shape
  <2>2. Shape(L, Marks)'
    BY <1>2, <1>3, <1>7, <2>1 DEF Sound, Shape
  <2>3. Placed(L)'
    BY <1>2, <1>7, <1>10 DEF Sound, Placed
  <2>4. OneOwner(L)' /\ Apart(L)' /\ Disjoint(L)'
    BY <1>2, <1>3 DEF Sound, OneOwner, Apart, Disjoint, Span
  <2>5. Kept(L, I)'
    <3> SUFFICES ASSUME NEW a \in L, NEW i \in Span(a), <<a.id, i>> \notin I
                 PROVE  /\ a.kind \in {"string", "filled"} => bytes'[a.store][i] = a.id
                        /\ a.kind = "zeroed" => bytes'[a.store][i] = "zero"
      BY DEF Kept, Span
    <3>1. <<a.id, i>> \notin H
      BY <1>9
    <3>2. /\ a.kind \in {"string", "filled"} => bytes[a.store][i] = a.id
          /\ a.kind = "zeroed" => bytes[a.store][i] = "zero"
      BY <1>2, <3>1 DEF Sound, Kept
    <3> QED BY <1>11, <3>2
  <2> QED BY <2>2, <2>3, <2>4, <2>5 DEF Sound
<1>13. /\ Calls' /\ Live' \subseteq Live
       /\ op'[o].call = "read" /\ op'[o].buffer = b
       /\ op'[o].from = from /\ op'[o].bytesRead = n
       /\ \A p \in Ops : p # o => op'[p] = op[p]
  BY <1>2, <1>3, <1>5, MovesOn
<1>14. Sound(Live, stray, Marks)'
  <2>1. PICK K : K = Live'
    OBVIOUS
  <2>2. K \subseteq L /\ I \subseteq I
    BY <1>1, <1>13, <2>1
  <2>3. Sound(K, I, Marks)'
    BY <1>12, <2>2, SoundPart
  <2> QED BY <1>1, <2>1, <2>3
<1>15. Arrived'
  <2> SUFFICES ASSUME NEW p \in Ops, Done(p)', op'[p].call = "read",
                      op'[p].buffer.kind # "array",
                      NEW i \in 1 .. op'[p].bytesRead,
                      NEW place, place = op'[p].from + i, place \in Span(op'[p].buffer)
               PROVE  bytes'[op'[p].buffer.store][place] = "file"
    BY DEF Arrived, Span
  <2>1. CASE p = o
    <3>1. place \in Span(b) /\ i \in 1 .. n /\ place = from + i
      BY <1>13, <2>1
    <3>2. place \in 1 .. Len(bytes[b.store])
      BY <1>4, <3>1
    <3>3. <<b.store, place>> \in Places(o, n, next)
      BY <1>8, <3>1, <3>2
    <3> QED BY <1>4, <1>7, <1>13, <2>1, <3>2, <3>3
  <2>2. CASE p # o
    <3>1. op'[p] = op[p] /\ Done(p) /\ Active(p)
      BY <1>13, <2>2 DEF Done, Active
    <3>2. PICK c : c = op[p].buffer
      OBVIOUS
    <3>3. bytes[c.store][place] = "file"
      BY <1>2, <3>1, <3>2 DEF Arrived
    <3>4. c.store \in Stores /\ place \in 1 .. Len(bytes[c.store])
      BY <3>1, <3>2, ReaderPlaced
    <3> QED BY <1>7, <3>1, <3>2, <3>3, <3>4
  <2> QED BY <2>1, <2>2
<1> QED BY <1>13, <1>14, <1>15 DEF FileInv

\* writeAsync.
LEMMA WriteIOStep ==
  ASSUME FileInv, NEW o \in Ops, WriteIO(o)
  PROVE  FileInv'
<1>1. PICK L, H : L = Live /\ H = stray
  OBVIOUS
<1>2. Sound(L, H, Marks) /\ Calls /\ Arrived
  BY <1>1 DEF FileInv
<1>3. /\ Pending(o) /\ Active(o) /\ op[o].call = "write"
      /\ op' = [op EXCEPT ![o].stage = "done"]
      /\ UNCHANGED <<buffers, bytes, allocPool, poolOffset, zero_fill_toggle, stray>>
  BY DEF WriteIO, Pending, vars
<1>4. op \in [Ops -> {NoOp} \cup Call] /\ op[o] \in Call
  BY <1>2, <1>3 DEF Calls, Active
<1>5. op[o].bytesRead \in 0 .. op[o].length
  BY <1>2, <1>3, <1>4 DEF Calls, CallOK, Call
<1>6. op' = [op EXCEPT ![o].stage = "done", ![o].bytesRead = op[o].bytesRead]
  BY <1>3, <1>4 DEF Call
<1>7. /\ Calls' /\ Live' \subseteq Live /\ op'[o].call = "write"
      /\ \A p \in Ops : p # o => op'[p] = op[p]
  BY <1>2, <1>3, <1>5, <1>6, MovesOn
<1>8. Sound(Live, stray, Marks)'
  <2>1. zero_fill_toggle' = 1
    BY <1>2, <1>3 DEF Sound, Shape
  <2>2. PICK K, I : K = Live' /\ I = stray'
    OBVIOUS
  <2>3. K \subseteq L /\ H \subseteq I
    BY <1>1, <1>3, <1>7, <2>2
  <2>4. Sound(K, I, Marks)'
    BY <1>2, <1>3, <2>1, <2>3, StillStep
  <2> QED BY <2>2, <2>4
<1>9. Arrived'
  <2>1. \A p \in Ops : Done(p)' /\ op'[p].call = "read" => Done(p) /\ op'[p] = op[p]
    BY <1>7 DEF Done, Active
  <2> QED BY <1>2, <1>3, <2>1, ArrivedStays
<1> QED BY <1>7, <1>8, <1>9 DEF FileInv

\* A name is given up, and the places that were recorded for it.
LEMMA ForgetStep ==
  ASSUME NEW L, NEW H, H = stray, Sound(L, H, Marks),
         NEW id \in Ids, bytes' = Disowned(id), Forget(id),
         NEW M, M \subseteq L, \A b \in M : b.id # id,
         UNCHANGED <<allocPool, poolOffset, zero_fill_toggle>>,
         NEW I, I = stray'
  PROVE  Sound(M, I, Marks)'
<1>1. Sound(M, H, Marks)'
  BY MarksOK, DisownStep
<1>2. ASSUME NEW b \in M, NEW i, <<b.id, i>> \notin I PROVE <<b.id, i>> \notin H
  BY <1>2 DEF Forget
<1> QED BY <1>1, <1>2 DEF Sound, Kept, Span

\* What was read from a file is of no name.
LEMMA DisownArrived ==
  ASSUME FileInv, NEW id \in Ids, bytes' = Disowned(id),
         \A p \in Ops : Done(p)' /\ op'[p].call = "read" =>
           /\ Done(p) /\ op[p].call = "read"
           /\ op'[p].buffer = op[p].buffer /\ op'[p].from = op[p].from
           /\ op'[p].bytesRead = op[p].bytesRead
  PROVE  Arrived'
<1>1. bytes \in [Stores -> Seq(Marks)] /\ Arrived
  BY DEF FileInv, Sound, Shape
<1>2. \A s \in Stores : \A i \in 1 .. Len(bytes[s]) :
        bytes[s][i] # id => bytes'[s][i] = bytes[s][i]
  BY <1>1, MarksOK, DisownedBytes
<1>3. ASSUME NEW p \in Ops, Done(p), op[p].call = "read", NEW i \in Span(op[p].buffer),
             bytes[op[p].buffer.store][i] = "file"
      PROVE  bytes'[op[p].buffer.store][i] = "file"
  <2>1. op[p].buffer.store \in Stores /\ i \in 1 .. Len(bytes[op[p].buffer.store])
    BY <1>3, ReaderPlaced DEF Done
  <2> QED BY <1>2, <1>3, <2>1, MarksOK
<1> QED BY <1>1, <1>3, ArrivedStays

\* The callback ends the call; the name is given up if scripts have dropped
\* the buffer.
LEMMA CallbackStep ==
  ASSUME FileInv, NEW o \in Ops, Callback(o)
  PROVE  FileInv'
<1>1. PICK L, H : L = Live /\ H = stray
  OBVIOUS
<1>2. Sound(L, H, Marks) /\ Calls /\ Arrived
  BY <1>1 DEF FileInv
<1> DEFINE id == op[o].buffer.id
<1>3. /\ Active(o) /\ op' = [op EXCEPT ![o] = NoOp]
      /\ IF Unused(id) THEN bytes' = Disowned(id) /\ Forget(id)
                       ELSE UNCHANGED <<bytes, stray>>
      /\ UNCHANGED <<buffers, allocPool, poolOffset, zero_fill_toggle>>
  BY DEF Callback, Done, poolVars
<1>4. op \in [Ops -> {NoOp} \cup Call] /\ id \in Ids
  BY <1>2, <1>3 DEF Calls, Active, Call, Buffer
<1>5. ~Active(o)' /\ \A p \in Ops : p # o => op'[p] = op[p]
  BY <1>3, <1>4 DEF Active
<1>6. \A p \in Ops : Active(p)' => p # o /\ Active(p) /\ op'[p] = op[p]
  BY <1>5 DEF Active
<1>7. PICK K, I : K = Live' /\ I = stray'
  OBVIOUS
<1>8. K \subseteq L
  BY <1>1, <1>3, <1>5, <1>6, <1>7, LiveShrinks
<1>9. Calls'
  <2>1. op' \in [Ops -> {NoOp} \cup Call]
    BY <1>3, <1>4
  <2>2. ASSUME NEW p \in Ops PROVE CallOK(p)'
    <3>1. CASE p = o
      BY <1>5, <3>1 DEF CallOK
    <3>2. CASE p # o
      BY <1>2, <1>3, <1>5, <3>2, CallKept DEF Calls
    <3> QED BY <3>1, <3>2
  <2>3. ASSUME NEW p \in Ops, NEW q \in Ops, Active(p)', Active(q)'
        PROVE  Shares(p, q)'
    BY <1>2, <1>6, <2>3 DEF Calls, Shares
  <2> QED BY <2>1, <2>2, <2>3 DEF Calls
<1>10. \A p \in Ops : Done(p)' /\ op'[p].call = "read" => Done(p) /\ op'[p] = op[p]
  BY <1>5, <1>6 DEF Done
<1>11. CASE ~Unused(id)
  <2>1. bytes' = bytes /\ I = H /\ zero_fill_toggle' = 1
    BY <1>1, <1>2, <1>3, <1>7, <1>11 DEF Sound, Shape
  <2>2. Sound(K, I, Marks)'
    BY <1>2, <1>3, <1>8, <2>1, StillStep
  <2>3. Arrived'
    BY <1>2, <1>10, <2>1, ArrivedStays
  <2> QED BY <1>7, <1>9, <2>2, <2>3 DEF FileInv
<1>12. CASE Unused(id)
  <2>1. bytes' = Disowned(id) /\ Forget(id)
    BY <1>3, <1>12
  <2>2. \A b \in K : b.id # id
    <3>1. \A b \in buffers : b.id # id
      BY <1>12 DEF Unused
    <3>2. ASSUME NEW p \in Ops, p # o, Active(p) PROVE op[p].buffer.id # id
      <4>1. op[p].call = "read" => op[p].buffer.id # id
        BY <1>2, <3>1, <3>2 DEF Calls, CallOK
      <4> QED BY <1>2, <1>3, <3>2, <4>1 DEF Calls, Shares
    <3> QED BY <1>3, <1>6, <1>7, <3>1, <3>2 DEF Live
  <2>3. Sound(K, I, Marks)'
    BY <1>1, <1>2, <1>3, <1>4, <1>7, <1>8, <2>1, <2>2, ForgetStep
  <2>4. Arrived'
    BY <1>2, <1>4, <1>10, <2>1, DisownArrived
  <2> QED BY <1>7, <1>9, <2>3, <2>4 DEF FileInv
<1> QED BY <1>11, <1>12

\* Scripts create a buffer, under a name that no call uses.
LEMMA CreateStep ==
  ASSUME FileInv, CreateBuffer
  PROVE  FileInv'
<1>1. PICK L, H : L = Live /\ H = stray
  OBVIOUS
<1>2. Sound(L, H, Marks) /\ Calls /\ Arrived
  BY <1>1 DEF FileInv
<1>3. PICK id \in Ids, n \in Lengths :
        /\ Unused(id)
        /\ \A o \in Ops : Active(o) => op[o].buffer.id # id
        /\ \/ Slice(id, n)
           \/ \E s \in Stores : Unallocated(s) /\ Create(id, s, n)
  BY DEF CreateBuffer
<1>4. op' = Hold /\ stray' = stray
  BY DEF CreateBuffer
<1>5. \A b \in L : b.id # id
  BY <1>1, <1>3 DEF Live, Unused
<1>6. Grown(L, H, Marks, id) /\ Untouched(L)
  BY <1>2, <1>3, <1>5, MarksOK, CreateSteps
<1>7. PICK N, M : /\ buffers' = buffers \cup N /\ M = L \cup N
                  /\ \A b \in N : b.id = id
                  /\ Sound(M, H, Marks)'
  BY <1>6 DEF Grown
<1>8. \A b \in buffers' : \A o \in Ops : Serves(o, b) /\ op[o].held => b \in Live
  BY <1>3, <1>7 DEF Live, Serves
<1>9. \A o \in Ops : Active(o) /\ op[o].call = "read" => op[o].buffer \in buffers'
  BY <1>2, <1>7 DEF Calls, CallOK
<1>10. OneOwner(Live)
  BY <1>1, <1>2 DEF Sound
<1>11. /\ Calls' /\ Live' \subseteq buffers' \cup Live
       /\ \A o \in Ops : Done(o)' /\ op'[o].call = "read" =>
            /\ Done(o) /\ op[o].call = "read"
            /\ op'[o].buffer = op[o].buffer /\ op'[o].from = op[o].from
            /\ op'[o].bytesRead = op[o].bytesRead
  BY <1>2, <1>4, <1>8, <1>9, <1>10, HoldOK
<1>12. Sound(Live, stray, Marks)'
  <2>1. PICK K, I : K = Live' /\ I = stray'
    OBVIOUS
  <2>2. K \subseteq M /\ H \subseteq I
    BY <1>1, <1>4, <1>7, <1>11, <2>1 DEF Live
  <2>3. Sound(K, I, Marks)'
    BY <1>7, <2>2, SoundPart
  <2> QED BY <2>1, <2>3
<1>13. Arrived'
  <2>1. ASSUME NEW p \in Ops, Done(p), op[p].call = "read", op[p].buffer.kind # "array",
               NEW i \in Span(op[p].buffer), bytes[op[p].buffer.store][i] = "file"
        PROVE  bytes'[op[p].buffer.store][i] = "file"
    <3>1. op[p].buffer \in L
      BY <1>1, <2>1, ReaderPlaced DEF Done
    <3> QED BY <1>6, <2>1, <3>1 DEF Untouched
  <2> QED BY <1>2, <1>11, <2>1, ArrivedStays
<1> QED BY <1>11, <1>12, <1>13 DEF FileInv

\* Scripts drop a buffer that the callback of no read refers to.
LEMMA DropStep ==
  ASSUME FileInv, NEW d \in buffers, DropBuffer(d)
  PROVE  FileInv'
<1>1. PICK L, H : L = Live /\ H = stray
  OBVIOUS
<1>2. Sound(L, H, Marks) /\ Calls /\ Arrived
  BY <1>1 DEF FileInv
<1> DEFINE served == \E o \in Ops : Serves(o, d)
<1>3. /\ \A o \in Ops : Serves(o, d) => op[o].call = "write"
      /\ op' = Hold
      /\ buffers' = buffers \ {d}
      /\ IF served THEN UNCHANGED <<bytes, stray>>
                   ELSE bytes' = Disowned(d.id) /\ Forget(d.id)
      /\ allocPool' = allocPool /\ poolOffset' = poolOffset
      /\ zero_fill_toggle' = zero_fill_toggle
  BY DEF DropBuffer, Drop, poolVars
<1>4. d \in L /\ d \in Buffer /\ d.id \in Ids
  BY <1>1, <1>2 DEF Live, Sound, Shape, Buffer
<1>5. \A b \in buffers' : \A o \in Ops : Serves(o, b) /\ op[o].held => b \in Live
  BY <1>3 DEF Live
<1>6. \A o \in Ops : Active(o) /\ op[o].call = "read" => op[o].buffer \in buffers'
  BY <1>2, <1>3 DEF Calls, CallOK, Serves
<1>7. OneOwner(Live)
  BY <1>1, <1>2 DEF Sound
<1>8. /\ Calls' /\ Live' \subseteq buffers' \cup Live
      /\ \A o \in Ops : Done(o)' /\ op'[o].call = "read" =>
           /\ Done(o) /\ op[o].call = "read"
           /\ op'[o].buffer = op[o].buffer /\ op'[o].from = op[o].from
           /\ op'[o].bytesRead = op[o].bytesRead
  BY <1>2, <1>3, <1>5, <1>6, <1>7, HoldOK
<1>9. PICK K, I : K = Live' /\ I = stray'
  OBVIOUS
<1>10. K \subseteq L
  BY <1>1, <1>3, <1>8, <1>9 DEF Live
<1>11. CASE served
  <2>1. bytes' = bytes /\ I = H /\ zero_fill_toggle' = 1
    BY <1>1, <1>2, <1>3, <1>9, <1>11 DEF Sound, Shape
  <2>2. Sound(K, I, Marks)'
    BY <1>2, <1>3, <1>10, <2>1, StillStep
  <2>3. Arrived'
    BY <1>2, <1>8, <2>1, ArrivedStays
  <2> QED BY <1>8, <1>9, <2>2, <2>3 DEF FileInv
<1>12. CASE ~served
  <2>1. bytes' = Disowned(d.id) /\ Forget(d.id)
    BY <1>3, <1>12
  <2>2. \A b \in K : b.id # d.id
    <3>1. \A b \in buffers' : b.id # d.id
      BY <1>1, <1>3, <1>4, <1>7 DEF OneOwner, Live
    <3>2. \A o \in Ops : Active(o) => op[o].buffer.id # d.id
      BY <1>12 DEF Serves
    <3>3. \A o \in Ops : Active(o)' => Active(o) /\ op'[o].buffer = op[o].buffer
      <4> SUFFICES ASSUME NEW o \in Ops, Active(o)'
                   PROVE  Active(o) /\ op'[o].buffer = op[o].buffer
        OBVIOUS
      <4>1. Active(o)
        BY <1>3 DEF Hold, Active
      <4>2. op[o] \in Call
        BY <1>2, <4>1 DEF Calls, Active
      <4> QED BY <1>3, <4>1, <4>2 DEF Hold, Call
    <3> QED BY <1>9, <3>1, <3>2, <3>3 DEF Live
  <2>3. Sound(K, I, Marks)'
    BY <1>1, <1>2, <1>3, <1>4, <1>9, <1>10, <2>1, <2>2, ForgetStep
  <2>4. Arrived'
    BY <1>4, <1>8, <2>1, DisownArrived
  <2> QED BY <1>8, <1>9, <2>3, <2>4 DEF FileInv
<1> QED BY <1>11, <1>12

\* The collector frees a store that no buffer has.
LEMMA CollectStoreStep ==
  ASSUME FileInv, NEW s \in Stores, CollectStore(s)
  PROVE  FileInv'
<1>1. PICK L, H : L = Live /\ H = stray
  OBVIOUS
<1>2. Sound(L, H, Marks) /\ Calls /\ Arrived
  BY <1>1 DEF FileInv
<1>3. /\ Collect(s) /\ stray' = H /\ op' = op /\ buffers' = buffers
      /\ allocPool' = allocPool /\ s # allocPool
      /\ \A b \in buffers : b.store # s
      /\ bytes' = [bytes EXCEPT ![s] = <<>>]
  BY <1>1 DEF CollectStore, Collect
<1>4. \A b \in L : b.store # s
  BY <1>1, <1>2, <1>3 DEF Live, Calls, CallOK
<1>5. Sound(L, H, Marks)'
  BY <1>2, <1>3, <1>4, CollectStep
<1>6. PICK K, I : K = Live' /\ I = stray'
  OBVIOUS
<1>7. K = L /\ I = H
  BY <1>1, <1>3, <1>6 DEF Live, Active
<1>8. Calls'
  <2>1. ASSUME NEW o \in Ops PROVE CallOK(o)'
    <3> SUFFICES ASSUME Active(o) PROVE CallOK(o)'
      BY <1>3 DEF CallOK, Active
    <3>1. CallOK(o)
      BY <1>2 DEF Calls
    <3> QED BY <1>1, <1>3, <3>1 DEF CallOK, Active
  <2>2. op \in [Ops -> {NoOp} \cup Call]
    BY <1>2 DEF Calls
  <2>3. \A o, p \in Ops : (Active(o) /\ Active(p))' => Shares(o, p)'
    BY <1>2, <1>3 DEF Calls, Active, Shares
  <2> QED BY <1>3, <2>1, <2>2, <2>3 DEF Calls
<1>9. Arrived'
  <2>1. ASSUME NEW p \in Ops, Done(p), op[p].call = "read"
        PROVE  bytes'[op[p].buffer.store] = bytes[op[p].buffer.store]
    <3>1. op[p].buffer \in buffers /\ op[p].buffer.store \in Stores
      BY <2>1, ReaderPlaced DEF Done
    <3>2. bytes \in [Stores -> Seq(Marks)]
      BY <1>2 DEF Sound, Shape
    <3> QED BY <1>3, <3>1, <3>2
  <2>2. \A p \in Ops : Done(p)' => Done(p)
    BY <1>3 DEF Done, Active
  <2> QED BY <1>2, <1>3, <2>1, <2>2, ArrivedStays
<1> QED BY <1>5, <1>6, <1>7, <1>8, <1>9 DEF FileInv

\* A step that changes at most the counter of the allocator.
LEMMA RestStep ==
  ASSUME FileInv, UNCHANGED <<bytes, buffers, allocPool, poolOffset, op, stray>>,
         zero_fill_toggle' = 1
  PROVE  FileInv'
<1>1. PICK L, H : L = Live /\ H = stray
  OBVIOUS
<1>2. Sound(L, H, Marks) /\ Calls /\ Arrived
  BY <1>1 DEF FileInv
<1>3. Sound(L, H, Marks)'
  BY <1>2, StillStep
<1>4. PICK K, I : K = Live' /\ I = stray'
  OBVIOUS
<1>5. K = L /\ I = H
  BY <1>1, <1>4 DEF Live, Active
<1>6. Calls' /\ Arrived'
  BY <1>2 DEF Calls, CallOK, Active, Shares, Arrived, Done, Span
<1> QED BY <1>3, <1>4, <1>5, <1>6 DEF FileInv

LEMMA NextFiles == FileInv /\ [FileNext]_fileVars => FileInv'
<1> SUFFICES ASSUME FileInv, [FileNext]_fileVars PROVE FileInv'
  OBVIOUS
<1>1. zero_fill_toggle = 1
  BY DEF FileInv, Sound, Shape
<1>2. ASSUME NEW o \in Ops,
             \/ \E b \in buffers : WriteFileAsync(o, b)
             \/ \E b \in buffers, offset \in Offsets :
                  \E length \in Asked \cup {b.length} :
                    ReadFileAsync(o, b, offset, length)
             \/ \E n \in Available, next \in Stores : ReadIO(o, n, next)
             \/ WriteIO(o)
             \/ Callback(o)
      PROVE  FileInv'
  BY <1>2, WriteFileStep, ReadFileStep, ReadIOStep, WriteIOStep, CallbackStep
<1>3. CASE CreateBuffer
  BY <1>3, CreateStep
<1>4. CASE UnsafeFails /\ UNCHANGED <<op, stray>>
  BY <1>4, RestStep DEF UnsafeFails, AfterUnsafe
<1>5. CASE \E b \in buffers : DropBuffer(b)
  BY <1>5, DropStep
<1>6. CASE \E s \in Stores : CollectStore(s)
  BY <1>6, CollectStoreStep
<1>7. CASE UNCHANGED fileVars
  BY <1>1, <1>7, RestStep DEF fileVars, vars
<1> QED BY <1>2, <1>3, <1>4, <1>5, <1>6, <1>7 DEF FileNext

LEMMA FileInvariant == FileSpec => []FileInv
BY InitFiles, NextFiles, PTL DEF FileSpec

\* Whatever is created, dropped and collected before the worker of a read
\* writes, the bytes that strings, fill values and zeros lose are those that a
\* read of another buffer was directed at: by its offset, its length, or a
\* missing byteOffset (App.js 286, 376-379, FileSystem.cpp 17, 46).
THEOREM ReadsSpare == FileSpec => []ReadsSpareStrings
<1>1. FileInv => ReadsSpareStrings
  BY DEF FileInv, Sound, Kept, Live, ReadsSpareStrings
<1> QED BY <1>1, FileInvariant, PTL

\* When the callback of a read is due, its buffer still has its memory, and
\* what was read and asked for within the buffer is in it, whatever other
\* reads, also of the same buffer, have done (App.js 359-385,
\* FileSystem.cpp 6-65).
THEOREM ReadsArrive == FileSpec => []ReadArrives
<1>1. FileInv => ReadArrives
  <2> SUFFICES ASSUME FileInv, NEW o \in Ops, Done(o), op[o].call = "read",
                      NEW b, b = op[o].buffer, b.kind # "array", b.offset = 0,
                      NEW i \in 1 .. op[o].bytesRead,
                      NEW place, place = op[o].from + i, place <= b.length
               PROVE  /\ place \in DOMAIN bytes[b.store]
                      /\ bytes[b.store][place] = "file"
    BY DEF ReadArrives
  <2>1. /\ op[o] \in Call /\ b \in Buffer /\ b.store \in Stores
        /\ Span(b) \subseteq 1 .. Len(bytes[b.store])
    BY ReaderPlaced DEF Done
  <2>2. place \in Span(b)
    BY <2>1 DEF Call, Buffer, Span
  <2>3. bytes[b.store] \in Seq(Marks)
    BY <2>1 DEF FileInv, Sound, Shape
  <2>4. place \in DOMAIN bytes[b.store]
    BY <2>1, <2>2, <2>3
  <2> QED BY <2>2, <2>4 DEF FileInv, Arrived
<1> QED BY <1>1, FileInvariant, PTL

\* A write hands the bytes of its string to the file although nothing refers
\* to the buffer, provided that the buffer or the pool still holds the memory,
\* but for those that a read was directed at from another buffer
\* (FileSystem.cpp 127-139, App.js 386-407).
THEOREM WritesAreIntact == FileSpec => WritesIntact
<1> DEFINE A == \A o \in Ops : WriteIO(o) =>
             LET b == op[o].buffer
             IN  (b.kind = "string" /\ b.offset = 0 /\ op[o].held) =>
                   /\ DOMAIN Output(o) = 1 .. b.length
                   /\ \A i \in 1 .. b.length :
                        <<b.id, i>> \notin stray => Output(o)[i] = b.id
<1>1. FileInv => A
  <2> SUFFICES ASSUME FileInv, NEW o \in Ops, WriteIO(o), NEW b, b = op[o].buffer,
                      b.kind = "string", b.offset = 0, op[o].held
               PROVE  /\ DOMAIN Output(o) = 1 .. b.length
                      /\ \A i \in 1 .. b.length :
                           <<b.id, i>> \notin stray => Output(o)[i] = b.id
    OBVIOUS
  <2>1. Active(o) /\ op[o].call = "write"
    BY DEF WriteIO, Pending
  <2>2. op[o] \in Call /\ op[o].from = 0 /\ op[o].length = b.length
    BY <2>1 DEF FileInv, Calls, CallOK, Active, Call, Buffer
  <2>3. b \in Live /\ b \in Buffer
    BY <2>1, <2>2 DEF Live, Call
  <2>4. /\ b.length \in Nat /\ b.length <= Len(bytes[b.store])
        /\ \A i \in Span(b) : <<b.id, i>> \notin stray => bytes[b.store][i] = b.id
        /\ bytes[b.store] \in Seq(Marks)
    BY <2>3 DEF FileInv, Sound, Shape, Placed, Kept, Buffer
  <2>5. ASSUME NEW i \in 1 .. b.length
        PROVE  /\ 0 + i \in DOMAIN bytes[b.store]
               /\ <<b.id, i>> \notin stray => bytes[b.store][0 + i] = b.id
    BY <2>4 DEF Span
  <2>6. DOMAIN Output(o) = 1 .. b.length
    BY <2>2 DEF Output
  <2>7. \A i \in 1 .. b.length :
          Output(o)[i] = IF 0 + i \in DOMAIN bytes[b.store]
                         THEN bytes[b.store][0 + i] ELSE "junk"
    BY <2>2 DEF Output
  <2> QED BY <2>5, <2>6, <2>7
<1>2. FileInv /\ [FileNext]_fileVars => [A]_fileVars
  BY <1>1
<1>3. FileSpec => [][A]_fileVars
  <2> HIDE DEF A
  <2> QED BY <1>2, FileInvariant, PTL DEF FileSpec
<1> QED BY <1>3, PTL DEF WritesIntact
=============================================================================
