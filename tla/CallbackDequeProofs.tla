------------------------- MODULE CallbackDequeProofs -------------------------
(***************************************************************************)
(* The deque implements JobQueue as long as there is no overlap, and an    *)
(* overlap takes a backlog, proved for any sizes of blocks and of the map. *)
(***************************************************************************)
EXTENDS CallbackDeque, SequenceTheorems, FiniteSetTheorems, TLAPS

-----------------------------------------------------------------------------
(* Elements are counted through the blocks.                                *)

LEMMA Product ==
  ASSUME NEW n \in Nat, NEW a \in Nat, NEW b \in Nat, a < b
  PROVE  n * a + n <= n * b
<1>1. PICK d \in Nat : b = a + 1 + d
  <2>1. b - a - 1 \in Nat /\ b = a + 1 + (b - a - 1)
    OBVIOUS
  <2> QED BY <2>1
<1>2. n * b = n * a + n + n * d
  BY <1>1
<1>3. n * d \in Nat /\ n * a \in Nat
  OBVIOUS
<1> QED BY <1>2, <1>3

\* The element r of the block q (from 0).
LEMMA Position ==
  ASSUME NEW q \in Nat, NEW r \in Indices
  PROVE  /\ (NodeSize * q + r) \div NodeSize = q
         /\ (NodeSize * q + r) % NodeSize = r
         /\ NodeSize * q + r \in Nat
<1>1. PICK n \in Nat \ {0} : n = NodeSize
  BY SizeAssumption
<1>2. r \in 0 .. n - 1
  BY <1>1 DEF Indices
<1>3. PICK k \in Nat : k = n * q + r
  BY <1>2
<1>4. PICK p \in Nat, s \in 0 .. n - 1 :
        p = k \div n /\ s = k % n /\ k = n * p + s
  OBVIOUS
<1>5. p = q
  <2>0. n * p \in Nat /\ n * q \in Nat
    OBVIOUS
  <2>1. n * p \in Nat /\ n * q \in Nat /\ n * p + s = n * q + r
    BY <2>0, <1>3, <1>4
  <2>2. ~(p < q)
    <3> SUFFICES ASSUME p < q PROVE FALSE
      OBVIOUS
    <3>1. n * p + n <= n * q
      BY Product
    <3> QED BY <2>1, <3>1, <1>2
  <2>3. ~(q < p)
    <3> SUFFICES ASSUME q < p PROVE FALSE
      OBVIOUS
    <3>1. n * q + n <= n * p
      BY Product
    <3> QED BY <2>1, <3>1, <1>2
  <2> QED BY <2>2, <2>3
<1>6. s = r
  BY <1>2, <1>3, <1>4, <1>5
<1> QED BY <1>1, <1>3, <1>4, <1>5, <1>6

\* Where an element is that lies before the element i of the block b (from 1).
LEMMA Before ==
  ASSUME NEW b \in Nat \ {0}, NEW i \in Indices, NEW k \in Nat,
         k < NodeSize * (b - 1) + i
  PROVE  /\ k \div NodeSize + 1 \in 1 .. b
         /\ k % NodeSize \in Indices
         /\ k \div NodeSize + 1 = b => k % NodeSize < i
<1>1. PICK n \in Nat \ {0} : n = NodeSize
  BY SizeAssumption
<1>2. i \in 0 .. n - 1
  BY <1>1 DEF Indices
<1>3. PICK p \in Nat, s \in 0 .. n - 1 :
        p = k \div n /\ s = k % n /\ k = n * p + s
  OBVIOUS
<1>4. PICK c \in Nat : c = b - 1
  OBVIOUS
<1>5. n * p \in Nat /\ n * c \in Nat /\ n * p + s < n * c + i
  BY <1>1, <1>3, <1>4
<1>6. p <= c
  <2> SUFFICES ASSUME c < p PROVE FALSE
    OBVIOUS
  <2>1. n * c + n <= n * p
    BY Product
  <2> QED BY <1>2, <1>5, <2>1
<1>7. ASSUME p = c PROVE s < i
  <2>1. n * p = n * c
    BY <1>7
  <2> QED BY <1>2, <1>5, <2>1
<1> QED BY <1>1, <1>3, <1>4, <1>6, <1>7 DEF Indices

\* One block further.
LEMMA NextBlock ==
  ASSUME NEW k \in Nat
  PROVE  /\ (k + NodeSize) \div NodeSize = k \div NodeSize + 1
         /\ (k + NodeSize) % NodeSize = k % NodeSize
<1>1. PICK n \in Nat \ {0} : n = NodeSize
  BY SizeAssumption
<1>2. PICK p \in Nat, s \in 0 .. n - 1 :
        p = k \div n /\ s = k % n /\ k = n * p + s
  OBVIOUS
<1>3. n * (p + 1) + s = k + n
  BY <1>2
<1>4. (n * (p + 1) + s) \div n = p + 1 /\ (n * (p + 1) + s) % n = s
  BY <1>1, Position DEF Indices
<1> QED BY <1>1, <1>2, <1>3, <1>4

-----------------------------------------------------------------------------
(* Parts of the blocks as sequences.                                       *)

Element(m, c, k) == m[c[k \div NodeSize + 1]][k % NodeSize]

\* The elements from `from' (from 0) to the one in front of `upto'.
Elements(m, c, from, upto) ==
  [i \in 1 .. upto - from |-> Element(m, c, from + i - 1)]

LEMMA ElementsAre ==
  ASSUME NEW m, NEW c, NEW from \in Nat, NEW upto \in Nat, from <= upto, NEW S,
         \A k \in from .. upto - 1 : Element(m, c, k) \in S
  PROVE  /\ Elements(m, c, from, upto) \in Seq(S)
         /\ Len(Elements(m, c, from, upto)) = upto - from
<1>1. PICK n \in Nat : n = upto - from
  OBVIOUS
<1>2. \A i \in 1 .. n : from + i - 1 \in from .. upto - 1
  BY <1>1
<1>3. Elements(m, c, from, upto) = [i \in 1 .. n |-> Element(m, c, from + i - 1)]
  BY <1>1 DEF Elements
<1>4. \A i \in 1 .. n : Element(m, c, from + i - 1) \in S
  BY <1>2
<1> QED BY <1>1, <1>3, <1>4

LEMMA ElementsLen ==
  ASSUME NEW m, NEW c, NEW from \in Nat, NEW upto \in Nat, from <= upto
  PROVE  Len(Elements(m, c, from, upto)) = upto - from
<1>1. PICK n \in Nat : n = upto - from
  OBVIOUS
<1> QED BY <1>1 DEF Elements

\* Two lists of blocks agree in the elements before the element i of the
\* block b.
Agree(m, c, n, d, b, i) ==
  \A p \in 1 .. b : \A r \in Indices : p # b \/ r < i => m[c[p]][r] = n[d[p]][r]

\* They depend on nothing else.
LEMMA SameElements ==
  ASSUME NEW m, NEW c, NEW n, NEW d, NEW from \in Nat, NEW upto \in Nat,
         NEW b \in Nat \ {0}, NEW i \in Indices, upto = NodeSize * (b - 1) + i,
         Agree(m, c, n, d, b, i)
  PROVE  Elements(m, c, from, upto) = Elements(n, d, from, upto)
<1>1. ASSUME NEW k \in 1 .. upto - from
      PROVE  Element(m, c, from + k - 1) = Element(n, d, from + k - 1)
  <2>1. PICK l \in Nat : l = from + k - 1 /\ l < upto
    OBVIOUS
  <2>2. PICK p \in 1 .. b : p = l \div NodeSize + 1
    BY <2>1, Before
  <2>3. PICK r \in Indices : r = l % NodeSize
    BY <2>1, Before
  <2>4. p # b \/ r < i
    BY <2>1, <2>2, <2>3, Before
  <2> QED BY <2>1, <2>2, <2>3, <2>4 DEF Element, Agree
<1> QED BY <1>1 DEF Elements

LEMMA SeqAlso ==
  ASSUME NEW S, NEW T, NEW q \in Seq(S), \A a \in 1 .. Len(q) : q[a] \in T
  PROVE  q \in Seq(T)
<1>1. q \in [1 .. Len(q) -> T] /\ Len(q) \in Nat
  OBVIOUS
<1> QED BY <1>1

LEMMA TailElements ==
  ASSUME NEW S, NEW s \in Seq(S), NEW n \in Nat, Len(s) = n + 1
  PROVE  /\ s # <<>> /\ Head(s) = s[1] /\ Tail(s) \in Seq(S) /\ Len(Tail(s)) = n
         /\ \A i \in 1 .. n : Tail(s)[i] = s[i + 1]
<1>1. s # <<>> /\ Head(s) = s[1]
  OBVIOUS
<1>2. /\ Tail(s) \in Seq(S) /\ Len(Tail(s)) = Len(s) - 1
      /\ \A i \in 1 .. Len(Tail(s)) : Tail(s)[i] = s[i + 1]
  BY <1>1, HeadTailProperties
<1>3. Len(Tail(s)) = n
  BY <1>2
<1> QED BY <1>1, <1>2, <1>3

Rest(s) == Tail(s)

\* The first one is dropped, ...
LEMMA DropElement ==
  ASSUME NEW m, NEW c, NEW from \in Nat, NEW next \in Nat, NEW upto \in Nat,
         next = from + 1, from < upto
  PROVE  Elements(m, c, next, upto) = Rest(Elements(m, c, from, upto))
<1>0. PICK S : S = {Element(m, c, k) : k \in from .. upto - 1}
  OBVIOUS
<1>1. PICK n \in Nat : n + 1 = upto - from /\ n = upto - (from + 1)
  <2>1. upto - from - 1 \in Nat
    OBVIOUS
  <2> QED BY <2>1
<1>2. PICK s \in Seq(S) : s = Elements(m, c, from, upto)
  <2>1. \A k \in from .. upto - 1 : Element(m, c, k) \in S
    BY <1>0
  <2>2. Elements(m, c, from, upto) \in Seq(S)
    BY <2>1, ElementsAre
  <2> QED BY <2>2
<1>3. s = [i \in 1 .. n + 1 |-> Element(m, c, from + i - 1)] /\ Len(s) = n + 1
  BY <1>1, <1>2 DEF Elements
<1>4. PICK t \in Seq(S) :
        t = Tail(s) /\ Len(t) = n /\ \A i \in 1 .. n : t[i] = s[i + 1]
  <2>1. Len(s) = n + 1
    BY <1>3
  <2>2. /\ Tail(s) \in Seq(S) /\ Len(Tail(s)) = n
        /\ \A i \in 1 .. n : Tail(s)[i] = s[i + 1]
    BY <2>1, TailElements
  <2> QED BY <2>2
<1>5. PICK r : r = [i \in 1 .. n |-> Element(m, c, from + 1 + i - 1)]
  OBVIOUS
<1>6. ASSUME NEW i \in 1 .. n
      PROVE  r[i] = t[i] /\ t[i] \in S
  <2>1. i + 1 \in 1 .. n + 1 /\ from + (i + 1) - 1 = from + 1 + i - 1
    OBVIOUS
  <2>2. s[i + 1] = Element(m, c, from + (i + 1) - 1)
    BY <1>3, <2>1
  <2> QED BY <1>4, <1>5, <2>1, <2>2
<1>7. r \in Seq(S) /\ Len(r) = n
  <2>1. \A i \in 1 .. n : r[i] \in S
    BY <1>6
  <2>2. r \in [1 .. n -> S]
    BY <1>5, <2>1
  <2> QED BY <2>2
<1>8. r = t
  BY <1>4, <1>6, <1>7, SeqEqual
<1>9. Elements(m, c, next, upto) = r
  BY <1>1, <1>5 DEF Elements
<1> QED BY <1>2, <1>4, <1>8, <1>9 DEF Rest

\* The blocks without the first one.
Shifted(m, c, n, d, b) ==
  \A p \in 2 .. b : \A r \in Indices : n[d[p - 1]][r] = m[c[p]][r]

\* ... with it, if it was the last of its block, the block, ...
LEMMA DropBlock ==
  ASSUME NEW m, NEW c, NEW n, NEW d, NEW from, NEW upto \in Nat, NEW rest,
         from = NodeSize - 1, rest = upto - NodeSize,
         NEW b \in Nat \ {0, 1}, NEW i \in Indices,
         NEW e, e = b - 1, upto = NodeSize * e + i, Shifted(m, c, n, d, b)
  PROVE  Elements(n, d, 0, rest) = Tail(Elements(m, c, from, upto))
<1>1. PICK z \in Nat \ {0} : z = NodeSize
  BY SizeAssumption
<1>2. PICK a \in Nat : a = b - 1 - 1
  OBVIOUS
<1>3. z * a \in Nat /\ z * (b - 1) = z * a + z /\ i \in Nat
  BY <1>1, <1>2 DEF Indices
<1>4. PICK u \in Nat : u = upto - z /\ u = z * a + i
  BY <1>1, <1>3
<1>5. Tail(Elements(m, c, NodeSize - 1, upto)) = Elements(m, c, NodeSize, upto)
  <2>1. PICK y \in Nat : y = z - 1 /\ y + 1 = z /\ y < upto
    <3>1. z - 1 \in Nat /\ z - 1 + 1 = z /\ z - 1 < upto
      BY <1>4
    <3> QED BY <3>1
  <2>2. Elements(m, c, z, upto) = Rest(Elements(m, c, y, upto))
    BY <2>1, DropElement
  <2> QED BY <1>1, <2>1, <2>2 DEF Rest
<1>6. ASSUME NEW k \in 1 .. u
      PROVE  Element(m, c, z + k - 1) = Element(n, d, 0 + k - 1)
  <2>1. PICK l \in Nat : l = 0 + k - 1 /\ l < u /\ z + k - 1 = l + z
    OBVIOUS
  <2>2. /\ l \div z + 1 \in 1 .. b - 1 /\ l % z \in Indices
    <3>1. b - 1 \in Nat \ {0} /\ l < NodeSize * (b - 1 - 1) + i
      BY <1>1, <1>2, <1>4, <2>1
    <3> QED BY <1>1, <3>1, Before
  <2>3. PICK p \in 2 .. b : p = l \div z + 1 + 1
    BY <2>2
  <2>4. (l + z) \div z = l \div z + 1 /\ (l + z) % z = l % z
    BY <1>1, NextBlock
  <2>5. n[d[p - 1]][l % z] = m[c[p]][l % z] /\ p - 1 = l \div z + 1
    BY <2>2, <2>3 DEF Shifted
  <2> QED BY <1>1, <2>1, <2>3, <2>4, <2>5 DEF Element
<1>7. Elements(m, c, z, upto) = Elements(n, d, 0, u)
  <2>1. upto - z = u /\ u - 0 = u
    BY <1>4
  <2> QED BY <1>6, <2>1 DEF Elements
<1> QED BY <1>1, <1>2, <1>4, <1>5, <1>7

\* ... and another one appended.
LEMMA AppendElement ==
  ASSUME NEW m, NEW c, NEW from \in Nat, NEW upto \in Nat, from <= upto, NEW S,
         Elements(m, c, from, upto) \in Seq(S)
  PROVE  Elements(m, c, from, upto + 1)
           = Append(Elements(m, c, from, upto), Element(m, c, upto))
<1>1. PICK n \in Nat : n = upto - from /\ upto + 1 - from = n + 1
                     /\ from + (n + 1) - 1 = upto
  OBVIOUS
<1>2. PICK s \in Seq(S) : s = Elements(m, c, from, upto)
  OBVIOUS
<1>3. s = [i \in 1 .. n |-> Element(m, c, from + i - 1)] /\ Len(s) = n
  BY <1>1, <1>2 DEF Elements
<1>4. PICK e : e = Element(m, c, upto)
  OBVIOUS
<1>5. Append(s, e) = [i \in 1 .. n + 1 |-> IF i = n + 1 THEN e ELSE s[i]]
  BY <1>3
<1>6. \A i \in 1 .. n + 1 : (IF i = n + 1 THEN e ELSE s[i])
                               = Element(m, c, from + i - 1)
  BY <1>1, <1>3, <1>4
<1>7. Elements(m, c, from, upto + 1)
        = [i \in 1 .. n + 1 |-> Element(m, c, from + i - 1)]
  BY <1>1 DEF Elements
<1> QED BY <1>2, <1>4, <1>5, <1>6, <1>7

-----------------------------------------------------------------------------
(* The invariant.                                                          *)

Pointer == [node : Nodes, index : Indices]
Iterator == [slot : Nat, first : Nodes, cur : Pointer]

Distinct(s) == \A a, b \in 1 .. Len(s) : s[a] = s[b] => a = b

DequeTypes ==
  /\ \E size \in Nat : DOMAIN map = 0 .. size - 1
  /\ memory \in [Nodes -> [Indices -> Jobs \cup {NoJob}]]
  /\ start \in Iterator /\ finish \in Iterator
  /\ chain \in Seq(Nodes) /\ Distinct(chain)
  /\ pushing \in Jobs \cup {NoJob}
  /\ step \in {"none", "enter", "copy", "link", "construct", "advance", "turn",
               "first"}
  /\ live \subseteq Jobs /\ IsFiniteSet(live)
  /\ pc \in {"away", "build", "test", "front", "run", "advance", "free", "turn",
             "first"}
  /\ current \in Jobs \cup {NoJob}

AtEnd == finish.cur.index = NodeSize - 1

\* A push has linked a block behind the one where finish is.
Ahead == step \in {"turn", "first"} \/ (step = "construct" /\ AtEnd)

\* The blocks of finish, by its element and by its slot.
EndBlock == IF Ahead THEN Len(chain) - 1 ELSE Len(chain)
FinishBlock == IF Ahead /\ step # "first" THEN Len(chain) - 1 ELSE Len(chain)

\* The slot of the first block, and the place of start and finish.
Base == IF pc = "turn" THEN start.slot + 1 ELSE start.slot
From == IF pc \in {"turn", "first"} THEN 0 ELSE start.cur.index
Upto == NodeSize * (EndBlock - 1) + finish.cur.index

Mapped ==
  \A i \in 1 .. Len(chain) : Base + i - 1 \in Slots /\ map[Base + i - 1] = chain[i]

StartOK ==
  /\ pc # "turn" => start.first = chain[1]
  /\ pc \notin {"turn", "first"} => start.cur.node = chain[1]
  /\ pc = "free" => start.cur.index = NodeSize - 1
  /\ pc = "advance" => start.cur.index # NodeSize - 1

FinishOK ==
  /\ EndBlock \in 1 .. Len(chain) /\ finish.cur.node = chain[EndBlock]
  /\ FinishBlock \in 1 .. Len(chain) /\ finish.first = chain[FinishBlock]
  /\ finish.slot = Base + FinishBlock - 1
  /\ step \in {"copy", "link", "turn", "first"} => AtEnd
  /\ step = "advance" => ~AtEnd
  /\ step = "link" => finish.slot + 1 \in Slots
  /\ step \in {"advance", "turn", "first"} => At(finish.cur) = pushing

\* start is not behind finish, and before it when the loop thread takes one.
InOrder == From <= Upto /\ (pc \in {"front", "run", "advance", "free"} => From < Upto)

Structure == DequeTypes /\ Mapped /\ StartOK /\ FinishOK /\ InOrder

\* The jobs in the queue are different ones and exist, as do the one that is
\* being pushed and the one that is being dropped.
JobsOK ==
  /\ Contents \in Seq(live \ {pushing}) /\ Distinct(Contents)
  /\ pushing = NoJob <=> step = "none"
  /\ pushing # NoJob => pushing \in live
  /\ pc = "build" => step # "none"
  /\ pc \in {"run", "advance", "free"} => current = Head(Contents)
  /\ pc \in {"turn", "first"} =>
       /\ current \in live \ {pushing}
       /\ \A a \in 1 .. Len(Contents) : Contents[a] # current

DequeInv == Structure /\ JobsOK

LEMMA BlockChosen ==
  ASSUME NEW c \in Seq(Nodes), Distinct(c), NEW b \in 1 .. Len(c)
  PROVE  (CHOOSE a \in DOMAIN c : c[a] = c[b]) = b
BY DEF Distinct

ContentsWhere ==
  /\ Contents = Elements(memory, chain, From, Upto)
  /\ From \in Nat /\ Upto \in Nat

LEMMA ContentsAre == Structure => ContentsWhere
<1> SUFFICES ASSUME Structure PROVE ContentsWhere
  OBVIOUS
<1>1. (CHOOSE a \in DOMAIN chain : chain[a] = finish.cur.node) = EndBlock
  BY BlockChosen DEF Structure, DequeTypes, FinishOK
<1>2. Contents = Elements(memory, chain, From, Upto)
  BY <1>1 DEF Contents, Elements, Element, From, Upto
<1>3. From \in Nat
  BY SizeAssumption
  DEF Structure, DequeTypes, Iterator, Pointer, Indices, From
<1>4. Upto \in Nat
  <2>1. EndBlock - 1 \in Nat /\ finish.cur.index \in Indices
    BY DEF Structure, DequeTypes, Iterator, Pointer, FinishOK
  <2> QED BY <2>1, Position DEF Upto
<1> QED BY <1>2, <1>3, <1>4 DEF ContentsWhere

LEMMA ContentsAreNext == Structure' => ContentsWhere'
BY ContentsAre, PTL

-----------------------------------------------------------------------------
(* The steps of a push.                                                    *)

\* Nothing that the users of the queue see has changed.
Still == Contents' = Contents /\ Found' = Found

LEMMA DequeInit == Init => DequeInv /\ Contents = <<>> /\ Found = <<>>
<1> SUFFICES ASSUME Init PROVE DequeInv /\ Contents = <<>> /\ Found = <<>>
  OBVIOUS
<1>1. PICK n \in Nodes, middle \in Nat :
        /\ middle = (MapSize - 1) \div 2 /\ middle <= MapSize - 1
        /\ map = [s \in 0 .. MapSize - 1 |-> IF s = middle THEN n ELSE NoJob]
        /\ memory = [m \in Nodes |-> Uninitialized]
        /\ start = [slot |-> middle, first |-> n,
                    cur |-> [node |-> n, index |-> 0]]
        /\ finish = start /\ chain = <<n>> /\ pushing = NoJob
        /\ step = "none" /\ live = {} /\ pc = "test" /\ current = NoJob
  <2>1. (MapSize - 1) \div 2 \in Nat /\ (MapSize - 1) \div 2 <= MapSize - 1
    BY SizeAssumption
  <2> QED BY <2>1 DEF Init
<1>2. 0 \in Indices
  BY SizeAssumption DEF Indices
<1>3. DequeTypes
  <2>1. MapSize \in Nat /\ DOMAIN map = 0 .. MapSize - 1
    BY <1>1, SizeAssumption
  <2>2. memory \in [Nodes -> [Indices -> Jobs \cup {NoJob}]]
    BY <1>1 DEF Uninitialized
  <2>3. start \in Iterator /\ finish \in Iterator
    BY <1>1, <1>2 DEF Iterator, Pointer
  <2>4. IsFiniteSet(live)
    BY <1>1, FS_EmptySet
  <2> QED BY <1>1, <2>1, <2>2, <2>3, <2>4 DEF DequeTypes, Distinct
<1>4. EndBlock = 1 /\ FinishBlock = 1 /\ Len(chain) = 1 /\ chain[1] = n
  BY <1>1 DEF EndBlock, FinishBlock, Ahead
<1>5. Mapped /\ StartOK /\ FinishOK
  BY <1>1, <1>4 DEF Mapped, StartOK, FinishOK, Base, Slots
<1>6. From = 0 /\ Upto = 0
  <2>1. NodeSize * (1 - 1) = 0
    BY SizeAssumption
  <2> QED BY <1>1, <1>4, <2>1 DEF From, Upto
<1>7. Structure
  BY <1>1, <1>3, <1>5, <1>6 DEF Structure, InOrder
<1>8. Contents = <<>>
  BY <1>6, <1>7, ContentsAre DEF Elements, ContentsWhere
<1>9. Found = <<>>
  BY <1>1 DEF Found
<1>10. JobsOK
  BY <1>1, <1>8 DEF JobsOK, Distinct
<1> QED BY <1>7, <1>8, <1>9, <1>10 DEF DequeInv

\* A thread takes the mutex.
LEMMA EnterStep ==
  ASSUME DequeInv, NEW j \in Jobs, PushFromThread(j) \/ PushFromLoop(j)
  PROVE  DequeInv' /\ Still
<1>1. /\ pushing = NoJob /\ step = "none" /\ j \notin live
      /\ live' = live \cup {j} /\ pushing' = j /\ step' = "enter"
      /\ UNCHANGED <<map, memory, start, finish, chain, current>>
      /\ (pc' = pc \/ (pc = "away" /\ pc' = "build"))
  <2>1. EnterPush(j) /\ (pc' = pc \/ (pc = "away" /\ pc' = "build"))
    BY DEF PushFromThread, PushFromLoop
  <2>2. step = "none"
    BY <2>1 DEF EnterPush, DequeInv, JobsOK
  <2> QED BY <2>1, <2>2 DEF EnterPush
<1>2. /\ Ahead = FALSE /\ Ahead' = FALSE /\ Base' = Base /\ From' = From
      /\ EndBlock' = EndBlock /\ FinishBlock' = FinishBlock /\ Upto' = Upto
  BY <1>1 DEF Ahead, Base, From, EndBlock, FinishBlock, Upto
<1>3. DequeTypes'
  <2>1. IsFiniteSet(live \cup {j})
    BY FS_AddElement DEF DequeInv, Structure, DequeTypes
  <2> QED BY <1>1, <2>1 DEF DequeInv, Structure, DequeTypes
<1>4. Structure'
  BY <1>1, <1>2, <1>3
  DEF DequeInv, Structure, Mapped, StartOK, FinishOK, InOrder, Slots
<1>5. Still
  BY <1>1 DEF Still, Contents, Found
<1>6. JobsOK'
  <2>1. PICK q \in Seq(live \ {pushing}) : q = Contents
    BY DEF DequeInv, JobsOK
  <2>2. q \in Seq(live' \ {pushing'})
    BY <1>1
  <2> QED
    BY <1>1, <1>5, <2>1, <2>2, SizeAssumption DEF DequeInv, JobsOK, Still
<1> QED BY <1>4, <1>5, <1>6 DEF DequeInv

\* Steps within a push that move nothing into the queue.
LEMMA PushInside ==
  ASSUME DequeInv, Structure', Contents' = Contents,
         step # "none", step' # "none",
         UNCHANGED <<pushing, live, pc, current>>
  PROVE  DequeInv' /\ Still
<1>1. Still
  BY DEF Still, Found
<1>2. JobsOK'
  BY DEF DequeInv, JobsOK
<1> QED BY <1>1, <1>2 DEF DequeInv

\* push_back looks where finish is.
LEMMA ChooseStep == ASSUME DequeInv, ChoosePath PROVE DequeInv' /\ Still
<1>1. /\ step = "enter" /\ step' \in {"construct", "link", "copy"}
      /\ step' = "construct" => ~IsLast(finish)
      /\ step' = "link" => finish.slot + 1 \in Slots
      /\ step' \in {"copy", "link"} => IsLast(finish)
      /\ UNCHANGED <<map, memory, start, finish, chain, pushing, live, pc, current>>
  BY DEF ChoosePath
<1>2. IsLast(finish) <=> AtEnd
  <2>1. EndBlock = FinishBlock
    BY <1>1 DEF EndBlock, FinishBlock, Ahead
  <2> QED
    BY <2>1 DEF DequeInv, Structure, DequeTypes, FinishOK, Iterator, Pointer,
                IsLast, AtEnd
<1>3. /\ Ahead = FALSE /\ Ahead' = FALSE /\ Base' = Base /\ From' = From
      /\ EndBlock' = EndBlock /\ FinishBlock' = FinishBlock /\ Upto' = Upto
  BY <1>1, <1>2 DEF Ahead, Base, From, EndBlock, FinishBlock, Upto, AtEnd
<1>4. DequeTypes' /\ AtEnd' = AtEnd
  BY <1>1 DEF DequeInv, Structure, DequeTypes, AtEnd
<1>5. Structure'
  BY <1>1, <1>2, <1>3, <1>4
  DEF DequeInv, Structure, Mapped, StartOK, FinishOK, InOrder, Slots
<1>6. Contents' = Contents
  BY <1>1 DEF Contents
<1> QED BY <1>1, <1>5, <1>6, PushInside

\* The map that is made has room for the blocks and one more.
LEMMA RoomInMap ==
  ASSUME NEW size \in Nat, Cardinality(Slots) = size, NEW n \in Nat, Used = n,
         n <= size
  PROVE  /\ NewSize \in Nat /\ NewStart \in Nat /\ NewStart + n < NewSize
<1>1. PICK z \in Nat : z = NewSize /\ z >= n + 2
  BY DEF NewSize
<1>2. PICK y \in Nat : y = z - (n + 1) /\ y >= 1
  BY <1>1
<1>3. y \div 2 \in Nat /\ y \div 2 < y
  BY <1>2
<1>4. NewStart = y \div 2
  BY <1>1, <1>2 DEF NewStart
<1> QED BY <1>1, <1>2, <1>3, <1>4

\* The blocks move, while the loop thread is not between two of them.
LEMMA CopyStep == ASSUME DequeInv, CopyMap, ~Overlap PROVE DequeInv' /\ Still
<1>1. /\ step = "copy" /\ step' = "link" /\ pc # "turn"
      /\ map' = [s \in 0 .. NewSize - 1 |->
                  IF s \in NewStart .. NewStart + Used - 1
                  THEN map[start.slot + s - NewStart] ELSE NoJob]
      /\ start' = [start EXCEPT !.slot = NewStart]
      /\ finish' = [finish EXCEPT !.slot = NewStart + Used - 1]
      /\ UNCHANGED <<memory, chain, pushing, live, pc, current>>
  BY DEF CopyMap, Overlap
<1>2. PICK n \in Nat : n = Len(chain) /\ n >= 1
  BY DEF DequeInv, Structure, DequeTypes, FinishOK
<1>3. /\ EndBlock = n /\ FinishBlock = n /\ Base = start.slot
      /\ EndBlock' = n /\ FinishBlock' = n /\ Base' = start'.slot
  BY <1>1, <1>2 DEF EndBlock, FinishBlock, Base, Ahead
<1>4. PICK a \in Nat : a = start.slot
  BY DEF DequeInv, Structure, DequeTypes, Iterator
<1>5. Used = n
  BY <1>2, <1>3, <1>4 DEF DequeInv, Structure, FinishOK, Used
<1>6. PICK size \in Nat : Slots = 0 .. size - 1
  BY DEF DequeInv, Structure, DequeTypes, Slots
<1>7. Cardinality(Slots) = size
  <2>1. Cardinality(0 .. size - 1)
          = IF 0 > size - 1 THEN 0 ELSE size - 1 - 0 + 1
    BY FS_Interval
  <2> QED BY <1>6, <2>1
<1>8. \A i \in 1 .. n : a + i - 1 \in 0 .. size - 1 /\ map[a + i - 1] = chain[i]
  BY <1>2, <1>3, <1>4, <1>6 DEF DequeInv, Structure, Mapped
<1>9. n <= size
  <2>1. n \in 1 .. n
    BY <1>2
  <2>2. a + n - 1 \in 0 .. size - 1
    BY <1>8, <2>1
  <2> QED BY <2>2, <1>4
<1>10. PICK z \in Nat, y \in Nat : z = NewSize /\ y = NewStart /\ y + n < z
  BY <1>5, <1>7, <1>9, RoomInMap
<1>11. /\ DOMAIN map' = 0 .. z - 1
       /\ \A i \in 1 .. n : y + i - 1 \in 0 .. z - 1 /\ map'[y + i - 1] = chain[i]
  <2>1. map' = [s \in 0 .. z - 1 |->
                 IF s \in y .. y + n - 1 THEN map[a + s - y] ELSE NoJob]
    BY <1>1, <1>4, <1>5, <1>10
  <2>2. ASSUME NEW i \in 1 .. n
        PROVE  y + i - 1 \in 0 .. z - 1 /\ map'[y + i - 1] = chain[i]
    <3>1. y + i - 1 \in y .. y + n - 1 /\ y + i - 1 \in 0 .. z - 1
      BY <1>10
    <3>2. a + (y + i - 1) - y = a + i - 1
      BY <1>10
    <3> QED BY <2>1, <3>1, <3>2, <1>8
  <2> QED BY <2>1, <2>2
<1>12. /\ start'.slot = y /\ start'.first = start.first /\ start'.cur = start.cur
       /\ finish'.slot = y + n - 1 /\ finish'.first = finish.first
       /\ finish'.cur = finish.cur
       /\ start' \in Iterator /\ finish' \in Iterator
  <2>1. y + n - 1 \in Nat
    BY <1>2
  <2> QED
    BY <1>1, <1>5, <1>10, <2>1
    DEF DequeInv, Structure, DequeTypes, Iterator
<1>13. DequeTypes'
  BY <1>1, <1>11, <1>12 DEF DequeInv, Structure, DequeTypes
<1>14. Mapped'
  BY <1>1, <1>2, <1>3, <1>11, <1>12 DEF Mapped, Slots
<1>15. StartOK'
  BY <1>1, <1>12 DEF DequeInv, Structure, StartOK
<1>16. FinishOK'
  <2>1. finish'.slot + 1 \in Slots'
    BY <1>2, <1>10, <1>11, <1>12 DEF Slots
  <2> QED
    BY <1>1, <1>2, <1>3, <1>12, <2>1
    DEF DequeInv, Structure, FinishOK, AtEnd
<1>17. InOrder'
  <2>1. From' = From /\ Upto' = Upto
    BY <1>1, <1>3, <1>12 DEF From, Upto
  <2> QED BY <1>1, <2>1 DEF DequeInv, Structure, InOrder
<1>18. Structure'
  BY <1>13, <1>14, <1>15, <1>16, <1>17 DEF Structure
<1>19. Contents' = Contents
  BY <1>1, <1>12 DEF Contents
<1> QED BY <1>1, <1>18, <1>19, PushInside

\* A new block is put behind the others.
LEMMA LinkStep == ASSUME DequeInv, LinkBlock PROVE DequeInv' /\ Still
<1>1. PICK n \in Nodes :
        /\ n \notin Range(chain)
        /\ memory' = [memory EXCEPT ![n] = Uninitialized]
        /\ map' = [map EXCEPT ![finish.slot + 1] = n]
        /\ chain' = Append(chain, n)
  BY DEF LinkBlock
<1>2. /\ step = "link" /\ step' = "construct"
      /\ UNCHANGED <<start, finish, pushing, live, pc, current>>
  BY DEF LinkBlock
<1>3. PICK l \in Nat : l = Len(chain) /\ l >= 1
  BY DEF DequeInv, Structure, DequeTypes, FinishOK
<1>4. /\ AtEnd /\ AtEnd'
      /\ EndBlock = l /\ FinishBlock = l /\ Base' = Base
      /\ EndBlock' = Len(chain') - 1 /\ FinishBlock' = Len(chain') - 1
  BY <1>2, <1>3
  DEF DequeInv, Structure, FinishOK, EndBlock, FinishBlock, Base, Ahead, AtEnd
<1>5. /\ chain' \in Seq(Nodes) /\ Len(chain') = l + 1 /\ chain'[l + 1] = n
      /\ \A i \in 1 .. l : chain'[i] = chain[i]
  BY <1>1, <1>3 DEF DequeInv, Structure, DequeTypes
<1>6. \A i \in 1 .. l : chain[i] # n /\ chain[i] \in Nodes
  BY <1>1, <1>3 DEF Range, DequeInv, Structure, DequeTypes
<1>7. PICK a \in Nat : a = Base
  BY DEF DequeInv, Structure, DequeTypes, Iterator, Base
<1>8. finish.slot + 1 = a + l /\ a + l \in Slots
  BY <1>2, <1>3, <1>4, <1>7 DEF DequeInv, Structure, FinishOK
<1>9. /\ DOMAIN map' = DOMAIN map /\ map'[a + l] = n
      /\ \A s \in DOMAIN map : s # a + l => map'[s] = map[s]
  BY <1>1, <1>8 DEF Slots
<1>10. DequeTypes'
  <2>1. Distinct(chain')
    <3> SUFFICES ASSUME NEW b \in 1 .. l + 1, NEW c \in 1 .. l + 1,
                        chain'[b] = chain'[c], b # c
                 PROVE  FALSE
      BY <1>5 DEF Distinct
    <3>1. CASE b \in 1 .. l /\ c \in 1 .. l
      BY <1>3, <1>5, <3>1 DEF DequeInv, Structure, DequeTypes, Distinct
    <3>2. CASE b = l + 1
      BY <1>5, <1>6, <3>2
    <3>3. CASE c = l + 1
      BY <1>5, <1>6, <3>3
    <3> QED BY <3>1, <3>2, <3>3
  <2>2. memory' \in [Nodes -> [Indices -> Jobs \cup {NoJob}]]
    BY <1>1 DEF DequeInv, Structure, DequeTypes, Uninitialized
  <2> QED
    BY <1>2, <1>5, <1>9, <2>1, <2>2 DEF DequeInv, Structure, DequeTypes
<1>11. Mapped'
  <2> SUFFICES ASSUME NEW i \in 1 .. l + 1
               PROVE  a + i - 1 \in DOMAIN map' /\ map'[a + i - 1] = chain'[i]
    BY <1>4, <1>5, <1>7 DEF Mapped, Slots
  <2>1. CASE i = l + 1
    BY <1>5, <1>8, <1>9, <2>1 DEF Slots
  <2>2. CASE i \in 1 .. l
    <3>1. a + i - 1 \in DOMAIN map /\ map[a + i - 1] = chain[i]
      BY <1>3, <1>7, <2>2 DEF DequeInv, Structure, Mapped, Slots
    <3>2. a + i - 1 # a + l
      BY <2>2
    <3> QED BY <1>5, <1>9, <2>2, <3>1, <3>2
  <2> QED BY <2>1, <2>2
<1>12. StartOK'
  <2>1. chain'[1] = chain[1]
    BY <1>3, <1>5
  <2> QED BY <1>2, <2>1 DEF DequeInv, Structure, StartOK
<1>13. /\ EndBlock' = l /\ FinishBlock' = l /\ Upto' = Upto /\ From' = From
  BY <1>2, <1>3, <1>4, <1>5 DEF Upto, From
<1>14. FinishOK'
  BY <1>2, <1>3, <1>4, <1>5, <1>13 DEF DequeInv, Structure, FinishOK
<1>15. Structure'
  BY <1>2, <1>10, <1>11, <1>12, <1>13, <1>14 DEF DequeInv, Structure, InOrder
<1>16. Contents' = Contents
  <2>1. \A p \in 1 .. l : \A r \in Indices :
          memory[chain[p]][r] = memory'[chain'[p]][r]
    BY <1>1, <1>5, <1>6 DEF DequeInv, Structure, DequeTypes
  <2>2. finish.cur.index \in Indices
    BY DEF DequeInv, Structure, DequeTypes, Iterator, Pointer
  <2>3. Upto = NodeSize * (l - 1) + finish.cur.index
    BY <1>4 DEF Upto
  <2>4. /\ Contents = Elements(memory, chain, From, Upto)
        /\ From \in Nat /\ Upto \in Nat
    BY ContentsAre DEF DequeInv, ContentsWhere
  <2>5. Contents' = Elements(memory', chain', From', Upto')
    BY <1>15, ContentsAreNext DEF ContentsWhere
  <2>6. Elements(memory, chain, From, Upto) = Elements(memory', chain', From, Upto)
    <3>1. PICK u \in Nat : u = Upto
      BY <2>4
    <3>5. PICK m : m = memory'
      OBVIOUS
    <3>6. PICK c : c = chain'
      OBVIOUS
    <3>2. PICK i \in Indices : i = finish.cur.index
      BY <2>2
    <3>3. Agree(memory, chain, m, c, l, i)
      BY <2>1, <3>5, <3>6 DEF Agree
    <3>7. u = NodeSize * (l - 1) + i /\ l \in Nat \ {0}
      BY <1>3, <2>3, <3>1, <3>2
    <3>4. Elements(memory, chain, From, u) = Elements(m, c, From, u)
      BY <2>4, <3>3, <3>7, SameElements
    <3> QED BY <3>1, <3>4, <3>5, <3>6
  <2> QED BY <1>13, <2>4, <2>5, <2>6
<1> QED BY <1>2, <1>15, <1>16, PushInside

\* The job is written behind the last element.
LEMMA ConstructStep == ASSUME DequeInv, Construct PROVE DequeInv' /\ Still
<1>1. /\ step = "construct" /\ step' = IF IsLast(finish) THEN "turn" ELSE "advance"
      /\ memory' = [memory EXCEPT ![finish.cur.node][finish.cur.index] = pushing]
      /\ UNCHANGED <<map, start, finish, chain, pushing, live, pc, current>>
  BY DEF Construct
<1>2. PICK b \in 1 .. Len(chain), i \in Indices :
        b = EndBlock /\ i = finish.cur.index /\ finish.cur.node = chain[b]
  BY DEF DequeInv, Structure, DequeTypes, FinishOK, Iterator, Pointer
<1>3. IsLast(finish) <=> AtEnd
  <2>1. EndBlock = FinishBlock
    BY <1>1 DEF EndBlock, FinishBlock
  <2> QED
    BY <2>1 DEF DequeInv, Structure, DequeTypes, FinishOK, Iterator, Pointer,
                IsLast, AtEnd
<1>4. /\ AtEnd' = AtEnd /\ Ahead' = Ahead /\ Base' = Base /\ From' = From
      /\ EndBlock' = EndBlock /\ FinishBlock' = FinishBlock /\ Upto' = Upto
  <2>1. AtEnd' = AtEnd /\ Ahead' = Ahead
    BY <1>1, <1>3 DEF Ahead, AtEnd
  <2> QED
    BY <1>1, <2>1 DEF Base, From, EndBlock, FinishBlock, Upto
<1>5. \A c \in Nodes, r \in Indices :
        memory'[c][r] = IF c = chain[b] /\ r = i THEN pushing ELSE memory[c][r]
  BY <1>1, <1>2 DEF DequeInv, Structure, DequeTypes
<1>6. DequeTypes'
  <2>1. memory' \in [Nodes -> [Indices -> Jobs \cup {NoJob}]]
    BY <1>1, <1>2 DEF DequeInv, Structure, DequeTypes
  <2> QED BY <1>1, <2>1 DEF DequeInv, Structure, DequeTypes
<1>7. FinishOK'
  <2>1. At(finish.cur)' = pushing
    BY <1>1, <1>2, <1>5 DEF DequeInv, Structure, DequeTypes, At
  <2> QED
    BY <1>1, <1>3, <1>4, <2>1 DEF DequeInv, Structure, FinishOK
<1>8. Structure'
  BY <1>1, <1>4, <1>6, <1>7
  DEF DequeInv, Structure, Mapped, StartOK, InOrder, Slots
<1>9. Contents' = Contents
  <2>1. \A p \in 1 .. b : \A r \in Indices :
          p # b \/ r < i => memory[chain[p]][r] = memory'[chain[p]][r]
    <3> SUFFICES ASSUME NEW p \in 1 .. b, NEW r \in Indices, p # b \/ r < i
                 PROVE  memory[chain[p]][r] = memory'[chain[p]][r]
      OBVIOUS
    <3>1. p \in 1 .. Len(chain) /\ chain[p] \in Nodes
      BY DEF DequeInv, Structure, DequeTypes
    <3>2. ~(chain[p] = chain[b] /\ r = i)
      BY <3>1 DEF DequeInv, Structure, DequeTypes, Distinct, Indices
    <3> QED BY <1>5, <3>1, <3>2
  <2>2. Upto = NodeSize * (b - 1) + i
    BY <1>2 DEF Upto
  <2>3. /\ Contents = Elements(memory, chain, From, Upto)
        /\ From \in Nat /\ Upto \in Nat
    BY ContentsAre DEF DequeInv, ContentsWhere
  <2>4. Contents' = Elements(memory', chain', From', Upto')
    BY <1>8, ContentsAreNext DEF ContentsWhere
  <2>5. Elements(memory, chain, From, Upto) = Elements(memory', chain, From, Upto)
    <3>1. PICK u \in Nat : u = Upto
      BY <2>3
    <3>5. PICK m : m = memory'
      OBVIOUS
    <3>2. Agree(memory, chain, m, chain, b, i)
      BY <2>1, <3>5 DEF Agree
    <3>3. u = NodeSize * (b - 1) + i /\ b \in Nat \ {0}
      BY <2>2, <3>1
    <3>4. Elements(memory, chain, From, u) = Elements(m, chain, From, u)
      BY <2>3, <3>2, <3>3, SameElements
    <3> QED BY <3>1, <3>4, <3>5
  <2> QED BY <1>1, <1>4, <2>3, <2>4, <2>5
<1> QED BY <1>1, <1>8, <1>9, PushInside

\* finish goes to the slot of the new block.
LEMMA TurnStep == ASSUME DequeInv, PushTurns PROVE DequeInv' /\ Still
<1>1. /\ step = "turn" /\ step' = "first"
      /\ finish' = [finish EXCEPT !.slot = finish.slot + 1,
                                  !.first = map[finish.slot + 1]]
      /\ UNCHANGED <<map, memory, start, chain, pushing, live, pc, current>>
  BY DEF PushTurns, SetNode
<1>2. PICK l \in Nat : l = Len(chain) /\ l >= 2
  <2>1. EndBlock = Len(chain) - 1
    BY <1>1 DEF EndBlock, Ahead
  <2>2. Len(chain) \in Nat /\ EndBlock \in 1 .. Len(chain)
    BY DEF DequeInv, Structure, DequeTypes, FinishOK
  <2> QED BY <2>1, <2>2
<1>3. PICK a \in Nat : a = Base
  BY DEF DequeInv, Structure, DequeTypes, Iterator, Base
<1>4. /\ EndBlock = l - 1 /\ FinishBlock = l - 1 /\ EndBlock' = l - 1
      /\ FinishBlock' = l /\ Base' = a
  BY <1>1, <1>2, <1>3 DEF EndBlock, FinishBlock, Ahead, Base
<1>5. finish.slot + 1 = a + l - 1 /\ map[a + l - 1] = chain[l] /\ chain[l] \in Nodes
  <2>1. finish.slot + 1 = a + l - 1
    BY <1>2, <1>3, <1>4 DEF DequeInv, Structure, FinishOK
  <2>2. map[a + l - 1] = chain[l] /\ chain[l] \in Nodes
    BY <1>2, <1>3 DEF DequeInv, Structure, Mapped, DequeTypes
  <2> QED BY <2>1, <2>2
<1>6. /\ finish' \in Iterator /\ finish'.cur = finish.cur
      /\ finish'.slot = a + l - 1 /\ finish'.first = chain[l]
  <2>1. a + l - 1 \in Nat
    BY <1>2
  <2> QED
    BY <1>1, <1>5, <2>1 DEF DequeInv, Structure, DequeTypes, Iterator
<1>7. DequeTypes'
  BY <1>1, <1>6 DEF DequeInv, Structure, DequeTypes
<1>8. FinishOK'
  BY <1>1, <1>2, <1>4, <1>6
  DEF DequeInv, Structure, FinishOK, AtEnd, At
<1>9. Mapped' /\ StartOK'
  BY <1>1, <1>3, <1>4 DEF DequeInv, Structure, Mapped, StartOK, Slots
<1>10. InOrder'
  <2>1. From' = From /\ Upto' = Upto
    BY <1>1, <1>4, <1>6 DEF From, Upto
  <2> QED BY <1>1, <2>1 DEF DequeInv, Structure, InOrder
<1>11. Structure'
  BY <1>7, <1>8, <1>9, <1>10 DEF Structure
<1>12. Contents' = Contents
  BY <1>1, <1>6 DEF Contents
<1> QED BY <1>1, <1>11, <1>12, PushInside

\* What both last accesses of a push do to the jobs.
LEMMA PushEnds ==
  ASSUME DequeInv, Structure', EndPush, step # "none",
         Contents' = Append(Contents, pushing)
  PROVE  /\ DequeInv' /\ Found' = Found
         /\ pushing \in Jobs \ Range(Contents)
<1>1. /\ pushing' = NoJob /\ step' = "none"
      /\ pc' = IF pc = "build" THEN "away" ELSE pc
      /\ live' = live /\ current' = current
  BY DEF EndPush
<1>2. PICK q \in Seq(live \ {pushing}) : q = Contents
  BY DEF DequeInv, JobsOK
<1>3. PICK n \in Nat : n = Len(q)
  BY <1>2
<1>4. PICK r : r = Append(q, pushing)
  OBVIOUS
<1>5. pushing \in live /\ pushing \in Jobs /\ NoJob \notin live
  BY SizeAssumption DEF DequeInv, JobsOK, Structure, DequeTypes
<1>6. /\ r \in Seq(live') /\ Len(r) = n + 1 /\ r[n + 1] = pushing
      /\ \A i \in 1 .. n : r[i] = q[i] /\ q[i] # pushing
  BY <1>1, <1>2, <1>3, <1>4, <1>5
<1>7. Distinct(r)
  <2> SUFFICES ASSUME NEW b \in 1 .. n + 1, NEW c \in 1 .. n + 1, r[b] = r[c], b # c
               PROVE  FALSE
    BY <1>6 DEF Distinct
  <2>1. CASE b \in 1 .. n /\ c \in 1 .. n
    BY <1>2, <1>3, <1>6, <2>1 DEF DequeInv, JobsOK, Distinct
  <2>2. CASE b = n + 1
    BY <1>6, <2>2
  <2>3. CASE c = n + 1
    BY <1>6, <2>3
  <2> QED BY <2>1, <2>2, <2>3
<1>8. Found' = Found
  BY <1>1 DEF Found
<1>9. ASSUME pc \in {"run", "advance", "free"}
      PROVE  current = Head(r)
  <2>1. q = Elements(memory, chain, From, Upto) /\ From \in Nat /\ Upto \in Nat
        /\ From < Upto
    BY <1>2, <1>9, ContentsAre DEF DequeInv, Structure, InOrder, ContentsWhere
  <2>2. Len(q) = Upto - From
    <3>1. PICK f \in Nat, u \in Nat : f = From /\ u = Upto /\ f <= u
      BY <2>1
    <3>2. Len(Elements(memory, chain, f, u)) = u - f
      BY <3>1, ElementsLen
    <3> QED BY <2>1, <3>1, <3>2
  <2>3. n >= 1
    BY <1>3, <2>1, <2>2
  <2>4. Head(r) = r[1] /\ Head(q) = q[1] /\ r[1] = q[1]
    BY <1>2, <1>3, <1>6, <2>3
  <2> QED BY <1>2, <1>9, <2>4 DEF DequeInv, JobsOK
<1>10. ASSUME pc \in {"turn", "first"}
       PROVE  /\ current \in live
              /\ \A i \in 1 .. Len(r) : r[i] # current
  BY <1>2, <1>3, <1>6, <1>10 DEF DequeInv, JobsOK
<1>11. r \in Seq(live' \ {NoJob})
  BY <1>1, <1>5, <1>6
<1>12. JobsOK'
  <2>1. Contents' = r
    BY <1>2, <1>4
  <2> QED
    BY <1>1, <1>5, <1>7, <1>9, <1>10, <1>11, <2>1 DEF JobsOK
<1>13. pushing \notin Range(Contents)
  BY <1>2, <1>3, <1>6 DEF Range
<1> QED BY <1>5, <1>8, <1>12, <1>13 DEF DequeInv

\* finish moves over the element that was written.
LEMMA PushedElement ==
  ASSUME DequeInv, At(finish.cur) = pushing,
         Structure', From' = From, Upto' = Upto + 1, UNCHANGED <<memory, chain>>
  PROVE  Contents' = Append(Contents, pushing)
<1>1. /\ Contents = Elements(memory, chain, From, Upto)
      /\ From \in Nat /\ Upto \in Nat /\ From <= Upto
  BY ContentsAre DEF DequeInv, Structure, InOrder, ContentsWhere
<1>2. Contents' = Elements(memory, chain, From, Upto + 1)
  BY ContentsAreNext DEF ContentsWhere
<1>3. Element(memory, chain, Upto) = pushing
  <2>1. PICK b \in 1 .. Len(chain), i \in Indices :
          b = EndBlock /\ i = finish.cur.index /\ finish.cur.node = chain[b]
    BY DEF DequeInv, Structure, DequeTypes, FinishOK, Iterator, Pointer
  <2>2. b - 1 \in Nat /\ Upto = NodeSize * (b - 1) + i
    BY <2>1 DEF Upto
  <2>3. Upto \div NodeSize = b - 1 /\ Upto % NodeSize = i
    BY <2>2, Position
  <2>4. b - 1 + 1 = b
    OBVIOUS
  <2> QED BY <2>1, <2>3, <2>4 DEF Element, At
<1>4. Elements(memory, chain, From, Upto) \in Seq(live \ {pushing})
  BY <1>1 DEF DequeInv, JobsOK
<1> QED BY <1>1, <1>2, <1>3, <1>4, AppendElement

LEMMA AdvanceStep ==
  ASSUME DequeInv, PushAdvances
  PROVE  /\ DequeInv' /\ Found' = Found /\ pushing \in Jobs \ Range(Contents)
         /\ Contents' = Append(Contents, pushing)
<1>1. /\ step = "advance" /\ finish' = [finish EXCEPT !.cur.index = @ + 1]
      /\ pushing' = NoJob /\ step' = "none"
      /\ pc' = IF pc = "build" THEN "away" ELSE pc
      /\ UNCHANGED <<map, memory, start, chain, live, current>>
  BY DEF PushAdvances, EndPush, NextOf
<1>2. PICK i \in Indices : i = finish.cur.index /\ i # NodeSize - 1
  BY <1>1
  DEF DequeInv, Structure, DequeTypes, FinishOK, Iterator, Pointer, AtEnd
<1>3. i + 1 \in Indices
  BY <1>2, SizeAssumption DEF Indices
<1>4. /\ finish' \in Iterator /\ finish'.cur.index = i + 1
      /\ finish'.cur.node = finish.cur.node
      /\ finish'.slot = finish.slot /\ finish'.first = finish.first
  BY <1>1, <1>2, <1>3 DEF DequeInv, Structure, DequeTypes, Iterator, Pointer
<1>5. /\ EndBlock' = EndBlock /\ FinishBlock' = FinishBlock /\ From' = From
      /\ Base' = Base
  BY <1>1 DEF EndBlock, FinishBlock, Ahead, From, Base
<1>6. DequeTypes'
  BY <1>1, <1>4 DEF DequeInv, Structure, DequeTypes
<1>7. Upto' = Upto + 1 /\ Upto \in Nat /\ From \in Nat
  <2>1. Upto \in Nat /\ From \in Nat
    BY ContentsAre DEF DequeInv, ContentsWhere
  <2>2. PICK z \in Int : z = NodeSize * (EndBlock - 1)
    BY SizeAssumption DEF DequeInv, Structure, FinishOK
  <2>3. Upto = z + i /\ Upto' = z + (i + 1)
    BY <1>2, <1>4, <1>5, <2>2 DEF Upto
  <2> QED BY <2>1, <2>2, <2>3 DEF Indices
<1>8. FinishOK' /\ Mapped' /\ StartOK'
  BY <1>1, <1>4, <1>5
  DEF DequeInv, Structure, FinishOK, Mapped, StartOK, Slots
<1>9. InOrder'
  BY <1>1, <1>5, <1>7 DEF DequeInv, Structure, InOrder
<1>10. Structure'
  BY <1>6, <1>8, <1>9 DEF Structure
<1>11. At(finish.cur) = pushing
  BY <1>1 DEF DequeInv, Structure, FinishOK
<1>12. Contents' = Append(Contents, pushing)
  BY <1>1, <1>5, <1>7, <1>10, <1>11, PushedElement
<1> QED BY <1>1, <1>10, <1>12, PushEnds DEF PushAdvances

LEMMA EnterBlockStep ==
  ASSUME DequeInv, PushEntersBlock
  PROVE  /\ DequeInv' /\ Found' = Found /\ pushing \in Jobs \ Range(Contents)
         /\ Contents' = Append(Contents, pushing)
<1>1. /\ step = "first"
      /\ finish' = [finish EXCEPT !.cur = [node |-> finish.first, index |-> 0]]
      /\ pushing' = NoJob /\ step' = "none"
      /\ pc' = IF pc = "build" THEN "away" ELSE pc
      /\ UNCHANGED <<map, memory, start, chain, live, current>>
  BY DEF PushEntersBlock, EndPush, FirstOf
<1>2. PICK l \in Nat : l = Len(chain) /\ l >= 2
  <2>1. EndBlock = Len(chain) - 1
    BY <1>1 DEF EndBlock, Ahead
  <2>2. Len(chain) \in Nat /\ EndBlock \in 1 .. Len(chain)
    BY DEF DequeInv, Structure, DequeTypes, FinishOK
  <2> QED BY <2>1, <2>2
<1>3. /\ EndBlock = l - 1 /\ FinishBlock = l /\ EndBlock' = l /\ FinishBlock' = l
      /\ From' = From /\ Base' = Base
  BY <1>1, <1>2 DEF EndBlock, FinishBlock, Ahead, From, Base
<1>4. /\ finish' \in Iterator /\ finish'.cur.index = 0
      /\ finish'.cur.node = finish.first
      /\ finish'.slot = finish.slot /\ finish'.first = finish.first
  <2>1. 0 \in Indices
    BY SizeAssumption DEF Indices
  <2> QED
    BY <1>1, <2>1 DEF DequeInv, Structure, DequeTypes, Iterator, Pointer
<1>5. DequeTypes'
  BY <1>1, <1>4 DEF DequeInv, Structure, DequeTypes
<1>6. Upto' = Upto + 1 /\ Upto \in Nat /\ From \in Nat
  <2>1. Upto \in Nat /\ From \in Nat
    BY ContentsAre DEF DequeInv, ContentsWhere
  <2>2. PICK n \in Nat : n = NodeSize
    BY SizeAssumption
  <2>3. PICK k \in Nat : k = l - 1 - 1
    BY <1>2
  <2>4. n * k \in Nat /\ n * (l - 1) = n * k + n
    BY <2>3
  <2>5. Upto = n * k + (n - 1)
    BY <1>1, <1>3, <2>2, <2>3 DEF Upto, DequeInv, Structure, FinishOK, AtEnd
  <2>6. Upto' = n * (l - 1) + 0
    BY <1>3, <1>4, <2>2 DEF Upto
  <2> QED BY <2>1, <2>2, <2>4, <2>5, <2>6
<1>7. FinishOK' /\ Mapped' /\ StartOK'
  BY <1>1, <1>2, <1>3, <1>4
  DEF DequeInv, Structure, FinishOK, Mapped, StartOK, Slots
<1>8. InOrder'
  BY <1>1, <1>3, <1>6 DEF DequeInv, Structure, InOrder
<1>9. Structure'
  BY <1>5, <1>7, <1>8 DEF Structure
<1>10. At(finish.cur) = pushing
  BY <1>1 DEF DequeInv, Structure, FinishOK
<1>11. Contents' = Append(Contents, pushing)
  BY <1>1, <1>3, <1>6, <1>9, <1>10, PushedElement
<1> QED BY <1>1, <1>9, <1>11, PushEnds DEF PushEntersBlock

-----------------------------------------------------------------------------
(* The steps of the loop thread.                                           *)

LEMMA ContentsLen ==
  ASSUME DequeInv
  PROVE  /\ Len(Contents) = Upto - From /\ From \in Nat /\ Upto \in Nat
         /\ Contents = <<>> <=> From = Upto
<1>1. /\ Contents = Elements(memory, chain, From, Upto)
      /\ From \in Nat /\ Upto \in Nat /\ From <= Upto
  BY ContentsAre DEF DequeInv, Structure, InOrder, ContentsWhere
<1>2. Len(Contents) = Upto - From
  BY <1>1, ElementsLen
<1>3. Contents \in Seq(live \ {pushing})
  BY DEF DequeInv, JobsOK
<1>4. Contents = <<>> <=> Len(Contents) = 0
  BY <1>3
<1> QED BY <1>1, <1>2, <1>4

\* empty() is right, although it compares pointers that a push moves.
LEMMA EmptyIsRight == ASSUME DequeInv, pc = "test" PROVE Empty <=> Contents = <<>>
<1>1. PICK b \in 1 .. Len(chain), i \in Indices, j \in Indices :
        /\ b = EndBlock /\ i = finish.cur.index /\ finish.cur.node = chain[b]
        /\ j = start.cur.index /\ start.cur.node = chain[1]
  BY DEF DequeInv, Structure, DequeTypes, FinishOK, StartOK, Iterator, Pointer
<1>2. Empty <=> b = 1 /\ i = j
  <2>1. Empty <=> chain[1] = chain[b] /\ i = j
    BY <1>1 DEF Empty, DequeInv, Structure, DequeTypes, Iterator, Pointer
  <2>2. chain[1] = chain[b] <=> b = 1
    BY <1>1 DEF DequeInv, Structure, DequeTypes, Distinct
  <2> QED BY <2>1, <2>2
<1>3. PICK n \in Nat \ {0} : n = NodeSize /\ i <= n - 1 /\ j <= n - 1
  BY SizeAssumption DEF Indices
<1>4. From = j /\ Upto = n * (b - 1) + i
  BY <1>1, <1>3 DEF From, Upto
<1>5. b # 1 => n * (b - 1) >= n
  BY <1>3
<1>6. From = Upto <=> b = 1 /\ i = j
  <2>1. CASE b = 1
    BY <1>4, <2>1 DEF Indices
  <2>2. CASE b # 1
    <3>1. n * (b - 1) \in Nat
      BY <1>1
    <3> QED BY <1>3, <1>4, <1>5, <2>2, <3>1 DEF Indices
  <2> QED BY <2>1, <2>2
<1> QED BY <1>2, <1>6, ContentsLen

\* A step of the loop thread that moves no iterator.
LEMMA LoopStays ==
  ASSUME DequeInv, UNCHANGED <<map, memory, start, finish, chain, pushing, step, live>>,
         pc \notin {"free", "turn", "first"}, pc' \notin {"turn", "first"}
  PROVE  /\ Contents' = Contents /\ From' = From /\ Upto' = Upto /\ Base' = Base
         /\ Mapped' /\ FinishOK'
<1>1. /\ From' = From /\ Upto' = Upto /\ Base' = Base /\ EndBlock' = EndBlock
      /\ FinishBlock' = FinishBlock /\ AtEnd' = AtEnd
  BY DEF From, Upto, Base, EndBlock, FinishBlock, Ahead, AtEnd
<1>2. Contents' = Contents
  BY DEF Contents
<1>3. Mapped' /\ FinishOK'
  BY <1>1 DEF DequeInv, Structure, Mapped, FinishOK, At, Slots
<1> QED BY <1>1, <1>2, <1>3

\* empty().
LEMMA LookStep ==
  ASSUME DequeInv, LookIntoQueue
  PROVE  /\ DequeInv' /\ Contents' = Contents /\ Found = <<>>
         /\ Found' = IF Contents = <<>> THEN <<NoJob>> ELSE <<>>
<1>1. /\ pc = "test" /\ pc' = IF Empty THEN "away" ELSE "front"
      /\ UNCHANGED <<map, memory, start, finish, chain, pushing, step, live, current>>
  BY DEF LookIntoQueue
<1>2. /\ Contents' = Contents /\ From' = From /\ Upto' = Upto
      /\ Mapped' /\ FinishOK'
  BY <1>1, LoopStays
<1>3. pc' = IF Contents = <<>> THEN "away" ELSE "front"
  BY <1>1, EmptyIsRight
<1>4. InOrder'
  <2>1. From \in Nat /\ Upto \in Nat /\ From <= Upto
        /\ (Contents = <<>> <=> From = Upto)
    BY ContentsLen DEF DequeInv, Structure, InOrder
  <2>2. PICK f \in Nat, u \in Nat : f = From /\ u = Upto
    BY <2>1
  <2>3. f <= u /\ (Contents # <<>> => f < u) /\ From' = f /\ Upto' = u
    BY <1>2, <2>1, <2>2
  <2>4. pc' \in {"front", "run", "advance", "free"} => Contents # <<>>
    BY <1>3
  <2> QED BY <2>3, <2>4 DEF InOrder
<1>5. Structure'
  BY <1>1, <1>2, <1>3, <1>4 DEF DequeInv, Structure, DequeTypes, StartOK
<1>6. JobsOK'
  BY <1>1, <1>2, <1>3 DEF DequeInv, JobsOK
<1>7. Found = <<>> /\ Found' = IF Contents = <<>> THEN <<NoJob>> ELSE <<>>
  BY <1>1, <1>3 DEF Found
<1> QED BY <1>2, <1>5, <1>6, <1>7 DEF DequeInv

LEMMA AgainStep ==
  ASSUME DequeInv, LookAgain
  PROVE  DequeInv' /\ Contents' = Contents /\ Found = <<NoJob>> /\ Found' = <<>>
<1>1. /\ pc = "away" /\ pc' = "test"
      /\ UNCHANGED <<map, memory, start, finish, chain, pushing, step, live, current>>
  BY DEF LookAgain
<1>2. /\ Contents' = Contents /\ From' = From /\ Upto' = Upto
      /\ Mapped' /\ FinishOK'
  BY <1>1, LoopStays
<1>3. Structure'
  BY <1>1, <1>2 DEF DequeInv, Structure, DequeTypes, StartOK, InOrder
<1>4. JobsOK'
  BY <1>1, <1>2 DEF DequeInv, JobsOK
<1> QED BY <1>1, <1>2, <1>3, <1>4 DEF DequeInv, Found

\* front().
LEMMA FrontStep ==
  ASSUME DequeInv, TakeFront
  PROVE  /\ DequeInv' /\ Contents' = Contents /\ Found = <<>>
         /\ Contents # <<>> /\ Found' = <<Head(Contents)>>
<1>1. /\ pc = "front" /\ pc' = "run" /\ current' = At(start.cur)
      /\ UNCHANGED <<map, memory, start, finish, chain, pushing, step, live>>
  BY DEF TakeFront
<1>2. /\ Contents' = Contents /\ From' = From /\ Upto' = Upto
      /\ Mapped' /\ FinishOK'
  BY <1>1, LoopStays
<1>3. From < Upto /\ Len(Contents) = Upto - From /\ From \in Nat /\ Upto \in Nat
  BY <1>1, ContentsLen DEF DequeInv, Structure, InOrder
<1>4. Contents # <<>> /\ Head(Contents) = Contents[1]
      /\ Contents[1] \in live
  BY <1>3 DEF DequeInv, JobsOK
<1>5. At(start.cur) = Contents[1]
  <2>1. PICK j \in Indices : j = start.cur.index /\ start.cur.node = chain[1]
    BY <1>1 DEF DequeInv, Structure, DequeTypes, StartOK, Iterator, Pointer
  <2>2. Contents[1] = Element(memory, chain, From + 1 - 1)
    BY <1>3, ContentsAre DEF DequeInv, Elements, ContentsWhere
  <2>3. From + 1 - 1 = NodeSize * 0 + j
    BY <1>1, <2>1, SizeAssumption DEF From, Indices
  <2>4. (From + 1 - 1) \div NodeSize = 0 /\ (From + 1 - 1) % NodeSize = j
    BY <2>3, Position
  <2> QED BY <2>1, <2>2, <2>4 DEF Element, At
<1>6. DequeTypes'
  BY <1>1, <1>4, <1>5 DEF DequeInv, Structure, DequeTypes
<1>7. Structure'
  BY <1>1, <1>2, <1>3, <1>6 DEF DequeInv, Structure, StartOK, InOrder
<1>8. JobsOK'
  BY <1>1, <1>2, <1>4, <1>5 DEF DequeInv, JobsOK
<1> QED BY <1>1, <1>2, <1>4, <1>5, <1>7, <1>8 DEF DequeInv, Found

LEMMA FinishStep == ASSUME DequeInv, FinishCallback PROVE DequeInv' /\ Still
<1>1. /\ pc = "run" /\ pc' = IF IsLast(start) THEN "free" ELSE "advance"
      /\ UNCHANGED <<map, memory, start, finish, chain, pushing, step, live, current>>
  BY DEF FinishCallback
<1>2. /\ Contents' = Contents /\ From' = From /\ Upto' = Upto
      /\ Mapped' /\ FinishOK'
  BY <1>1, LoopStays
<1>3. IsLast(start) <=> start.cur.index = NodeSize - 1
  BY <1>1 DEF DequeInv, Structure, DequeTypes, StartOK, Iterator, Pointer, IsLast
<1>4. Structure'
  BY <1>1, <1>2, <1>3 DEF DequeInv, Structure, DequeTypes, StartOK, InOrder
<1>5. JobsOK'
  BY <1>1, <1>2 DEF DequeInv, JobsOK
<1> QED BY <1>1, <1>2, <1>4, <1>5 DEF DequeInv, Found, Still

\* The first job leaves the queue.
LEMMA FrontLeaves ==
  ASSUME DequeInv, pc \in {"free", "advance"}
  PROVE  /\ Contents # <<>> /\ From < Upto
         /\ current = Head(Contents) /\ current \in live \ {pushing}
         /\ Tail(Contents) \in Seq(live \ {pushing}) /\ Distinct(Tail(Contents))
         /\ \A a \in 1 .. Len(Tail(Contents)) : Tail(Contents)[a] # current
<1>1. PICK q \in Seq(live \ {pushing}) : q = Contents
  BY DEF DequeInv, JobsOK
<1>2. PICK n \in Nat : n = Len(q) /\ n >= 1
  <2>1. /\ Len(q) = Upto - From /\ From \in Nat /\ Upto \in Nat
    BY <1>1, ContentsLen
  <2>2. From < Upto
    BY DEF DequeInv, Structure, InOrder
  <2> QED BY <2>1, <2>2
<1>3. PICK r \in Seq(live \ {pushing}) :
        /\ r = Tail(q) /\ Len(r) = n - 1
        /\ \A a \in 1 .. n - 1 : r[a] = q[a + 1] /\ a + 1 \in 1 .. n
  <2>1. PICK m \in Nat : m = n - 1 /\ Len(q) = m + 1
    <3>1. n - 1 \in Nat /\ n - 1 + 1 = n
      BY <1>2
    <3> QED BY <1>2, <3>1
  <2>2. /\ Tail(q) \in Seq(live \ {pushing}) /\ Len(Tail(q)) = m
        /\ \A a \in 1 .. m : Tail(q)[a] = q[a + 1]
    BY <2>1, TailElements
  <2>3. \A a \in 1 .. n - 1 : a + 1 \in 1 .. n
    OBVIOUS
  <2> QED BY <2>1, <2>2, <2>3
<1>4. current = q[1] /\ q[1] \in live \ {pushing} /\ Head(q) = q[1] /\ q # <<>>
  BY <1>1, <1>2 DEF DequeInv, JobsOK
<1>5. \A a, b \in 1 .. n : q[a] = q[b] => a = b
  BY <1>1, <1>2 DEF DequeInv, JobsOK, Distinct
<1>6. Distinct(r)
  BY <1>3, <1>5 DEF Distinct
<1>7. \A a \in 1 .. Len(r) : r[a] # current
  BY <1>2, <1>3, <1>4, <1>5
<1>8. From < Upto
  BY DEF DequeInv, Structure, InOrder
<1> QED BY <1>1, <1>3, <1>4, <1>6, <1>7, <1>8

LEMMA RemoveHead ==
  ASSUME NEW S, NEW s \in Seq(S), Len(s) >= 1
  PROVE  /\ RemoveAt(s, 1) \in Seq(S) /\ Len(RemoveAt(s, 1)) = Len(s) - 1
         /\ \A n \in 1 .. Len(s) - 1 : RemoveAt(s, 1)[n] = s[n + 1]
<1>1. SubSeq(s, 1, 1 - 1) = <<>>
  BY SubSeqEmpty
<1>2. PICK b : b = Tail(s)
  OBVIOUS
<1>3. /\ b \in Seq(S) /\ Len(b) = Len(s) - 1
      /\ \A n \in 1 .. Len(s) - 1 : b[n] = s[n + 1]
  <2>1. PICK n \in Nat : n = Len(s) - 1 /\ Len(s) = n + 1
    <3>1. Len(s) - 1 \in Nat /\ Len(s) = Len(s) - 1 + 1
      OBVIOUS
    <3> QED BY <3>1
  <2> QED BY <1>2, <2>1, TailElements
<1>4. RemoveAt(s, 1) = b
  <2>1. <<>> \o b = b
    BY <1>3
  <2>2. SubSeq(s, 1 + 1, Len(s)) = b
    <3>1. s # <<>> /\ 1 + 1 = 2
      OBVIOUS
    <3> QED BY <1>2, <3>1, TailIsSubSeq
  <2> QED BY <1>1, <2>1, <2>2 DEF RemoveAt
<1> QED BY <1>3, <1>4

\* The last element of a block is popped: the block is freed.
LEMMA FreeStep ==
  ASSUME DequeInv, FreeBlock
  PROVE  /\ DequeInv' /\ Contents # <<>> /\ Contents' = Tail(Contents)
         /\ Found = <<Head(Contents)>> /\ Found' = <<>>
<1>1. PICK k \in DOMAIN chain :
        /\ chain[k] = start.first /\ chain' = RemoveAt(chain, k)
        /\ memory' = [memory EXCEPT ![start.first] = Uninitialized]
        /\ map' = [map EXCEPT ![start.slot] = NoJob]
  BY DEF FreeBlock
<1>2. /\ pc = "free" /\ pc' = "turn"
      /\ UNCHANGED <<start, finish, pushing, step, live, current>>
  BY DEF FreeBlock
<1>3. PICK l \in Nat : l = Len(chain) /\ l >= 1
  BY DEF DequeInv, Structure, DequeTypes, FinishOK
<1>4. start.first = chain[1] /\ k = 1
  BY <1>1, <1>2, <1>3 DEF DequeInv, Structure, DequeTypes, StartOK, Distinct
<1>5. /\ chain' \in Seq(Nodes) /\ Len(chain') = l - 1
      /\ \A n \in 1 .. l - 1 : chain'[n] = chain[n + 1]
  <2>1. PICK c \in Seq(Nodes) : c = chain /\ Len(c) = l
    BY <1>3 DEF DequeInv, Structure, DequeTypes
  <2>2. /\ RemoveAt(c, 1) \in Seq(Nodes) /\ Len(RemoveAt(c, 1)) = l - 1
        /\ \A n \in 1 .. l - 1 : RemoveAt(c, 1)[n] = c[n + 1]
    BY <1>3, <2>1, RemoveHead
  <2> QED BY <1>1, <1>4, <2>1, <2>2
<1>6. PICK b \in 1 .. l, i \in Indices :
        b = EndBlock /\ i = finish.cur.index /\ finish.cur.node = chain[b]
  BY <1>3 DEF DequeInv, Structure, DequeTypes, FinishOK, Iterator, Pointer
<1>7. /\ From = NodeSize - 1 /\ From' = 0 /\ Upto = NodeSize * (b - 1) + i
      /\ From \in Nat /\ Upto \in Nat /\ From < Upto
  <2>1. From = NodeSize - 1 /\ From' = 0
    BY <1>2 DEF From, DequeInv, Structure, StartOK
  <2>2. Upto = NodeSize * (b - 1) + i
    BY <1>6 DEF Upto
  <2> QED BY <1>2, <2>1, <2>2, ContentsLen, FrontLeaves
<1>8. b >= 2
  <2> SUFFICES ASSUME b = 1 PROVE FALSE
    OBVIOUS
  <2>1. NodeSize * (b - 1) = 0
    BY SizeAssumption
  <2> QED BY <1>7, <2>1, SizeAssumption DEF Indices
<1>9. PICK a \in Nat : a = start.slot
  BY DEF DequeInv, Structure, DequeTypes, Iterator
<1>10. PICK c \in 1 .. l : c = FinishBlock /\ c >= b
  BY <1>3, <1>6 DEF DequeInv, Structure, FinishOK, EndBlock, FinishBlock
<1>11. /\ EndBlock' = b - 1 /\ FinishBlock' = c - 1 /\ Base = a /\ Base' = a + 1
       /\ AtEnd' = AtEnd
  <2>1. AtEnd' = AtEnd /\ Ahead' = Ahead
    BY <1>2 DEF AtEnd, Ahead
  <2>2. Base = a /\ Base' = a + 1
    BY <1>2, <1>9 DEF Base
  <2>3. EndBlock' = b - 1
    BY <1>2, <1>3, <1>5, <1>6, <2>1 DEF EndBlock
  <2>4. FinishBlock' = c - 1
    BY <1>2, <1>3, <1>5, <1>10, <2>1 DEF FinishBlock
  <2> QED BY <2>1, <2>2, <2>3, <2>4
<1>12. \A n \in 2 .. l : /\ n \in 1 .. l /\ n - 1 \in 1 .. l - 1
                         /\ chain'[n - 1] = chain[n] /\ chain[n] \in Nodes
                         /\ chain[n] # start.first
                         /\ memory'[chain[n]] = memory[chain[n]]
  <2> SUFFICES ASSUME NEW n \in 2 .. l
               PROVE  /\ n \in 1 .. l /\ n - 1 \in 1 .. l - 1
                      /\ chain'[n - 1] = chain[n] /\ chain[n] \in Nodes
                      /\ chain[n] # start.first
                      /\ memory'[chain[n]] = memory[chain[n]]
    OBVIOUS
  <2>1. n \in 1 .. l /\ n - 1 \in 1 .. l - 1 /\ n - 1 + 1 = n
    OBVIOUS
  <2>2. chain'[n - 1] = chain[n] /\ chain[n] \in Nodes
    BY <1>3, <1>5, <2>1 DEF DequeInv, Structure, DequeTypes
  <2>3. chain[n] # start.first
    BY <1>3, <1>4, <2>1 DEF DequeInv, Structure, DequeTypes, Distinct
  <2>4. memory'[chain[n]] = memory[chain[n]]
    BY <1>1, <2>2, <2>3 DEF DequeInv, Structure, DequeTypes
  <2> QED BY <2>1, <2>2, <2>3, <2>4
<1>13. DequeTypes'
  <2>1. Distinct(chain')
    BY <1>3, <1>5 DEF DequeInv, Structure, DequeTypes, Distinct
  <2>2. memory' \in [Nodes -> [Indices -> Jobs \cup {NoJob}]]
    BY <1>1 DEF DequeInv, Structure, DequeTypes, Uninitialized
  <2>3. DOMAIN map' = DOMAIN map
    BY <1>1
  <2> QED
    BY <1>2, <1>5, <2>1, <2>2, <2>3 DEF DequeInv, Structure, DequeTypes
<1>14. Mapped'
  <2> SUFFICES ASSUME NEW n \in 1 .. l - 1
               PROVE  a + 1 + n - 1 \in DOMAIN map'
                      /\ map'[a + 1 + n - 1] = chain'[n]
    BY <1>5, <1>11 DEF Mapped, Slots
  <2>1. n + 1 \in 1 .. l /\ a + (n + 1) - 1 = a + 1 + n - 1 /\ a + 1 + n - 1 # a
    OBVIOUS
  <2>2. a + 1 + n - 1 \in DOMAIN map /\ map[a + 1 + n - 1] = chain[n + 1]
    BY <1>3, <1>11, <2>1 DEF DequeInv, Structure, Mapped, Slots
  <2> QED BY <1>1, <1>5, <1>9, <2>1, <2>2
<1>15. FinishOK'
  <2>1. /\ b - 1 \in 1 .. l - 1 /\ c - 1 \in 1 .. l - 1
        /\ finish.cur.node = chain'[b - 1]
    BY <1>6, <1>8, <1>10, <1>12
  <2>2. finish.first = chain'[c - 1] /\ finish.slot = a + 1 + (c - 1) - 1
    <3>1. finish.first = chain[c] /\ finish.slot = a + c - 1 /\ c \in 2 .. l
      BY <1>8, <1>10, <1>11 DEF DequeInv, Structure, FinishOK
    <3>2. a + 1 + (c - 1) - 1 = a + c - 1
      OBVIOUS
    <3> QED BY <1>12, <3>1, <3>2
  <2>3. At(finish.cur)' = At(finish.cur)
    BY <1>2, <1>6, <1>8, <1>12 DEF At
  <2>4. Slots' = Slots
    BY <1>1 DEF Slots
  <2> QED
    BY <1>2, <1>5, <1>11, <2>1, <2>2, <2>3, <2>4
    DEF DequeInv, Structure, FinishOK
<1>16. /\ Upto' = Upto - NodeSize
       /\ Elements(memory', chain', 0, Upto - NodeSize) = Tail(Contents)
  <2>1. PICK m : m = memory'
    OBVIOUS
  <2>7. PICK d : d = chain'
    OBVIOUS
  <2>8. Shifted(memory, chain, m, d, b)
    BY <1>12, <2>1, <2>7 DEF Shifted
  <2>2. Contents = Elements(memory, chain, NodeSize - 1, Upto)
    BY <1>7, ContentsAre DEF DequeInv, ContentsWhere
  <2>4. b \in Nat \ {0, 1}
    BY <1>8
  <2>5. /\ Elements(m, d, 0, Upto - NodeSize)
              = Tail(Elements(memory, chain, NodeSize - 1, Upto))
        /\ Upto - NodeSize = NodeSize * (b - 1 - 1) + i
    <3>1. PICK u \in Nat : u = Upto
      BY <1>7
    <3>2. u = NodeSize * (b - 1) + i
      BY <1>7, <3>1
    <3>3. PICK f : f = NodeSize - 1
      OBVIOUS
    <3>4. PICK v : v = u - NodeSize
      OBVIOUS
    <3>7. PICK e : e = b - 1
      OBVIOUS
    <3>8. u = NodeSize * e + i
      BY <3>2, <3>7
    <3>9. Elements(m, d, 0, v) = Tail(Elements(memory, chain, f, u))
      BY <2>4, <2>8, <3>3, <3>4, <3>7, <3>8, DropBlock
    <3>10. v = NodeSize * (b - 1 - 1) + i
      <4>1. PICK z \in Nat, y \in Nat : z = NodeSize /\ y = b - 1 - 1
        BY <2>4, SizeAssumption
      <4>2. z * (b - 1) = z * y + z /\ z * y \in Nat /\ z * (b - 1) \in Nat
        BY <4>1
      <4> QED BY <3>2, <3>4, <4>1, <4>2 DEF Indices
    <3> QED BY <3>1, <3>3, <3>4, <3>9, <3>10
  <2>6. Upto' = NodeSize * (b - 1 - 1) + i
    BY <1>2, <1>6, <1>11 DEF Upto
  <2> QED BY <2>1, <2>2, <2>5, <2>6, <2>7
<1>17. InOrder'
  BY <1>2, <1>7, <1>16, SizeAssumption DEF InOrder
<1>18. StartOK'
  BY <1>2 DEF StartOK
<1>19. Structure'
  BY <1>13, <1>14, <1>15, <1>17, <1>18 DEF Structure
<1>20. Contents' = Tail(Contents)
  BY <1>7, <1>16, <1>19, ContentsAreNext DEF ContentsWhere
<1>21. JobsOK'
  BY <1>2, <1>20, FrontLeaves DEF DequeInv, JobsOK
<1>22. Found = <<Head(Contents)>> /\ Found' = <<>> /\ Contents # <<>>
  BY <1>2, FrontLeaves DEF Found
<1> QED BY <1>19, <1>20, <1>21, <1>22 DEF DequeInv

\* start goes to the slot of the next block.
LEMMA PopTurnStep == ASSUME DequeInv, PopTurns PROVE DequeInv' /\ Still
<1>1. /\ pc = "turn" /\ pc' = "first"
      /\ start' = [start EXCEPT !.slot = start.slot + 1,
                                !.first = map[start.slot + 1]]
      /\ UNCHANGED <<map, memory, finish, chain, pushing, step, live, current>>
  BY DEF PopTurns, SetNode
<1>2. PICK a \in Nat : a = start.slot + 1 /\ a = Base
  BY <1>1 DEF DequeInv, Structure, DequeTypes, Iterator, Base
<1>3. map[a] = chain[1] /\ chain[1] \in Nodes
  <2>1. 1 \in 1 .. Len(chain) /\ a + 1 - 1 = a
    BY DEF DequeInv, Structure, DequeTypes, FinishOK
  <2>2. chain[1] \in Nodes
    BY <2>1 DEF DequeInv, Structure, DequeTypes
  <2>3. map[Base + 1 - 1] = chain[1]
    BY <2>1 DEF DequeInv, Structure, Mapped
  <2> QED BY <1>2, <2>1, <2>2, <2>3
<1>4. start' \in Iterator /\ start'.slot = a /\ start'.first = chain[1]
      /\ start'.cur = start.cur
  BY <1>1, <1>2, <1>3 DEF DequeInv, Structure, DequeTypes, Iterator
<1>5. /\ Base' = Base /\ From' = From /\ Upto' = Upto
      /\ EndBlock' = EndBlock /\ FinishBlock' = FinishBlock
  BY <1>1, <1>2, <1>4 DEF Base, From, Upto, EndBlock, FinishBlock, Ahead, AtEnd
<1>6. DequeTypes' /\ StartOK'
  BY <1>1, <1>4 DEF DequeInv, Structure, DequeTypes, StartOK
<1>7. Mapped' /\ FinishOK' /\ InOrder'
  BY <1>1, <1>5
  DEF DequeInv, Structure, Mapped, FinishOK, InOrder, Slots, AtEnd, At
<1>8. Still
  BY <1>1 DEF Still, Contents, Found
<1>9. JobsOK'
  BY <1>1, <1>8 DEF DequeInv, JobsOK, Still
<1> QED BY <1>6, <1>7, <1>8, <1>9 DEF DequeInv, Structure

\* start enters that block.
LEMMA PopEnterStep == ASSUME DequeInv, PopEntersBlock PROVE DequeInv' /\ Still
<1>1. /\ pc = "first" /\ pc' = "test"
      /\ start' = [start EXCEPT !.cur = [node |-> start.first, index |-> 0]]
      /\ live' = live \ {current} /\ current' = NoJob
      /\ UNCHANGED <<map, memory, finish, chain, pushing, step>>
  BY DEF PopEntersBlock, EndPop, FirstOf
<1>2. /\ start' \in Iterator /\ start'.slot = start.slot
      /\ start'.first = start.first /\ start'.cur.node = start.first
      /\ start'.cur.index = 0
  <2>1. 0 \in Indices
    BY SizeAssumption DEF Indices
  <2> QED
    BY <1>1, <2>1 DEF DequeInv, Structure, DequeTypes, Iterator, Pointer
<1>3. /\ Base' = Base /\ From' = From /\ Upto' = Upto
      /\ EndBlock' = EndBlock /\ FinishBlock' = FinishBlock
  BY <1>1, <1>2 DEF Base, From, Upto, EndBlock, FinishBlock, Ahead, AtEnd
<1>4. DequeTypes'
  <2>1. IsFiniteSet(live') /\ live' \subseteq Jobs
    BY <1>1, FS_RemoveElement DEF DequeInv, Structure, DequeTypes
  <2> QED BY <1>1, <1>2, <2>1 DEF DequeInv, Structure, DequeTypes
<1>5. StartOK'
  BY <1>1, <1>2 DEF DequeInv, Structure, StartOK
<1>6. Mapped' /\ FinishOK' /\ InOrder'
  BY <1>1, <1>3
  DEF DequeInv, Structure, Mapped, FinishOK, InOrder, Slots, AtEnd, At
<1>7. Still
  BY <1>1, <1>2 DEF Still, Contents, Found
<1>8. JobsOK'
  <2>1. PICK q \in Seq(live \ {pushing}) : q = Contents
    BY DEF DequeInv, JobsOK
  <2>2. /\ current \in live \ {pushing}
        /\ \A a \in 1 .. Len(q) : q[a] # current
    BY <1>1, <2>1 DEF DequeInv, JobsOK
  <2>3. \A a \in 1 .. Len(q) : q[a] \in live' \ {pushing'}
    BY <1>1, <2>1, <2>2
  <2>4. q \in Seq(live' \ {pushing'})
    BY <2>1, <2>3
  <2> QED
    BY <1>1, <1>7, <2>1, <2>2, <2>4 DEF DequeInv, JobsOK, Still
<1> QED BY <1>4, <1>5, <1>6, <1>7, <1>8 DEF DequeInv, Structure

\* Within a block start moves on to the next element.
LEMMA PopAdvanceStep ==
  ASSUME DequeInv, PopAdvances
  PROVE  /\ DequeInv' /\ Contents # <<>> /\ Contents' = Tail(Contents)
         /\ Found = <<Head(Contents)>> /\ Found' = <<>>
<1>1. /\ pc = "advance" /\ pc' = "test"
      /\ start' = [start EXCEPT !.cur.index = @ + 1]
      /\ live' = live \ {current} /\ current' = NoJob
      /\ UNCHANGED <<map, memory, finish, chain, pushing, step>>
  BY DEF PopAdvances, EndPop, NextOf
<1>2. PICK j \in Indices : j = start.cur.index /\ j # NodeSize - 1
  BY <1>1 DEF DequeInv, Structure, DequeTypes, StartOK, Iterator, Pointer
<1>3. j + 1 \in Indices
  BY <1>2, SizeAssumption DEF Indices
<1>4. /\ start' \in Iterator /\ start'.slot = start.slot
      /\ start'.first = start.first /\ start'.cur.node = start.cur.node
      /\ start'.cur.index = j + 1
  BY <1>1, <1>2, <1>3 DEF DequeInv, Structure, DequeTypes, Iterator, Pointer
<1>5. /\ Base' = Base /\ From' = From + 1 /\ Upto' = Upto
      /\ EndBlock' = EndBlock /\ FinishBlock' = FinishBlock
  BY <1>1, <1>2, <1>4 DEF Base, From, Upto, EndBlock, FinishBlock, Ahead, AtEnd
<1>6. /\ From \in Nat /\ Upto \in Nat /\ From < Upto
  BY <1>1, ContentsLen, FrontLeaves
<1>7. DequeTypes'
  <2>1. IsFiniteSet(live') /\ live' \subseteq Jobs
    BY <1>1, FS_RemoveElement DEF DequeInv, Structure, DequeTypes
  <2> QED BY <1>1, <1>4, <2>1 DEF DequeInv, Structure, DequeTypes
<1>8. StartOK'
  BY <1>1, <1>4 DEF DequeInv, Structure, StartOK
<1>9. Mapped' /\ FinishOK'
  BY <1>1, <1>5
  DEF DequeInv, Structure, Mapped, FinishOK, Slots, AtEnd, At
<1>10. InOrder'
  BY <1>1, <1>5, <1>6 DEF InOrder
<1>11. Structure'
  BY <1>7, <1>8, <1>9, <1>10 DEF Structure
<1>12. Contents' = Tail(Contents)
  <2>1. Contents = Elements(memory, chain, From, Upto)
        /\ Contents \in Seq(live \ {pushing})
    BY ContentsAre DEF DequeInv, JobsOK, ContentsWhere
  <2>2. Contents' = Elements(memory, chain, From + 1, Upto)
    BY <1>1, <1>5, <1>11, ContentsAreNext DEF ContentsWhere
  <2>3. PICK f \in Nat, n \in Nat, u \in Nat :
          f = From /\ n = f + 1 /\ u = Upto /\ f < u
    BY <1>6
  <2>4. Elements(memory, chain, n, u) = Rest(Elements(memory, chain, f, u))
    BY <2>3, DropElement
  <2> QED BY <2>1, <2>2, <2>3, <2>4 DEF Rest
<1>13. JobsOK'
  <2>1. PICK q \in Seq(live \ {pushing}) : q = Tail(Contents)
    BY <1>1, FrontLeaves
  <2>4. \A a \in 1 .. Len(q) : q[a] \in live' \ {pushing'}
    BY <1>1, <2>1, FrontLeaves
  <2>2. q \in Seq(live' \ {pushing'})
    BY <2>1, <2>4, SeqAlso
  <2>3. pushing # current
    BY <1>1, FrontLeaves
  <2> QED
    BY <1>1, <1>12, <2>1, <2>2, <2>3, FrontLeaves DEF DequeInv, JobsOK
<1>14. Found = <<Head(Contents)>> /\ Found' = <<>> /\ Contents # <<>>
  BY <1>1, FrontLeaves DEF Found
<1> QED BY <1>11, <1>12, <1>13, <1>14 DEF DequeInv

-----------------------------------------------------------------------------
(* The theorems.                                                           *)

\* A step of the deque is one of the queue or none.
LEMMA StepSimulation ==
  DequeInv /\ [Next]_vars => DequeInv' /\ [Queue!Next]_(Queue!vars)
<1> SUFFICES ASSUME DequeInv, [Next]_vars
             PROVE  DequeInv' /\ [Queue!Next]_(Queue!vars)
  OBVIOUS
<1>1. ASSUME DequeInv', Still
      PROVE  DequeInv' /\ [Queue!Next]_(Queue!vars)
  BY <1>1 DEF Still, Queue!vars
<1>2. CASE UNCHANGED vars
  <2>1. DequeInv'
    <3>1. UNCHANGED <<EndBlock, FinishBlock, Base, From, Upto, Slots, Contents>>
      BY <1>2
      DEF AtEnd, Ahead, EndBlock, FinishBlock, Base, From, Upto, Slots, Contents, vars
    <3>2. DequeTypes' /\ Mapped' /\ StartOK' /\ InOrder'
      BY <1>2, <3>1
      DEF vars, DequeInv, Structure, DequeTypes, Mapped, StartOK, InOrder
    <3>3. FinishOK'
      BY <1>2, <3>1 DEF vars, DequeInv, Structure, FinishOK, AtEnd, At
    <3>4. JobsOK'
      BY <1>2, <3>1 DEF vars, DequeInv, JobsOK
    <3> QED BY <3>2, <3>3, <3>4 DEF DequeInv, Structure
  <2>2. Still
    BY <1>2 DEF Still, Contents, Found, vars
  <2> QED BY <2>1, <2>2, <1>1
<1>3. ASSUME ~Overlap, PushStep
      PROVE  DequeInv' /\ [Queue!Next]_(Queue!vars)
  <2>1. CASE ChoosePath
    BY <2>1, <1>1, ChooseStep
  <2>2. CASE CopyMap
    BY <2>2, <1>1, <1>3, CopyStep
  <2>3. CASE LinkBlock
    BY <2>3, <1>1, LinkStep
  <2>4. CASE Construct
    BY <2>4, <1>1, ConstructStep
  <2>5. CASE PushTurns
    BY <2>5, <1>1, TurnStep
  <2>6. CASE PushAdvances
    <3>1. DequeInv' /\ Queue!Put
      <4>1. /\ DequeInv' /\ Found' = Found /\ pushing \in Jobs \ Range(Contents)
            /\ Contents' = Append(Contents, pushing)
        BY <2>6, AdvanceStep
      <4>2. \E j \in Jobs \ Range(Contents) : Contents' = Append(Contents, j)
        BY <4>1
      <4>3. Queue!Put
        BY <4>1, <4>2 DEF Queue!Put, Queue!Range, Range
      <4> QED BY <4>1, <4>3
    <3> QED BY <3>1 DEF Queue!Next
  <2>7. CASE PushEntersBlock
    <3>1. DequeInv' /\ Queue!Put
      <4>1. /\ DequeInv' /\ Found' = Found /\ pushing \in Jobs \ Range(Contents)
            /\ Contents' = Append(Contents, pushing)
        BY <2>7, EnterBlockStep
      <4>2. \E j \in Jobs \ Range(Contents) : Contents' = Append(Contents, j)
        BY <4>1
      <4>3. Queue!Put
        BY <4>1, <4>2 DEF Queue!Put, Queue!Range, Range
      <4> QED BY <4>1, <4>3
    <3> QED BY <3>1 DEF Queue!Next
  <2> QED BY <1>3, <2>1, <2>2, <2>3, <2>4, <2>5, <2>6, <2>7 DEF PushStep
<1>4. ASSUME LoopStep
      PROVE  DequeInv' /\ [Queue!Next]_(Queue!vars)
  <2>1. CASE LookIntoQueue
    <3>1. CASE Contents = <<>>
      <4>1. DequeInv' /\ Queue!Look
        BY <2>1, <3>1, LookStep DEF Queue!Look
      <4> QED BY <4>1 DEF Queue!Next
    <3>2. CASE Contents # <<>>
      <4>1. DequeInv' /\ Still
        BY <2>1, <3>2, LookStep DEF Still
      <4> QED BY <4>1, <1>1
    <3> QED BY <3>1, <3>2
  <2>2. CASE LookAgain
    <3>1. DequeInv' /\ Queue!LookLater
      BY <2>2, AgainStep DEF Queue!LookLater
    <3> QED BY <3>1 DEF Queue!Next
  <2>3. CASE TakeFront
    <3>1. DequeInv' /\ Queue!Look
      BY <2>3, FrontStep DEF Queue!Look
    <3> QED BY <3>1 DEF Queue!Next
  <2>4. CASE FinishCallback
    BY <2>4, <1>1, FinishStep
  <2>5. CASE FreeBlock
    <3>1. DequeInv' /\ Queue!Drop
      BY <2>5, FreeStep DEF Queue!Drop
    <3> QED BY <3>1 DEF Queue!Next
  <2>6. CASE PopTurns
    BY <2>6, <1>1, PopTurnStep
  <2>7. CASE PopAdvances
    <3>1. DequeInv' /\ Queue!Drop
      BY <2>7, PopAdvanceStep DEF Queue!Drop
    <3> QED BY <3>1 DEF Queue!Next
  <2>8. CASE PopEntersBlock
    BY <2>8, <1>1, PopEnterStep
  <2> QED
    BY <1>4, <2>1, <2>2, <2>3, <2>4, <2>5, <2>6, <2>7, <2>8 DEF LoopStep
<1>5. ASSUME NEW j \in Jobs, PushFromThread(j) \/ PushFromLoop(j)
      PROVE  DequeInv' /\ [Queue!Next]_(Queue!vars)
  BY <1>1, <1>5, EnterStep
<1> QED BY <1>2, <1>3, <1>4, <1>5 DEF Next

\* The iterators stay in order, the blocks in the map, and the jobs in the
\* queue distinct, as long as there is no overlap.
THEOREM DequeInvariant == Spec => []DequeInv
<1>1. Init => DequeInv
  BY DequeInit
<1>2. DequeInv /\ [Next]_vars => DequeInv'
  BY StepSimulation
<1> QED BY <1>1, <1>2, PTL DEF Spec

\* callbackQueue is a queue to its users until an overlap, after which the
\* deque does not go on, although the loop thread calls empty, front and pop
\* without the mutex that pushes hold (EventLoop.cpp 105-109, 132, 198-200).
THEOREM DequeIsQueue == Spec => ImplementsJobQueue
<1>1. Init => Queue!Init
  BY DequeInit DEF Queue!Init
<1>2. DequeInv /\ [Next]_vars => [Queue!Next]_(Queue!vars)
  BY StepSimulation
<1> QED BY <1>1, <1>2, DequeInvariant, PTL DEF Spec, ImplementsJobQueue, Queue!Spec

\* At an overlap the queue, the job that is being pushed and the one that is
\* being dropped are more than a block holds.
LEMMA Backlog ==
  ASSUME DequeInv, Overlap
  PROVE  Cardinality(live) > NodeSize
<1>1. /\ step = "copy" /\ pc \in {"free", "turn"} /\ AtEnd
      /\ pushing # NoJob /\ pushing \in live
  BY DEF Overlap, DequeInv, Structure, FinishOK, JobsOK
<1>2. PICK n \in Nat \ {0} : n = NodeSize
  BY SizeAssumption
<1>3. PICK q \in Seq(live \ {pushing}) :
        q = Contents /\ \A a, b \in 1 .. Len(q) : q[a] = q[b] => a = b
  BY DEF DequeInv, JobsOK, Distinct
<1>4. PICK l \in Nat \ {0} : l = Len(chain) /\ l = EndBlock
  BY <1>1 DEF DequeInv, Structure, DequeTypes, FinishOK, EndBlock, Ahead
<1>5. /\ Len(q) = Upto - From /\ Upto = n * (l - 1) + (n - 1)
      /\ Upto \in Nat /\ From \in Nat
  BY <1>1, <1>2, <1>3, <1>4, ContentsLen DEF Upto, AtEnd
<1>6. IsFiniteSet(live) /\ Cardinality(live) \in Nat
  BY FS_CardinalityType DEF DequeInv, Structure, DequeTypes
<1>7. PICK image : image = {q[a] : a \in 1 .. Len(q)}
  OBVIOUS
<1>8. image \subseteq live \ {pushing} /\ Cardinality(image) = Len(q)
      /\ IsFiniteSet(image)
  <2>1. q \in Bijection(1 .. Len(q), image)
    BY <1>3, <1>7 DEF Bijection, Injection, Surjection, IsInjective
  <2>2. image \subseteq live \ {pushing}
    BY <1>3, <1>7
  <2> QED BY <2>1, <2>2, <1>6, FS_CountingElements, FS_Subset DEF ExistsBijection
<1>9. pushing \notin image /\ Cardinality(image \cup {pushing}) = Len(q) + 1
      /\ IsFiniteSet(image \cup {pushing})
  BY <1>8, FS_AddElement
<1>10. CASE pc = "free"
  <2>1. From = n - 1 /\ From < Upto
    BY <1>2, <1>10 DEF From, DequeInv, Structure, StartOK, InOrder
  <2>2. l # 1
    <3>1. n * (1 - 1) = 0
      OBVIOUS
    <3> QED BY <1>5, <2>1, <3>1
  <2>3. PICK k \in Nat : k = l - 2
    BY <2>2
  <2>4. n * (l - 1) = n * k + n /\ n * k \in Nat
    BY <2>3
  <2>5. Len(q) >= n
    BY <1>5, <2>1, <2>4
  <2>6. Cardinality(image \cup {pushing}) <= Cardinality(live)
    BY <1>1, <1>6, <1>8, FS_Subset
  <2> QED BY <1>2, <1>6, <1>9, <2>5, <2>6
<1>11. CASE pc = "turn"
  <2>1. From = 0
    BY <1>11 DEF From
  <2>2. n * (l - 1) \in Nat
    BY <1>4
  <2>3. Len(q) >= n - 1
    BY <1>5, <2>1, <2>2
  <2>4. current \in live \ {pushing} /\ current \notin image
    BY <1>3, <1>7, <1>11 DEF DequeInv, JobsOK
  <2>5. Cardinality(image \cup {pushing} \cup {current}) = Len(q) + 1 + 1
    BY <1>9, <2>4, FS_AddElement
  <2>6. Cardinality(image \cup {pushing} \cup {current}) <= Cardinality(live)
    <3>1. image \cup {pushing} \cup {current} \subseteq live
      BY <1>1, <1>8, <2>4
    <3> QED BY <3>1, <1>6, FS_Subset
  <2> QED BY <1>2, <1>6, <2>3, <2>5, <2>6
<1> QED BY <1>1, <1>10, <1>11

\* Relocating the map cannot meet the loop thread between two blocks unless
\* more jobs than a block holds exist at the same time.
THEOREM OverlapIsBacklog == Spec => []OverlapNeedsBacklog
<1>1. DequeInv => OverlapNeedsBacklog
  BY Backlog DEF OverlapNeedsBacklog
<1> QED BY <1>1, DequeInvariant, PTL

=============================================================================
