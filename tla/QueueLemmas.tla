----------------------------- MODULE QueueLemmas -----------------------------
(***************************************************************************)
(* Facts about a queue of distinct elements, kept as a sequence: what      *)
(* pushing at the back and popping at the front do to its elements.        *)
(***************************************************************************)
EXTENDS SequenceTheorems, TLAPS

\* The empty queue has no element.
LEMMA EmptyQueue ==
  /\ Range(<<>>) = {}
  /\ IsInjective(<<>>)
BY DEF Range, IsInjective

\* The elements of a queue of S are in S.
LEMMA QueueRange ==
  ASSUME NEW S, NEW q \in Seq(S)
  PROVE  Range(q) \subseteq S
BY LenProperties, ElementOfSeq DEF Range

\* A queue is empty exactly when it has no element.
LEMMA QueueEmpty ==
  ASSUME NEW S, NEW q \in Seq(S)
  PROVE  q = <<>> <=> Range(q) = {}
<1>1. q # <<>> => 1 \in DOMAIN q
  BY LenProperties, EmptySeq
<1> QED BY <1>1, EmptyQueue DEF Range

\* Push adds one element; if it is new, the elements remain distinct.
LEMMA Push ==
  ASSUME NEW S, NEW q \in Seq(S), NEW e \in S
  PROVE  /\ Append(q, e) \in Seq(S)
         /\ Append(q, e) # <<>>
         /\ q # <<>> => Head(Append(q, e)) = Head(q)
         /\ Range(Append(q, e)) = Range(q) \cup {e}
         /\ IsInjective(q) /\ e \notin Range(q) => IsInjective(Append(q, e))
<1> DEFINE r == Append(q, e)
           n == Len(q)
<1>1. /\ r \in Seq(S) /\ r # <<>> /\ Len(r) = n + 1
      /\ \A i \in 1 .. n : r[i] = q[i]
      /\ r[n + 1] = e
  BY AppendProperties
<1>2. n \in Nat /\ DOMAIN q = 1 .. n /\ DOMAIN r = 1 .. n + 1
  BY <1>1, LenProperties
<1>3. q # <<>> => Head(r) = Head(q)
  BY HeadTailAppend
<1>4. Range(r) = Range(q) \cup {e}
  BY <1>1, <1>2 DEF Range
<1>5. ASSUME IsInjective(q), e \notin Range(q)
      PROVE  IsInjective(r)
  <2> SUFFICES ASSUME NEW a \in 1 .. n + 1, NEW b \in 1 .. n + 1, r[a] = r[b]
               PROVE  a = b
    BY <1>2 DEF IsInjective
  <2>1. CASE a \in 1 .. n /\ b \in 1 .. n
    BY <2>1, <1>1, <1>2, <1>5 DEF IsInjective
  <2>2. CASE a = n + 1 /\ b \in 1 .. n
    BY <2>2, <1>1, <1>2, <1>5 DEF Range
  <2>3. CASE a \in 1 .. n /\ b = n + 1
    BY <2>3, <1>1, <1>2, <1>5 DEF Range
  <2> QED BY <2>1, <2>2, <2>3, <1>2
<1> QED BY <1>1, <1>3, <1>4, <1>5

\* The front of a nonempty queue is one of its elements.
LEMMA Front ==
  ASSUME NEW S, NEW q \in Seq(S), q # <<>>
  PROVE  Head(q) \in Range(q) /\ Head(q) \in S
<1>1. 1 \in DOMAIN q /\ Head(q) = q[1]
  BY LenProperties, EmptySeq
<1> QED BY <1>1, HeadTailProperties DEF Range

\* Pop removes the front, and only the front if the elements are distinct.
LEMMA Pop ==
  ASSUME NEW S, NEW q \in Seq(S), q # <<>>, IsInjective(q)
  PROVE  /\ Tail(q) \in Seq(S)
         /\ Range(Tail(q)) = Range(q) \ {Head(q)}
         /\ IsInjective(Tail(q))
<1> DEFINE r == Tail(q)
           n == Len(q)
<1>1. /\ r \in Seq(S) /\ Len(r) = n - 1
      /\ \A i \in 1 .. n - 1 : r[i] = q[i + 1]
  BY HeadTailProperties
<1>2. n \in Nat \ {0} /\ DOMAIN q = 1 .. n /\ DOMAIN r = 1 .. n - 1
  BY <1>1, LenProperties, EmptySeq
<1>3. Head(q) = q[1]
  BY <1>2
<1>4. IsInjective(r)
  <2> SUFFICES ASSUME NEW a \in 1 .. n - 1, NEW b \in 1 .. n - 1, r[a] = r[b]
               PROVE  a = b
    BY <1>2 DEF IsInjective
  <2>1. q[a + 1] = q[b + 1] /\ a + 1 \in 1 .. n /\ b + 1 \in 1 .. n
    BY <1>1, <1>2
  <2>2. a + 1 = b + 1
    BY <2>1, <1>2 DEF IsInjective
  <2> QED BY <2>2, <1>2
<1>5. Range(r) \subseteq Range(q) \ {Head(q)}
  <2> SUFFICES ASSUME NEW i \in 1 .. n - 1
               PROVE  r[i] \in Range(q) /\ r[i] # Head(q)
    BY <1>2 DEF Range
  <2>1. r[i] = q[i + 1] /\ i + 1 \in 1 .. n /\ i + 1 # 1 /\ 1 \in 1 .. n
    BY <1>1, <1>2
  <2> QED BY <2>1, <1>2, <1>3 DEF Range, IsInjective
<1>6. Range(q) \ {Head(q)} \subseteq Range(r)
  <2> SUFFICES ASSUME NEW i \in 1 .. n, q[i] # q[1]
               PROVE  q[i] \in Range(r)
    BY <1>2, <1>3 DEF Range
  <2>1. i - 1 \in 1 .. n - 1 /\ r[i - 1] = q[i]
    BY <1>1, <1>2
  <2> QED BY <2>1, <1>2 DEF Range
<1> QED BY <1>1, <1>4, <1>5, <1>6
=============================================================================
