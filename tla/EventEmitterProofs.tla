------------------------- MODULE EventEmitterProofs --------------------------
(***************************************************************************)
(* Whom an emission calls, and what removing a listener takes from the     *)
(* list, proved for any texts and any bounds.                              *)
(***************************************************************************)
EXTENDS EventEmitter, SequenceTheorems, FiniteSetTheorems,
        WellFoundedInduction, TLAPS

-----------------------------------------------------------------------------
(* Sets of naturals.                                                       *)

\* Every set of naturals that is not empty has a least element.
LEMMA LeastNatural ==
  ASSUME NEW T, T \subseteq Nat, T # {}
  PROVE  \E m \in T : \A n \in T : m <= n
<1>1. PICK R : R = OpToRel(<, Nat)
  OBVIOUS
<1>2. IsWellFoundedOn(R, Nat)
  BY <1>1, NatLessThanWellFounded
<1>3. \A m, n \in Nat : m < n => <<m, n>> \in R
  BY <1>1 DEF OpToRel
<1>4. PICK x \in T : \A y \in T : ~(<<y, x>> \in R)
  BY <1>2, WFMin
<1>5. ASSUME NEW n \in T
      PROVE  x <= n
  <2>1. x \in Nat /\ n \in Nat /\ ~(n < x)
    BY <1>3, <1>4
  <2> QED BY <2>1
<1> QED BY <1>5

\* Min is that element.
LEMMA MinIsLeast ==
  ASSUME NEW T, T \subseteq Nat, T # {}
  PROVE  Min(T) \in T /\ \A n \in T : Min(T) <= n
BY LeastNatural DEF Min

-----------------------------------------------------------------------------
(* removeListener.                                                         *)

Registrations == [token : Nat, text : Texts \cup {Wrapper}]

\* The registrations that are adjacent to the k-th and before it, itself
\* included, with its text only in between.
Block(list, k) ==
  {j \in 1 .. k : \A m \in j .. k : list[m].text = list[k].text}

\* The distance from the first of a block grows by one within the block.
LEMMA InBlockStep ==
  ASSUME NEW list \in Seq(Registrations), NEW k \in 1 .. Len(list)
  PROVE  /\ InBlock(list, k) \in Nat
         /\ k > 1 /\ list[k - 1].text = list[k].text =>
              InBlock(list, k) = InBlock(list, k - 1) + 1
         /\ k = 1 \/ list[k - 1].text # list[k].text => InBlock(list, k) = 0
<1>1. \A n \in 1 .. Len(list) :
        /\ Block(list, n) \subseteq Nat /\ n \in Block(list, n)
        /\ InBlock(list, n) = n - Min(Block(list, n))
  BY DEF Block, InBlock
<1>2. \A n \in 1 .. Len(list) :
        /\ Min(Block(list, n)) \in Block(list, n)
        /\ \A j \in Block(list, n) : Min(Block(list, n)) <= j
  BY <1>1, MinIsLeast
<1>3. InBlock(list, k) \in Nat
  <2>1. Min(Block(list, k)) \in 1 .. k
    BY <1>2 DEF Block
  <2> QED BY <1>1, <2>1
<1>4. ASSUME k > 1, list[k - 1].text = list[k].text
      PROVE  InBlock(list, k) = InBlock(list, k - 1) + 1
  <2>1. k - 1 \in 1 .. Len(list)
    BY <1>4
  <2>2. Block(list, k) = Block(list, k - 1) \cup {k}
    <3>1. ASSUME NEW j \in Block(list, k - 1)
          PROVE  j \in Block(list, k)
      BY <1>4, <2>1, <3>1 DEF Block
    <3>2. ASSUME NEW j \in Block(list, k), j # k
          PROVE  j \in Block(list, k - 1)
      BY <1>4, <2>1, <3>2 DEF Block
    <3> QED BY <3>1, <3>2, <1>1
  <2>3. Min(Block(list, k)) = Min(Block(list, k - 1))
    <3>1. PICK a : a = Min(Block(list, k - 1))
      OBVIOUS
    <3>2. PICK b : b = Min(Block(list, k))
      OBVIOUS
    <3>3. a \in Block(list, k - 1) /\ \A j \in Block(list, k - 1) : a <= j
      BY <3>1, <2>1, <1>2
    <3>4. b \in Block(list, k) /\ \A j \in Block(list, k) : b <= j
      BY <3>2, <1>2
    <3>5. a \in Nat /\ b \in Nat /\ a <= k - 1
      BY <3>3, <3>4, <2>1, <1>1 DEF Block
    <3>6. a = b
      BY <3>3, <3>4, <3>5, <2>2
    <3> QED BY <3>1, <3>2, <3>6
  <2>4. Min(Block(list, k)) \in Nat
    BY <1>1, <1>2
  <2> QED BY <1>1, <2>1, <2>3, <2>4
<1>5. ASSUME k = 1 \/ list[k - 1].text # list[k].text
      PROVE  InBlock(list, k) = 0
  <2>1. Block(list, k) = {k}
    BY <1>5 DEF Block
  <2> QED BY <2>1, <1>1, <1>2
<1> QED BY <1>3, <1>4, <1>5

\* RemoveAt closes the gap.
LEMMA RemoveAtIndex ==
  ASSUME NEW S, NEW s \in Seq(S), NEW i \in 1 .. Len(s)
  PROVE  /\ RemoveAt(s, i) \in Seq(S) /\ Len(RemoveAt(s, i)) = Len(s) - 1
         /\ \A n \in 1 .. Len(s) - 1 :
              RemoveAt(s, i)[n] = IF n < i THEN s[n] ELSE s[n + 1]
<1>1. /\ SubSeq(s, 1, i - 1) \in Seq(S) /\ Len(SubSeq(s, 1, i - 1)) = i - 1
      /\ SubSeq(s, i + 1, Len(s)) \in Seq(S)
      /\ Len(SubSeq(s, i + 1, Len(s))) = Len(s) - i
      /\ \A n \in 1 .. i - 1 : SubSeq(s, 1, i - 1)[n] = s[n]
      /\ \A n \in 1 .. Len(s) - i : SubSeq(s, i + 1, Len(s))[n] = s[i + n]
  OBVIOUS
<1>2. PICK a \in Seq(S) : a = SubSeq(s, 1, i - 1)
  BY <1>1
<1>3. PICK b \in Seq(S) : b = SubSeq(s, i + 1, Len(s))
  BY <1>1
<1>4. Len(a) = i - 1 /\ Len(b) = Len(s) - i
  BY <1>1, <1>2, <1>3
<1>5. ASSUME NEW n \in 1 .. Len(s) - 1
      PROVE  (a \o b)[n] = IF n < i THEN s[n] ELSE s[n + 1]
  <2>1. CASE n < i
    <3>1. (a \o b)[n] = a[n]
      BY <2>1, <1>4
    <3> QED BY <3>1, <2>1, <1>1, <1>2
  <2>2. CASE ~(n < i)
    <3>1. (a \o b)[n] = b[n - (i - 1)]
      BY <2>2, <1>4
    <3>2. n - (i - 1) \in 1 .. Len(s) - i /\ i + (n - (i - 1)) = n + 1
      BY <2>2
    <3> QED BY <3>1, <3>2, <2>2, <1>1, <1>3
  <2> QED BY <2>1, <2>2
<1>6. a \o b \in Seq(S) /\ Len(a \o b) = Len(s) - 1
  BY <1>4
<1> QED BY <1>2, <1>3, <1>5, <1>6 DEF RemoveAt

\* One visit of the forEach in removeListener.
Visit(r, text, k) ==
  IF k <= Len(r) /\ r[k].text = text THEN RemoveAt(r, k) ELSE r

\* RemoveText is what the last of the visits leaves.
LEMMA RemoveTextLoop ==
  ASSUME NEW list, NEW text, Len(list) \in Nat
  PROVE  \E rest : /\ rest[0] = list
                   /\ \A k \in 1 .. Len(list) :
                        rest[k] = Visit(rest[k - 1], text, k)
                   /\ RemoveText(list, text) = rest[Len(list)]
<1> DEFINE Loop(g, m) ==
      g = [k \in 0 .. m |->
             IF k = 0 THEN list
             ELSE IF k <= Len(g[k - 1]) /\ g[k - 1][k].text = text
                  THEN RemoveAt(g[k - 1], k) ELSE g[k - 1]]
<1>1. \A m \in Nat : \E g : Loop(g, m)
  <2> SUFFICES ASSUME NEW n \in Nat, ~ \E g : Loop(g, n)
               PROVE  FALSE
    OBVIOUS
  <2>1. PICK m \in {k \in Nat : ~ \E g : Loop(g, k)} :
          \A k \in {k \in Nat : ~ \E g : Loop(g, k)} : m <= k
    <3> HIDE DEF Loop
    <3> QED BY LeastNatural
  <2>2. m # 0
    <3>1. Loop([k \in 0 .. 0 |-> list], 0)
      OBVIOUS
    <3> HIDE DEF Loop
    <3> QED BY <2>1, <3>1
  <2>3. \E g : Loop(g, m - 1)
    <3> HIDE DEF Loop
    <3> QED BY <2>1, <2>2
  <2>4. PICK g : Loop(g, m - 1)
    BY <2>3
  <2>5. PICK h : h = [k \in 0 .. m |->
                       IF k < m THEN g[k] ELSE Visit(g[m - 1], text, m)]
    OBVIOUS
  <2>6. ASSUME NEW k \in 0 .. m
        PROVE  h[k] = IF k = 0 THEN list ELSE Visit(h[k - 1], text, k)
    <3>1. CASE k = m
      BY <2>2, <2>5, <3>1
    <3>2. CASE k < m
      <4>1. \A l \in 0 .. m - 1 :
              g[l] = IF l = 0 THEN list ELSE Visit(g[l - 1], text, l)
        BY <2>4 DEF Visit
      <4>2. k \in 0 .. m - 1 /\ h[k] = g[k]
        BY <2>5, <3>2
      <4>3. k # 0 => h[k - 1] = g[k - 1]
        BY <2>5, <3>2
      <4> HIDE DEF Loop
      <4> QED BY <4>1, <4>2, <4>3
    <3> QED BY <3>1, <3>2
  <2>7. Loop(h, m)
    BY <2>5, <2>6 DEF Visit
  <2> HIDE DEF Loop
  <2> QED BY <2>1, <2>7
<1>2. \E g : Loop(g, Len(list))
  <2> HIDE DEF Loop
  <2> QED BY <1>1
<1>3. PICK rest : Loop(rest, Len(list))
                  /\ RemoveText(list, text) = rest[Len(list)]
  BY <1>2 DEF RemoveText
<1> QED BY <1>3 DEF Visit

Kept(list, text, k) == list[k].text # text \/ InBlock(list, k) % 2 = 1

\* `new' is what is left of `old', at the places e, in the old order; nothing
\* has moved further than the number of those that have gone.
Embeds(e, new, old) ==
  /\ e \in [1 .. Len(new) -> 1 .. Len(old)]
  /\ \A n \in 1 .. Len(new) :
       new[n] = old[e[n]] /\ n <= e[n] /\ e[n] <= n + Len(old) - Len(new)
  /\ \A m, n \in 1 .. Len(new) : m < n => e[m] < e[n]

\* After k visits: what was passed has been decided as Kept says, what is
\* behind has only moved up, and the next one, if it has the text, is removed.
Visited(list, text, k, r, e) ==
  LET d == Len(list) - Len(r)
  IN  /\ r \in Seq(Registrations) /\ d >= 0 /\ Embeds(e, r, list)
      /\ \A n \in 1 .. Len(r) :
           IF n <= k THEN Kept(list, text, e[n]) ELSE e[n] = n + d
      /\ \A j \in 1 .. Len(list) : j <= k + d /\ Kept(list, text, j) =>
           \E n \in 1 .. Len(r) : e[n] = j
      /\ k + d < Len(list) /\ list[k + d + 1].text = text =>
           InBlock(list, k + d + 1) % 2 = 0

\* A visit that removes nothing.
LEMMA VisitKeeps ==
  ASSUME NEW list \in Seq(Registrations), NEW text, NEW k \in 1 .. Len(list),
         NEW r, NEW e, Visited(list, text, k - 1, r, e),
         ~(k <= Len(r) /\ r[k].text = text)
  PROVE  Visited(list, text, k, r, e)
<1>1. PICK d : d = Len(list) - Len(r)
  OBVIOUS
<1>2. /\ r \in Seq(Registrations) /\ d \in Nat /\ Embeds(e, r, list)
      /\ \A n \in 1 .. Len(r) :
           IF n <= k - 1 THEN Kept(list, text, e[n]) ELSE e[n] = n + d
      /\ \A j \in 1 .. Len(list) : j <= k - 1 + d /\ Kept(list, text, j) =>
           \E n \in 1 .. Len(r) : e[n] = j
  BY <1>1 DEF Visited
<1>3. ASSUME k <= Len(r)
      PROVE  e[k] = k + d /\ list[k + d].text # text /\ k + d \in 1 .. Len(list)
  BY <1>2, <1>3 DEF Embeds
<1>4. ASSUME NEW n \in 1 .. Len(r)
      PROVE  IF n <= k THEN Kept(list, text, e[n]) ELSE e[n] = n + d
  <2>1. CASE n = k
    BY <1>3, <2>1 DEF Kept
  <2>2. CASE n # k
    BY <1>2, <2>2
  <2> QED BY <2>1, <2>2
<1>5. ASSUME NEW j \in 1 .. Len(list), j <= k + d, Kept(list, text, j)
      PROVE  \E n \in 1 .. Len(r) : e[n] = j
  <2>1. CASE j <= k - 1 + d
    BY <1>2, <1>5, <2>1
  <2>2. CASE j = k + d
    <3>1. k \in 1 .. Len(r)
      BY <1>1, <1>2, <2>2
    <3> QED BY <3>1, <1>3, <2>2
  <2> QED BY <2>1, <2>2, <1>2, <1>5
<1>6. ASSUME k + d < Len(list), list[k + d + 1].text = text
      PROVE  InBlock(list, k + d + 1) % 2 = 0
  <2>1. k <= Len(r) /\ k + d + 1 \in 1 .. Len(list)
    BY <1>1, <1>2, <1>6
  <2>3. PICK q \in 1 .. Len(list) : q = k + d + 1
    BY <2>1
  <2>2. list[q - 1].text # list[q].text
    <3>1. q - 1 = k + d
      BY <1>2, <2>3
    <3> QED BY <3>1, <1>2, <1>3, <1>6, <2>1, <2>3
  <2>4. InBlock(list, q) = 0
    BY <2>2, InBlockStep
  <2> QED BY <2>3, <2>4
<1> QED BY <1>1, <1>2, <1>4, <1>5, <1>6 DEF Visited

\* A visit that removes the k-th of what is left.
LEMMA VisitRemoves ==
  ASSUME NEW list \in Seq(Registrations), NEW text, NEW k \in 1 .. Len(list),
         NEW r, NEW e, Visited(list, text, k - 1, r, e),
         k <= Len(r), r[k].text = text
  PROVE  \E f : Visited(list, text, k, RemoveAt(r, k), f)
<1>1. PICK d : d = Len(list) - Len(r)
  OBVIOUS
<1>2. /\ r \in Seq(Registrations) /\ d \in Nat /\ Embeds(e, r, list)
      /\ \A n \in 1 .. Len(r) :
           IF n <= k - 1 THEN Kept(list, text, e[n]) ELSE e[n] = n + d
      /\ \A j \in 1 .. Len(list) : j <= k - 1 + d /\ Kept(list, text, j) =>
           \E n \in 1 .. Len(r) : e[n] = j
      /\ k + d <= Len(list) /\ list[k + d].text = text =>
           InBlock(list, k + d) % 2 = 0
  <2>1. k - 1 + d + 1 = k + d /\ (k - 1 + d < Len(list) <=> k + d <= Len(list))
    BY <1>1 DEF Visited
  <2> QED BY <1>1, <2>1 DEF Visited
<1>3. PICK s : s = RemoveAt(r, k)
  OBVIOUS
<1>4. /\ s \in Seq(Registrations) /\ Len(s) = Len(r) - 1
      /\ \A n \in 1 .. Len(s) : s[n] = IF n < k THEN r[n] ELSE r[n + 1]
  <2>1. r \in Seq(Registrations) /\ k \in 1 .. Len(r)
    BY <1>2
  <2> QED BY <2>1, <1>3, RemoveAtIndex
<1>5. PICK q \in 1 .. Len(list) : q = k + d
  BY <1>1, <1>2
<1>6. /\ e[k] = q /\ list[q].text = text /\ ~Kept(list, text, q)
  BY <1>2, <1>5 DEF Embeds, Kept
<1>7. PICK f : f = [n \in 1 .. Len(s) |-> IF n < k THEN e[n] ELSE e[n + 1]]
  OBVIOUS
<1>8. Embeds(f, s, list)
  <2>1. ASSUME NEW n \in 1 .. Len(s)
        PROVE  /\ f[n] \in 1 .. Len(list) /\ s[n] = list[f[n]] /\ n <= f[n]
               /\ f[n] <= n + Len(list) - Len(s)
    <3>3. n + Len(list) - Len(s) = n + 1 + d
      BY <1>1, <1>2, <1>4
    <3>4. \A m \in 1 .. Len(r) : /\ e[m] \in 1 .. Len(list) /\ m <= e[m]
                                 /\ r[m] = list[e[m]] /\ e[m] <= m + d
      <4>1. \A m \in 1 .. Len(r) : m + Len(list) - Len(r) = m + d
        BY <1>1, <1>2
      <4> QED BY <1>2, <4>1 DEF Embeds
    <3>1. CASE n < k
      <4>1. n \in 1 .. Len(r) /\ f[n] = e[n] /\ s[n] = r[n]
        <5>1. Len(r) \in Nat /\ Len(s) = Len(r) - 1
          BY <1>2, <1>4
        <5> QED BY <5>1, <1>4, <1>7, <3>1
      <4>2. e[n] \in Int /\ e[n] <= n + d
        BY <4>1, <3>4
      <4> QED BY <4>1, <4>2, <3>3, <3>4, <1>2
    <3>2. CASE n >= k
      <4>1. n + 1 \in 1 .. Len(r) /\ f[n] = e[n + 1] /\ s[n] = r[n + 1]
        BY <1>2, <1>4, <1>7, <3>2
      <4>2. n <= e[n + 1] /\ e[n + 1] <= n + 1 + d
        BY <4>1, <3>4
      <4> QED BY <4>1, <4>2, <3>3, <3>4
    <3> QED BY <3>1, <3>2
  <2>2. ASSUME NEW m \in 1 .. Len(s), NEW n \in 1 .. Len(s), m < n
        PROVE  f[m] < f[n]
    BY <1>2, <1>4, <1>7, <2>2 DEF Embeds
  <2> QED BY <1>7, <2>1, <2>2 DEF Embeds
<1>9. \A n \in 1 .. Len(s) : n > k => f[n] = n + d + 1
  BY <1>2, <1>4, <1>7
<1>10. ASSUME q < Len(list)
       PROVE  /\ k \in 1 .. Len(s) /\ f[k] = q + 1 /\ Kept(list, text, q + 1)
              /\ list[q + 1].text = text => InBlock(list, q + 1) % 2 = 1
  <2>1. k \in 1 .. Len(s) /\ f[k] = q + 1
    BY <1>1, <1>2, <1>4, <1>5, <1>7, <1>10
  <2>2. PICK p \in 1 .. Len(list) : p = q + 1
    BY <1>10
  <2>3. ASSUME list[p].text = text
        PROVE  InBlock(list, p) % 2 = 1
    <3>1. p > 1 /\ p - 1 = q /\ list[p - 1].text = list[p].text
      BY <1>6, <2>2, <2>3
    <3>3. InBlock(list, p) = InBlock(list, p - 1) + 1
      BY <3>1, InBlockStep
    <3>2. InBlock(list, q) \in Nat /\ InBlock(list, q) % 2 = 0
      BY <1>6, InBlockStep DEF Kept
    <3> QED BY <3>1, <3>2, <3>3
  <2> QED BY <2>1, <2>2, <2>3 DEF Kept
<1>11. ASSUME NEW n \in 1 .. Len(s)
       PROVE  IF n <= k THEN Kept(list, text, f[n]) ELSE f[n] = n + (d + 1)
  <2>1. CASE n < k
    BY <1>2, <1>4, <1>7, <2>1
  <2>2. CASE n = k
    <3>1. q < Len(list)
      BY <1>1, <1>2, <1>4, <1>5, <2>2
    <3> QED BY <3>1, <1>10, <2>2
  <2>3. CASE n > k
    BY <1>9, <1>2, <2>3
  <2> QED BY <2>1, <2>2, <2>3
<1>12. ASSUME NEW j \in 1 .. Len(list), j <= k + (d + 1), Kept(list, text, j)
       PROVE  \E n \in 1 .. Len(s) : f[n] = j
  <2>1. CASE j <= k - 1 + d
    <3>1. PICK n \in 1 .. Len(r) : e[n] = j
      BY <1>2, <1>12, <2>1
    <3>2. n < k
      BY <1>2, <2>1, <3>1
    <3> QED BY <3>1, <3>2, <1>4, <1>7
  <2>2. CASE j = q
    BY <2>2, <1>6, <1>12
  <2>3. CASE j = q + 1
    BY <2>3, <1>10
  <2> QED BY <2>1, <2>2, <2>3, <1>2, <1>5, <1>12
<1>13. ASSUME k + (d + 1) < Len(list), list[k + (d + 1) + 1].text = text
       PROVE  InBlock(list, k + (d + 1) + 1) % 2 = 0
  <2>1. PICK p \in 1 .. Len(list) : p = q + 2
    BY <1>2, <1>5, <1>13
  <2>2. PICK o \in 1 .. Len(list) : o = q + 1
    BY <1>2, <1>5, <1>13
  <2>3. k + (d + 1) + 1 = p /\ q < Len(list)
    BY <1>2, <1>5, <1>13, <2>1
  <2>4. CASE list[o].text = text
    <3>1. InBlock(list, p) = InBlock(list, o) + 1
      BY <1>13, <2>1, <2>2, <2>3, <2>4, InBlockStep
    <3>2. InBlock(list, o) \in Nat /\ InBlock(list, o) % 2 = 1
      BY <1>10, <2>2, <2>3, <2>4, InBlockStep
    <3> QED BY <2>3, <3>1, <3>2
  <2>5. CASE list[o].text # text
    <3>1. InBlock(list, p) = 0
      BY <1>13, <2>1, <2>2, <2>3, <2>5, InBlockStep
    <3> QED BY <2>3, <3>1
  <2> QED BY <2>4, <2>5
<1>14. Len(list) - Len(s) = d + 1 /\ d + 1 >= 0
  BY <1>1, <1>2, <1>4
<1> QED BY <1>3, <1>4, <1>8, <1>11, <1>12, <1>13, <1>14 DEF Visited

LEMMA AllVisited ==
  ASSUME NEW list \in Seq(Registrations), NEW text
  PROVE  \E e : Visited(list, text, Len(list), RemoveText(list, text), e)
<1>1. Len(list) \in Nat
  OBVIOUS
<1>2. PICK rest : /\ rest[0] = list
                  /\ \A k \in 1 .. Len(list) :
                       rest[k] = Visit(rest[k - 1], text, k)
                  /\ RemoveText(list, text) = rest[Len(list)]
  BY <1>1, RemoveTextLoop
<1>3. Visited(list, text, 0, list, [n \in 1 .. Len(list) |-> n])
  <2>1. PICK e : e = [n \in 1 .. Len(list) |-> n]
    OBVIOUS
  <2>2. Embeds(e, list, list) /\ Len(list) - Len(list) = 0
    BY <2>1 DEF Embeds
  <2>3. ASSUME 0 + 0 < Len(list), list[0 + 0 + 1].text = text
        PROVE  InBlock(list, 0 + 0 + 1) % 2 = 0
    <3>1. InBlock(list, 1) = 0
      BY <2>3, InBlockStep
    <3> QED BY <3>1
  <2> QED BY <2>1, <2>2, <2>3 DEF Visited
<1>4. ASSUME NEW k \in 1 .. Len(list),
             \E e : Visited(list, text, k - 1, rest[k - 1], e)
      PROVE  \E e : Visited(list, text, k, rest[k], e)
  <2>1. PICK r : r = rest[k - 1]
    OBVIOUS
  <2>2. PICK e : Visited(list, text, k - 1, r, e)
    BY <1>4, <2>1
  <2>3. rest[k] = Visit(r, text, k)
    BY <1>2, <2>1
  <2>4. CASE k <= Len(r) /\ r[k].text = text
    BY <2>2, <2>3, <2>4, VisitRemoves DEF Visit
  <2>5. CASE ~(k <= Len(r) /\ r[k].text = text)
    BY <2>2, <2>3, <2>5, VisitKeeps DEF Visit
  <2> QED BY <2>4, <2>5
<1>5. \A k \in 0 .. Len(list) : \E e : Visited(list, text, k, rest[k], e)
  <2> DEFINE Wrong == {k \in 0 .. Len(list) :
                        ~ \E e : Visited(list, text, k, rest[k], e)}
  <2> SUFFICES ASSUME Wrong # {} PROVE FALSE
    OBVIOUS
  <2>1. PICK k \in Wrong : \A n \in Wrong : k <= n
    <3>1. Wrong \subseteq Nat
      OBVIOUS
    <3> HIDE DEF Wrong
    <3> QED BY <3>1, LeastNatural
  <2>2. k # 0
    BY <1>2, <1>3
  <2>3. k - 1 \in 0 .. Len(list) /\ k - 1 \notin Wrong
    BY <1>1, <2>1, <2>2
  <2> QED BY <1>4, <2>2, <2>3
<1> QED BY <1>1, <1>2, <1>5

\* What removeListener leaves, and where it was.
LEMMA Removal ==
  ASSUME NEW list \in Seq(Registrations), NEW text
  PROVE  /\ RemoveText(list, text) \in Seq(Registrations)
         /\ Len(RemoveText(list, text)) <= Len(list)
         /\ \E e : /\ Embeds(e, RemoveText(list, text), list)
                  /\ \A j \in 1 .. Len(list) :
                       Kept(list, text, j) <=>
                         \E n \in 1 .. Len(RemoveText(list, text)) : e[n] = j
<1>1. PICK new, e : /\ new = RemoveText(list, text)
                    /\ Visited(list, text, Len(list), new, e)
  BY AllVisited
<1>2. /\ new \in Seq(Registrations) /\ Len(list) - Len(new) >= 0
      /\ Embeds(e, new, list)
      /\ \A n \in 1 .. Len(new) : n <= Len(list) => Kept(list, text, e[n])
      /\ \A j \in 1 .. Len(list) :
           j <= Len(list) + (Len(list) - Len(new)) /\ Kept(list, text, j) =>
             \E n \in 1 .. Len(new) : e[n] = j
  BY <1>1 DEF Visited
<1>3. Len(new) \in Nat /\ Len(list) \in Nat /\ Len(new) <= Len(list)
  BY <1>2
<1> QED BY <1>1, <1>2, <1>3

-----------------------------------------------------------------------------
(* Which registrations are removed.                                        *)

\* The places that are kept are counted by the list that is left.
LEMMA CountKept ==
  ASSUME NEW list \in Seq(Registrations), NEW new \in Seq(Registrations),
         NEW e, Embeds(e, new, list),
         NEW kept, \A j : j \in kept <=> \E n \in 1 .. Len(new) : j = e[n]
  PROVE  /\ Cardinality(kept) = Len(new)
         /\ \A n \in 1 .. Len(new) :
              Cardinality({j \in kept : j < e[n]}) = n - 1
<1>4. Len(new) \in Nat /\ \A n \in 1 .. Len(new) : e[n] \in Nat
  BY DEF Embeds
<1>5. \A a, b \in 1 .. Len(new) : a < b => e[a] < e[b]
  BY DEF Embeds
<1>6. \A a, b \in 1 .. Len(new) : (e[a] < e[b] <=> a < b) /\ (e[a] = e[b] => a = b)
  <2> SUFFICES ASSUME NEW a \in 1 .. Len(new), NEW b \in 1 .. Len(new)
               PROVE  (e[a] < e[b] <=> a < b) /\ (e[a] = e[b] => a = b)
    OBVIOUS
  <2>1. CASE a < b
    BY <1>4, <1>5, <2>1
  <2>2. CASE b < a
    BY <1>4, <1>5, <2>2
  <2>3. CASE a = b
    BY <1>4, <2>3
  <2> QED BY <2>1, <2>2, <2>3
<1>1. ASSUME NEW m \in 0 .. Len(new)
      PROVE  Cardinality({e[n] : n \in 1 .. m}) = m
  <2>1. PICK f : f = [n \in 1 .. m |-> e[n]]
    OBVIOUS
  <2>2. PICK image : image = {e[n] : n \in 1 .. m}
    OBVIOUS
  <2>3. \A a, b \in 1 .. m : f[a] = f[b] => a = b
    <3>1. \A a \in 1 .. m : a \in 1 .. Len(new) /\ f[a] = e[a]
      BY <1>4, <2>1
    <3> QED BY <3>1, <1>6
  <2>4. f \in Bijection(1 .. m, image)
    BY <2>1, <2>2, <2>3 DEF Bijection, Injection, Surjection, IsInjective
  <2> QED BY <2>2, <2>4, FS_CountingElements DEF ExistsBijection
<1>2. ASSUME NEW n \in 1 .. Len(new)
      PROVE  {j \in kept : j < e[n]} = {e[m] : m \in 1 .. n - 1}
  <2>1. \A a \in 1 .. Len(new) : e[a] < e[n] <=> a \in 1 .. n - 1
    BY <1>4, <1>6
  <2>2. 1 .. n - 1 \subseteq 1 .. Len(new)
    BY <1>4
  <2> QED BY <2>1, <2>2
<1>3. ASSUME NEW n \in 1 .. Len(new)
      PROVE  Cardinality({j \in kept : j < e[n]}) = n - 1
  <2>1. n - 1 \in 0 .. Len(new)
    OBVIOUS
  <2> QED BY <1>1, <1>2, <2>1
<1>7. Cardinality(kept) = Len(new)
  <2>1. kept = {e[n] : n \in 1 .. Len(new)}
    OBVIOUS
  <2> QED BY <1>1, <1>4, <2>1
<1> QED BY <1>3, <1>7

\* The places that are kept, in their order.
Left(list, text) ==
  LET kept == {k \in DOMAIN list :
                 list[k].text # text \/ InBlock(list, k) % 2 = 1} IN
  [n \in 1 .. Cardinality(kept) |->
     list[CHOOSE k \in kept : Cardinality({j \in kept : j < k}) = n - 1]]

\* RemovesAlternate, of any list and any text.
LEMMA Alternate ==
  ASSUME NEW list \in Seq(Registrations), NEW text
  PROVE  RemoveText(list, text) = Left(list, text)
<1>1. PICK new : new = RemoveText(list, text)
  OBVIOUS
<1>2. PICK e : /\ new \in Seq(Registrations) /\ Embeds(e, new, list)
               /\ \A j \in 1 .. Len(list) : Kept(list, text, j) <=>
                     \E n \in 1 .. Len(new) : e[n] = j
  BY <1>1, Removal
<1>3. PICK kept : kept = {k \in DOMAIN list :
                            list[k].text # text \/ InBlock(list, k) % 2 = 1}
  OBVIOUS
<1>4. kept = {e[n] : n \in 1 .. Len(new)}
  <2>1. \A n \in 1 .. Len(new) : e[n] \in 1 .. Len(list)
    BY <1>2 DEF Embeds
  <2>2. kept = {j \in 1 .. Len(list) : Kept(list, text, j)}
    BY <1>3 DEF Kept
  <2> QED BY <1>2, <2>1, <2>2
<1>5. /\ Cardinality(kept) = Len(new)
      /\ \A n \in 1 .. Len(new) :
           Cardinality({j \in kept : j < e[n]}) = n - 1
  <2>1. \A j : j \in kept <=> \E n \in 1 .. Len(new) : j = e[n]
    BY <1>4
  <2> QED BY <1>2, <2>1, CountKept
<1>6. ASSUME NEW n \in 1 .. Len(new)
      PROVE  new[n] = list[CHOOSE k \in kept :
                             Cardinality({j \in kept : j < k}) = n - 1]
  <2>1. \A k \in kept : Cardinality({j \in kept : j < k}) = n - 1 <=> k = e[n]
    BY <1>4, <1>5
  <2>2. (CHOOSE k \in kept : Cardinality({j \in kept : j < k}) = n - 1) = e[n]
    BY <2>1, <1>4
  <2> QED BY <2>2, <1>2 DEF Embeds
<1>7. new = [n \in 1 .. Cardinality(kept) |->
               list[CHOOSE k \in kept :
                      Cardinality({j \in kept : j < k}) = n - 1]]
  <2>1. new = [n \in 1 .. Len(new) |-> new[n]]
    BY <1>2
  <2> QED BY <2>1, <1>5, <1>6
<1> QED BY <1>1, <1>3, <1>7 DEF Left

\* A text that is in the list once is gone.
LEMMA OnlyOneRemoved ==
  ASSUME NEW list \in Seq(Registrations), NEW text,
         \A a, b \in 1 .. Len(list) :
           list[a].text = text /\ list[b].text = text => a = b
  PROVE  \A n \in 1 .. Len(RemoveText(list, text)) :
           RemoveText(list, text)[n].text # text
<1>1. PICK new, e : /\ new = RemoveText(list, text)
                    /\ Embeds(e, new, list)
                    /\ \A j \in 1 .. Len(list) : Kept(list, text, j) <=>
                          \E n \in 1 .. Len(new) : e[n] = j
  BY Removal
<1>2. SUFFICES ASSUME NEW n \in 1 .. Len(new), new[n].text = text
               PROVE  FALSE
  BY <1>1
<1>3. PICK j \in 1 .. Len(list) : j = e[n]
  BY <1>1 DEF Embeds
<1>4. list[j].text = text /\ Kept(list, text, j)
  BY <1>1, <1>2, <1>3 DEF Embeds
<1>5. InBlock(list, j) % 2 = 1
  BY <1>4 DEF Kept
<1>6. j > 1 /\ list[j - 1].text = list[j].text
  <2>1. InBlock(list, j) # 0
    BY <1>5
  <2> QED BY <2>1, InBlockStep
<1>7. j - 1 \in 1 .. Len(list) /\ j - 1 # j
  BY <1>6
<1> QED BY <1>4, <1>6, <1>7

-----------------------------------------------------------------------------
(* The invariant.                                                          *)

Frame ==
  [at : Nat, length : Nat, current : Registrations \cup {<<>>},
   start : Seq(Registrations), called : Seq(Registrations), removed : Nat]

EmitterTypes ==
  /\ events \in Seq(Registrations)
  /\ frames \in Seq(Frame)
  /\ registered \in 0 .. MaxRegistrations
  /\ calls \in [1 .. MaxRegistrations -> Nat]
  /\ calm \in BOOLEAN

\* Registrations are in the order of their tokens, all given out already.
Ordered ==
  /\ \A n \in 1 .. Len(events) : events[n].token \in 1 .. registered
  /\ \A m, n \in 1 .. Len(events) :
       m < n => events[m].token < events[n].token

\* How many places of the list forEach has visited.
Pos(f) == IF f.current = <<>> THEN f.at ELSE f.at + 1

\* An emission has called in order, and nobody who is behind its index.
CallsPassed(f, list, last) ==
  /\ \A a, b \in 1 .. Len(f.called) :
       a < b => f.called[a].token < f.called[b].token
  /\ \A a \in 1 .. Len(f.called) :
       /\ f.called[a].token <= last
       /\ \A n \in 1 .. Len(list) :
            n > Pos(f) => f.called[a].token < list[n].token

\* The places that were visited of which no one was called who is there now.
Skipped(f, list) ==
  {n \in 1 .. Pos(f) : n <= Len(list) => list[n] \notin ToSet(f.called)}

FewSkipped(f, list) == Cardinality(Skipped(f, list)) <= f.removed

Late(f) == ToSet(f.called) \ ToSet(f.start)

\* Those of the start come first, `s' of them; the late ones that have been
\* called, with those that still can be, are no more than were removed.
FewLate(f, list, last) ==
  /\ f.length = Len(f.start)
  /\ \A a \in 1 .. Len(f.start) : f.start[a].token <= last
  /\ Cardinality(Late(f)) <= f.removed
  /\ \E s \in 0 .. Len(list) :
       /\ s <= f.length
       /\ \A n \in 1 .. Len(list) : list[n] \in ToSet(f.start) <=> n <= s
       /\ \/ Cardinality(Late(f)) + f.length - Pos(f) <= f.removed
          \/ Cardinality(Late(f)) + f.length - s <= f.removed

FrameOK(f, list, last) ==
  /\ CallsPassed(f, list, last)
  /\ FewSkipped(f, list)
  /\ FewLate(f, list, last)

FramesOK == \A k \in 1 .. Len(frames) : FrameOK(frames[k], events, registered)

\* While calm, there is one wrapper at most, and if it was called, it is in
\* that call.
WrapperInCall ==
  /\ \A t \in 1 .. MaxRegistrations : t > registered => calls[t] = 0
  /\ calm =>
       /\ \A m, n \in 1 .. Len(events) :
            IsWrapper(events[m]) /\ IsWrapper(events[n]) => m = n
       /\ \A n \in 1 .. Len(events) : IsWrapper(events[n]) =>
            \/ calls[events[n].token] = 0
            \/ /\ calls[events[n].token] = 1
               /\ \E k \in 1 .. Len(frames) : frames[k].current = events[n]

EmitterInv == EmitterTypes /\ Ordered /\ FramesOK /\ WrapperInCall

-----------------------------------------------------------------------------
(* What becomes of an emission when the list changes.                      *)

\* A list that is kept in order is still in order when some are gone.
LEMMA OrderEmbeds ==
  ASSUME NEW list \in Seq(Registrations), NEW new \in Seq(Registrations), NEW e,
         Embeds(e, new, list),
         \A m, n \in 1 .. Len(list) :
           m < n => list[m].token < list[n].token
  PROVE  \A m, n \in 1 .. Len(new) : m < n => new[m].token < new[n].token
BY DEF Embeds

\* The sum of two bounds bounds the union.
LEMMA UnionBound ==
  ASSUME NEW A, NEW B, IsFiniteSet(A), IsFiniteSet(B), NEW S, S \subseteq A \cup B
  PROVE  /\ IsFiniteSet(S)
         /\ Cardinality(S) <= Cardinality(A) + Cardinality(B)
<1>1. /\ IsFiniteSet(A \cup B)
      /\ Cardinality(A \cup B)
           = Cardinality(A) + Cardinality(B) - Cardinality(A \cap B)
  BY FS_Union
<1>2. Cardinality(A \cap B) \in Nat /\ Cardinality(A) \in Nat
      /\ Cardinality(B) \in Nat
  <2>1. IsFiniteSet(A \cap B)
    BY FS_Intersection
  <2> QED BY <2>1, FS_CardinalityType
<1>3. IsFiniteSet(S) /\ Cardinality(S) <= Cardinality(A \cup B)
  BY <1>1, FS_Subset
<1>4. Cardinality(S) \in Nat
  BY <1>3, FS_CardinalityType
<1> QED BY <1>1, <1>2, <1>3, <1>4

\* g is f after a step that neither visits nor calls.
Follows(f, g) ==
  /\ g.length = f.length /\ g.start = f.start
  /\ g.called = f.called /\ Pos(g) = Pos(f)

LEMMA SkippedFinite ==
  ASSUME NEW f \in Frame, NEW list
  PROVE  /\ Pos(f) \in Nat
         /\ IsFiniteSet(Skipped(f, list)) /\ Cardinality(Skipped(f, list)) \in Nat
<1>1. Pos(f) \in Nat
  BY DEF Frame, Pos
<1>2. IsFiniteSet(1 .. Pos(f)) /\ Skipped(f, list) \subseteq 1 .. Pos(f)
  BY <1>1, FS_Interval DEF Skipped
<1> QED BY <1>1, <1>2, FS_Subset, FS_CardinalityType

\* At most r of the numbers up to p are within r of p.
LEMMA LastPlaces ==
  ASSUME NEW r \in Nat, NEW p \in Nat
  PROVE  /\ IsFiniteSet({n \in 1 .. p : n + r > p})
         /\ Cardinality({n \in 1 .. p : n + r > p}) <= r
<1>0. PICK B : B = {n \in 1 .. p : n + r > p}
  OBVIOUS
<1> SUFFICES IsFiniteSet(B) /\ Cardinality(B) <= r
  BY <1>0
<1>1. CASE r <= p
  <2>1. PICK q \in Int : q = p - r + 1
    OBVIOUS
  <2>2. B = q .. p
    BY <1>0, <1>1, <2>1
  <2>3. /\ IsFiniteSet(q .. p)
        /\ Cardinality(q .. p) = IF q > p THEN 0 ELSE p - q + 1
    BY FS_Interval
  <2> QED BY <2>1, <2>2, <2>3
<1>2. CASE r > p
  <2>1. B = 1 .. p
    BY <1>0, <1>2
  <2>2. /\ IsFiniteSet(1 .. p)
        /\ Cardinality(1 .. p) = IF 1 > p THEN 0 ELSE p - 1 + 1
    BY FS_Interval
  <2> QED BY <1>2, <2>1, <2>2
<1> QED BY <1>1, <1>2

\* Removals make forEach step over no more than were removed.
LEMMA SkipRemoved ==
  ASSUME NEW list \in Seq(Registrations), NEW new \in Seq(Registrations), NEW e,
         Embeds(e, new, list), Len(new) <= Len(list),
         NEW f \in Frame, NEW g \in Frame, Follows(f, g),
         g.removed = f.removed + (Len(list) - Len(new)),
         FewSkipped(f, list)
  PROVE  FewSkipped(g, new)
<1>1. PICK r \in Nat : r = Len(list) - Len(new)
  OBVIOUS
<1>2. PICK p \in Nat : p = Pos(f)
  BY SkippedFinite
<1>3. PICK old : old = Skipped(f, list)
  OBVIOUS
<1>4. /\ IsFiniteSet(old) /\ Cardinality(old) \in Nat
      /\ Cardinality(old) <= f.removed
  BY <1>3, SkippedFinite DEF FewSkipped
<1>5. PICK move : move = [n \in 1 .. p |->
                            IF n <= Len(new) /\ e[n] <= p THEN e[n] ELSE n + r]
  OBVIOUS
<1>6. PICK A : A = {n \in Skipped(g, new) : move[n] <= p}
  OBVIOUS
<1>7. PICK B : B = {n \in 1 .. p : n + r > p}
  OBVIOUS
<1>8. IsFiniteSet(B) /\ Cardinality(B) <= r
  BY <1>7, LastPlaces
<1>9. \A n \in 1 .. Len(new) : /\ e[n] \in 1 .. Len(list) /\ new[n] = list[e[n]]
                              /\ e[n] <= n + r
  <2>1. \A n \in 1 .. Len(new) : n + Len(list) - Len(new) = n + r
    BY <1>1
  <2> QED BY <2>1 DEF Embeds
<1>10. \A m, n \in 1 .. Len(new) : e[m] = e[n] => m = n
  <2> SUFFICES ASSUME NEW m \in 1 .. Len(new), NEW n \in 1 .. Len(new), m # n
               PROVE  e[m] # e[n]
    OBVIOUS
  <2>1. CASE m < n
    BY <1>9, <2>1 DEF Embeds
  <2>2. CASE n < m
    BY <1>9, <2>2 DEF Embeds
  <2> QED BY <2>1, <2>2
<1>11. ASSUME NEW n \in A
       PROVE  move[n] \in old
  <2>1. n \in 1 .. p /\ (n <= Len(new) => new[n] \notin ToSet(f.called))
    BY <1>2, <1>6 DEF Skipped, Follows
  <2>2. CASE n <= Len(new) /\ e[n] <= p
    BY <1>2, <1>3, <1>5, <1>9, <2>1, <2>2 DEF Skipped
  <2>3. CASE ~(n <= Len(new) /\ e[n] <= p)
    <3>1. move[n] = n + r /\ n + r <= p
      BY <1>5, <1>6, <2>1, <2>3
    <3>2. ~(n <= Len(new))
      BY <1>9, <2>1, <2>3, <3>1
    <3>3. n + r > Len(list)
      BY <1>1, <2>1, <3>2
    <3> QED BY <1>2, <1>3, <2>1, <3>1, <3>3 DEF Skipped
  <2> QED BY <2>2, <2>3
<1>12. ASSUME NEW m \in A, NEW n \in A, move[m] = move[n]
       PROVE  m = n
  <2>1. m \in 1 .. p /\ n \in 1 .. p /\ move[m] <= p /\ move[n] <= p
    BY <1>2, <1>6 DEF Skipped, Follows
  <2>2. \A k \in 1 .. p : move[k] <= p =>
          \/ k \in 1 .. Len(new) /\ move[k] = e[k] /\ move[k] <= Len(list)
          \/ ~(k \in 1 .. Len(new)) /\ move[k] = k + r /\ move[k] > Len(list)
    <3> SUFFICES ASSUME NEW k \in 1 .. p, move[k] <= p
                 PROVE  \/ k \in 1 .. Len(new) /\ move[k] = e[k]
                           /\ move[k] <= Len(list)
                        \/ ~(k \in 1 .. Len(new)) /\ move[k] = k + r
                           /\ move[k] > Len(list)
      OBVIOUS
    <3>1. CASE k <= Len(new)
      BY <1>5, <1>9, <3>1
    <3>2. CASE k > Len(new)
      BY <1>1, <1>5, <3>2
    <3> QED BY <3>1, <3>2
  <2>3. move[m] \in Int /\ move[n] \in Int
    <3>1. \A k \in 1 .. p : move[k] \in Int
      BY <1>5, <1>9
    <3> QED BY <2>1, <3>1
  <2> QED BY <1>10, <1>12, <2>1, <2>2, <2>3
<1>13. IsFiniteSet(A) /\ Cardinality(A) <= Cardinality(old)
  <2>1. PICK h : h = [n \in A |-> move[n]]
    OBVIOUS
  <2>2. h \in Injection(A, old)
    BY <1>11, <1>12, <2>1 DEF Injection, IsInjective
  <2> QED BY <1>4, <2>2, FS_Injection
<1>14. Skipped(g, new) \subseteq A \cup B
  <2>1. ASSUME NEW n \in Skipped(g, new)
        PROVE  n \in A \cup B
    <3>1. n \in 1 .. p
      BY <1>2 DEF Skipped, Follows
    <3>2. CASE move[n] <= p
      BY <1>6, <3>2
    <3>3. CASE ~(move[n] <= p)
      BY <1>5, <1>7, <1>9, <3>1, <3>3
    <3> QED BY <3>2, <3>3
  <2> QED BY <2>1
<1>15. Cardinality(Skipped(g, new)) <= Cardinality(A) + Cardinality(B)
  BY <1>8, <1>13, <1>14, UnionBound
<1>16. Cardinality(A) \in Nat /\ Cardinality(B) \in Nat
       /\ Cardinality(Skipped(g, new)) \in Nat /\ f.removed \in Nat
  BY <1>8, <1>13, FS_CardinalityType, SkippedFinite DEF Frame
<1> QED BY <1>1, <1>4, <1>8, <1>13, <1>15, <1>16 DEF FewSkipped

LEMMA LateFinite ==
  ASSUME NEW f \in Frame
  PROVE  /\ IsFiniteSet(ToSet(f.called)) /\ IsFiniteSet(Late(f))
         /\ Cardinality(Late(f)) \in Nat
<1>1. PICK c \in Seq(Registrations) : c = f.called
  BY DEF Frame
<1>2. c \in Surjection(1 .. Len(c), ToSet(c))
  BY <1>1 DEF Surjection, ToSet
<1>3. IsFiniteSet(1 .. Len(c))
  BY <1>1, FS_Interval
<1>4. IsFiniteSet(ToSet(c))
  BY <1>2, <1>3, FS_Surjection
<1>5. IsFiniteSet(Late(f))
  BY <1>1, <1>4, FS_Subset DEF Late
<1> QED BY <1>1, <1>4, <1>5, FS_CardinalityType

\* Removals let forEach reach no more late ones than were removed.
LEMMA LateRemoved ==
  ASSUME NEW list \in Seq(Registrations), NEW new \in Seq(Registrations), NEW e,
         Embeds(e, new, list), Len(new) <= Len(list), NEW last,
         NEW f \in Frame, NEW g \in Frame, Follows(f, g),
         g.removed = f.removed + (Len(list) - Len(new)),
         FewLate(f, list, last)
  PROVE  FewLate(g, new, last)
<1>1. PICK r \in Nat : r = Len(list) - Len(new)
  OBVIOUS
<1>2. PICK c \in Nat : c = Cardinality(Late(f)) /\ c = Cardinality(Late(g))
  BY LateFinite DEF Late, Follows
<1>3. PICK s \in 0 .. Len(list) :
        /\ s <= f.length
        /\ \A n \in 1 .. Len(list) : list[n] \in ToSet(f.start) <=> n <= s
        /\ c + f.length - Pos(f) <= f.removed \/ c + f.length - s <= f.removed
  BY <1>2 DEF FewLate
<1>4. /\ Pos(f) \in Nat /\ f.length \in Nat /\ f.removed \in Nat
      /\ g.length = f.length /\ Pos(g) = Pos(f) /\ g.start = f.start
      /\ g.removed = f.removed + r /\ c <= f.removed
  BY <1>1, <1>2, SkippedFinite DEF Frame, Follows, FewLate
<1>5. \A n \in 1 .. Len(new) : /\ e[n] \in 1 .. Len(list) /\ new[n] = list[e[n]]
                              /\ n <= e[n] /\ e[n] <= n + r
  <2>1. \A n \in 1 .. Len(new) : n + Len(list) - Len(new) = n + r
    BY <1>1
  <2> QED BY <2>1 DEF Embeds
<1>6. \A m, n \in 1 .. Len(new) : m < n => e[m] < e[n]
  BY DEF Embeds
\* The first place whose registration came later.
<1>7. PICK q : /\ q \in 1 .. Len(new) + 1
               /\ q <= Len(new) => e[q] > s
               /\ \A n \in 1 .. Len(new) : n < q => e[n] <= s
  <2> DEFINE T == {n \in 1 .. Len(new) + 1 : n <= Len(new) => e[n] > s}
  <2>1. T \subseteq Nat /\ Len(new) + 1 \in T
    OBVIOUS
  <2>2. PICK q \in T : \A n \in T : q <= n
    <3> HIDE DEF T
    <3> QED BY <2>1, LeastNatural
  <2>3. ASSUME NEW n \in 1 .. Len(new), n < q
        PROVE  e[n] <= s
    <3>1. n \notin T /\ n \in 1 .. Len(new) + 1
      BY <2>2, <2>3
    <3> QED BY <3>1, <1>5
  <2> QED BY <2>2, <2>3
<1>8. PICK t \in 0 .. Len(new) : t = q - 1
  BY <1>7
<1>9. ASSUME NEW n \in 1 .. Len(new)
      PROVE  new[n] \in ToSet(g.start) <=> n <= t
  <2>0. /\ e[n] \in 1 .. Len(list) /\ new[n] = list[e[n]]
        /\ new[n] \in ToSet(g.start) <=> e[n] <= s
    BY <1>3, <1>4, <1>5
  <2>1. CASE n < q
    <3>1. e[n] <= s /\ n <= t
      BY <1>7, <1>8, <2>1
    <3> QED BY <2>0, <3>1
  <2>2. CASE n >= q
    <3>1. q \in 1 .. Len(new)
      BY <1>7, <2>2
    <3>2. e[q] <= e[n] /\ e[q] \in Int /\ e[n] \in Int
      <4>1. CASE q = n
        BY <4>1, <1>5
      <4>2. CASE q < n
        BY <3>1, <4>2, <1>5, <1>6
      <4> QED BY <4>1, <4>2, <3>1, <2>2
    <3>3. e[q] > s
      BY <3>1, <1>7
    <3>4. ~(e[n] <= s)
      BY <3>2, <3>3, <1>3
    <3>5. ~(n <= t)
      BY <1>7, <1>8, <2>2
    <3> QED BY <2>0, <3>4, <3>5
  <2> QED BY <2>1, <2>2, <1>7
<1>10. t >= s - r
  <2>1. CASE q <= Len(new)
    <3>1. e[q] > s /\ e[q] <= q + r /\ e[q] \in Int
      BY <1>5, <1>7, <2>1
    <3> QED BY <1>3, <1>7, <1>8, <3>1
  <2>2. CASE q = Len(new) + 1
    BY <1>1, <1>3, <1>8, <2>2
  <2> QED BY <2>1, <2>2, <1>7
<1>11. t <= f.length
  <2>1. CASE t = 0
    BY <1>4, <2>1
  <2>2. CASE t > 0
    <3>1. t \in 1 .. Len(new) /\ e[t] <= s /\ t <= e[t] /\ e[t] \in Int
      BY <1>5, <1>7, <1>8, <2>2
    <3> QED BY <3>1, <1>3, <1>4
  <2> QED BY <2>1, <2>2
<1>12. \/ c + g.length - Pos(g) <= g.removed \/ c + g.length - t <= g.removed
  <2>1. CASE c + f.length - Pos(f) <= f.removed
    BY <1>4, <2>1
  <2>2. CASE c + f.length - s <= f.removed
    <3>1. PICK l \in Nat : l = f.length
      BY <1>4
    <3>2. PICK m \in Nat : m = f.removed
      BY <1>4
    <3>3. c + l - t <= m + r
      <4>1. c + l - s <= m
        BY <2>2, <3>1, <3>2
      <4>2. s \in Int /\ t \in Int
        OBVIOUS
      <4> QED BY <1>10, <4>1, <4>2
    <3> QED BY <1>4, <3>1, <3>2, <3>3
  <2> QED BY <1>3, <2>1, <2>2
<1>13. c <= g.removed
  BY <1>4
<1>14. /\ g.length = Len(g.start)
       /\ \A a \in 1 .. Len(g.start) : g.start[a].token <= last
  BY <1>4 DEF FewLate
<1> QED BY <1>2, <1>4, <1>9, <1>11, <1>12, <1>13, <1>14 DEF FewLate

\* Removals leave an emission in order.
LEMMA FrameRemoved ==
  ASSUME NEW list \in Seq(Registrations), NEW new \in Seq(Registrations), NEW e,
         Embeds(e, new, list), Len(new) <= Len(list), NEW last,
         NEW f \in Frame, NEW g \in Frame, Follows(f, g),
         g.removed = f.removed + (Len(list) - Len(new)),
         FrameOK(f, list, last)
  PROVE  FrameOK(g, new, last)
<1>1. FewSkipped(g, new) /\ FewLate(g, new, last)
  BY SkipRemoved, LateRemoved DEF FrameOK
<1>2. ASSUME NEW a \in 1 .. Len(g.called), NEW n \in 1 .. Len(new), n > Pos(g)
      PROVE  g.called[a].token < new[n].token
  <2>1. e[n] \in 1 .. Len(list) /\ n <= e[n] /\ new[n] = list[e[n]]
    BY DEF Embeds
  <2>2. Pos(f) \in Nat /\ Pos(f) = Pos(g)
    BY SkippedFinite DEF Follows
  <2>3. e[n] > Pos(f)
    BY <1>2, <2>1, <2>2
  <2> QED BY <2>1, <2>3 DEF FrameOK, CallsPassed, Follows
<1> QED BY <1>1, <1>2 DEF FrameOK, CallsPassed, Follows

\* A new listener, at the end of the list, disturbs no emission.
LEMMA FrameAppended ==
  ASSUME NEW list \in Seq(Registrations), NEW last \in Nat,
         NEW x \in Registrations, x.token = last + 1,
         NEW f \in Frame, FrameOK(f, list, last)
  PROVE  FrameOK(f, Append(list, x), last + 1)
<1>1. PICK new \in Seq(Registrations) : new = Append(list, x)
  <2>1. Append(list, x) \in Seq(Registrations)
    OBVIOUS
  <2> QED BY <2>1
<1>2. /\ Len(new) = Len(list) + 1 /\ new[Len(new)] = x
      /\ \A n \in 1 .. Len(list) : new[n] = list[n]
  BY <1>1
<1>3. /\ Pos(f) \in Nat /\ f.called \in Seq(Registrations)
      /\ f.start \in Seq(Registrations)
  BY SkippedFinite DEF Frame
<1>4. /\ \A a \in 1 .. Len(f.called) :
           f.called[a].token \in Nat /\ f.called[a].token <= last
      /\ \A a \in 1 .. Len(f.start) :
           f.start[a].token \in Nat /\ f.start[a].token <= last
  <2>1. /\ \A a \in 1 .. Len(f.called) : f.called[a] \in Registrations
        /\ \A a \in 1 .. Len(f.start) : f.start[a] \in Registrations
    BY <1>3
  <2> QED BY <2>1 DEF FrameOK, CallsPassed, FewLate, Registrations
<1>5. x \notin ToSet(f.called) /\ x \notin ToSet(f.start)
  <2>1. ASSUME NEW c \in Seq(Registrations),
               \A a \in 1 .. Len(c) : c[a].token \in Nat /\ c[a].token <= last
        PROVE  x \notin ToSet(c)
    <3> SUFFICES ASSUME NEW a \in 1 .. Len(c), c[a] = x PROVE FALSE
      BY DEF ToSet
    <3>1. last + 1 <= last
      BY <2>1
    <3> QED BY <3>1
  <2> QED BY <2>1, <1>3, <1>4
<1>6. CallsPassed(f, new, last + 1)
  <2>1. ASSUME NEW a \in 1 .. Len(f.called), NEW n \in 1 .. Len(new), n > Pos(f)
        PROVE  f.called[a].token < new[n].token
    <3>1. CASE n \in 1 .. Len(list)
      BY <1>2, <2>1, <3>1 DEF FrameOK, CallsPassed
    <3>2. CASE n = Len(new)
      BY <1>2, <1>4, <3>2
    <3> QED BY <1>2, <3>1, <3>2
  <2> QED BY <1>4, <2>1 DEF FrameOK, CallsPassed
<1>7. FewSkipped(f, new)
  <2>1. Skipped(f, new) = Skipped(f, list)
    <3> SUFFICES ASSUME NEW n \in 1 .. Pos(f)
                 PROVE  (n <= Len(new) => new[n] \notin ToSet(f.called))
                          <=> (n <= Len(list) => list[n] \notin ToSet(f.called))
      BY DEF Skipped
    <3>1. CASE n <= Len(list)
      BY <1>2, <1>3, <3>1
    <3>2. CASE n > Len(list)
      BY <1>2, <1>3, <1>5, <3>2
    <3> QED BY <3>1, <3>2, <1>3
  <2> QED BY <2>1 DEF FrameOK, FewSkipped
<1>8. FewLate(f, new, last + 1)
  <2>1. PICK s \in 0 .. Len(list) :
          /\ s <= f.length
          /\ \A n \in 1 .. Len(list) : list[n] \in ToSet(f.start) <=> n <= s
          /\ \/ Cardinality(Late(f)) + f.length - Pos(f) <= f.removed
             \/ Cardinality(Late(f)) + f.length - s <= f.removed
    BY DEF FrameOK, FewLate
  <2>2. s \in 0 .. Len(new)
    BY <1>2
  <2>3. ASSUME NEW n \in 1 .. Len(new)
        PROVE  new[n] \in ToSet(f.start) <=> n <= s
    <3>1. CASE n \in 1 .. Len(list)
      BY <1>2, <2>1, <3>1
    <3>2. CASE n = Len(new)
      BY <1>2, <1>5, <3>2
    <3> QED BY <1>2, <3>1, <3>2
  <2>4. \A a \in 1 .. Len(f.start) : f.start[a].token <= last + 1
    BY <1>4
  <2> QED BY <2>1, <2>2, <2>3, <2>4 DEF FrameOK, FewLate
<1> QED BY <1>1, <1>6, <1>7, <1>8 DEF FrameOK

LEMMA NotEmpty == ASSUME NEW r \in Registrations PROVE r # <<>>
<1>1. DOMAIN r = {"token", "text"} /\ "token" \in DOMAIN r
  BY DEF Registrations
<1>2. DOMAIN <<>> = {}
  OBVIOUS
<1> QED BY <1>1, <1>2

\* A new emission has nobody behind it.
LEMMA FrameStarts ==
  ASSUME NEW list \in Seq(Registrations), NEW last \in Nat,
         \A n \in 1 .. Len(list) : list[n].token <= last,
         NEW f, f = [at |-> 0, length |-> Len(list), current |-> <<>>,
                     start |-> list, called |-> <<>>, removed |-> 0]
  PROVE  f \in Frame /\ FrameOK(f, list, last)
<1>1. /\ f \in Frame /\ Pos(f) = 0 /\ f.called = <<>> /\ f.start = list
      /\ f.length = Len(list) /\ f.removed = 0
  BY DEF Frame, Pos
<1>2. Skipped(f, list) = {} /\ Late(f) = {}
  BY <1>1 DEF Skipped, Late, ToSet
<1>3. Cardinality(Skipped(f, list)) = 0 /\ Cardinality(Late(f)) = 0
  BY <1>2, FS_EmptySet
<1>4. FewLate(f, list, last)
  <2>1. PICK s \in 0 .. Len(list) : s = Len(list)
    OBVIOUS
  <2>2. \A n \in 1 .. Len(list) : list[n] \in ToSet(f.start) <=> n <= s
    BY <1>1, <2>1 DEF ToSet
  <2>3. Cardinality(Late(f)) + f.length - s <= f.removed
    BY <1>1, <1>3, <2>1
  <2> QED BY <1>1, <1>3, <2>1, <2>2, <2>3 DEF FewLate
<1>5. CallsPassed(f, list, last) /\ FewSkipped(f, list)
  <2>1. Len(f.called) = 0
    BY <1>1
  <2> QED BY <1>1, <1>3, <2>1 DEF CallsPassed, FewSkipped
<1> QED BY <1>1, <1>4, <1>5 DEF FrameOK

\* A call: the emission visits one more place, whose registration is behind
\* all it has called.
LEMMA FrameCalls ==
  ASSUME NEW list \in Seq(Registrations), NEW last \in Nat,
         \A n \in 1 .. Len(list) : list[n].token <= last,
         \A m, n \in 1 .. Len(list) : m < n => list[m].token < list[n].token,
         NEW f \in Frame, FrameOK(f, list, last), f.current = <<>>,
         f.at < f.length, f.at < Len(list),
         NEW x, x = list[f.at + 1],
         NEW g, g = [f EXCEPT !.current = x, !.called = Append(@, x)]
  PROVE  g \in Frame /\ FrameOK(g, list, last)
<1>1. PICK p \in 1 .. Len(list) : p = f.at + 1
  BY DEF Frame
<1>2. x \in Registrations /\ x = list[p]
  BY <1>1
<1>3. /\ g.at = f.at /\ g.length = f.length /\ g.start = f.start
      /\ g.removed = f.removed /\ g.called = Append(f.called, x)
      /\ g.current = x
  BY DEF Frame
<1>4. PICK c \in Seq(Registrations) : c = f.called
  BY DEF Frame
<1>5. PICK d \in Seq(Registrations) : d = g.called
  <2>1. Append(c, x) \in Seq(Registrations)
    BY <1>2
  <2> QED BY <2>1, <1>3, <1>4
<1>6. /\ Len(d) = Len(c) + 1 /\ d[Len(d)] = x
      /\ \A a \in 1 .. Len(c) : d[a] = c[a]
  BY <1>2, <1>3, <1>4, <1>5
<1>7. g \in Frame
  BY <1>2, <1>5 DEF Frame
<1>8. Pos(f) = p - 1 /\ Pos(g) = p
  BY <1>1, <1>2, <1>3, NotEmpty DEF Pos, Frame
<1>9. ToSet(d) = ToSet(c) \cup {x}
  <2>1. Len(d) \in 1 .. Len(d) /\ Len(c) \in Nat
    BY <1>6
  <2>2. ASSUME NEW y \in ToSet(d)
        PROVE  y \in ToSet(c) \cup {x}
    <3>1. PICK a \in 1 .. Len(d) : y = d[a]
      BY DEF ToSet
    <3>2. CASE a = Len(d)
      BY <1>6, <3>1, <3>2
    <3>3. CASE a # Len(d)
      <4>1. a \in 1 .. Len(c) /\ y = c[a]
        BY <1>6, <2>1, <3>1, <3>3
      <4> QED BY <4>1 DEF ToSet
    <3> QED BY <3>2, <3>3
  <2>3. ASSUME NEW y \in ToSet(c)
        PROVE  y \in ToSet(d)
    <3>1. PICK a \in 1 .. Len(c) : y = c[a]
      BY DEF ToSet
    <3>2. a \in 1 .. Len(d) /\ y = d[a]
      BY <1>6, <2>1, <3>1
    <3> QED BY <3>2 DEF ToSet
  <2>4. x \in ToSet(d)
    BY <1>6, <2>1 DEF ToSet
  <2> QED BY <2>2, <2>3, <2>4
<1>10. \A a \in 1 .. Len(c) : c[a].token < x.token /\ c[a].token <= last
  <2>1. p > Pos(f)
    BY <1>8
  <2> QED BY <2>1, <1>2, <1>4 DEF FrameOK, CallsPassed
<1>11. CallsPassed(g, list, last)
  <2>1. ASSUME NEW a \in 1 .. Len(d), NEW b \in 1 .. Len(d), a < b
        PROVE  d[a].token < d[b].token
    <3>1. CASE b = Len(d)
      BY <1>6, <1>10, <2>1, <3>1
    <3>2. CASE b # Len(d)
      <4>1. a \in 1 .. Len(c) /\ b \in 1 .. Len(c)
        BY <1>6, <2>1, <3>2
      <4> QED BY <4>1, <1>4, <1>6, <2>1 DEF FrameOK, CallsPassed
    <3> QED BY <3>1, <3>2
  <2>2. ASSUME NEW a \in 1 .. Len(d)
        PROVE  d[a].token <= last
    BY <1>2, <1>6, <1>10
  <2>3. ASSUME NEW a \in 1 .. Len(d), NEW n \in 1 .. Len(list), n > p
        PROVE  d[a].token < list[n].token
    <3>1. CASE a = Len(d)
      BY <1>2, <1>6, <2>3, <3>1
    <3>2. CASE a # Len(d)
      <4>1. a \in 1 .. Len(c) /\ n > Pos(f)
        BY <1>6, <1>8, <2>3, <3>2
      <4> QED BY <4>1, <1>4, <1>6 DEF FrameOK, CallsPassed
    <3> QED BY <3>1, <3>2
  <2> QED BY <1>5, <1>8, <2>1, <2>2, <2>3 DEF CallsPassed
<1>12. FewSkipped(g, list)
  <2>1. Skipped(g, list) \subseteq Skipped(f, list)
    <3> SUFFICES ASSUME NEW n \in Skipped(g, list)
                 PROVE  n \in Skipped(f, list)
      OBVIOUS
    <3>1. n \in 1 .. p /\ (n <= Len(list) => list[n] \notin ToSet(d))
      BY <1>5, <1>8 DEF Skipped
    <3>2. n # p
      BY <3>1, <1>2, <1>9
    <3> QED BY <3>1, <3>2, <1>4, <1>8, <1>9 DEF Skipped
  <2>2. /\ IsFiniteSet(Skipped(f, list)) /\ Cardinality(Skipped(f, list)) \in Nat
        /\ Cardinality(Skipped(g, list)) \in Nat
    BY <1>7, SkippedFinite
  <2>3. Cardinality(Skipped(g, list)) <= Cardinality(Skipped(f, list))
    BY <2>1, <2>2, FS_Subset
  <2> QED BY <2>2, <2>3, <1>3 DEF FrameOK, FewSkipped, Frame
<1>13. FewLate(g, list, last)
  <2>1. PICK s \in 0 .. Len(list) :
          /\ s <= f.length
          /\ \A n \in 1 .. Len(list) : list[n] \in ToSet(f.start) <=> n <= s
          /\ \/ Cardinality(Late(f)) + f.length - Pos(f) <= f.removed
             \/ Cardinality(Late(f)) + f.length - s <= f.removed
    BY DEF FrameOK, FewLate
  <2>2. PICK l \in Nat : l = Cardinality(Late(f))
    BY LateFinite
  <2>3. PICK m \in Nat : m = Cardinality(Late(g))
    BY <1>7, LateFinite
  <2>4. PICK r \in Nat : r = f.removed
    BY DEF Frame
  <2>5. PICK h \in Nat : h = f.length
    BY DEF Frame
  <2>6. l <= r /\ p <= h /\ (l + h - (p - 1) <= r \/ l + h - s <= r)
    BY <1>1, <1>8, <2>1, <2>2, <2>4, <2>5 DEF FrameOK, FewLate, Frame
  <2>7. m <= r /\ (m + h - p <= r \/ m + h - s <= r)
    <3>1. CASE p <= s
      <4>1. Late(g) = Late(f)
        BY <1>2, <1>3, <1>4, <1>5, <1>9, <2>1, <3>1 DEF Late
      <4> QED BY <4>1, <2>2, <2>3, <2>6
    <3>2. CASE p > s
      <4>1. Late(g) = Late(f) \cup {x}
        BY <1>2, <1>3, <1>4, <1>5, <1>9, <2>1, <3>2 DEF Late
      <4>2. m <= l + 1
        <5>1. PICK S : S = Late(f) /\ IsFiniteSet(S)
          BY LateFinite
        <5>2. Cardinality(S \cup {x})
                = IF x \in S THEN Cardinality(S) ELSE Cardinality(S) + 1
          BY <5>1, FS_AddElement
        <5> QED BY <4>1, <5>1, <5>2, <2>2, <2>3
      <4>3. s \in Int /\ l + h - (p - 1) <= r
        BY <2>6, <3>2
      <4> QED BY <4>2, <4>3, <2>6
    <3> QED BY <3>1, <3>2
  <2> QED BY <1>3, <1>8, <2>1, <2>3, <2>4, <2>5, <2>7 DEF FrameOK, FewLate
<1> QED BY <1>7, <1>11, <1>12, <1>13 DEF FrameOK

-----------------------------------------------------------------------------
(* The steps.                                                              *)

LEMMA EmitterInitial == Init => EmitterInv
<1> SUFFICES ASSUME Init PROVE EmitterInv
  OBVIOUS
<1>1. EmitterTypes
  BY EmitterAssumption DEF Init, EmitterTypes
<1>2. Len(events) = 0 /\ Len(frames) = 0
  BY DEF Init
<1>3. WrapperInCall
  BY <1>2 DEF Init, WrapperInCall
<1> QED BY <1>1, <1>2, <1>3 DEF EmitterInv, Ordered, FramesOK

\* A set with one element at most has no two.
LEMMA AtMostOne ==
  ASSUME NEW S, IsFiniteSet(S), Cardinality(S) <= 1, NEW a \in S, NEW b \in S
  PROVE  a = b
<1>1. Cardinality(S) \in Nat /\ Cardinality(S) # 0
  BY FS_CardinalityType, FS_EmptySet
<1>2. Cardinality(S) = 1
  BY <1>1
<1> QED BY <1>2, FS_Singleton

LEMMA ListFinite ==
  ASSUME NEW c \in Seq(Registrations)
  PROVE  IsFiniteSet(ToSet(c))
<1>2. c \in Surjection(1 .. Len(c), ToSet(c))
  BY DEF Surjection, ToSet
<1>3. IsFiniteSet(1 .. Len(c))
  BY FS_Interval
<1> QED BY <1>2, <1>3, FS_Surjection

\* on and once.
LEMMA PlaceStep ==
  ASSUME EmitterInv, NEW text \in Texts \cup {Wrapper},
         Place(text, Append(events, Registration(text)))
  PROVE  EmitterInv'
<1>1. PICK x \in Registrations : /\ x = Registration(text)
                                 /\ x.token = registered + 1
  <2>1. Registration(text) \in Registrations
    BY DEF Registration, Registrations, EmitterInv, EmitterTypes
  <2> QED BY <2>1 DEF Registration
<1>2. /\ registered < MaxRegistrations /\ registered' = registered + 1
      /\ events' = Append(events, x) /\ frames' = frames /\ calls' = calls
      /\ calm' = (calm /\ Quantify(ToSet(events'), IsWrapper) <= 1)
  BY <1>1 DEF Place
<1>3. /\ events' \in Seq(Registrations) /\ Len(events') = Len(events) + 1
      /\ events'[Len(events')] = x
      /\ \A n \in 1 .. Len(events) : events'[n] = events[n]
      /\ Len(events) \in Nat
  BY <1>1, <1>2 DEF EmitterInv, EmitterTypes
<1>4. EmitterTypes'
  <2>1. calm' \in BOOLEAN
    BY <1>2 DEF EmitterInv, EmitterTypes
  <2>2. registered' \in 0 .. MaxRegistrations
    BY <1>2, EmitterAssumption DEF EmitterInv, EmitterTypes
  <2> QED BY <1>2, <1>3, <2>1, <2>2 DEF EmitterInv, EmitterTypes
<1>5. Ordered'
  <2>1. registered \in Nat
    BY DEF EmitterInv, EmitterTypes
  <2>2. ASSUME NEW n \in 1 .. Len(events')
        PROVE  events'[n].token \in 1 .. registered'
    BY <1>1, <1>2, <1>3, <2>1 DEF EmitterInv, Ordered
  <2>3. ASSUME NEW m \in 1 .. Len(events'), NEW n \in 1 .. Len(events'), m < n
        PROVE  events'[m].token < events'[n].token
    <3>1. m \in 1 .. Len(events)
      BY <1>3, <2>3
    <3>2. CASE n \in 1 .. Len(events)
      BY <1>3, <2>3, <3>1, <3>2 DEF EmitterInv, Ordered
    <3>3. CASE n = Len(events')
      BY <1>1, <1>3, <2>1, <3>1, <3>3 DEF EmitterInv, Ordered
    <3> QED BY <1>3, <3>2, <3>3
  <2> QED BY <2>2, <2>3 DEF Ordered
<1>6. FramesOK'
  <2> SUFFICES ASSUME NEW k \in 1 .. Len(frames)
               PROVE  FrameOK(frames'[k], events', registered')
    BY <1>2 DEF FramesOK
  <2>1. PICK list \in Seq(Registrations) : list = events
    BY DEF EmitterInv, EmitterTypes
  <2>2. PICK last \in Nat : last = registered
    BY DEF EmitterInv, EmitterTypes
  <2>3. PICK f \in Frame : f = frames[k]
    BY DEF EmitterInv, EmitterTypes
  <2>4. FrameOK(f, list, last)
    BY <2>1, <2>2, <2>3 DEF EmitterInv, FramesOK
  <2>5. FrameOK(f, Append(list, x), last + 1)
    BY <1>1, <2>2, <2>4, FrameAppended
  <2> QED BY <1>2, <2>1, <2>2, <2>3, <2>5
<1>7. ASSUME calm'
      PROVE  \A m, n \in 1 .. Len(events') :
               IsWrapper(events'[m]) /\ IsWrapper(events'[n]) => m = n
  <2> SUFFICES ASSUME NEW m \in 1 .. Len(events'), NEW n \in 1 .. Len(events'),
                      IsWrapper(events'[m]), IsWrapper(events'[n])
               PROVE  m = n
    OBVIOUS
  <2>1. PICK S : S = {s \in ToSet(events') : IsWrapper(s)}
    OBVIOUS
  <2>2. Cardinality(S) <= 1
    BY <1>2, <1>7, <2>1 DEF Quantify
  <2>3. IsFiniteSet(S)
    BY <1>3, <2>1, ListFinite, FS_Subset
  <2>4. events'[m] \in S /\ events'[n] \in S
    BY <2>1, <1>3 DEF ToSet
  <2>5. events'[m].token = events'[n].token
    BY <2>2, <2>3, <2>4, AtMostOne
  <2>6. events'[m].token \in Int /\ ~(m < n) /\ ~(n < m)
    BY <1>5, <2>5 DEF Ordered
  <2> QED BY <2>6
<1>8. WrapperInCall'
  <2>1. \A t \in 1 .. MaxRegistrations : t > registered' => calls'[t] = 0
    BY <1>2 DEF EmitterInv, WrapperInCall, EmitterTypes
  <2>2. ASSUME calm', NEW n \in 1 .. Len(events'), IsWrapper(events'[n])
        PROVE  \/ calls'[events'[n].token] = 0
               \/ /\ calls'[events'[n].token] = 1
                  /\ \E k \in 1 .. Len(frames') : frames'[k].current = events'[n]
    <3>1. CASE n \in 1 .. Len(events)
      <4>1. calm /\ events'[n] = events[n] /\ IsWrapper(events[n])
        BY <1>2, <1>3, <2>2, <3>1
      <4>2. \/ calls[events[n].token] = 0
            \/ /\ calls[events[n].token] = 1
               /\ \E k \in 1 .. Len(frames) : frames[k].current = events[n]
        BY <3>1, <4>1 DEF EmitterInv, WrapperInCall
      <4> QED BY <1>2, <4>1, <4>2
    <3>2. CASE n = Len(events')
      <4>1. registered + 1 \in 1 .. MaxRegistrations /\ registered + 1 > registered
        BY <1>2, EmitterAssumption DEF EmitterInv, EmitterTypes
      <4> QED BY <1>1, <1>2, <1>3, <3>2, <4>1 DEF EmitterInv, WrapperInCall
    <3> QED BY <1>3, <3>1, <3>2
  <2> QED BY <1>7, <2>1, <2>2 DEF WrapperInCall
<1> QED BY <1>4, <1>5, <1>6, <1>8 DEF EmitterInv

\* What a removal keeps: the order, and the emissions.
LEMMA RemovalKeeps ==
  ASSUME EmitterInv, NEW new \in Seq(Registrations), new = events',
         NEW e, Embeds(e, new, events), Len(new) <= Len(events),
         registered' = registered,
         NEW after \in Seq(Frame), after = frames', Len(after) = Len(frames),
         \A k \in 1 .. Len(frames) :
           /\ Follows(frames[k], after[k])
           /\ after[k].removed = frames[k].removed + (Len(events) - Len(new))
  PROVE  Ordered' /\ FramesOK'
<1>1. PICK list \in Seq(Registrations) : list = events
  BY DEF EmitterInv, EmitterTypes
<1>2. PICK before \in Seq(Frame) : before = frames
  BY DEF EmitterInv, EmitterTypes
<1>3. PICK last : last = registered
  OBVIOUS
<1>4. Embeds(e, new, list) /\ Len(new) <= Len(list)
  BY <1>1
<1>5. Ordered'
  <2>1. \A m, n \in 1 .. Len(list) : m < n => list[m].token < list[n].token
    BY <1>1 DEF EmitterInv, Ordered
  <2>2. \A m, n \in 1 .. Len(new) : m < n => new[m].token < new[n].token
    BY <1>4, <2>1, OrderEmbeds
  <2>3. \A n \in 1 .. Len(new) : new[n].token \in 1 .. registered
    BY <1>1, <1>4 DEF EmitterInv, Ordered, Embeds
  <2> QED BY <2>2, <2>3 DEF Ordered
<1>6. FramesOK'
  <2> SUFFICES ASSUME NEW k \in 1 .. Len(before)
               PROVE  FrameOK(after[k], new, last)
    BY <1>2, <1>3 DEF FramesOK
  <2>1. PICK f \in Frame : f = before[k]
    OBVIOUS
  <2>2. PICK g \in Frame : g = after[k]
    BY <1>2
  <2>3. FrameOK(f, list, last)
    BY <1>1, <1>2, <1>3, <2>1 DEF EmitterInv, FramesOK
  <2>4. Follows(f, g) /\ g.removed = f.removed + (Len(list) - Len(new))
    BY <1>1, <1>2, <2>1, <2>2
  <2> QED BY <1>4, <2>2, <2>3, <2>4, FrameRemoved
<1> QED BY <1>5, <1>6

\* CountRemoved changes `removed' and nothing else.
LEMMA Removed ==
  ASSUME EmitterInv, NEW n \in Nat, NEW counted, counted = CountRemoved(n)
  PROVE  /\ counted \in Seq(Frame) /\ Len(counted) = Len(frames)
         /\ \A k \in 1 .. Len(frames) :
              /\ counted[k] \in Frame /\ Follows(frames[k], counted[k])
              /\ counted[k].removed = frames[k].removed + n
              /\ counted[k].current = frames[k].current
              /\ counted[k].at = frames[k].at
<1>1. PICK before \in Seq(Frame) : before = frames
  BY DEF EmitterInv, EmitterTypes
<1>2. ASSUME NEW f \in Frame, NEW g, g = [f EXCEPT !.removed = @ + n]
      PROVE  /\ g \in Frame /\ Follows(f, g) /\ g.removed = f.removed + n
             /\ g.current = f.current /\ g.at = f.at
  <2>1. /\ g.removed = f.removed + n /\ g.current = f.current
        /\ g.at = f.at /\ g.length = f.length /\ g.start = f.start
        /\ g.called = f.called
    BY <1>2 DEF Frame
  <2>2. f.removed + n \in Nat
    BY DEF Frame
  <2>3. g \in Frame
    BY <1>2, <2>2 DEF Frame
  <2> QED BY <2>1, <2>3 DEF Follows, Pos
<1>3. counted = [k \in 1 .. Len(before) |-> [before[k] EXCEPT !.removed = @ + n]]
  BY <1>1 DEF CountRemoved
<1>4. ASSUME NEW k \in 1 .. Len(before)
      PROVE  /\ counted[k] \in Frame /\ Follows(before[k], counted[k])
             /\ counted[k].removed = before[k].removed + n
             /\ counted[k].current = before[k].current
             /\ counted[k].at = before[k].at
  <2>1. PICK f \in Frame : f = before[k]
    OBVIOUS
  <2>2. PICK g : g = [f EXCEPT !.removed = @ + n]
    OBVIOUS
  <2>3. counted[k] = g
    BY <1>3, <2>1, <2>2
  <2> QED BY <1>2, <2>1, <2>2, <2>3
<1>5. counted \in Seq(Frame) /\ Len(counted) = Len(before)
  <2>1. Len(before) \in Nat /\ counted \in [1 .. Len(before) -> Frame]
    BY <1>3, <1>4
  <2> QED BY <2>1, SeqDef
<1> QED BY <1>1, <1>4, <1>5

\* A list without a text, or with some of it, is embedded in the old one.
LEMMA EventsRemoved ==
  ASSUME EmitterInv, NEW text,
         events' = RemoveText(events, text) \/ events' = events
  PROVE  \E new, e :
           /\ new \in Seq(Registrations) /\ new = events'
           /\ Embeds(e, new, events)
           /\ Len(new) <= Len(events) /\ Len(events) - Len(new) \in Nat
<1>1. PICK list \in Seq(Registrations) : list = events
  BY DEF EmitterInv, EmitterTypes
<1>2. CASE events' = RemoveText(list, text)
  <2>1. PICK new : new = RemoveText(list, text)
    OBVIOUS
  <2>2. /\ new \in Seq(Registrations) /\ Len(new) <= Len(list)
        /\ \E e : Embeds(e, new, list)
    BY <2>1, Removal
  <2> QED BY <1>1, <1>2, <2>1, <2>2
<1>3. CASE events' = list
  <2>1. Embeds([n \in 1 .. Len(list) |-> n], list, list)
    BY DEF Embeds
  <2> QED BY <1>1, <1>3, <2>1
<1> QED BY <1>1, <1>2, <1>3

\* Removals leave the calls of those who stay as they are; a wrapper that
\* is in its call stays in it.
LEMMA WrapperStays ==
  ASSUME EmitterInv, NEW new \in Seq(Registrations), new = events',
         NEW e, Embeds(e, new, events),
         registered' = registered, calls' = calls, calm' => calm,
         calm' => \A k \in 1 .. Len(frames) : IsWrapper(frames[k].current) =>
                    \/ \A n \in 1 .. Len(new) : ~IsWrapper(new[n])
                    \/ /\ k \in 1 .. Len(frames')
                       /\ frames'[k].current = frames[k].current
  PROVE  WrapperInCall'
<1>1. \A n \in 1 .. Len(new) :
        e[n] \in 1 .. Len(events) /\ new[n] = events[e[n]]
  BY DEF Embeds
<1>2. \A m, n \in 1 .. Len(new) : e[m] = e[n] => m = n
  <2> SUFFICES ASSUME NEW m \in 1 .. Len(new), NEW n \in 1 .. Len(new),
                      e[m] = e[n], m # n
               PROVE  FALSE
    OBVIOUS
  <2>1. e[m] \in Int
    BY <1>1
  <2>2. CASE m < n
    BY <2>1, <2>2 DEF Embeds
  <2>3. CASE n < m
    BY <2>1, <2>3 DEF Embeds
  <2> QED BY <2>2, <2>3
<1>3. ASSUME calm', NEW m \in 1 .. Len(new), NEW n \in 1 .. Len(new),
             IsWrapper(new[m]), IsWrapper(new[n])
      PROVE  m = n
  <2>1. e[m] = e[n]
    BY <1>1, <1>3 DEF EmitterInv, WrapperInCall
  <2> QED BY <1>2, <2>1
<1>4. ASSUME calm', NEW n \in 1 .. Len(new), IsWrapper(new[n])
      PROVE  \/ calls'[new[n].token] = 0
             \/ /\ calls'[new[n].token] = 1
                /\ \E k \in 1 .. Len(frames') : frames'[k].current = new[n]
  <2>1. \/ calls[new[n].token] = 0
        \/ /\ calls[new[n].token] = 1
           /\ \E k \in 1 .. Len(frames) : frames[k].current = new[n]
    <3>1. PICK m \in 1 .. Len(events) : m = e[n] /\ new[n] = events[m]
      BY <1>1
    <3>2. calm /\ IsWrapper(events[m])
      BY <1>4, <3>1
    <3> QED BY <3>1, <3>2 DEF EmitterInv, WrapperInCall
  <2>2. ASSUME NEW k \in 1 .. Len(frames), frames[k].current = new[n]
        PROVE  \E l \in 1 .. Len(frames') : frames'[l].current = new[n]
    BY <1>4, <2>2
  <2> QED BY <2>1, <2>2
<1>5. \A t \in 1 .. MaxRegistrations : t > registered' => calls'[t] = 0
  BY DEF EmitterInv, WrapperInCall
<1> QED BY <1>3, <1>4, <1>5 DEF WrapperInCall

\* off and removeListener.
LEMMA OffStep ==
  ASSUME EmitterInv, NEW text \in Texts \cup {Wrapper}, Off(text)
  PROVE  EmitterInv'
<1>1. PICK new, e :
        /\ new \in Seq(Registrations) /\ new = events' /\ Embeds(e, new, events)
        /\ Len(new) <= Len(events) /\ Len(events) - Len(new) \in Nat
  BY EventsRemoved DEF Off
<1>2. PICK n \in Nat : n = Len(events) - Len(new)
  BY <1>1
<1>3. PICK after : after = CountRemoved(n)
  OBVIOUS
<1>4. /\ frames' = after /\ registered' = registered /\ calls' = calls
      /\ calm' = calm
  BY <1>1, <1>2, <1>3 DEF Off
<1>5. /\ after \in Seq(Frame) /\ Len(after) = Len(frames)
      /\ \A k \in 1 .. Len(frames) :
           /\ Follows(frames[k], after[k])
           /\ after[k].removed = frames[k].removed + n
           /\ after[k].current = frames[k].current
  BY <1>3, Removed
<1>6. EmitterTypes'
  BY <1>1, <1>4, <1>5 DEF EmitterInv, EmitterTypes
<1>7. Ordered' /\ FramesOK'
  BY <1>1, <1>2, <1>4, <1>5, RemovalKeeps
<1>8. WrapperInCall'
  BY <1>1, <1>4, <1>5, WrapperStays
<1> QED BY <1>6, <1>7, <1>8 DEF EmitterInv

\* The frames of an emission that goes on.
LEMMA InnerFrames ==
  ASSUME EmitterInv, frames # <<>>, NEW f, f = Last(frames)
  PROVE  /\ Len(frames) \in 1 .. Len(frames) /\ f = frames[Len(frames)]
         /\ f \in Frame /\ FrameOK(f, events, registered)
         /\ \A g \in Frame :
              /\ InnerFrame(g) \in Seq(Frame)
              /\ Len(InnerFrame(g)) = Len(frames)
              /\ \A k \in 1 .. Len(frames) :
                   InnerFrame(g)[k] = IF k = Len(frames) THEN g ELSE frames[k]
<1>1. PICK before \in Seq(Frame) : before = frames
  BY DEF EmitterInv, EmitterTypes
<1>2. Len(before) \in 1 .. Len(before) /\ f = before[Len(before)] /\ f \in Frame
  BY <1>1 DEF Last
<1>3. FrameOK(f, events, registered)
  BY <1>1, <1>2 DEF EmitterInv, FramesOK
<1>4. ASSUME NEW g \in Frame
      PROVE  /\ InnerFrame(g) \in Seq(Frame)
             /\ Len(InnerFrame(g)) = Len(before)
             /\ \A k \in 1 .. Len(before) :
                  InnerFrame(g)[k] = IF k = Len(before) THEN g ELSE before[k]
  BY <1>1, <1>2, ExceptSeq DEF InnerFrame
<1> QED BY <1>1, <1>2, <1>3, <1>4

\* A listener returns, a wrapper by way of off.
LEMMA ReturnStep == ASSUME EmitterInv, Return PROVE EmitterInv'
<1>1. PICK new, e :
        /\ new \in Seq(Registrations) /\ new = events' /\ Embeds(e, new, events)
        /\ Len(new) <= Len(events) /\ Len(events) - Len(new) \in Nat
  <2>1. events' = RemoveText(events, Wrapper) \/ events' = events
    BY DEF Return
  <2> QED BY <2>1, EventsRemoved
<1>2. PICK n \in Nat : n = Len(events) - Len(new)
  BY <1>1
<1>3. PICK counted : counted = CountRemoved(n)
  OBVIOUS
<1>4. PICK after : after = frames'
  OBVIOUS
<1>5. /\ after = [counted EXCEPT ![Len(frames)] = Advance(@)]
      /\ registered' = registered /\ calls' = calls /\ calm' = calm
      /\ frames # <<>> /\ Last(frames).current # <<>>
  BY <1>1, <1>2, <1>3, <1>4 DEF Return, InCallback
<1>6. /\ counted \in Seq(Frame) /\ Len(counted) = Len(frames)
      /\ \A k \in 1 .. Len(frames) :
           /\ counted[k] \in Frame /\ Follows(frames[k], counted[k])
           /\ counted[k].removed = frames[k].removed + n
           /\ counted[k].current = frames[k].current
           /\ counted[k].at = frames[k].at
  BY <1>3, Removed
<1>7. /\ Len(frames) \in 1 .. Len(frames)
      /\ Last(frames) = frames[Len(frames)]
  BY <1>5, InnerFrames
<1>8. PICK f \in Frame : f = counted[Len(frames)]
  BY <1>6, <1>7
<1>9. PICK g : g = Advance(f)
  OBVIOUS
<1>10. /\ g \in Frame /\ Follows(f, g) /\ g.removed = f.removed
  <2>1. f.at + 1 \in Nat /\ f.current # <<>>
    BY <1>5, <1>6, <1>7, <1>8 DEF Frame
  <2>2. /\ g.at = f.at + 1 /\ g.current = <<>> /\ g.length = f.length
        /\ g.start = f.start /\ g.called = f.called /\ g.removed = f.removed
    BY <1>9 DEF Frame, Advance
  <2>3. g \in Frame
    BY <1>9, <2>1 DEF Frame, Advance
  <2> QED BY <2>1, <2>2, <2>3 DEF Follows, Pos
<1>11. /\ after \in Seq(Frame) /\ Len(after) = Len(frames)
       /\ \A k \in 1 .. Len(frames) :
            after[k] = IF k = Len(frames) THEN g ELSE counted[k]
  BY <1>5, <1>6, <1>7, <1>8, <1>9, <1>10, ExceptSeq
<1>12. \A k \in 1 .. Len(frames) :
         /\ Follows(frames[k], after[k])
         /\ after[k].removed = frames[k].removed + n
  BY <1>6, <1>7, <1>8, <1>10, <1>11 DEF Follows
<1>13. EmitterTypes'
  BY <1>1, <1>4, <1>5, <1>11 DEF EmitterInv, EmitterTypes
<1>14. Ordered' /\ FramesOK'
  BY <1>1, <1>2, <1>4, <1>5, <1>11, <1>12, RemovalKeeps
<1>15. ASSUME calm, IsWrapper(Last(frames).current)
       PROVE  \A m \in 1 .. Len(new) : ~IsWrapper(new[m])
  <2>1. PICK list \in Seq(Registrations) : list = events
    BY DEF EmitterInv, EmitterTypes
  <2>2. new = RemoveText(list, Wrapper)
    BY <1>1, <1>15, <2>1 DEF Return
  <2>3. \A a, b \in 1 .. Len(list) :
          list[a].text = Wrapper /\ list[b].text = Wrapper => a = b
    BY <1>15, <2>1 DEF EmitterInv, WrapperInCall, IsWrapper
  <2> QED BY <2>2, <2>3, OnlyOneRemoved DEF IsWrapper
<1>16. ASSUME calm', NEW k \in 1 .. Len(frames), IsWrapper(frames[k].current)
       PROVE  \/ \A m \in 1 .. Len(new) : ~IsWrapper(new[m])
              \/ /\ k \in 1 .. Len(frames')
                 /\ frames'[k].current = frames[k].current
  <2>1. CASE k = Len(frames)
    BY <1>5, <1>7, <1>15, <1>16, <2>1
  <2>2. CASE k # Len(frames)
    BY <1>4, <1>6, <1>11, <2>2
  <2> QED BY <2>1, <2>2
<1>17. WrapperInCall'
  BY <1>1, <1>5, <1>16, WrapperStays
<1> QED BY <1>13, <1>14, <1>17 DEF EmitterInv

\* emit.
LEMMA EmitStep == ASSUME EmitterInv, Emit PROVE EmitterInv'
<1>1. PICK list \in Seq(Registrations) : list = events
  BY DEF EmitterInv, EmitterTypes
<1>2. PICK last \in Nat : last = registered
  BY DEF EmitterInv, EmitterTypes
<1>3. PICK f : f = [at |-> 0, length |-> Len(list), current |-> <<>>,
                    start |-> list, called |-> <<>>, removed |-> 0]
  OBVIOUS
<1>4. /\ frames' = Append(frames, f) /\ events' = events
      /\ registered' = registered /\ calls' = calls /\ calm' = calm
  BY <1>1, <1>3 DEF Emit, NewFrame
<1>5. f \in Frame /\ FrameOK(f, list, last)
  <2>1. \A n \in 1 .. Len(list) : list[n].token <= last
    BY <1>1, <1>2 DEF EmitterInv, Ordered
  <2> QED BY <1>3, <2>1, FrameStarts
<1>6. /\ frames' \in Seq(Frame) /\ Len(frames') = Len(frames) + 1
      /\ frames'[Len(frames')] = f
      /\ \A k \in 1 .. Len(frames) : frames'[k] = frames[k]
      /\ Len(frames) \in Nat
  BY <1>4, <1>5 DEF EmitterInv, EmitterTypes
<1>7. FramesOK'
  <2> SUFFICES ASSUME NEW k \in 1 .. Len(frames')
               PROVE  FrameOK(frames'[k], list, last)
    BY <1>1, <1>2, <1>4 DEF FramesOK
  <2>1. CASE k = Len(frames')
    BY <1>5, <1>6, <2>1
  <2>2. CASE k # Len(frames')
    <3>1. k \in 1 .. Len(frames)
      BY <1>6, <2>2
    <3>2. FrameOK(frames[k], list, last)
      BY <1>1, <1>2, <3>1 DEF EmitterInv, FramesOK
    <3> QED BY <1>6, <3>1, <3>2
  <2> QED BY <2>1, <2>2
<1>8. EmitterTypes' /\ Ordered'
  BY <1>4, <1>6 DEF EmitterInv, EmitterTypes, Ordered
<1>9. WrapperInCall'
  <2>1. \A k \in 1 .. Len(frames) : k \in 1 .. Len(frames')
    BY <1>6
  <2> QED BY <1>4, <1>6, <2>1 DEF EmitterInv, WrapperInCall
<1> QED BY <1>7, <1>8, <1>9 DEF EmitterInv

LEMMA MinOfTwo ==
  ASSUME NEW a \in Nat, NEW b \in Nat, NEW c \in Nat
  PROVE  a < Min({b, c}) <=> a < b /\ a < c
<1>1. PICK m : m = Min({b, c})
  OBVIOUS
<1>2. m \in {b, c} /\ m <= b /\ m <= c
  BY <1>1, MinIsLeast
<1> QED BY <1>1, <1>2

\* forEach calls the next one.
LEMMA CallStep == ASSUME EmitterInv, CallNext PROVE EmitterInv'
<1>1. PICK list \in Seq(Registrations) : list = events
  BY DEF EmitterInv, EmitterTypes
<1>2. PICK last \in Nat : last = registered
  BY DEF EmitterInv, EmitterTypes
<1>3. PICK f \in Frame : /\ f = Last(frames) /\ FrameOK(f, list, last)
                         /\ f.current = <<>> /\ frames # <<>>
  BY <1>1, <1>2, InnerFrames DEF CallNext, Between
<1>4. f.at \in Nat /\ f.at < f.length /\ f.at < Len(list)
  <2>1. f.at \in Nat /\ f.length \in Nat /\ Len(list) \in Nat
    BY DEF Frame
  <2>2. f.at < Min({f.length, Len(list)})
    BY <1>1, <1>3 DEF CallNext, More
  <2> QED BY <2>1, <2>2, MinOfTwo
<1>5. PICK p \in 1 .. Len(list) : p = f.at + 1
  BY <1>4
<1>6. PICK r \in Registrations : r = list[p]
  OBVIOUS
<1>7. PICK g : g = [f EXCEPT !.current = r, !.called = Append(@, r)]
  OBVIOUS
<1>8. /\ frames' = InnerFrame(g) /\ events' = events
      /\ registered' = registered
      /\ calls' = [calls EXCEPT ![r.token] = @ + 1]
      /\ calm' = (calm /\ ~InWrapper(r))
  BY <1>1, <1>3, <1>5, <1>6, <1>7 DEF CallNext
<1>9. g \in Frame /\ FrameOK(g, list, last)
  <2>1. /\ \A n \in 1 .. Len(list) : list[n].token <= last
        /\ \A m, n \in 1 .. Len(list) : m < n => list[m].token < list[n].token
    BY <1>1, <1>2 DEF EmitterInv, Ordered
  <2>2. r = list[f.at + 1]
    BY <1>5, <1>6
  <2> QED BY <1>3, <1>4, <1>7, <2>1, <2>2, FrameCalls
<1>10. /\ frames' \in Seq(Frame) /\ Len(frames') = Len(frames)
       /\ \A k \in 1 .. Len(frames) :
            frames'[k] = IF k = Len(frames) THEN g ELSE frames[k]
       /\ Len(frames) \in 1 .. Len(frames) /\ f = frames[Len(frames)]
  BY <1>3, <1>8, <1>9, InnerFrames
<1>11. FramesOK'
  <2> SUFFICES ASSUME NEW k \in 1 .. Len(frames)
               PROVE  FrameOK(frames'[k], list, last)
    BY <1>1, <1>2, <1>8, <1>10 DEF FramesOK
  <2>1. FrameOK(frames[k], list, last)
    BY <1>1, <1>2 DEF EmitterInv, FramesOK
  <2> QED BY <1>9, <1>10, <2>1
<1>12. r.token \in 1 .. registered /\ r.token \in 1 .. MaxRegistrations
  <2>1. r.token \in 1 .. registered
    BY <1>1, <1>6 DEF EmitterInv, Ordered
  <2> QED BY <2>1, EmitterAssumption DEF EmitterInv, EmitterTypes
<1>13. EmitterTypes' /\ Ordered'
  <2>1. calls' \in [1 .. MaxRegistrations -> Nat]
    BY <1>8, <1>12 DEF EmitterInv, EmitterTypes
  <2>2. calm' \in BOOLEAN
    BY <1>8 DEF EmitterInv, EmitterTypes
  <2> QED BY <1>8, <1>10, <2>1, <2>2 DEF EmitterInv, EmitterTypes, Ordered
<1>14. calls'[r.token] = calls[r.token] + 1
       /\ \A t \in 1 .. MaxRegistrations : t # r.token => calls'[t] = calls[t]
  BY <1>8, <1>12 DEF EmitterInv, EmitterTypes
<1>15. ASSUME calm', NEW n \in 1 .. Len(list), IsWrapper(list[n])
       PROVE  \/ calls'[list[n].token] = 0
              \/ /\ calls'[list[n].token] = 1
                 /\ \E k \in 1 .. Len(frames') : frames'[k].current = list[n]
  <2>1. /\ calm /\ ~InWrapper(r)
        /\ \/ calls[list[n].token] = 0
           \/ /\ calls[list[n].token] = 1
              /\ \E k \in 1 .. Len(frames) : frames[k].current = list[n]
    BY <1>1, <1>8, <1>15 DEF EmitterInv, WrapperInCall
  <2>2. CASE n = p
    <3>1. calls[r.token] = 0
      <4>1. DOMAIN frames = 1 .. Len(frames)
        BY DEF EmitterInv, EmitterTypes
      <4>2. IsWrapper(r) /\ r = list[n]
        BY <1>6, <1>15, <2>2
      <4> QED BY <2>1, <4>1, <4>2 DEF InWrapper
    <3>2. calls'[r.token] = 1
      BY <1>14, <3>1
    <3>3. Len(frames) \in 1 .. Len(frames') /\ frames'[Len(frames)].current = r
      BY <1>7, <1>10 DEF Frame
    <3> QED BY <1>6, <2>2, <3>2, <3>3
  <2>3. CASE n # p
    <3>1. list[n].token # r.token /\ list[n].token \in 1 .. MaxRegistrations
      <4>1. /\ list[n].token \in 1 .. registered /\ list[p].token \in 1 .. registered
            /\ n < p => list[n].token < list[p].token
            /\ p < n => list[p].token < list[n].token
        BY <1>1 DEF EmitterInv, Ordered
      <4>2. registered \in 0 .. MaxRegistrations /\ MaxRegistrations \in Nat
        BY EmitterAssumption DEF EmitterInv, EmitterTypes
      <4> QED BY <1>6, <2>3, <4>1, <4>2
    <3>2. ASSUME NEW k \in 1 .. Len(frames), frames[k].current = list[n]
          PROVE  k \in 1 .. Len(frames') /\ frames'[k].current = list[n]
      <4>1. list[n] # <<>>
        BY NotEmpty
      <4> QED BY <1>3, <1>10, <3>2, <4>1
    <3> QED BY <1>14, <2>1, <3>1, <3>2
  <2> QED BY <2>2, <2>3
<1>16. WrapperInCall'
  <2>1. ASSUME NEW t \in 1 .. MaxRegistrations, t > registered'
        PROVE  calls'[t] = 0
    <3>1. t # r.token
      BY <1>8, <1>12, <2>1 DEF EmitterInv, EmitterTypes
    <3> QED BY <1>8, <1>14, <2>1, <3>1 DEF EmitterInv, WrapperInCall
  <2>2. calm' => \A m, n \in 1 .. Len(list) :
                   IsWrapper(list[m]) /\ IsWrapper(list[n]) => m = n
    BY <1>1, <1>8 DEF EmitterInv, WrapperInCall
  <2> QED BY <1>1, <1>8, <1>15, <2>1, <2>2 DEF WrapperInCall
<1> QED BY <1>11, <1>13, <1>16 DEF EmitterInv

\* An emission ends: the others stay as they are, and a wrapper that is in
\* its call is in one of theirs.
LEMMA FrontStep ==
  ASSUME EmitterInv, frames # <<>>, frames' = Front(frames),
         events' = events, registered' = registered, calls' = calls,
         calm' \in BOOLEAN,
         calm' => calm /\ \A r \in Registrations :
                            IsWrapper(r) => Last(frames).current # r
  PROVE  EmitterInv'
<1>1. PICK before \in Seq(Frame) : before = frames
  BY DEF EmitterInv, EmitterTypes
<1>2. PICK m \in Nat : m = Len(before) - 1
  BY <1>1
<1>3. /\ frames' \in Seq(Frame) /\ Len(frames') = m
      /\ \A k \in 1 .. m : frames'[k] = frames[k]
  <2>1. Front(before) = SubSeq(before, 1, m)
    BY <1>2 DEF Front
  <2> QED BY <1>1, <1>2, <2>1
<1>4. \A k \in 1 .. m : k \in 1 .. Len(frames)
  BY <1>1, <1>2
<1>5. EmitterTypes' /\ Ordered'
  BY <1>3 DEF EmitterInv, EmitterTypes, Ordered
<1>6. FramesOK'
  BY <1>3, <1>4 DEF EmitterInv, FramesOK
<1>7. ASSUME calm', NEW n \in 1 .. Len(events), IsWrapper(events[n])
      PROVE  \/ calls[events[n].token] = 0
             \/ /\ calls[events[n].token] = 1
                /\ \E k \in 1 .. m : frames'[k].current = events[n]
  <2>1. \/ calls[events[n].token] = 0
        \/ /\ calls[events[n].token] = 1
           /\ \E k \in 1 .. Len(frames) : frames[k].current = events[n]
    BY <1>7 DEF EmitterInv, WrapperInCall
  <2>2. ASSUME NEW k \in 1 .. Len(frames), frames[k].current = events[n]
        PROVE  k \in 1 .. m /\ frames'[k].current = events[n]
    <3>1. events[n] \in Registrations
      BY DEF EmitterInv, EmitterTypes
    <3>2. Last(frames) = frames[Len(frames)]
      BY DEF Last
    <3>3. k # Len(frames)
      BY <1>7, <2>2, <3>1, <3>2
    <3>4. k \in 1 .. m
      BY <1>1, <1>2, <3>3
    <3> QED BY <1>3, <2>2, <3>4
  <2> QED BY <2>1, <2>2
<1>8. WrapperInCall'
  <2>1. calm' => \A a, b \in 1 .. Len(events) :
                   IsWrapper(events[a]) /\ IsWrapper(events[b]) => a = b
    BY DEF EmitterInv, WrapperInCall
  <2>2. \A t \in 1 .. MaxRegistrations : t > registered' => calls'[t] = 0
    BY DEF EmitterInv, WrapperInCall
  <2> QED BY <1>3, <1>7, <2>1, <2>2 DEF WrapperInCall
<1> QED BY <1>5, <1>6, <1>8 DEF EmitterInv

\* A listener throws.
LEMMA ThrowStep == ASSUME EmitterInv, Throw PROVE EmitterInv'
<1>1. /\ frames # <<>> /\ frames' = Front(frames)
      /\ calm' = (calm /\ ~IsWrapper(Last(frames).current))
      /\ events' = events /\ registered' = registered /\ calls' = calls
  BY DEF Throw, InCallback
<1>2. calm' \in BOOLEAN
  BY <1>1 DEF EmitterInv, EmitterTypes
<1> QED BY <1>1, <1>2, FrontStep

\* emit returns.
LEMMA EndEmitStep == ASSUME EmitterInv, EndEmit PROVE EmitterInv'
<1>1. /\ frames # <<>> /\ frames' = Front(frames) /\ calm' = calm
      /\ Last(frames).current = <<>>
      /\ events' = events /\ registered' = registered /\ calls' = calls
  BY DEF EndEmit, Between
<1>2. calm' \in BOOLEAN
  BY <1>1 DEF EmitterInv, EmitterTypes
<1> QED BY <1>1, <1>2, NotEmpty, FrontStep

LEMMA EmitterNext == EmitterInv /\ [Next]_vars => EmitterInv'
<1> SUFFICES ASSUME EmitterInv, [Next]_vars
             PROVE  EmitterInv'
  OBVIOUS
<1>1. ASSUME NEW text \in Texts, On(text)
      PROVE  EmitterInv'
  BY <1>1, PlaceStep DEF On
<1>2. CASE Once
  BY <1>2, PlaceStep DEF Once
<1>3. ASSUME NEW text \in Texts \cup {Wrapper}, Off(text)
      PROVE  EmitterInv'
  BY <1>3, OffStep
<1>4. CASE Emit
  BY <1>4, EmitStep
<1>5. CASE CallNext
  BY <1>5, CallStep
<1>6. CASE Return
  BY <1>6, ReturnStep
<1>7. CASE Throw
  BY <1>7, ThrowStep
<1>8. CASE EndEmit
  BY <1>8, EndEmitStep
<1>9. CASE UNCHANGED vars
  BY <1>9 DEF vars, EmitterInv, EmitterTypes, Ordered, FramesOK, WrapperInCall
<1> QED BY <1>1, <1>2, <1>3, <1>4, <1>5, <1>6, <1>7, <1>8, <1>9 DEF Next

\* The list stays in order, every emission has called what it passed but for
\* what was removed, and a calm wrapper that was called is in its call.
THEOREM EmitterInvariant == Spec => []EmitterInv
<1>1. Init => EmitterInv
  BY EmitterInitial
<1>2. EmitterInv /\ [Next]_vars => EmitterInv'
  BY EmitterNext
<1> QED BY <1>1, <1>2, PTL DEF Spec

-----------------------------------------------------------------------------
(* The theorems.                                                           *)

\* One emission calls a registration at most once, and in the order of
\* registration, whatever its listeners do (emit, App.js 93-101).
THEOREM CallsInOrderOnce == Spec => []InOrderOnce
<1>1. ASSUME EmitterInv
      PROVE  InOrderOnce
  <2> SUFFICES ASSUME NEW k \in DOMAIN frames,
                      NEW a \in DOMAIN frames[k].called,
                      NEW b \in DOMAIN frames[k].called, a < b
               PROVE  frames[k].called[a].token < frames[k].called[b].token
    BY DEF InOrderOnce
  <2>1. k \in 1 .. Len(frames) /\ frames[k] \in Frame
    BY <1>1 DEF EmitterInv, EmitterTypes
  <2>2. DOMAIN frames[k].called = 1 .. Len(frames[k].called)
    BY <2>1 DEF Frame
  <2>3. CallsPassed(frames[k], events, registered)
    BY <1>1, <2>1 DEF EmitterInv, FramesOK, FrameOK
  <2> QED BY <2>2, <2>3 DEF CallsPassed
<1> QED BY <1>1, EmitterInvariant, PTL

\* An emission calls no more late listeners than were removed during it.
THEOREM LateOnesCounted == Spec => []LateOnlyForRemoved
<1>1. ASSUME EmitterInv
      PROVE  LateOnlyForRemoved
  <2> SUFFICES ASSUME NEW k \in DOMAIN frames
               PROVE  Cardinality(Late(frames[k])) <= frames[k].removed
    BY DEF LateOnlyForRemoved, Late
  <2>1. k \in 1 .. Len(frames)
    BY <1>1 DEF EmitterInv, EmitterTypes
  <2> QED BY <1>1, <2>1 DEF EmitterInv, FramesOK, FrameOK, FewLate
<1> QED BY <1>1, EmitterInvariant, PTL

\* A once listener runs once, while none throws, none is emitted to inside
\* its own call and there are no two (onceWrapper, App.js 73-76).
THEOREM OnceIsOnce == Spec => []OnceRunsOnce
<1>1. ASSUME EmitterInv
      PROVE  OnceRunsOnce
  <2> SUFFICES ASSUME calm, NEW n \in DOMAIN events, IsWrapper(events[n])
               PROVE  calls[events[n].token] <= 1
    BY DEF OnceRunsOnce
  <2>1. n \in 1 .. Len(events)
    BY <1>1 DEF EmitterInv, EmitterTypes
  <2> QED BY <1>1, <2>1 DEF EmitterInv, WrapperInCall
<1> QED BY <1>1, EmitterInvariant, PTL

\* removeListener takes every second one of adjacent registrations with the
\* text, beginning with the first, and nothing else.
THEOREM RemovalAlternates == Spec => []RemovesAlternate
<1>1. ASSUME EmitterInv
      PROVE  RemovesAlternate
  <2>1. events \in Seq(Registrations)
    BY <1>1 DEF EmitterInv, EmitterTypes
  <2>2. \A text \in Texts \cup {Wrapper} :
          RemoveText(events, text) = Left(events, text)
    BY <2>1, Alternate
  <2> QED BY <2>2 DEF RemovesAlternate, Left
<1> QED BY <1>1, EmitterInvariant, PTL

\* At its end an emission has visited every place of its start that is left,
\* and of those it did not call no more are there than were removed.
LEMMA PassedOver ==
  ASSUME NEW list \in Seq(Registrations), NEW last, NEW f \in Frame,
         FrameOK(f, list, last), f.current = <<>>,
         ~(f.at < f.length /\ f.at < Len(list))
  PROVE  Cardinality((ToSet(f.start) \cap ToSet(list)) \ ToSet(f.called))
           <= f.removed
<1>1. PICK missed : missed = (ToSet(f.start) \cap ToSet(list)) \ ToSet(f.called)
  OBVIOUS
<1>2. PICK places : places = {n \in Skipped(f, list) : n \in 1 .. Len(list)}
  OBVIOUS
<1>3. PICK g : g = [n \in places |-> list[n]]
  OBVIOUS
<1>4. IsFiniteSet(places) /\ Cardinality(places) <= Cardinality(Skipped(f, list))
      /\ Cardinality(places) \in Nat
  <2>1. places \subseteq Skipped(f, list) /\ IsFiniteSet(Skipped(f, list))
    BY <1>2, SkippedFinite
  <2> QED BY <2>1, FS_Subset, FS_CardinalityType
<1>5. \A r \in missed : \E n \in places : list[n] = r
  <2> SUFFICES ASSUME NEW r \in missed
               PROVE  \E n \in places : list[n] = r
    OBVIOUS
  <2>1. /\ r \in ToSet(f.start) /\ r \in ToSet(list) /\ r \notin ToSet(f.called)
    BY <1>1
  <2>2. PICK n \in 1 .. Len(list) : list[n] = r
    BY <2>1 DEF ToSet
  <2>3. n <= f.length
    <3>1. PICK s \in 0 .. Len(list) :
            /\ s <= f.length
            /\ \A m \in 1 .. Len(list) : list[m] \in ToSet(f.start) <=> m <= s
      BY DEF FrameOK, FewLate
    <3>2. n <= s /\ f.length \in Nat
      BY <2>1, <2>2, <3>1 DEF Frame
    <3> QED BY <3>1, <3>2
  <2>4. n \in 1 .. Pos(f)
    <3>1. f.at \in Nat /\ f.length \in Nat /\ Pos(f) = f.at
      BY DEF Frame, Pos
    <3> QED BY <2>3, <3>1
  <2>5. n \in places
    BY <1>2, <2>1, <2>2, <2>4 DEF Skipped
  <2> QED BY <2>2, <2>5
<1>6. /\ IsFiniteSet(missed) /\ Cardinality(missed) <= Cardinality(places)
  <2>1. PICK image : image = {list[n] : n \in places}
    OBVIOUS
  <2>2. g \in Surjection(places, image)
    BY <1>3, <2>1 DEF Surjection
  <2>3. IsFiniteSet(image) /\ Cardinality(image) <= Cardinality(places)
    BY <1>4, <2>2, FS_Surjection
  <2>4. missed \subseteq image
    BY <1>5, <2>1
  <2>5. IsFiniteSet(missed) /\ Cardinality(missed) <= Cardinality(image)
    BY <2>3, <2>4, FS_Subset
  <2>6. Cardinality(missed) \in Nat /\ Cardinality(image) \in Nat
    BY <2>3, <2>5, FS_CardinalityType
  <2> QED BY <1>4, <2>3, <2>5, <2>6
<1>7. Cardinality(missed) \in Nat /\ Cardinality(Skipped(f, list)) \in Nat
      /\ f.removed \in Nat
  BY <1>6, FS_CardinalityType, SkippedFinite DEF Frame
<1>8. Cardinality(Skipped(f, list)) <= f.removed
  BY DEF FrameOK, FewSkipped
<1> QED BY <1>1, <1>4, <1>6, <1>7, <1>8

\* An emission that ends normally has missed no more of those it started with
\* and that are still there than were removed during it.
THEOREM MissesCounted == Spec => []AtMostRemovedSkipped
<1>1. ASSUME EmitterInv
      PROVE  AtMostRemovedSkipped
  <2> SUFFICES ASSUME Between, ~More(Last(frames))
               PROVE  Cardinality((ToSet(Last(frames).start) \cap ToSet(events))
                                    \ ToSet(Last(frames).called))
                        <= Last(frames).removed
    BY DEF AtMostRemovedSkipped
  <2>1. PICK list \in Seq(Registrations) : list = events
    BY <1>1 DEF EmitterInv, EmitterTypes
  <2>2. PICK f \in Frame : /\ f = Last(frames) /\ FrameOK(f, list, registered)
                           /\ f.current = <<>>
    BY <1>1, <2>1, InnerFrames DEF Between
  <2>3. ~(f.at < f.length /\ f.at < Len(list))
    <3>1. f.at \in Nat /\ f.length \in Nat /\ Len(list) \in Nat
      BY DEF Frame
    <3>2. ~(f.at < Min({f.length, Len(list)}))
      BY <2>1, <2>2 DEF More
    <3> QED BY <3>1, <3>2, MinOfTwo
  <2> QED BY <2>1, <2>2, <2>3, PassedOver
<1> QED BY <1>1, EmitterInvariant, PTL
=============================================================================
