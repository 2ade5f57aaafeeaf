---------------------------- MODULE TarReadProofs ---------------------------
(***************************************************************************)
(* Theorems about TarRead, for any tapes, records, limits and failures.    *)
(* The invariant has three layers: the types, with how many headers there  *)
(* may be at a time; the depth of headers against the entries reported;    *)
(* and where the reader is on the tape, as long as it is OnTrack.  Sums    *)
(* and maps come first, since where a body ends is a sum.                  *)
(***************************************************************************)
EXTENDS TarRead, SequenceTheorems, FiniteSetTheorems, FunctionTheorems, WellFoundedInduction, TLAPS

(* Numbers and sums. *)

LEMMA LeastOf ==
    ASSUME NEW S, S \subseteq Nat, S # {}
    PROVE  \E m \in S : \A k \in S : m <= k
<1> DEFINE R == {ss \in Nat \X Nat : ss[1] < ss[2]}
<1>1. IsWellFoundedOn(R, Nat)
  BY NatLessThanWellFounded DEF OpToRel
<1>2. \A x, y \in Nat : <<x, y>> \in R <=> x < y
  OBVIOUS
<1> HIDE DEF R
<1>3. PICK m \in S : \A k \in S : ~ (<<k, m>> \in R)
  BY <1>1, WFMin
<1>4. ASSUME NEW k \in S PROVE m <= k
  <2>1. m \in Nat /\ k \in Nat
    OBVIOUS
  <2>2. ~(k < m)
    BY <2>1, <1>2, <1>3
  <2> QED BY <2>1, <2>2
<1> QED BY <1>4

\* Induction, for a set of numbers.
LEMMA Everywhere ==
    ASSUME NEW S, 0 \in S, \A n \in Nat : n \in S => n + 1 \in S
    PROVE  \A n \in Nat : n \in S
<1>. DEFINE T == {n \in Nat : n \notin S}
<1>1. ASSUME T # {} PROVE FALSE
  <2>1. PICK m \in T : \A k \in T : m <= k
    BY <1>1, LeastOf
  <2>2. m \in Nat /\ m # 0
    OBVIOUS
  <2>3. m - 1 \in Nat /\ (m - 1) + 1 = m
    BY <2>2
  <2>4. m - 1 \in T
    BY <2>3
  <2>. QED  BY <2>1, <2>2, <2>4
<1>. QED  BY <1>1

IsSum(f, l, N) == f = [k \in 0 .. N |-> IF k = 0 THEN 0 ELSE f[k - 1] + l[k]]

LEMMA SumExists == ASSUME NEW l PROVE \A n \in Nat : \E f : IsSum(f, l, n)
<1>. DEFINE S == {n \in Nat : \E f : IsSum(f, l, n)}
<1>1. 0 \in S
  <2>1. IsSum([k \in 0 .. 0 |-> 0], l, 0)
    BY DEF IsSum
  <2>. QED  BY <2>1
<1>2. ASSUME NEW n \in Nat, n \in S PROVE n + 1 \in S
  <2>1. PICK f : IsSum(f, l, n)
    BY <1>2
  <2>. DEFINE g == [k \in 0 .. n + 1 |-> IF k = n + 1 THEN f[n] + l[n + 1] ELSE f[k]]
  <2>2. \A k \in 0 .. n : f[k] = IF k = 0 THEN 0 ELSE f[k - 1] + l[k]
    <3>1. f = [k \in 0 .. n |-> IF k = 0 THEN 0 ELSE f[k - 1] + l[k]]
      BY <2>1 DEF IsSum
    <3>. QED  BY <3>1
  <2>3. \A k \in 0 .. n + 1 : g[k] = IF k = 0 THEN 0 ELSE g[k - 1] + l[k]
    <3>1. ASSUME NEW k \in 0 .. n + 1 PROVE g[k] = IF k = 0 THEN 0 ELSE g[k - 1] + l[k]
      <4>1. CASE k = n + 1
        <5>1. g[k] = f[n] + l[n + 1]
          BY <4>1
        <5>2. n \in 0 .. n + 1 /\ k - 1 = n /\ n # n + 1 /\ k # 0
          BY <4>1
        <5>3. g[k - 1] = f[n]
          BY <5>2
        <5>. HIDE DEF g
        <5>. QED  BY <5>1, <5>2, <5>3, <4>1
      <4>2. CASE k # n + 1
        <5>1. k \in 0 .. n /\ g[k] = f[k]
          BY <4>2
        <5>2. k # 0 => k - 1 \in 0 .. n + 1 /\ k - 1 # n + 1
          BY <4>2
        <5>3. k # 0 => g[k - 1] = f[k - 1]
          BY <5>2
        <5>. HIDE DEF g
        <5>. QED  BY <5>1, <5>3, <2>2
      <4>. QED  BY <4>1, <4>2
    <3>. QED  BY <3>1
  <2>4. IsSum(g, l, n + 1)
    <3>1. g = [k \in 0 .. n + 1 |-> g[k]]
      OBVIOUS
    <3>. HIDE DEF g
    <3>2. [k \in 0 .. n + 1 |-> g[k]] = [k \in 0 .. n + 1 |-> IF k = 0 THEN 0 ELSE g[k - 1] + l[k]]
      BY <2>3
    <3>. QED  BY <3>1, <3>2 DEF IsSum
  <2>. HIDE DEF g
  <2>. QED  BY <2>4
<1>. HIDE DEF S
<1>3. \A n \in Nat : n \in S
  BY <1>1, <1>2, Everywhere
<1>. QED  BY <1>3 DEF S

\* The sum of lengths, length by length.
LEMMA SumStep ==
    ASSUME NEW l, Len(l) \in Nat
    PROVE  /\ SumUpTo(l, 0) = 0
           /\ \A k \in 1 .. Len(l) : SumUpTo(l, k) = SumUpTo(l, k - 1) + l[k]
<1>. DEFINE f == CHOOSE f : IsSum(f, l, Len(l))
<1>1. IsSum(f, l, Len(l))
  BY SumExists
<1>2. \A n : SumUpTo(l, n) = f[n]
  BY DEF SumUpTo, IsSum
<1>. HIDE DEF f
<1>3. \A k \in 0 .. Len(l) : f[k] = IF k = 0 THEN 0 ELSE f[k - 1] + l[k]
  <2>1. f = [k \in 0 .. Len(l) |-> IF k = 0 THEN 0 ELSE f[k - 1] + l[k]]
    BY <1>1 DEF IsSum
  <2>. QED  BY <2>1
<1>4. \A k \in 1 .. Len(l) : k \in 0 .. Len(l) /\ k # 0
  OBVIOUS
<1>. QED  BY <1>2, <1>3, <1>4

LEMMA SumIsNat ==
    ASSUME NEW l, Len(l) \in Nat, \A k \in 1 .. Len(l) : l[k] \in Nat
    PROVE  \A n \in 0 .. Len(l) : SumUpTo(l, n) \in Nat
<1>. DEFINE S == {n \in Nat : n <= Len(l) => SumUpTo(l, n) \in Nat}
<1>1. 0 \in S
  BY SumStep
<1>2. ASSUME NEW n \in Nat, n \in S PROVE n + 1 \in S
  <2>1. CASE n + 1 <= Len(l)
    <3>1. n + 1 \in 1 .. Len(l) /\ (n + 1) - 1 = n /\ n <= Len(l)
      BY <2>1
    <3>2. SumUpTo(l, n + 1) = SumUpTo(l, n) + l[n + 1]
      BY <3>1, SumStep
    <3>3. SumUpTo(l, n) \in Nat
      BY <1>2, <3>1
    <3>4. l[n + 1] \in Nat
      BY <3>1
    <3>. QED  BY <3>2, <3>3, <3>4
  <2>2. CASE ~(n + 1 <= Len(l))
    BY <2>2
  <2>. QED  BY <2>1, <2>2
<1>. HIDE DEF S
<1>3. \A n \in Nat : n \in S
  BY <1>1, <1>2, Everywhere
<1>. QED  BY <1>3 DEF S

-----------------------------------------------------------------------------
(* What is left of a map. *)

PieceType == [offset : Nat, remaining : Nat, hole : BOOLEAN]

LEMMA MapIs ==
    ASSUME NEW p
    PROVE  p \in Map <=> p \in Seq(PieceType)
BY DEF Map, PieceType

\* s is p without its first k - 1 pieces and d bytes of the next.
IsRest(s, p, k, d) ==
    /\ k \in 1 .. Len(p) + 1 /\ d \in Nat
    /\ Len(s) = Len(p) + 1 - k
    /\ k = Len(p) + 1 => d = 0
    /\ k # Len(p) + 1 =>
        /\ s[1].hole = p[k].hole
        /\ s[1].offset = p[k].offset + d
        /\ s[1].remaining = p[k].remaining - d
        /\ d <= p[k].remaining
    /\ \A m \in 2 .. Len(s) : s[m] = p[k + m - 1]

LEMMA LengthsOf ==
    ASSUME NEW p \in Map
    PROVE  /\ Len(Lengths(p)) = Len(p) /\ Len(p) \in Nat
           /\ \A k \in 1 .. Len(p) : Lengths(p)[k] = p[k].remaining /\ p[k].remaining \in Nat
                                     /\ p[k].offset \in Nat /\ p[k] \in PieceType
<1>1. p \in Seq(PieceType)
  BY MapIs
<1>2. DOMAIN p = 1 .. Len(p) /\ Len(p) \in Nat /\ \A k \in 1 .. Len(p) : p[k] \in PieceType
  BY <1>1
<1>3. Lengths(p) \in Seq(Nat) /\ Len(Lengths(p)) = Len(p)
  <2>1. \A k \in 1 .. Len(p) : p[k].remaining \in Nat
    BY <1>2 DEF PieceType
  <2>. QED  BY <1>2, <2>1 DEF Lengths
<1>. QED  BY <1>2, <1>3 DEF Lengths, PieceType

LEMMA SumOfMap ==
    ASSUME NEW p \in Map
    PROVE  /\ SumUpTo(Lengths(p), 0) = 0
           /\ \A k \in 0 .. Len(p) : SumUpTo(Lengths(p), k) \in Nat
           /\ \A k \in 1 .. Len(p) : SumUpTo(Lengths(p), k) = SumUpTo(Lengths(p), k - 1) + p[k].remaining
<1>. DEFINE l == Lengths(p)
<1>1. Len(l) = Len(p) /\ Len(l) \in Nat /\ \A k \in 1 .. Len(l) : l[k] \in Nat /\ l[k] = p[k].remaining
  BY LengthsOf
<1>. HIDE DEF l
<1>2. SumUpTo(l, 0) = 0 /\ \A k \in 1 .. Len(l) : SumUpTo(l, k) = SumUpTo(l, k - 1) + l[k]
  BY <1>1, SumStep
<1>3. \A k \in 0 .. Len(l) : SumUpTo(l, k) \in Nat
  BY <1>1, SumIsNat
<1>4. \A k \in 1 .. Len(p) : SumUpTo(l, k) = SumUpTo(l, k - 1) + p[k].remaining
  BY <1>1, <1>2
<1>. QED  BY <1>1, <1>2, <1>3, <1>4 DEF l

LEMMA SumOfRest ==
    ASSUME NEW p \in Map, NEW s \in Map, NEW k, NEW d, IsRest(s, p, k, d)
    PROVE  \A m \in 1 .. Len(s) :
             SumUpTo(Lengths(s), m) = SumUpTo(Lengths(p), k + m - 1) - SumUpTo(Lengths(p), k - 1) - d
<1>. DEFINE P(m) == SumUpTo(Lengths(s), m) = SumUpTo(Lengths(p), k + m - 1) - SumUpTo(Lengths(p), k - 1) - d
            S == {m \in Nat : m \in 1 .. Len(s) => P(m)}
<1>0. Len(s) \in Nat /\ Len(p) \in Nat /\ k \in 1 .. Len(p) + 1 /\ d \in Nat /\ Len(s) = Len(p) + 1 - k
  BY LengthsOf DEF IsRest
<1>1. 0 \in S
  OBVIOUS
<1>2. ASSUME NEW n \in Nat, n \in S PROVE n + 1 \in S
  <2>. SUFFICES ASSUME n + 1 \in 1 .. Len(s) PROVE P(n + 1)
    OBVIOUS
  <2>. DEFINE B(j) == SumUpTo(Lengths(p), j)
              A(j) == SumUpTo(Lengths(s), j)
  <2>0. PICK i \in 1 .. Len(p) : i = k + n
    BY <1>0
  <2>1. A(n + 1) = A(n) + s[n + 1].remaining
    BY SumOfMap, (n + 1) - 1 = n
  <2>2. k + (n + 1) - 1 = i /\ k + n - 1 = i - 1 /\ i - 1 \in 0 .. Len(p) /\ k - 1 \in 0 .. Len(p)
    BY <1>0, <2>0
  <2>3. B(i) = B(i - 1) + p[i].remaining
    BY SumOfMap
  <2>4. B(k - 1) \in Nat /\ B(i - 1) \in Nat
    BY <2>2, SumOfMap
  <2>7. p[i].remaining \in Nat
    BY LengthsOf
  <2>5. A(n + 1) = B(i) - B(k - 1) - d => P(n + 1)
    BY <2>2
  <2>6. PICK x, y, z, w, r, v : x = A(n + 1) /\ y = B(i) /\ z = B(i - 1) /\ w = B(k - 1) /\ r = p[i].remaining /\ v = A(n)
    OBVIOUS
  <2>10. y = z + r /\ z \in Nat /\ w \in Nat /\ r \in Nat
    BY <2>3, <2>4, <2>6, <2>7
  <2>11. x = v + s[n + 1].remaining
    BY <2>1, <2>6
  <2>8. CASE n = 0
    <3>1. k = i /\ k # Len(p) + 1 /\ n + 1 = 1
      BY <1>0, <2>0, <2>8
    <3>2. s[1].remaining = p[k].remaining - d
      BY <3>1 DEF IsRest
    <3>3. A(n) = 0
      BY <2>8, SumOfMap
    <3>4. s[n + 1].remaining = r - d /\ v = 0 /\ w = z
      BY <2>6, <3>1, <3>2, <3>3
    <3>6. x = y - w - d
      BY <2>10, <2>11, <3>4, <1>0
    <3>. QED  BY <2>5, <2>6, <3>6
  <2>9. CASE n # 0
    <3>1. n \in 1 .. Len(s) /\ n + 1 \in 2 .. Len(s)
      BY <2>9, <1>0
    <3>2. A(n) = B(i - 1) - B(k - 1) - d
      BY <1>2, <3>1, <2>2
    <3>3. s[n + 1] = p[i]
      BY <3>1, <2>2 DEF IsRest
    <3>4. s[n + 1].remaining = r /\ v = z - w - d
      BY <2>6, <3>2, <3>3
    <3>6. x = y - w - d
      BY <2>10, <2>11, <3>4, <1>0
    <3>. QED  BY <2>5, <2>6, <3>6
  <2>. QED  BY <2>8, <2>9
<1>. HIDE DEF S
<1>3. \A n \in Nat : n \in S
  BY <1>1, <1>2, Everywhere
<1>. USE DEF S
<1>. QED  BY <1>3, <1>0

\* All that is left.
LEMMA AllOfRest ==
    ASSUME NEW p \in Map, NEW s \in Map, NEW k, NEW d, IsRest(s, p, k, d)
    PROVE  SumOf(s) = SumOf(p) - SumUpTo(Lengths(p), k - 1) - d
<1>0. Len(s) \in Nat /\ Len(p) \in Nat /\ k \in 1 .. Len(p) + 1 /\ d \in Nat /\ Len(s) = Len(p) + 1 - k
  BY LengthsOf DEF IsRest
<1>1. CASE Len(s) = 0
  <2>1. k = Len(p) + 1 /\ d = 0 /\ k - 1 = Len(p)
    BY <1>0, <1>1 DEF IsRest
  <2>2. SumUpTo(Lengths(p), Len(p)) \in Nat /\ SumUpTo(Lengths(s), 0) = 0
    BY <1>0, SumOfMap
  <2>. QED  BY <1>1, <2>1, <2>2 DEF SumOf
<1>2. CASE Len(s) # 0
  <2>1. Len(s) \in 1 .. Len(s) /\ k + Len(s) - 1 = Len(p)
    BY <1>0, <1>2
  <2>. QED  BY <2>1, SumOfRest DEF SumOf
<1>. QED  BY <1>1, <1>2

LEMMA NothingSums ==
    ASSUME NEW s \in Map, NEW n \in 0 .. Len(s), \A k \in 1 .. n : s[k].remaining = 0
    PROVE  SumUpTo(Lengths(s), n) = 0
<1>. DEFINE S == {m \in Nat : m <= n => SumUpTo(Lengths(s), m) = 0}
<1>0. Len(s) \in Nat /\ n \in Nat /\ n <= Len(s)
  BY LengthsOf
<1>1. 0 \in S
  BY SumOfMap
<1>2. ASSUME NEW m \in Nat, m \in S PROVE m + 1 \in S
  <2>. SUFFICES ASSUME m + 1 <= n PROVE SumUpTo(Lengths(s), m + 1) = 0
    OBVIOUS
  <2>1. m + 1 \in 1 .. Len(s) /\ (m + 1) - 1 = m /\ m <= n /\ m + 1 \in 1 .. n
    BY <1>0
  <2>2. SumUpTo(Lengths(s), m + 1) = SumUpTo(Lengths(s), m) + s[m + 1].remaining
    BY <2>1, SumOfMap
  <2>. QED  BY <1>2, <2>1, <2>2
<1>. HIDE DEF S
<1>3. \A m \in Nat : m \in S
  BY <1>1, <1>2, Everywhere
<1>. QED  BY <1>3, <1>0 DEF S

LEMMA FirstOf ==
    ASSUME NEW S, S \subseteq Nat, S # {}
    PROVE  First(S) \in S /\ \A k \in S : First(S) <= k
BY LeastOf DEF First

\* The pieces that are not exhausted are what is left, too.
Left(s) == {k \in DOMAIN s : s[k].remaining > 0}

LEMMA UnexhaustedIs ==
    ASSUME NEW s \in Map
    PROVE  \/ Unexhausted(s) = <<>> /\ \A k \in 1 .. Len(s) : s[k].remaining = 0
           \/ \E m \in 1 .. Len(s) :
                /\ \A k \in 1 .. m - 1 : s[k].remaining = 0
                /\ s[m].remaining > 0
                /\ Unexhausted(s) \in Map
                /\ Len(Unexhausted(s)) = Len(s) - m + 1
                /\ \A j \in 1 .. Len(s) - m + 1 : Unexhausted(s)[j] = s[m + j - 1]
<1>0. DOMAIN s = 1 .. Len(s) /\ Len(s) \in Nat /\ s \in Seq(PieceType)
  BY MapIs, LengthsOf
<1>1. \A k \in 1 .. Len(s) : s[k].remaining \in Nat /\ s[k] \in PieceType
  BY LengthsOf
<1>2. CASE Left(s) = {}
  <2>1. Unexhausted(s) = <<>>
    BY <1>2 DEF Unexhausted, Left
  <2>2. \A k \in 1 .. Len(s) : ~(s[k].remaining > 0)
    BY <1>0, <1>2 DEF Left
  <2>. QED  BY <1>1, <2>1, <2>2
<1>3. CASE Left(s) # {}
  <2>1. Left(s) \subseteq 1 .. Len(s)
    BY <1>0 DEF Left
  <2>2. PICK m : m = First(Left(s))
    OBVIOUS
  <2>3. m \in Left(s) /\ \A k \in Left(s) : m <= k
    <3>1. Left(s) \subseteq Nat
      BY <2>1, <1>0
    <3>. QED  BY <3>1, <1>3, <2>2, FirstOf
  <2>4. m \in 1 .. Len(s) /\ s[m].remaining > 0
    BY <2>1, <2>3 DEF Left
  <2>5. \A k \in 1 .. m - 1 : s[k].remaining = 0
    <3>1. ASSUME NEW k \in 1 .. m - 1 PROVE s[k].remaining = 0
      <4>1. k \in 1 .. Len(s) /\ ~(m <= k)
        BY <2>4, <1>0
      <4>2. k \notin Left(s)
        BY <4>1, <2>3
      <4>3. ~(s[k].remaining > 0)
        BY <4>1, <4>2, <1>0 DEF Left
      <4>. QED  BY <4>1, <4>3, <1>1
    <3>. QED  BY <3>1
  <2>6. Unexhausted(s) = SubSeq(s, m, Len(s))
    BY <1>3, <2>2 DEF Unexhausted, Left
  <2>7. SubSeq(s, m, Len(s)) \in Seq(PieceType)
    BY <1>0, <2>4
  <2>8. Len(SubSeq(s, m, Len(s))) = Len(s) - m + 1
    BY <1>0, <2>4
  <2>9. \A j \in 1 .. Len(s) - m + 1 : SubSeq(s, m, Len(s))[j] = s[m + j - 1]
    BY <1>0, <2>4
  <2>. QED  BY <2>4, <2>5, <2>6, <2>7, <2>8, <2>9, MapIs
<1>. QED  BY <1>2, <1>3

\* How far a reader is that has left this of a map.
Far(p, k, d) == SumUpTo(Lengths(p), k - 1) + d

LEMMA RestIsKept ==
    ASSUME NEW p \in Map, NEW s \in Map, NEW k, NEW d, IsRest(s, p, k, d)
    PROVE  \E k2, d2 : IsRest(Unexhausted(s), p, k2, d2) /\ Far(p, k2, d2) = Far(p, k, d)
<1>0. Len(s) \in Nat /\ Len(p) \in Nat /\ k \in 1 .. Len(p) + 1 /\ d \in Nat /\ Len(s) = Len(p) + 1 - k
  BY LengthsOf DEF IsRest
<1>. DEFINE u == Unexhausted(s)
<1>1. CASE u = <<>> /\ \A j \in 1 .. Len(s) : s[j].remaining = 0
  <2>1. IsRest(u, p, Len(p) + 1, 0)
    BY <1>0, <1>1 DEF IsRest
  <2>2. SumOf(s) = 0
    <3>1. Len(s) \in 0 .. Len(s) /\ \A j \in 1 .. Len(s) : s[j].remaining = 0
      BY <1>0, <1>1
    <3>2. SumUpTo(Lengths(s), Len(s)) = 0
      BY <3>1, NothingSums
    <3>. QED  BY <3>2 DEF SumOf
  <2>3. SumUpTo(Lengths(p), Len(p)) = SumUpTo(Lengths(p), k - 1) + d
    <3>1. 0 = SumUpTo(Lengths(p), Len(p)) - SumUpTo(Lengths(p), k - 1) - d
      BY <2>2, AllOfRest DEF SumOf
    <3>2. k - 1 \in 0 .. Len(p) /\ Len(p) \in 0 .. Len(p)
      BY <1>0
    <3>3. SumUpTo(Lengths(p), k - 1) \in Nat /\ SumUpTo(Lengths(p), Len(p)) \in Nat
      BY <3>2, SumOfMap
    <3>4. PICK x \in Nat, y \in Nat : x = SumUpTo(Lengths(p), k - 1) /\ y = SumUpTo(Lengths(p), Len(p))
      BY <3>3
    <3>5. 0 = y - x - d
      BY <3>1, <3>4
    <3>6. y = x + d
      BY <3>5, <1>0
    <3>. QED  BY <3>4, <3>6
  <2>4. (Len(p) + 1) - 1 = Len(p)
    BY <1>0
  <2>5. SumUpTo(Lengths(p), Len(p)) \in Nat
    BY <1>0, SumOfMap
  <2>6. Far(p, Len(p) + 1, 0) = Far(p, k, d)
    BY <2>3, <2>4, <2>5 DEF Far
  <2>. QED  BY <2>1, <2>6
<1>2. ASSUME NEW m \in 1 .. Len(s), \A j \in 1 .. m - 1 : s[j].remaining = 0,
             Len(u) = Len(s) - m + 1, \A j \in 1 .. Len(s) - m + 1 : u[j] = s[m + j - 1]
      PROVE  \E k2, d2 : IsRest(u, p, k2, d2) /\ Far(p, k2, d2) = Far(p, k, d)
  <2>1. CASE m = 1
    <3>1. Len(u) = Len(s) /\ \A j \in 1 .. Len(s) : u[j] = s[j]
      <4>1. Len(u) = Len(s)
        BY <1>0, <1>2, <2>1
      <4>2. ASSUME NEW j \in 1 .. Len(s) PROVE u[j] = s[j]
        <5>1. j \in 1 .. Len(s) - m + 1 /\ m + j - 1 = j
          BY <1>0, <2>1
        <5>2. u[j] = s[m + j - 1]
          BY <5>1, <1>2
        <5>. QED  BY <5>1, <5>2
      <4>. QED  BY <4>1, <4>2
    <3>. HIDE DEF u
    <3>2. IsRest(u, p, k, d)
      <4>1. k # Len(p) + 1 => 1 \in 1 .. Len(s)
        BY <1>0
      <4>2. \A j \in 2 .. Len(s) : j \in 1 .. Len(s)
        BY <1>0
      <4>. QED  BY <3>1, <4>1, <4>2 DEF IsRest
    <3>. QED  BY <3>2
  <2>2. CASE m # 1
    <3>1. PICK i : i = k + m - 1
      OBVIOUS
    <3>2. i \in 1 .. Len(p) + 1 /\ i # Len(p) + 1 /\ Len(u) = Len(p) + 1 - i /\ i - 1 = k + (m - 1) - 1
      BY <1>0, <1>2, <3>1
    <3>3. u[1] = p[i]
      <4>1. u[1] = s[m]
        <5>1. 1 \in 1 .. Len(s) - m + 1 /\ m + 1 - 1 = m
          BY <1>0, <1>2
        <5>. QED  BY <5>1, <1>2
      <4>2. m \in 2 .. Len(s)
        BY <2>2, <1>0
      <4>3. s[m] = p[i]
        BY <4>2, <3>1 DEF IsRest
      <4>. QED  BY <4>1, <4>3
    <3>4. \A j \in 2 .. Len(u) : u[j] = p[i + j - 1]
      <4>1. ASSUME NEW j \in 2 .. Len(u) PROVE u[j] = p[i + j - 1]
        <5>1. j \in 1 .. Len(s) - m + 1
          BY <1>0, <1>2
        <5>2. u[j] = s[m + j - 1]
          BY <5>1, <1>2
        <5>3. m + j - 1 \in 2 .. Len(s)
          BY <1>0, <5>1
        <5>4. s[m + j - 1] = p[k + (m + j - 1) - 1]
          BY <5>3 DEF IsRest
        <5>5. k + (m + j - 1) - 1 = i + j - 1
          BY <1>0, <3>1, <5>1
        <5>. QED  BY <5>2, <5>4, <5>5
      <4>. QED  BY <4>1
    <3>5. p[i].remaining \in Nat /\ p[i].offset \in Nat
      BY <3>2, <1>0, LengthsOf
    <3>6. IsRest(u, p, i, 0)
      <4>. HIDE DEF u
      <4>. QED  BY <3>2, <3>3, <3>4, <3>5 DEF IsRest
    <3>7. SumUpTo(Lengths(p), i - 1) = SumUpTo(Lengths(p), k - 1) + d
      <4>1. m - 1 \in 1 .. Len(s) /\ m - 1 \in 0 .. Len(s)
        BY <1>0, <2>2
      <4>2. SumUpTo(Lengths(s), m - 1) = SumUpTo(Lengths(p), i - 1) - SumUpTo(Lengths(p), k - 1) - d
        BY <4>1, <3>2, SumOfRest
      <4>3. SumUpTo(Lengths(s), m - 1) = 0
        BY <4>1, <1>2, NothingSums
      <4>4. k - 1 \in 0 .. Len(p) /\ i - 1 \in 0 .. Len(p)
        BY <1>0, <3>2
      <4>5. SumUpTo(Lengths(p), k - 1) \in Nat /\ SumUpTo(Lengths(p), i - 1) \in Nat
        BY <4>4, SumOfMap
      <4>6. PICK x \in Nat, y \in Nat : x = SumUpTo(Lengths(p), k - 1) /\ y = SumUpTo(Lengths(p), i - 1)
        BY <4>5
      <4>7. 0 = y - x - d
        BY <4>2, <4>3, <4>6
      <4>8. y = x + d
        BY <4>7, <1>0
      <4>. QED  BY <4>6, <4>8
    <3>8. Far(p, i, 0) = Far(p, k, d)
      <4>1. i - 1 \in 0 .. Len(p)
        BY <1>0, <3>2
      <4>2. SumUpTo(Lengths(p), i - 1) \in Nat
        BY <4>1, SumOfMap
      <4>. QED  BY <3>7, <4>2 DEF Far
    <3>. QED  BY <3>6, <3>8
  <2>. QED  BY <2>1, <2>2
<1>. QED  BY <1>1, <1>2, UnexhaustedIs

\* What is left of a piece, and of a map, when n bytes of the first piece are read.
Eaten(x, n) == [x EXCEPT !.offset = @ + n, !.remaining = @ - n]
TakenOf(s, n) == <<Eaten(Head(s), n)>> \o Tail(s)

LEMMA EatenIs ==
    ASSUME NEW x \in PieceType, NEW n \in Nat, n <= x.remaining
    PROVE  /\ Eaten(x, n) \in PieceType
           /\ Eaten(x, n).hole = x.hole
           /\ Eaten(x, n).offset = x.offset + n
           /\ Eaten(x, n).remaining = x.remaining - n
<1>1. x.remaining - n \in Nat /\ x.offset + n \in Nat
  BY DEF PieceType
<1>. QED  BY <1>1 DEF PieceType, Eaten

LEMMA TakenIs ==
    ASSUME NEW s \in Map, s # <<>>, NEW n \in Nat, n <= Head(s).remaining
    PROVE  /\ TakenOf(s, n) \in Map
           /\ Len(TakenOf(s, n)) = Len(s)
           /\ TakenOf(s, n)[1] = Eaten(s[1], n)
           /\ \A j \in 2 .. Len(s) : TakenOf(s, n)[j] = s[j]
<1>0. Len(s) \in Nat /\ s \in Seq(PieceType) /\ Len(s) # 0
  BY MapIs, LengthsOf
<1>1. Head(s) = s[1] /\ s[1] \in PieceType /\ 1 \in 1 .. Len(s)
  BY <1>0
<1>. DEFINE h == Eaten(Head(s), n)
<1>2. h \in PieceType /\ h = Eaten(s[1], n)
  BY <1>1, EatenIs
<1>. HIDE DEF h
<1>3. Tail(s) \in Seq(PieceType) /\ Len(Tail(s)) = Len(s) - 1 /\ \A j \in 1 .. Len(s) - 1 : Tail(s)[j] = s[j + 1]
  BY <1>0
<1>4. TakenOf(s, n) = <<h>> \o Tail(s)
  BY DEF TakenOf, h
<1>5. <<h>> \in Seq(PieceType) /\ Len(<<h>>) = 1 /\ <<h>>[1] = h
  BY <1>2
<1>6. <<h>> \o Tail(s) \in Seq(PieceType) /\ Len(<<h>> \o Tail(s)) = Len(s)
  BY <1>0, <1>3, <1>5
<1>7. (<<h>> \o Tail(s))[1] = h
  BY <1>0, <1>3, <1>5
<1>8. \A j \in 2 .. Len(s) : (<<h>> \o Tail(s))[j] = s[j]
  <2>1. ASSUME NEW j \in 2 .. Len(s) PROVE (<<h>> \o Tail(s))[j] = s[j]
    <3>1. j - 1 \in 1 .. Len(s) - 1 /\ (j - 1) + 1 = j
      BY <1>0
    <3>2. (<<h>> \o Tail(s))[j] = Tail(s)[j - 1]
      BY <1>0, <1>3, <1>5
    <3>. QED  BY <3>1, <3>2, <1>3
  <2>. QED  BY <2>1
<1>. QED  BY <1>2, <1>4, <1>6, <1>7, <1>8, MapIs

LEMMA RestIsTaken ==
    ASSUME NEW p \in Map, NEW s \in Map, NEW k, NEW d, IsRest(s, p, k, d),
           s # <<>>, NEW n \in Nat, n <= Head(s).remaining
    PROVE  IsRest(TakenOf(s, n), p, k, d + n)
<1>0. Len(s) \in Nat /\ Len(p) \in Nat /\ k \in 1 .. Len(p) + 1 /\ d \in Nat /\ Len(s) = Len(p) + 1 - k
  BY LengthsOf DEF IsRest
<1>1. s[1] = Head(s) /\ Len(s) # 0 /\ k # Len(p) + 1 /\ s[1] \in PieceType /\ k \in 1 .. Len(p)
  <2>1. s \in Seq(PieceType)
    BY MapIs
  <2>2. s[1] = Head(s) /\ Len(s) # 0
    BY <2>1
  <2>. QED  BY <1>0, <2>1, <2>2
<1>2. p[k].remaining \in Nat /\ p[k].offset \in Nat
  BY <1>1, LengthsOf
<1>3. PICK t : t = TakenOf(s, n)
  OBVIOUS
<1>4. Len(t) = Len(s) /\ t[1] = Eaten(s[1], n) /\ \A j \in 2 .. Len(s) : t[j] = s[j]
  BY <1>3, TakenIs
<1>5. t[1].hole = s[1].hole /\ t[1].offset = s[1].offset + n /\ t[1].remaining = s[1].remaining - n
  BY <1>1, <1>4, EatenIs
<1>6. s[1].hole = p[k].hole /\ s[1].offset = p[k].offset + d /\ s[1].remaining = p[k].remaining - d /\ d <= p[k].remaining
  BY <1>1 DEF IsRest
<1>7. n <= s[1].remaining
  BY <1>1
<1>8. PICK o \in Nat, r \in Nat : o = p[k].offset /\ r = p[k].remaining
  BY <1>2
<1>9. n <= r - d
  BY <1>6, <1>7, <1>8
<1>10. (o + d) + n = o + (d + n) /\ (r - d) - n = r - (d + n) /\ d + n <= r
  BY <1>0, <1>9
<1>11. t[1].hole = p[k].hole /\ t[1].offset = p[k].offset + (d + n) /\ t[1].remaining = p[k].remaining - (d + n) /\ d + n <= p[k].remaining
  BY <1>5, <1>6, <1>8, <1>10
<1>12. \A j \in 2 .. Len(t) : t[j] = p[k + j - 1]
  BY <1>4 DEF IsRest
<1>13. IsRest(t, p, k, d + n)
  BY <1>0, <1>1, <1>4, <1>11, <1>12 DEF IsRest
<1>. QED  BY <1>3, <1>13

LEMMA RestIsAll == ASSUME NEW p \in Map PROVE IsRest(p, p, 1, 0)
<1>1. Len(p) \in Nat /\ \A k \in 1 .. Len(p) : p[k].remaining \in Nat /\ p[k].offset \in Nat
  BY LengthsOf
<1>2. 1 # Len(p) + 1 => 1 \in 1 .. Len(p)
  BY <1>1
<1>. QED  BY <1>1, <1>2 DEF IsRest

\* When no hole is left unread all that is left is stored.
LEMMA StoredIsAll ==
    ASSUME NEW s \in Map, \A p \in ToSet(s) : ~(p.hole /\ p.remaining > 0)
    PROVE  SumUpTo(Stored(s), Len(s)) = SumOf(s)
<1>1. DOMAIN s = 1 .. Len(s) /\ \A k \in 1 .. Len(s) : s[k].remaining \in Nat
  BY MapIs, LengthsOf
<1>2. \A k \in 1 .. Len(s) : ~(s[k].hole /\ s[k].remaining > 0)
  BY <1>1 DEF ToSet
<1>3. \A k \in DOMAIN s : (IF s[k].hole THEN 0 ELSE s[k].remaining) = s[k].remaining
  BY <1>1, <1>2
<1>4. Stored(s) = Lengths(s)
  BY <1>3 DEF Stored, Lengths
<1>. QED  BY <1>4 DEF SumOf

-----------------------------------------------------------------------------
(* The tape. *)

LEMMA RecordIs == Record \in Nat /\ Record > 0 /\ MaxDepth \in Nat /\ MaxDepth > 0 /\ MaxFaults \in Nat /\ BodyLimit \in Nat
BY NumbersAssumption

LEMMA DivisionIs ==
    ASSUME NEW R \in Nat, R > 0, NEW n \in Nat
    PROVE  n \div R \in Nat /\ (n \div R) * R <= n /\ n < (n \div R) * R + R
OBVIOUS

LEMMA MultipleIs ==
    ASSUME NEW R \in Nat, R > 0, NEW x \in Nat, NEW y \in Nat, NEW n \in Nat,
           x * R <= n, n < x * R + R, y * R <= n, n < y * R + R
    PROVE  x = y
<1>1. ASSUME NEW a \in Nat, NEW b \in Nat, a < b PROVE a * R + R <= b * R
  <2>1. PICK c \in Nat : b = a + 1 + c
    <3>1. b - a - 1 \in Nat /\ b = a + 1 + (b - a - 1)
      BY <1>1
    <3>. QED  BY <3>1
  <2>2. b * R = a * R + R + c * R
    BY <2>1
  <2>3. c * R \in Nat /\ a * R \in Nat
    OBVIOUS
  <2>. QED  BY <2>2, <2>3
<1>2. x * R \in Nat /\ y * R \in Nat
  OBVIOUS
<1>3. ~(x < y)
  <2>1. x < y => x * R + R <= y * R
    BY <1>1
  <2>. QED  BY <2>1, <1>2
<1>4. ~(y < x)
  <2>1. y < x => y * R + R <= x * R
    BY <1>1
  <2>. QED  BY <2>1, <1>2
<1>. QED  BY <1>3, <1>4

LEMMA PaddedIs ==
    ASSUME NEW n \in Nat
    PROVE  /\ Padded(n) \in Nat /\ PaddingOf(n) \in 0 .. Record - 1
           /\ Padded(n) = n + PaddingOf(n)
           /\ \E q \in Nat : Padded(n) = q * Record
<1>1. PICK q \in Nat : q = (n + Record - 1) \div Record
  BY RecordIs, DivisionIs, n + Record - 1 \in Nat
<1>2. q * Record <= n + Record - 1 /\ n + Record - 1 < q * Record + Record /\ q * Record \in Nat
  BY <1>1, RecordIs, DivisionIs, n + Record - 1 \in Nat
<1>3. Padded(n) = q * Record
  BY <1>1 DEF Padded
<1>. QED  BY <1>2, <1>3, RecordIs DEF PaddingOf

\* Whole records make no difference to the padding.
LEMMA PaddingGoesOn ==
    ASSUME NEW n \in Nat, NEW m \in Nat, Padded(m) <= n
    PROVE  n - Padded(m) \in Nat /\ PaddingOf(n - Padded(m)) = PaddingOf(n)
<1>1. PICK q \in Nat : Padded(m) = q * Record
  BY PaddedIs
<1>. DEFINE k == n - Padded(m)
<1>2. k \in Nat /\ q * Record \in Nat /\ n = k + q * Record
  BY <1>1, RecordIs
<1>. HIDE DEF k
<1>3. PICK x \in Nat : x = (k + Record - 1) \div Record
  BY <1>2, RecordIs, DivisionIs, k + Record - 1 \in Nat
<1>4. x * Record <= k + Record - 1 /\ k + Record - 1 < x * Record + Record /\ x * Record \in Nat
  BY <1>2, <1>3, RecordIs, DivisionIs, k + Record - 1 \in Nat
<1>5. PICK y \in Nat : y = (n + Record - 1) \div Record
  BY RecordIs, DivisionIs, n + Record - 1 \in Nat
<1>6. y * Record <= n + Record - 1 /\ n + Record - 1 < y * Record + Record /\ y * Record \in Nat
  BY <1>5, RecordIs, DivisionIs, n + Record - 1 \in Nat
<1>7. PICK z \in Nat : z = x + q
  OBVIOUS
<1>8. z * Record = x * Record + q * Record
  BY <1>7, RecordIs
<1>9. z * Record <= n + Record - 1 /\ n + Record - 1 < z * Record + Record
  BY <1>2, <1>4, <1>8, RecordIs
<1>10. y = z
  BY <1>6, <1>9, RecordIs, MultipleIs, n + Record - 1 \in Nat
<1>11. Padded(n) = y * Record /\ Padded(k) = x * Record
  BY <1>3, <1>5 DEF Padded
<1>12. PaddingOf(k) = PaddingOf(n)
  BY <1>2, <1>4, <1>8, <1>10, <1>11 DEF PaddingOf
<1>. QED  BY <1>2, <1>12 DEF k

OnTape == tape \in Tapes

LEMMA TapeIs ==
    ASSUME OnTape
    PROVE  /\ Len(Members) \in Nat /\ DOMAIN Members = 1 .. Len(Members)
           /\ \A i \in 1 .. Len(Members) : Members[i] \in Member
           /\ Start(1) = 0
           /\ \A i \in 1 .. Len(Members) : Start(i + 1) = Start(i) + Record + Padded(Members[i].body)
           /\ Size \in 0 .. Start(Len(Members) + 1)
<1>1. tape.members \in Seq(Member) /\ tape.starts[1] = 0
  BY TapesAssumption DEF OnTape
<1>2. Len(tape.members) \in Nat /\ DOMAIN tape.members = 1 .. Len(tape.members) /\ \A i \in 1 .. Len(tape.members) : tape.members[i] \in Member
  BY <1>1
<1>3. \A i \in DOMAIN tape.members : tape.starts[i + 1] = tape.starts[i] + Record + Padded(tape.members[i].body)
  BY TapesAssumption DEF OnTape
<1>4. tape.size \in 0 .. tape.starts[Len(tape.members) + 1]
  BY TapesAssumption DEF OnTape
<1>. QED  BY <1>1, <1>2, <1>3, <1>4 DEF Members, Size, Start

LEMMA MemberIs ==
    ASSUME OnTape, NEW i \in 1 .. Len(Members)
    PROVE  /\ Flag(i) \in FileFlags \cup SpecialFlags \cup {"null", "damaged"}
           /\ Members[i].size \in Nat /\ Members[i].body \in Nat /\ Members[i].mapsize \in Nat
           /\ Members[i].resize \in Int /\ (Members[i].resize >= 0 => Members[i].resize \in Nat)
           /\ Members[i].gnu \in BOOLEAN /\ Members[i].malformed \in BOOLEAN
           /\ Members[i].map \in Map /\ Members[i].inner \in Map
           /\ Members[i].version \in {"no", "1.0", "other"}
<1>1. Members[i] \in Member
  BY TapeIs
<1>. QED  BY <1>1 DEF Member, Flag

LEMMA StartIsNat == ASSUME OnTape PROVE \A i \in 1 .. Len(Members) + 1 : Start(i) \in Nat
<1>. DEFINE S == {n \in Nat : n + 1 \in 1 .. Len(Members) + 1 => Start(n + 1) \in Nat}
<1>0. Len(Members) \in Nat
  BY TapeIs
<1>1. 0 \in S
  BY TapeIs
<1>2. ASSUME NEW n \in Nat, n \in S PROVE n + 1 \in S
  <2>. SUFFICES ASSUME (n + 1) + 1 \in 1 .. Len(Members) + 1 PROVE Start((n + 1) + 1) \in Nat
    OBVIOUS
  <2>1. n + 1 \in 1 .. Len(Members) /\ n + 1 \in 1 .. Len(Members) + 1
    BY <1>0
  <2>2. Start(n + 1) \in Nat
    BY <1>2, <2>1
  <2>3. Start((n + 1) + 1) = Start(n + 1) + Record + Padded(Members[n + 1].body)
    BY <2>1, TapeIs
  <2>4. Padded(Members[n + 1].body) \in Nat
    BY <2>1, MemberIs, PaddedIs
  <2>. QED  BY <2>2, <2>3, <2>4, RecordIs
<1>. HIDE DEF S
<1>3. \A n \in Nat : n \in S
  BY <1>1, <1>2, Everywhere
<1>4. ASSUME NEW i \in 1 .. Len(Members) + 1 PROVE Start(i) \in Nat
  <2>1. i - 1 \in Nat /\ (i - 1) + 1 = i
    BY <1>0
  <2>. QED  BY <2>1, <1>3 DEF S
<1>. QED  BY <1>4

LEMMA StartsGrow ==
    ASSUME OnTape
    PROVE  \A i, j \in 1 .. Len(Members) + 1 : i < j => Start(i) + Record <= Start(j)
<1>0. Len(Members) \in Nat
  BY TapeIs
<1>1. ASSUME NEW i \in 1 .. Len(Members) + 1
      PROVE  \A j \in 1 .. Len(Members) + 1 : i < j => Start(i) + Record <= Start(j)
  <2>. DEFINE S == {n \in Nat : n \in 1 .. Len(Members) + 1 /\ i < n => Start(i) + Record <= Start(n)}
  <2>1. 0 \in S
    BY <1>0
  <2>2. ASSUME NEW n \in Nat, n \in S PROVE n + 1 \in S
    <3>. SUFFICES ASSUME n + 1 \in 1 .. Len(Members) + 1, i < n + 1 PROVE Start(i) + Record <= Start(n + 1)
      OBVIOUS
    <3>1. n \in 1 .. Len(Members) /\ n \in 1 .. Len(Members) + 1
      BY <1>0
    <3>2. Start(n + 1) = Start(n) + Record + Padded(Members[n].body)
      BY <3>1, TapeIs
    <3>3. Padded(Members[n].body) \in Nat
      BY <3>1, MemberIs, PaddedIs
    <3>4. Start(n) \in Nat /\ Start(i) \in Nat
      BY <3>1, StartIsNat
    <3>8. PICK a, b, c, e : a \in Nat /\ b \in Nat /\ c \in Nat /\ a = Start(i) /\ b = Start(n) /\ c = Padded(Members[n].body) /\ e = Start(n + 1)
      BY <3>3, <3>4
    <3>9. e = b + Record + c /\ a \in Nat /\ b \in Nat /\ c \in Nat
      BY <3>2, <3>8
    <3>5. CASE i = n
      <4>1. a = b
        BY <3>5, <3>8
      <4>2. a + Record <= e
        BY <4>1, <3>9, RecordIs
      <4>. QED  BY <4>2, <3>8
    <3>6. CASE i < n
      <4>1. a + Record <= b
        BY <3>6, <3>1, <2>2, <3>8
      <4>2. a + Record <= e
        BY <4>1, <3>9, RecordIs
      <4>. QED  BY <4>2, <3>8
    <3>7. i = n \/ i < n
      BY <1>0
    <3>. QED  BY <3>5, <3>6, <3>7
  <2>. HIDE DEF S
  <2>3. \A n \in Nat : n \in S
    BY <2>1, <2>2, Everywhere
  <2>. QED  BY <2>3, <1>0 DEF S
<1>. QED  BY <1>1

LEMMA StartsDiffer ==
    ASSUME OnTape, NEW i \in 1 .. Len(Members) + 1, NEW j \in 1 .. Len(Members) + 1, Start(i) = Start(j)
    PROVE  i = j
<1>1. Len(Members) \in Nat /\ Start(i) \in Nat /\ Start(j) \in Nat
  BY TapeIs, StartIsNat
<1>2. ~(i < j) /\ ~(j < i)
  BY <1>1, StartsGrow, RecordIs
<1>. QED  BY <1>1, <1>2

-----------------------------------------------------------------------------
(* Types. *)

EntryType == [file : 0 .. Len(Members), by : 0 .. Len(Members)]
BlockType == [at : Nat, offset : Nat, size : Nat]
ReplyType == [call : {"open", "header", "skip", "data"}, ret : Results, block : BlockType]

MediaOK == OnTape /\ on_disk \in BOOLEAN /\ concatenated \in BOOLEAN
PlaceOK == pos \in Nat /\ dead \in BOOLEAN /\ faults \in 0 .. MaxFaults
DataOK ==
    /\ remaining \in Nat /\ padding \in 0 .. Record - 1 /\ unconsumed \in Nat
    /\ sparse_list \in Map /\ pending \in {"no", "other"}
CallOK ==
    /\ state \in {"header", "data", "eof", "fatal"} /\ pc \in {"idle", "header", "return", "data"}
    /\ res \in Results /\ reply \in ReplyType /\ clean \in BOOLEAN
HistoryOK == entry \in EntryType /\ entries \in Seq(EntryType) /\ astray \in BOOLEAN

\* Too many headers are counted, too, but each is behind the one before.
Passed(p) == {i \in DOMAIN Members : Start(i) < p}
LevelsOK ==
    /\ pax \in BOOLEAN
    /\ specials \in Seq(DOMAIN Members)
    /\ depth \in Nat /\ Len(specials) <= depth
    /\ depth <= MaxDepth + Cardinality(Passed(pos))

TypeInv == MediaOK /\ PlaceOK /\ DataOK /\ CallOK /\ HistoryOK /\ LevelsOK

LEMMA PassedIs ==
    ASSUME OnTape, NEW p
    PROVE  IsFiniteSet(Passed(p)) /\ Cardinality(Passed(p)) \in Nat /\ Cardinality(Passed(p)) <= Len(Members)
<1>1. Len(Members) \in Nat /\ DOMAIN Members = 1 .. Len(Members)
  BY TapeIs
<1>2. IsFiniteSet(1 .. Len(Members)) /\ Cardinality(1 .. Len(Members)) = Len(Members)
  <2>1. PICK n : n = Len(Members)
    OBVIOUS
  <2>4. n \in Nat
    BY <1>1, <2>1
  <2>2. IsFiniteSet(1 .. n) /\ Cardinality(1 .. n) = IF 1 > n THEN 0 ELSE n - 1 + 1
    BY <2>4, FS_Interval
  <2>3. Cardinality(1 .. n) = n
    BY <2>2, <2>4
  <2>. QED  BY <2>1, <2>2, <2>3
<1>3. Passed(p) \in SUBSET (1 .. Len(Members))
  BY <1>1 DEF Passed
<1>4. IsFiniteSet(Passed(p)) /\ Cardinality(Passed(p)) <= Cardinality(1 .. Len(Members))
  BY <1>2, <1>3, FS_Subset
<1>. QED  BY <1>2, <1>4, FS_CardinalityType

\* The place never moves back, and more of the tape is behind it.
LEMMA PassedGrows ==
    ASSUME OnTape, NEW p \in Nat, NEW q \in Nat, p <= q
    PROVE  Cardinality(Passed(p)) <= Cardinality(Passed(q))
<1>1. Passed(p) \in SUBSET Passed(q)
  <2>1. \A i \in DOMAIN Members : Start(i) \in Nat
    BY TapeIs, StartIsNat
  <2>. QED  BY <2>1 DEF Passed
<1>. QED  BY <1>1, PassedIs, FS_Subset

\* A header that is read is behind.
LEMMA PassedAdds ==
    ASSUME OnTape, NEW p \in Nat, NEW q \in Nat, NEW i \in DOMAIN Members, Start(i) = p, p < q
    PROVE  Cardinality(Passed(p)) + 1 <= Cardinality(Passed(q))
<1>1. Passed(p) \cup {i} \in SUBSET Passed(q)
  <2>1. \A j \in DOMAIN Members : Start(j) \in Nat
    BY TapeIs, StartIsNat
  <2>. QED  BY <2>1 DEF Passed
<1>2. i \notin Passed(p)
  BY DEF Passed
<1>3. Cardinality(Passed(p) \cup {i}) = Cardinality(Passed(p)) + 1
  BY <1>2, PassedIs, FS_AddElement
<1>. QED  BY <1>1, <1>3, PassedIs, FS_Subset

LEMMA TypeInvIsTypeOK == TypeInv => TypeOK
<1>. SUFFICES ASSUME TypeInv PROVE TypeOK
  OBVIOUS
<1>1. MediaOK /\ PlaceOK /\ DataOK /\ CallOK /\ HistoryOK /\ LevelsOK
  BY DEF TypeInv
<1>2. Cardinality(Passed(pos)) \in Nat /\ Cardinality(Passed(pos)) <= Len(Members) /\ Len(Members) \in Nat
  BY <1>1, PassedIs, TapeIs DEF MediaOK
<1>3. depth \in 0 .. MaxDepth + Len(Members)
  BY <1>1, <1>2, RecordIs DEF LevelsOK
<1>4. {entry.file, entry.by} \subseteq 0 .. Len(Members)
  BY <1>1 DEF HistoryOK, EntryType
<1>5. reply.ret \in Results
  BY <1>1 DEF CallOK, ReplyType
<1>6. {on_disk, concatenated} \subseteq BOOLEAN
  BY <1>1 DEF MediaOK
<1>7. pos \in Nat /\ dead \in BOOLEAN /\ pax \in BOOLEAN /\ specials \in Seq(DOMAIN Members)
  BY <1>1 DEF PlaceOK, LevelsOK
<1>8. remaining \in Nat /\ padding \in 0 .. Record - 1 /\ unconsumed \in Nat /\ sparse_list \in Map /\ pending \in {"no", "other"}
  BY <1>1 DEF DataOK
<1>9. state \in {"header", "data", "eof", "fatal"} /\ pc \in {"idle", "header", "return", "data"} /\ res \in Results /\ faults \in 0 .. MaxFaults
  BY <1>1 DEF CallOK, PlaceOK
<1>10. astray \in BOOLEAN /\ clean \in BOOLEAN
  BY <1>1 DEF CallOK, HistoryOK
<1>. QED  BY <1>3, <1>4, <1>5, <1>6, <1>7, <1>8, <1>9, <1>10 DEF TypeOK

LEMMA InitTypes == Init => TypeInv
<1>. SUFFICES ASSUME Init PROVE TypeInv
  OBVIOUS
<1>1. MediaOK
  BY DEF Init, MediaOK, OnTape
<1>2. PlaceOK
  <2>1. 0 \in 0 .. MaxFaults
    BY RecordIs
  <2>. QED  BY <2>1 DEF Init, PlaceOK
<1>3. DataOK
  BY RecordIs DEF Init, DataOK, Map
<1>4. CallOK
  <2>1. reply \in ReplyType
    BY DEF Init, ReplyType, BlockType, NoBlock, Results
  <2>. QED  BY <2>1 DEF Init, CallOK, Results
<1>5. HistoryOK
  <2>1. Len(Members) \in Nat
    BY <1>1, TapeIs DEF MediaOK
  <2>2. NoEntry \in EntryType
    BY <2>1 DEF EntryType, NoEntry
  <2>3. entries \in Seq(EntryType)
    BY EmptySeq DEF Init
  <2>. QED  BY <2>2, <2>3 DEF Init, HistoryOK
<1>6. LevelsOK
  <2>1. Cardinality(Passed(pos)) \in Nat
    BY <1>1, PassedIs DEF MediaOK
  <2>2. depth = 0 /\ specials = <<>> /\ pax \in BOOLEAN
    BY DEF Init
  <2>4. Len(specials) = 0 /\ specials \in Seq(DOMAIN Members)
    BY <2>2, EmptySeq
  <2>3. depth <= MaxDepth + Cardinality(Passed(pos))
    BY <2>1, <2>2, RecordIs
  <2>. QED  BY <2>2, <2>3, <2>4 DEF LevelsOK
<1>. QED  BY <1>1, <1>2, <1>3, <1>4, <1>5, <1>6 DEF TypeInv

\* Steps that leave a part alone.
LEMMA MediaStay == ASSUME MediaOK, UNCHANGED media PROVE MediaOK'
BY DEF MediaOK, media, OnTape

LEMMA DataStay == ASSUME DataOK, UNCHANGED <<remaining, padding, unconsumed, sparse_list, pending>> PROVE DataOK'
BY DEF DataOK

LEMMA HistoryStays ==
    ASSUME HistoryOK, UNCHANGED media, entry' \in EntryType, UNCHANGED entries, astray' \in BOOLEAN PROVE HistoryOK'
BY DEF HistoryOK, EntryType, media, Members

LEMMA ReturnsType ==
    ASSUME NEW c \in {"header", "skip", "data"}, NEW r \in Results, NEW b \in BlockType,
           Returns(c, r, b), CallOK, state' \in {"header", "data", "eof", "fatal"}, UNCHANGED res
    PROVE  CallOK'
<1>1. reply' \in ReplyType
  BY DEF Returns, ReplyType
<1>2. clean' \in BOOLEAN
  BY DEF Returns, CallOK
<1>. QED  BY <1>1, <1>2 DEF CallOK, Returns

LEMMA GivesType == ASSUME NEW r \in Results, Gives(r), CallOK, UNCHANGED <<state, reply, clean>> PROVE CallOK'
BY DEF CallOK, Gives

LEMMA NoBlockType == NoBlock \in BlockType
BY DEF NoBlock, BlockType

LEMMA BreaksType == ASSUME PlaceOK, Breaks, pos' \in Nat PROVE PlaceOK'
<1>1. faults' \in 0 .. MaxFaults
  BY RecordIs DEF PlaceOK, Breaks
<1>. QED  BY <1>1 DEF PlaceOK, Breaks

LEMMA PassedStays == ASSUME UNCHANGED media PROVE Passed(pos)' = Passed(pos')
BY DEF Passed, media, Members, Start

LEMMA LevelsStay ==
    ASSUME OnTape, UNCHANGED media, LevelsOK, pax' \in BOOLEAN, UNCHANGED <<depth, specials>>,
           pos \in Nat, pos' \in Nat, pos <= pos'
    PROVE  LevelsOK'
<1>1. Cardinality(Passed(pos)) <= Cardinality(Passed(pos')) /\ Cardinality(Passed(pos)) \in Nat /\ Cardinality(Passed(pos')) \in Nat
  BY PassedIs, PassedGrows
<1>2. depth \in Nat /\ depth <= MaxDepth + Cardinality(Passed(pos))
  BY DEF LevelsOK
<1>3. depth <= MaxDepth + Cardinality(Passed(pos'))
  BY <1>1, <1>2, RecordIs
<1>4. depth' <= MaxDepth + Cardinality(Passed(pos)')
  BY <1>3, PassedStays
<1>5. (DOMAIN Members)' = DOMAIN Members
  BY DEF media, Members
<1>. QED  BY <1>4, <1>5 DEF LevelsOK

LEMMA StoredIsNat == ASSUME NEW s \in Map PROVE SumUpTo(Stored(s), Len(s)) \in Nat
<1>1. DOMAIN s = 1 .. Len(s) /\ Len(s) \in Nat /\ \A k \in 1 .. Len(s) : s[k].remaining \in Nat
  BY MapIs, LengthsOf
<1>. DEFINE l == Stored(s)
<1>2. \A k \in 1 .. Len(s) : l[k] \in Nat
  BY <1>1 DEF Stored
<1>3. l \in Seq(Nat) /\ Len(l) = Len(s)
  BY <1>1, <1>2 DEF Stored
<1>. HIDE DEF l
<1>4. Len(s) \in 0 .. Len(l)
  BY <1>1, <1>3
<1>5. SumUpTo(l, Len(s)) \in Nat
  BY <1>1, <1>2, <1>3, <1>4, SumIsNat
<1>. QED  BY <1>5 DEF l

LEMMA LeastIsNat == ASSUME NEW a \in Nat, NEW b \in Nat PROVE Least(a, b) \in Nat /\ Least(a, b) <= a /\ Least(a, b) <= b
BY DEF Least

LEMMA SkippedIsNat == ASSUME DataOK PROVE Skipped \in Nat
<1>1. PICK x : x = SumUpTo(Stored(sparse_list), Len(sparse_list))
  OBVIOUS
<1>2. x \in Nat /\ remaining \in Nat /\ padding \in Nat /\ unconsumed \in Nat
  BY <1>1, StoredIsNat, RecordIs DEF DataOK
<1>3. Least(x, remaining) \in Nat
  BY <1>2, LeastIsNat
<1>. QED  BY <1>1, <1>2, <1>3 DEF Skipped

LEMMA PassesType ==
    ASSUME PlaceOK, NEW p \in Nat, NEW n \in Nat, pos <= p, Passes(p, n)
    PROVE  PlaceOK' /\ pos' \in Nat /\ pos <= pos'
<1>1. pos' = p + n /\ pos \in Nat
  BY DEF Passes, PlaceOK
<1>2. pos' \in Nat /\ pos <= pos'
  BY <1>1
<1>. QED  BY <1>2 DEF Passes, PlaceOK

LEMMA CannotPassType ==
    ASSUME PlaceOK, NEW p \in Nat, NEW n \in Nat, pos <= p, CannotPass(p, n)
    PROVE  PlaceOK' /\ pos' \in Nat /\ pos <= pos'
<1>1. pos' = p /\ (Breaks \/ UNCHANGED <<dead, faults>>)
  BY DEF CannotPass
<1>2. CASE Breaks
  BY <1>1, <1>2, BreaksType
<1>3. CASE UNCHANGED <<dead, faults>>
  BY <1>1, <1>3 DEF PlaceOK
<1>. QED  BY <1>1, <1>2, <1>3

LEMMA PlaceStays == ASSUME PlaceOK, UNCHANGED <<dead, faults>>, pos' \in Nat PROVE PlaceOK'
BY DEF PlaceOK

LEMMA NoDataType ==
    ASSUME DataOK, remaining' = 0, padding' = 0, unconsumed' = 0, sparse_list' = <<>>, UNCHANGED pending
    PROVE  DataOK'
<1>1. 0 \in 0 .. Record - 1 /\ <<>> \in Map
  BY RecordIs, EmptySeq DEF Map
<1>. QED  BY <1>1 DEF DataOK

LEMMA MisusedType == ASSUME TypeInv, NEW c \in {"header", "skip", "data"}, Misused(c) PROVE TypeInv'
<1>1. MediaOK'
  BY MediaStay DEF TypeInv, Misused
<1>2. PlaceOK'
  BY DEF TypeInv, Misused, PlaceOK
<1>3. DataOK'
  BY DataStay DEF TypeInv, Misused, tar
<1>4. CallOK'
  BY ReturnsType, NoBlockType DEF TypeInv, Misused, Results
<1>5. HistoryOK'
  BY HistoryStays DEF TypeInv, Misused, HistoryOK
<1>6. LevelsOK'
  <2>1. pos' = pos /\ pos \in Nat /\ pos <= pos'
    BY DEF TypeInv, Misused, PlaceOK
  <2>2. pax' \in BOOLEAN /\ UNCHANGED <<depth, specials>>
    BY DEF TypeInv, Misused, tar, LevelsOK
  <2>. QED  BY <2>1, <2>2, LevelsStay DEF TypeInv, Misused, MediaOK
<1>. QED  BY <1>1, <1>2, <1>3, <1>4, <1>5, <1>6 DEF TypeInv

\* What the calls of the handle do to the types.
LEMMA SkipTypes ==
    ASSUME TypeInv, Skip, UNCHANGED pending
    PROVE  PlaceOK' /\ DataOK' /\ astray' \in BOOLEAN /\ pos' \in Nat /\ pos <= pos' /\ pos \in Nat
<1>1. Skipped \in Nat /\ pos \in Nat /\ PlaceOK /\ DataOK
  BY SkippedIsNat DEF TypeInv, PlaceOK
<1>2. PlaceOK' /\ pos' \in Nat /\ pos <= pos'
  BY <1>1, PassesType DEF Skip
<1>3. DataOK'
  BY <1>1, NoDataType DEF Skip
<1>4. astray' \in BOOLEAN
  BY DEF Skip, TypeInv, HistoryOK
<1>. QED  BY <1>1, <1>2, <1>3, <1>4

LEMMA DataSkipTypes == ASSUME TypeInv, DataSkip PROVE TypeInv'
<1>1. MediaOK' /\ UNCHANGED media
  BY MediaStay DEF TypeInv, DataSkip
<1>2. UNCHANGED <<pax, depth, specials, pending, res, entry, entries>> /\ state' = "header"
  BY DEF DataSkip
<1>3. PlaceOK' /\ DataOK' /\ astray' \in BOOLEAN /\ pos' \in Nat /\ pos <= pos' /\ pos \in Nat /\ CallOK'
  <2>1. CASE Skip /\ Returns("skip", "ok", NoBlock)
    <3>1. CallOK'
      BY <2>1, <1>2, ReturnsType, NoBlockType DEF TypeInv, Results
    <3>. QED  BY <2>1, <1>2, <3>1, SkipTypes
  <2>2. CASE /\ CannotPass(pos, Skipped)
             /\ Returns("skip", "fatal", NoBlock)
             /\ UNCHANGED <<remaining, padding, unconsumed, sparse_list, astray>>
    <3>1. CallOK'
      BY <2>2, <1>2, ReturnsType, NoBlockType DEF TypeInv, Results
    <3>2. Skipped \in Nat /\ pos \in Nat /\ PlaceOK
      BY SkippedIsNat DEF TypeInv, PlaceOK
    <3>3. PlaceOK' /\ pos' \in Nat /\ pos <= pos'
      BY <2>2, <3>2, CannotPassType
    <3>4. DataOK'
      BY <2>2, <1>2, DataStay DEF TypeInv
    <3>5. astray' \in BOOLEAN
      BY <2>2 DEF TypeInv, HistoryOK
    <3>. QED  BY <3>1, <3>2, <3>3, <3>4, <3>5
  <2>. QED  BY <2>1, <2>2 DEF DataSkip
<1>4. HistoryOK'
  BY <1>1, <1>2, <1>3, HistoryStays DEF TypeInv, HistoryOK
<1>5. LevelsOK'
  BY <1>1, <1>2, <1>3, LevelsStay DEF TypeInv, LevelsOK, MediaOK
<1>. QED  BY <1>1, <1>3, <1>4, <1>5 DEF TypeInv

LEMMA NoEntryType == ASSUME MediaOK PROVE NoEntry \in EntryType
<1>1. Len(Members) \in Nat
  BY TapeIs DEF MediaOK
<1>. QED  BY <1>1 DEF NoEntry, EntryType

LEMMA NextHeaderTypes == ASSUME TypeInv, NextHeader PROVE TypeInv'
<1>1. MediaOK' /\ UNCHANGED media
  BY MediaStay DEF TypeInv, NextHeader
<1>2. UNCHANGED <<pax, depth, specials, pending, res, reply, entries, clean>> /\ state' = "header" /\ pc' = "header" /\ entry' = NoEntry
  BY DEF NextHeader
<1>3. PlaceOK' /\ DataOK' /\ astray' \in BOOLEAN /\ pos' \in Nat /\ pos <= pos' /\ pos \in Nat
  <2>1. CASE Skip
    BY <2>1, <1>2, SkipTypes
  <2>2. CASE sparse_list' = <<>> /\ UNCHANGED <<pos, dead, faults, remaining, padding, unconsumed, astray>>
    <3>1. PlaceOK' /\ pos' \in Nat /\ pos <= pos' /\ pos \in Nat
      BY <2>2 DEF TypeInv, PlaceOK
    <3>2. DataOK'
      BY <2>2, <1>2, EmptySeq DEF TypeInv, DataOK, Map
    <3>. QED  BY <2>2, <3>1, <3>2 DEF TypeInv, HistoryOK
  <2>. QED  BY <2>1, <2>2 DEF NextHeader
<1>4. CallOK'
  BY <1>2 DEF TypeInv, CallOK
<1>5. HistoryOK'
  BY <1>1, <1>2, <1>3, HistoryStays, NoEntryType DEF TypeInv
<1>6. LevelsOK'
  BY <1>1, <1>2, <1>3, LevelsStay DEF TypeInv, LevelsOK, MediaOK
<1>. QED  BY <1>1, <1>3, <1>4, <1>5, <1>6 DEF TypeInv

LEMMA NextHeaderCannotSkipTypes == ASSUME TypeInv, NextHeaderCannotSkip PROVE TypeInv'
<1>1. MediaOK' /\ UNCHANGED media
  BY MediaStay DEF TypeInv, NextHeaderCannotSkip
<1>2. UNCHANGED <<tar, res, entry, entries, astray>> /\ state' = "fatal"
  BY DEF NextHeaderCannotSkip
<1>3. Skipped \in Nat /\ pos \in Nat /\ PlaceOK
  BY SkippedIsNat DEF TypeInv, PlaceOK
<1>4. PlaceOK' /\ pos' \in Nat /\ pos <= pos'
  BY <1>3, CannotPassType DEF NextHeaderCannotSkip
<1>5. DataOK'
  BY <1>2, DataStay DEF TypeInv, tar
<1>6. CallOK'
  BY <1>2, ReturnsType, NoBlockType DEF TypeInv, Results, NextHeaderCannotSkip
<1>7. HistoryOK'
  BY <1>1, <1>2, HistoryStays DEF TypeInv, HistoryOK
<1>8. LevelsOK'
  BY <1>1, <1>2, <1>3, <1>4, LevelsStay DEF TypeInv, LevelsOK, tar, MediaOK
<1>. QED  BY <1>1, <1>4, <1>5, <1>6, <1>7, <1>8 DEF TypeInv

LEMMA ReadDataTypes == ASSUME TypeInv, ReadData PROVE TypeInv'
<1>1. MediaOK' /\ UNCHANGED media
  BY MediaStay DEF TypeInv, ReadData
<1>2. UNCHANGED <<pos, dead, tar, state, res, reply, faults, entry, entries, astray, clean>> /\ pc' = "data"
  BY DEF ReadData
<1>3. PlaceOK' /\ pos' \in Nat /\ pos <= pos' /\ pos \in Nat
  BY <1>2 DEF TypeInv, PlaceOK
<1>4. DataOK'
  BY <1>2, DataStay DEF TypeInv, tar
<1>5. CallOK'
  BY <1>2 DEF TypeInv, CallOK
<1>6. HistoryOK'
  BY <1>1, <1>2, HistoryStays DEF TypeInv, HistoryOK
<1>7. LevelsOK'
  BY <1>1, <1>2, <1>3, LevelsStay DEF TypeInv, LevelsOK, tar, MediaOK
<1>. QED  BY <1>1, <1>3, <1>4, <1>5, <1>6, <1>7 DEF TypeInv

\* What reading a header leaves as it is.
LEMMA InHeaderTypes ==
    ASSUME TypeInv, InHeader
    PROVE  MediaOK' /\ DataOK' /\ HistoryOK' /\ UNCHANGED media /\ UNCHANGED <<state, reply, clean>>
<1>1. UNCHANGED <<media, unconsumed, sparse_list, pending, state, reply, entries, astray, clean>> /\ UNCHANGED <<remaining, padding, entry>>
  BY DEF InHeader, Kept
<1>2. MediaOK' /\ UNCHANGED media
  BY <1>1, MediaStay DEF TypeInv
<1>3. DataOK'
  BY <1>1, DataStay DEF TypeInv
<1>4. HistoryOK'
  BY <1>1, HistoryStays DEF TypeInv, HistoryOK
<1>. QED  BY <1>1, <1>2, <1>3, <1>4

LEMMA HeaderAtEndTypes == ASSUME TypeInv, HeaderBreaks \/ HeaderAtEnd \/ Damaged PROVE TypeInv'
<1>1. InHeader /\ UNCHANGED <<pax, depth, specials>> /\ pos' \in {pos, pos + Record} /\ (Breaks \/ UNCHANGED <<dead, faults>>)
  BY DEF HeaderBreaks, HeaderAtEnd, Damaged, TooShort, Shows
<1>2. \E r \in Results : Gives(r)
  BY DEF HeaderBreaks, HeaderAtEnd, Damaged, Results
<1>3. MediaOK' /\ DataOK' /\ HistoryOK' /\ UNCHANGED media /\ UNCHANGED <<state, reply, clean>>
  BY <1>1, InHeaderTypes
<1>4. pos \in Nat /\ pos' \in Nat /\ pos <= pos'
  BY <1>1, RecordIs DEF TypeInv, PlaceOK
<1>5. PlaceOK'
  BY <1>1, <1>4, BreaksType, PlaceStays DEF TypeInv
<1>6. CallOK'
  BY <1>2, <1>3, GivesType DEF TypeInv
<1>7. LevelsOK'
  BY <1>1, <1>3, <1>4, LevelsStay DEF TypeInv, LevelsOK, MediaOK
<1>. QED  BY <1>3, <1>5, <1>6, <1>7 DEF TypeInv

LEMMA NullRecordTypes == ASSUME TypeInv, NullRecord PROVE TypeInv'
<1>1. InHeader /\ UNCHANGED <<pax, depth, specials>> /\ UNCHANGED <<dead, faults>>
  BY DEF NullRecord, Shows
<1>2. Gives("eof") \/ UNCHANGED <<pc, res>>
  BY DEF NullRecord
<1>8. pos' = pos + Record \/ pos' = pos + 2 * Record
  BY DEF NullRecord, AfterNull
<1>3. MediaOK' /\ DataOK' /\ HistoryOK' /\ UNCHANGED media /\ UNCHANGED <<state, reply, clean>>
  BY <1>1, InHeaderTypes
<1>4. pos \in Nat /\ pos' \in Nat /\ pos <= pos'
  BY <1>8, RecordIs DEF TypeInv, PlaceOK
<1>5. PlaceOK'
  BY <1>1, <1>4, PlaceStays DEF TypeInv
<1>6. CallOK'
  <2>1. CASE Gives("eof")
    BY <2>1, <1>3, GivesType DEF TypeInv, Results
  <2>2. CASE UNCHANGED <<pc, res>>
    BY <2>2, <1>3 DEF TypeInv, CallOK
  <2>. QED  BY <1>2, <2>1, <2>2
<1>7. LevelsOK'
  BY <1>1, <1>3, <1>4, LevelsStay DEF TypeInv, LevelsOK, MediaOK
<1>. QED  BY <1>3, <1>5, <1>6, <1>7 DEF TypeInv

\* The header at the place is one of the tape.
LEMMA HereIs == ASSUME MediaOK, NEW i \in Here PROVE i \in 1 .. Len(Members) /\ i \in DOMAIN Members /\ Start(i) = pos /\ i \in Int
<1>1. DOMAIN Members = 1 .. Len(Members) /\ Len(Members) \in Nat
  BY TapeIs DEF MediaOK
<1>. QED  BY <1>1 DEF Here

LEMMA TooManyTypes == ASSUME TypeInv, TooManyHeaders PROVE TypeInv'
<1>1. InHeader /\ UNCHANGED <<pax, specials>> /\ depth' = depth + 1 /\ pos' = pos + Record /\ Gives("warn") /\ UNCHANGED <<dead, faults>>
  BY DEF TooManyHeaders, Header, Shows
<1>2. PICK i \in Here : Header(i)
  BY DEF TooManyHeaders
<1>3. MediaOK' /\ DataOK' /\ HistoryOK' /\ UNCHANGED media /\ UNCHANGED <<state, reply, clean>>
  BY <1>1, InHeaderTypes
<1>4. pos \in Nat /\ pos' \in Nat /\ pos < pos'
  BY <1>1, RecordIs DEF TypeInv, PlaceOK
<1>5. PlaceOK'
  BY <1>1, <1>4, PlaceStays DEF TypeInv
<1>6. CallOK'
  BY <1>1, <1>3, GivesType DEF TypeInv, Results
<1>7. LevelsOK'
  <2>1. i \in DOMAIN Members /\ Start(i) = pos /\ OnTape
    BY HereIs DEF TypeInv, MediaOK
  <2>2. Cardinality(Passed(pos)) + 1 <= Cardinality(Passed(pos'))
    BY <1>4, <2>1, PassedAdds
  <2>3. Cardinality(Passed(pos)) \in Nat /\ Cardinality(Passed(pos')) \in Nat
    BY <2>1, PassedIs
  <2>4. depth \in Nat /\ depth <= MaxDepth + Cardinality(Passed(pos)) /\ Len(specials) <= depth /\ specials \in Seq(DOMAIN Members)
    BY DEF TypeInv, LevelsOK
  <2>5. depth + 1 <= MaxDepth + Cardinality(Passed(pos'))
    BY <2>2, <2>3, <2>4, RecordIs
  <2>6. Len(specials) \in Nat
    BY <2>4
  <2>7. depth' \in Nat /\ Len(specials)' <= depth'
    BY <1>1, <2>4, <2>6
  <2>8. depth' <= MaxDepth + Cardinality(Passed(pos)')
    BY <1>1, <1>3, <2>5, PassedStays
  <2>9. (DOMAIN Members)' = DOMAIN Members
    BY <1>3 DEF media, Members
  <2>. QED  BY <1>1, <2>4, <2>7, <2>8, <2>9 DEF TypeInv, LevelsOK
<1>. QED  BY <1>3, <1>5, <1>6, <1>7 DEF TypeInv

LEMMA EntersType ==
    ASSUME TypeInv, NEW i \in Here, Enters(i), UNCHANGED media, pax' \in BOOLEAN, pos' \in Nat
    PROVE  LevelsOK'
<1>1. i \in DOMAIN Members /\ OnTape
  BY HereIs DEF TypeInv, MediaOK
<1>2. specials \in Seq(DOMAIN Members) /\ depth \in Nat /\ Len(specials) <= depth
  BY DEF TypeInv, LevelsOK
<1>3. depth < MaxDepth /\ depth' = depth + 1 /\ specials' = Append(specials, i)
  BY <1>2, RecordIs DEF Enters, TooDeep
<1>4. specials' \in Seq(DOMAIN Members) /\ Len(specials') = Len(specials) + 1 /\ Len(specials) \in Nat
  BY <1>1, <1>2, <1>3
<1>5. Cardinality(Passed(pos')) \in Nat
  BY <1>1, PassedIs
<1>6. depth' \in Nat /\ Len(specials') <= depth' /\ depth' <= MaxDepth + Cardinality(Passed(pos'))
  BY <1>2, <1>3, <1>4, <1>5, RecordIs
<1>7. depth' <= MaxDepth + Cardinality(Passed(pos)')
  BY <1>6, PassedStays
<1>8. (DOMAIN Members)' = DOMAIN Members
  BY DEF media, Members
<1>. QED  BY <1>4, <1>6, <1>7, <1>8 DEF LevelsOK

LEMMA ReadSpecialTypes == ASSUME TypeInv, ReadSpecial \/ SpecialBreaks \/ ReadVolume PROVE TypeInv'
<1>1. PICK i \in Here : Enters(i)
  BY DEF ReadSpecial, SpecialBreaks, ReadVolume
<1>2. InHeader /\ (Breaks \/ UNCHANGED <<dead, faults>>) /\ pax' \in BOOLEAN /\ (Gives("fatal") \/ UNCHANGED <<pc, res>>)
  BY DEF ReadSpecial, SpecialBreaks, ReadVolume, Header, Shows, TypeInv, LevelsOK
<1>3. MediaOK' /\ DataOK' /\ HistoryOK' /\ UNCHANGED media /\ UNCHANGED <<state, reply, clean>>
  BY <1>2, InHeaderTypes
<1>4. pos' \in Nat
  <2>1. CASE pos' = pos + Record
    BY <2>1, RecordIs DEF TypeInv, PlaceOK
  <2>2. ASSUME NEW j \in Here, pos' = pos + Record + Padded(Members[j].size) PROVE pos' \in Nat
    <3>1. Members[j].size \in Nat
      BY HereIs, MemberIs DEF TypeInv, MediaOK
    <3>2. Padded(Members[j].size) \in Nat
      BY <3>1, PaddedIs
    <3>. QED  BY <2>2, <3>2, RecordIs DEF TypeInv, PlaceOK
  <2>. QED  BY <2>1, <2>2 DEF ReadSpecial, SpecialBreaks, ReadVolume
<1>5. PlaceOK'
  BY <1>2, <1>4, BreaksType, PlaceStays DEF TypeInv
<1>6. CallOK'
  <2>1. CASE Gives("fatal")
    BY <2>1, <1>3, GivesType DEF TypeInv, Results
  <2>2. CASE UNCHANGED <<pc, res>>
    BY <2>2, <1>3 DEF TypeInv, CallOK
  <2>. QED  BY <1>2, <2>1, <2>2
<1>7. LevelsOK'
  BY <1>1, <1>2, <1>3, <1>4, EntersType
<1>. QED  BY <1>3, <1>5, <1>6, <1>7 DEF TypeInv

LEMMA ReadFileTypes == ASSUME TypeInv, ReadFile PROVE TypeInv'
<1>1. PICK i \in Here :
        /\ Enters(i) /\ pos' = pos + Record /\ pax' = (pax /\ ~Members[i].gnu)
        /\ remaining' = IF SizeObeyed(i) THEN Members[i].size ELSE 0
        /\ padding' = PaddingOf(remaining') /\ Gives("ok") /\ entry' = [file |-> i, by |-> 0]
        /\ Kept /\ UNCHANGED <<dead, faults>>
  BY DEF ReadFile, Header, Shows
<1>2. i \in 1 .. Len(Members) /\ OnTape /\ Members[i].size \in Nat /\ Members[i].gnu \in BOOLEAN /\ Len(Members) \in Nat
  BY HereIs, MemberIs, TapeIs DEF TypeInv, MediaOK
<1>3. UNCHANGED <<media, unconsumed, sparse_list, pending, state, reply, entries, astray, clean>>
  BY <1>1 DEF Kept
<1>4. MediaOK' /\ UNCHANGED media
  BY <1>3, MediaStay DEF TypeInv
<1>5. remaining' \in Nat
  BY <1>1, <1>2
<1>6. padding' \in 0 .. Record - 1
  BY <1>1, <1>5, PaddedIs
<1>7. DataOK'
  BY <1>3, <1>5, <1>6 DEF TypeInv, DataOK
<1>8. pos' \in Nat /\ PlaceOK'
  BY <1>1, RecordIs, PlaceStays DEF TypeInv, PlaceOK
<1>9. CallOK'
  BY <1>1, <1>3, GivesType DEF TypeInv, Results
<1>10. entry' \in EntryType
  BY <1>1, <1>2 DEF EntryType
<1>11. HistoryOK'
  BY <1>3, <1>4, <1>10, HistoryStays DEF TypeInv, HistoryOK
<1>12. pax' \in BOOLEAN
  BY <1>1, <1>2 DEF TypeInv, LevelsOK
<1>13. LevelsOK'
  BY <1>1, <1>4, <1>8, <1>12, EntersType
<1>. QED  BY <1>4, <1>7, <1>8, <1>9, <1>11, <1>13 DEF TypeInv

LEMMA FrontIs ==
    ASSUME NEW S, NEW s \in Seq(S), s # <<>>
    PROVE  /\ Front(s) \in Seq(S) /\ Len(Front(s)) = Len(s) - 1 /\ Len(s) \in Nat /\ Len(s) > 0
           /\ \A j \in 1 .. Len(s) - 1 : Front(s)[j] = s[j]
           /\ Last(s) = s[Len(s)] /\ Last(s) \in S
<1>1. Len(s) \in Nat /\ Len(s) > 0
  BY EmptySeq
<1>2. Front(s) = SubSeq(s, 1, Len(s) - 1)
  BY DEF Front
<1>3. Last(s) = s[Len(s)] /\ Last(s) \in S
  BY <1>1 DEF Last
<1>4. \A i \in 1 .. Len(s) - 1 : s[i] \in S
  BY <1>1
<1>5. SubSeq(s, 1, Len(s) - 1) \in Seq(S)
  BY <1>1, <1>4, SubSeqProperties
<1>6. Len(SubSeq(s, 1, Len(s) - 1)) = Len(s) - 1
  <2>1. PICK n : n = Len(s) - 1
    OBVIOUS
  <2>2. n \in Nat /\ n <= Len(s)
    BY <1>1, <2>1
  <2>3. \A i \in 1 .. n : s[i] \in S
    BY <1>4, <2>1
  <2>4. Len(SubSeq(s, 1, n)) = IF 1 <= n THEN n - 1 + 1 ELSE 0
    BY <2>2, <2>3, SubSeqProperties
  <2>5. Len(SubSeq(s, 1, n)) = n
    BY <2>2, <2>4
  <2>. QED  BY <2>1, <2>5
<1>7. \A j \in 1 .. Len(s) - 1 : SubSeq(s, 1, Len(s) - 1)[j] = s[j]
  BY <1>1
<1>. QED  BY <1>1, <1>2, <1>3, <1>5, <1>6, <1>7

LEMMA InnerIs ==
    ASSUME TypeInv, specials # <<>>
    PROVE  Inner \in 1 .. Len(Members) /\ Inner = specials[Len(specials)] /\ OnTape /\ Len(Members) \in Nat
<1>1. specials \in Seq(DOMAIN Members) /\ OnTape
  BY DEF TypeInv, LevelsOK, MediaOK
<1>2. DOMAIN Members = 1 .. Len(Members) /\ Len(Members) \in Nat
  BY <1>1, TapeIs
<1>. QED  BY <1>1, <1>2, FrontIs DEF Inner

\* The way back from a level takes one off the depth, or leaves it.
LEMMA LeavesType ==
    ASSUME TypeInv, Leaves, depth' \in {depth, depth - 1}, pos' \in Nat, pos <= pos'
    PROVE  LevelsOK'
<1>1. UNCHANGED media /\ pax' = pax /\ specials # <<>> /\ specials' = Front(specials)
  BY DEF Leaves
<1>2. specials \in Seq(DOMAIN Members) /\ depth \in Nat /\ Len(specials) <= depth /\ depth <= MaxDepth + Cardinality(Passed(pos)) /\ OnTape /\ pos \in Nat
  BY DEF TypeInv, LevelsOK, MediaOK, PlaceOK
<1>3. specials' \in Seq(DOMAIN Members) /\ Len(specials') = Len(specials) - 1 /\ Len(specials) \in Nat /\ Len(specials) > 0
  BY <1>1, <1>2, FrontIs
<1>4. Cardinality(Passed(pos)) <= Cardinality(Passed(pos')) /\ Cardinality(Passed(pos)) \in Nat /\ Cardinality(Passed(pos')) \in Nat
  BY <1>2, PassedIs, PassedGrows
<1>5. depth' \in Nat /\ Len(specials') <= depth'
  BY <1>2, <1>3
<1>6. depth' <= MaxDepth + Cardinality(Passed(pos'))
  <2>1. PICK a, b : a = Cardinality(Passed(pos)) /\ b = Cardinality(Passed(pos'))
    OBVIOUS
  <2>2. a <= b /\ a \in Nat /\ b \in Nat /\ depth <= MaxDepth + a
    BY <1>2, <1>4, <2>1
  <2>3. depth' <= depth /\ depth' \in Int /\ depth \in Nat
    BY <1>2
  <2>4. depth' <= MaxDepth + b
    BY <2>2, <2>3, RecordIs
  <2>. QED  BY <2>1, <2>4
<1>7. depth' <= MaxDepth + Cardinality(Passed(pos)')
  BY <1>1, <1>6, PassedStays
<1>8. (DOMAIN Members)' = DOMAIN Members
  BY <1>1 DEF media, Members
<1>9. pax' \in BOOLEAN
  BY <1>1 DEF TypeInv, LevelsOK
<1>. QED  BY <1>3, <1>5, <1>7, <1>8, <1>9 DEF LevelsOK

LEMMA NowTypes ==
    ASSUME TypeInv, specials # <<>>
    PROVE  /\ NowRemaining \in Nat /\ NowSparse \in Map /\ NowPending \in {"no", "other", "1.0"}
           /\ Err \in {"ok", "warn", res} /\ Attributes.inner \in Map
           /\ Attributes.mapsize \in Nat /\ MapLength \in Nat /\ MapLength >= Attributes.mapsize
<1>1. Inner \in 1 .. Len(Members) /\ OnTape
  BY InnerIs
<1>2. Attributes.resize >= 0 => Attributes.resize \in Nat
  BY <1>1, MemberIs DEF Attributes
<1>3. Attributes.map \in Map /\ Attributes.inner \in Map /\ Attributes.mapsize \in Nat /\ Attributes.version \in {"no", "1.0", "other"}
  BY <1>1, MemberIs DEF Attributes
<1>4. NowRemaining \in Nat
  BY <1>2 DEF NowRemaining, TypeInv, DataOK
<1>5. sparse_list \o Attributes.map \in Map
  <2>1. sparse_list \in Map
    BY DEF TypeInv, DataOK
  <2>. QED  BY <2>1, <1>3, ConcatProperties DEF Map
<1>6. NowSparse \in Map
  BY <1>5 DEF NowSparse, TypeInv, DataOK
<1>7. NowPending \in {"no", "other", "1.0"}
  BY <1>3 DEF NowPending, TypeInv, DataOK
<1>8. MapLength \in Nat /\ MapLength >= Attributes.mapsize
  <2>1. PICK m \in Nat : m = Attributes.mapsize
    BY <1>3
  <2>2. Padded(m) \in Nat /\ Padded(m) = m + PaddingOf(m) /\ PaddingOf(m) \in 0 .. Record - 1
    BY PaddedIs
  <2>3. Padded(m) >= m
    BY <2>2, RecordIs
  <2>. QED  BY <2>1, <2>2, <2>3 DEF MapLength
<1>9. Err \in {"ok", "warn", res}
  BY DEF Err
<1>. QED  BY <1>3, <1>4, <1>6, <1>7, <1>8, <1>9

LEMMA NamedType == ASSUME TypeInv, specials # <<>> PROVE [entry EXCEPT !.by = Named] \in EntryType
<1>1. Inner \in 0 .. Len(Members)
  BY InnerIs
<1>2. entry \in EntryType
  BY DEF TypeInv, HistoryOK
<1>3. Named \in 0 .. Len(Members)
  BY <1>1, <1>2 DEF Named, EntryType
<1>. QED  BY <1>2, <1>3 DEF EntryType

LEMMA LevelReturnsTypes == ASSUME TypeInv, LevelReturns PROVE TypeInv'
<1>1. Leaves /\ specials # <<>>
  BY DEF LevelReturns, Leaves
<1>2. UNCHANGED <<media, pax, unconsumed, state, reply, entries, astray, clean>> /\ UNCHANGED <<pos, dead, faults>>
  BY DEF LevelReturns, Leaves
<1>3. MediaOK' /\ UNCHANGED media
  BY <1>2, MediaStay DEF TypeInv
<1>4. PlaceOK' /\ pos' \in Nat /\ pos <= pos'
  BY <1>2 DEF TypeInv, PlaceOK
<1>5. DataOK'
  <2>1. NowRemaining \in Nat /\ NowSparse \in Map /\ NowPending \in {"no", "other", "1.0"}
    BY <1>1, NowTypes
  <2>2. remaining' = NowRemaining /\ sparse_list' = NowSparse /\ pending' = StillPending(NowPending)
    BY DEF LevelReturns
  <2>3. PaddingOf(NowRemaining) \in 0 .. Record - 1
    BY <2>1, PaddedIs
  <2>4. padding' \in 0 .. Record - 1
    BY <2>3 DEF LevelReturns, TypeInv, DataOK
  <2>5. pending' \in {"no", "other"}
    BY <2>2 DEF StillPending
  <2>6. unconsumed' \in Nat
    BY <1>2 DEF TypeInv, DataOK
  <2>. QED  BY <2>1, <2>2, <2>4, <2>5, <2>6 DEF DataOK
<1>6. CallOK'
  <2>1. \E r \in Results : Gives(r)
    <3>1. Err \in {"ok", "warn", res}
      BY <1>1, NowTypes
    <3>2. Err \in Results
      BY <3>1 DEF Results, TypeInv, CallOK
    <3>3. CASE NowPending = "other"
      <4>1. Gives("warn")
        BY <3>3 DEF LevelReturns
      <4>. QED  BY <4>1 DEF Results
    <3>4. CASE NowPending # "other"
      <4>1. Gives(Err)
        BY <3>4 DEF LevelReturns
      <4>. QED  BY <3>2, <4>1
    <3>. QED  BY <3>3, <3>4
  <2>. QED  BY <2>1, <1>2, GivesType DEF TypeInv
<1>7. HistoryOK'
  <2>1. entry' \in EntryType
    BY <1>1, NamedType DEF LevelReturns
  <2>. QED  BY <1>2, <1>3, <2>1, HistoryStays DEF TypeInv, HistoryOK
<1>8. LevelsOK'
  <2>1. depth' \in {depth, depth - 1}
    BY DEF LevelReturns, Shallower
  <2>. QED  BY <1>1, <1>4, <2>1, LeavesType
<1>. QED  BY <1>3, <1>4, <1>5, <1>6, <1>7, <1>8 DEF TypeInv

\* The two ways of reading a map.
MapFails ==
    /\ Gives("fatal") /\ remaining' = NowRemaining
    /\ sparse_list' = <<>> \/ sparse_list' = Attributes.inner
    /\ pos' = pos
    /\ Breaks \/ UNCHANGED <<dead, faults>>
MapIsRead ==
    /\ NowRemaining >= MapLength
    /\ sparse_list' = Attributes.inner
    /\ Passes(pos + Attributes.mapsize, MapLength - Attributes.mapsize)
    /\ remaining' = NowRemaining - MapLength
    /\ Gives(Err)
    /\ ~on_disk => pos + MapLength <= Size

LEMMA ReadMapIs ==
    ASSUME TypeInv, ReadMap
    PROVE  /\ Leaves /\ specials # <<>> /\ Worked /\ NowPending = "1.0" /\ depth' = Shallower /\ pending' = "no"
           /\ entry' = [entry EXCEPT !.by = Named] /\ padding' = PaddingOf(NowRemaining)
           /\ MapFails \/ MapIsRead
<1>1. Leaves /\ specials # <<>> /\ Worked /\ NowPending = "1.0" /\ depth' = Shallower /\ pending' = "no"
      /\ entry' = [entry EXCEPT !.by = Named] /\ padding' = PaddingOf(NowRemaining)
  BY DEF ReadMap, Leaves
<1>2. PICK p, rest : p = pos + Attributes.mapsize /\ rest = MapLength - Attributes.mapsize
  OBVIOUS
<1>3. IF NowRemaining < MapLength \/ dead \/ p > Size \/ (~on_disk /\ p + rest > Size)
      THEN /\ Gives("fatal")
           /\ remaining' = NowRemaining
           /\ sparse_list' = <<>>
           /\ UNCHANGED <<pos, dead, faults>>
      ELSE /\ sparse_list' = Attributes.inner
           /\ \/ /\ Passes(p, rest)
                 /\ remaining' = NowRemaining - MapLength
                 /\ Gives(Err)
              \/ /\ Breaks
                 /\ pos' = pos
                 /\ remaining' = NowRemaining
                 /\ Gives("fatal")
  BY <1>2 DEF ReadMap
<1>4. CASE NowRemaining < MapLength \/ dead \/ p > Size \/ (~on_disk /\ p + rest > Size)
  BY <1>1, <1>3, <1>4 DEF MapFails
<1>5. CASE ~(NowRemaining < MapLength \/ dead \/ p > Size \/ (~on_disk /\ p + rest > Size))
  <2>1. CASE Breaks /\ pos' = pos /\ remaining' = NowRemaining /\ Gives("fatal")
    BY <1>1, <1>3, <1>5, <2>1 DEF MapFails
  <2>2. CASE Passes(p, rest) /\ remaining' = NowRemaining - MapLength /\ Gives(Err)
    <3>1. NowRemaining \in Nat /\ MapLength \in Nat /\ Attributes.mapsize \in Nat
      BY <1>1, NowTypes
    <3>2. NowRemaining >= MapLength
      BY <1>5, <3>1
    <3>3. ~on_disk => ~(p + rest > Size)
      BY <1>5
    <3>4. p + rest = pos + MapLength /\ p + rest \in Nat /\ pos \in Nat
      <4>1. pos \in Nat
        BY DEF TypeInv, PlaceOK
      <4>. QED  BY <1>2, <3>1, <4>1
    <3>5. Size \in Int
      BY TapeIs, StartIsNat DEF TypeInv, MediaOK
    <3>6. ~on_disk => pos + MapLength <= Size
      BY <3>3, <3>4, <3>5
    <3>7. Passes(pos + Attributes.mapsize, MapLength - Attributes.mapsize)
      BY <1>2, <2>2
    <3>8. sparse_list' = Attributes.inner
      BY <1>3, <1>5
    <3>9. MapIsRead
      BY <2>2, <3>2, <3>6, <3>7, <3>8 DEF MapIsRead
    <3>. QED  BY <1>1, <3>9
  <2>. QED  BY <1>3, <1>5, <2>1, <2>2
<1>. QED  BY <1>4, <1>5

LEMMA ReadMapTypes == ASSUME TypeInv, ReadMap PROVE TypeInv'
<1>1. Leaves /\ specials # <<>> /\ depth' = Shallower /\ pending' = "no"
      /\ entry' = [entry EXCEPT !.by = Named] /\ padding' = PaddingOf(NowRemaining)
      /\ (MapFails \/ MapIsRead)
  BY ReadMapIs
<1>2. UNCHANGED <<media, pax, unconsumed, state, reply, entries, astray, clean>>
  BY <1>1 DEF Leaves
<1>3. MediaOK' /\ UNCHANGED media
  BY <1>2, MediaStay DEF TypeInv
<1>4. /\ NowRemaining \in Nat /\ Attributes.inner \in Map /\ Err \in {"ok", "warn", res}
      /\ Attributes.mapsize \in Nat /\ MapLength \in Nat /\ MapLength >= Attributes.mapsize
  BY <1>1, NowTypes
<1>5. pos \in Nat /\ PlaceOK
  BY DEF TypeInv, PlaceOK
<1>6. PlaceOK' /\ pos' \in Nat /\ pos <= pos'
  <2>1. CASE MapFails
    <3>1. pos' = pos /\ pos' \in Nat /\ pos <= pos' /\ (Breaks \/ UNCHANGED <<dead, faults>>)
      BY <2>1, <1>5 DEF MapFails
    <3>. QED  BY <3>1, <1>5, BreaksType, PlaceStays
  <2>2. CASE MapIsRead
    <3>1. PICK p, rest : p = pos + Attributes.mapsize /\ rest = MapLength - Attributes.mapsize
      OBVIOUS
    <3>2. p \in Nat /\ rest \in Nat /\ pos <= p
      BY <1>4, <1>5, <3>1
    <3>3. Passes(p, rest)
      BY <2>2, <3>1 DEF MapIsRead
    <3>. QED  BY <3>2, <3>3, <1>5, PassesType
  <2>. QED  BY <1>1, <2>1, <2>2
<1>7. DataOK'
  <2>1. padding' \in 0 .. Record - 1
    BY <1>1, <1>4, PaddedIs
  <2>2. remaining' \in Nat
    BY <1>1, <1>4 DEF MapFails, MapIsRead
  <2>3. sparse_list' \in Map
    <3>1. <<>> \in Map
      BY EmptySeq DEF Map
    <3>. QED  BY <1>1, <1>4, <3>1 DEF MapFails, MapIsRead
  <2>4. unconsumed' \in Nat
    BY <1>2 DEF TypeInv, DataOK
  <2>. QED  BY <1>1, <2>1, <2>2, <2>3, <2>4 DEF DataOK
<1>8. CallOK'
  <2>1. Err \in Results
    BY <1>4 DEF Results, TypeInv, CallOK
  <2>2. \E r \in Results : Gives(r)
    BY <1>1, <2>1 DEF MapFails, MapIsRead, Results
  <2>. QED  BY <2>2, <1>2, GivesType DEF TypeInv
<1>9. HistoryOK'
  <2>1. entry' \in EntryType
    BY <1>1, NamedType
  <2>. QED  BY <1>2, <1>3, <2>1, HistoryStays DEF TypeInv, HistoryOK
<1>10. LevelsOK'
  <2>1. depth' \in {depth, depth - 1}
    BY <1>1 DEF Shallower
  <2>. QED  BY <1>1, <1>6, <2>1, LeavesType
<1>. QED  BY <1>3, <1>6, <1>7, <1>8, <1>9, <1>10 DEF TypeInv

LEMMA LevelFailsTypes == ASSUME TypeInv, LevelFails PROVE TypeInv'
<1>1. Leaves
  BY DEF LevelFails
<1>2. UNCHANGED <<media, pax, unconsumed, state, reply, entries, astray, clean>> /\ UNCHANGED <<pos, dead, faults, remaining, padding, sparse_list, pending, entry>>
  BY DEF LevelFails, Leaves
<1>3. MediaOK' /\ UNCHANGED media
  BY <1>2, MediaStay DEF TypeInv
<1>4. PlaceOK' /\ pos' \in Nat /\ pos <= pos'
  BY <1>2 DEF TypeInv, PlaceOK
<1>5. DataOK'
  BY <1>2, DataStay DEF TypeInv
<1>6. CallOK'
  <2>1. Gives("eof") \/ Gives("fatal")
    BY DEF LevelFails
  <2>. QED  BY <2>1, <1>2, GivesType DEF TypeInv, Results
<1>7. HistoryOK'
  BY <1>2, <1>3, HistoryStays DEF TypeInv, HistoryOK
<1>8. LevelsOK'
  <2>1. depth' \in {depth, depth - 1}
    BY DEF LevelFails, Shallower
  <2>. QED  BY <1>1, <1>4, <2>1, LeavesType
<1>. QED  BY <1>3, <1>4, <1>5, <1>6, <1>7, <1>8 DEF TypeInv

LEMMA HeaderReturnsTypes == ASSUME TypeInv, HeaderReturns PROVE TypeInv'
<1>1. UNCHANGED <<media, pos, dead, pax, depth, specials, unconsumed, pending, res, faults, entry, astray>>
      /\ Returns("header", res, NoBlock) /\ state' = StateAfter(res)
      /\ sparse_list' = (IF sparse_list = <<>> THEN <<Piece(0, remaining, FALSE)>> ELSE sparse_list)
      /\ remaining' \in {remaining, 0} /\ padding' \in {padding, 0}
      /\ entries' = IF Worked THEN Append(entries, entry) ELSE entries
  BY DEF HeaderReturns
<1>2. MediaOK' /\ UNCHANGED media
  BY <1>1, MediaStay DEF TypeInv
<1>3. PlaceOK' /\ pos' \in Nat /\ pos <= pos' /\ pos \in Nat
  BY <1>1 DEF TypeInv, PlaceOK
<1>4. DataOK'
  <2>1. remaining \in Nat /\ padding \in 0 .. Record - 1 /\ unconsumed \in Nat /\ sparse_list \in Map /\ pending \in {"no", "other"}
    BY DEF TypeInv, DataOK
  <2>2. Piece(0, remaining, FALSE) \in PieceType
    BY <2>1 DEF Piece, PieceType
  <2>3. <<Piece(0, remaining, FALSE)>> \in Map
    <3>1. ASSUME NEW x \in PieceType PROVE <<x>> \in Seq(PieceType)
      OBVIOUS
    <3>. QED  BY <2>2, <3>1, MapIs
  <2>4. 0 \in 0 .. Record - 1
    BY RecordIs
  <2>. QED  BY <1>1, <2>1, <2>3, <2>4 DEF DataOK
<1>5. CallOK'
  <2>1. res \in Results
    BY DEF TypeInv, CallOK
  <2>2. state' \in {"header", "data", "eof", "fatal"}
    BY <1>1, <2>1 DEF StateAfter, Results
  <2>. QED  BY <1>1, <2>1, <2>2, ReturnsType, NoBlockType DEF TypeInv
<1>6. HistoryOK'
  <2>1. entry \in EntryType /\ entries \in Seq(EntryType) /\ astray \in BOOLEAN
    BY DEF TypeInv, HistoryOK
  <2>2. entries' \in Seq(EntryType)
    BY <1>1, <2>1
  <2>3. EntryType' = EntryType
    BY <1>2 DEF EntryType, media, Members
  <2>. QED  BY <1>1, <2>1, <2>2, <2>3 DEF HistoryOK
<1>7. LevelsOK'
  <2>1. pax' \in BOOLEAN /\ UNCHANGED <<depth, specials>>
    BY <1>1 DEF TypeInv, LevelsOK
  <2>. QED  BY <2>1, <1>2, <1>3, LevelsStay DEF TypeInv, MediaOK
<1>. QED  BY <1>2, <1>3, <1>4, <1>5, <1>6, <1>7 DEF TypeInv

LEMMA PiecesType ==
    ASSUME TypeInv
    PROVE  /\ Pieces \in Map /\ Place \in Nat /\ pos \in Nat /\ pos <= Place /\ padding \in Nat
           /\ Pieces # <<>> => Head(Pieces) \in PieceType /\ Head(Pieces).remaining > 0 /\ Head(Pieces) = Pieces[1] /\ Len(Pieces) > 0
<1>1. sparse_list \in Map /\ unconsumed \in Nat /\ padding \in Nat /\ pos \in Nat
  BY RecordIs DEF TypeInv, DataOK, PlaceOK
<1>2. Place \in Nat /\ pos <= Place
  BY <1>1 DEF Place
<1>3. Len(sparse_list) \in Nat
  BY <1>1, LengthsOf
<1>4. CASE Unexhausted(sparse_list) = <<>>
  <2>1. Pieces = <<>> /\ Pieces \in Map
    BY <1>4, EmptySeq DEF Map, Pieces
  <2>. QED  BY <1>1, <1>2, <2>1
<1>5. CASE \E m \in 1 .. Len(sparse_list) :
                /\ \A k \in 1 .. m - 1 : sparse_list[k].remaining = 0
                /\ sparse_list[m].remaining > 0
                /\ Unexhausted(sparse_list) \in Map
                /\ Len(Unexhausted(sparse_list)) = Len(sparse_list) - m + 1
                /\ \A j \in 1 .. Len(sparse_list) - m + 1 : Unexhausted(sparse_list)[j] = sparse_list[m + j - 1]
  <2>1. PICK m \in 1 .. Len(sparse_list) :
                /\ sparse_list[m].remaining > 0
                /\ Pieces \in Map
                /\ Len(Pieces) = Len(sparse_list) - m + 1
                /\ \A j \in 1 .. Len(sparse_list) - m + 1 : Pieces[j] = sparse_list[m + j - 1]
    BY <1>5 DEF Pieces
  <2>2. 1 \in 1 .. Len(sparse_list) - m + 1 /\ m + 1 - 1 = m /\ Len(Pieces) > 0
    BY <1>3, <2>1
  <2>3. Pieces[1] = sparse_list[m + 1 - 1]
    BY <2>1, <2>2
  <2>4. Pieces[1].remaining > 0
    BY <2>1, <2>2, <2>3
  <2>5. Pieces \in Seq(PieceType) /\ Len(Pieces) > 0
    BY <2>1, <2>2, MapIs
  <2>6. Head(Pieces) = Pieces[1] /\ Pieces[1] \in PieceType
    BY <2>5
  <2>. QED  BY <1>1, <1>2, <2>1, <2>2, <2>4, <2>6
<1>. QED  BY <1>1, <1>4, <1>5, UnexhaustedIs

\* What the end of an entry's data, a failure and a block do.
LEMMA InDataTypes ==
    ASSUME TypeInv, InData
    PROVE  MediaOK' /\ UNCHANGED media /\ HistoryOK' /\ (PlaceOK' /\ pos <= pos' => LevelsOK')
<1>1. UNCHANGED <<media, pax, depth, specials, pending, state, res, entry, entries, astray>>
  BY DEF InData
<1>2. MediaOK' /\ UNCHANGED media
  BY <1>1, MediaStay DEF TypeInv
<1>3. HistoryOK'
  BY <1>1, <1>2, HistoryStays DEF TypeInv, HistoryOK
<1>4. ASSUME PlaceOK', pos <= pos' PROVE LevelsOK'
  <2>1. pax' \in BOOLEAN /\ UNCHANGED <<depth, specials>> /\ pos \in Nat /\ pos' \in Nat
    BY <1>1, <1>4 DEF TypeInv, LevelsOK, PlaceOK
  <2>. QED  BY <2>1, <1>2, <1>4, LevelsStay DEF TypeInv, MediaOK
<1>. QED  BY <1>2, <1>3, <1>4

LEMMA DataEndsTypes == ASSUME TypeInv, DataEnds PROVE TypeInv'
<1>1. InData /\ Passes(Place, padding) /\ padding' = 0 /\ Returns("data", "eof", NoBlock)
      /\ sparse_list' = Pieces /\ unconsumed' = 0 /\ UNCHANGED remaining
  BY DEF DataEnds
<1>2. MediaOK' /\ UNCHANGED media /\ HistoryOK' /\ (PlaceOK' /\ pos <= pos' => LevelsOK')
  BY <1>1, InDataTypes
<1>3. PlaceOK' /\ pos <= pos'
  BY <1>1, PiecesType, PassesType DEF TypeInv
<1>4. DataOK'
  <2>1. 0 \in 0 .. Record - 1
    BY RecordIs
  <2>. QED  BY <1>1, <2>1, PiecesType DEF TypeInv, DataOK, InData
<1>5. CallOK'
  <2>1. state' \in {"header", "data", "eof", "fatal"} /\ UNCHANGED res
    BY <1>1 DEF InData, TypeInv, CallOK
  <2>. QED  BY <1>1, <2>1, ReturnsType, NoBlockType DEF TypeInv, Results
<1>. QED  BY <1>2, <1>3, <1>4, <1>5 DEF TypeInv

LEMMA DataFailsTypes == ASSUME TypeInv, DataFails PROVE TypeInv'
<1>1. InData /\ Returns("data", "fatal", NoBlock)
      /\ sparse_list' = Pieces /\ unconsumed' = 0 /\ UNCHANGED <<remaining, padding>>
      /\ \/ CannotPass(Place, padding)
         \/ pos' = Place /\ (Breaks \/ UNCHANGED <<dead, faults>>)
  BY DEF DataFails
<1>2. MediaOK' /\ UNCHANGED media /\ HistoryOK' /\ (PlaceOK' /\ pos <= pos' => LevelsOK')
  BY <1>1, InDataTypes
<1>3. PlaceOK' /\ pos <= pos'
  BY <1>1, PiecesType, CannotPassType, BreaksType, PlaceStays DEF TypeInv
<1>4. DataOK'
  BY <1>1, PiecesType DEF TypeInv, DataOK, InData
<1>5. CallOK'
  <2>1. state' \in {"header", "data", "eof", "fatal"} /\ UNCHANGED res
    BY <1>1 DEF InData, TypeInv, CallOK
  <2>. QED  BY <1>1, <2>1, ReturnsType, NoBlockType DEF TypeInv, Results
<1>. QED  BY <1>2, <1>3, <1>4, <1>5 DEF TypeInv

\* What a block of n bytes, or a part of a hole, does.
BlockStep(n) ==
    /\ n \in Nat /\ n > 0 /\ n <= remaining /\ n <= Head(Pieces).remaining /\ Place + n <= Size
    /\ sparse_list' = TakenOf(Pieces, n)
    /\ remaining' = remaining - n
    /\ unconsumed' = n
    /\ IF Head(Pieces).hole
       THEN UNCHANGED <<pc, reply, clean>>
       ELSE Returns("data", "ok", [at |-> Place, offset |-> Head(Pieces).offset, size |-> n])
    /\ pos' = Place

LEMMA BlockIs ==
    ASSUME TypeInv, DataBlock
    PROVE  /\ InData /\ ~AtEnd /\ Pieces # <<>> /\ remaining # 0 /\ UNCHANGED <<dead, faults, padding>>
           /\ \E n \in Nat : BlockStep(n)
<1>1. InData /\ ~AtEnd /\ Pieces # <<>> /\ remaining # 0 /\ UNCHANGED <<dead, faults, padding>> /\ pos' = Place
  BY DEF DataBlock, AtEnd
<1>2. Pieces \in Map /\ Place \in Nat /\ Head(Pieces) \in PieceType /\ Head(Pieces).remaining > 0
  BY <1>1, PiecesType
<1>3. PICK shown \in 1 .. Size - Place :
            /\ sparse_list' = TakenOf(Pieces, OfPiece(shown))
            /\ remaining' = remaining - OfPiece(shown)
            /\ unconsumed' = OfPiece(shown)
            /\ IF Head(Pieces).hole
               THEN UNCHANGED <<pc, reply, clean>>
               ELSE Returns("data", "ok", [at |-> Place, offset |-> Head(Pieces).offset, size |-> OfPiece(shown)])
  <2>1. \E shown \in 1 .. Size - Place :
            /\ sparse_list' = <<[Head(Pieces) EXCEPT !.offset = @ + OfPiece(shown), !.remaining = @ - OfPiece(shown)]>> \o Tail(Pieces)
            /\ remaining' = remaining - OfPiece(shown)
            /\ unconsumed' = OfPiece(shown)
            /\ IF Head(Pieces).hole
               THEN UNCHANGED <<pc, reply, clean>>
               ELSE Returns("data", "ok", [at |-> Place, offset |-> Head(Pieces).offset, size |-> OfPiece(shown)])
    BY Zenon DEF DataBlock
  <2>2. ASSUME NEW n
        PROVE  <<[Head(Pieces) EXCEPT !.offset = @ + n, !.remaining = @ - n]>> \o Tail(Pieces) = TakenOf(Pieces, n)
    BY DEF TakenOf, Eaten
  <2>. QED  BY Zenon, <2>1, <2>2
<1>4. PICK n : n = OfPiece(shown)
  OBVIOUS
<1>5. n \in Nat /\ n > 0 /\ n <= remaining /\ n <= Head(Pieces).remaining /\ n <= shown
  <2>1. PICK h \in Nat : h = Head(Pieces).remaining /\ h > 0
    BY <1>2 DEF PieceType
  <2>2. remaining \in Nat /\ remaining > 0 /\ shown \in Nat /\ shown > 0
    <3>1. remaining \in Nat
      BY DEF TypeInv, DataOK
    <3>2. Size \in Int
      BY TapeIs, StartIsNat DEF TypeInv, MediaOK
    <3>. QED  BY <1>1, <1>2, <3>1, <3>2
  <2>3. n = Least(Least(shown, remaining), h)
    BY <1>4, <2>1 DEF OfPiece
  <2>4. n \in {shown, remaining, h} /\ n <= h /\ n <= remaining /\ n <= shown
    BY <2>1, <2>2, <2>3 DEF Least
  <2>. QED  BY <2>1, <2>2, <2>4
<1>6. Place + n <= Size
  <2>1. Size \in Int
    BY TapeIs, StartIsNat DEF TypeInv, MediaOK
  <2>. QED  BY <1>2, <1>3, <1>5, <2>1
<1>7. BlockStep(n)
  BY <1>1, <1>3, <1>4, <1>5, <1>6 DEF BlockStep
<1>. QED  BY <1>1, <1>5, <1>7

LEMMA DataBlockTypes == ASSUME TypeInv, DataBlock PROVE TypeInv'
<1>1. InData /\ Pieces # <<>> /\ UNCHANGED <<dead, faults, padding>> /\ \E n \in Nat : BlockStep(n)
  BY BlockIs
<1>2. PICK n \in Nat : BlockStep(n)
  BY <1>1
<1>3. MediaOK' /\ UNCHANGED media /\ HistoryOK' /\ (PlaceOK' /\ pos <= pos' => LevelsOK')
  BY <1>1, InDataTypes
<1>4. Pieces \in Map /\ Place \in Nat /\ pos <= Place /\ Head(Pieces) \in PieceType
  BY <1>1, PiecesType
<1>5. PlaceOK' /\ pos <= pos'
  BY <1>1, <1>2, <1>4, PlaceStays DEF TypeInv, BlockStep
<1>6. DataOK'
  <2>1. n <= Head(Pieces).remaining /\ n <= remaining /\ sparse_list' = TakenOf(Pieces, n) /\ remaining' = remaining - n /\ unconsumed' = n
    BY <1>2 DEF BlockStep
  <2>2. sparse_list' \in Map
    BY <1>1, <1>4, <2>1, TakenIs
  <2>3. remaining' \in Nat
    BY <2>1 DEF TypeInv, DataOK
  <2>. QED  BY <1>1, <2>1, <2>2, <2>3 DEF TypeInv, DataOK, InData
<1>7. CallOK'
  <2>1. state' \in {"header", "data", "eof", "fatal"} /\ UNCHANGED res /\ state' = state
    BY <1>1 DEF InData, TypeInv, CallOK
  <2>2. CASE Head(Pieces).hole
    BY <1>2, <2>1, <2>2 DEF BlockStep, TypeInv, CallOK
  <2>3. CASE ~Head(Pieces).hole
    <3>1. PICK b : b = [at |-> Place, offset |-> Head(Pieces).offset, size |-> n]
      OBVIOUS
    <3>2. b \in BlockType
      BY <1>4, <3>1 DEF BlockType, PieceType
    <3>3. Returns("data", "ok", b)
      BY <1>2, <2>3, <3>1 DEF BlockStep
    <3>. QED  BY <2>1, <3>2, <3>3, ReturnsType DEF TypeInv, Results
  <2>. QED  BY <2>2, <2>3
<1>. QED  BY <1>3, <1>5, <1>6, <1>7 DEF TypeInv

LEMMA NextKeepsTypes == TypeInv /\ [Next]_vars => TypeInv'
<1>. SUFFICES ASSUME TypeInv, [Next]_vars PROVE TypeInv'
  OBVIOUS
<1>1. CASE Calls
  <2>1. CASE NextHeaderMisused \/ DataSkipMisused \/ ReadDataMisused
    BY <2>1, MisusedType DEF NextHeaderMisused, DataSkipMisused, ReadDataMisused
  <2>. QED  BY <1>1, <2>1, NextHeaderTypes, NextHeaderCannotSkipTypes, DataSkipTypes, ReadDataTypes DEF Calls
<1>2. CASE HeaderBreaks \/ HeaderAtEnd \/ Damaged
  BY <1>2, HeaderAtEndTypes
<1>3. CASE NullRecord
  BY <1>3, NullRecordTypes
<1>4. CASE TooManyHeaders
  BY <1>4, TooManyTypes
<1>5. CASE ReadSpecial \/ SpecialBreaks \/ ReadVolume
  BY <1>5, ReadSpecialTypes
<1>6. CASE ReadFile
  BY <1>6, ReadFileTypes
<1>7. CASE LevelReturns
  BY <1>7, LevelReturnsTypes
<1>8. CASE ReadMap
  BY <1>8, ReadMapTypes
<1>9. CASE LevelFails
  BY <1>9, LevelFailsTypes
<1>10. CASE HeaderReturns
  BY <1>10, HeaderReturnsTypes
<1>11. CASE DataEnds
  BY <1>11, DataEndsTypes
<1>12. CASE DataFails
  BY <1>12, DataFailsTypes
<1>13. CASE DataBlock
  BY <1>13, DataBlockTypes
<1>14. CASE UNCHANGED vars
  BY <1>14 DEF vars, TypeInv, MediaOK, media, OnTape, PlaceOK, DataOK, tar, CallOK, HistoryOK, EntryType, Members, LevelsOK, Passed, Start
<1>. QED  BY <1>1, <1>2, <1>3, <1>4, <1>5, <1>6, <1>7, <1>8, <1>9, <1>10, <1>11, <1>12, <1>13, <1>14 DEF Next, Step

\* The state keeps its types, on any tapes: the depth of headers among them, which counts
\* those that were too many too, and so has no other bound than the headers of the tape.
THEOREM TypesHold == Spec => []TypeOK
<1>1. Spec => []TypeInv
  BY InitTypes, NextKeepsTypes, PTL DEF Spec
<1>. QED  BY <1>1, TypeInvIsTypeOK, PTL

-----------------------------------------------------------------------------
(* The depth of headers. *)

ZerosOf(es) == {k \in DOMAIN es : es[k].file = 0}
Zeros == Cardinality(ZerosOf(entries))

\* Nothing is inside but what is being read, and one for each entry that had too many headers.
DepthInv ==
    /\ pc \in {"idle", "data"} => specials = <<>>
    /\ pc \in {"header", "return"} => state = "header"
    /\ pc = "data" => state = "data"
    /\ pc \in {"idle", "data"} /\ state \in {"header", "data"} => depth = Zeros
    /\ pc = "header" => entry = NoEntry /\ depth = Zeros + Len(specials)
    /\ pc = "return" /\ Worked => depth = Zeros + Len(specials) + (IF entry.file = 0 THEN 1 ELSE 0)
    /\ pc = "return" /\ res = "retry" => depth = Zeros + Len(specials)

LEMMA ZerosAre ==
    ASSUME NEW S, NEW es \in Seq(S), NEW e \in S
    PROVE  /\ IsFiniteSet(ZerosOf(es)) /\ Cardinality(ZerosOf(es)) \in Nat
           /\ Cardinality(ZerosOf(Append(es, e))) = Cardinality(ZerosOf(es)) + (IF e.file = 0 THEN 1 ELSE 0)
<1>1. Len(es) \in Nat /\ DOMAIN es = 1 .. Len(es)
  OBVIOUS
<1>2. IsFiniteSet(1 .. Len(es))
  BY <1>1, FS_Interval
<1>3. ZerosOf(es) \in SUBSET (1 .. Len(es))
  BY <1>1 DEF ZerosOf
<1>4. IsFiniteSet(ZerosOf(es)) /\ Cardinality(ZerosOf(es)) \in Nat
  BY <1>2, <1>3, FS_Subset, FS_CardinalityType
<1>5. DOMAIN Append(es, e) = 1 .. Len(es) + 1 /\ Append(es, e)[Len(es) + 1] = e /\ \A k \in 1 .. Len(es) : Append(es, e)[k] = es[k]
  OBVIOUS
<1>6. CASE e.file = 0
  <2>1. ZerosOf(Append(es, e)) = ZerosOf(es) \cup {Len(es) + 1}
    BY <1>1, <1>5, <1>6 DEF ZerosOf
  <2>2. Len(es) + 1 \notin ZerosOf(es)
    BY <1>1 DEF ZerosOf
  <2>3. Cardinality(ZerosOf(es) \cup {Len(es) + 1}) = Cardinality(ZerosOf(es)) + 1
    BY <1>4, <2>2, FS_AddElement
  <2>. QED  BY <1>4, <1>6, <2>1, <2>3
<1>7. CASE e.file # 0
  <2>1. ZerosOf(Append(es, e)) = ZerosOf(es)
    BY <1>1, <1>5, <1>7 DEF ZerosOf
  <2>. QED  BY <1>4, <1>7, <2>1
<1>. QED  BY <1>6, <1>7

LEMMA InitDepth == Init => DepthInv
<1>. SUFFICES ASSUME Init PROVE DepthInv
  OBVIOUS
<1>1. ZerosOf(entries) = {}
  BY DEF Init, ZerosOf
<1>2. Zeros = 0
  BY <1>1, FS_EmptySet DEF Zeros
<1>. QED  BY <1>2 DEF Init, DepthInv

LEMMA DepthCalls == ASSUME TypeInv, DepthInv, Calls PROVE DepthInv'
<1>1. pc = "idle" /\ specials = <<>> /\ UNCHANGED <<entries, depth, specials, res>> /\ Zeros' = Zeros
  BY DEF DepthInv, Calls, NextHeader, NextHeaderCannotSkip, NextHeaderMisused, DataSkip, DataSkipMisused, ReadData, ReadDataMisused, Misused, tar, Zeros, ZerosOf
<1>2. Len(specials) = 0
  BY <1>1
<1>3. Zeros \in Nat /\ depth \in Nat
  BY ZerosAre DEF TypeInv, HistoryOK, LevelsOK, Zeros
<1>4. state \in {"header", "data"} => depth = Zeros
  BY <1>1 DEF DepthInv
<1>5. CASE NextHeader
  <2>1. state \in {"header", "data"} /\ pc' = "header" /\ state' = "header" /\ entry' = NoEntry
    BY <1>5 DEF NextHeader
  <2>2. depth' = Zeros' + Len(specials')
    BY <1>1, <1>2, <1>3, <1>4, <2>1
  <2>. QED  BY <2>1, <2>2 DEF DepthInv
<1>6. CASE ReadData
  BY <1>1, <1>4, <1>6 DEF ReadData, DepthInv
<1>7. CASE DataSkip
  <2>1. state = "data" /\ pc' = "idle"
    BY <1>7 DEF DataSkip, Returns
  <2>. QED  BY <1>1, <1>4, <2>1 DEF DepthInv
<1>8. CASE NextHeaderCannotSkip \/ NextHeaderMisused \/ DataSkipMisused \/ ReadDataMisused
  <2>1. pc' = "idle" /\ state' = "fatal"
    BY <1>8 DEF NextHeaderCannotSkip, NextHeaderMisused, DataSkipMisused, ReadDataMisused, Misused, Returns
  <2>. QED  BY <1>1, <2>1 DEF DepthInv
<1>. QED  BY <1>5, <1>6, <1>7, <1>8 DEF Calls

LEMMA DepthReads ==
    ASSUME TypeInv, DepthInv,
           HeaderBreaks \/ HeaderAtEnd \/ NullRecord \/ Damaged \/ TooManyHeaders
           \/ ReadSpecial \/ SpecialBreaks \/ ReadVolume \/ ReadFile
    PROVE  DepthInv'
<1>0. pc = "header"
  BY DEF HeaderBreaks, HeaderAtEnd, NullRecord, Damaged, TooManyHeaders, ReadSpecial, SpecialBreaks, ReadVolume, ReadFile, Header, Reading
<1>1. state' = state /\ entries' = entries /\ Zeros' = Zeros /\ state = "header" /\ entry = NoEntry /\ depth = Zeros + Len(specials)
  <2>1. Kept
    BY DEF HeaderBreaks, HeaderAtEnd, NullRecord, Damaged, TooManyHeaders, ReadSpecial, SpecialBreaks, ReadVolume, ReadFile, InHeader
  <2>. QED  BY <1>0, <2>1 DEF Kept, DepthInv, Zeros, ZerosOf
<1>2. Zeros \in Nat /\ depth \in Nat /\ specials \in Seq(DOMAIN Members) /\ Len(specials) \in Nat
  BY ZerosAre DEF TypeInv, HistoryOK, LevelsOK, Zeros
<1>3. CASE HeaderBreaks \/ HeaderAtEnd \/ NullRecord \/ Damaged
  <2>1. UNCHANGED <<depth, specials, entry>>
    BY <1>3 DEF HeaderBreaks, HeaderAtEnd, NullRecord, Damaged, InHeader
  <2>2. (pc' = "return" /\ res' \in {"eof", "fatal", "retry"}) \/ pc' = "header"
    BY <1>0, <1>3 DEF HeaderBreaks, HeaderAtEnd, NullRecord, Damaged, Gives
  <2>3. depth' = Zeros' + Len(specials')
    BY <1>1, <2>1
  <2>4. ~(pc' = "return" /\ Worked')
    BY <2>2 DEF Worked
  <2>. QED  BY <1>1, <2>1, <2>2, <2>3, <2>4 DEF DepthInv
<1>4. CASE TooManyHeaders
  <2>1. UNCHANGED <<specials, entry>> /\ depth' = depth + 1 /\ pc' = "return" /\ res' = "warn"
    BY <1>4 DEF TooManyHeaders, InHeader, Gives
  <2>2. entry'.file = 0
    BY <1>1, <2>1 DEF NoEntry
  <2>3. depth' = Zeros' + Len(specials') + 1
    BY <1>1, <1>2, <2>1
  <2>. QED  BY <1>1, <2>1, <2>2, <2>3 DEF DepthInv
<1>5. CASE ReadSpecial \/ SpecialBreaks \/ ReadVolume
  <2>1. \E i \in Here : Enters(i)
    BY <1>5 DEF ReadSpecial, SpecialBreaks, ReadVolume
  <2>2. PICK i \in Here : depth' = depth + 1 /\ specials' = Append(specials, i)
    BY <2>1 DEF Enters
  <2>3. Len(specials') = Len(specials) + 1
    BY <1>2, <2>2
  <2>4. depth' = Zeros' + Len(specials')
    BY <1>1, <1>2, <2>2, <2>3
  <2>5. entry' = entry /\ ((pc' = "return" /\ res' = "fatal") \/ pc' = "header")
    BY <1>0, <1>5 DEF ReadSpecial, SpecialBreaks, ReadVolume, Gives, InHeader
  <2>6. ~(pc' = "return" /\ Worked')
    BY <2>5 DEF Worked
  <2>. QED  BY <1>1, <2>4, <2>5, <2>6 DEF DepthInv
<1>6. CASE ReadFile
  <2>1. PICK i \in Here : depth' = depth + 1 /\ specials' = Append(specials, i) /\ pc' = "return" /\ res' = "ok" /\ entry' = [file |-> i, by |-> 0]
    BY <1>6 DEF ReadFile, Enters, Gives
  <2>2. Len(specials') = Len(specials) + 1
    BY <1>2, <2>1
  <2>3. entry'.file # 0
    <3>1. i \in 1 .. Len(Members) /\ Len(Members) \in Nat
      BY HereIs, TapeIs DEF TypeInv, MediaOK
    <3>. QED  BY <2>1, <3>1
  <2>4. depth' = Zeros' + Len(specials') + 0
    BY <1>1, <1>2, <2>1, <2>2
  <2>. QED  BY <1>1, <2>1, <2>3, <2>4 DEF DepthInv
<1>. QED  BY <1>3, <1>4, <1>5, <1>6

LEMMA DepthLeaves ==
    ASSUME TypeInv, DepthInv, LevelReturns \/ ReadMap \/ LevelFails
    PROVE  DepthInv'
<1>1. Leaves /\ pc = "return" /\ specials # <<>> /\ specials' = Front(specials) /\ entries' = entries /\ state' = state /\ Zeros' = Zeros /\ state = "header"
  BY DEF LevelReturns, ReadMap, LevelFails, Leaves, DepthInv, Zeros, ZerosOf
<1>2. Zeros \in Nat /\ depth \in Nat /\ specials \in Seq(DOMAIN Members)
  BY ZerosAre DEF TypeInv, HistoryOK, LevelsOK, Zeros
<1>3. Len(specials') = Len(specials) - 1 /\ Len(specials) \in Nat
  BY <1>1, <1>2, FrontIs
<1>4. CASE LevelReturns \/ ReadMap
  <2>1. Worked /\ depth' = depth - 1 /\ entry' = [entry EXCEPT !.by = Named] /\ pc' = "return"
    BY <1>4, ReadMapIs DEF LevelReturns, Shallower, Gives, MapFails, MapIsRead
  <2>2. entry'.file = entry.file
    BY <2>1 DEF TypeInv, HistoryOK, EntryType
  <2>3. depth = Zeros + Len(specials) + (IF entry.file = 0 THEN 1 ELSE 0)
    BY <1>1, <2>1 DEF DepthInv
  <2>4. depth' = Zeros' + Len(specials') + (IF entry'.file = 0 THEN 1 ELSE 0)
    BY <1>1, <1>2, <1>3, <2>1, <2>2, <2>3
  <2>5. res' # "retry"
    <3>1. Err \in {"ok", "warn", res}
      BY <1>1, NowTypes
    <3>2. Err # "retry"
      BY <2>1, <3>1 DEF Worked
    <3>. QED  BY <1>4, <3>2, ReadMapIs DEF LevelReturns, Gives, MapFails, MapIsRead
  <2>. QED  BY <1>1, <2>1, <2>4, <2>5 DEF DepthInv
<1>5. CASE LevelFails
  <2>1. pc' = "return" /\ res' \in {"eof", "fatal"}
    BY <1>5 DEF LevelFails, Gives
  <2>. QED  BY <1>1, <2>1 DEF DepthInv, Worked
<1>. QED  BY <1>4, <1>5

LEMMA DepthReturns == ASSUME TypeInv, DepthInv, HeaderReturns PROVE DepthInv'
<1>1. pc = "return" /\ specials = <<>> /\ pc' = "idle" /\ UNCHANGED <<depth, specials, res, entry>>
      /\ state' = StateAfter(res) /\ entries' = IF Worked THEN Append(entries, entry) ELSE entries
  BY DEF HeaderReturns, Returns
<1>2. Zeros \in Nat /\ depth \in Nat /\ Zeros' = Zeros + (IF Worked /\ entry.file = 0 THEN 1 ELSE 0)
  BY <1>1, ZerosAre DEF TypeInv, HistoryOK, LevelsOK, Zeros
<1>3. Len(specials) = 0
  BY <1>1
<1>4. state' \in {"header", "data"} => depth' = Zeros'
  <2>1. CASE Worked
    BY <1>1, <1>2, <1>3, <2>1 DEF DepthInv
  <2>2. CASE res = "retry"
    BY <1>1, <1>2, <1>3, <2>2 DEF DepthInv, Worked
  <2>3. CASE res \in {"eof", "fatal"}
    BY <1>1, <2>3 DEF StateAfter
  <2>. QED  BY <2>1, <2>2, <2>3 DEF TypeInv, CallOK, Results, Worked
<1>. QED  BY <1>1, <1>4 DEF DepthInv

LEMMA NextKeepsDepth == TypeInv /\ DepthInv /\ [Next]_vars => DepthInv'
<1>. SUFFICES ASSUME TypeInv, DepthInv, [Next]_vars PROVE DepthInv'
  OBVIOUS
<1>1. CASE DataEnds \/ DataFails \/ DataBlock
  <2>1. pc = "data" /\ UNCHANGED <<depth, specials, state, res, entry, entries>> /\ Zeros' = Zeros
    <3>1. InData
      BY <1>1, BlockIs DEF DataEnds, DataFails
    <3>. QED  BY <3>1 DEF InData, Zeros, ZerosOf
  <2>2. pc' \in {"idle", "data"}
    <3>1. CASE DataBlock
      <4>1. PICK n \in Nat : BlockStep(n)
        BY <3>1, BlockIs
      <4>. QED  BY <2>1, <4>1 DEF BlockStep, Returns
    <3>. QED  BY <1>1, <2>1, <3>1 DEF DataEnds, DataFails, Returns
  <2>. QED  BY <2>1, <2>2 DEF DepthInv
<1>2. CASE UNCHANGED vars
  BY <1>2 DEF vars, tar, DepthInv, Zeros, ZerosOf, Worked
<1>. QED  BY <1>1, <1>2, DepthCalls, DepthReads, DepthLeaves, DepthReturns DEF Next, Step

\* However the headers of an entry are left, by the name of a file or by a failure that lets the
\* reading go on, the depth that limits them is given back; what is left over is one for each
\* entry that had too many.
THEOREM DepthGivenBack == Spec => []DepthIsBalanced
<1>1. Spec => [](TypeInv /\ DepthInv)
  BY InitTypes, NextKeepsTypes, InitDepth, NextKeepsDepth, PTL DEF Spec
<1>2. DepthInv => DepthIsBalanced
  BY DEF DepthInv, DepthIsBalanced, Zeros, ZerosOf
<1>. QED  BY <1>1, <1>2, PTL

-----------------------------------------------------------------------------
(* The state against the tape. *)

Wanting(j) == Flag(j) \in {"longname", "longlink", "pax"}
FilesBefore(a) == {i \in Files : i < a}
Versions(a) == \E j \in 1 .. a : Members[j].version = "other"

\* The entries are the files before member a, and what is in front of it has found its file
\* or is among those held.
ReadIn(es, a, held) ==
    /\ Cardinality(FilesBefore(a)) = Len(es)
    /\ \A k \in 1 .. Len(es) :
        /\ es[k].file \in Files /\ es[k].file < a
        /\ es[k].by = Namer(es[k].file)
        /\ Cardinality(FilesBefore(es[k].file)) = k - 1
        /\ k < Len(es) => Start(es[k].file + 1) <= Size
    /\ \A i \in FilesBefore(a) : \E k \in 1 .. Len(es) : es[k].file = i
    /\ \A j \in 1 .. a - 1 : Wanting(j) => j \in held \/ \E k \in 1 .. Len(es) : j \in Specials(es[k].file)
ReadUpTo(a, held) == ReadIn(entries, a, held)

\* The place is where member a begins.
AtHeader(a) ==
    /\ a \in 1 .. Len(Members) + 1 /\ pos = Start(a)
    /\ ReadUpTo(a, Specials(a))
    /\ pax <=> InPax(a)
    /\ pending = "other" => Versions(a - 1)
    /\ ~on_disk => pos <= Size
    /\ unconsumed = 0

Increasing(s) == \A j, k \in 1 .. Len(s) : j < k => s[j] < s[k]

Reads(a) == AtHeader(a) /\ ToSet(specials) = Specials(a) /\ Increasing(specials) /\ sparse_list = <<>>

FirstOrNone(S) == IF S = {} THEN 0 ELSE First(S)

\* What the headers of file f that have returned, which are done, make of its size and map.
SizeSoFar(f, done) ==
    IF Resizing(f) \cap done # {} THEN Members[First(Resizing(f) \cap done)].resize ELSE ToldByFile(f)
SizesAre(f, done, list, at, left) ==
    /\ Mapping(f) \cap done = {} => list = <<>>
    /\ Mapping(f) \cap done # {} => list = Data(f).pieces
    /\ (\A j \in Mapping(f) \cap done : Members[j].version # "1.0") =>
        at = Start(f) + Record /\ left = SizeSoFar(f, done)
    /\ \A j \in Mapping(f) \cap done : Members[j].version = "1.0" =>
        /\ at = Start(f) + Record + Padded(Members[j].mapsize)
        /\ left + Padded(Members[j].mapsize) = Members[f].body
SizesOf(f, done) == SizesAre(f, done, sparse_list, pos, remaining)

IsOfFile(f, done) ==
    /\ f \in Files /\ ReadUpTo(f, Specials(f))
    /\ pax <=> InPax(f + 1)
    /\ pending = "other" => Versions(f)
    /\ ~on_disk => pos <= Size
    /\ unconsumed = 0 /\ Start(f) + Record <= Size
    /\ ToSet(specials) \cup done = Specials(f) \cup {f} /\ Increasing(specials)
    /\ \A j \in ToSet(specials), k \in done : j < k
    /\ entry.by = FirstOrNone({j \in done : Names(j)})
    /\ res = "warn" => Malformed(f) # {} \/ Versions(f)
    /\ padding = PaddingOf(remaining)
    /\ Truthful(f) => SizesOf(f, done)

\* There is nothing to be read from member a on.
EndsAt(a) ==
    /\ a \in 1 .. Len(Members) + 1
    /\ ReadUpTo(a, ToSet(specials))
    /\ Start(a) >= Size \/ (~concatenated /\ a \in 1 .. Len(Members) /\ Flag(a) = "null")
    /\ ~on_disk => Start(a) <= Size

InTheData(f) ==
    /\ f \in Files /\ ReadUpTo(f + 1, {})
    /\ pax <=> InPax(f + 1)
    /\ pending = "other" => Versions(f)
    /\ Place + remaining + padding = Start(f + 1)
    /\ remaining > 0 =>
        /\ Place + remaining = BodyEnd(f)
        /\ \E k \in 1 .. Len(Data(f).pieces) + 1, d \in Nat :
            IsRest(sparse_list, Data(f).pieces, k, d) /\ Place = Data(f).at + Far(Data(f).pieces, k, d)
    /\ ~on_disk => Place <= Size

TooManyBefore(i) ==
    /\ Start(i) + Record <= pos /\ Cardinality(Specials(i)) >= MaxDepth
    /\ Cardinality(FilesBefore(i)) = Len(entries)

Track ==
    /\ pc = "header" => \E a \in 1 .. Len(Members) + 1 : Reads(a)
    /\ pc = "idle" /\ state = "header" => \E a \in 1 .. Len(Members) + 1 : AtHeader(a) /\ Specials(a) = {}
    /\ pc = "return" /\ Worked /\ entry.file # 0 =>
        \E done \in SUBSET (Specials(entry.file) \cup {entry.file}) : IsOfFile(entry.file, done)
    /\ pc = "return" /\ Worked /\ entry.file = 0 => \E i \in 1 .. Len(Members) : TooManyBefore(i)
    /\ (pc = "return" /\ res = "eof") \/ state = "eof" => \E a \in 1 .. Len(Members) + 1 : EndsAt(a)
    /\ pc \in {"idle", "data"} /\ state = "data" => entries # <<>> /\ InTheData(Last(entries).file)

\* What is in front of a member, and of the next.
LEMMA SpecialsAre ==
    ASSUME OnTape, NEW a \in 1 .. Len(Members) + 1
    PROVE  /\ Specials(a) \subseteq 1 .. a - 1 /\ Specials(a) \subseteq 1 .. Len(Members)
           /\ \A j \in Specials(a) : Flag(j) \in SpecialFlags
           /\ IsFiniteSet(Specials(a))
<1>1. Len(Members) \in Nat /\ a \in Nat /\ a - 1 \in Int
  BY TapeIs
<1>2. Specials(a) \subseteq 1 .. a - 1 /\ \A j \in Specials(a) : Flag(j) \in SpecialFlags
  BY DEF Specials
<1>3. Specials(a) \subseteq 1 .. Len(Members)
  BY <1>1, <1>2
<1>4. IsFiniteSet(1 .. Len(Members))
  BY <1>1, FS_Interval
<1>. QED  BY <1>2, <1>3, <1>4, FS_Subset

LEMMA FlagsAre ==
    ASSUME OnTape, NEW i \in 1 .. Len(Members)
    PROVE  /\ i \in Files <=> Flag(i) \in FileFlags
           /\ Flag(i) \in SpecialFlags => i \notin Files /\ Flag(i) \in Between
           /\ i \in Files => Flag(i) \notin Between
           /\ Flag(i) = "null" => i \notin Files /\ Flag(i) \notin SpecialFlags /\ ~Wanting(i)
<1>1. i \in DOMAIN Members
  BY TapeIs
<1>. QED  BY <1>1 DEF Files, Between, FileFlags, SpecialFlags, StringFlags, Wanting

LEMMA FilesAre == ASSUME OnTape PROVE Files \subseteq 1 .. Len(Members) /\ IsFiniteSet(Files)
<1>1. Files \subseteq 1 .. Len(Members) /\ Len(Members) \in Nat
  BY TapeIs DEF Files
<1>2. IsFiniteSet(1 .. Len(Members))
  BY <1>1, FS_Interval
<1>. QED  BY <1>1, <1>2, FS_Subset

LEMMA SpecialsGrow ==
    ASSUME OnTape, NEW a \in 1 .. Len(Members)
    PROVE  /\ Flag(a) \in SpecialFlags => Specials(a + 1) = Specials(a) \cup {a}
           /\ Flag(a) = "null" /\ concatenated => Specials(a + 1) = Specials(a)
           /\ a \in Files => Specials(a + 1) = {}
<1>1. Len(Members) \in Nat /\ a \in Nat /\ a >= 1 /\ (a + 1) - 1 = a
  BY TapeIs
<1>2. \A j : j \in 1 .. a <=> j \in 1 .. a - 1 \/ j = a
  BY <1>1
<1>3. ASSUME NEW j \in 1 .. a
      PROVE  (\A k \in j .. a : Flag(k) \in Between) <=> (\A k \in j .. a - 1 : Flag(k) \in Between) /\ Flag(a) \in Between
  <2>1. \A k : k \in j .. a <=> k \in j .. a - 1 \/ k = a
    BY <1>1
  <2>. QED  BY <2>1
<1>4. Specials(a + 1) = {j \in 1 .. a : Flag(j) \in SpecialFlags /\ \A k \in j .. a : Flag(k) \in Between}
  BY <1>1 DEF Specials
<1>5. CASE Flag(a) \in SpecialFlags
  <2>1. Flag(a) \in Between /\ a \notin Files
    BY <1>5, FlagsAre
  <2>2. \A k \in a .. a - 1 : FALSE
    BY <1>1
  <2>3. \A j : j \in Specials(a + 1) <=> j \in Specials(a) \/ j = a
    <3>1. ASSUME NEW j \in 1 .. a - 1 PROVE j \in Specials(a + 1) <=> j \in Specials(a)
      BY <1>2, <1>3, <1>4, <2>1 DEF Specials
    <3>2. a \in Specials(a + 1)
      BY <1>1, <1>2, <1>3, <1>4, <1>5, <2>1, <2>2
    <3>. QED  BY <1>2, <1>4, <3>1, <3>2 DEF Specials
  <2>4. Flag(a) # "null"
    BY <1>5 DEF SpecialFlags, StringFlags
  <2>. QED  BY <2>1, <2>3, <2>4
<1>6. CASE Flag(a) = "null" /\ concatenated
  <2>1. Flag(a) \in Between /\ a \notin Files /\ Flag(a) \notin SpecialFlags
    BY <1>6, FlagsAre DEF Between
  <2>2. \A j : j \in Specials(a + 1) <=> j \in Specials(a)
    BY <1>2, <1>3, <1>4, <2>1 DEF Specials
  <2>. QED  BY <2>1, <2>2
<1>7. CASE a \in Files
  <2>1. Flag(a) \notin Between /\ Flag(a) # "null"
    BY <1>7, FlagsAre
  <2>2. Specials(a + 1) = {}
    BY <1>3, <1>4, <2>1
  <2>3. Flag(a) \notin SpecialFlags
    BY <1>7, FlagsAre
  <2>. QED  BY <2>1, <2>2, <2>3
<1>. QED  BY <1>5, <1>6, <1>7

LEMMA CountGrows ==
    ASSUME OnTape, NEW a \in 1 .. Len(Members)
    PROVE  /\ IsFiniteSet(FilesBefore(a)) /\ Cardinality(FilesBefore(a)) \in Nat
           /\ a \in Files => Cardinality(FilesBefore(a + 1)) = Cardinality(FilesBefore(a)) + 1 /\ FilesBefore(a + 1) = FilesBefore(a) \cup {a}
           /\ a \notin Files => FilesBefore(a + 1) = FilesBefore(a)
<1>1. Len(Members) \in Nat /\ a \in Nat /\ Files \subseteq Nat /\ IsFiniteSet(Files)
  BY TapeIs, FilesAre
<1>2. IsFiniteSet(FilesBefore(a)) /\ Cardinality(FilesBefore(a)) \in Nat
  BY <1>1, FS_Subset, FS_CardinalityType, FilesBefore(a) \in SUBSET Files DEF FilesBefore
<1>3. \A i \in Files : i < a + 1 <=> i < a \/ i = a
  BY <1>1
<1>4. a \notin FilesBefore(a)
  BY <1>1 DEF FilesBefore
<1>5. a \in Files => FilesBefore(a + 1) = FilesBefore(a) \cup {a}
  BY <1>3 DEF FilesBefore
<1>6. a \notin Files => FilesBefore(a + 1) = FilesBefore(a)
  BY <1>3 DEF FilesBefore
<1>7. Cardinality(FilesBefore(a) \cup {a}) = Cardinality(FilesBefore(a)) + 1
  BY <1>2, <1>4, FS_AddElement
<1>. QED  BY <1>2, <1>5, <1>6, <1>7

LEMMA PaxGrows ==
    ASSUME OnTape, NEW a \in 1 .. Len(Members)
    PROVE  InPax(a + 1) <=> \/ Flag(a) \in {"pax", "global"}
                            \/ InPax(a) /\ ~(a \in Files /\ Members[a].gnu)
<1>1. Len(Members) \in Nat /\ a \in Nat /\ a >= 1 /\ (a + 1) - 1 = a
  BY TapeIs
<1>. DEFINE Gnu(k) == k \in Files /\ Members[k].gnu
<1>2. InPax(a + 1) <=> \E j \in 1 .. a : Flag(j) \in {"pax", "global"} /\ \A k \in j .. a : ~Gnu(k)
  BY <1>1 DEF InPax
<1>3. InPax(a) <=> \E j \in 1 .. a - 1 : Flag(j) \in {"pax", "global"} /\ \A k \in j .. a - 1 : ~Gnu(k)
  BY DEF InPax
<1>4. Flag(a) \in {"pax", "global"} => ~Gnu(a)
  BY FlagsAre DEF SpecialFlags, StringFlags
<1>. HIDE DEF Gnu
<1>5. ASSUME NEW j \in 1 .. a - 1 PROVE (\A k \in j .. a : ~Gnu(k)) <=> (\A k \in j .. a - 1 : ~Gnu(k)) /\ ~Gnu(a)
  <2>1. \A k : k \in j .. a <=> k \in j .. a - 1 \/ k = a
    BY <1>1
  <2>. QED  BY <2>1
<1>6. \A j : j \in 1 .. a <=> j \in 1 .. a - 1 \/ j = a
  BY <1>1
<1>7. \A k : k \in a .. a <=> k = a
  BY <1>1
<1>8. InPax(a + 1) <=> Flag(a) \in {"pax", "global"} \/ (InPax(a) /\ ~Gnu(a))
  BY <1>2, <1>3, <1>4, <1>5, <1>6, <1>7
<1>. QED  BY <1>8 DEF Gnu

\* A member that is no file is read.
LEMMA ReadOn ==
    ASSUME OnTape, NEW a \in 1 .. Len(Members), a \notin Files, NEW h, NEW g,
           ReadUpTo(a, h), h \subseteq g, Wanting(a) => a \in g
    PROVE  ReadUpTo(a + 1, g)
<1>1. Len(Members) \in Nat /\ a \in Nat /\ a >= 1 /\ (a + 1) - 1 = a /\ Files \subseteq Nat
  BY TapeIs, FilesAre
<1>2. FilesBefore(a + 1) = FilesBefore(a)
  BY CountGrows
<1>3. ASSUME NEW k \in 1 .. Len(entries) PROVE entries[k].file < a + 1
  <2>1. entries[k].file < a /\ entries[k].file \in Nat
    BY <1>1 DEF ReadUpTo, ReadIn
  <2>. QED  BY <1>1, <2>1
<1>4. \A j : j \in 1 .. a <=> j \in 1 .. a - 1 \/ j = a
  BY <1>1
<1>. QED  BY <1>1, <1>2, <1>3, <1>4 DEF ReadUpTo, ReadIn

LEMMA ReadInStays ==
    ASSUME UNCHANGED media, NEW x, NEW a, NEW h
    PROVE  ReadIn(x, a, h)' <=> ReadIn(x, a, h)
BY DEF ReadIn, FilesBefore, Files, Flag, Wanting, Members, media, Size, Start, Namer, Namers, Names, Specials, Between

LEMMA ReadWith ==
    ASSUME UNCHANGED media, NEW a, NEW h, NEW x, entries' = x, ReadIn(x, a, h)
    PROVE  ReadUpTo(a, h)'
BY ReadInStays DEF ReadUpTo

\* The file is an entry now.
LEMMA FileIsRead ==
    ASSUME OnTape, NEW f \in 1 .. Len(Members), f \in Files, ReadUpTo(f, Specials(f)), Start(f) <= Size,
           entries \in Seq(EntryType), NEW e \in EntryType, e.file = f, e.by = Namer(f),
           UNCHANGED media, entries' = Append(entries, e)
    PROVE  ReadUpTo(f + 1, {})'
<1>1. Len(Members) \in Nat /\ f \in Nat /\ f >= 1 /\ (f + 1) - 1 = f /\ Files \subseteq 1 .. Len(Members) /\ Size \in Int
  BY TapeIs, FilesAre, StartIsNat
<1>. DEFINE n == Len(entries)
            es == Append(entries, e)
            Up(k) == /\ es[k].file \in Files /\ es[k].file < f + 1
                     /\ es[k].by = Namer(es[k].file)
                     /\ Cardinality(FilesBefore(es[k].file)) = k - 1
                     /\ k < n + 1 => Start(es[k].file + 1) <= Size
<1>2. n \in Nat /\ Len(es) = n + 1 /\ es[n + 1] = e /\ \A k \in 1 .. n : es[k] = entries[k]
  OBVIOUS
<1>3. Cardinality(FilesBefore(f + 1)) = n + 1 /\ FilesBefore(f + 1) = FilesBefore(f) \cup {f} /\ Cardinality(FilesBefore(f)) = n
  BY <1>1, <1>2, CountGrows DEF ReadUpTo, ReadIn
<1>4. \A k : k \in 1 .. n + 1 <=> k \in 1 .. n \/ k = n + 1
  BY <1>2
<1>5. ASSUME NEW k \in 1 .. n PROVE Up(k)
  <2>1. /\ entries[k].file \in Files /\ entries[k].file < f
        /\ entries[k].by = Namer(entries[k].file)
        /\ Cardinality(FilesBefore(entries[k].file)) = k - 1
    BY DEF ReadUpTo, ReadIn
  <2>2. PICK g \in 1 .. Len(Members) : g = entries[k].file
    BY <1>1, <2>1
  <2>3. g < f /\ g < f + 1 /\ g + 1 <= f /\ g + 1 \in 1 .. Len(Members) + 1 /\ f \in 1 .. Len(Members) + 1
    <3>1. PICK N \in Nat : N = Len(Members)
      BY <1>1
    <3>2. g < f /\ g \in 1 .. N /\ f \in 1 .. N
      BY <2>1, <2>2, <3>1
    <3>3. g < f /\ g < f + 1 /\ g + 1 <= f /\ g + 1 \in 1 .. N + 1 /\ f \in 1 .. N + 1
      BY <3>2
    <3>. QED  BY <3>1, <3>3
  <2>4. Start(g + 1) <= Start(f) /\ Start(g + 1) \in Nat /\ Start(f) \in Nat
    <3>1. CASE g + 1 = f
      BY <3>1, <2>3, StartIsNat
    <3>2. CASE g + 1 < f
      <4>1. Start(g + 1) + Record <= Start(f) /\ Start(g + 1) \in Nat /\ Start(f) \in Nat
        BY <3>2, <2>3, StartsGrow, StartIsNat
      <4>2. ASSUME NEW x \in Nat, NEW y \in Nat, x + Record <= y PROVE x <= y
        BY <4>2, RecordIs
      <4>. QED  BY <4>1, <4>2
    <3>. QED  BY <1>1, <2>3, <3>1, <3>2
  <2>5. Start(g + 1) <= Size
    <3>1. ASSUME NEW x \in Nat, NEW y \in Nat, NEW z \in Int, x <= y, y <= z PROVE x <= z
      BY <3>1
    <3>. QED  BY <1>1, <2>4, <3>1
  <2>. QED  BY <1>2, <2>1, <2>2, <2>3, <2>5
<1>6. Up(n + 1)
  <2>1. n + 1 - 1 = n /\ ~(n + 1 < n + 1) /\ f < f + 1
    BY <1>1, <1>2
  <2>. QED  BY <1>1, <1>2, <1>3, <2>1
<1>. HIDE DEF es, Up
<1>7. \A i \in FilesBefore(f + 1) : \E k \in 1 .. n + 1 : es[k].file = i
  <2>1. ASSUME NEW i \in FilesBefore(f) PROVE \E k \in 1 .. n + 1 : es[k].file = i
    <3>1. PICK k \in 1 .. n : entries[k].file = i
      BY DEF ReadUpTo, ReadIn
    <3>2. k \in 1 .. n + 1 /\ es[k].file = i
      BY <1>2, <1>4, <3>1
    <3>. QED  BY <3>2
  <2>2. n + 1 \in 1 .. n + 1 /\ es[n + 1].file = f
    BY <1>2
  <2>. QED  BY <1>3, <2>1, <2>2
<1>8. \A j \in 1 .. f : Wanting(j) => \E k \in 1 .. n + 1 : j \in Specials(es[k].file)
  <2>1. ASSUME NEW j \in 1 .. f - 1, Wanting(j) PROVE \E k \in 1 .. n + 1 : j \in Specials(es[k].file)
    <3>1. CASE j \in Specials(f)
      <4>1. n + 1 \in 1 .. n + 1 /\ es[n + 1].file = f
        BY <1>2
      <4>. QED  BY <3>1, <4>1
    <3>2. CASE \E k \in 1 .. n : j \in Specials(entries[k].file)
      <4>1. PICK k \in 1 .. n : j \in Specials(entries[k].file)
        BY <3>2
      <4>2. k \in 1 .. n + 1 /\ es[k] = entries[k]
        BY <1>2, <1>4
      <4>. QED  BY <4>1, <4>2
    <3>. QED  BY <2>1, <3>1, <3>2 DEF ReadUpTo, ReadIn
  <2>2. ~Wanting(f)
    BY FlagsAre DEF Wanting, FileFlags
  <2>3. \A j : j \in 1 .. f <=> j \in 1 .. f - 1 \/ j = f
    BY <1>1
  <2>. QED  BY <2>1, <2>2, <2>3
<1>9. ReadIn(es, f + 1, {})
  <2>1. \A k \in 1 .. n + 1 : Up(k)
    BY <1>4, <1>5, <1>6
  <2>. QED  BY <1>1, <1>2, <1>3, <1>7, <1>8, <2>1 DEF Up, ReadIn
<1>10. entries' = es
  BY DEF es
<1>. QED  BY <1>9, <1>10, ReadWith

\* Once off the track the reader never comes back to it.
LEMMA WasOnTrack ==
    ASSUME TypeInv, [Next]_vars, OnTrack'
    PROVE  OnTrack /\ UNCHANGED media /\ clean /\ clean' /\ ~astray'
<1>1. UNCHANGED media /\ (clean' => clean) /\ (astray => astray') /\ (entries' = entries \/ entries' = Append(entries, entry))
  <2>1. CASE Calls
    <3>1. CASE NextHeader
      BY <3>1 DEF NextHeader, Skip
    <3>2. CASE DataSkip
      <4>1. UNCHANGED <<media, entries>> /\ (clean' => clean)
        BY <3>2 DEF DataSkip, Returns
      <4>2. astray => astray'
        BY <3>2 DEF DataSkip, Skip
      <4>. QED  BY <4>1, <4>2
    <3>3. CASE NextHeaderMisused \/ DataSkipMisused \/ ReadDataMisused
      <4>1. \E c \in {"header", "skip", "data"} : Misused(c)
        BY <3>3 DEF NextHeaderMisused, DataSkipMisused, ReadDataMisused
      <4>2. UNCHANGED <<media, entries, astray>> /\ \E c \in {"header", "skip", "data"} : Returns(c, "fatal", NoBlock)
        BY <4>1 DEF Misused
      <4>3. clean' => clean
        BY <4>2 DEF Returns
      <4>. QED  BY <4>2, <4>3
    <3>4. CASE NextHeaderCannotSkip
      BY <3>4 DEF NextHeaderCannotSkip, Returns
    <3>5. CASE ReadData
      BY <3>5 DEF ReadData
    <3>. QED  BY <2>1, <3>1, <3>2, <3>3, <3>4, <3>5 DEF Calls
  <2>2. CASE HeaderBreaks \/ HeaderAtEnd \/ NullRecord \/ Damaged \/ TooManyHeaders \/ ReadSpecial \/ SpecialBreaks \/ ReadVolume \/ ReadFile
    BY <2>2 DEF HeaderBreaks, HeaderAtEnd, NullRecord, Damaged, TooManyHeaders, ReadSpecial, SpecialBreaks, ReadVolume, ReadFile, InHeader, Kept
  <2>3. CASE LevelReturns \/ ReadMap \/ LevelFails
    BY <2>3 DEF LevelReturns, ReadMap, LevelFails, Leaves
  <2>4. CASE HeaderReturns
    BY <2>4 DEF HeaderReturns, Returns
  <2>5. CASE DataEnds \/ DataFails
    <3>1. InData /\ \E r, b : Returns("data", r, b)
      BY <2>5 DEF DataEnds, DataFails
    <3>. QED  BY <3>1 DEF InData, Returns
  <2>6. CASE DataBlock
    <3>1. InData /\ \E n \in Nat : BlockStep(n)
      BY <2>6, BlockIs
    <3>. QED  BY <3>1 DEF InData, BlockStep, Returns
  <2>7. CASE UNCHANGED vars
    BY <2>7 DEF vars
  <2>. QED  BY <2>1, <2>2, <2>3, <2>4, <2>5, <2>6, <2>7 DEF Next, Step
<1>2. clean' /\ ~astray' /\ Orderly' /\ \A e \in ToSet(entries') : e.file > 0 /\ Truthful(e.file)'
  BY DEF OnTrack
<1>3. Orderly
  BY <1>1, <1>2 DEF Orderly, media, Members, Flag
<1>4. ToSet(entries) \subseteq ToSet(entries')
  <2>1. entries \in Seq(EntryType)
    BY DEF TypeInv, HistoryOK
  <2>2. \A k \in 1 .. Len(entries) : k \in 1 .. Len(Append(entries, entry)) /\ Append(entries, entry)[k] = entries[k]
    BY <2>1
  <2>3. ToSet(entries) \subseteq ToSet(Append(entries, entry))
    BY <2>1, <2>2 DEF ToSet
  <2>. QED  BY <1>1, <2>3
<1>5. ASSUME NEW i PROVE Truthful(i)' = Truthful(i)
  BY <1>1 DEF Truthful, Told, Resizing, Attributed, Specials, Flag, Members, Between, media, ToldByFile, InPax, Files, Mapping, Data, DataOf, Start, BodyEnd
<1>6. \A e \in ToSet(entries) : e.file > 0 /\ Truthful(e.file)
  BY <1>2, <1>4, <1>5
<1>. QED  BY <1>1, <1>2, <1>3, <1>6 DEF OnTrack

LEMMA ReadStays ==
    ASSUME UNCHANGED <<media, entries>>, NEW a, NEW h
    PROVE  ReadUpTo(a, h)' <=> ReadUpTo(a, h)
<1>1. UNCHANGED media /\ entries' = entries
  OBVIOUS
<1>. QED  BY <1>1, ReadInStays DEF ReadUpTo

\* What the tape is does not change.
LEMMA TapeStays ==
    ASSUME UNCHANGED media, NEW i
    PROVE  /\ Start(i)' = Start(i) /\ Specials(i)' = Specials(i) /\ (InPax(i)' <=> InPax(i)) /\ (Versions(i)' <=> Versions(i))
           /\ Size' = Size /\ Members' = Members /\ Files' = Files /\ FilesBefore(i)' = FilesBefore(i)
BY DEF media, Start, Specials, Flag, Members, Between, InPax, Files, Versions, Size, FilesBefore

LEMMA FileStays ==
    ASSUME UNCHANGED media, NEW i
    PROVE  /\ Data(i)' = Data(i) /\ BodyEnd(i)' = BodyEnd(i) /\ (Truthful(i)' <=> Truthful(i))
           /\ Mapping(i)' = Mapping(i) /\ Resizing(i)' = Resizing(i) /\ Malformed(i)' = Malformed(i)
           /\ ToldByFile(i)' = ToldByFile(i) /\ Namer(i)' = Namer(i)
BY DEF Truthful, Told, Resizing, Attributed, Malformed, Specials, Flag, Members, Between, media, ToldByFile, InPax, Files, Mapping, Data, DataOf, Start, BodyEnd, Namer, Namers, Names

LEMMA MappingIs ==
    ASSUME OnTape, NEW f \in 1 .. Len(Members)
    PROVE  /\ Mapping(f) \subseteq 1 .. Len(Members) /\ Resizing(f) \subseteq 1 .. Len(Members)
           /\ Mapping(f) # {} => First(Mapping(f)) \in Mapping(f)
           /\ Resizing(f) # {} => First(Resizing(f)) \in Resizing(f)
<1>1. f \in 1 .. Len(Members) + 1 /\ 1 .. Len(Members) \subseteq Nat
  BY TapeIs
<1>2. Mapping(f) \subseteq 1 .. Len(Members) /\ Resizing(f) \subseteq 1 .. Len(Members)
  BY <1>1, SpecialsAre DEF Mapping, Resizing, Attributed
<1>. QED  BY <1>1, <1>2, FirstOf

LEMMA DataIs ==
    ASSUME OnTape, NEW f \in 1 .. Len(Members)
    PROVE  Data(f).pieces \in Map /\ Data(f).at \in Nat /\ BodyEnd(f) \in Nat /\ Start(f) \in Nat /\ Members[f].body \in Nat
<1>1. Start(f) \in Nat /\ Members[f].body \in Nat
  <2>1. f \in 1 .. Len(Members) + 1
    BY TapeIs
  <2>. QED  BY <2>1, StartIsNat, MemberIs
<1>2. BodyEnd(f) \in Nat /\ Start(f) + Record \in Nat
  <2>1. PICK x \in Nat, y \in Nat : x = Start(f) /\ y = Members[f].body
    BY <1>1
  <2>2. x + Record + y \in Nat /\ x + Record \in Nat
    BY RecordIs
  <2>. QED  BY <2>1, <2>2 DEF BodyEnd
<1>3. CASE Mapping(f) = {}
  <2>1. Piece(0, Members[f].body, FALSE) \in PieceType
    BY <1>1 DEF Piece, PieceType
  <2>2. ASSUME NEW x \in PieceType PROVE <<x>> \in Seq(PieceType)
    OBVIOUS
  <2>3. <<Piece(0, Members[f].body, FALSE)>> \in Map
    BY <2>1, <2>2, MapIs
  <2>. QED  BY <1>1, <1>2, <1>3, <2>3 DEF Data
<1>4. CASE Mapping(f) # {}
  <2>1. PICK j \in 1 .. Len(Members) : j = First(Mapping(f))
    BY <1>4, MappingIs
  <2>2. Members[j].map \in Map /\ Members[j].inner \in Map /\ Members[j].mapsize \in Nat
    BY MemberIs
  <2>3. Padded(Members[j].mapsize) \in Nat
    BY <2>2, PaddedIs
  <2>4. Start(f) + Record + Padded(Members[j].mapsize) \in Nat
    <3>1. PICK x \in Nat, y \in Nat : x = Start(f) + Record /\ y = Padded(Members[j].mapsize)
      BY <1>2, <2>3
    <3>. QED  BY <3>1
  <2>. QED  BY <1>1, <1>2, <1>4, <2>1, <2>2, <2>4 DEF Data, DataOf
<1>. QED  BY <1>3, <1>4

\* What is left of the map is enough for what is left of a body whose headers tell the truth.
LEMMA RestCovers ==
    ASSUME TypeInv, NEW f \in 1 .. Len(Members), InTheData(f), Truthful(f), remaining > 0
    PROVE  SumOf(sparse_list) >= remaining /\ SumOf(sparse_list) \in Nat
<1>1. PICK k \in 1 .. Len(Data(f).pieces) + 1, d \in Nat :
        IsRest(sparse_list, Data(f).pieces, k, d) /\ Place = Data(f).at + Far(Data(f).pieces, k, d)
  BY DEF InTheData
<1>2. OnTape /\ sparse_list \in Map /\ remaining \in Nat /\ Place \in Nat
  BY DEF TypeInv, MediaOK, DataOK, PlaceOK, Place
<1>3. PICK p \in Map : p = Data(f).pieces
  BY <1>2, DataIs
<1>4. PICK at \in Nat : at = Data(f).at
  BY <1>2, DataIs
<1>5. SumOf(sparse_list) = SumOf(p) - SumUpTo(Lengths(p), k - 1) - d
  BY <1>1, <1>2, <1>3, AllOfRest
<1>6. Len(p) \in Nat /\ k - 1 \in 0 .. Len(p) /\ Len(p) \in 0 .. Len(p)
  BY <1>1, <1>3, LengthsOf
<1>7. SumUpTo(Lengths(p), k - 1) \in Nat /\ SumOf(p) \in Nat
  BY <1>6, SumOfMap DEF SumOf
<1>8. PICK b \in Nat, c \in Nat, s \in {SumOf(sparse_list)} : b = SumUpTo(Lengths(p), k - 1) /\ c = SumOf(p) /\ s = SumOf(sparse_list)
  BY <1>7
<1>9. Place = at + (b + d) /\ s = c - b - d
  BY <1>1, <1>3, <1>4, <1>5, <1>8 DEF Far
<1>10. at + c >= BodyEnd(f) /\ Place + remaining = BodyEnd(f)
  BY <1>3, <1>4, <1>8 DEF Truthful, InTheData
<1>11. s >= remaining /\ s \in Nat
  BY <1>2, <1>9, <1>10
<1>. QED  BY <1>8, <1>11

LEMMA FilesAreMembers == ASSUME OnTape, NEW f \in Files PROVE f \in 1 .. Len(Members) /\ f + 1 \in 1 .. Len(Members) + 1 /\ f \in 1 .. Len(Members) + 1
BY FilesAre, TapeIs

\* A skip that leaves no hole behind ends where the next header begins.
LEMMA SkipLands ==
    ASSUME TypeInv, NEW f, InTheData(f), Truthful(f), Skip, ~astray', UNCHANGED <<media, entries, pax, pending>>
    PROVE  AtHeader(f + 1)' /\ Specials(f + 1)' = {}
<1>1. OnTape /\ f \in Files /\ UNCHANGED media /\ pos \in Nat /\ unconsumed \in Nat /\ remaining \in Nat /\ padding \in Nat /\ sparse_list \in Map
  BY RecordIs DEF InTheData, TypeInv, MediaOK, PlaceOK, DataOK
<1>2. f \in 1 .. Len(Members) /\ f + 1 \in 1 .. Len(Members) + 1 /\ f \in Nat
  BY <1>1, FilesAreMembers
<1>3. Specials(f + 1) = {}
  BY <1>1, <1>2, SpecialsGrow
<1>4. PICK n \in Nat : n = SumUpTo(Stored(sparse_list), Len(sparse_list))
  BY <1>1, StoredIsNat
<1>5. n = SumOf(sparse_list)
  BY <1>1, <1>4, StoredIsAll DEF Skip
<1>6. Least(n, remaining) = remaining
  <2>1. CASE remaining > 0
    BY <1>1, <1>2, <1>5, <2>1, RestCovers DEF Least
  <2>2. CASE ~(remaining > 0)
    BY <1>1, <1>4, <2>2 DEF Least
  <2>. QED  BY <2>1, <2>2
<1>7. Skipped = remaining + padding + unconsumed
  BY <1>4, <1>6 DEF Skipped
<1>8. Place = pos + unconsumed /\ Place + remaining + padding = Start(f + 1)
  BY DEF Place, InTheData
<1>9. PICK k \in Nat : k = Skipped
  BY <1>1, <1>7
<1>10. pos' = pos + k /\ (k = 0 \/ on_disk \/ pos + k <= Size) /\ unconsumed' = 0
  BY <1>9 DEF Skip, Passes
<1>11. pos + k = Start(f + 1)
  BY <1>1, <1>7, <1>8, <1>9
<1>12. ~on_disk => pos + k <= Size
  <2>1. ~on_disk => Place <= Size
    BY DEF InTheData
  <2>2. k = 0 => pos + k = Place
    BY <1>1, <1>7, <1>8, <1>9
  <2>. QED  BY <1>10, <2>1, <2>2
<1>13. ReadUpTo(f + 1, {}) /\ (pax <=> InPax(f + 1)) /\ (pending = "other" => Versions(f)) /\ (f + 1) - 1 = f
  BY <1>2 DEF InTheData
<1>14. AtHeader(f + 1)'
  <2>1. ReadUpTo(f + 1, {})' /\ Specials(f + 1)' = {}
    BY <1>1, <1>3, <1>13, ReadStays, TapeStays
  <2>2. pos' = Start(f + 1)' /\ unconsumed' = 0 /\ (~on_disk' => pos' <= Size')
    BY <1>1, <1>10, <1>11, <1>12, TapeStays DEF media
  <2>3. (pax <=> InPax(f + 1))' /\ (pending = "other" => Versions(f))'
    BY <1>1, <1>13, TapeStays
  <2>4. f + 1 \in 1 .. Len(Members') + 1
    BY <1>1, <1>2, TapeStays
  <2>. QED  BY <1>13, <2>1, <2>2, <2>3, <2>4 DEF AtHeader
<1>. QED  BY <1>1, <1>3, <1>14, TapeStays

LEMMA InitTrack == Init => Track
<1>. SUFFICES ASSUME Init PROVE Track
  OBVIOUS
<1>1. OnTape /\ pc = "idle" /\ state = "header" /\ pos = 0 /\ unconsumed = 0 /\ entries = <<>> /\ pax = FALSE /\ pending = "no"
  BY DEF Init, OnTape
<1>2. Len(Members) \in Nat /\ Start(1) = 0 /\ Files \subseteq 1 .. Len(Members) /\ 1 \in 1 .. Len(Members) + 1
  BY <1>1, TapeIs, FilesAre
<1>3. Specials(1) = {} /\ ~InPax(1) /\ FilesBefore(1) = {}
  <2>1. Specials(1) = {} /\ ~InPax(1)
    BY DEF Specials, InPax
  <2>2. FilesBefore(1) = {}
    <3>1. \A i \in Files : ~(i < 1)
      BY <1>2
    <3>. QED  BY <3>1 DEF FilesBefore
  <2>. QED  BY <2>1, <2>2
<1>4. ReadUpTo(1, {})
  <2>1. Len(entries) = 0 /\ \A k \in 1 .. Len(entries) : FALSE
    BY <1>1
  <2>2. Cardinality(FilesBefore(1)) = 0
    BY <1>3, FS_EmptySet
  <2>3. \A j \in 1 .. 1 - 1 : FALSE
    OBVIOUS
  <2>. QED  BY <1>3, <2>1, <2>2, <2>3 DEF ReadUpTo, ReadIn
<1>5. ~on_disk => pos <= Size
  <2>1. Size \in Nat
    BY <1>1, TapeIs
  <2>. QED  BY <1>1, <2>1
<1>6. AtHeader(1)
  BY <1>1, <1>2, <1>3, <1>4, <1>5 DEF AtHeader
<1>. QED  BY <1>1, <1>2, <1>3, <1>6 DEF Track

LEMMA AtHeaderStays ==
    ASSUME UNCHANGED <<media, entries, pos, pax, pending, unconsumed>>, NEW a, AtHeader(a)
    PROVE  AtHeader(a)'
<1>1. UNCHANGED media /\ UNCHANGED <<entries, pos, pax, pending, unconsumed>> /\ on_disk' = on_disk
  BY DEF media
<1>2. ReadUpTo(a, Specials(a))'
  BY <1>1, ReadStays, TapeStays DEF AtHeader
<1>3. pos' = Start(a)' /\ (~on_disk' => pos' <= Size') /\ unconsumed' = 0 /\ a \in 1 .. Len(Members') + 1
  BY <1>1, TapeStays DEF AtHeader
<1>4. (pax <=> InPax(a))'
  BY <1>1, TapeStays DEF AtHeader
<1>5. (pending = "other" => Versions(a - 1))'
  BY <1>1, TapeStays DEF AtHeader
<1>. QED  BY <1>2, <1>3, <1>4, <1>5 DEF AtHeader

LEMMA InTheDataStays ==
    ASSUME UNCHANGED <<media, entries, pos, pax, pending, unconsumed, remaining, padding, sparse_list>>, NEW f, InTheData(f)
    PROVE  InTheData(f)'
<1>1. UNCHANGED media /\ UNCHANGED <<entries, pos, pax, pending, unconsumed, remaining, padding, sparse_list>> /\ on_disk' = on_disk /\ Place' = Place
  BY DEF media, Place
<1>2. ReadUpTo(f + 1, {})'
  BY <1>1, ReadStays DEF InTheData
<1>3. (pax <=> InPax(f + 1))' /\ (pending = "other" => Versions(f))'
  BY <1>1, TapeStays DEF InTheData
<1>4. f \in Files' /\ (Place + remaining + padding = Start(f + 1))' /\ (~on_disk => Place <= Size)'
  BY <1>1, TapeStays DEF InTheData
<1>5. ASSUME remaining > 0
      PROVE  /\ Place' + remaining' = BodyEnd(f)'
             /\ \E k \in 1 .. Len(Data(f)'.pieces) + 1, d \in Nat :
                    IsRest(sparse_list', Data(f)'.pieces, k, d) /\ Place' = Data(f)'.at + Far(Data(f)'.pieces, k, d)
  <2>1. Data(f)' = Data(f) /\ BodyEnd(f)' = BodyEnd(f)
    BY <1>1, FileStays
  <2>2. PICK k \in 1 .. Len(Data(f).pieces) + 1, d \in Nat : IsRest(sparse_list, Data(f).pieces, k, d) /\ Place = Data(f).at + Far(Data(f).pieces, k, d)
    BY <1>5 DEF InTheData
  <2>3. Place + remaining = BodyEnd(f)
    BY <1>5 DEF InTheData
  <2>4. IsRest(sparse_list', Data(f)'.pieces, k, d) /\ Place' = Data(f)'.at + Far(Data(f)'.pieces, k, d) /\ k \in 1 .. Len(Data(f)'.pieces) + 1
    BY <1>1, <2>1, <2>2
  <2>. QED  BY <1>1, <2>1, <2>3, <2>4
<1>. QED  BY <1>1, <1>2, <1>3, <1>4, <1>5 DEF InTheData, IsRest, Far

LEMMA LastIsTrue ==
    ASSUME TypeInv, OnTrack, entries # <<>>
    PROVE  Truthful(Last(entries).file) /\ Last(entries).file > 0
<1>1. entries \in Seq(EntryType)
  BY DEF TypeInv, HistoryOK
<1>2. Last(entries) = entries[Len(entries)] /\ Len(entries) \in DOMAIN entries
  BY <1>1 DEF Last
<1>3. Last(entries) \in ToSet(entries)
  BY <1>2 DEF ToSet
<1>. QED  BY <1>3 DEF OnTrack

LEMMA TrackCalls == ASSUME TypeInv, DepthInv, OnTrack, Track, Calls, clean', ~astray' PROVE Track'
<1>1. pc = "idle" /\ specials = <<>> /\ UNCHANGED <<media, entries, specials, pax, pending>> /\ UNCHANGED media
  BY DEF DepthInv, Calls, NextHeader, NextHeaderCannotSkip, NextHeaderMisused, DataSkip, DataSkipMisused, ReadData, ReadDataMisused, Misused, tar
<1>2. ASSUME NEW c, NEW b, Returns(c, "fatal", b) PROVE FALSE
  BY <1>2 DEF Returns
<1>3. OnTape
  BY DEF TypeInv, MediaOK
<1>4. CASE NextHeader
  <2>1. pc' = "header" /\ state' = "header" /\ state \in {"header", "data"}
    BY <1>4 DEF NextHeader
  <2>2. \E a \in 1 .. Len(Members) + 1 : AtHeader(a)' /\ Specials(a)' = {}
    <3>1. CASE state = "data"
      <4>1. Skip
        BY <1>4, <3>1 DEF NextHeader
      <4>2. entries # <<>> /\ InTheData(Last(entries).file)
        BY <1>1, <3>1 DEF Track
      <4>3. PICK f : f = Last(entries).file
        OBVIOUS
      <4>4. InTheData(f) /\ Truthful(f)
        BY <4>2, <4>3, LastIsTrue
      <4>5. AtHeader(f + 1)' /\ Specials(f + 1)' = {}
        BY <1>1, <4>1, <4>4, SkipLands
      <4>6. f + 1 \in 1 .. Len(Members) + 1
        BY <1>3, <4>4, FilesAreMembers DEF InTheData
      <4>. QED  BY <4>5, <4>6
    <3>2. CASE state # "data"
      <4>1. UNCHANGED <<pos, unconsumed>>
        BY <1>4, <3>2 DEF NextHeader
      <4>2. PICK a \in 1 .. Len(Members) + 1 : AtHeader(a) /\ Specials(a) = {}
        BY <1>1, <2>1, <3>2 DEF Track
      <4>. QED  BY <1>1, <4>1, <4>2, AtHeaderStays, TapeStays
    <3>. QED  BY <3>1, <3>2
  <2>3. PICK a \in 1 .. Len(Members) + 1 : AtHeader(a)' /\ Specials(a)' = {}
    BY <2>2
  <2>4. sparse_list' = <<>>
    BY <1>4 DEF NextHeader, Skip
  <2>5. ToSet(specials') = {} /\ Increasing(specials')
    BY <1>1 DEF ToSet, Increasing
  <2>6. Reads(a)'
    BY <2>3, <2>4, <2>5 DEF Reads, ToSet, Increasing
  <2>7. a \in 1 .. Len(Members') + 1
    BY <1>1, TapeStays
  <2>. QED  BY <2>1, <2>6, <2>7 DEF Track
<1>5. CASE DataSkip
  <2>1. state = "data" /\ state' = "header" /\ pc' = "idle" /\ Skip
    BY <1>2, <1>5 DEF DataSkip, Returns
  <2>2. PICK f : f = Last(entries).file /\ entries # <<>>
    BY <1>1, <2>1 DEF Track
  <2>3. InTheData(f) /\ Truthful(f)
    BY <1>1, <2>1, <2>2, LastIsTrue DEF Track
  <2>4. AtHeader(f + 1)' /\ Specials(f + 1)' = {}
    BY <1>1, <2>1, <2>3, SkipLands
  <2>5. f + 1 \in 1 .. Len(Members') + 1
    BY <1>1, <1>3, <2>3, FilesAreMembers, TapeStays DEF InTheData
  <2>. QED  BY <2>1, <2>4, <2>5 DEF Track
<1>6. CASE ReadData
  <2>1. state = "data" /\ state' = "data" /\ pc' = "data" /\ UNCHANGED <<pos, unconsumed, remaining, padding, sparse_list>>
    BY <1>6 DEF ReadData, tar
  <2>2. PICK f : f = Last(entries).file /\ entries # <<>>
    BY <1>1, <2>1 DEF Track
  <2>3. InTheData(f)
    BY <1>1, <2>1, <2>2 DEF Track
  <2>4. InTheData(f)'
    BY <1>1, <2>1, <2>3, InTheDataStays
  <2>5. f = Last(entries').file /\ entries' # <<>>
    BY <1>1, <2>2
  <2>. QED  BY <2>1, <2>4, <2>5 DEF Track
<1>7. CASE NextHeaderCannotSkip \/ NextHeaderMisused \/ DataSkipMisused \/ ReadDataMisused
  BY <1>2, <1>7 DEF NextHeaderCannotSkip, NextHeaderMisused, DataSkipMisused, ReadDataMisused, Misused
<1>. QED  BY <1>4, <1>5, <1>6, <1>7 DEF Calls

-----------------------------------------------------------------------------
(* The headers that are read. *)

LEMMA PaddedZero == Padded(0) = 0
<1>1. PICK q \in Nat : q = (0 + Record - 1) \div Record
  BY RecordIs, DivisionIs, 0 + Record - 1 \in Nat
<1>2. q * Record <= Record - 1 /\ Record - 1 < q * Record + Record
  BY <1>1, RecordIs, DivisionIs, 0 + Record - 1 \in Nat, 0 + Record - 1 = Record - 1
<1>3. 0 * Record = 0
  BY RecordIs
<1>4. 0 * Record <= Record - 1 /\ Record - 1 < 0 * Record + Record /\ Record - 1 \in Nat
  BY <1>3, RecordIs
<1>5. q = 0
  BY <1>2, <1>4, RecordIs, MultipleIs
<1>6. Padded(0) = q * Record
  BY <1>1 DEF Padded
<1>. QED  BY <1>3, <1>5, <1>6

LEMMA HereIsThere ==
    ASSUME TypeInv, NEW a, Reads(a), NEW i \in Here
    PROVE  i = a /\ a \in 1 .. Len(Members) /\ Start(a + 1) = pos + Record + Padded(Members[a].body)
           /\ Padded(Members[a].body) \in Nat /\ pos \in Nat /\ Size \in Nat
<1>1. OnTape /\ i \in 1 .. Len(Members) /\ Start(i) = pos /\ a \in 1 .. Len(Members) + 1 /\ Start(a) = pos /\ pos \in Nat
  BY HereIs DEF TypeInv, MediaOK, PlaceOK, Reads, AtHeader, Here
<1>2. i \in 1 .. Len(Members) + 1
  BY <1>1, TapeIs
<1>3. i = a
  BY <1>1, <1>2, StartsDiffer
<1>4. Start(a + 1) = Start(a) + Record + Padded(Members[a].body) /\ Size \in Nat
  BY <1>1, <1>3, TapeIs
<1>5. Padded(Members[a].body) \in Nat
  BY <1>1, <1>3, MemberIs, PaddedIs
<1>. QED  BY <1>1, <1>3, <1>4, <1>5

LEMMA AppendIs ==
    ASSUME NEW N \in Nat, NEW s \in Seq(1 .. N), Increasing(s), NEW a \in Nat, ToSet(s) \subseteq 1 .. a - 1
    PROVE  ToSet(Append(s, a)) = ToSet(s) \cup {a} /\ Increasing(Append(s, a))
<1>1. Len(s) \in Nat /\ Len(Append(s, a)) = Len(s) + 1 /\ Append(s, a)[Len(s) + 1] = a /\ \A k \in 1 .. Len(s) : Append(s, a)[k] = s[k]
  OBVIOUS
<1>2. \A k : k \in 1 .. Len(s) + 1 <=> k \in 1 .. Len(s) \/ k = Len(s) + 1
  BY <1>1
<1>3. DOMAIN s = 1 .. Len(s) /\ DOMAIN Append(s, a) = 1 .. Len(s) + 1
  BY <1>1
<1>4. ToSet(Append(s, a)) = ToSet(s) \cup {a}
  BY <1>1, <1>2, <1>3 DEF ToSet
<1>5. \A k \in 1 .. Len(s) : s[k] \in Nat /\ s[k] < a
  <2>1. \A k \in 1 .. Len(s) : s[k] \in 1 .. a - 1
    BY <1>3 DEF ToSet
  <2>. QED  BY <2>1
<1>6. ASSUME NEW j \in 1 .. Len(s) + 1, NEW k \in 1 .. Len(s) + 1, j < k PROVE Append(s, a)[j] < Append(s, a)[k]
  <2>1. j \in 1 .. Len(s)
    BY <1>1, <1>6
  <2>2. CASE k = Len(s) + 1
    BY <1>1, <1>5, <2>1, <2>2
  <2>3. CASE k \in 1 .. Len(s)
    BY <1>1, <1>6, <2>1, <2>3 DEF Increasing
  <2>. QED  BY <1>2, <2>2, <2>3
<1>7. Increasing(Append(s, a))
  BY <1>1, <1>6 DEF Increasing
<1>. QED  BY <1>4, <1>7

\* A header in front of the file, and what the reader holds of it, or a record of zeroes.
LEMMA ReadsOn ==
    ASSUME TypeInv, NEW a \in 1 .. Len(Members), Reads(a), a \notin Files,
           UNCHANGED <<media, entries, pending, unconsumed, sparse_list>>,
           pos' = Start(a + 1), pos' <= Size, pax' <=> InPax(a + 1),
           \/ Flag(a) \in SpecialFlags /\ specials' = Append(specials, a)
           \/ Flag(a) = "null" /\ concatenated /\ specials' = specials
    PROVE  Reads(a + 1)'
<1>1. OnTape /\ UNCHANGED media /\ on_disk' = on_disk /\ specials \in Seq(DOMAIN Members)
  BY DEF TypeInv, MediaOK, LevelsOK, media
<1>2. Len(Members) \in Nat /\ DOMAIN Members = 1 .. Len(Members) /\ a \in Nat /\ a + 1 \in 1 .. Len(Members) + 1 /\ (a + 1) - 1 = a /\ a \in 1 .. Len(Members) + 1
  BY <1>1, TapeIs
<1>3. ToSet(specials) = Specials(a) /\ Increasing(specials) /\ Specials(a) \subseteq 1 .. a - 1
  BY <1>1, <1>2, SpecialsAre DEF Reads
<1>4. ToSet(specials') = Specials(a + 1) /\ Increasing(specials') /\ Specials(a) \subseteq Specials(a + 1) /\ (Wanting(a) => a \in Specials(a + 1))
  <2>1. CASE Flag(a) \in SpecialFlags /\ specials' = Append(specials, a)
    <3>1. specials \in Seq(1 .. Len(Members)) /\ ToSet(specials) \subseteq 1 .. a - 1
      BY <1>1, <1>2, <1>3
    <3>2. ToSet(Append(specials, a)) = ToSet(specials) \cup {a} /\ Increasing(Append(specials, a))
      BY <1>2, <1>3, <3>1, AppendIs
    <3>3. Specials(a + 1) = Specials(a) \cup {a}
      BY <1>1, <2>1, SpecialsGrow
    <3>. QED  BY <1>3, <2>1, <3>2, <3>3
  <2>2. CASE Flag(a) = "null" /\ concatenated /\ specials' = specials
    BY <1>1, <1>2, <1>3, <2>2, SpecialsGrow, FlagsAre
  <2>. QED  BY <2>1, <2>2
<1>5. ReadUpTo(a + 1, Specials(a + 1))
  BY <1>1, <1>4, ReadOn DEF Reads, AtHeader
<1>6. pending = "other" => Versions((a + 1) - 1)
  <2>1. Versions(a - 1) => Versions(a)
    <3>1. 1 .. a - 1 \subseteq 1 .. a
      BY <1>2
    <3>. QED  BY <3>1 DEF Versions
  <2>. QED  BY <1>2, <2>1 DEF Reads, AtHeader
<1>7. AtHeader(a + 1)'
  <2>1. ReadUpTo(a + 1, Specials(a + 1))'
    BY <1>1, <1>5, ReadStays, TapeStays
  <2>2. pos' = Start(a + 1)' /\ (~on_disk' => pos' <= Size') /\ a + 1 \in 1 .. Len(Members') + 1 /\ unconsumed' = 0
    BY <1>1, <1>2, TapeStays DEF Reads, AtHeader
  <2>3. (pax <=> InPax(a + 1))' /\ (pending = "other" => Versions((a + 1) - 1))'
    BY <1>1, <1>2, <1>6, TapeStays
  <2>. QED  BY <2>1, <2>2, <2>3 DEF AtHeader
<1>8. ToSet(specials') = Specials(a + 1)'
  BY <1>1, <1>4, TapeStays
<1>. QED  BY <1>4, <1>7, <1>8 DEF Reads, ToSet, Increasing

LEMMA IncreasingCounts ==
    ASSUME NEW N \in Nat, NEW s \in Seq(1 .. N), Increasing(s)
    PROVE  Cardinality(ToSet(s)) = Len(s) /\ Len(s) \in Nat
<1>1. Len(s) \in Nat /\ DOMAIN s = 1 .. Len(s)
  OBVIOUS
<1>2. IsFiniteSet(1 .. Len(s)) /\ Cardinality(1 .. Len(s)) = Len(s)
  <2>1. PICK n : n = Len(s)
    OBVIOUS
  <2>4. n \in Nat
    BY <1>1, <2>1
  <2>2. IsFiniteSet(1 .. n) /\ Cardinality(1 .. n) = IF 1 > n THEN 0 ELSE n - 1 + 1
    BY <2>4, FS_Interval
  <2>3. Cardinality(1 .. n) = n
    BY <2>2, <2>4
  <2>. QED  BY <2>1, <2>2, <2>3
<1>3. s \in Bijection(1 .. Len(s), ToSet(s))
  <2>1. \A j, k \in 1 .. Len(s) : s[j] = s[k] => j = k
    <3>1. ASSUME NEW j \in 1 .. Len(s), NEW k \in 1 .. Len(s), s[j] = s[k] PROVE j = k
      <4>1. ~(j < k) /\ ~(k < j)
        <5>1. s[j] \in Nat /\ s[k] \in Nat
          BY <1>1
        <5>. QED  BY <3>1, <5>1 DEF Increasing
      <4>. QED  BY <1>1, <4>1
    <3>. QED  BY <3>1
  <2>2. s \in [1 .. Len(s) -> ToSet(s)]
    BY <1>1 DEF ToSet
  <2>3. \A x \in ToSet(s) : \E j \in 1 .. Len(s) : s[j] = x
    BY <1>1 DEF ToSet
  <2>. QED  BY <2>1, <2>2, <2>3, Fun_IsBij
<1>. QED  BY <1>1, <1>2, <1>3, FS_Bijection DEF ExistsBijection

\* What has failed cannot come back to the track, and needs no place on it.
LEMMA TrackFails ==
    ASSUME pc' = "return", res' \in {"fatal", "retry"}, state' = "header"
    PROVE  Track'
BY DEF Track, Worked

LEMMA TrackReadsOn ==
    ASSUME TypeInv, UNCHANGED media, pc' = "header", state' = "header", NEW a \in 1 .. Len(Members), Reads(a + 1)'
    PROVE  Track'
<1>1. a + 1 \in 1 .. Len(Members') + 1
  <2>1. Len(Members) \in Nat /\ Members' = Members
    BY TapeIs, TapeStays DEF TypeInv, MediaOK
  <2>. QED  BY <2>1
<1>. QED  BY <1>1 DEF Track

\* The headers that a step of the reader reads.
LEMMA FileIsOnTrack ==
    ASSUME TypeInv, NEW a, Reads(a), ReadFile
    PROVE  IsOfFile(a, {})' /\ entry'.file = a /\ a \in Files
<1>1. PICK i \in Here :
        /\ Header(i) /\ i \in Files /\ Enters(i) /\ pos' = pos + Record
        /\ pax' = (pax /\ ~Members[i].gnu)
        /\ remaining' = IF SizeObeyed(i) THEN Members[i].size ELSE 0
        /\ padding' = PaddingOf(remaining') /\ Gives("ok") /\ entry' = [file |-> i, by |-> 0] /\ Kept
  BY DEF ReadFile
<1>2. i = a /\ a \in 1 .. Len(Members) /\ OnTape /\ pos \in Nat /\ Start(a) = pos /\ pos + Record <= Size
  BY <1>1, HereIsThere DEF TypeInv, MediaOK, Header, Shows, Reads, AtHeader
<1>3. Len(Members) \in Nat /\ DOMAIN Members = 1 .. Len(Members) /\ a \in Nat /\ a \in 1 .. Len(Members) + 1
  BY <1>2, TapeIs
<1>4. UNCHANGED media /\ UNCHANGED <<unconsumed, sparse_list, pending, entries>> /\ on_disk' = on_disk
  BY <1>1 DEF Kept, media
<1>5. ToSet(specials) = Specials(a) /\ Increasing(specials) /\ Specials(a) \subseteq 1 .. a - 1 /\ specials \in Seq(1 .. Len(Members))
  BY <1>2, <1>3, SpecialsAre DEF Reads, TypeInv, LevelsOK
<1>6. specials' = Append(specials, a)
  BY <1>1, <1>2 DEF Enters
<1>7. ToSet(specials') = Specials(a) \cup {a} /\ Increasing(specials')
  <2>1. ToSet(Append(specials, a)) = ToSet(specials) \cup {a} /\ Increasing(Append(specials, a))
    BY <1>3, <1>5, AppendIs
  <2>. QED  BY <1>5, <1>6, <2>1
<1>8. pax' <=> InPax(a + 1)
  <2>1. Flag(a) \notin {"pax", "global"}
    BY <1>1, <1>2, FlagsAre DEF FileFlags
  <2>. QED  BY <1>1, <1>2, <2>1, PaxGrows DEF Reads, AtHeader
<1>9. pending = "other" => Versions(a)
  <2>1. 1 .. a - 1 \subseteq 1 .. a
    BY <1>3
  <2>. QED  BY <2>1 DEF Reads, AtHeader, Versions
<1>10. SizeObeyed(a) <=> Flag(a) \in {"reg", "slash"} \/ (Flag(a) = "link" /\ InPax(a) /\ ~Members[a].gnu)
  BY DEF SizeObeyed, Reads, AtHeader
<1>11. remaining' = ToldByFile(a)
  BY <1>1, <1>2, <1>10 DEF ToldByFile
<1>12. ReadUpTo(a, Specials(a))' /\ a \in Files' /\ Start(a)' + Record <= Size' /\ unconsumed' = 0 /\ (~on_disk' => pos' <= Size')
  BY <1>1, <1>2, <1>4, ReadStays, TapeStays DEF Reads, AtHeader
<1>13. (pax <=> InPax(a + 1))' /\ (pending = "other" => Versions(a))'
  BY <1>4, <1>8, <1>9, TapeStays
<1>14. ToSet(specials)' \cup {} = Specials(a)' \cup {a} /\ Increasing(specials)' /\ \A j \in ToSet(specials)', k \in {} : j < k
  BY <1>4, <1>7, TapeStays DEF ToSet, Increasing
<1>15. entry'.by = FirstOrNone({}) /\ res' = "ok" /\ padding' = PaddingOf(remaining')
  BY <1>1 DEF FirstOrNone, Gives
<1>16. SizesOf(a, {})'
  <2>1. sparse_list' = <<>>
    BY <1>4 DEF Reads
  <2>2. pos' = Start(a)' + Record
    BY <1>1, <1>2, <1>4, TapeStays
  <2>3. remaining' = ToldByFile(a)'
    BY <1>4, <1>11, FileStays
  <2>. QED  BY <2>1, <2>2, <2>3 DEF SizesOf, SizesAre, SizeSoFar
<1>17. {j \in {} : Names(j)}' = {}
  OBVIOUS
<1>18. IsOfFile(a, {})'
  BY <1>12, <1>13, <1>14, <1>15, <1>16, <1>17 DEF IsOfFile, PaddingOf, Padded, FirstOrNone
<1>. QED  BY <1>1, <1>2, <1>18

LEMMA TrackReads ==
    ASSUME TypeInv, DepthInv, OnTrack, Track,
           HeaderBreaks \/ HeaderAtEnd \/ NullRecord \/ Damaged \/ TooManyHeaders
           \/ ReadSpecial \/ SpecialBreaks \/ ReadVolume \/ ReadFile
    PROVE  Track'
<1>0. pc = "header"
  BY DEF HeaderBreaks, HeaderAtEnd, NullRecord, Damaged, TooManyHeaders, ReadSpecial, SpecialBreaks, ReadVolume, ReadFile, Header, Reading
<1>1. UNCHANGED <<media, unconsumed, sparse_list, pending, entries>> /\ UNCHANGED media /\ state' = "header" /\ on_disk' = on_disk /\ concatenated' = concatenated /\ entry = NoEntry
  <2>1. Kept
    BY DEF HeaderBreaks, HeaderAtEnd, NullRecord, Damaged, TooManyHeaders, ReadSpecial, SpecialBreaks, ReadVolume, ReadFile, InHeader
  <2>. QED  BY <1>0, <2>1 DEF Kept, DepthInv, media
<1>2. PICK a \in 1 .. Len(Members) + 1 : Reads(a)
  BY <1>0 DEF Track
<1>3. OnTape /\ pos \in Nat /\ Start(a) = pos /\ ReadUpTo(a, Specials(a)) /\ ToSet(specials) = Specials(a) /\ (~on_disk => pos <= Size) /\ (pax <=> InPax(a))
  BY <1>2 DEF TypeInv, MediaOK, PlaceOK, Reads, AtHeader
<1>4. CASE HeaderBreaks \/ Damaged \/ SpecialBreaks
  <2>1. pc' = "return" /\ res' \in {"fatal", "retry"}
    BY <1>4 DEF HeaderBreaks, Damaged, SpecialBreaks, Gives
  <2>. QED  BY <1>1, <2>1, TrackFails
<1>5. ASSUME pc' = "return", res' = "eof", UNCHANGED specials,
             Start(a) >= Size \/ (~concatenated /\ a \in 1 .. Len(Members) /\ Flag(a) = "null")
      PROVE  Track'
  <2>1. ReadUpTo(a, ToSet(specials))'
    <3>1. ReadUpTo(a, Specials(a))'
      BY <1>1, <1>3, ReadStays, TapeStays
    <3>2. ToSet(specials)' = Specials(a)'
      BY <1>1, <1>3, <1>5, TapeStays DEF ToSet
    <3>. QED  BY <3>1, <3>2
  <2>2. Start(a)' = Start(a) /\ Size' = Size /\ Members' = Members /\ Flag(a)' = Flag(a)
    BY <1>1, TapeStays DEF Flag
  <2>3. EndsAt(a)'
    BY <1>1, <1>2, <1>3, <1>5, <2>1, <2>2 DEF EndsAt
  <2>4. a \in 1 .. Len(Members') + 1
    BY <2>2
  <2>. QED  BY <1>1, <1>5, <2>3, <2>4 DEF Track, Worked
<1>6. CASE HeaderAtEnd
  <2>1. CASE pos >= Size
    <3>1. pc' = "return" /\ res' = "eof" /\ UNCHANGED specials
      BY <1>6, <2>1 DEF HeaderAtEnd, Gives
    <3>. QED  BY <1>3, <1>5, <2>1, <3>1
  <2>2. CASE ~(pos >= Size)
    <3>1. pc' = "return" /\ res' = "fatal"
      BY <1>6, <2>2 DEF HeaderAtEnd, Gives
    <3>. QED  BY <1>1, <3>1, TrackFails
  <2>. QED  BY <2>1, <2>2
<1>7. CASE NullRecord
  <2>1. PICK i \in Here : Flag(i) = "null"
    BY <1>7 DEF NullRecord
  <2>2. i = a /\ a \in 1 .. Len(Members) /\ Start(a + 1) = pos + Record + Padded(Members[a].body) /\ Size \in Nat
    BY <1>2, HereIsThere
  <2>3. a \notin Files /\ Flag(a) = "null" /\ UNCHANGED specials
    BY <1>3, <1>7, <2>1, <2>2, FlagsAre DEF NullRecord
  <2>4. CASE concatenated
    <3>1. pos' = pos + Record /\ pc' = "header" /\ pos + Record <= Size /\ pax' = pax
      BY <1>0, <1>7, <2>4 DEF NullRecord, Shows
    <3>2. Members[a].body = 0
      BY <1>3, <2>2, <2>3, TapeIs DEF OnTrack, Orderly
    <3>3. Start(a + 1) = pos + Record
      BY <1>3, <2>2, <3>2, PaddedZero, RecordIs
    <3>4. pax' <=> InPax(a + 1)
      BY <1>3, <2>2, <2>3, <3>1, PaxGrows
    <3>5. Reads(a + 1)'
      BY <1>1, <1>2, <2>2, <2>3, <2>4, <3>1, <3>3, <3>4, ReadsOn
    <3>. QED  BY <1>1, <2>2, <3>1, <3>5, TrackReadsOn
  <2>5. CASE ~concatenated
    <3>1. pc' = "return" /\ res' = "eof"
      BY <1>7, <2>5 DEF NullRecord, Gives
    <3>. QED  BY <1>5, <2>2, <2>3, <2>5, <3>1
  <2>. QED  BY <2>4, <2>5
<1>8. CASE ReadVolume
  <2>1. PICK i \in Here : Header(i) /\ Flag(i) = "volume" /\ Enters(i) /\ pos' = pos + Record /\ UNCHANGED <<pax, pc>>
    BY <1>8 DEF ReadVolume
  <2>2. i = a /\ a \in 1 .. Len(Members) /\ Start(a + 1) = pos + Record + Padded(Members[a].body) /\ Size \in Nat
    BY <1>2, HereIsThere
  <2>3. a \notin Files /\ Flag(a) \in SpecialFlags /\ specials' = Append(specials, a)
    BY <1>3, <2>1, <2>2, FlagsAre DEF SpecialFlags, Enters
  <2>4. Members[a].body = 0
    BY <1>3, <2>1, <2>2, TapeIs DEF OnTrack, Orderly
  <2>5. Start(a + 1) = pos + Record
    BY <1>3, <2>2, <2>4, PaddedZero, RecordIs
  <2>6. pax' <=> InPax(a + 1)
    BY <1>3, <2>1, <2>2, <2>3, PaxGrows
  <2>7. pos' <= Size
    BY <2>1 DEF Header, Shows
  <2>8. Reads(a + 1)'
    BY <1>1, <1>2, <2>1, <2>2, <2>3, <2>5, <2>6, <2>7, ReadsOn
  <2>. QED  BY <1>0, <1>1, <2>1, <2>2, <2>8, TrackReadsOn
<1>9. CASE ReadSpecial
  <2>1. PICK i \in Here :
        /\ Header(i) /\ Flag(i) \in StringFlags
        /\ Enters(i)
        /\ pax' = (pax \/ Flag(i) \in {"pax", "global"})
        /\ IF Members[i].size > BodyLimit \/ pos + Record + Padded(Members[i].size) > Size
           THEN pos' = pos + Record /\ Gives("fatal")
           ELSE pos' = pos + Record + Padded(Members[i].size) /\ UNCHANGED <<pc, res>>
    BY <1>9 DEF ReadSpecial
  <2>2. i = a /\ a \in 1 .. Len(Members) /\ Start(a + 1) = pos + Record + Padded(Members[a].body) /\ Size \in Nat /\ Padded(Members[a].body) \in Nat
    BY <1>2, HereIsThere
  <2>3. a \notin Files /\ Flag(a) \in SpecialFlags /\ specials' = Append(specials, a)
    BY <1>3, <2>1, <2>2, FlagsAre DEF SpecialFlags, Enters
  <2>4. Members[a].body = Members[a].size
    BY <1>3, <2>1, <2>2, TapeIs DEF OnTrack, Orderly
  <2>5. CASE Members[i].size > BodyLimit \/ pos + Record + Padded(Members[i].size) > Size
    <3>1. pc' = "return" /\ res' = "fatal"
      BY <2>1, <2>5 DEF Gives
    <3>. QED  BY <1>1, <3>1, TrackFails
  <2>6. CASE ~(Members[i].size > BodyLimit \/ pos + Record + Padded(Members[i].size) > Size)
    <3>1. pos' = Start(a + 1) /\ pc' = "header"
      BY <1>0, <2>1, <2>2, <2>4, <2>6
    <3>2. pos' <= Size
      <4>1. PICK x \in Nat : x = Padded(Members[a].body)
        BY <2>2
      <4>2. ~(pos + Record + Padded(Members[i].size) > Size)
        BY <2>6
      <4>3. Padded(Members[i].size) = x
        BY <2>2, <2>4, <4>1
      <4>4. ~(pos + Record + x > Size)
        BY <4>2, <4>3
      <4>5. pos + Record + x <= Size
        BY <1>3, <2>2, <4>4, RecordIs
      <4>. QED  BY <2>2, <3>1, <4>1, <4>5
    <3>3. pax' <=> InPax(a + 1)
      BY <1>3, <2>1, <2>2, <2>3, PaxGrows
    <3>4. Reads(a + 1)'
      BY <1>1, <1>2, <2>2, <2>3, <3>1, <3>2, <3>3, ReadsOn
    <3>. QED  BY <1>1, <2>2, <3>1, <3>4, TrackReadsOn
  <2>. QED  BY <2>5, <2>6
<1>10. CASE TooManyHeaders
  <2>1. pc' = "return" /\ res' = "warn" /\ entry' = NoEntry /\ depth >= MaxDepth /\ pos' = pos + Record /\ \E i \in Here : Header(i)
    BY <1>1, <1>10 DEF TooManyHeaders, Gives, InHeader, TooDeep
  <2>2. a \in 1 .. Len(Members)
    BY <1>2, <2>1, HereIsThere
  <2>3. Cardinality(Specials(a)) >= MaxDepth
    <3>1. depth = Zeros + Len(specials)
      BY <1>0 DEF DepthInv
    <3>2. Zeros = 0
      <4>1. \A k \in DOMAIN entries : entries[k].file > 0
        BY DEF OnTrack, ToSet
      <4>2. ZerosOf(entries) = {}
        BY <4>1 DEF ZerosOf
      <4>. QED  BY <4>2, FS_EmptySet DEF Zeros
    <3>3. Cardinality(ToSet(specials)) = Len(specials) /\ Len(specials) \in Nat
      <4>1. specials \in Seq(DOMAIN Members) /\ Increasing(specials)
        BY <1>2 DEF TypeInv, LevelsOK, Reads
      <4>2. DOMAIN Members = 1 .. Len(Members) /\ Len(Members) \in Nat
        BY <1>3, TapeIs
      <4>. QED  BY <4>1, <4>2, IncreasingCounts
    <3>. QED  BY <1>3, <2>1, <3>1, <3>2, <3>3, RecordIs
  <2>4. Start(a)' = Start(a) /\ Specials(a)' = Specials(a) /\ FilesBefore(a)' = FilesBefore(a) /\ Members' = Members
    BY <1>1, TapeStays
  <2>5. Cardinality(FilesBefore(a)) = Len(entries)
    BY <1>3 DEF ReadUpTo, ReadIn
  <2>6. Start(a) + Record <= pos + Record
    BY <1>3, RecordIs
  <2>7. TooManyBefore(a)'
    BY <1>1, <2>1, <2>3, <2>4, <2>5, <2>6 DEF TooManyBefore
  <2>. QED  BY <1>1, <2>1, <2>2, <2>4, <2>7 DEF Track, NoEntry
<1>11. CASE ReadFile
  <2>1. IsOfFile(a, {})' /\ entry'.file = a /\ a \in Files
    BY <1>2, <1>11, FileIsOnTrack
  <2>2. pc' = "return" /\ res' = "ok"
    BY <1>11 DEF ReadFile, Gives
  <2>3. {} \in SUBSET (Specials(entry.file) \cup {entry.file})'
    OBVIOUS
  <2>. QED  BY <1>1, <2>1, <2>2, <2>3 DEF Track
<1>. QED  BY <1>4, <1>6, <1>7, <1>8, <1>9, <1>10, <1>11

-----------------------------------------------------------------------------
(* The way back. *)

LEMMA FirstIs ==
    ASSUME NEW S, S \subseteq Nat, NEW i \in S, \A k \in S : i <= k
    PROVE  First(S) = i
<1>1. First(S) \in S /\ \A k \in S : First(S) <= k
  BY FirstOf
<1>2. First(S) <= i /\ i <= First(S) /\ First(S) \in Nat /\ i \in Nat
  BY <1>1
<1>. QED  BY <1>2

\* The innermost header is behind the others, and in front of those that have returned.
LEMMA StackIs ==
    ASSUME TypeInv, specials # <<>>, NEW f, NEW done, IsOfFile(f, done)
    PROVE  /\ Inner \in 1 .. Len(Members) /\ Inner \in Specials(f) \cup {f} /\ Inner <= f
           /\ ToSet(specials) = ToSet(Front(specials)) \cup {Inner} /\ Increasing(Front(specials))
           /\ \A j \in ToSet(Front(specials)) : j < Inner
           /\ \A k \in done : Inner < k
           /\ Inner \notin done /\ done \subseteq 1 .. Len(Members)
           /\ f \in 1 .. Len(Members) /\ f \in Files /\ OnTape /\ f \in 1 .. Len(Members) + 1
<1>1. OnTape /\ f \in Files /\ f \in 1 .. Len(Members) /\ f \in 1 .. Len(Members) + 1
  BY FilesAreMembers DEF IsOfFile, TypeInv, MediaOK
<1>2. Len(Members) \in Nat /\ DOMAIN Members = 1 .. Len(Members) /\ f \in Nat
  BY <1>1, TapeIs
<1>3. specials \in Seq(1 .. Len(Members))
  BY <1>2 DEF TypeInv, LevelsOK
<1>4. PICK i, s : i = Inner /\ s = Front(specials)
  OBVIOUS
<1>5. PICK n : n = Len(specials)
  OBVIOUS
<1>6. n \in Nat /\ n > 0 /\ Len(s) = n - 1 /\ i = specials[n] /\ i \in 1 .. Len(Members) /\ s \in Seq(1 .. Len(Members)) /\ \A j \in 1 .. n - 1 : s[j] = specials[j]
  BY <1>3, <1>4, <1>5, FrontIs DEF Inner
<1>7. DOMAIN specials = 1 .. n /\ DOMAIN s = 1 .. n - 1
  BY <1>3, <1>5, <1>6
<1>8. \A j : j \in 1 .. n <=> j \in 1 .. n - 1 \/ j = n
  BY <1>6
<1>9. ToSet(specials) = ToSet(s) \cup {i} /\ i \in ToSet(specials)
  BY <1>6, <1>7, <1>8 DEF ToSet
<1>10. Increasing(specials) /\ ToSet(specials) \cup done = Specials(f) \cup {f} /\ \A j \in ToSet(specials), k \in done : j < k
  BY DEF IsOfFile
<1>11. \A j, k \in 1 .. n - 1 : j \in 1 .. n /\ k \in 1 .. n /\ n \in 1 .. n /\ j < n
  BY <1>6
<1>12. Increasing(s) /\ \A j \in ToSet(s) : j < i
  <2>1. \A j \in 1 .. n - 1 : s[j] < i
    BY <1>5, <1>6, <1>10, <1>11 DEF Increasing
  <2>2. Increasing(s)
    BY <1>5, <1>6, <1>10, <1>11 DEF Increasing
  <2>. QED  BY <1>7, <2>1, <2>2 DEF ToSet
<1>13. Specials(f) \subseteq 1 .. Len(Members) /\ Specials(f) \subseteq 1 .. f - 1
  BY <1>1, SpecialsAre
<1>14. i \in Specials(f) \cup {f} /\ done \subseteq 1 .. Len(Members)
  BY <1>1, <1>9, <1>10, <1>13
<1>15. i <= f
  BY <1>2, <1>13, <1>14
<1>16. i \notin done
  <2>1. i \in Nat /\ ~(i < i)
    BY <1>2, <1>6
  <2>. QED  BY <1>9, <1>10, <2>1
<1>. QED  BY <1>1, <1>4, <1>6, <1>9, <1>10, <1>12, <1>14, <1>15, <1>16

\* The innermost header has the last word on what it names or resizes.
LEMMA OneMoreIs ==
    ASSUME OnTape, NEW f \in 1 .. Len(Members), NEW done \in SUBSET (1 .. Len(Members)), NEW i \in 1 .. Len(Members), \A k \in done : i < k
    PROVE  /\ SizeSoFar(f, done \cup {i}) = IF i \in Resizing(f) THEN Members[i].resize ELSE SizeSoFar(f, done)
           /\ FirstOrNone({j \in done \cup {i} : Names(j)}) = IF Names(i) THEN i ELSE FirstOrNone({j \in done : Names(j)})
<1>1. 1 .. Len(Members) \subseteq Nat /\ i \in Nat /\ done \subseteq Nat
  BY TapeIs
<1>2. \A k \in done \cup {i} : i <= k
  BY <1>1
<1>3. ASSUME i \in Resizing(f) PROVE SizeSoFar(f, done \cup {i}) = Members[i].resize
  <2>1. First(Resizing(f) \cap (done \cup {i})) = i
    BY <1>1, <1>2, <1>3, FirstIs
  <2>. QED  BY <1>3, <2>1 DEF SizeSoFar
<1>4. ASSUME i \notin Resizing(f) PROVE SizeSoFar(f, done \cup {i}) = SizeSoFar(f, done)
  <2>1. Resizing(f) \cap (done \cup {i}) = Resizing(f) \cap done
    BY <1>4
  <2>. QED  BY <2>1 DEF SizeSoFar
<1>5. ASSUME Names(i) PROVE FirstOrNone({j \in done \cup {i} : Names(j)}) = i
  <2>1. i \in {j \in done \cup {i} : Names(j)} /\ {j \in done \cup {i} : Names(j)} \subseteq Nat /\ \A k \in {j \in done \cup {i} : Names(j)} : i <= k
    BY <1>1, <1>2, <1>5
  <2>2. First({j \in done \cup {i} : Names(j)}) = i
    BY <2>1, FirstIs
  <2>. QED  BY <2>1, <2>2 DEF FirstOrNone
<1>6. ASSUME ~Names(i) PROVE FirstOrNone({j \in done \cup {i} : Names(j)}) = FirstOrNone({j \in done : Names(j)})
  <2>1. {j \in done \cup {i} : Names(j)} = {j \in done : Names(j)}
    BY <1>6
  <2>. QED  BY <2>1
<1>. QED  BY <1>3, <1>4, <1>5, <1>6

\* Attributes that are applied are attributes for the file.
LEMMA AppliesTo ==
    ASSUME TypeInv, NEW f, NEW done, IsOfFile(f, done), specials # <<>>, pc = "return", Worked
    PROVE  /\ Applies <=> Inner \in Attributed(f)
           /\ Inner \in Resizing(f) <=> Applies /\ Attributes.resize >= 0
           /\ Inner \in Mapping(f) <=> Applies /\ (Attributes.version = "1.0" \/ Attributes.map # <<>>)
           /\ Inner \in Malformed(f) <=> Applies /\ Attributes.malformed
<1>1. Inner \in Specials(f) \cup {f} /\ f \in Files /\ OnTape /\ f \in 1 .. Len(Members)
  BY StackIs
<1>2. Flag(f) # "pax"
  BY <1>1, FlagsAre DEF FileFlags
<1>3. Applies <=> Flag(Inner) = "pax"
  BY DEF Applies
<1>4. Applies <=> Inner \in Attributed(f)
  BY <1>1, <1>2, <1>3 DEF Attributed
<1>. QED  BY <1>4 DEF Resizing, Mapping, Malformed, Attributes

LEMMA SizesStay ==
    ASSUME UNCHANGED media, NEW f, NEW done, NEW list, NEW at, NEW left, SizesAre(f, done, list, at, left),
           sparse_list' = list, pos' = at, remaining' = left
    PROVE  SizesOf(f, done)'
<1>1. /\ Mapping(f)' = Mapping(f) /\ Resizing(f)' = Resizing(f) /\ ToldByFile(f)' = ToldByFile(f) /\ Data(f)' = Data(f)
      /\ Start(f)' = Start(f) /\ Members' = Members
  BY FileStays, TapeStays
<1>2. SizeSoFar(f, done)' = SizeSoFar(f, done)
  BY <1>1 DEF SizeSoFar
<1>3. \A m : Padded(m)' = Padded(m)
  BY DEF Padded
<1>4. SizesAre(f, done, list, at, left)' <=> SizesAre(f, done, list, at, left)
  BY <1>1, <1>2, <1>3 DEF SizesAre
<1>. QED  BY <1>4 DEF SizesOf

\* Only one header maps the file, and its map is the one of the data.
LEMMA OneMap ==
    ASSUME OnTape, NEW f \in 1 .. Len(Members), Truthful(f), NEW i \in Mapping(f)
    PROVE  /\ Data(f) = DataOf(f, Members[i])
           /\ \A j \in Mapping(f) : j = i
           /\ Members[i].version = "1.0" => \A k \in Resizing(f) : i <= k
<1>1. \A j, k \in Mapping(f) : j = k
  BY DEF Truthful
<1>2. First(Mapping(f)) = i
  BY <1>1, MappingIs
<1>3. \A j \in Mapping(f), k \in Resizing(f) : Members[j].version = "1.0" => j <= k
  BY DEF Truthful
<1>. QED  BY <1>1, <1>2, <1>3 DEF Data

LEMMA SizesReturn ==
    ASSUME TypeInv, NEW f, NEW done, IsOfFile(f, done), Truthful(f), LevelReturns, NEW i, i = Inner
    PROVE  SizesOf(f, done \cup {i})'
<1>1. Leaves /\ specials # <<>> /\ pc = "return" /\ Worked /\ UNCHANGED media /\ NowPending # "1.0"
      /\ sparse_list' = NowSparse /\ remaining' = NowRemaining /\ pos' = pos
  BY DEF LevelReturns, Leaves
<1>2. /\ i \in 1 .. Len(Members) /\ i \notin done /\ done \subseteq 1 .. Len(Members) /\ f \in 1 .. Len(Members) /\ OnTape
      /\ \A k \in done : i < k
  BY <1>1, StackIs
<1>3. /\ Applies <=> i \in Attributed(f)
      /\ i \in Resizing(f) <=> Applies /\ Members[i].resize >= 0
      /\ i \in Mapping(f) <=> Applies /\ (Members[i].version = "1.0" \/ Members[i].map # <<>>)
  BY <1>1, AppliesTo DEF Attributes
<1>4. SizesAre(f, done, sparse_list, pos, remaining)
  BY DEF IsOfFile, SizesOf
<1>5. NowRemaining = IF i \in Resizing(f) THEN Members[i].resize ELSE remaining
  BY <1>3 DEF NowRemaining, Attributes
<1>6. NowSparse = IF Applies THEN sparse_list \o Members[i].map ELSE sparse_list
  BY DEF NowSparse, Attributes
<1>7. SizeSoFar(f, done \cup {i}) = IF i \in Resizing(f) THEN Members[i].resize ELSE SizeSoFar(f, done)
  BY <1>2, OneMoreIs
<1>8. sparse_list \in Map /\ Members[i].map \in Map
  BY <1>2, MemberIs DEF TypeInv, DataOK
<1>9. sparse_list \o <<>> = sparse_list /\ <<>> \o Members[i].map = Members[i].map
  BY <1>8, ConcatEmptySeq DEF Map
<1>10. SizesAre(f, done \cup {i}, NowSparse, pos, NowRemaining)
  <2>1. CASE i \in Mapping(f)
    <3>1. \A j \in Mapping(f) : j = i
      BY <1>2, <2>1, OneMap
    <3>2. Mapping(f) \cap done = {} /\ Mapping(f) \cap (done \cup {i}) = {i}
      BY <1>2, <2>1, <3>1
    <3>3. sparse_list = <<>> /\ pos = Start(f) + Record /\ remaining = SizeSoFar(f, done)
      BY <1>4, <3>2 DEF SizesAre
    <3>4. Members[i].version # "1.0"
      BY <1>1, <1>3, <2>1 DEF NowPending, Attributes
    <3>5. Data(f).pieces = Members[i].map
      BY <1>2, <2>1, <3>4, OneMap DEF DataOf
    <3>6. NowSparse = Data(f).pieces
      BY <1>3, <1>6, <1>9, <2>1, <3>3, <3>5
    <3>7. NowRemaining = SizeSoFar(f, done \cup {i})
      BY <1>5, <1>7, <3>3
    <3>. QED  BY <3>2, <3>3, <3>4, <3>6, <3>7 DEF SizesAre
  <2>2. CASE i \notin Mapping(f)
    <3>1. Mapping(f) \cap (done \cup {i}) = Mapping(f) \cap done
      BY <2>2
    <3>2. NowSparse = sparse_list
      BY <1>3, <1>6, <1>9, <2>2
    <3>3. CASE \A j \in Mapping(f) \cap done : Members[j].version # "1.0"
      <4>1. pos = Start(f) + Record /\ remaining = SizeSoFar(f, done)
        BY <1>4, <3>3 DEF SizesAre
      <4>2. NowRemaining = SizeSoFar(f, done \cup {i})
        BY <1>5, <1>7, <4>1
      <4>. QED  BY <1>4, <3>1, <3>2, <3>3, <4>1, <4>2 DEF SizesAre
    <3>4. CASE \E j \in Mapping(f) \cap done : Members[j].version = "1.0"
      <4>1. PICK j \in Mapping(f) \cap done : Members[j].version = "1.0"
        BY <3>4
      <4>2. \A k \in Resizing(f) : j <= k
        BY <1>2, <4>1, OneMap
      <4>3. i < j /\ j \in Nat /\ i \in Nat
        <5>1. Len(Members) \in Nat
          BY <1>2, TapeIs
        <5>2. j \in done /\ i < j
          BY <1>2, <4>1
        <5>3. j \in 1 .. Len(Members)
          BY <1>2, <5>2
        <5>. QED  BY <1>2, <5>1, <5>2, <5>3
      <4>4. ~(j <= i)
        BY <4>3
      <4>5. i \notin Resizing(f)
        BY <4>2, <4>4
      <4>6. NowRemaining = remaining
        BY <1>5, <4>5
      <4>. QED  BY <1>4, <3>1, <3>2, <3>4, <4>6 DEF SizesAre
    <3>. QED  BY <3>3, <3>4
  <2>. QED  BY <2>1, <2>2
<1>11. PICK list, left : list = NowSparse /\ left = NowRemaining
  OBVIOUS
<1>12. PICK at : at = pos
  OBVIOUS
<1>13. sparse_list' = list /\ pos' = at /\ remaining' = left /\ SizesAre(f, done \cup {i}, list, at, left)
  BY <1>1, <1>10, <1>11, <1>12
<1>. QED  BY <1>1, <1>13, SizesStay

\* A map at the front of the data is there, and read, and behind it begins the data.
LEMMA SizesMap ==
    ASSUME TypeInv, NEW f, NEW done, IsOfFile(f, done), Truthful(f), ReadMap, MapIsRead, NEW i, i = Inner
    PROVE  SizesOf(f, done \cup {i})'
<1>1. specials # <<>> /\ pc = "return" /\ Worked /\ UNCHANGED media /\ NowPending = "1.0"
  BY ReadMapIs DEF Leaves
<1>2. /\ i \in 1 .. Len(Members) /\ i \notin done /\ done \subseteq 1 .. Len(Members) /\ f \in 1 .. Len(Members) /\ OnTape
      /\ \A k \in done : i < k
      /\ ToSet(specials) = ToSet(Front(specials)) \cup {i} /\ \A j \in ToSet(Front(specials)) : j < i
  BY <1>1, StackIs
<1>3. Applies /\ Members[i].version = "1.0"
  BY <1>1 DEF NowPending, TypeInv, DataOK, Attributes
<1>4. i \in Mapping(f) /\ (i \in Resizing(f) <=> Members[i].resize >= 0)
  BY <1>1, <1>3, AppliesTo DEF Attributes
<1>5. SizesAre(f, done, sparse_list, pos, remaining)
  BY DEF IsOfFile, SizesOf
<1>6. (\A j \in Mapping(f) : j = i) /\ (\A k \in Resizing(f) : i <= k) /\ Data(f).pieces = Members[i].inner
  BY <1>2, <1>3, <1>4, OneMap DEF DataOf
<1>7. Mapping(f) \cap done = {} /\ Mapping(f) \cap (done \cup {i}) = {i}
  BY <1>2, <1>4, <1>6
<1>8. pos = Start(f) + Record /\ remaining = SizeSoFar(f, done)
  BY <1>5, <1>7 DEF SizesAre
<1>9. SizeSoFar(f, done \cup {i}) = IF i \in Resizing(f) THEN Members[i].resize ELSE SizeSoFar(f, done)
  BY <1>2, OneMoreIs
<1>10. NowRemaining = SizeSoFar(f, done \cup {i})
  BY <1>3, <1>4, <1>8, <1>9 DEF NowRemaining, Attributes
<1>11. Resizing(f) \cap (done \cup {i}) = Resizing(f)
  <2>1. ASSUME NEW k \in Resizing(f), k \notin done PROVE k = i
    <3>1. Resizing(f) \subseteq Specials(f) /\ Specials(f) \cup {f} = ToSet(specials) \cup done
      BY DEF Resizing, Attributed, IsOfFile
    <3>2. k \in ToSet(Front(specials)) \cup {i}
      BY <1>2, <2>1, <3>1
    <3>3. k \in Nat /\ i \in Nat /\ i <= k
      BY <1>2, <1>6, MappingIs, TapeIs
    <3>4. ~(k < i)
      BY <3>3
    <3>. QED  BY <1>2, <3>2, <3>4
  <2>. QED  BY <2>1
<1>12. NowRemaining = Members[f].body
  BY <1>10, <1>11 DEF SizeSoFar, Truthful, Told
<1>13. PICK l, m : l = MapLength /\ m = Members[i].mapsize
  OBVIOUS
<1>14. NowRemaining \in Nat /\ l \in Nat /\ m \in Nat /\ l >= m /\ l = Padded(Members[i].mapsize) /\ pos \in Nat /\ NowRemaining >= l
  BY <1>1, <1>13, NowTypes DEF MapLength, Attributes, MapIsRead, TypeInv, PlaceOK
<1>15. sparse_list' = Members[i].inner /\ pos' = (pos + m) + (l - m) /\ remaining' = NowRemaining - l
  BY <1>13 DEF MapIsRead, Passes, Attributes
<1>16. (pos + m) + (l - m) = pos + l
  BY <1>14
<1>17. NowRemaining - l + l = NowRemaining
  BY <1>14
<1>18. SizesAre(f, done \cup {i}, Members[i].inner, pos + l, NowRemaining - l)
  <2>1. \A j \in Mapping(f) \cap (done \cup {i}) : j = i
    BY <1>7
  <2>. QED  BY <1>3, <1>6, <1>7, <1>8, <1>12, <1>14, <1>17, <2>1 DEF SizesAre
<1>19. PICK list, left : list = Members[i].inner /\ left = NowRemaining - l
  OBVIOUS
<1>20. PICK at : at = pos + l
  OBVIOUS
<1>21. sparse_list' = list /\ pos' = at /\ remaining' = left /\ SizesAre(f, done \cup {i}, list, at, left)
  BY <1>15, <1>16, <1>18, <1>19, <1>20
<1>. QED  BY <1>1, <1>21, SizesStay

\* The header returns: it is done, and the others go on to wait.
LEMMA FileReturns ==
    ASSUME TypeInv, NEW f, NEW done, IsOfFile(f, done), Leaves, Worked, NEW i, i = Inner,
           entry'.by = Named, padding' = PaddingOf(remaining'), ~on_disk => pos' <= Size,
           pending' = "other" => Versions(f), res' = "warn" => Malformed(f) # {} \/ Versions(f),
           Truthful(f) => SizesOf(f, done \cup {i})'
    PROVE  IsOfFile(f, done \cup {i})' /\ done \cup {i} \in SUBSET (Specials(f) \cup {f})
<1>1. UNCHANGED media /\ UNCHANGED <<pax, unconsumed, entries>> /\ specials' = Front(specials) /\ specials # <<>> /\ on_disk' = on_disk
  BY DEF Leaves, media
<1>2. /\ i \in 1 .. Len(Members) /\ i \in Specials(f) \cup {f}
      /\ ToSet(specials) = ToSet(Front(specials)) \cup {i} /\ Increasing(Front(specials))
      /\ \A j \in ToSet(Front(specials)) : j < i
      /\ \A k \in done : i < k
      /\ done \subseteq 1 .. Len(Members) /\ f \in Files /\ f \in 1 .. Len(Members) /\ OnTape
  BY <1>1, StackIs
<1>3. ToSet(specials) \cup done = Specials(f) \cup {f} /\ \A j \in ToSet(specials), k \in done : j < k
  BY DEF IsOfFile
<1>4. ToSet(Front(specials)) \cup (done \cup {i}) = Specials(f) \cup {f}
  BY <1>2, <1>3
<1>5. \A j \in ToSet(Front(specials)), k \in done \cup {i} : j < k
  BY <1>2, <1>3
<1>6. Named = FirstOrNone({j \in done \cup {i} : Names(j)})
  <2>1. entry.by = FirstOrNone({j \in done : Names(j)})
    BY DEF IsOfFile
  <2>2. FirstOrNone({j \in done \cup {i} : Names(j)}) = IF Names(i) THEN i ELSE FirstOrNone({j \in done : Names(j)})
    BY <1>2, OneMoreIs
  <2>. QED  BY <2>1, <2>2 DEF Named
<1>7. f \in Files' /\ ReadUpTo(f, Specials(f))' /\ unconsumed' = 0 /\ Start(f)' + Record <= Size' /\ (~on_disk' => pos' <= Size')
  BY <1>1, ReadStays, TapeStays DEF IsOfFile
<1>8. (pax <=> InPax(f + 1))' /\ (pending = "other" => Versions(f))' /\ (res = "warn" => Malformed(f) # {} \/ Versions(f))'
  BY <1>1, TapeStays, FileStays DEF IsOfFile
<1>9. ToSet(specials)' = ToSet(Front(specials)) /\ Specials(f)' = Specials(f) /\ Increasing(specials)'
  BY <1>1, <1>2, TapeStays DEF ToSet, Increasing
<1>10. (ToSet(specials) \cup (done \cup {i}) = Specials(f) \cup {f})' /\ (\A j \in ToSet(specials), k \in done \cup {i} : j < k)'
  BY <1>4, <1>5, <1>9
<1>11. (entry.by = FirstOrNone({j \in done \cup {i} : Names(j)}))'
  <2>1. \A j : Names(j)' <=> Names(j)
    BY <1>1 DEF Names, Flag, Members, media
  <2>2. {j \in done \cup {i} : Names(j)}' = {j \in done \cup {i} : Names(j)}
    BY <2>1
  <2>. QED  BY <1>6, <2>2 DEF FirstOrNone, First
<1>12. (padding = PaddingOf(remaining))'
  BY DEF PaddingOf, Padded
<1>13. (Truthful(f) => SizesOf(f, done \cup {i}))'
  BY <1>1, FileStays
<1>14. IsOfFile(f, done \cup {i})'
  BY <1>7, <1>8, <1>9, <1>10, <1>11, <1>12, <1>13 DEF IsOfFile
<1>. QED  BY <1>2, <1>3, <1>14

\* A header that returns in a row of too many.
LEMMA TooManyReturn ==
    ASSUME TypeInv, NEW i \in 1 .. Len(Members), TooManyBefore(i), UNCHANGED <<media, entries>>, pos' \in Nat, pos <= pos'
    PROVE  TooManyBefore(i)'
<1>1. UNCHANGED media /\ entries' = entries
  OBVIOUS
<1>2. OnTape /\ pos \in Nat
  BY DEF TypeInv, MediaOK, PlaceOK
<1>3. i \in 1 .. Len(Members) + 1
  BY <1>2, TapeIs
<1>4. Start(i) + Record <= pos'
  <2>1. PICK s \in Nat : s = Start(i)
    BY <1>2, <1>3, StartIsNat
  <2>2. s + Record <= pos
    BY <2>1 DEF TooManyBefore
  <2>3. s + Record <= pos'
    BY <1>2, <2>2, RecordIs
  <2>. QED  BY <2>1, <2>3
<1>5. (Start(i) + Record <= pos)'
  BY <1>1, <1>4, TapeStays
<1>. QED  BY <1>1, <1>5, TapeStays DEF TooManyBefore

LEMMA TrackFailsLeaves == ASSUME TypeInv, DepthInv, Track, LevelFails PROVE Track'
<1>1. Leaves /\ ~Worked /\ specials # <<>> /\ UNCHANGED media /\ UNCHANGED <<entries, state>> /\ pc = "return" /\ pc' = "return"
      /\ specials' = Front(specials) /\ res' = (IF res = "eof" /\ EofAllowed THEN "eof" ELSE "fatal")
  BY DEF LevelFails, Leaves, Gives
<1>2. state' = "header" /\ concatenated' = concatenated /\ on_disk' = on_disk
  BY <1>1 DEF DepthInv, media
<1>3. CASE res' = "fatal"
  BY <1>1, <1>2, <1>3, TrackFails
<1>4. CASE res' # "fatal"
  <2>1. res = "eof" /\ Flag(Inner) \in {"global", "volume"} /\ res' = "eof"
    BY <1>1, <1>4 DEF EofAllowed
  <2>2. PICK a \in 1 .. Len(Members) + 1 : EndsAt(a)
    BY <1>1, <2>1 DEF Track
  <2>3. ToSet(specials) = ToSet(Front(specials)) \cup {Inner}
    <3>1. OnTape /\ specials \in Seq(DOMAIN Members)
      BY DEF TypeInv, MediaOK, LevelsOK
    <3>2. PICK n : n = Len(specials)
      OBVIOUS
    <3>3. PICK s, i : s = Front(specials) /\ i = Inner
      OBVIOUS
    <3>4. n \in Nat /\ n > 0 /\ Len(s) = n - 1 /\ i = specials[n] /\ s \in Seq(DOMAIN Members) /\ \A j \in 1 .. n - 1 : s[j] = specials[j]
      BY <1>1, <3>1, <3>2, <3>3, FrontIs DEF Inner
    <3>5. DOMAIN specials = 1 .. n /\ DOMAIN s = 1 .. n - 1
      BY <3>1, <3>2, <3>4
    <3>6. \A j : j \in 1 .. n <=> j \in 1 .. n - 1 \/ j = n
      BY <3>4
    <3>7. ToSet(specials) = ToSet(s) \cup {i}
      BY <3>4, <3>5, <3>6 DEF ToSet
    <3>. QED  BY <3>3, <3>7
  <2>4. ~Wanting(Inner)
    BY <2>1 DEF Wanting
  <2>5. ReadUpTo(a, ToSet(Front(specials)))
    BY <2>2, <2>3, <2>4 DEF EndsAt, ReadUpTo, ReadIn
  <2>6. ReadUpTo(a, ToSet(specials))'
    <3>1. ToSet(specials)' = ToSet(Front(specials))
      BY <1>1 DEF ToSet
    <3>2. PICK h : h = ToSet(Front(specials))
      OBVIOUS
    <3>3. ReadUpTo(a, h)'
      BY <1>1, <2>5, <3>2, ReadStays
    <3>4. ToSet(specials)' = h
      BY <3>1, <3>2
    <3>. QED  BY <3>3, <3>4
  <2>7. EndsAt(a)'
    <3>1. Start(a)' = Start(a) /\ Size' = Size /\ Members' = Members /\ Flag(a)' = Flag(a)
      BY <1>1, TapeStays DEF Flag
    <3>. QED  BY <1>2, <2>2, <2>6, <3>1 DEF EndsAt
  <2>8. a \in 1 .. Len(Members') + 1
    BY <1>1, TapeStays
  <2>. QED  BY <1>1, <1>2, <2>1, <2>7, <2>8 DEF Track, Worked
<1>. QED  BY <1>3, <1>4

LEMMA TrackLeaves ==
    ASSUME TypeInv, DepthInv, OnTrack, Track, LevelReturns \/ ReadMap, TypeInv'
    PROVE  Track'
<1>1. Leaves /\ Worked /\ specials # <<>> /\ UNCHANGED <<media, entries>> /\ UNCHANGED media /\ pc = "return" /\ pc' = "return"
      /\ state' = "header" /\ entry' = [entry EXCEPT !.by = Named] /\ entry \in EntryType
  <2>1. Leaves /\ Worked /\ pc' = "return" /\ entry' = [entry EXCEPT !.by = Named]
    <3>1. ASSUME ReadMap PROVE pc' = "return" /\ Leaves /\ Worked /\ entry' = [entry EXCEPT !.by = Named]
      BY <3>1, ReadMapIs DEF MapFails, MapIsRead, Gives
    <3>2. ASSUME LevelReturns PROVE pc' = "return" /\ Leaves /\ Worked /\ entry' = [entry EXCEPT !.by = Named]
      BY <3>2 DEF LevelReturns, Gives
    <3>. QED  BY <3>1, <3>2
  <2>. QED  BY <2>1 DEF Leaves, DepthInv, TypeInv, HistoryOK
<1>2. entry'.file = entry.file /\ entry'.by = Named
  BY <1>1 DEF EntryType
<1>3. NowRemaining \in Nat /\ MapLength \in Nat /\ Attributes.mapsize \in Nat /\ Attributes.mapsize <= MapLength
  BY <1>1, NowTypes
<1>4. pos \in Nat /\ pos' \in Nat
  BY DEF TypeInv, PlaceOK
<1>5. CASE ReadMap /\ MapFails
  <2>1. res' = "fatal"
    BY <1>5 DEF MapFails, Gives
  <2>. QED  BY <1>1, <2>1, TrackFails
<1>6. ASSUME LevelReturns \/ (ReadMap /\ MapIsRead)
      PROVE  /\ pos <= pos' /\ res' \in {"ok", "warn"}
             /\ LevelReturns => pos' = pos
             /\ ReadMap => pos' = pos + MapLength
  <2>1. CASE LevelReturns
    <3>1. pos' = pos
      BY <2>1 DEF LevelReturns
    <3>2. res' \in {"ok", "warn"} /\ ~ReadMap
      BY <2>1, <1>1 DEF LevelReturns, ReadMap, Gives, Err, Worked
    <3>. QED  BY <1>4, <2>1, <3>1, <3>2
  <2>2. CASE ReadMap /\ MapIsRead
    <3>1. PICK m, l : m = Attributes.mapsize /\ l = MapLength
      OBVIOUS
    <3>2. pos' = (pos + m) + (l - m) /\ m \in Nat /\ l \in Nat
      BY <1>3, <2>2, <3>1 DEF MapIsRead, Passes
    <3>3. pos' = pos + l /\ pos <= pos'
      BY <1>4, <3>2
    <3>4. res' \in {"ok", "warn"} /\ ~LevelReturns
      BY <2>2, <1>1 DEF LevelReturns, ReadMap, MapIsRead, Gives, Err, Worked
    <3>. QED  BY <2>2, <3>1, <3>3, <3>4
  <2>. QED  BY <1>6, <2>1, <2>2
<1>7. ASSUME LevelReturns \/ (ReadMap /\ MapIsRead), entry.file = 0
      PROVE  Track'
  <2>1. PICK i \in 1 .. Len(Members) : TooManyBefore(i)
    BY <1>1, <1>7 DEF Track
  <2>2. TooManyBefore(i)'
    BY <1>1, <1>4, <1>6, <1>7, <2>1, TooManyReturn
  <2>3. i \in 1 .. Len(Members')
    BY <1>1, TapeStays
  <2>. QED  BY <1>1, <1>2, <1>6, <1>7, <2>2, <2>3 DEF Track
<1>8. ASSUME LevelReturns \/ (ReadMap /\ MapIsRead), entry.file # 0
      PROVE  Track'
  <2>1. PICK f : f = entry.file
    OBVIOUS
  <2>2. PICK done \in SUBSET (Specials(f) \cup {f}) : IsOfFile(f, done)
    BY <1>1, <1>8, <2>1 DEF Track
  <2>3. PICK i : i = Inner
    OBVIOUS
  <2>4. i \in 1 .. Len(Members) /\ i <= f /\ f \in 1 .. Len(Members) /\ OnTape /\ i \in Nat /\ f \in Nat
    BY <1>1, <2>2, <2>3, StackIs, TapeIs
  <2>5. padding = PaddingOf(remaining) /\ (res = "warn" => Malformed(f) # {} \/ Versions(f)) /\ (pending = "other" => Versions(f)) /\ (~on_disk => pos <= Size)
    BY <2>2 DEF IsOfFile
  <2>6. Applies /\ Attributes.version = "other" => Versions(f)
    <3>1. i \in 1 .. f
      BY <2>4
    <3>. QED  BY <2>3, <3>1 DEF Versions, Attributes
  <2>7. NowPending = "other" => Versions(f)
    BY <2>5, <2>6 DEF NowPending
  <2>8. Err = "warn" => Malformed(f) # {} \/ Versions(f)
    <3>1. Applies /\ Attributes.malformed => Malformed(f) # {}
      BY <1>1, <2>2, <2>3, AppliesTo
    <3>. QED  BY <2>5, <3>1 DEF Err
  <2>9. pending' = "other" => Versions(f)
    BY <1>8, <2>7 DEF LevelReturns, ReadMap, StillPending
  <2>10. res' = "warn" => Malformed(f) # {} \/ Versions(f)
    BY <1>8, <2>7, <2>8 DEF LevelReturns, MapIsRead, Gives
  <2>11. padding' = PaddingOf(remaining')
    <3>1. CASE LevelReturns
      <4>1. remaining' = NowRemaining /\ padding' = IF Applies THEN PaddingOf(NowRemaining) ELSE padding
        BY <3>1 DEF LevelReturns
      <4>2. ~Applies => NowRemaining = remaining
        BY DEF NowRemaining
      <4>. QED  BY <2>5, <4>1, <4>2
    <3>2. CASE ReadMap /\ MapIsRead
      <4>1. remaining' = NowRemaining - MapLength /\ padding' = PaddingOf(NowRemaining) /\ NowRemaining >= MapLength
        BY <3>2 DEF ReadMap, MapIsRead
      <4>2. PICK n \in Nat, m \in Nat : n = NowRemaining /\ m = Attributes.mapsize
        BY <1>3
      <4>3. Padded(m) = MapLength /\ Padded(m) <= n
        BY <1>3, <4>1, <4>2 DEF MapLength
      <4>4. PaddingOf(n - Padded(m)) = PaddingOf(n)
        BY <4>3, PaddingGoesOn
      <4>. QED  BY <4>1, <4>2, <4>3, <4>4
    <3>. QED  BY <1>8, <3>1, <3>2
  <2>12. ~on_disk => pos' <= Size
    BY <1>6, <1>8, <2>5 DEF MapIsRead
  <2>13. Truthful(f) => SizesOf(f, done \cup {i})'
    BY <1>8, <2>2, <2>3, SizesReturn, SizesMap
  <2>14. IsOfFile(f, done \cup {i})' /\ done \cup {i} \in SUBSET (Specials(f) \cup {f})
    BY <1>1, <1>2, <2>2, <2>3, <2>9, <2>10, <2>11, <2>12, <2>13, FileReturns
  <2>15. Specials(f)' = Specials(f) /\ entry'.file = f
    BY <1>1, <1>2, <2>1, TapeStays
  <2>16. \E d \in SUBSET (Specials(entry.file) \cup {entry.file})' : IsOfFile(entry.file, d)'
    BY <2>14, <2>15
  <2>. QED  BY <1>1, <1>2, <1>6, <1>8, <2>1, <2>16 DEF Track
<1>. QED  BY <1>5, <1>7, <1>8, ReadMapIs

\* When all the headers of a file are done, where its data begins, what is left and the map are known.
LEMMA AllIsKnown ==
    ASSUME TypeInv, NEW f, IsOfFile(f, Specials(f) \cup {f}), Truthful(f)
    PROVE  /\ pos = Data(f).at /\ pos + remaining = BodyEnd(f)
           /\ padding = PaddingOf(Members[f].body)
           /\ remaining > 0 => (IF sparse_list = <<>> THEN <<Piece(0, remaining, FALSE)>> ELSE sparse_list) = Data(f).pieces
<1>1. OnTape /\ f \in Files /\ f \in 1 .. Len(Members) /\ pos \in Nat /\ remaining \in Nat
  BY FilesAreMembers DEF IsOfFile, TypeInv, MediaOK, PlaceOK, DataOK
<1>. DEFINE done == Specials(f) \cup {f}
<1>2. Mapping(f) \cap done = Mapping(f) /\ Resizing(f) \cap done = Resizing(f)
  BY DEF Mapping, Resizing, Attributed
<1>3. SizeSoFar(f, done) = Members[f].body
  BY <1>2 DEF SizeSoFar, Truthful, Told
<1>4. SizesAre(f, done, sparse_list, pos, remaining) /\ padding = PaddingOf(remaining)
  BY DEF IsOfFile, SizesOf
<1>. HIDE DEF done
<1>5. PICK b \in Nat, s \in Nat : b = Members[f].body /\ s = Start(f)
  BY <1>1, DataIs
<1>6. BodyEnd(f) = s + Record + b
  BY <1>5 DEF BodyEnd
<1>7. CASE Mapping(f) = {}
  <2>1. sparse_list = <<>> /\ pos = s + Record /\ remaining = b
    BY <1>2, <1>3, <1>4, <1>5, <1>7 DEF SizesAre
  <2>2. Data(f).at = s + Record /\ Data(f).pieces = <<Piece(0, b, FALSE)>>
    BY <1>5, <1>7 DEF Data
  <2>. QED  BY <1>4, <1>5, <1>6, <2>1, <2>2
<1>8. CASE Mapping(f) # {}
  <2>1. PICK i \in Mapping(f) : TRUE
    BY <1>8
  <2>2. Data(f) = DataOf(f, Members[i]) /\ \A j \in Mapping(f) : j = i
    BY <1>1, <2>1, OneMap
  <2>3. sparse_list = Data(f).pieces
    BY <1>2, <1>4, <1>8 DEF SizesAre
  <2>4. CASE Members[i].version # "1.0"
    <3>1. pos = s + Record /\ remaining = b
      BY <1>2, <1>3, <1>4, <1>5, <2>2, <2>4 DEF SizesAre
    <3>2. Data(f).at = s + Record /\ Data(f).pieces = Members[i].map
      BY <1>5, <2>2, <2>4 DEF DataOf
    <3>3. Members[i].map # <<>>
      BY <2>1, <2>4 DEF Mapping
    <3>. QED  BY <1>4, <1>5, <1>6, <2>3, <3>1, <3>2, <3>3
  <2>5. CASE Members[i].version = "1.0"
    <3>1. PICK m : m = Members[i].mapsize
      OBVIOUS
    <3>2. m \in Nat
      BY <1>1, <2>1, <3>1, MappingIs, MemberIs
    <3>3. PICK l \in Nat : l = Padded(m)
      BY <3>2, PaddedIs
    <3>4. pos = s + Record + l /\ remaining + l = b
      BY <1>2, <1>4, <1>5, <2>1, <2>5, <3>1, <3>3 DEF SizesAre
    <3>5. Data(f).at = s + Record + l /\ Data(f).pieces = Members[i].inner
      BY <1>5, <2>2, <2>5, <3>1, <3>3 DEF DataOf
    <3>6. pos + remaining = s + Record + b
      BY <1>1, <3>4, RecordIs
    <3>7. PaddingOf(remaining) = PaddingOf(b)
      <4>1. Padded(m) <= b /\ b - Padded(m) = remaining
        BY <1>1, <3>3, <3>4
      <4>2. PaddingOf(b - Padded(m)) = PaddingOf(b)
        BY <3>2, <4>1, PaddingGoesOn
      <4>. QED  BY <4>1, <4>2
    <3>8. remaining > 0 => sparse_list # <<>>
      <4>1. ASSUME remaining > 0, sparse_list = <<>> PROVE FALSE
        <5>1. SumOf(Data(f).pieces) = 0
          <6>1. Len(sparse_list) = 0 /\ sparse_list \in Map
            BY <4>1 DEF TypeInv, DataOK
          <6>2. SumUpTo(Lengths(sparse_list), 0) = 0
            BY <6>1, SumOfMap
          <6>. QED  BY <2>3, <6>1, <6>2 DEF SumOf
        <5>2. Data(f).at + 0 >= BodyEnd(f)
          BY <5>1 DEF Truthful
        <5>3. s + Record + l + 0 >= s + Record + b
          BY <1>6, <3>5, <5>2
        <5>. QED  BY <1>1, <3>4, <4>1, <5>3, RecordIs
      <4>. QED  BY <4>1
    <3>. QED  BY <1>4, <1>5, <1>6, <2>3, <3>4, <3>5, <3>6, <3>7, <3>8
  <2>. QED  BY <2>4, <2>5
<1>. QED  BY <1>7, <1>8

LEMMA TrackReturns == ASSUME TypeInv, DepthInv, OnTrack, Track, HeaderReturns, OnTrack' PROVE Track'
<1>1. /\ pc = "return" /\ specials = <<>> /\ pc' = "idle" /\ state' = StateAfter(res) /\ clean' = (clean /\ res \in {"ok", "warn", "eof"})
      /\ UNCHANGED <<media, pos, pax, specials, unconsumed, pending, res, entry>> /\ UNCHANGED media
      /\ entries' = IF Worked THEN Append(entries, entry) ELSE entries
  BY DEF HeaderReturns, Returns
<1>2. res \in {"ok", "warn", "eof"} /\ on_disk' = on_disk /\ concatenated' = concatenated
  BY <1>1 DEF OnTrack, media
<1>3. CASE res = "eof"
  <2>1. PICK a \in 1 .. Len(Members) + 1 : EndsAt(a)
    BY <1>1, <1>3 DEF Track
  <2>2. entries' = entries /\ state' = "eof"
    BY <1>1, <1>3 DEF Worked, StateAfter
  <2>3. ReadUpTo(a, ToSet(specials))'
    <3>1. PICK h : h = ToSet(specials)
      OBVIOUS
    <3>2. ReadUpTo(a, h)'
      BY <1>1, <2>1, <2>2, <3>1, ReadStays DEF EndsAt
    <3>3. ToSet(specials)' = h
      BY <1>1, <3>1 DEF ToSet
    <3>. QED  BY <3>2, <3>3
  <2>4. Start(a)' = Start(a) /\ Size' = Size /\ Members' = Members /\ Flag(a)' = Flag(a)
    BY <1>1, TapeStays DEF Flag
  <2>5. EndsAt(a)'
    BY <1>1, <1>2, <2>1, <2>3, <2>4 DEF EndsAt
  <2>6. a \in 1 .. Len(Members') + 1
    BY <2>4
  <2>. QED  BY <1>1, <2>2, <2>5, <2>6 DEF Track
<1>4. CASE res \in {"ok", "warn"}
  <2>1. Worked /\ entries' = Append(entries, entry) /\ state' = "data"
    BY <1>1, <1>4 DEF Worked, StateAfter
  <2>2. entries \in Seq(EntryType) /\ entry \in EntryType /\ OnTape /\ pos \in Nat /\ remaining \in Nat
    BY DEF TypeInv, HistoryOK, MediaOK, PlaceOK, DataOK
  <2>3. Last(entries') = entry /\ entries' # <<>> /\ entry \in ToSet(entries')
    <3>1. Len(Append(entries, entry)) = Len(entries) + 1 /\ Append(entries, entry)[Len(entries) + 1] = entry /\ Len(entries) \in Nat
      BY <2>2
    <3>2. Len(entries) + 1 \in DOMAIN Append(entries, entry)
      BY <2>2, <3>1
    <3>. QED  BY <2>1, <3>1, <3>2 DEF Last, ToSet
  <2>4. PICK e : e = entry
    OBVIOUS
  <2>5. PICK f : f = entry.file
    OBVIOUS
  <2>6. Truthful(f) /\ f # 0
    <3>1. e \in ToSet(entries') /\ e.file = f
      BY <2>3, <2>4, <2>5
    <3>2. Truthful(f)' /\ f > 0
      BY <3>1 DEF OnTrack
    <3>. QED  BY <1>1, <3>2, FileStays
  <2>7. PICK held \in SUBSET (Specials(f) \cup {f}) : IsOfFile(f, held)
    BY <1>1, <2>1, <2>5, <2>6 DEF Track
  <2>8. ToSet(specials) = {}
    BY <1>1 DEF ToSet
  <2>9. held = Specials(f) \cup {f}
    BY <2>7, <2>8 DEF IsOfFile
  <2>10. IsOfFile(f, Specials(f) \cup {f})
    BY <2>7, <2>9
  <2>11. f \in Files /\ f \in 1 .. Len(Members) /\ f \in Nat /\ f + 1 \in 1 .. Len(Members) + 1 /\ f \in 1 .. Len(Members) + 1
    BY <2>2, <2>10, FilesAreMembers, TapeIs DEF IsOfFile
  <2>12. entry.by = Namer(f)
    <3>1. ~Names(f)
      BY <2>2, <2>11, FlagsAre DEF Names, FileFlags
    <3>2. {j \in Specials(f) \cup {f} : Names(j)} = Namers(f)
      BY <3>1 DEF Namers
    <3>3. entry.by = FirstOrNone(Namers(f))
      BY <2>10, <3>2 DEF IsOfFile
    <3>. QED  BY <3>3 DEF FirstOrNone, Namer
  <2>13. ReadUpTo(f + 1, {})'
    <3>1. Start(f) <= Size
      <4>1. PICK s \in Nat, z \in Nat : s = Start(f) /\ z = Size
        BY <2>2, <2>11, StartIsNat, TapeIs
      <4>2. s + Record <= z
        BY <2>10, <4>1 DEF IsOfFile
      <4>. QED  BY <4>1, <4>2, RecordIs
    <3>2. ReadUpTo(f, Specials(f)) /\ f \in Files /\ f \in 1 .. Len(Members) /\ UNCHANGED media
      BY <1>1, <2>10, <2>11 DEF IsOfFile
    <3>. QED  BY <2>1, <2>2, <2>5, <2>12, <3>1, <3>2, FileIsRead
  <2>14. /\ pos = Data(f).at /\ pos + remaining = BodyEnd(f)
         /\ padding = PaddingOf(Members[f].body)
         /\ remaining > 0 => (IF sparse_list = <<>> THEN <<Piece(0, remaining, FALSE)>> ELSE sparse_list) = Data(f).pieces
    BY <2>6, <2>10, AllIsKnown
  <2>15. PICK b \in Nat, s \in Nat, at \in Nat : b = Members[f].body /\ s = Start(f) /\ at = Data(f).at
    BY <2>2, <2>11, DataIs
  <2>16. BodyEnd(f) = s + Record + b /\ Start(f + 1) = s + Record + Padded(b) /\ Padded(b) = b + PaddingOf(b) /\ PaddingOf(b) \in Nat
    <3>1. Start(f + 1) = s + Record + Padded(b)
      BY <2>2, <2>11, <2>15, TapeIs
    <3>2. Padded(b) = b + PaddingOf(b) /\ PaddingOf(b) \in 0 .. Record - 1
      BY PaddedIs
    <3>3. PaddingOf(b) \in Nat
      BY <3>2, RecordIs
    <3>. QED  BY <2>15, <3>1, <3>2, <3>3 DEF BodyEnd
  <2>17. pos + remaining + padding = Start(f + 1)
    <3>1. PICK q \in Nat : q = PaddingOf(b)
      BY <2>16
    <3>2. pos + remaining = s + Record + b /\ Start(f + 1) = s + Record + (b + q) /\ padding = q
      BY <2>14, <2>15, <2>16, <3>1
    <3>. QED  BY <2>2, <3>2, RecordIs
  <2>18. pos >= s + Record
    <3>1. CASE Mapping(f) = {}
      BY <2>2, <2>14, <2>15, <3>1, RecordIs DEF Data
    <3>2. CASE Mapping(f) # {}
      <4>1. PICK j \in 1 .. Len(Members) : j = First(Mapping(f))
        BY <2>2, <2>11, <3>2, MappingIs
      <4>2. PICK l \in Nat : l = Padded(Members[j].mapsize)
        BY <2>2, MemberIs, PaddedIs
      <4>3. pos = s + Record + l \/ pos = s + Record
        BY <2>14, <2>15, <3>2, <4>1, <4>2 DEF Data, DataOf
      <4>. QED  BY <2>2, <4>3, RecordIs
    <3>. QED  BY <3>1, <3>2
  <2>19. remaining' = remaining /\ padding' = padding
    <3>1. CASE Flag(f) = "slash"
      <4>1. b = 0
        BY <2>6, <2>15, <3>1 DEF Truthful
      <4>2. remaining = 0
        BY <2>2, <2>14, <2>16, <2>18, <4>1, RecordIs
      <4>3. padding = 0
        BY <2>14, <2>15, <2>16, <4>1, PaddedZero
      <4>4. remaining' \in {0, remaining} /\ padding' \in {0, padding}
        BY DEF HeaderReturns
      <4>. QED  BY <4>2, <4>3, <4>4
    <3>2. CASE Flag(f) # "slash"
      BY <2>5, <3>2 DEF HeaderReturns
    <3>. QED  BY <3>1, <3>2
  <2>20. InTheData(f)'
    <3>1. f \in Files' /\ (pax <=> InPax(f + 1))' /\ (pending = "other" => Versions(f))'
      BY <1>1, <2>10, TapeStays DEF IsOfFile
    <3>2. unconsumed = 0 /\ (~on_disk => pos <= Size)
      BY <2>10 DEF IsOfFile
    <3>3. Place' = pos
      BY <1>1, <2>2, <3>2 DEF Place
    <3>4. (Place + remaining + padding = Start(f + 1))' /\ (~on_disk => Place <= Size)'
      BY <1>1, <1>2, <2>17, <2>19, <3>2, <3>3, TapeStays
    <3>5. ASSUME remaining > 0
          PROVE  /\ Place' + remaining' = BodyEnd(f)'
                 /\ \E k \in 1 .. Len(Data(f)'.pieces) + 1, d \in Nat :
                        IsRest(sparse_list', Data(f)'.pieces, k, d) /\ Place' = Data(f)'.at + Far(Data(f)'.pieces, k, d)
      <4>1. Data(f)' = Data(f) /\ BodyEnd(f)' = BodyEnd(f)
        BY <1>1, FileStays
      <4>2. PICK p \in Map : p = Data(f).pieces
        BY <2>2, <2>11, DataIs
      <4>3. sparse_list' = p
        BY <2>14, <3>5, <4>2 DEF HeaderReturns
      <4>4. IsRest(p, p, 1, 0) /\ Len(p) \in Nat
        BY RestIsAll, LengthsOf
      <4>5. 1 \in 1 .. Len(p) + 1
        BY <4>4
      <4>6. Far(p, 1, 0) = 0
        BY SumOfMap DEF Far
      <4>7. pos = at + Far(p, 1, 0)
        BY <2>14, <2>15, <4>6
      <4>8. \E k \in 1 .. Len(p) + 1, d \in Nat : IsRest(sparse_list', p, k, d) /\ Place' = at + Far(p, k, d)
        BY <3>3, <4>3, <4>4, <4>5, <4>7
      <4>. QED  BY <2>14, <2>15, <2>19, <3>3, <4>1, <4>2, <4>8
    <3>. QED  BY <2>13, <2>19, <3>1, <3>4, <3>5 DEF InTheData, IsRest, Far
  <2>21. Last(entries).file' = f
    BY <2>3, <2>5
  <2>. QED  BY <1>1, <2>1, <2>3, <2>20, <2>21 DEF Track
<1>. QED  BY <1>2, <1>3, <1>4

-----------------------------------------------------------------------------
(* The data. *)

\* Whoever is asked for data knows where it is in the entry.
LEMMA WhereTheDataIs ==
    ASSUME TypeInv, DepthInv, OnTrack, Track, pc = "data"
    PROVE  \E f \in Files :
             /\ entries # <<>> /\ f = Last(entries).file /\ InTheData(f) /\ Truthful(f)
             /\ f \in 1 .. Len(Members) /\ f + 1 \in 1 .. Len(Members) + 1 /\ state = "data" /\ OnTape
<1>1. state = "data" /\ OnTape
  BY DEF DepthInv, TypeInv, MediaOK
<1>2. PICK f : f = Last(entries).file
  OBVIOUS
<1>3. entries # <<>> /\ InTheData(f)
  BY <1>1, <1>2 DEF Track
<1>4. Truthful(f)
  BY <1>2, <1>3, LastIsTrue
<1>5. f \in Files
  BY <1>3 DEF InTheData
<1>. QED  BY <1>1, <1>2, <1>3, <1>4, <1>5, FilesAreMembers

\* Without pieces nothing is left.
LEMMA NothingIsLeft ==
    ASSUME TypeInv, NEW f \in 1 .. Len(Members), InTheData(f), Truthful(f), Pieces = <<>>
    PROVE  remaining = 0
<1>. SUFFICES ASSUME remaining # 0 PROVE FALSE
  OBVIOUS
<1>1. sparse_list \in Map /\ remaining \in Nat /\ remaining > 0
  BY DEF TypeInv, DataOK
<1>2. PICK s \in Map : s = sparse_list
  BY <1>1
<1>3. Len(s) \in Nat /\ Unexhausted(s) = <<>>
  BY <1>2, LengthsOf DEF Pieces
<1>4. \A k \in 1 .. Len(s) : s[k].remaining = 0
  <2>1. ASSUME NEW m \in 1 .. Len(s), Len(Unexhausted(s)) = Len(s) - m + 1 PROVE FALSE
    <3>1. PICK n : n = Len(s)
      OBVIOUS
    <3>2. n \in Nat /\ m \in 1 .. n /\ n - m + 1 = 0
      BY <1>3, <2>1, <3>1
    <3>. QED  BY <3>2
  <2>. QED  BY <2>1, UnexhaustedIs
<1>5. SumUpTo(Lengths(s), Len(s)) = 0
  <2>1. Len(s) \in 0 .. Len(s)
    BY <1>3
  <2>. QED  BY <1>4, <2>1, NothingSums
<1>6. SumOf(sparse_list) = 0
  BY <1>2, <1>5 DEF SumOf
<1>. QED  BY <1>1, <1>6, RestCovers

LEMMA TrackEnds == ASSUME TypeInv, DepthInv, OnTrack, Track, DataEnds PROVE Track'
<1>1. InData /\ AtEnd /\ pc = "data" /\ Passes(Place, padding) /\ padding' = 0 /\ unconsumed' = 0 /\ remaining' = remaining /\ pc' = "idle"
  BY DEF DataEnds, InData, Returns
<1>2. UNCHANGED media /\ UNCHANGED <<entries, pax, pending, state>> /\ on_disk' = on_disk
  BY <1>1 DEF InData, media
<1>3. PICK f \in Files :
        /\ entries # <<>> /\ f = Last(entries).file /\ InTheData(f) /\ Truthful(f)
        /\ f \in 1 .. Len(Members) /\ f + 1 \in 1 .. Len(Members) + 1 /\ state = "data" /\ OnTape
  BY <1>1, WhereTheDataIs
<1>4. remaining = 0
  BY <1>1, <1>3, NothingIsLeft DEF AtEnd
<1>5. PICK p \in Nat, q \in Nat, z \in Nat : p = Place /\ q = padding /\ z = Size
  <2>1. Place \in Nat /\ padding \in Nat
    BY RecordIs DEF TypeInv, PlaceOK, DataOK, Place
  <2>2. Size \in Nat
    BY <1>3, TapeIs
  <2>. QED  BY <2>1, <2>2
<1>6. p + q = Start(f + 1) /\ (~on_disk => p <= z)
  <2>1. p + remaining + q = Start(f + 1) /\ (~on_disk => p <= z)
    BY <1>3, <1>5 DEF InTheData
  <2>. QED  BY <1>4, <2>1
<1>7. pos' = p + q /\ (q = 0 \/ on_disk \/ p + q <= z)
  BY <1>1, <1>5 DEF Passes
<1>8. Place' = p + q /\ (~on_disk => p + q <= z)
  BY <1>1, <1>6, <1>7 DEF Place
<1>9. InTheData(f)'
  <2>1. ReadUpTo(f + 1, {})' /\ f \in Files'
    BY <1>2, <1>3, ReadStays, TapeStays DEF InTheData
  <2>2. (pax <=> InPax(f + 1))' /\ (pending = "other" => Versions(f))'
    BY <1>2, <1>3, TapeStays DEF InTheData
  <2>3. (Place + remaining + padding = Start(f + 1))'
    <3>1. Place' + 0 + 0 = Start(f + 1)
      BY <1>6, <1>8
    <3>. QED  BY <1>1, <1>2, <1>4, <3>1, TapeStays
  <2>4. (~on_disk => Place <= Size)'
    BY <1>2, <1>5, <1>8, TapeStays
  <2>5. ~(remaining' > 0)
    BY <1>1, <1>4
  <2>. QED  BY <2>1, <2>2, <2>3, <2>4, <2>5 DEF InTheData
<1>10. Last(entries).file' = f
  BY <1>2, <1>3 DEF Last
<1>. QED  BY <1>1, <1>2, <1>3, <1>9, <1>10 DEF Track

\* What a block takes from the map and from the body.
LEMMA BlockMoves ==
    ASSUME TypeInv, NEW f \in 1 .. Len(Members), InTheData(f), OnTape, Pieces # <<>>, NEW n \in Nat, BlockStep(n)
    PROVE  \E k \in 1 .. Len(Data(f).pieces) + 1, d \in Nat :
             /\ IsRest(Pieces, Data(f).pieces, k, d) /\ Place = Data(f).at + Far(Data(f).pieces, k, d)
             /\ IsRest(sparse_list', Data(f).pieces, k, d + n) /\ Place + n = Data(f).at + Far(Data(f).pieces, k, d + n)
             /\ d + n \in Nat
<1>1. remaining > 0 /\ n <= Head(Pieces).remaining /\ sparse_list' = TakenOf(Pieces, n)
  BY DEF BlockStep, TypeInv, DataOK
<1>2. sparse_list \in Map /\ Pieces \in Map
  BY PiecesType DEF TypeInv, DataOK
<1>3. PICK p \in Map, at \in Nat : p = Data(f).pieces /\ at = Data(f).at
  BY DataIs
<1>4. PICK j \in 1 .. Len(p) + 1, c \in Nat : IsRest(sparse_list, p, j, c) /\ Place = at + Far(p, j, c)
  BY <1>1, <1>3 DEF InTheData
<1>5. PICK k, d : IsRest(Unexhausted(sparse_list), p, k, d) /\ Far(p, k, d) = Far(p, j, c)
  BY <1>2, <1>4, RestIsKept
<1>6. IsRest(Pieces, p, k, d) /\ Place = at + Far(p, k, d) /\ k \in 1 .. Len(p) + 1 /\ d \in Nat
  BY <1>4, <1>5 DEF Pieces, IsRest
<1>7. IsRest(TakenOf(Pieces, n), p, k, d + n)
  BY <1>1, <1>2, <1>6, RestIsTaken
<1>8. Far(p, k, d + n) = Far(p, k, d) + n /\ Far(p, k, d) \in Nat
  <2>1. k - 1 \in 0 .. Len(p)
    BY <1>6, LengthsOf
  <2>2. PICK s \in Nat : s = SumUpTo(Lengths(p), k - 1)
    BY <2>1, SumOfMap
  <2>3. s + (d + n) = (s + d) + n /\ s + d \in Nat
    BY <1>6
  <2>. QED  BY <2>2, <2>3 DEF Far
<1>9. Place + n = at + Far(p, k, d + n) /\ d + n \in Nat
  <2>1. PICK x, y : x = Far(p, k, d) /\ y = Far(p, k, d + n)
    OBVIOUS
  <2>2. x \in Nat /\ y = x + n /\ Place = at + x
    BY <1>6, <1>8, <2>1
  <2>3. Place + n = at + y
    BY <2>2
  <2>. QED  BY <1>6, <2>1, <2>3
<1>. QED  BY <1>1, <1>3, <1>6, <1>7, <1>9

LEMMA TrackBlocks == ASSUME TypeInv, DepthInv, OnTrack, Track, DataBlock PROVE Track'
<1>1. InData /\ pc = "data" /\ Pieces # <<>> /\ padding' = padding
  BY BlockIs DEF InData
<1>2. PICK n \in Nat : BlockStep(n)
  BY BlockIs
<1>3. UNCHANGED media /\ UNCHANGED <<entries, pax, pending, state>> /\ on_disk' = on_disk
  BY <1>1 DEF InData, media
<1>4. PICK f \in Files :
        /\ entries # <<>> /\ f = Last(entries).file /\ InTheData(f) /\ Truthful(f)
        /\ f \in 1 .. Len(Members) /\ f + 1 \in 1 .. Len(Members) + 1 /\ state = "data" /\ OnTape
  BY <1>1, WhereTheDataIs
<1>5. pc' \in {"idle", "data"}
  BY <1>1, <1>2 DEF BlockStep, Returns
<1>6. n > 0 /\ n <= remaining /\ Place + n <= Size /\ remaining' = remaining - n /\ Place' = Place + n /\ remaining \in Nat /\ Place \in Nat /\ padding \in Nat
  BY <1>2, RecordIs DEF BlockStep, Place, TypeInv, DataOK, PlaceOK
<1>7. InTheData(f)'
  <2>1. ReadUpTo(f + 1, {})' /\ f \in Files'
    BY <1>3, <1>4, ReadStays, TapeStays DEF InTheData
  <2>2. (pax <=> InPax(f + 1))' /\ (pending = "other" => Versions(f))'
    BY <1>3, <1>4, TapeStays DEF InTheData
  <2>3. (Place + remaining + padding = Start(f + 1))'
    <3>1. Place + remaining + padding = Start(f + 1)
      BY <1>4 DEF InTheData
    <3>2. Place' + remaining' + padding' = Start(f + 1)
      BY <1>1, <1>6, <3>1
    <3>. QED  BY <1>3, <3>2, TapeStays
  <2>4. (~on_disk => Place <= Size)'
    BY <1>3, <1>6, TapeStays
  <2>5. Place' + remaining' = BodyEnd(f)
    <3>1. Place + remaining = BodyEnd(f)
      BY <1>4, <1>6 DEF InTheData
    <3>. QED  BY <1>6, <3>1
  <2>6. Data(f)' = Data(f) /\ BodyEnd(f)' = BodyEnd(f)
    BY <1>3, FileStays
  <2>7. PICK k \in 1 .. Len(Data(f).pieces) + 1, d \in Nat :
             /\ IsRest(sparse_list', Data(f).pieces, k, d + n) /\ Place + n = Data(f).at + Far(Data(f).pieces, k, d + n)
             /\ d + n \in Nat
    BY <1>1, <1>2, <1>4, BlockMoves
  <2>8. PICK e \in Nat : e = d + n
    BY <2>7
  <2>9. IsRest(sparse_list', Data(f)'.pieces, k, e) /\ Place' = Data(f)'.at + Far(Data(f)'.pieces, k, e) /\ k \in 1 .. Len(Data(f)'.pieces) + 1
    BY <1>6, <2>6, <2>7, <2>8
  <2>10. Place' + remaining' = BodyEnd(f)'
    BY <2>5, <2>6
  <2>. QED  BY <2>1, <2>2, <2>3, <2>4, <2>9, <2>10 DEF InTheData, IsRest, Far
<1>8. Last(entries).file' = f
  BY <1>3, <1>4 DEF Last
<1>. QED  BY <1>3, <1>4, <1>5, <1>7, <1>8 DEF Track

LEMMA TrackStays == ASSUME Track, UNCHANGED vars PROVE Track'
<1>1. UNCHANGED media /\ UNCHANGED <<pos, dead, state, pc, res, reply, faults, entry, entries, astray, clean>> /\ UNCHANGED tar
  BY DEF vars
<1>2. UNCHANGED <<pax, depth, specials, remaining, padding, unconsumed, sparse_list, pending, on_disk, concatenated>>
  BY <1>1 DEF tar, media
<1>3. Members' = Members
  BY <1>1, TapeStays
<1>4. ASSUME NEW a, Reads(a) PROVE Reads(a)'
  BY <1>1, <1>2, <1>4, AtHeaderStays, TapeStays DEF Reads, ToSet, Increasing
<1>5. ASSUME NEW f, NEW done, IsOfFile(f, done) PROVE IsOfFile(f, done)'
  <2>1. f \in Files' /\ ReadUpTo(f, Specials(f))' /\ (pax <=> InPax(f + 1))' /\ (pending = "other" => Versions(f))'
        /\ (~on_disk => pos <= Size)' /\ unconsumed' = 0 /\ (Start(f) + Record <= Size)'
    BY <1>1, <1>2, <1>5, ReadStays, TapeStays DEF IsOfFile
  <2>2. (ToSet(specials) \cup done = Specials(f) \cup {f})' /\ Increasing(specials)' /\ (\A j \in ToSet(specials), k \in done : j < k)'
    BY <1>1, <1>2, <1>5, TapeStays DEF IsOfFile, ToSet, Increasing
  <2>3. (entry.by = FirstOrNone({j \in done : Names(j)}))'
    <3>1. \A j : Names(j)' <=> Names(j)
      BY <1>1 DEF Names, Flag, Members, media
    <3>2. {j \in done : Names(j)}' = {j \in done : Names(j)}
      BY <3>1
    <3>. QED  BY <1>1, <1>5, <3>2 DEF IsOfFile, FirstOrNone, First
  <2>4. (res = "warn" => Malformed(f) # {} \/ Versions(f))' /\ (padding = PaddingOf(remaining))'
    BY <1>1, <1>2, <1>5, TapeStays, FileStays DEF IsOfFile, PaddingOf, Padded
  <2>5. (Truthful(f) => SizesOf(f, done))'
    <3>1. ASSUME Truthful(f) PROVE SizesOf(f, done)'
      <4>1. PICK list, at, left : list = sparse_list /\ at = pos /\ left = remaining
        OBVIOUS
      <4>2. SizesAre(f, done, list, at, left)
        BY <1>5, <3>1, <4>1 DEF IsOfFile, SizesOf
      <4>3. sparse_list' = list /\ pos' = at /\ remaining' = left
        BY <1>1, <1>2, <4>1
      <4>. QED  BY <1>1, <4>2, <4>3, SizesStay
    <3>. QED  BY <1>1, <3>1, FileStays
  <2>. QED  BY <2>1, <2>2, <2>3, <2>4, <2>5 DEF IsOfFile
<1>6. ASSUME NEW a, EndsAt(a) PROVE EndsAt(a)'
  <2>1. ReadUpTo(a, ToSet(specials))'
    <3>1. PICK h : h = ToSet(specials)
      OBVIOUS
    <3>2. ReadUpTo(a, h)' /\ ToSet(specials)' = h
      BY <1>1, <1>2, <1>6, <3>1, ReadStays DEF EndsAt, ToSet
    <3>. QED  BY <3>2
  <2>2. Start(a)' = Start(a) /\ Size' = Size /\ Flag(a)' = Flag(a)
    BY <1>1, TapeStays DEF Flag
  <2>. QED  BY <1>2, <1>3, <1>6, <2>1, <2>2 DEF EndsAt
<1>7. ASSUME NEW f, InTheData(f) PROVE InTheData(f)'
  BY <1>1, <1>2, <1>7, InTheDataStays
<1>8. ASSUME NEW i, TooManyBefore(i) PROVE TooManyBefore(i)'
  BY <1>1, <1>8, TapeStays DEF TooManyBefore
<1>9. (pc = "header" => \E a \in 1 .. Len(Members) + 1 : Reads(a))'
  BY <1>1, <1>3, <1>4 DEF Track
<1>10. (pc = "idle" /\ state = "header" => \E a \in 1 .. Len(Members) + 1 : AtHeader(a) /\ Specials(a) = {})'
  BY <1>1, <1>2, <1>3, AtHeaderStays, TapeStays DEF Track
<1>11. (pc = "return" /\ Worked /\ entry.file # 0 =>
        \E done \in SUBSET (Specials(entry.file) \cup {entry.file}) : IsOfFile(entry.file, done))'
  <2>1. PICK f : f = entry.file
    OBVIOUS
  <2>2. entry.file' = f /\ Specials(f)' = Specials(f) /\ (Worked' <=> Worked)
    BY <1>1, <2>1, TapeStays DEF Worked
  <2>3. ASSUME pc = "return", Worked, f # 0 PROVE \E done \in SUBSET (Specials(f) \cup {f}) : IsOfFile(f, done)'
    BY <1>5, <2>1, <2>3 DEF Track
  <2>. QED  BY <1>1, <2>2, <2>3
<1>12. (pc = "return" /\ Worked /\ entry.file = 0 => \E i \in 1 .. Len(Members) : TooManyBefore(i))'
  BY <1>1, <1>3, <1>8 DEF Track, Worked
<1>13. ((pc = "return" /\ res = "eof") \/ state = "eof" => \E a \in 1 .. Len(Members) + 1 : EndsAt(a))'
  BY <1>1, <1>3, <1>6 DEF Track
<1>14. (pc \in {"idle", "data"} /\ state = "data" => entries # <<>> /\ InTheData(Last(entries).file))'
  <2>1. PICK f : f = Last(entries).file
    OBVIOUS
  <2>2. Last(entries).file' = f
    BY <1>1, <2>1 DEF Last
  <2>3. pc \in {"idle", "data"} /\ state = "data" => entries # <<>> /\ InTheData(f)'
    BY <1>7, <2>1 DEF Track
  <2>. QED  BY <1>1, <2>2, <2>3
<1>. QED  BY <1>9, <1>10, <1>11, <1>12, <1>13, <1>14 DEF Track

LEMMA TrackKept == TypeInv /\ DepthInv /\ (OnTrack => Track) /\ [Next]_vars => (OnTrack => Track)'
<1>. SUFFICES ASSUME TypeInv, DepthInv, OnTrack => Track, [Next]_vars, OnTrack' PROVE Track'
  OBVIOUS
<1>1. OnTrack /\ UNCHANGED media /\ clean' /\ ~astray' /\ Track
  BY WasOnTrack
<1>2. TypeInv'
  BY NextKeepsTypes
<1>3. CASE Calls
  BY <1>1, <1>3, TrackCalls
<1>4. CASE HeaderBreaks \/ HeaderAtEnd \/ NullRecord \/ Damaged \/ TooManyHeaders \/ ReadSpecial \/ SpecialBreaks \/ ReadVolume \/ ReadFile
  BY <1>1, <1>4, TrackReads
<1>5. CASE LevelReturns \/ ReadMap
  BY <1>1, <1>2, <1>5, TrackLeaves
<1>6. CASE LevelFails
  BY <1>1, <1>6, TrackFailsLeaves
<1>7. CASE HeaderReturns
  BY <1>1, <1>7, TrackReturns
<1>8. CASE DataEnds
  BY <1>1, <1>8, TrackEnds
<1>9. CASE DataFails
  <2>1. \E b : Returns("data", "fatal", b)
    BY <1>9 DEF DataFails
  <2>2. ~clean'
    BY <2>1 DEF Returns
  <2>. QED  BY <1>1, <2>2
<1>10. CASE DataBlock
  BY <1>1, <1>10, TrackBlocks
<1>11. CASE UNCHANGED vars
  BY <1>1, <1>11, TrackStays
<1>. QED  BY <1>3, <1>4, <1>5, <1>6, <1>7, <1>8, <1>9, <1>10, <1>11 DEF Next, Step

-----------------------------------------------------------------------------
(* What the track shows. *)

\* Whatever the reader is at, what it has reported are files of the tape.
Reported == \E a \in 1 .. Len(Members) + 1, held \in SUBSET (1 .. Len(Members)) : ReadUpTo(a, held)

\* A block is a part of one piece of file f.
IsBlockOf(f, block) ==
    /\ block.at + block.size <= BodyEnd(f)
    /\ \E k \in DOMAIN Data(f).pieces :
        LET p == Data(f).pieces[k]
            before == block.offset - p.offset
        IN  /\ ~p.hole /\ before >= 0 /\ before + block.size <= p.remaining
            /\ block.at = Data(f).at + SumUpTo(Lengths(Data(f).pieces), k - 1) + before

\* What a warning is for.
Deserved(file, es, p) ==
    IF file > 0
    THEN Malformed(file) # {} \/ \E j \in 1 .. file : Members[j].version = "other"
    ELSE \E i \in DOMAIN Members :
            /\ Start(i) + Record <= p /\ Cardinality(Specials(i)) >= MaxDepth
            /\ Cardinality({j \in Files : j < i}) = Len(es) - 1
IsDeserved == Warned => Deserved(Last(entries).file, entries, pos)

TrackInv ==
    /\ TypeInv /\ DepthInv
    /\ OnTrack => Track /\ Reported
    /\ BlocksAreWhereTheMapSays /\ IsDeserved

\* Which steps report an entry, and which a block.
LEMMA OnlyHeaders ==
    ASSUME TypeInv, [Next]_vars, ~HeaderReturns PROVE entries' = entries
<1>1. CASE Calls
  <2>1. \A c : Misused(c) => entries' = entries
    BY DEF Misused
  <2>. QED  BY <1>1, <2>1 DEF Calls, NextHeader, NextHeaderCannotSkip, NextHeaderMisused, DataSkip, DataSkipMisused, ReadData, ReadDataMisused
<1>2. CASE HeaderBreaks \/ HeaderAtEnd \/ NullRecord \/ Damaged \/ TooManyHeaders \/ ReadSpecial \/ SpecialBreaks \/ ReadVolume \/ ReadFile
  BY <1>2 DEF HeaderBreaks, HeaderAtEnd, NullRecord, Damaged, TooManyHeaders, ReadSpecial, SpecialBreaks, ReadVolume, ReadFile, InHeader, Kept
<1>3. CASE LevelReturns \/ ReadMap \/ LevelFails
  BY <1>3 DEF LevelReturns, ReadMap, LevelFails, Leaves
<1>4. CASE DataEnds \/ DataFails
  BY <1>4 DEF DataEnds, DataFails, InData
<1>5. CASE DataBlock
  BY <1>5, BlockIs DEF InData
<1>6. CASE UNCHANGED vars
  BY <1>6 DEF vars
<1>. QED  BY <1>1, <1>2, <1>3, <1>4, <1>5, <1>6 DEF Next, Step

LEMMA ReportedKept ==
    ASSUME TypeInv, [Next]_vars, OnTrack', Track', Reported PROVE Reported'
<1>1. UNCHANGED media
  BY WasOnTrack
<1>2. Members' = Members
  BY <1>1, TapeStays
<1>3. CASE entries' = entries
  <2>1. PICK a \in 1 .. Len(Members) + 1, held \in SUBSET (1 .. Len(Members)) : ReadUpTo(a, held)
    BY DEF Reported
  <2>2. ReadUpTo(a, held)'
    BY <1>1, <1>3, <2>1, ReadStays
  <2>. QED  BY <1>2, <2>2 DEF Reported
<1>4. CASE entries' # entries
  <2>1. HeaderReturns
    BY <1>4, OnlyHeaders
  <2>2. pc' = "idle" /\ state' = "data"
    BY <1>4, <2>1 DEF HeaderReturns, Returns, Worked, StateAfter
  <2>3. PICK f : f = Last(entries).file'
    OBVIOUS
  <2>4. InTheData(f)'
    BY <2>2, <2>3 DEF Track
  <2>5. f \in Files /\ ReadUpTo(f + 1, {})'
    BY <1>1, <2>4, TapeStays DEF InTheData
  <2>6. f + 1 \in 1 .. Len(Members') + 1 /\ {} \in SUBSET (1 .. Len(Members'))
    BY <1>2, <2>5, FilesAreMembers DEF TypeInv, MediaOK
  <2>. QED  BY <2>5, <2>6 DEF Reported
<1>. QED  BY <1>3, <1>4

LEMMA BlocksKept ==
    ASSUME TypeInv, DepthInv, OnTrack => Track, BlocksAreWhereTheMapSays, [Next]_vars
    PROVE  BlocksAreWhereTheMapSays'
<1>. SUFFICES ASSUME OnTrack', reply'.call = "data", reply'.ret = "ok"
              PROVE  IsBlockOf(Last(entries).file, reply.block)'
  BY DEF BlocksAreWhereTheMapSays, IsBlockOf
<1>1. OnTrack /\ Track /\ UNCHANGED media
  BY WasOnTrack
<1>2. ASSUME NEW f, NEW block PROVE IsBlockOf(f, block)' <=> IsBlockOf(f, block)
  <2>1. Data(f)' = Data(f) /\ BodyEnd(f)' = BodyEnd(f)
    BY <1>1, FileStays
  <2>. QED  BY <2>1 DEF IsBlockOf, SumUpTo, Lengths
<1>10. ASSUME NEW f, NEW b, f = Last(entries').file, b = reply'.block, IsBlockOf(f, b)
       PROVE  IsBlockOf(Last(entries).file, reply.block)'
  <2>1. IsBlockOf(f, b)'
    BY <1>2, <1>10
  <2>2. Last(entries).file' = f /\ reply.block' = b
    BY <1>10 DEF Last
  <2>. QED  BY <2>1, <2>2
<1>3. CASE UNCHANGED <<reply, entries>>
  <2>1. PICK f : f = Last(entries).file
    OBVIOUS
  <2>2. PICK b : b = reply.block
    OBVIOUS
  <2>3. IsBlockOf(f, b)
    BY <1>1, <1>3, <2>1, <2>2 DEF BlocksAreWhereTheMapSays, IsBlockOf
  <2>4. f = Last(entries').file /\ b = reply'.block
    BY <1>3, <2>1, <2>2 DEF Last
  <2>. QED  BY <1>10, <2>3, <2>4
<1>4. CASE DataBlock
  <2>1. InData /\ Pieces # <<>> /\ pc = "data"
    BY <1>4, BlockIs DEF InData
  <2>2. PICK n \in Nat : BlockStep(n)
    BY <1>4, BlockIs
  <2>3. entries' = entries
    BY <2>1 DEF InData
  <2>4. CASE Head(Pieces).hole
    BY <1>3, <2>2, <2>3, <2>4 DEF BlockStep
  <2>5. CASE ~Head(Pieces).hole
    <3>1. PICK f \in Files :
            /\ entries # <<>> /\ f = Last(entries).file /\ InTheData(f) /\ Truthful(f)
            /\ f \in 1 .. Len(Members) /\ f + 1 \in 1 .. Len(Members) + 1 /\ state = "data" /\ OnTape
      BY <1>1, <2>1, WhereTheDataIs
    <3>2. PICK p \in Map, at \in Nat : p = Data(f).pieces /\ at = Data(f).at
      BY <3>1, DataIs
    <3>3. PICK k \in 1 .. Len(p) + 1, d \in Nat : IsRest(Pieces, p, k, d) /\ Place = at + Far(p, k, d)
      <4>0. f \in 1 .. Len(Members) /\ InTheData(f) /\ OnTape
        BY <3>1
      <4>1. PICK k \in 1 .. Len(Data(f).pieces) + 1, d \in Nat :
             /\ IsRest(Pieces, Data(f).pieces, k, d) /\ Place = Data(f).at + Far(Data(f).pieces, k, d)
             /\ IsRest(sparse_list', Data(f).pieces, k, d + n) /\ Place + n = Data(f).at + Far(Data(f).pieces, k, d + n)
             /\ d + n \in Nat
        BY <2>1, <2>2, <4>0, BlockMoves
      <4>2. IsRest(Pieces, p, k, d) /\ Place = at + Far(p, k, d) /\ k \in 1 .. Len(p) + 1
        BY <3>2, <4>1
      <4>. QED  BY <4>2
    <3>4. Pieces \in Map /\ Len(Pieces) # 0 /\ Head(Pieces) = Pieces[1]
      <4>1. Pieces \in Map
        BY <2>1, PiecesType
      <4>. QED  BY <2>1, <4>1 DEF Map
    <3>5. k \in 1 .. Len(p) /\ k # Len(p) + 1 /\ Len(p) \in Nat
      BY <3>3, <3>4, LengthsOf DEF IsRest
    <3>6. Head(Pieces).hole = p[k].hole /\ Head(Pieces).offset = p[k].offset + d /\ Head(Pieces).remaining = p[k].remaining - d
      BY <3>3, <3>4, <3>5 DEF IsRest
    <3>7. p[k].offset \in Nat /\ p[k].remaining \in Nat /\ k \in DOMAIN p
      BY <3>5, LengthsOf DEF Map
    <3>8. n <= Head(Pieces).remaining /\ n <= remaining /\ n > 0 /\ Place \in Nat /\ remaining \in Nat /\ reply'.block = [at |-> Place, offset |-> Head(Pieces).offset, size |-> n]
      <4>1. n <= Head(Pieces).remaining /\ n <= remaining /\ n > 0
        BY <2>2 DEF BlockStep
      <4>2. Place \in Nat /\ remaining \in Nat
        BY DEF TypeInv, DataOK, PlaceOK, Place
      <4>3. Returns("data", "ok", [at |-> Place, offset |-> Head(Pieces).offset, size |-> n])
        BY <2>2, <2>5 DEF BlockStep
      <4>4. reply' = [call |-> "data", ret |-> "ok", block |-> [at |-> Place, offset |-> Head(Pieces).offset, size |-> n]]
        BY <4>3 DEF Returns
      <4>. QED  BY <4>1, <4>2, <4>4
    <3>9. PICK b : b = reply'.block
      OBVIOUS
    <3>10. b.at = Place /\ b.size = n /\ b.offset = p[k].offset + d
      BY <3>6, <3>8, <3>9
    <3>11. b.at + b.size <= BodyEnd(f)
      <4>1. Place + remaining = BodyEnd(f)
        BY <3>1, <3>8 DEF InTheData
      <4>. QED  BY <3>8, <3>10, <4>1
    <3>12. PICK o \in Nat, r \in Nat : o = p[k].offset /\ r = p[k].remaining
      BY <3>7
    <3>13. b.offset - o = d /\ d >= 0 /\ d + n <= r
      <4>1. b.offset = o + d /\ n <= r - d
        BY <3>6, <3>8, <3>10, <3>12
      <4>2. (o + d) - o = d /\ d >= 0 /\ d + n <= r
        <5>1. ASSUME NEW x \in Nat, NEW y \in Nat, NEW z \in Nat, NEW m \in Nat, m <= y - z
              PROVE  (x + z) - x = z /\ z >= 0 /\ z + m <= y
          BY <5>1
        <5>2. d \in Nat /\ n \in Nat
          OBVIOUS
        <5>. QED  BY <3>12, <4>1, <5>1, <5>2
      <4>. QED  BY <4>1, <4>2
    <3>14. b.at = at + SumUpTo(Lengths(p), k - 1) + d
      <4>1. k - 1 \in 0 .. Len(p)
        BY <3>5
      <4>2. PICK s \in Nat : s = SumUpTo(Lengths(p), k - 1)
        BY <4>1, SumOfMap
      <4>3. Place = at + (s + d)
        BY <3>3, <4>2 DEF Far
      <4>. QED  BY <3>10, <4>2, <4>3
    <3>15. IsBlockOf(f, b)
      BY <2>5, <3>2, <3>6, <3>7, <3>10, <3>11, <3>12, <3>13, <3>14 DEF IsBlockOf
    <3>16. f = Last(entries').file
      BY <2>3, <3>1
    <3>. QED  BY <1>10, <3>9, <3>15, <3>16
  <2>. QED  BY <2>4, <2>5
<1>5. CASE Calls
  <2>1. \A c : Misused(c) => ~clean'
    BY DEF Misused, Returns
  <2>2. clean'
    BY DEF OnTrack
  <2>3. CASE NextHeader \/ ReadData
    BY <1>3, <2>3 DEF NextHeader, ReadData
  <2>4. CASE DataSkip
    BY <2>4 DEF DataSkip, Returns
  <2>5. CASE NextHeaderCannotSkip
    BY <2>2, <2>5 DEF NextHeaderCannotSkip, Returns
  <2>. QED  BY <1>5, <2>1, <2>2, <2>3, <2>4, <2>5 DEF Calls, NextHeaderMisused, DataSkipMisused, ReadDataMisused
<1>6. CASE HeaderBreaks \/ HeaderAtEnd \/ NullRecord \/ Damaged \/ TooManyHeaders \/ ReadSpecial \/ SpecialBreaks \/ ReadVolume \/ ReadFile
  BY <1>3, <1>6 DEF HeaderBreaks, HeaderAtEnd, NullRecord, Damaged, TooManyHeaders, ReadSpecial, SpecialBreaks, ReadVolume, ReadFile, InHeader, Kept
<1>7. CASE LevelReturns \/ ReadMap \/ LevelFails
  BY <1>3, <1>7 DEF LevelReturns, ReadMap, LevelFails, Leaves
<1>8. CASE HeaderReturns \/ DataEnds \/ DataFails
  <2>1. \E c, r, b : Returns(c, r, b) /\ (c # "data" \/ r # "ok")
    <3>1. HeaderReturns => Returns("header", res, NoBlock)
      BY DEF HeaderReturns
    <3>2. DataEnds => Returns("data", "eof", NoBlock)
      BY DEF DataEnds
    <3>3. DataFails => Returns("data", "fatal", NoBlock)
      BY DEF DataFails
    <3>. QED  BY <1>8, <3>1, <3>2, <3>3
  <2>2. PICK c, r, b : Returns(c, r, b) /\ (c # "data" \/ r # "ok")
    BY <2>1
  <2>3. reply'.call = c /\ reply'.ret = r
    BY <2>2 DEF Returns
  <2>. QED  BY <2>2, <2>3
<1>9. CASE UNCHANGED vars
  BY <1>3, <1>9 DEF vars
<1>. QED  BY <1>4, <1>5, <1>6, <1>7, <1>8, <1>9 DEF Next, Step

LEMMA OnlyWarnings ==
    ASSUME TypeInv, DepthInv, [Next]_vars, pc' = "idle", reply'.call = "header", reply'.ret = "warn", clean'
    PROVE  HeaderReturns \/ UNCHANGED vars
<1>1. CASE Calls
  <2>1. \A c : Misused(c) => ~clean'
    BY DEF Misused, Returns
  <2>2. CASE NextHeader \/ ReadData
    BY <2>2 DEF NextHeader, ReadData
  <2>3. CASE DataSkip
    <3>1. \E r : Returns("skip", r, NoBlock)
      BY <2>3 DEF DataSkip
    <3>. QED  BY <3>1 DEF Returns
  <2>4. CASE NextHeaderCannotSkip
    BY <2>4 DEF NextHeaderCannotSkip, Returns
  <2>. QED  BY <1>1, <2>1, <2>2, <2>3, <2>4 DEF Calls, NextHeaderMisused, DataSkipMisused, ReadDataMisused
<1>2. CASE HeaderBreaks \/ HeaderAtEnd \/ Damaged \/ TooManyHeaders \/ SpecialBreaks \/ ReadFile
  BY <1>2 DEF HeaderBreaks, HeaderAtEnd, Damaged, TooManyHeaders, SpecialBreaks, ReadFile, Gives
<1>3. CASE NullRecord \/ ReadSpecial \/ ReadVolume
  <2>1. pc = "header"
    BY <1>3 DEF NullRecord, ReadSpecial, ReadVolume, Header, Reading
  <2>2. pc' \in {pc, "return"}
    BY <1>3 DEF NullRecord, ReadSpecial, ReadVolume, Gives
  <2>. QED  BY <2>1, <2>2
<1>4. CASE LevelReturns \/ ReadMap \/ LevelFails
  <2>1. pc' = "return"
    BY <1>4, ReadMapIs DEF LevelReturns, MapFails, MapIsRead, LevelFails, Gives
  <2>. QED  BY <2>1
<1>5. CASE DataEnds \/ DataFails
  <2>1. \E r, b : Returns("data", r, b)
    BY <1>5 DEF DataEnds, DataFails
  <2>. QED  BY <2>1 DEF Returns
<1>6. CASE DataBlock
  <2>1. pc = "data" /\ \E n \in Nat : BlockStep(n)
    BY <1>6, BlockIs DEF InData
  <2>2. pc' = "data" \/ reply'.call = "data"
    <3>1. PICK n \in Nat : BlockStep(n)
      BY <2>1
    <3>2. CASE Head(Pieces).hole
      BY <2>1, <3>1, <3>2 DEF BlockStep
    <3>3. CASE ~Head(Pieces).hole
      <4>1. \E b : Returns("data", "ok", b)
        BY <3>1, <3>3 DEF BlockStep
      <4>. QED  BY <4>1 DEF Returns
    <3>. QED  BY <3>2, <3>3
  <2>. QED  BY <2>2
<1>. QED  BY <1>1, <1>2, <1>3, <1>4, <1>5, <1>6 DEF Next, Step

LEMMA DeservedKept ==
    ASSUME TypeInv, DepthInv, OnTrack => Track, IsDeserved, [Next]_vars
    PROVE  IsDeserved'
<1>. SUFFICES ASSUME Warned' PROVE Deserved(Last(entries).file, entries, pos)'
  BY DEF IsDeserved
<1>1. HeaderReturns \/ UNCHANGED vars
  <2>1. pc' = "idle" /\ reply'.call = "header" /\ reply'.ret = "warn" /\ clean'
    BY DEF Warned
  <2>. QED  BY <2>1, OnlyWarnings
<1>2. UNCHANGED media
  BY <1>1 DEF HeaderReturns, vars
<1>3. ASSUME NEW f PROVE Truthful(f)' <=> Truthful(f)
  BY <1>2, FileStays
<1>4. ASSUME NEW file, NEW es, NEW p, Deserved(file, es, p), Last(entries').file = file, entries' = es, pos' = p
      PROVE  Deserved(Last(entries).file, entries, pos)'
  <2>1. Malformed(file)' = Malformed(file) /\ Members' = Members /\ Files' = Files
    BY <1>2, FileStays, TapeStays
  <2>2. \A i : Start(i)' = Start(i) /\ Specials(i)' = Specials(i)
    BY <1>2, TapeStays
  <2>3. Deserved(file, es, p)' <=> Deserved(file, es, p)
    BY <2>1, <2>2 DEF Deserved
  <2>4. Last(entries).file' = file
    BY <1>4 DEF Last
  <2>. QED  BY <1>4, <2>3, <2>4
<1>5. Orderly' <=> Orderly
  BY <1>2 DEF Orderly, media, Members, Flag
<1>6. CASE UNCHANGED vars
  <2>1. UNCHANGED <<clean, astray, pc, reply, entries, pos>>
    BY <1>6 DEF vars
  <2>2. Warned
    BY <1>3, <1>5, <2>1 DEF Warned
  <2>3. PICK es, p : es = entries /\ p = pos
    OBVIOUS
  <2>4. PICK f : f = Last(es).file
    OBVIOUS
  <2>5. Deserved(f, es, p)
    BY <2>2, <2>3, <2>4 DEF IsDeserved
  <2>. QED  BY <1>4, <2>1, <2>3, <2>4, <2>5
<1>7. CASE HeaderReturns
  <2>1. /\ pc = "return" /\ specials = <<>> /\ UNCHANGED <<pos, entry, astray>> /\ Returns("header", res, NoBlock)
        /\ entries' = IF Worked THEN Append(entries, entry) ELSE entries
    BY <1>7 DEF HeaderReturns
  <2>2. res = "warn" /\ clean
    BY <2>1 DEF Returns, Warned
  <2>3. Worked /\ entries' = Append(entries, entry)
    BY <2>1, <2>2 DEF Worked
  <2>4. entries \in Seq(EntryType) /\ entry \in EntryType /\ OnTape
    BY DEF TypeInv, HistoryOK, MediaOK
  <2>5. PICK es : es = Append(entries, entry)
    OBVIOUS
  <2>6. PICK n : n = Len(entries)
    OBVIOUS
  <2>7. n \in Nat /\ Len(es) = n + 1 /\ es[n + 1] = entry /\ \A k \in 1 .. n : es[k] = entries[k]
    BY <2>4, <2>5, <2>6
  <2>8. Len(es) - 1 = n /\ Last(es) = entry /\ entries' = es
    BY <2>3, <2>5, <2>7 DEF Last
  <2>9. OnTrack
    <3>1. ASSUME NEW k \in 1 .. n PROVE entries[k].file > 0 /\ Truthful(entries[k].file)
      <4>1. PICK e : e = es[k]
        OBVIOUS
      <4>2. \A j \in 1 .. Len(entries') - 1 : entries'[j].file > 0 /\ Truthful(entries[j].file)'
        BY DEF Warned
      <4>3. PICK f : f = e.file
        OBVIOUS
      <4>4. k \in 1 .. Len(entries') - 1 /\ entries'[k].file = f
        BY <2>8, <4>1, <4>3
      <4>5. f > 0 /\ Truthful(f)'
        BY <4>2, <4>4
      <4>. QED  BY <1>3, <2>7, <4>1, <4>3, <4>5
    <3>2. ~astray /\ Orderly
      BY <1>5, <2>1 DEF Warned
    <3>3. DOMAIN entries = 1 .. n
      BY <2>4, <2>6
    <3>. QED  BY <2>2, <3>1, <3>2, <3>3 DEF OnTrack, ToSet
  <2>10. PICK f : f = entry.file
    OBVIOUS
  <2>11. f \in Nat
    BY <2>4, <2>10 DEF EntryType
  <2>12. Deserved(f, es, pos)
    <3>1. CASE f = 0
      <4>1. PICK i \in 1 .. Len(Members) : TooManyBefore(i)
        BY <2>1, <2>3, <2>9, <2>10, <3>1 DEF Track
      <4>2. i \in DOMAIN Members
        BY <2>4, TapeIs
      <4>3. Start(i) + Record <= pos /\ Cardinality(Specials(i)) >= MaxDepth /\ Cardinality({j \in Files : j < i}) = Len(es) - 1
        BY <2>6, <2>8, <4>1 DEF TooManyBefore, FilesBefore
      <4>4. \E x \in DOMAIN Members : Start(x) + Record <= pos /\ Cardinality(Specials(x)) >= MaxDepth /\ Cardinality({j \in Files : j < x}) = Len(es) - 1
        BY <4>2, <4>3
      <4>5. ~(f > 0)
        BY <3>1
      <4>. QED  BY <4>4, <4>5 DEF Deserved
    <3>2. CASE f # 0
      <4>1. PICK done \in SUBSET (Specials(f) \cup {f}) : IsOfFile(f, done)
        BY <2>1, <2>3, <2>9, <2>10, <3>2 DEF Track
      <4>2. Malformed(f) # {} \/ Versions(f)
        BY <2>2, <4>1 DEF IsOfFile
      <4>. QED  BY <2>11, <3>2, <4>2 DEF Deserved, Versions
    <3>. QED  BY <3>1, <3>2
  <2>13. PICK p : p = pos
    OBVIOUS
  <2>14. Last(entries').file = f /\ pos' = p /\ Deserved(f, es, p)
    BY <2>1, <2>8, <2>10, <2>12, <2>13
  <2>. QED  BY <1>4, <2>8, <2>14
<1>. QED  BY <1>1, <1>6, <1>7

LEMMA InitReported == Init => Reported
<1>. SUFFICES ASSUME Init PROVE Reported
  OBVIOUS
<1>1. Track /\ pc = "idle" /\ state = "header" /\ OnTape
  BY InitTrack DEF Init, OnTape
<1>2. PICK a \in 1 .. Len(Members) + 1 : AtHeader(a) /\ Specials(a) = {}
  BY <1>1 DEF Track
<1>3. ReadUpTo(a, {})
  BY <1>2 DEF AtHeader
<1>. QED  BY <1>3 DEF Reported

LEMMA InitShows == Init => TrackInv
<1>1. ASSUME Init PROVE TypeInv /\ DepthInv /\ Track /\ Reported
  BY <1>1, InitTypes, InitDepth, InitTrack, InitReported
<1>2. ASSUME Init PROVE BlocksAreWhereTheMapSays
  BY <1>2 DEF Init, BlocksAreWhereTheMapSays
<1>3. ASSUME Init PROVE IsDeserved
  BY <1>3 DEF Init, IsDeserved, Warned
<1>. QED  BY <1>1, <1>2, <1>3 DEF TrackInv

LEMMA NextKeepsTrack == TrackInv /\ [Next]_vars => TrackInv'
<1>. SUFFICES ASSUME TrackInv, [Next]_vars PROVE TrackInv'
  OBVIOUS
<1>1. TypeInv /\ DepthInv /\ (OnTrack => Track /\ Reported) /\ BlocksAreWhereTheMapSays /\ IsDeserved
  BY DEF TrackInv
<1>2. TypeInv' /\ DepthInv' /\ (OnTrack => Track)'
  BY <1>1, NextKeepsTypes, NextKeepsDepth, TrackKept
<1>3. OnTrack' => Reported'
  BY <1>1, <1>2, WasOnTrack, ReportedKept
<1>4. BlocksAreWhereTheMapSays' /\ IsDeserved'
  BY <1>1, BlocksKept, DeservedKept
<1>. QED  BY <1>2, <1>3, <1>4 DEF TrackInv

LEMMA TrackHolds == Spec => []TrackInv
BY InitShows, NextKeepsTrack, PTL DEF Spec

LEMMA TrackShowsHeaders == TrackInv => HeadersAreReadWhereTheyBegin
<1>. SUFFICES ASSUME TrackInv, pc = "header", OnTrack PROVE pos >= Size \/ \E i \in DOMAIN Members : Start(i) = pos
  BY DEF HeadersAreReadWhereTheyBegin
<1>1. Track /\ OnTape
  BY DEF TrackInv, TypeInv, MediaOK
<1>2. PICK a \in 1 .. Len(Members) + 1 : pos = Start(a)
  BY <1>1 DEF Track, Reads, AtHeader
<1>3. Len(Members) \in Nat /\ DOMAIN Members = 1 .. Len(Members) /\ Size \in 0 .. Start(Len(Members) + 1)
  BY <1>1, TapeIs
<1>4. CASE a \in 1 .. Len(Members)
  BY <1>2, <1>3, <1>4
<1>5. CASE a = Len(Members) + 1
  <2>1. pos \in Nat
    BY DEF TrackInv, TypeInv, PlaceOK
  <2>. QED  BY <1>2, <1>3, <1>5, <2>1
<1>. QED  BY <1>3, <1>4, <1>5

LEMMA TrackShowsEntries == TrackInv => EntriesAreTheFiles
<1>. SUFFICES ASSUME TrackInv PROVE EntriesAreTheFiles
  OBVIOUS
<1>1. TypeInv
  BY DEF TrackInv
<1>2. TypeOK /\ HeadersAreReadWhereTheyBegin
  BY <1>1, TypeInvIsTypeOK, TrackShowsHeaders
<1>3. ASSUME OnTrack, NEW k \in DOMAIN entries
      PROVE  entries[k].by = Namer(entries[k].file) /\ Cardinality({i \in Files : i < entries[k].file}) = k - 1
  <2>1. DOMAIN entries = 1 .. Len(entries)
    BY <1>1 DEF TypeInv, HistoryOK
  <2>2. Reported
    BY <1>3 DEF TrackInv
  <2>. QED  BY <2>1, <2>2 DEF Reported, ReadUpTo, ReadIn, FilesBefore
<1>. QED  BY <1>2, <1>3 DEF EntriesAreTheFiles

LEMMA TrackShowsEnd == TrackInv => EndIsTheEnd
<1>. SUFFICES ASSUME TrackInv, state = "eof", OnTrack PROVE EndIsTheEnd
  BY DEF EndIsTheEnd
<1>1. TypeInv /\ DepthInv /\ Track /\ OnTape
  BY DEF TrackInv, TypeInv, MediaOK
<1>2. specials = <<>>
  BY <1>1 DEF DepthInv, TypeInv, CallOK
<1>3. PICK a \in 1 .. Len(Members) + 1 : EndsAt(a)
  BY <1>1 DEF Track
<1>4. ToSet(specials) = {}
  BY <1>2 DEF ToSet
<1>5. ReadUpTo(a, {}) /\ (Start(a) >= Size \/ (~concatenated /\ a \in 1 .. Len(Members) /\ Flag(a) = "null")) /\ (~on_disk => Start(a) <= Size)
  BY <1>3, <1>4 DEF EndsAt
<1>6. Len(Members) \in Nat /\ DOMAIN Members = 1 .. Len(Members) /\ Size \in Nat /\ DOMAIN entries = 1 .. Len(entries) /\ Files \subseteq 1 .. Len(Members) /\ Start(a) \in Nat
  BY <1>1, TapeIs, FilesAre, StartIsNat DEF TypeInv, HistoryOK
<1>7. ASSUME NEW i \in 1 .. Len(Members) + 1, NEW j \in 1 .. Len(Members) + 1, i <= j
      PROVE  Start(i) <= Start(j) /\ Start(i) \in Nat /\ Start(j) \in Nat
  <2>1. Start(i) \in Nat /\ Start(j) \in Nat
    BY <1>1, StartIsNat
  <2>2. CASE i = j
    BY <2>1, <2>2
  <2>3. CASE i < j
    <3>1. PICK x \in Nat, y \in Nat : x = Start(i) /\ y = Start(j)
      BY <2>1
    <3>2. x + Record <= y
      BY <1>1, <2>3, <3>1, StartsGrow
    <3>. QED  BY <3>1, <3>2, RecordIs
  <2>. QED  BY <1>6, <1>7, <2>2, <2>3
<1>8. ASSUME NEW i \in 1 .. Len(Members), i >= a, Flag(i) # "null"
      PROVE  Start(i) >= Size \/ (~concatenated /\ \E j \in 1 .. i - 1 : Flag(j) = "null")
  <2>1. CASE Start(a) >= Size
    <3>1. i \in 1 .. Len(Members) + 1 /\ a <= i
      BY <1>6, <1>8
    <3>2. PICK x \in Nat, y \in Nat : x = Start(a) /\ y = Start(i) /\ x <= y
      BY <1>7, <3>1
    <3>. QED  BY <1>6, <2>1, <3>2
  <2>2. CASE ~concatenated /\ a \in 1 .. Len(Members) /\ Flag(a) = "null"
    <3>1. a # i
      BY <1>8, <2>2
    <3>2. a \in 1 .. i - 1
      BY <1>6, <1>8, <3>1
    <3>. QED  BY <2>2, <3>2
  <2>. QED  BY <1>5, <2>1, <2>2
<1>9. ASSUME NEW i \in Files
      PROVE  \/ Start(i) >= Size
             \/ ~concatenated /\ \E j \in 1 .. i - 1 : Flag(j) = "null"
             \/ \E k \in DOMAIN entries : entries[k].file = i
  <2>1. CASE i < a
    BY <1>5, <1>6, <2>1 DEF ReadUpTo, ReadIn, FilesBefore
  <2>2. CASE ~(i < a)
    <3>1. i \in 1 .. Len(Members) /\ i >= a
      BY <1>6, <2>2
    <3>2. Flag(i) # "null"
      BY <1>1, <3>1, FlagsAre
    <3>. QED  BY <1>8, <3>1, <3>2
  <2>. QED  BY <2>1, <2>2
<1>10. ASSUME NEW j \in DOMAIN Members, Flag(j) \in {"longname", "longlink", "pax"}, Start(j) < Size
       PROVE  \/ ~concatenated /\ \E i \in 1 .. j - 1 : Flag(i) = "null"
              \/ \E k \in DOMAIN entries : j \in Specials(entries[k].file)
  <2>1. CASE j < a
    <3>1. j \in 1 .. a - 1
      BY <1>6, <2>1
    <3>. QED  BY <1>5, <1>6, <1>10, <3>1 DEF ReadUpTo, ReadIn, Wanting
  <2>2. CASE ~(j < a)
    <3>1. j \in 1 .. Len(Members) /\ j >= a /\ j \in 1 .. Len(Members) + 1
      BY <1>6, <2>2
    <3>2. Start(j) \in Nat /\ ~(Start(j) >= Size)
      BY <1>1, <1>6, <1>10, <3>1, StartIsNat
    <3>. QED  BY <1>8, <1>10, <3>1, <3>2
  <2>. QED  BY <2>1, <2>2
<1>11. ASSUME NEW k \in DOMAIN entries
       PROVE  (on_disk /\ k = Len(entries)) \/ Start(entries[k].file + 1) <= Size
  <2>1. k \in 1 .. Len(entries) /\ entries[k].file \in Files /\ entries[k].file < a /\ (k < Len(entries) => Start(entries[k].file + 1) <= Size)
    BY <1>5, <1>6 DEF ReadUpTo, ReadIn
  <2>2. CASE k < Len(entries)
    BY <2>1, <2>2
  <2>3. CASE on_disk /\ k = Len(entries)
    BY <2>3
  <2>4. CASE ~on_disk
    <3>1. PICK f \in 1 .. Len(Members) : f = entries[k].file
      BY <1>6, <2>1
    <3>2. f + 1 \in 1 .. Len(Members) + 1 /\ f + 1 <= a
      <4>1. PICK N : N = Len(Members)
        OBVIOUS
      <4>2. f \in 1 .. N /\ a \in 1 .. N + 1 /\ f < a /\ N \in Nat
        BY <1>6, <2>1, <3>1, <4>1
      <4>3. f + 1 \in 1 .. N + 1 /\ f + 1 <= a
        BY <4>2
      <4>. QED  BY <4>1, <4>3
    <3>3. PICK x \in Nat, y \in Nat : x = Start(f + 1) /\ y = Start(a) /\ x <= y
      BY <1>7, <3>2
    <3>4. x <= Size
      BY <1>5, <1>6, <2>4, <3>3
    <3>. QED  BY <3>1, <3>3, <3>4
  <2>. QED  BY <1>1, <2>1, <2>2, <2>3, <2>4 DEF TypeInv, HistoryOK
<1>. QED  BY <1>9, <1>10, <1>11 DEF EndIsTheEnd

\* However much of an entry has been read, in whatever blocks, and whatever special headers its
\* size and map come from, the next header is looked for where one is, or behind the end of the
\* tape: on every tape whose headers tell the truth, without a failure and without a hole skipped.
THEOREM NextHeaderIsFound == Spec => []HeadersAreReadWhereTheyBegin
BY TrackHolds, TrackShowsHeaders, PTL

\* The entries that the reader reports are the files of the tape, in order and none left out, each
\* with the name that the outermost of its special headers gives it, as long as the recursion of
\* tar_read_header over special headers keeps to the tape.
THEOREM FilesAreReported == Spec => []EntriesAreTheFiles
BY TrackHolds, TrackShowsEntries, PTL

\* An archive that ends without an error has ended: no file and no special header that waits for
\* one is left in front of the record of zeroes, or anywhere on a tape of several archives.
THEOREM EndIsReal == Spec => []EndIsTheEnd
BY TrackHolds, TrackShowsEnd, PTL

\* A block of data is a part of one piece of its own entry's map, from the place where that piece
\* is stored, with the offset that belongs to it, and never of the padding or the next header.
THEOREM BlocksAreTheData == Spec => []BlocksAreWhereTheMapSays
<1>1. TrackInv => BlocksAreWhereTheMapSays
  BY DEF TrackInv
<1>. QED  BY <1>1, TrackHolds, PTL

\* A header comes with a warning for attributes that are malformed, for a sparse version that is
\* not known or for too many special headers in one group, and for nothing that came before it.
THEOREM WarningsHaveReasons == Spec => []WarningsAreDeserved
<1>1. TrackInv => WarningsAreDeserved
  <2>. SUFFICES ASSUME TrackInv PROVE WarningsAreDeserved
    OBVIOUS
  <2>1. DepthIsBalanced
    BY DEF TrackInv, DepthInv, DepthIsBalanced, Zeros, ZerosOf
  <2>2. Warned => Deserved(Last(entries).file, entries, pos)
    BY DEF TrackInv, IsDeserved
  <2>. QED  BY <2>1, <2>2 DEF WarningsAreDeserved, Deserved
<1>. QED  BY <1>1, TrackHolds, PTL
=============================================================================
