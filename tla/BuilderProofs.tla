---------------------------- MODULE BuilderProofs ----------------------------
(***************************************************************************)
(* What holds of the automation builder for every number of tabs and       *)
(* automations, every tree of steps and every bound: first what the        *)
(* editor's operations do to a tree, for trees of every size, then the     *)
(* invariants of the forms and of what is stored.                          *)
(***************************************************************************)
EXTENDS Builder, SequenceTheorems, FiniteSetTheorems, WellFoundedInduction, TLAPS

-----------------------------------------------------------------------------
(* Induction, greatest elements.                                           *)

\* The induction the library states with an operator, for a set.
LEMMA NatInd ==
  ASSUME NEW S, 0 \in S, \A n \in Nat : n \in S => n + 1 \in S
  PROVE  Nat \subseteq S
<1>1. IsWellFoundedOn(OpToRel(<, Nat), Nat)
  BY NatLessThanWellFounded
<1>2. PICK R : R = OpToRel(<, Nat)
  OBVIOUS
<1>3. \A x, y \in Nat : <<x, y>> \in R <=> x < y
  BY <1>2 DEF OpToRel
<1>4. SUFFICES ASSUME Nat \ S # {} PROVE FALSE
  OBVIOUS
<1>5. PICK x \in Nat \ S : \A y \in Nat \ S : ~(<<y, x>> \in R)
  BY <1>1, <1>2, <1>4, WFMin
<1>6. PICK y \in Nat : x = y + 1
  <2>1. x # 0
    BY <1>5
  <2>2. x - 1 \in Nat /\ x = (x - 1) + 1
    BY <2>1
  <2>. QED BY <2>2
<1>7. y < x
  BY <1>6
<1>8. y \in S
  BY <1>3, <1>5, <1>7
<1>. QED BY <1>5, <1>6, <1>8

LEMMA BoundedMax ==
  ASSUME NEW S \in SUBSET Nat, S # {}, NEW k \in Nat, \A x \in S : x <= k
  PROVE  Max(S) \in S /\ \A x \in S : x <= Max(S)
<1> DEFINE P == {n \in Nat : (\E x \in S : k <= x + n) => \E x \in S : \A y \in S : x >= y}
<1>1. 0 \in P
  OBVIOUS
<1>2. ASSUME NEW n \in Nat, n \in P PROVE n + 1 \in P
  <2>1. SUFFICES ASSUME NEW x \in S, k <= x + n + 1, ~\E y \in S : k <= y + n
                 PROVE  \A y \in S : x >= y
    BY <1>2
  <2>. QED BY <2>1
<1> HIDE DEF P
<1>3. Nat \subseteq P
  BY <1>1, <1>2, NatInd
<1>4. k \in P /\ \E x \in S : k <= x + k
  <2>1. PICK x \in S : TRUE
    OBVIOUS
  <2>2. x \in Nat /\ k <= x + k
    BY <2>1
  <2>. QED BY <1>3, <2>2
<1>5. \E x \in S : \A y \in S : x >= y
  BY <1>4 DEF P
<1>. QED BY <1>5 DEF Max

LEMMA FiniteMax ==
  ASSUME NEW S \in SUBSET Nat, S # {}, IsFiniteSet(S)
  PROVE  Max(S) \in S /\ \A x \in S : x <= Max(S)
<1>1. PICK n \in Nat : ExistsSurjection(1..n, S)
  BY FS_NatSurjection
<1>2. PICK f \in [1..n -> S] : \A x \in S : \E i \in 1..n : f[i] = x
  BY <1>1 DEF ExistsSurjection, Surjection
<1> DEFINE P == {m \in Nat : m <= n => \E k \in Nat : \A i \in 1..m : f[i] <= k}
<1>3. 0 \in P
  OBVIOUS
<1>4. ASSUME NEW m \in Nat, m \in P PROVE m + 1 \in P
  <2>1. SUFFICES ASSUME m + 1 <= n PROVE \E k \in Nat : \A i \in 1..(m + 1) : f[i] <= k
    OBVIOUS
  <2>2. PICK k \in Nat : \A i \in 1..m : f[i] <= k
    BY <1>4, <2>1
  <2>3. PICK x : x = f[m + 1]
    OBVIOUS
  <2>4. x \in Nat
    <3>1. m + 1 \in 1..n
      BY <2>1
    <3>. QED BY <1>2, <2>3, <3>1
  <2>5. ASSUME NEW i \in 1..(m + 1) PROVE i \in 1..m \/ i = m + 1
    OBVIOUS
  <2>6. ASSUME NEW i \in 1..(m + 1) PROVE f[i] \in Nat
    <3>1. i \in 1..n
      BY <2>1
    <3>. QED BY <1>2, <3>1
  <2>7. ASSUME NEW i \in 1..(m + 1) PROVE f[i] <= k + x
    BY <2>2, <2>3, <2>4, <2>5, <2>6
  <2>. QED BY <2>4, <2>7
<1> HIDE DEF P
<1>5. Nat \subseteq P
  BY <1>3, <1>4, NatInd
<1>6. PICK k \in Nat : \A i \in 1..n : f[i] <= k
  <2>1. n \in P /\ n <= n
    BY <1>5
  <2>. QED BY <2>1 DEF P
<1>7. \A x \in S : x <= k
  BY <1>2, <1>6
<1>. QED BY <1>7, BoundedMax

-----------------------------------------------------------------------------
(* What is chosen out of a sequence.                                       *)

\* The chosen of each prefix.
Selection(s, T, n, f) ==
  f = [i \in 0..n |-> IF i = 0 THEN <<>>
                      ELSE IF s[i] \in T THEN Append(f[i - 1], s[i]) ELSE f[i - 1]]

LEMMA SelectionExists ==
  ASSUME NEW S, NEW s \in Seq(S), NEW T
  PROVE  \A n \in 0..Len(s) : \E f : Selection(s, T, n, f)
<1> DEFINE P == {n \in Nat : n <= Len(s) => \E f : Selection(s, T, n, f)}
<1>1. 0 \in P
  <2>1. Selection(s, T, 0, [i \in 0..0 |-> <<>>])
    BY DEF Selection
  <2>. QED BY <2>1
<1>2. ASSUME NEW n \in Nat, n \in P PROVE n + 1 \in P
  <2>1. SUFFICES ASSUME n + 1 <= Len(s) PROVE \E f : Selection(s, T, n + 1, f)
    OBVIOUS
  <2>2. PICK f : Selection(s, T, n, f)
    BY <1>2, <2>1
  <2> DEFINE v == IF s[n + 1] \in T THEN Append(f[n], s[n + 1]) ELSE f[n]
             g == [i \in 0..(n + 1) |-> IF i = n + 1 THEN v ELSE f[i]]
  <2>3. \A i \in 0..n : g[i] = f[i]
    OBVIOUS
  <2>4. g[n + 1] = v
    OBVIOUS
  <2>5. ASSUME NEW i \in 0..(n + 1)
        PROVE g[i] = IF i = 0 THEN <<>> ELSE IF s[i] \in T THEN Append(g[i - 1], s[i]) ELSE g[i - 1]
    <3> HIDE DEF g
    <3>1. CASE i = n + 1
      <4>1. n \in 0..n /\ i # 0 /\ i - 1 = n
        BY <3>1
      <4>2. g[i - 1] = f[n]
        BY <2>3, <4>1
      <4>3. g[i] = v
        BY <2>4, <3>1
      <4>. QED BY <3>1, <4>1, <4>2, <4>3
    <3>2. CASE i = 0
      <4>1. f[i] = <<>> /\ i \in 0..n
        BY <2>2, <3>2 DEF Selection
      <4>. QED BY <2>3, <3>2, <4>1
    <3>3. CASE i \in 1..n
      <4>1. f[i] = IF s[i] \in T THEN Append(f[i - 1], s[i]) ELSE f[i - 1]
        <5>1. i \in 0..n /\ i # 0
          BY <3>3
        <5>. QED BY <2>2, <5>1 DEF Selection
      <4>2. i \in 0..n /\ i - 1 \in 0..n /\ i # 0
        BY <3>3
      <4>3. g[i] = f[i] /\ g[i - 1] = f[i - 1]
        BY <2>3, <4>2
      <4>. QED BY <4>1, <4>2, <4>3
    <3>. QED BY <3>1, <3>2, <3>3
  <2>6. Selection(s, T, n + 1, g)
    BY <2>5 DEF Selection
  <2>. QED BY <2>6
<1> HIDE DEF P
<1>3. Nat \subseteq P
  BY <1>1, <1>2, NatInd
<1>. QED BY <1>3 DEF P

LEMMA AmongIs ==
  ASSUME NEW S, NEW s \in Seq(S), NEW T
  PROVE  \E f : Selection(s, T, Len(s), f) /\ Among(s, T) = f[Len(s)]
<1>0. Len(s) \in 0..Len(s)
  OBVIOUS
<1>1. \E f : Selection(s, T, Len(s), f)
  BY <1>0, SelectionExists
<1>2. PICK g : g = CHOOSE f : Selection(s, T, Len(s), f)
  OBVIOUS
<1>3. Selection(s, T, Len(s), g)
  BY <1>1, <1>2
<1>4. Among(s, T) = g[Len(s)]
  BY <1>2, Zenon DEF Among, Selection
<1>. QED BY <1>3, <1>4

\* A sequence whose elements stand in s, each at a place of its own.
PicksFrom(u, s, p) ==
  /\ p \in [DOMAIN u -> DOMAIN s]
  /\ \A i, j \in DOMAIN u : p[i] = p[j] => i = j
  /\ \A i \in DOMAIN u : u[i] = s[p[i]]

\* The chosen of the first n elements of s, and their places.
Upto(S, s, T, u, n, p) ==
  /\ u \in Seq(S)
  /\ p \in [1..Len(u) -> Nat]
  /\ \A i \in 1..Len(u) : 1 <= p[i] /\ p[i] <= n
  /\ \A i, j \in 1..Len(u) : p[i] = p[j] => i = j
  /\ \A i \in 1..Len(u) : u[i] = s[p[i]] /\ u[i] \in T
  /\ \A k \in 1..n : s[k] \in T => \E i \in 1..Len(u) : u[i] = s[k]

LEMMA AmongPicks ==
  ASSUME NEW S, NEW s \in Seq(S), NEW T
  PROVE  /\ Among(s, T) \in Seq(S)
         /\ ToSet(Among(s, T)) = ToSet(s) \cap T
         /\ \E p : PicksFrom(Among(s, T), s, p)
<1>1. PICK f : Selection(s, T, Len(s), f) /\ Among(s, T) = f[Len(s)]
  BY AmongIs
<1> DEFINE P == {n \in Nat : n <= Len(s) => \E p : Upto(S, s, T, f[n], n, p)}
<1>2. 0 \in P
  <2>1. f[0] = <<>>
    BY <1>1 DEF Selection
  <2>2. Upto(S, s, T, <<>>, 0, [i \in 1..0 |-> i])
    BY DEF Upto
  <2>. QED BY <2>1, <2>2
<1>3. ASSUME NEW n \in Nat, n \in P PROVE n + 1 \in P
  <2>1. SUFFICES ASSUME n + 1 <= Len(s) PROVE \E p : Upto(S, s, T, f[n + 1], n + 1, p)
    OBVIOUS
  <2>2. PICK p : Upto(S, s, T, f[n], n, p)
    BY <1>3, <2>1
  <2>3. f[n + 1] = IF s[n + 1] \in T THEN Append(f[n], s[n + 1]) ELSE f[n]
    <3>1. n + 1 \in 0..Len(s) /\ n + 1 # 0 /\ (n + 1) - 1 = n
      BY <2>1
    <3>. QED BY <1>1, <3>1 DEF Selection
  <2>4. PICK u : u = f[n]
    OBVIOUS
  <2>5. s[n + 1] \in S
    BY <2>1
  <2>6. CASE s[n + 1] \notin T
    <3>1. \A k \in 1..(n + 1) : k \in 1..n \/ k = n + 1
      OBVIOUS
    <3>2. Upto(S, s, T, u, n + 1, p)
      <4>1. \A i \in 1..Len(u) : p[i] \in Nat /\ 1 <= p[i] /\ p[i] <= n + 1
        BY <2>2, <2>4 DEF Upto
      <4>2. \A k \in 1..(n + 1) : s[k] \in T => \E i \in 1..Len(u) : u[i] = s[k]
        BY <2>2, <2>4, <2>6, <3>1 DEF Upto
      <4>. QED BY <2>2, <2>4, <4>1, <4>2 DEF Upto
    <3>. QED BY <2>3, <2>4, <2>6, <3>2
  <2>7. CASE s[n + 1] \in T
    <3> DEFINE v == Append(u, s[n + 1])
               q == [i \in 1..(Len(u) + 1) |-> IF i = Len(u) + 1 THEN n + 1 ELSE p[i]]
    <3>1. /\ v \in Seq(S) /\ Len(v) = Len(u) + 1 /\ Len(u) \in Nat
          /\ \A i \in 1..Len(u) : v[i] = u[i]
          /\ v[Len(u) + 1] = s[n + 1]
      BY <2>2, <2>4, <2>5 DEF Upto
    <3>2. \A i \in 1..Len(v) : i \in 1..Len(u) \/ i = Len(u) + 1
      BY <3>1
    <3>3. \A i \in 1..Len(u) : q[i] = p[i] /\ p[i] \in Nat /\ 1 <= p[i] /\ p[i] <= n
      <4>1. \A i \in 1..Len(u) : p[i] \in Nat /\ 1 <= p[i] /\ p[i] <= n
        BY <2>2, <2>4 DEF Upto
      <4>2. \A i \in 1..Len(u) : q[i] = p[i]
        BY <3>1
      <4>. QED BY <4>1, <4>2
    <3>4. q[Len(u) + 1] = n + 1 /\ Len(u) + 1 \in 1..Len(v)
      BY <3>1
    <3>10. q = [i \in 1..Len(v) |-> q[i]]
      BY <3>1
    <3> HIDE DEF v, q
    <3>5. /\ q \in [1..Len(v) -> Nat]
          /\ \A i \in 1..Len(v) : 1 <= q[i] /\ q[i] <= n + 1
      <4>1. \A i \in 1..Len(v) : q[i] \in Nat /\ 1 <= q[i] /\ q[i] <= n + 1
        BY <3>2, <3>3, <3>4
      <4>. QED BY <3>10, <4>1
    <3>6. \A i, j \in 1..Len(v) : q[i] = q[j] => i = j
      <4>1. \A i, j \in 1..Len(u) : p[i] = p[j] => i = j
        BY <2>2, <2>4 DEF Upto
      <4>2. \A i \in 1..Len(u) : q[i] # n + 1
        BY <3>3
      <4>. QED BY <3>2, <3>3, <3>4, <4>1, <4>2
    <3>7. \A i \in 1..Len(v) : v[i] = s[q[i]] /\ v[i] \in T
      BY <2>2, <2>4, <2>7, <3>1, <3>2, <3>3, <3>4 DEF Upto
    <3>8. \A k \in 1..(n + 1) : s[k] \in T => \E i \in 1..Len(v) : v[i] = s[k]
      BY <2>2, <2>4, <3>1, <3>3, <3>4 DEF Upto
    <3>9. Upto(S, s, T, v, n + 1, q)
      BY <3>1, <3>5, <3>6, <3>7, <3>8 DEF Upto
    <3>. QED BY <2>3, <2>4, <2>7, <3>9 DEF v
  <2>. QED BY <2>6, <2>7
<1> HIDE DEF P
<1>4. Nat \subseteq P
  BY <1>2, <1>3, NatInd
<1>5. PICK p : Upto(S, s, T, Among(s, T), Len(s), p)
  <2>1. Len(s) \in P /\ Len(s) <= Len(s)
    BY <1>4
  <2>. QED BY <1>1, <2>1 DEF P
<1>6. PICK u : u = Among(s, T)
  OBVIOUS
<1>7. DOMAIN u = 1..Len(u) /\ DOMAIN s = 1..Len(s) /\ u \in Seq(S)
  BY <1>5, <1>6 DEF Upto
<1>8. PicksFrom(u, s, p)
  BY <1>5, <1>6, <1>7 DEF PicksFrom, Upto
<1>9. ToSet(u) = ToSet(s) \cap T
  <2>1. \A i \in 1..Len(u) : p[i] \in 1..Len(s) /\ u[i] = s[p[i]] /\ u[i] \in T
    BY <1>5, <1>6 DEF Upto
  <2>2. \A k \in 1..Len(s) : s[k] \in T => \E i \in 1..Len(u) : u[i] = s[k]
    BY <1>5, <1>6 DEF Upto
  <2>3. ASSUME NEW x \in ToSet(u) PROVE x \in ToSet(s) \cap T
    BY <1>7, <2>1, <2>3 DEF ToSet
  <2>4. ASSUME NEW x \in ToSet(s) \cap T PROVE x \in ToSet(u)
    <3>1. PICK k \in 1..Len(s) : x = s[k]
      BY <1>7, <2>4 DEF ToSet
    <3>. QED BY <1>7, <2>2, <2>4, <3>1 DEF ToSet
  <2>. QED BY <2>3, <2>4
<1>. QED BY <1>6, <1>7, <1>8, <1>9

LEMMA AmongAll ==
  ASSUME NEW S, NEW s \in Seq(S), NEW T, ToSet(s) \subseteq T
  PROVE  Among(s, T) = s
<1>1. PICK f : Selection(s, T, Len(s), f) /\ Among(s, T) = f[Len(s)]
  BY AmongIs
<1> DEFINE P == {n \in Nat : n <= Len(s) =>
                   f[n] \in Seq(S) /\ Len(f[n]) = n /\ \A i \in 1..n : f[n][i] = s[i]}
<1>2. 0 \in P
  <2>1. f[0] = <<>>
    BY <1>1 DEF Selection
  <2>2. PICK u : u = f[0]
    OBVIOUS
  <2>3. u \in Seq(S) /\ Len(u) = 0
    BY <2>1, <2>2
  <2>4. \A i \in 1..0 : f[0][i] = s[i]
    OBVIOUS
  <2>. QED BY <2>2, <2>3, <2>4
<1>3. ASSUME NEW n \in Nat, n \in P PROVE n + 1 \in P
  <2>1. SUFFICES ASSUME n + 1 <= Len(s)
                 PROVE  /\ f[n + 1] \in Seq(S) /\ Len(f[n + 1]) = n + 1
                        /\ \A i \in 1..(n + 1) : f[n + 1][i] = s[i]
    OBVIOUS
  <2>2. s[n + 1] \in S /\ s[n + 1] \in T
    BY <2>1 DEF ToSet
  <2>3. f[n + 1] = Append(f[n], s[n + 1])
    BY <1>1, <2>1, <2>2 DEF Selection
  <2>4. PICK u : u = f[n]
    OBVIOUS
  <2>5. u \in Seq(S) /\ Len(u) = n /\ \A i \in 1..n : u[i] = s[i]
    BY <1>3, <2>1, <2>4
  <2>6. PICK v : v = Append(u, s[n + 1])
    OBVIOUS
  <2>7. v \in Seq(S) /\ Len(v) = n + 1 /\ \A i \in 1..(n + 1) : v[i] = s[i]
    BY <2>2, <2>5, <2>6
  <2>. QED BY <2>3, <2>4, <2>6, <2>7
<1> HIDE DEF P
<1>4. Nat \subseteq P
  BY <1>2, <1>3, NatInd
<1>5. PICK u : u = Among(s, T)
  OBVIOUS
<1>6. u \in Seq(S) /\ Len(u) = Len(s) /\ \A i \in 1..Len(s) : u[i] = s[i]
  <2>1. Len(s) \in P /\ Len(s) <= Len(s)
    BY <1>4
  <2>. QED BY <1>1, <1>5, <2>1 DEF P
<1>. QED BY <1>5, <1>6, SeqEqual

LEMMA AmongNone ==
  ASSUME NEW S, NEW s \in Seq(S), NEW T, ToSet(s) \cap T = {}
  PROVE  Among(s, T) = <<>>
<1>1. PICK u : u = Among(s, T)
  OBVIOUS
<1>2. u \in Seq(S) /\ ToSet(u) = {}
  BY <1>1, AmongPicks
<1>3. Len(u) = 0
  BY <1>2 DEF ToSet
<1>. QED BY <1>1, <1>2, <1>3

-----------------------------------------------------------------------------
(* Sequences with an element more or less, and rearranged.                 *)

LEMMA Piece ==
  ASSUME NEW S, NEW s \in Seq(S), NEW m \in Nat, NEW n \in Nat, 1 <= m, m <= n + 1, n <= Len(s)
  PROVE  /\ SubSeq(s, m, n) \in Seq(S)
         /\ Len(SubSeq(s, m, n)) = n + 1 - m
         /\ \A i \in 1..(n + 1 - m) : SubSeq(s, m, n)[i] = s[m + i - 1]
<1>1. \A i \in m..n : s[i] \in S
  OBVIOUS
<1>. QED BY <1>1, SubSeqProperties

LEMMA Joined ==
  ASSUME NEW S, NEW u \in Seq(S), NEW w \in Seq(S), NEW m \in Nat, NEW k \in Nat,
         Len(u) = m, Len(w) = k - m
  PROVE  /\ u \o w \in Seq(S) /\ Len(u \o w) = k
         /\ \A j \in 1..k : (u \o w)[j] = IF j <= m THEN u[j] ELSE w[j - m]
<1>1. Len(u) + Len(w) = k
  OBVIOUS
<1>2. PICK x : x = u \o w
  OBVIOUS
<1>3. /\ x \in Seq(S) /\ Len(x) = Len(u) + Len(w)
      /\ \A j \in 1..(Len(u) + Len(w)) : x[j] = IF j <= Len(u) THEN u[j] ELSE w[j - Len(u)]
  BY <1>2, ConcatProperties
<1>4. \A j \in 1..k : x[j] = IF j <= m THEN u[j] ELSE w[j - m]
  BY <1>1, <1>3
<1>. QED BY <1>1, <1>2, <1>3, <1>4

\* The sequence u is s with e as its i-th element.
Inserted(S, s, i, e, u) ==
  /\ u \in Seq(S) /\ Len(u) = Len(s) + 1
  /\ \A j \in 1..(Len(s) + 1) : u[j] = IF j < i THEN s[j] ELSE IF j = i THEN e ELSE s[j - 1]

LEMMA InsertAtIs ==
  ASSUME NEW S, NEW s \in Seq(S), NEW i \in 1..(Len(s) + 1), NEW e \in S
  PROVE  Inserted(S, s, i, e, InsertAt(s, i, e))
<1>1. PICK u : u = SubSeq(s, 1, i - 1)
  OBVIOUS
<1>2. PICK w : w = SubSeq(s, i, Len(s))
  OBVIOUS
<1>3. u \in Seq(S) /\ Len(u) = i - 1 /\ \A j \in 1..(i - 1) : u[j] = s[j]
  <2>1. i - 1 \in Nat
    OBVIOUS
  <2>. QED BY <1>1, <2>1, Piece
<1>4. w \in Seq(S) /\ Len(w) = Len(s) + 1 - i /\ \A j \in 1..(Len(s) + 1 - i) : w[j] = s[i + j - 1]
  BY <1>2, Piece
<1>5. PICK v : v = u \o <<e>>
  OBVIOUS
<1>6. v \in Seq(S) /\ Len(v) = i /\ \A j \in 1..i : v[j] = IF j < i THEN s[j] ELSE e
  BY <1>3, <1>5
<1>7. InsertAt(s, i, e) = v \o w
  BY <1>1, <1>2, <1>5 DEF InsertAt
<1>8. PICK x : x = v \o w
  OBVIOUS
<1>9. x \in Seq(S) /\ Len(x) = Len(s) + 1
      /\ \A j \in 1..(Len(s) + 1) : x[j] = IF j <= i THEN v[j] ELSE w[j - i]
  BY <1>4, <1>6, <1>8, Joined
<1>10. ASSUME NEW j \in 1..(Len(s) + 1)
       PROVE  x[j] = IF j < i THEN s[j] ELSE IF j = i THEN e ELSE s[j - 1]
  <2>1. CASE j <= i
    BY <1>6, <1>9, <2>1
  <2>2. CASE j > i
    <3>1. j - i \in 1..(Len(s) + 1 - i) /\ i + (j - i) - 1 = j - 1
      BY <2>2
    <3>. QED BY <1>4, <1>9, <2>2, <3>1
  <2>. QED BY <2>1, <2>2
<1>. QED BY <1>7, <1>8, <1>9, <1>10 DEF Inserted

LEMMA RemoveAtIs ==
  ASSUME NEW S, NEW s \in Seq(S), NEW i \in 1..Len(s)
  PROVE  RemoveAt(s, i) \in Seq(S) /\ Len(RemoveAt(s, i)) = Len(s) - 1
<1>1. PICK k \in Nat : k = i - 1
  OBVIOUS
<1>2. PICK u : u = SubSeq(s, 1, k)
  OBVIOUS
<1>3. PICK w : w = SubSeq(s, i + 1, Len(s))
  OBVIOUS
<1>4. u \in Seq(S) /\ Len(u) = k
  BY <1>1, <1>2, Piece
<1>5. w \in Seq(S) /\ Len(w) = Len(s) - i
  BY <1>3, Piece
<1>6. RemoveAt(s, i) = u \o w
  BY <1>1, <1>2, <1>3 DEF RemoveAt
<1>7. u \o w \in Seq(S) /\ Len(u \o w) = Len(u) + Len(w)
  BY <1>4, <1>5, ConcatProperties
<1>8. Len(u) + Len(w) = Len(s) - 1
  BY <1>1, <1>4, <1>5
<1>. QED BY <1>6, <1>7, <1>8

\* Two neighbouring pieces of a sequence change places.
Swap(s, b, i, l) ==
  SubSeq(s, 1, b - 1) \o SubSeq(s, i, l) \o SubSeq(s, b, i - 1) \o SubSeq(s, l + 1, Len(s))

LEMMA Swapped ==
  ASSUME NEW S, NEW s \in Seq(S), NEW b \in Nat, NEW i \in Nat, NEW l \in Nat,
         1 <= b, b < i, i <= l, l <= Len(s), NEW u, u = Swap(s, b, i, l)
  PROVE  /\ u \in Seq(S) /\ ToSet(u) = ToSet(s)
         /\ \E p : PicksFrom(u, s, p)
<1>0. PICK n \in Nat : n = Len(s) /\ l <= n
  OBVIOUS
<1>1. PICK c \in Nat : c = b - 1
  OBVIOUS
<1>2. PICK h \in Nat : h = i - 1
  OBVIOUS
<1>3. PICK d \in Nat : d = b + l - i
  OBVIOUS
<1>4. PICK u1 : u1 = SubSeq(s, 1, c)
  OBVIOUS
<1>5. PICK u2 : u2 = SubSeq(s, i, l)
  OBVIOUS
<1>6. PICK u3 : u3 = SubSeq(s, b, h)
  OBVIOUS
<1>7. PICK u4 : u4 = SubSeq(s, l + 1, n)
  OBVIOUS
<1>8. u1 \in Seq(S) /\ Len(u1) = c /\ \A j \in 1..c : u1[j] = s[j]
  BY <1>0, <1>1, <1>4, Piece
<1>9. u2 \in Seq(S) /\ Len(u2) = d - c /\ \A j \in 1..(d - c) : u2[j] = s[i + j - 1]
  <2>1. d - c = l + 1 - i
    BY <1>1, <1>3
  <2>. QED BY <1>0, <1>5, <2>1, Piece
<1>10. u3 \in Seq(S) /\ Len(u3) = l - d /\ \A j \in 1..(l - d) : u3[j] = s[b + j - 1]
  <2>1. l - d = h + 1 - b
    BY <1>2, <1>3
  <2>2. b <= h + 1 /\ h <= Len(s)
    BY <1>0, <1>2
  <2>. QED BY <1>6, <2>1, <2>2, Piece
<1>11. u4 \in Seq(S) /\ Len(u4) = n - l /\ \A j \in 1..(n - l) : u4[j] = s[l + j]
  <2>1. n - l = n + 1 - (l + 1) /\ l + 1 \in Nat
    OBVIOUS
  <2>2. \A j \in 1..(n - l) : (l + 1) + j - 1 = l + j
    OBVIOUS
  <2>. QED BY <1>0, <1>7, <2>1, <2>2, Piece
<1>12. PICK v : v = u1 \o u2
  OBVIOUS
<1>13. PICK w : w = v \o u3
  OBVIOUS
<1>14. u = w \o u4
  BY <1>0, <1>1, <1>2, <1>4, <1>5, <1>6, <1>7, <1>12, <1>13 DEF Swap
<1>15. /\ v \in Seq(S) /\ Len(v) = d
       /\ \A j \in 1..d : v[j] = IF j <= c THEN u1[j] ELSE u2[j - c]
  BY <1>8, <1>9, <1>12, Joined
<1>16. /\ w \in Seq(S) /\ Len(w) = l
       /\ \A j \in 1..l : w[j] = IF j <= d THEN v[j] ELSE u3[j - d]
  BY <1>10, <1>13, <1>15, Joined
<1>17. /\ u \in Seq(S) /\ Len(u) = n
       /\ \A j \in 1..n : u[j] = IF j <= l THEN w[j] ELSE u4[j - l]
  <2>1. Len(u4) = n - l /\ u4 \in Seq(S) /\ w \in Seq(S) /\ Len(w) = l
    BY <1>11, <1>16
  <2>2. /\ w \o u4 \in Seq(S) /\ Len(w \o u4) = n
        /\ \A j \in 1..n : (w \o u4)[j] = IF j <= l THEN w[j] ELSE u4[j - l]
    BY <2>1, Joined
  <2>. QED BY <1>14, <2>2
<1> DEFINE At(j) == IF j <= c THEN j ELSE IF j <= d THEN i + j - b
                    ELSE IF j <= l THEN j + i - 1 - l ELSE j
           p == [j \in 1..n |-> At(j)]
<1>18. ASSUME NEW j \in 1..n PROVE u[j] = s[At(j)]
  <2>0. c <= d /\ d <= l
    BY <1>1, <1>3
  <2>1. CASE j <= c
    <3>1. j \in 1..c /\ j \in 1..d /\ j \in 1..l /\ j <= d /\ j <= l
      BY <2>0, <2>1
    <3>2. u[j] = w[j] /\ w[j] = v[j] /\ v[j] = u1[j] /\ u1[j] = s[j]
      BY <1>8, <1>15, <1>16, <1>17, <2>1, <3>1
    <3>. QED BY <2>1, <3>2
  <2>2. CASE ~(j <= c) /\ j <= d
    <3>1. /\ j \in 1..d /\ j \in 1..l /\ j <= l /\ j - c \in 1..(d - c)
          /\ i + (j - c) - 1 = i + j - b
      BY <1>1, <2>0, <2>2
    <3>2. u[j] = w[j] /\ w[j] = v[j] /\ v[j] = u2[j - c]
      BY <1>15, <1>16, <1>17, <2>2, <3>1
    <3>3. u2[j - c] = s[i + j - b]
      BY <1>9, <3>1
    <3>. QED BY <2>2, <3>2, <3>3
  <2>3. CASE ~(j <= d) /\ j <= l
    <3>1. /\ j \in 1..l /\ j - d \in 1..(l - d) /\ ~(j <= c)
          /\ b + (j - d) - 1 = j + i - 1 - l
      BY <1>3, <2>0, <2>3
    <3>2. u[j] = w[j] /\ w[j] = u3[j - d]
      BY <1>16, <1>17, <2>3, <3>1
    <3>3. u3[j - d] = s[j + i - 1 - l]
      BY <1>10, <3>1
    <3>. QED BY <2>3, <3>1, <3>2, <3>3
  <2>4. CASE ~(j <= l)
    <3>1. j - l \in 1..(n - l) /\ l + (j - l) = j /\ ~(j <= c) /\ ~(j <= d)
      BY <2>0, <2>4
    <3>2. u[j] = u4[j - l] /\ u4[j - l] = s[j]
      BY <1>11, <1>17, <2>4, <3>1
    <3>. QED BY <2>4, <3>1, <3>2
  <2>. QED BY <2>1, <2>2, <2>3, <2>4
<1>19. \A j \in 1..n : At(j) \in 1..n
  BY <1>0, <1>1, <1>3
<1>20. \A j, k \in 1..n : At(j) = At(k) => j = k
  BY <1>0, <1>1, <1>3
<1>21. ASSUME NEW k \in 1..n PROVE \E j \in 1..n : At(j) = k
  <2>1. CASE k <= c \/ k > l
    <3>1. At(k) = k
      BY <1>0, <1>1, <1>3, <2>1
    <3>. QED BY <3>1
  <2>2. CASE i <= k /\ k <= l
    <3>1. k + b - i \in 1..n /\ At(k + b - i) = k
      BY <1>0, <1>1, <1>3, <2>2
    <3>. QED BY <3>1
  <2>3. CASE c < k /\ k < i
    <3>1. k + l + 1 - i \in 1..n /\ At(k + l + 1 - i) = k
      BY <1>0, <1>1, <1>3, <2>3
    <3>. QED BY <3>1
  <2>. QED BY <2>1, <2>2, <2>3
<1> HIDE DEF At
<1>22. DOMAIN u = 1..n /\ DOMAIN s = 1..n
  <2>1. DOMAIN u = 1..Len(u) /\ DOMAIN s = 1..Len(s)
    BY <1>17, LenProperties
  <2>. QED BY <1>0, <1>17, <2>1
<1>23. PicksFrom(u, s, p)
  BY <1>18, <1>19, <1>20, <1>22 DEF PicksFrom
<1>24. ToSet(u) = ToSet(s)
  <2>1. \A x \in ToSet(u) : x \in ToSet(s)
    BY <1>18, <1>19, <1>22 DEF ToSet
  <2>2. ASSUME NEW x \in ToSet(s) PROVE x \in ToSet(u)
    <3>1. PICK k \in 1..n : x = s[k]
      BY <1>22 DEF ToSet
    <3>2. PICK j \in 1..n : At(j) = k
      BY <1>21
    <3>. QED BY <1>18, <1>22, <3>1, <3>2 DEF ToSet
  <2>. QED BY <2>1, <2>2
<1>. QED BY <1>17, <1>23, <1>24

-----------------------------------------------------------------------------
(* Trees of steps, and what the editor's operations make of them.          *)

\* The keys of the steps differ, some step is at the top, and a step stands
\* under steps of the tree and under whatever those stand under.
Tree(steps) ==
  /\ steps \in Seq(Step)
  /\ \A i, j \in DOMAIN steps : steps[i].key = steps[j].key => i = j
  /\ \E n \in ToSet(steps) : n.path = <<>>
  /\ \A n \in ToSet(steps) : \A key \in Above(n) : \E m \in ToSet(steps) : m.key = key
  /\ \A n, m \in ToSet(steps) : m.key \in Above(n) => Above(m) \subseteq Above(n)

LEMMA KeysDiffer ==
  ASSUME NEW s
  PROVE  IsInjective(Keys(s)) <=> \A i, j \in DOMAIN s : s[i].key = s[j].key => i = j
BY DEF IsInjective, Keys

LEMMA InSeq ==
  ASSUME NEW S, NEW s \in Seq(S)
  PROVE  /\ ToSet(s) \subseteq S
         /\ \A x \in ToSet(s) : \E i \in DOMAIN s : s[i] = x
         /\ \A i \in DOMAIN s : s[i] \in ToSet(s) /\ s[i] \in S
         /\ DOMAIN s = 1..Len(s) /\ Len(s) \in Nat
BY DEF ToSet

\* A tree has one step of each key.
LEMMA OneStepAKey ==
  ASSUME NEW steps, Tree(steps), NEW n \in ToSet(steps), NEW m \in ToSet(steps), n.key = m.key
  PROVE  n = m
BY DEF Tree, ToSet

LEMMA AboveEmpty ==
  ASSUME NEW n, n.path = <<>>
  PROVE  Above(n) = {}
BY DEF Above

LEMMA AboveUnder ==
  ASSUME NEW n, NEW x, n.path \in Path, NEW k \in Nat, NEW b \in Branches,
         x.path = Append(n.path, <<k, b>>)
  PROVE  Above(x) = Above(n) \cup {k}
<1>1. PICK p \in Seq(Nat \X Branches) : p = n.path
  BY DEF Path
<1>2. PICK e : e = <<k, b>> /\ e \in Nat \X Branches /\ e[1] = k
  <2>1. <<k, b>> \in Nat \X Branches /\ <<k, b>>[1] = k
    OBVIOUS
  <2>. QED BY <2>1, Zenon
<1>3. PICK q : q = Append(p, e)
  OBVIOUS
<1>4. /\ q \in Seq(Nat \X Branches) /\ Len(q) = Len(p) + 1
      /\ \A i \in 1..Len(p) : q[i] = p[i]
      /\ q[Len(p) + 1] = e
  BY <1>1, <1>2, <1>3, AppendProperties
<1>5. DOMAIN p = 1..Len(p) /\ DOMAIN q = 1..(Len(p) + 1) /\ Len(p) \in Nat
  BY <1>4
<1>6. Above(n) = {p[i][1] : i \in DOMAIN p} /\ Above(x) = {q[i][1] : i \in DOMAIN q}
  BY <1>1, <1>2, <1>3 DEF Above
<1>7. \A i \in 1..(Len(p) + 1) : i \in 1..Len(p) \/ i = Len(p) + 1
  BY <1>5
<1>8. \A i \in 1..Len(p) : i \in 1..(Len(p) + 1)
  BY <1>5
<1>9. Len(p) + 1 \in 1..(Len(p) + 1)
  BY <1>5
<1>10. ASSUME NEW y \in Above(x) PROVE y \in Above(n) \cup {k}
  BY <1>2, <1>4, <1>5, <1>6, <1>7, <1>10
<1>11. ASSUME NEW y \in Above(n) \cup {k} PROVE y \in Above(x)
  <2>1. CASE y = k
    <3>1. q[Len(p) + 1][1] = k
      BY <1>2, <1>4
    <3>. QED BY <1>5, <1>6, <1>9, <2>1, <3>1
  <2>2. CASE y \in Above(n)
    <3>1. PICK i \in 1..Len(p) : y = p[i][1]
      BY <1>5, <1>6, <2>2
    <3>2. i \in DOMAIN q /\ q[i] = p[i]
      BY <1>4, <1>5, <1>8
    <3>. QED BY <1>6, <3>1, <3>2
  <2>. QED BY <1>11, <2>1, <2>2
<1>. QED BY <1>10, <1>11

\* Steps that stand in another tree, each at a place of its own.
LEMMA PickedKeysDiffer ==
  ASSUME NEW s, NEW u, NEW p, PicksFrom(u, s, p),
         \A i, j \in DOMAIN s : s[i].key = s[j].key => i = j
  PROVE  \A i, j \in DOMAIN u : u[i].key = u[j].key => i = j
BY DEF PicksFrom

LEMMA RearrangedTree ==
  ASSUME NEW steps, Tree(steps), NEW u \in Seq(Step), ToSet(u) = ToSet(steps),
         \E p : PicksFrom(u, steps, p)
  PROVE  Tree(u)
<1>1. \A i, j \in DOMAIN u : u[i].key = u[j].key => i = j
  BY PickedKeysDiffer DEF Tree
<1>. QED BY <1>1 DEF Tree

LEMMA MovedUpTree ==
  ASSUME NEW steps, Tree(steps), NEW j \in DOMAIN steps, NEW i \in DOMAIN steps,
         j < i, steps[j].path = <<>>
  PROVE  Tree(MovedUp(steps, i)) /\ ToSet(MovedUp(steps, i)) = ToSet(steps)
<1>1. steps \in Seq(Step) /\ DOMAIN steps = 1..Len(steps) /\ Len(steps) \in Nat
  BY InSeq DEF Tree
<1>2. PICK A : A = {k \in 1..(i - 1) : steps[k].path = <<>>}
  OBVIOUS
<1>3. PICK B : B = {k \in DOMAIN steps : k = i \/ steps[i].key \in Above(steps[k])}
  OBVIOUS
<1>4. Max(A) \in A
  <2>1. A \in SUBSET Nat /\ \A x \in A : x <= Len(steps)
    BY <1>1, <1>2
  <2>2. j \in A
    BY <1>1, <1>2
  <2>. QED BY <1>1, <2>1, <2>2, BoundedMax
<1>5. Max(B) \in B /\ i <= Max(B)
  <2>1. B \in SUBSET Nat /\ \A x \in B : x <= Len(steps)
    BY <1>1, <1>3
  <2>2. i \in B
    BY <1>3
  <2>. QED BY <1>1, <2>1, <2>2, BoundedMax
<1>11. i \in Nat
  BY <1>1
<1>6. PICK b \in Nat : b = Max(A) /\ 1 <= b /\ b < i
  <2>1. Max(A) \in 1..(i - 1)
    BY <1>2, <1>4
  <2>. QED BY <1>11, <2>1
<1>7. PICK l \in Nat : l = Max(B) /\ i <= l /\ l <= Len(steps)
  <2>1. Max(B) \in 1..Len(steps)
    BY <1>1, <1>3, <1>5
  <2>. QED BY <1>1, <1>5, <2>1
<1>8. PICK u : u = Swap(steps, b, i, l)
  OBVIOUS
<1>9. MovedUp(steps, i) = u
  BY <1>2, <1>3, <1>6, <1>7, <1>8 DEF MovedUp, Swap
<1>10. /\ u \in Seq(Step) /\ ToSet(u) = ToSet(steps)
       /\ \E p : PicksFrom(u, steps, p)
  <2>1. /\ steps \in Seq(Step) /\ b \in Nat /\ i \in Nat /\ l \in Nat
        /\ 1 <= b /\ b < i /\ i <= l /\ l <= Len(steps)
    BY <1>1, <1>6, <1>7, <1>11
  <2>. QED BY <1>8, <2>1, Swapped
<1>. QED BY <1>9, <1>10, RearrangedTree

LEMMA RemovedTree ==
  ASSUME NEW steps, Tree(steps), NEW n \in ToSet(steps),
         n.path = <<>> => \E m \in ToSet(steps) \ {n} : m.path = <<>>
  PROVE  /\ Tree(removeActionStep(steps, n.key))
         /\ ToSet(removeActionStep(steps, n.key)) \subseteq ToSet(steps)
<1>1. PICK T : T = {m \in ToSet(steps) : m.key # n.key /\ n.key \notin Above(m)}
  OBVIOUS
<1>2. PICK u : u = Among(steps, T)
  OBVIOUS
<1>3. removeActionStep(steps, n.key) = u
  BY <1>1, <1>2 DEF removeActionStep
<1>4. u \in Seq(Step) /\ ToSet(u) = T /\ \E p : PicksFrom(u, steps, p)
  <2>1. u \in Seq(Step) /\ ToSet(u) = ToSet(steps) \cap T /\ \E p : PicksFrom(u, steps, p)
    BY <1>2, AmongPicks DEF Tree
  <2>. QED BY <1>1, <2>1
<1>5. \A i, j \in DOMAIN u : u[i].key = u[j].key => i = j
  BY <1>4, PickedKeysDiffer DEF Tree
<1>6. \E m \in T : m.path = <<>>
  <2>1. PICK m \in ToSet(steps) : m.path = <<>> /\ m # n
    BY DEF Tree
  <2>2. m.key # n.key
    BY <2>1, OneStepAKey
  <2>3. Above(m) = {}
    BY <2>1, AboveEmpty
  <2>. QED BY <1>1, <2>1, <2>2, <2>3
<1>7. ASSUME NEW x \in T, NEW key \in Above(x) PROVE \E m \in T : m.key = key
  <2>1. x \in ToSet(steps) /\ key # n.key
    BY <1>1, <1>7
  <2>2. PICK m \in ToSet(steps) : m.key = key
    BY <2>1, <1>7 DEF Tree
  <2>3. Above(m) \subseteq Above(x)
    BY <1>7, <2>1, <2>2 DEF Tree
  <2>. QED BY <1>1, <2>1, <2>2, <2>3
<1>8. \A x, m \in T : m.key \in Above(x) => Above(m) \subseteq Above(x)
  BY <1>1 DEF Tree
<1>. QED BY <1>1, <1>3, <1>4, <1>5, <1>6, <1>7, <1>8 DEF Tree

LEMMA EmptyStep ==
  ASSUME NEW key \in Nat, NEW type \in Types, NEW path \in Path
  PROVE  LET n == emptyActionStep(key, type, path)
         IN  n \in Step /\ n.key = key /\ n.type = type /\ n.path = path
             /\ n.buttons = <<>> /\ ~n.media /\ n.delay = "none"
BY DEF emptyActionStep, Step, Tests, Delays

LEMMA NoPath == <<>> \in Path
BY DEF Path

\* A step of a new key, under steps of the tree.
Fits(steps, x) ==
  /\ x \in Step
  /\ \A n \in ToSet(steps) : n.key # x.key
  /\ \A key \in Above(x) : \E m \in ToSet(steps) : m.key = key
  /\ \A m \in ToSet(steps) : m.key \in Above(x) => Above(m) \subseteq Above(x)

LEMMA GrownTree ==
  ASSUME NEW steps, Tree(steps), NEW x, Fits(steps, x), NEW u,
         NEW i \in 1..(Len(steps) + 1), Inserted(Step, steps, i, x, u)
  PROVE  Tree(u) /\ ToSet(u) = ToSet(steps) \cup {x}
<1>1. /\ steps \in Seq(Step) /\ Len(steps) \in Nat /\ DOMAIN steps = 1..Len(steps)
      /\ DOMAIN u = 1..(Len(steps) + 1)
  <2>1. DOMAIN u = 1..Len(u)
    BY InSeq DEF Inserted
  <2>. QED BY <2>1, InSeq DEF Tree, Inserted
<1>2. PICK k \in Nat : k = Len(steps)
  BY <1>1
<1>3. /\ u[i] = x
      /\ \A j \in 1..k : j < i => u[j] = steps[j]
      /\ \A j \in 1..k : j >= i => u[j + 1] = steps[j]
  BY <1>2 DEF Inserted
<1>4. ASSUME NEW j \in 1..(k + 1) PROVE u[j] = x \/ u[j] \in ToSet(steps)
  <2>1. CASE j < i
    BY <1>1, <1>2, <2>1 DEF ToSet, Inserted
  <2>2. CASE j = i
    BY <1>3, <2>2
  <2>3. CASE j > i
    <3>1. j - 1 \in DOMAIN steps /\ u[j] = steps[j - 1]
      BY <1>1, <1>2, <2>3 DEF Inserted
    <3>. QED BY <3>1 DEF ToSet
  <2>. QED BY <2>1, <2>2, <2>3
<1>5. ToSet(u) = ToSet(steps) \cup {x}
  <2>1. ASSUME NEW y \in ToSet(u) PROVE y \in ToSet(steps) \cup {x}
    BY <1>1, <1>2, <1>4, <2>1 DEF ToSet
  <2>2. ASSUME NEW y \in ToSet(steps) PROVE y \in ToSet(u)
    <3>1. PICK j \in 1..k : y = steps[j]
      BY <1>1, <1>2, <2>2 DEF ToSet
    <3>2. j \in DOMAIN u /\ j + 1 \in DOMAIN u
      BY <1>1, <1>2
    <3>3. u[j] = y \/ u[j + 1] = y
      BY <1>3, <3>1
    <3>. QED BY <3>2, <3>3 DEF ToSet
  <2>3. x \in ToSet(u)
    BY <1>1, <1>3 DEF ToSet
  <2>. QED BY <2>1, <2>2, <2>3
<1>6. ASSUME NEW j \in DOMAIN u, NEW l \in DOMAIN u, u[j].key = u[l].key PROVE j = l
  <2>1. ASSUME NEW h \in 1..(k + 1), h # i
        PROVE  /\ u[h] \in ToSet(steps)
               /\ (IF h < i THEN h ELSE h - 1) \in DOMAIN steps
               /\ u[h] = steps[IF h < i THEN h ELSE h - 1]
    <3>1. CASE h < i
      BY <1>1, <1>2, <3>1 DEF ToSet, Inserted
    <3>2. CASE h > i
      <4>1. h - 1 \in DOMAIN steps /\ u[h] = steps[h - 1]
        BY <1>1, <1>2, <3>2 DEF Inserted
      <4>. QED BY <3>2, <4>1 DEF ToSet
    <3>. QED BY <2>1, <3>1, <3>2
  <2>2. j \in 1..(k + 1) /\ l \in 1..(k + 1)
    BY <1>1, <1>2
  <2>3. CASE j = i \/ l = i
    BY <1>3, <1>6, <2>1, <2>2, <2>3 DEF Fits
  <2>4. CASE j # i /\ l # i
    <3>1. (IF j < i THEN j ELSE j - 1) = (IF l < i THEN l ELSE l - 1)
      BY <1>6, <2>1, <2>2, <2>4 DEF Tree
    <3>. QED BY <2>2, <2>4, <3>1
  <2>. QED BY <2>3, <2>4
<1>7. \A n \in ToSet(steps) : x.key \notin Above(n)
  BY DEF Tree, Fits
<1>8. x.key \notin Above(x)
  BY DEF Fits
<1>9. \E n \in ToSet(u) : n.path = <<>>
  BY <1>5 DEF Tree
<1>10. \A n \in ToSet(u) : \A key \in Above(n) : \E m \in ToSet(u) : m.key = key
  BY <1>5 DEF Tree, Fits
<1>11. \A n, m \in ToSet(u) : m.key \in Above(n) => Above(m) \subseteq Above(n)
  BY <1>5, <1>7, <1>8 DEF Tree, Fits
<1>. QED BY <1>5, <1>6, <1>9, <1>10, <1>11 DEF Tree, Inserted

LEMMA AppendedTree ==
  ASSUME NEW steps, Tree(steps), NEW x \in Step, x.path = <<>>,
         \A n \in ToSet(steps) : n.key # x.key
  PROVE  Tree(Append(steps, x)) /\ ToSet(Append(steps, x)) = ToSet(steps) \cup {x}
<1>1. steps \in Seq(Step) /\ Len(steps) \in Nat
  BY DEF Tree
<1>2. PICK u : u = Append(steps, x)
  OBVIOUS
<1>3. /\ u \in Seq(Step) /\ Len(u) = Len(steps) + 1
      /\ \A j \in 1..Len(steps) : u[j] = steps[j]
      /\ u[Len(steps) + 1] = x
  BY <1>1, <1>2
<1>4. PICK i \in 1..(Len(steps) + 1) : i = Len(steps) + 1
  BY <1>1
<1>5. \A j \in 1..(Len(steps) + 1) :
        u[j] = IF j < i THEN steps[j] ELSE IF j = i THEN x ELSE steps[j - 1]
  BY <1>1, <1>3, <1>4
<1>6. Above(x) = {}
  BY AboveEmpty
<1>7. Fits(steps, x) /\ Inserted(Step, steps, i, x, u)
  BY <1>3, <1>5, <1>6 DEF Fits, Inserted
<1>8. Tree(u) /\ ToSet(u) = ToSet(steps) \cup {x}
  BY <1>7, GrownTree
<1>. QED BY <1>2, <1>8

LEMMA AddedTree ==
  ASSUME NEW steps, Tree(steps), NEW n \in ToSet(steps), NEW branch \in Branches,
         NEW key \in Nat, \A m \in ToSet(steps) : m.key # key, NEW type \in Types
  PROVE  /\ Tree(addActionStep(steps, n, branch, key, type))
         /\ \A x \in ToSet(addActionStep(steps, n, branch, key, type)) :
              x \in ToSet(steps) \/ x.buttons = <<>>
<1>1. /\ steps \in Seq(Step) /\ Len(steps) \in Nat /\ DOMAIN steps = 1..Len(steps)
      /\ ToSet(steps) \subseteq Step
  BY InSeq DEF Tree
<1>2. PICK B : B = {i \in DOMAIN steps :
                      \/ steps[i].key = n.key
                      \/ \E b \in {"then", branch} : <<n.key, b>> \in ToSet(steps[i].path)}
  OBVIOUS
<1>3. BranchEnd(steps, n, branch) = Max(B)
  BY <1>2, Zenon DEF BranchEnd
<1>4. Max(B) \in B
  <2>1. B \in SUBSET Nat /\ \A i \in B : i <= Len(steps)
    BY <1>1, <1>2
  <2>2. B # {}
    BY <1>2 DEF ToSet
  <2>. QED BY <1>1, <2>1, <2>2, BoundedMax
<1>5. PICK i \in 1..(Len(steps) + 1) : i = BranchEnd(steps, n, branch) + 1
  <2>1. Max(B) \in 1..Len(steps)
    BY <1>1, <1>2, <1>4
  <2>. QED BY <1>1, <1>3, <2>1
<1>6. PICK path : path = Append(n.path, <<n.key, branch>>)
  OBVIOUS
<1>7. n.key \in Nat /\ n.path \in Path
  BY <1>1 DEF Step
<1>8. path \in Path
  <2>1. <<n.key, branch>> \in Nat \X Branches
    BY <1>7
  <2>. QED BY <1>6, <1>7, <2>1 DEF Path
<1>9. PICK x : x = emptyActionStep(key, type, path)
  OBVIOUS
<1>10. x \in Step /\ x.key = key /\ x.path = path /\ x.buttons = <<>>
  BY <1>8, <1>9, EmptyStep
<1>11. Above(x) = Above(n) \cup {n.key}
  BY <1>6, <1>7, <1>10, AboveUnder
<1>12. PICK u : u = InsertAt(steps, i, x)
  OBVIOUS
<1>13. addActionStep(steps, n, branch, key, type) = u
  BY <1>5, <1>6, <1>9, <1>12 DEF addActionStep
<1>14. Inserted(Step, steps, i, x, u)
  BY <1>1, <1>10, <1>12, InsertAtIs
<1>15. \A m \in ToSet(steps) : m.key \in Above(x) => Above(m) \subseteq Above(x)
  <2>1. ASSUME NEW m \in ToSet(steps), m.key = n.key PROVE m = n
    BY <2>1, OneStepAKey
  <2>. QED BY <1>11, <2>1 DEF Tree
<1>16. \A k \in Above(x) : \E m \in ToSet(steps) : m.key = k
  BY <1>11 DEF Tree
<1>17. \A m \in ToSet(steps) : m.key # x.key
  BY <1>10
<1>18. Fits(steps, x)
  BY <1>10, <1>15, <1>16, <1>17 DEF Fits
<1>19. Tree(u) /\ ToSet(u) = ToSet(steps) \cup {x}
  BY <1>14, <1>18, GrownTree
<1>. QED BY <1>10, <1>13, <1>19

LEMMA ReshapedTree ==
  ASSUME NEW steps, Tree(steps), NEW u \in Seq(Step), DOMAIN u = DOMAIN steps,
         \A i \in DOMAIN steps : u[i].key = steps[i].key /\ u[i].path = steps[i].path
  PROVE  Tree(u)
<1>1. ASSUME NEW i \in DOMAIN steps PROVE Above(u[i]) = Above(steps[i])
  BY DEF Above
<1>2. \A x \in ToSet(u) : \E i \in DOMAIN steps : x = u[i]
  BY DEF ToSet
<1>3. \A i \in DOMAIN steps : u[i] \in ToSet(u) /\ steps[i] \in ToSet(steps)
  BY DEF ToSet
<1>4. \A x \in ToSet(steps) : \E i \in DOMAIN steps : x = steps[i]
  BY DEF ToSet
<1>5. \A i, j \in DOMAIN u : u[i].key = u[j].key => i = j
  BY DEF Tree
<1>6. \E n \in ToSet(u) : n.path = <<>>
  <2>1. PICK i \in DOMAIN steps : steps[i].path = <<>>
    BY <1>4 DEF Tree
  <2>. QED BY <1>3, <2>1
<1>7. ASSUME NEW x \in ToSet(u), NEW key \in Above(x) PROVE \E m \in ToSet(u) : m.key = key
  <2>1. PICK i \in DOMAIN steps : x = u[i]
    BY <1>2
  <2>2. PICK m \in ToSet(steps) : m.key = key
    BY <1>1, <1>3, <1>7, <2>1 DEF Tree
  <2>3. PICK j \in DOMAIN steps : m = steps[j]
    BY <1>4
  <2>. QED BY <1>3, <2>2, <2>3
<1>8. ASSUME NEW x \in ToSet(u), NEW m \in ToSet(u), m.key \in Above(x)
      PROVE  Above(m) \subseteq Above(x)
  <2>1. PICK i \in DOMAIN steps : x = u[i]
    BY <1>2
  <2>2. PICK j \in DOMAIN steps : m = u[j]
    BY <1>2
  <2>3. steps[j].key \in Above(steps[i])
    BY <1>1, <1>8, <2>1, <2>2
  <2>4. Above(steps[j]) \subseteq Above(steps[i])
    BY <1>3, <2>3 DEF Tree
  <2>. QED BY <1>1, <2>1, <2>2, <2>4
<1>. QED BY <1>5, <1>6, <1>7, <1>8 DEF Tree

LEMMA UpdatedTree ==
  ASSUME NEW steps, Tree(steps), NEW n \in ToSet(steps), NEW m \in Step,
         m.key = n.key, m.path = n.path
  PROVE  /\ Tree(updateActionStep(steps, m))
         /\ \A x \in ToSet(updateActionStep(steps, m)) : x = m \/ x \in ToSet(steps)
<1>1. PICK u : u = updateActionStep(steps, m)
  OBVIOUS
<1>2. steps \in Seq(Step) /\ DOMAIN steps = 1..Len(steps) /\ Len(steps) \in Nat
  BY InSeq DEF Tree
<1>3. /\ DOMAIN u = DOMAIN steps
      /\ \A i \in DOMAIN steps : u[i] = IF steps[i].key = m.key THEN m ELSE steps[i]
  BY <1>1 DEF updateActionStep
<1>4. u \in Seq(Step)
  <2>1. u = [i \in 1..Len(steps) |-> u[i]]
    BY <1>1, <1>2 DEF updateActionStep
  <2>2. \A i \in 1..Len(steps) : u[i] \in Step
    BY <1>2, <1>3
  <2>. QED BY <1>2, <2>1, <2>2
<1>5. \A i \in DOMAIN steps : steps[i] \in ToSet(steps)
  BY DEF ToSet
<1>6. \A i \in DOMAIN steps : u[i].key = steps[i].key /\ u[i].path = steps[i].path
  <2>1. ASSUME NEW i \in DOMAIN steps, steps[i].key = m.key PROVE steps[i] = n
    BY <1>5, <2>1, OneStepAKey
  <2>. QED BY <1>3, <2>1
<1>7. Tree(u)
  BY <1>3, <1>4, <1>6, ReshapedTree
<1>8. \A x \in ToSet(u) : x = m \/ x \in ToSet(steps)
  BY <1>3, <1>5 DEF ToSet
<1>. QED BY <1>1, <1>7, <1>8

-----------------------------------------------------------------------------
(* What the fields of a step and of a button can be turned into.           *)

\* A step with both an attachment and buttons.
Both(n) == n.media /\ n.buttons # <<>>

LEMMA ButtonEdited ==
  ASSUME NEW b \in Button, NEW c \in ButtonEdits(b)
  PROVE  c \in Button
<1>1. b.unlocked \in Reply /\ b.locked \in Reply
  BY DEF Button
<1>2. b["unlocked"] = b.unlocked /\ b["locked"] = b.locked
  OBVIOUS
<1>3. CASE c \in {[b EXCEPT !.kind = k] : k \in Kinds \ {b.kind}}
  BY <1>3 DEF Button
<1>4. CASE c = [b EXCEPT !.requireFollow = ~@]
  BY <1>4 DEF Button
<1>5. CASE \E w \in Replies : \/ c \in {[b EXCEPT ![w].text = ~@], [b EXCEPT ![w].media = FALSE]}
                              \/ \E x \in Links : c = [b EXCEPT ![w].links = x]
  <2>1. PICK w \in Replies : \/ c \in {[b EXCEPT ![w].text = ~@], [b EXCEPT ![w].media = FALSE]}
                             \/ \E x \in Links : c = [b EXCEPT ![w].links = x]
    BY <1>5
  <2>2. CASE w = "unlocked"
    <3>1. \A r \in Reply : [b EXCEPT !["unlocked"] = r] \in Button
      BY DEF Button
    <3>2. \E r \in Reply : c = [b EXCEPT !["unlocked"] = r]
      BY <1>1, <2>1, <2>2 DEF Reply
    <3>. QED BY <3>1, <3>2
  <2>3. CASE w = "locked"
    <3>1. \A r \in Reply : [b EXCEPT !["locked"] = r] \in Button
      BY DEF Button
    <3>2. \E r \in Reply : c = [b EXCEPT !["locked"] = r]
      BY <1>1, <2>1, <2>3 DEF Reply
    <3>. QED BY <3>1, <3>2
  <2>. QED BY <2>2, <2>3 DEF Replies
<1> DEFINE K == {[b EXCEPT !.kind = k] : k \in Kinds \ {b.kind}}
           F == {[b EXCEPT !.requireFollow = ~@]}
           T == UNION {{[b EXCEPT ![w].text = ~@]}
                         \cup {[b EXCEPT ![w].links = x] : x \in Links \ {b[w].links}} :
                   w \in {w \in Replies : ~b[w].media /\ (w = "locked" => b.requireFollow)}}
           M == {[b EXCEPT ![w].media = FALSE] : w \in {w \in Replies : b[w].media}}
<1>6. ButtonEdits(b) = K \cup (IF b.kind # "POSTBACK" THEN {} ELSE F \cup T \cup M)
  BY Zenon DEF ButtonEdits
<1>7. CASE c \in T
  <2>1. PICK w \in Replies : c \in {[b EXCEPT ![w].text = ~@]}
                                    \cup {[b EXCEPT ![w].links = x] : x \in Links \ {b[w].links}}
    BY <1>7, Zenon
  <2>2. CASE c \in {[b EXCEPT ![w].text = ~@]}
    BY <1>5, <2>2, Zenon
  <2>3. CASE c \in {[b EXCEPT ![w].links = x] : x \in Links \ {b[w].links}}
    <3>1. PICK x \in Links : c = [b EXCEPT ![w].links = x]
      BY <2>3, Zenon
    <3>. QED BY <1>5, <3>1, Zenon
  <2>4. c \in {[b EXCEPT ![w].text = ~@]} \/ c \in {[b EXCEPT ![w].links = x] : x \in Links \ {b[w].links}}
    BY <2>1, Zenon
  <2>. QED BY <2>2, <2>3, <2>4
<1>8. CASE c \in M
  BY <1>5, <1>8, Zenon
<1>9. c \in K \/ c \in F \/ c \in T \/ c \in M
  <2> HIDE DEF K, F, T, M
  <2>. QED BY <1>6
<1>. QED BY <1>3, <1>4, <1>7, <1>8, <1>9

LEMMA EmptyButton ==
  ASSUME NEW key \in Nat, NEW k \in Kinds
  PROVE  emptyButton(key, k) \in Button
BY DEF emptyButton, Button, Reply, NoReply, Links

\* Whatever is changed in a step, it is still that step, and where it did not
\* have both an attachment and buttons it has not got both.
LEMMA StepEdited ==
  ASSUME NEW t, NEW n \in Step, NEW m \in StepEdits(t, n), nextKey(t) \in Nat
  PROVE  /\ m \in Step /\ m.key = n.key /\ m.path = n.path
         /\ Both(m) => Both(n)
<1>1. PICK B : B = n.buttons
  OBVIOUS
<1>2. B \in Seq(Button) /\ DOMAIN B = 1..Len(B) /\ Len(B) \in Nat
  BY <1>1, InSeq DEF Step
<1>3. ASSUME NEW b \in Seq(Button), ~n.media, m = [n EXCEPT !.buttons = b]
      PROVE  m \in Step /\ m.key = n.key /\ m.path = n.path /\ (Both(m) => Both(n))
  BY <1>3 DEF Step, Both
<1> DEFINE T == {[n EXCEPT !.type = ty] :
                   ty \in {ty \in Types \ {n.type} : ty = "CONDITION" => depth(n) < MaxDepth}}
           X == {[n EXCEPT !.test = x] : x \in Tests \ {n.test}}
           D == {[n EXCEPT !.delay = x] : x \in Delays \ {n.delay}}
           W == {[n EXCEPT !.text = ~@]}
           M == {[n EXCEPT !.media = FALSE]}
           E == UNION {{[n EXCEPT !.buttons[i] = b] : b \in ButtonEdits(n.buttons[i])}
                         \cup {[n EXCEPT !.buttons = RemoveAt(@, i)]} : i \in DOMAIN n.buttons}
           A == {[n EXCEPT !.buttons = Append(@, emptyButton(nextKey(t), k))] :
                   k \in {k \in {"WEB_URL", "FOLLOW_PROFILE"} : Len(n.buttons) < MaxButtons}}
<1>4. StepEdits(t, n) =
        T \cup (IF n.type = "CONDITION" THEN X ELSE D)
          \cup (IF n.type \in {"SEND_DM", "REPLY_COMMENT"} /\ ~n.media THEN W ELSE {})
          \cup (IF n.type = "SEND_DM" /\ n.media /\ n.buttons = <<>> THEN M ELSE {})
          \cup (IF ~ButtonsShown(n) THEN {} ELSE E \cup A)
  BY Zenon DEF StepEdits
<1>5. CASE m \in T
  BY <1>5 DEF Step, Both
<1>6. CASE m \in X
  BY <1>6 DEF Step, Both
<1>12. CASE m \in D
  BY <1>12 DEF Step, Both
<1>7. CASE m \in W
  BY <1>7 DEF Step, Both
<1>8. CASE m \in M
  BY <1>8 DEF Step, Both
<1>9. CASE m \in E /\ ~n.media
  <2>1. PICK i \in DOMAIN B : \/ m \in {[n EXCEPT !.buttons[i] = b] : b \in ButtonEdits(B[i])}
                              \/ m = [n EXCEPT !.buttons = RemoveAt(@, i)]
    BY <1>1, <1>9, Zenon
  <2>2. CASE m = [n EXCEPT !.buttons = RemoveAt(@, i)]
    <3>1. RemoveAt(B, i) \in Seq(Button)
      BY <1>2, RemoveAtIs
    <3>2. m = [n EXCEPT !.buttons = RemoveAt(B, i)]
      BY <1>1, <2>2
    <3>. QED BY <1>3, <1>9, <3>1, <3>2
  <2>3. CASE m \in {[n EXCEPT !.buttons[i] = b] : b \in ButtonEdits(B[i])}
    <3>1. PICK b \in ButtonEdits(B[i]) : m = [n EXCEPT !.buttons[i] = b]
      BY <2>3, Zenon
    <3>2. b \in Button
      BY <1>2, <3>1, ButtonEdited
    <3>3. [B EXCEPT ![i] = b] \in Seq(Button)
      BY <1>2, <3>2, ExceptSeq
    <3>4. m = [n EXCEPT !.buttons = [B EXCEPT ![i] = b]]
      BY <1>1, <3>1
    <3>. QED BY <1>3, <1>9, <3>3, <3>4
  <2>. QED BY <2>1, <2>2, <2>3
<1>10. CASE m \in A /\ ~n.media
  <2>1. PICK k \in {"WEB_URL", "FOLLOW_PROFILE"} :
          m = [n EXCEPT !.buttons = Append(@, emptyButton(nextKey(t), k))]
    BY <1>10, Zenon
  <2>2. emptyButton(nextKey(t), k) \in Button
    BY EmptyButton DEF Kinds
  <2>3. Append(B, emptyButton(nextKey(t), k)) \in Seq(Button)
    BY <1>2, <2>2, AppendProperties
  <2>4. m = [n EXCEPT !.buttons = Append(B, emptyButton(nextKey(t), k))]
    BY <1>1, <2>1
  <2>. QED BY <1>3, <1>10, <2>3, <2>4
<1>11. m \in T \/ m \in X \/ m \in D \/ m \in W \/ m \in M \/ ((m \in E \/ m \in A) /\ ~n.media)
  <2> HIDE DEF T, X, D, W, M, E, A
  <2>1. ButtonsShown(n) => ~n.media
    BY DEF ButtonsShown
  <2>. QED BY <1>4, <2>1
<1>. QED BY <1>5, <1>6, <1>7, <1>8, <1>9, <1>10, <1>11, <1>12

-----------------------------------------------------------------------------
(* New keys.                                                               *)

LEMMA ImageFinite ==
  ASSUME NEW A, IsFiniteSet(A), NEW f, DOMAIN f = A
  PROVE  IsFiniteSet({f[x] : x \in A})
<1>1. PICK B : B = {f[x] : x \in A}
  OBVIOUS
<1>2. PICK g : g = [x \in A |-> f[x]]
  OBVIOUS
<1>3. g \in Surjection(A, B)
  BY <1>1, <1>2 DEF Surjection
<1>. QED BY <1>1, <1>3, FS_Surjection

LEMMA SeqFinite ==
  ASSUME NEW S, NEW s \in Seq(S)
  PROVE  IsFiniteSet(ToSet(s))
<1>1. DOMAIN s = 1..Len(s) /\ Len(s) \in Nat
  OBVIOUS
<1>2. IsFiniteSet(DOMAIN s)
  BY <1>1, FS_Interval
<1>. QED BY <1>2, ImageFinite DEF ToSet

KeysOf(n) == {n.key} \cup {b.key : b \in ToSet(n.buttons)}

LEMMA StepKeysFinite ==
  ASSUME NEW n, n.key \in Nat, n.buttons \in Seq(Button)
  PROVE  IsFiniteSet(KeysOf(n)) /\ KeysOf(n) \subseteq Nat
<1>1. PICK B : B = ToSet(n.buttons)
  OBVIOUS
<1>2. IsFiniteSet(B) /\ B \subseteq Button
  BY <1>1, SeqFinite, InSeq
<1>3. PICK f : f = [b \in B |-> b.key]
  OBVIOUS
<1>4. IsFiniteSet({f[b] : b \in B})
  BY <1>2, <1>3, ImageFinite
<1>5. {f[b] : b \in B} = {b.key : b \in B}
  BY <1>3
<1>6. {b.key : b \in B} \subseteq Nat
  BY <1>2 DEF Button
<1>7. IsFiniteSet({n.key})
  BY FS_Singleton
<1>. QED BY <1>1, <1>4, <1>5, <1>6, <1>7, FS_Union DEF KeysOf

LEMMA KeysFinite ==
  ASSUME NEW S, NEW s \in Seq(S), \A n \in S : n.key \in Nat /\ n.buttons \in Seq(Button)
  PROVE  /\ IsFiniteSet(KeysIn(s)) /\ KeysIn(s) \subseteq Nat
         /\ \A n \in ToSet(s) : n.key \in KeysIn(s)
<1>1. PICK f : f = [n \in ToSet(s) |-> KeysOf(n)]
  OBVIOUS
<1>2. ToSet(s) \subseteq S /\ IsFiniteSet(ToSet(s))
  BY SeqFinite, InSeq
<1>3. PICK F : F = {f[n] : n \in ToSet(s)}
  OBVIOUS
<1>4. IsFiniteSet(F)
  BY <1>1, <1>2, <1>3, ImageFinite
<1>5. \A n \in ToSet(s) : f[n] = KeysOf(n) /\ IsFiniteSet(KeysOf(n)) /\ KeysOf(n) \subseteq Nat
  BY <1>1, <1>2, StepKeysFinite
<1>6. F = {KeysOf(n) : n \in ToSet(s)}
  BY <1>3, <1>5
<1>7. KeysIn(s) = UNION F
  BY <1>6, Zenon DEF KeysIn, KeysOf
<1>8. IsFiniteSet(UNION F)
  BY <1>3, <1>4, <1>5, FS_UNION
<1>9. UNION F \subseteq Nat
  BY <1>3, <1>5
<1>10. ASSUME NEW n \in ToSet(s) PROVE n.key \in UNION F
  BY <1>6 DEF KeysOf
<1>. QED BY <1>7, <1>8, <1>9, <1>10

\* A new key is that of no step of the form.
LEMMA NewKey ==
  ASSUME TypeOK, NEW t \in Tabs
  PROVE  nextKey(t) \in Nat /\ \A n \in ToSet(form[t].steps) : n.key # nextKey(t)
<1>1. \A n \in Step : n.key \in Nat /\ n.buttons \in Seq(Button)
  BY DEF Step
<1>2. \A n \in StepRow : n.key \in Nat /\ n.buttons \in Seq(Button)
  BY DEF StepRow
<1>3. form[t].steps \in Seq(Step)
  BY DEF TypeOK, Forms
<1>4. PICK A : A = KeysIn(form[t].steps)
  OBVIOUS
<1>5. /\ IsFiniteSet(A) /\ A \subseteq Nat
      /\ \A n \in ToSet(form[t].steps) : n.key \in A
  BY <1>1, <1>3, <1>4, KeysFinite
<1>6. PICK f : f = [r \in Rules |-> KeysIn(rule[r].steps)]
  OBVIOUS
<1>7. ASSUME NEW r \in Rules PROVE IsFiniteSet(f[r]) /\ f[r] \subseteq Nat
  <2>1. rule[r].steps \in Seq(StepRow)
    BY DEF TypeOK, Rows
  <2>. QED BY <1>2, <1>6, <2>1, KeysFinite
<1>8. PICK F : F = {f[r] : r \in Rules}
  OBVIOUS
<1>9. IsFiniteSet(F)
  BY <1>6, <1>8, ImageFinite, BuilderAssumption
<1>10. IsFiniteSet(UNION F) /\ UNION F \subseteq Nat
  BY <1>7, <1>8, <1>9, FS_UNION
<1>11. F = {KeysIn(rule[r].steps) : r \in Rules}
  BY <1>6, <1>8
<1>12. upload[t].step \in Nat /\ upload[t].button \in Nat
  BY DEF TypeOK, Uploads
<1>13. PICK U : U = {upload[t].step, upload[t].button}
  OBVIOUS
<1>14. IsFiniteSet(U) /\ U \subseteq Nat /\ U # {}
  <2>1. IsFiniteSet({upload[t].step}) /\ IsFiniteSet({upload[t].button})
    BY FS_Singleton
  <2>2. U = {upload[t].step} \cup {upload[t].button}
    BY <1>13
  <2>. QED BY <1>12, <2>1, <2>2, FS_Union
<1>15. PICK K : K = A \cup (UNION F) \cup U
  OBVIOUS
<1>16. IsFiniteSet(K) /\ K \in SUBSET Nat /\ K # {} /\ A \subseteq K
  BY <1>5, <1>10, <1>14, <1>15, FS_Union
<1>17. nextKey(t) = 1 + Max(K)
  BY <1>4, <1>11, <1>13, <1>15 DEF nextKey
<1>18. Max(K) \in Nat /\ \A x \in K : x <= Max(K)
  BY <1>16, FiniteMax
<1>19. ASSUME NEW n \in ToSet(form[t].steps) PROVE n.key # nextKey(t)
  <2>1. n.key \in K /\ n.key \in Nat /\ n.key <= Max(K)
    BY <1>5, <1>16, <1>18
  <2>. QED BY <1>17, <1>18, <2>1
<1>. QED BY <1>17, <1>18, <1>19

-----------------------------------------------------------------------------
(* Edits.                                                                  *)

\* A form or a content with a trigger and a tree of steps.
Whole(f) == f.triggers # <<>> /\ Tree(f.steps)

\* What an edit may make of the form in a tab.
Edited(t, f) ==
  /\ f \in Forms /\ Whole(f) /\ f.open
  /\ f.isEdit = form[t].isEdit /\ f.rule = form[t].rule
  /\ Mixed(f) => Mixed(form[t])

LEMMA MixedIs ==
  ASSUME NEW f
  PROVE  Mixed(f) <=> \E n \in ToSet(f.steps) : Both(n)
BY DEF Mixed, Both

\* Edits of the steps, of the triggers, and of the scope.
LEMMA StepsEdited ==
  ASSUME TypeOK, NEW t \in Tabs, form[t].open, Whole(form[t]), NEW steps, Tree(steps),
         \A n \in ToSet(steps) : Both(n) => Mixed(form[t]),
         NEW f, f = [form[t] EXCEPT !.steps = steps]
  PROVE  Edited(t, f)
<1>1. form[t] \in Forms /\ steps \in Seq(Step)
  BY DEF TypeOK, Tree
<1>2. f \in Forms /\ f.steps = steps /\ f.open /\ f.isEdit = form[t].isEdit
      /\ f.rule = form[t].rule /\ f.triggers = form[t].triggers
  BY <1>1 DEF Forms
<1>3. Mixed(f) => Mixed(form[t])
  BY <1>2, MixedIs
<1>. QED BY <1>2, <1>3 DEF Edited, Whole

LEMMA RestEdited ==
  ASSUME TypeOK, NEW t \in Tabs, form[t].open, Whole(form[t]), NEW triggers \in Seq(Trigger),
         triggers # <<>>, NEW scope \in Scopes, NEW picked \in BOOLEAN,
         NEW f, f = [form[t] EXCEPT !.scope = scope, !.picked = picked, !.triggers = triggers]
  PROVE  Edited(t, f)
<1>1. form[t] \in Forms
  BY DEF TypeOK
<1>2. f \in Forms /\ f.steps = form[t].steps /\ f.open /\ f.isEdit = form[t].isEdit
      /\ f.rule = form[t].rule /\ f.triggers = triggers
  BY <1>1 DEF Forms
<1>3. Mixed(f) <=> Mixed(form[t])
  BY <1>2 DEF Mixed
<1>. QED BY <1>2, <1>3 DEF Edited, Whole

LEMMA ScopeEdited ==
  ASSUME TypeOK, NEW t \in Tabs, Whole(form[t]), EditScope(t)
  PROVE  \E f : Edited(t, f) /\ Edit(t, f)
<1>1. form[t] \in Forms
  BY DEF TypeOK
<1>2. form[t].open
  BY DEF EditScope, Edit
<1>3. ASSUME NEW s \in Scopes,
             Edit(t, [form[t] EXCEPT !.scope = s, !.picked = FALSE,
                                     !.triggers = syncTriggerSourcesToScope(@, s)])
      PROVE  \E f : Edited(t, f) /\ Edit(t, f)
  <2>1. PICK trs : trs = form[t].triggers
    OBVIOUS
  <2>2. trs \in Seq(Trigger) /\ trs # <<>> /\ DOMAIN trs = 1..Len(trs) /\ Len(trs) \in Nat
    BY <1>1, <2>1, InSeq DEF Forms, Whole
  <2>3. PICK new : new = syncTriggerSourcesToScope(trs, s)
    OBVIOUS
  <2>4. new \in Seq(Trigger) /\ new # <<>>
    <3>1. PICK to \in Sources : to = IF s = "ALL_STORIES" THEN "STORY_REPLY" ELSE "COMMENT"
      BY DEF Sources
    <3>2. new = [i \in 1..Len(trs) |->
                   [trs[i] EXCEPT !.source = IF @ = "DM" THEN @ ELSE to]]
      BY <2>2, <2>3, <3>1 DEF syncTriggerSourcesToScope
    <3>3. ASSUME NEW i \in 1..Len(trs) PROVE new[i] \in Trigger
      <4>1. trs[i] \in Trigger
        BY <2>2
      <4>. QED BY <3>1, <3>2, <4>1 DEF Trigger
    <3>4. Len(trs) # 0
      BY <2>2
    <3>. QED BY <2>2, <3>2, <3>3, <3>4
  <2>5. PICK f : f = [form[t] EXCEPT !.scope = s, !.picked = FALSE, !.triggers = new]
    OBVIOUS
  <2>6. Edited(t, f)
    BY <1>2, <2>4, <2>5, RestEdited
  <2>7. Edit(t, f)
    BY <1>3, <2>1, <2>3, <2>5
  <2>. QED BY <2>6, <2>7
<1>4. ASSUME Edit(t, [form[t] EXCEPT !.picked = ~@])
      PROVE  \E f : Edited(t, f) /\ Edit(t, f)
  <2>1. PICK f : f = [form[t] EXCEPT !.picked = ~@]
    OBVIOUS
  <2>2. f = [form[t] EXCEPT !.scope = form[t].scope, !.picked = ~form[t].picked,
                            !.triggers = form[t].triggers]
    BY <1>1, <2>1 DEF Forms
  <2>3. /\ form[t].triggers \in Seq(Trigger) /\ form[t].triggers # <<>>
        /\ form[t].scope \in Scopes
    BY <1>1 DEF Forms, Whole
  <2>5. (~form[t].picked) \in BOOLEAN
    OBVIOUS
  <2>4. Edited(t, f)
    BY <1>2, <2>2, <2>3, <2>5, RestEdited
  <2>. QED BY <1>4, <2>1, <2>4
<1>. QED BY <1>3, <1>4 DEF EditScope

LEMMA TriggerEdited ==
  ASSUME TypeOK, NEW t \in Tabs, Whole(form[t]), EditTrigger(t)
  PROVE  \E f : Edited(t, f) /\ Edit(t, f)
<1>1. PICK g : g = form[t]
  OBVIOUS
<1>2. g \in Forms /\ g.open /\ g.triggers # <<>>
  BY <1>1 DEF TypeOK, EditTrigger, Edit, Whole
<1>3. PICK trs : trs = g.triggers
  OBVIOUS
<1>4. /\ trs \in Seq(Trigger) /\ trs # <<>> /\ DOMAIN trs = 1..Len(trs) /\ Len(trs) \in Nat
      /\ g.scope \in Scopes /\ g.picked \in BOOLEAN
  BY <1>2, <1>3, InSeq DEF Forms
<1>5. ASSUME NEW new \in Seq(Trigger), new # <<>>, NEW scope \in Scopes, NEW picked \in BOOLEAN,
             NEW f, f = [g EXCEPT !.scope = scope, !.picked = picked, !.triggers = new]
      PROVE  Edited(t, f)
  BY <1>1, <1>2, <1>5, RestEdited
<1>6. ASSUME NEW new \in Seq(Trigger), new # <<>>, NEW f, f = [g EXCEPT !.triggers = new]
      PROVE  Edited(t, f)
  <2>1. f = [g EXCEPT !.scope = g.scope, !.picked = g.picked, !.triggers = new]
    BY <1>2, <1>6 DEF Forms
  <2>. QED BY <1>4, <1>5, <1>6, <2>1
<1>7. ASSUME NEW i \in DOMAIN trs, NEW x \in Trigger
      PROVE  [trs EXCEPT ![i] = x] \in Seq(Trigger) /\ [trs EXCEPT ![i] = x] # <<>>
  <2>1. [trs EXCEPT ![i] = x] \in Seq(Trigger) /\ Len([trs EXCEPT ![i] = x]) = Len(trs)
    BY <1>4, ExceptSeq
  <2>2. Len(trs) # 0
    BY <1>4
  <2>. QED BY <2>1, <2>2
<1>8. ASSUME NEW i \in DOMAIN trs, NEW s \in Sources, Edit(t, updateTrigger(g, i, s))
      PROVE  \E f : Edited(t, f) /\ Edit(t, f)
  <2>1. PICK x : x = [trs[i] EXCEPT !.source = s]
    OBVIOUS
  <2>2. x \in Trigger
    <3>1. trs[i] \in Trigger
      BY <1>4
    <3>. QED BY <2>1, <3>1 DEF Trigger
  <2>3. PICK new : new = [trs EXCEPT ![i] = x]
    OBVIOUS
  <2>4. new \in Seq(Trigger) /\ new # <<>>
    BY <1>7, <2>2, <2>3
  <2>5. PICK f : f = updateTrigger(g, i, s)
    OBVIOUS
  <2>6. PICK h : h = [g EXCEPT !.triggers[i].source = s]
    OBVIOUS
  <2>7. h = [g EXCEPT !.triggers = new]
    BY <1>3, <2>1, <2>3, <2>6
  <2>8. \/ f = h
        \/ f = [h EXCEPT !.scope = "ALL_STORIES", !.picked = FALSE]
        \/ f = [h EXCEPT !.scope = "ALL_POSTS", !.picked = FALSE]
    BY <2>5, <2>6 DEF updateTrigger
  <2>9. ASSUME NEW scope \in Scopes, f = [h EXCEPT !.scope = scope, !.picked = FALSE]
        PROVE  Edited(t, f)
    <3>1. f = [g EXCEPT !.scope = scope, !.picked = FALSE, !.triggers = new]
      BY <1>2, <2>7, <2>9 DEF Forms
    <3>. QED BY <1>5, <2>4, <3>1
  <2>10. Edited(t, f)
    <3>1. CASE f = h
      BY <1>6, <2>4, <2>7, <3>1
    <3>. QED BY <2>8, <2>9, <3>1 DEF Scopes
  <2>. QED BY <1>8, <2>5, <2>10
<1>9. ASSUME NEW i \in DOMAIN trs, NEW test \in Tests,
             Edit(t, [g EXCEPT !.triggers[i].test = test])
      PROVE  \E f : Edited(t, f) /\ Edit(t, f)
  <2>1. PICK x : x = [trs[i] EXCEPT !.test = test]
    OBVIOUS
  <2>2. x \in Trigger
    <3>1. trs[i] \in Trigger
      BY <1>4
    <3>. QED BY <2>1, <3>1 DEF Trigger
  <2>3. PICK f : f = [g EXCEPT !.triggers = [trs EXCEPT ![i] = x]]
    OBVIOUS
  <2>4. f = [g EXCEPT !.triggers[i].test = test]
    BY <1>3, <2>1, <2>3
  <2>5. Edited(t, f)
    BY <1>6, <1>7, <2>2, <2>3
  <2>. QED BY <1>9, <2>4, <2>5
<1>10. ASSUME NEW i \in DOMAIN trs, Len(trs) > 1,
              Edit(t, [g EXCEPT !.triggers = RemoveAt(@, i)])
       PROVE  \E f : Edited(t, f) /\ Edit(t, f)
  <2>1. RemoveAt(trs, i) \in Seq(Trigger) /\ Len(RemoveAt(trs, i)) = Len(trs) - 1
    BY <1>4, RemoveAtIs
  <2>2. RemoveAt(trs, i) # <<>>
    BY <1>10, <2>1
  <2>3. PICK f : f = [g EXCEPT !.triggers = RemoveAt(trs, i)]
    OBVIOUS
  <2>4. Edited(t, f)
    BY <1>6, <2>1, <2>2, <2>3
  <2>. QED BY <1>3, <1>10, <2>3, <2>4
<1>11. ASSUME Edit(t, [g EXCEPT !.triggers = Append(@, emptyTrigger)])
       PROVE  \E f : Edited(t, f) /\ Edit(t, f)
  <2>1. emptyTrigger \in Trigger
    BY DEF emptyTrigger, Trigger, Sources, Tests
  <2>2. Append(trs, emptyTrigger) \in Seq(Trigger) /\ Append(trs, emptyTrigger) # <<>>
    BY <1>4, <2>1, AppendProperties
  <2>3. PICK f : f = [g EXCEPT !.triggers = Append(trs, emptyTrigger)]
    OBVIOUS
  <2>4. Edited(t, f)
    BY <1>6, <2>2, <2>3
  <2>. QED BY <1>3, <1>11, <2>3, <2>4
<1>12. \/ \E i \in DOMAIN trs :
            \/ \E s \in Sources : Edit(t, updateTrigger(g, i, s))
            \/ \E test \in Tests : Edit(t, [g EXCEPT !.triggers[i].test = test])
            \/ Len(trs) > 1 /\ Edit(t, [g EXCEPT !.triggers = RemoveAt(@, i)])
       \/ Edit(t, [g EXCEPT !.triggers = Append(@, emptyTrigger)])
  BY <1>1, <1>3, Zenon DEF EditTrigger
<1>. QED BY <1>8, <1>9, <1>10, <1>11, <1>12

LEMMA TreeEdited ==
  ASSUME TypeOK, NEW t \in Tabs, Whole(form[t]), EditSteps(t)
  PROVE  \E f : Edited(t, f) /\ Edit(t, f)
<1>1. PICK g : g = form[t]
  OBVIOUS
<1>2. g \in Forms /\ g.open /\ Tree(g.steps)
  BY <1>1 DEF TypeOK, EditSteps, Edit, Whole
<1>3. PICK s : s = g.steps
  OBVIOUS
<1>4. Tree(s) /\ s \in Seq(Step) /\ ToSet(s) \subseteq Step
  BY <1>2, <1>3, InSeq DEF Tree
<1>5. PICK key \in Nat : key = nextKey(t) /\ \A n \in ToSet(s) : n.key # key
  BY <1>1, <1>3, NewKey
<1>6. \A n \in ToSet(s) : Both(n) => Mixed(form[t])
  BY <1>1, <1>3, MixedIs
<1>7. ASSUME NEW u, Tree(u), \A n \in ToSet(u) : Both(n) => Mixed(form[t]),
             Edit(t, [g EXCEPT !.steps = u])
      PROVE  \E f : Edited(t, f) /\ Edit(t, f)
  <2>1. PICK f : f = [g EXCEPT !.steps = u]
    OBVIOUS
  <2>2. Edited(t, f)
    BY <1>1, <1>2, <1>7, <2>1, StepsEdited
  <2>. QED BY <1>7, <2>1, <2>2
<1>8. ASSUME NEW type \in Types,
             Edit(t, [g EXCEPT !.steps = Append(s, emptyActionStep(key, type, <<>>))])
      PROVE  \E f : Edited(t, f) /\ Edit(t, f)
  <2>1. PICK x : x = emptyActionStep(key, type, <<>>)
    OBVIOUS
  <2>2. x \in Step /\ x.key = key /\ x.path = <<>> /\ x.buttons = <<>>
    BY <2>1, EmptyStep, NoPath
  <2>3. Tree(Append(s, x)) /\ ToSet(Append(s, x)) = ToSet(s) \cup {x}
    BY <1>4, <1>5, <2>2, AppendedTree
  <2>4. ~Both(x)
    BY <2>2 DEF Both
  <2>. QED BY <1>6, <1>7, <1>8, <2>1, <2>3, <2>4
<1>9. ASSUME NEW n \in ToSet(s), NEW branch \in Branches, NEW type \in Types,
             Edit(t, [g EXCEPT !.steps = addActionStep(s, n, branch, key, type)])
      PROVE  \E f : Edited(t, f) /\ Edit(t, f)
  <2>1. PICK u : u = addActionStep(s, n, branch, key, type)
    OBVIOUS
  <2>2. Tree(u) /\ \A x \in ToSet(u) : x \in ToSet(s) \/ x.buttons = <<>>
    BY <1>4, <1>5, <2>1, AddedTree
  <2>3. \A x \in ToSet(u) : Both(x) => Mixed(form[t])
    BY <1>6, <2>2 DEF Both
  <2>. QED BY <1>7, <1>9, <2>1, <2>2, <2>3
<1>10. ASSUME NEW n \in ToSet(s), n.path = <<>> => \E m \in ToSet(s) \ {n} : m.path = <<>>,
              Edit(t, [g EXCEPT !.steps = removeActionStep(s, n.key)])
       PROVE  \E f : Edited(t, f) /\ Edit(t, f)
  <2>1. PICK u : u = removeActionStep(s, n.key)
    OBVIOUS
  <2>2. Tree(u) /\ ToSet(u) \subseteq ToSet(s)
    BY <1>4, <1>10, <2>1, RemovedTree
  <2>3. \A x \in ToSet(u) : Both(x) => Mixed(form[t])
    BY <1>6, <2>2
  <2>. QED BY <1>7, <1>10, <2>1, <2>2, <2>3
<1>11. ASSUME NEW j \in DOMAIN s, NEW i \in DOMAIN s, j < i, s[j].path = <<>>,
              Edit(t, [g EXCEPT !.steps = MovedUp(s, i)])
       PROVE  \E f : Edited(t, f) /\ Edit(t, f)
  <2>1. PICK u : u = MovedUp(s, i)
    OBVIOUS
  <2>2. Tree(u) /\ ToSet(u) = ToSet(s)
    BY <1>4, <1>11, <2>1, MovedUpTree
  <2>. QED BY <1>6, <1>7, <1>11, <2>1, <2>2
<1>12. \/ \E type \in {"SEND_DM", "CONDITION"} :
            Edit(t, [g EXCEPT !.steps = Append(s, emptyActionStep(key, type, <<>>))])
       \/ \E n \in ToSet(s), branch \in Branches, type \in {"SEND_DM", "CONDITION"} :
            Edit(t, [g EXCEPT !.steps = addActionStep(s, n, branch, key, type)])
       \/ \E n \in ToSet(s) :
            /\ n.path = <<>> => \E m \in ToSet(s) \ {n} : m.path = <<>>
            /\ Edit(t, [g EXCEPT !.steps = removeActionStep(s, n.key)])
       \/ \E j, i \in DOMAIN s :
            /\ j < i /\ s[j].path = <<>>
            /\ Edit(t, [g EXCEPT !.steps = MovedUp(s, i)])
  BY <1>1, <1>3, <1>5, Zenon DEF EditSteps
<1>. QED BY <1>8, <1>9, <1>10, <1>11, <1>12 DEF Types

LEMMA StepFieldsEdited ==
  ASSUME TypeOK, NEW t \in Tabs, Whole(form[t]), EditStep(t)
  PROVE  \E f : Edited(t, f) /\ Edit(t, f)
<1>0. PICK n \in ToSet(form[t].steps) : \E m \in StepEdits(t, n) :
        Edit(t, [form[t] EXCEPT !.steps = updateActionStep(@, m)])
  BY Zenon DEF EditStep
<1>1. PICK m \in StepEdits(t, n) :
        Edit(t, [form[t] EXCEPT !.steps = updateActionStep(@, m)])
  BY <1>0, Zenon
<1>2. form[t].open /\ Tree(form[t].steps)
  BY <1>1 DEF Edit, Whole
<1>3. PICK u : u = updateActionStep(form[t].steps, m)
  OBVIOUS
<1>4. n \in Step
  BY <1>0, <1>2, InSeq DEF Tree
<1>5. m \in Step /\ m.key = n.key /\ m.path = n.path /\ (Both(m) => Both(n))
  BY <1>1, <1>4, NewKey, StepEdited
<1>6. Tree(u) /\ \A x \in ToSet(u) : x = m \/ x \in ToSet(form[t].steps)
  BY <1>0, <1>2, <1>3, <1>5, UpdatedTree
<1>7. \A x \in ToSet(u) : Both(x) => Mixed(form[t])
  BY <1>0, <1>5, <1>6, MixedIs
<1>8. PICK f : f = [form[t] EXCEPT !.steps = u]
  OBVIOUS
<1>9. Edited(t, f)
  BY <1>2, <1>6, <1>7, <1>8, StepsEdited
<1>. QED BY <1>1, <1>3, <1>8, <1>9

\* A blank form and a template.
LEMMA BlankWhole ==
  ASSUME NEW key \in Nat
  PROVE  LET c == BlankContent(key)
         IN  /\ c \in Contents /\ Whole(c)
             /\ \A n \in ToSet(c.steps) : ~Both(n)
<1>1. PICK x : x = emptyActionStep(key, "SEND_DM", <<>>)
  OBVIOUS
<1>2. x \in Step /\ x.path = <<>> /\ x.buttons = <<>>
  BY <1>1, EmptyStep, NoPath DEF Types
<1>3. PICK s : s = <<x>>
  OBVIOUS
<1>4. s \in Seq(Step) /\ DOMAIN s = {1} /\ ToSet(s) = {x} /\ s[1] = x
  BY <1>2, <1>3 DEF ToSet
<1>5. Tree(s)
  BY <1>2, <1>4, AboveEmpty DEF Tree
<1>6. PICK trs : trs = <<emptyTrigger>>
  OBVIOUS
<1>7. trs \in Seq(Trigger) /\ trs # <<>>
  <2>1. emptyTrigger \in Trigger
    BY DEF emptyTrigger, Trigger, Sources, Tests
  <2>. QED BY <1>6, <2>1
<1>8. BlankContent(key) = [scope |-> "ALL_POSTS", picked |-> FALSE, triggers |-> trs, steps |-> s]
  BY <1>1, <1>3, <1>6 DEF BlankContent
<1>9. ~Both(x)
  BY <1>2 DEF Both
<1>. QED BY <1>4, <1>5, <1>7, <1>8, <1>9 DEF Contents, Whole, Scopes

LEMMA TemplateWhole ==
  ASSUME NEW key \in Nat
  PROVE  LET c == TemplateContent(key)
         IN  /\ c \in Contents /\ Whole(c)
             /\ c.scope = "ALL_POSTS" /\ ~c.picked /\ c.triggers = <<emptyTrigger>>
             /\ \A n \in ToSet(c.steps) :
                  /\ n.type # "CONDITION" /\ n.text /\ ~n.media /\ n.buttons = <<>>
                  /\ n.path = <<>> /\ n.delay = "none"
<1>1. PICK x : x = [emptyActionStep(key, "SEND_DM", <<>>) EXCEPT !.text = TRUE]
  OBVIOUS
<1>2. /\ x \in Step /\ x.path = <<>> /\ x.buttons = <<>> /\ x.text /\ ~x.media
      /\ x.type # "CONDITION" /\ x.key = key /\ x.delay = "none"
  <2>1. x = [key |-> key, type |-> "SEND_DM", test |-> "plain", delay |-> "none", text |-> TRUE,
             media |-> FALSE, buttons |-> <<>>, path |-> <<>>]
    BY <1>1 DEF emptyActionStep
  <2>. QED BY <2>1, NoPath DEF Step, Types, Tests, Delays
<1>3. PICK y : y = [emptyActionStep(key + 1, "REPLY_COMMENT", <<>>) EXCEPT !.text = TRUE]
  OBVIOUS
<1>4. /\ y \in Step /\ y.path = <<>> /\ y.buttons = <<>> /\ y.text /\ ~y.media
      /\ y.type # "CONDITION" /\ y.key = key + 1 /\ y.delay = "none"
  <2>1. y = [key |-> key + 1, type |-> "REPLY_COMMENT", test |-> "plain", delay |-> "none",
             text |-> TRUE, media |-> FALSE, buttons |-> <<>>, path |-> <<>>]
    BY <1>3 DEF emptyActionStep
  <2>. QED BY <2>1, NoPath DEF Step, Types, Tests, Delays
<1>5. PICK s : s = <<x, y>>
  OBVIOUS
<1>6. /\ s \in Seq(Step) /\ DOMAIN s = {1, 2} /\ ToSet(s) = {x, y}
      /\ s[1] = x /\ s[2] = y
  BY <1>2, <1>4, <1>5 DEF ToSet
<1>7. Tree(s)
  <2>1. Above(x) = {} /\ Above(y) = {}
    BY <1>2, <1>4, AboveEmpty
  <2>2. key # key + 1
    OBVIOUS
  <2>. QED BY <1>2, <1>4, <1>6, <2>1, <2>2 DEF Tree
<1>8. PICK trs : trs = <<emptyTrigger>>
  OBVIOUS
<1>9. trs \in Seq(Trigger) /\ trs # <<>>
  <2>1. emptyTrigger \in Trigger
    BY DEF emptyTrigger, Trigger, Sources, Tests
  <2>. QED BY <1>8, <2>1
<1>10. TemplateContent(key) = [scope |-> "ALL_POSTS", picked |-> FALSE, triggers |-> trs, steps |-> s]
  <2>1. PICK z : z = <<emptyActionStep(key, "SEND_DM", <<>>)>>
    OBVIOUS
  <2>2. BlankContent(key) =
          [scope |-> "ALL_POSTS", picked |-> FALSE, triggers |-> trs, steps |-> z]
    BY <1>8, <2>1 DEF BlankContent
  <2>3. TemplateContent(key) = [BlankContent(key) EXCEPT !.steps = s]
    BY <1>1, <1>3, <1>5 DEF TemplateContent
  <2>4. [[scope |-> "ALL_POSTS", picked |-> FALSE, triggers |-> trs, steps |-> z]
           EXCEPT !.steps = s]
        = [scope |-> "ALL_POSTS", picked |-> FALSE, triggers |-> trs, steps |-> s]
    <3>1. PICK c : c = [scope |-> "ALL_POSTS", picked |-> FALSE, triggers |-> trs, steps |-> z]
      OBVIOUS
    <3>2. PICK d : d = [c EXCEPT !.steps = s]
      OBVIOUS
    <3>3. PICK e : e = [scope |-> "ALL_POSTS", picked |-> FALSE, triggers |-> trs, steps |-> s]
      OBVIOUS
    <3>4. /\ DOMAIN d = {"scope", "picked", "triggers", "steps"}
          /\ d.scope = e.scope /\ d.picked = e.picked
          /\ d.triggers = e.triggers /\ d.steps = e.steps
          /\ DOMAIN e = {"scope", "picked", "triggers", "steps"}
      BY <3>1, <3>2, <3>3
    <3>5. d = [x1 \in DOMAIN d |-> d[x1]] /\ e = [x1 \in DOMAIN e |-> e[x1]]
      BY <3>2, <3>3
    <3>6. d = e
      BY <3>4, <3>5
    <3>. QED BY <3>1, <3>2, <3>3, <3>6
  <2>. QED BY <2>2, <2>3, <2>4, Zenon
<1>. QED BY <1>2, <1>4, <1>6, <1>7, <1>8, <1>9, <1>10 DEF Contents, Whole, Scopes

LEMMA TemplateUsed ==
  ASSUME TypeOK, NEW t \in Tabs, Whole(form[t]), UseTemplate(t)
  PROVE  \E f : Edited(t, f) /\ Edit(t, f)
<1>1. form[t] \in Forms /\ form[t].open /\ form[t].isEdit = FALSE
  BY DEF TypeOK, Forms, UseTemplate, Edit
<1>2. PICK key \in Nat : key = nextKey(t)
  BY NewKey
<1>3. ASSUME Edit(t, Form(FALSE, form[t].rule, TemplateContent(key)))
      PROVE  \E f : Edited(t, f) /\ Edit(t, f)
  <2>1. PICK c : c = TemplateContent(key)
    OBVIOUS
  <2>2. c \in Contents /\ Whole(c) /\ \A n \in ToSet(c.steps) : n.buttons = <<>>
    BY <2>1, TemplateWhole
  <2>3. PICK f : f = Form(FALSE, form[t].rule, c)
    OBVIOUS
  <2>4. /\ f \in Forms /\ f.open /\ f.isEdit = form[t].isEdit /\ f.rule = form[t].rule
        /\ f.triggers = c.triggers /\ f.steps = c.steps
    BY <1>1, <2>2, <2>3 DEF Form, Forms, Contents
  <2>5. ~Mixed(f)
    BY <2>2, <2>4 DEF Mixed
  <2>6. Edited(t, f)
    BY <2>2, <2>4, <2>5 DEF Edited, Whole
  <2>. QED BY <1>3, <2>1, <2>3, <2>6
<1>4. ASSUME Edit(t, [form[t] EXCEPT !.triggers = BlankContent(key).triggers,
                                     !.steps = BlankContent(key).steps])
      PROVE  \E f : Edited(t, f) /\ Edit(t, f)
  <2>1. PICK c : c = BlankContent(key)
    OBVIOUS
  <2>2. c \in Contents /\ Whole(c) /\ \A n \in ToSet(c.steps) : ~Both(n)
    BY <2>1, BlankWhole
  <2>3. PICK f : f = [form[t] EXCEPT !.triggers = c.triggers, !.steps = c.steps]
    OBVIOUS
  <2>4. /\ f \in Forms /\ f.open /\ f.isEdit = form[t].isEdit /\ f.rule = form[t].rule
        /\ f.triggers = c.triggers /\ f.steps = c.steps
    BY <1>1, <2>2, <2>3 DEF Forms, Contents
  <2>5. ~Mixed(f)
    BY <2>2, <2>4, MixedIs
  <2>6. Edited(t, f)
    BY <2>2, <2>4, <2>5 DEF Edited, Whole
  <2>. QED BY <1>4, <2>1, <2>3, <2>6
<1>. QED BY <1>2, <1>3, <1>4 DEF UseTemplate

\* Every edit leaves a form of the same automation with a trigger and a tree
\* of steps, and no step with an attachment and buttons that had not got both.
LEMMA EditsKeep ==
  ASSUME TypeOK, NEW t \in Tabs, Whole(form[t]),
         EditScope(t) \/ EditTrigger(t) \/ EditSteps(t) \/ EditStep(t) \/ UseTemplate(t)
  PROVE  \E f : Edited(t, f) /\ Edit(t, f)
BY ScopeEdited, TriggerEdited, TreeEdited, StepFieldsEdited, TemplateUsed

\* The answer to an upload.
LEMMA UploadKeeps ==
  ASSUME TypeOK, NEW t \in Tabs, Whole(form[t]), UploadDone(t), form' # form
  PROVE  \E steps : Tree(steps) /\ form' = [form EXCEPT ![t].steps = steps]
<1>1. PICK u : u = upload[t]
  OBVIOUS
<1>2. PICK s : s = form[t].steps
  OBVIOUS
<1>3. Tree(s) /\ ToSet(s) \subseteq Step /\ u \in Uploads
  BY <1>1, <1>2, InSeq DEF Whole, Tree, TypeOK
<1>4. PICK target : target = {n \in ToSet(s) : n.key = u.step}
  OBVIOUS
<1>5. form' = [form EXCEPT ![t].steps =
                 IF target = {} THEN @
                 ELSE updateActionStep(@, Attach(CHOOSE n \in target : TRUE, u))]
  BY <1>1, <1>2, <1>4 DEF UploadDone
<1>6. CASE target = {}
  <2>1. form' = [form EXCEPT ![t].steps = s]
    BY <1>2, <1>5, <1>6
  <2>. QED BY <1>3, <2>1
<1>7. CASE target # {}
  <2>1. PICK n \in ToSet(s) : n = CHOOSE x \in target : TRUE
    BY <1>4, <1>7
  <2>2. PICK m : m = Attach(n, u)
    OBVIOUS
  <2>3. n \in Step
    BY <1>3
  <2>4. m \in Step /\ m.key = n.key /\ m.path = n.path
    <3>1. CASE u.button = 0
      BY <2>2, <2>3, <3>1 DEF Attach, Step
    <3>2. CASE u.button # 0
      <4>1. PICK B \in Seq(Button) : B = u.buttons
        BY <1>3 DEF Uploads
      <4>2. PICK C : C = [i \in DOMAIN B |->
                            IF B[i].key = u.button
                            THEN [B[i] EXCEPT ![u.reply] = [NoReply EXCEPT !.media = TRUE]]
                            ELSE B[i]]
        OBVIOUS
      <4>3. C \in Seq(Button)
        <5>1. DOMAIN B = 1..Len(B) /\ Len(B) \in Nat
          BY <4>1
        <5>2. PICK r \in Reply : r = [NoReply EXCEPT !.media = TRUE]
          BY DEF Reply, NoReply, Links
        <5>3. u.reply = "unlocked" \/ u.reply = "locked"
          BY <1>3 DEF Uploads, Replies
        <5>4. ASSUME NEW b \in Button PROVE [b EXCEPT ![u.reply] = r] \in Button
          BY <5>3 DEF Button
        <5>5. ASSUME NEW i \in 1..Len(B) PROVE C[i] \in Button
          <6>1. B[i] \in Button
            BY <4>1
          <6>. QED BY <4>2, <5>1, <5>2, <5>4, <6>1
        <5>6. C = [i \in 1..Len(B) |-> C[i]]
          BY <4>2, <5>1
        <5>. QED BY <5>1, <5>5, <5>6
      <4>4. m = [n EXCEPT !.buttons = C]
        BY <2>2, <3>2, <4>1, <4>2 DEF Attach
      <4>. QED BY <2>3, <4>3, <4>4 DEF Step
    <3>. QED BY <3>1, <3>2
  <2>5. Tree(updateActionStep(s, m))
    BY <1>3, <2>1, <2>4, UpdatedTree
  <2>6. form' = [form EXCEPT ![t].steps = updateActionStep(s, m)]
    BY <1>2, <1>5, <1>7, <2>1, <2>2
  <2>. QED BY <2>5, <2>6
<1>. QED BY <1>6, <1>7

-----------------------------------------------------------------------------
(* What is sent, stored and opened again.                                  *)

\* What the form checks of one step it shows.
Valid(n) ==
  IF n.type = "CONDITION"
  THEN n.test = "plain" /\ depth(n) < MaxDepth
  ELSE /\ n.type = "HIDE_COMMENT" \/ n.media \/ n.text
       /\ n.media => n.type = "SEND_DM" /\ n.buttons = <<>>
       /\ Len(n.buttons) <= MaxButtons
       /\ \A b \in ToSet(n.buttons) : validateButton(b)

\* And the API of one step it is sent.
Accepted(n) ==
  IF n.type = "CONDITION"
  THEN Parses(n.test) /\ depth(n) < MaxDepth
  ELSE /\ n.delay # "odd"
       /\ n.type # "HIDE_COMMENT" => n.media \/ n.text
       /\ n.media => n.type = "SEND_DM" /\ n.buttons = <<>>
       /\ Len(n.buttons) <= MaxButtons
       /\ \A b \in ToSet(n.buttons) :
            b.kind = "POSTBACK" =>
              /\ ReplyAccepted(b.unlocked)
              /\ b.requireFollow => ReplyAccepted(b.locked)

\* What of a step that is sent only the API looks at.
Odd(n) ==
  n.delay = "odd" \/ \E b \in ToSet(n.buttons) : "odd" \in {b.unlocked.links, b.locked.links}

\* Serialized already.
Normal(n) == SerializeStep(n) = n

LEMMA ReplySent ==
  ASSUME NEW r \in Reply
  PROVE  /\ SerializeReply(r) \in Reply
         /\ SerializeReply(SerializeReply(r)) = SerializeReply(r)
         /\ ReplyOk(r) =>
              /\ ReplyOk(SerializeReply(r))
              /\ SerializeReply(r).links # "odd" => ReplyAccepted(SerializeReply(r))
<1>1. CASE ~r.media
  <2>1. SerializeReply(r) = r
    BY <1>1 DEF SerializeReply
  <2>2. ReplyOk(r) => r.text
    BY <1>1 DEF ReplyOk, Reply
  <2>3. ReplyOk(r) /\ r.links # "odd" => ReplyAccepted(r)
    BY <2>2 DEF ReplyOk, ReplyAccepted
  <2>. QED BY <2>1, <2>3
<1>2. CASE r.media
  <2>1. PICK s : s = [NoReply EXCEPT !.media = TRUE]
    OBVIOUS
  <2>2. SerializeReply(r) = s
    BY <1>2, <2>1 DEF SerializeReply
  <2>5. s \in Reply /\ s.media /\ s.text = FALSE /\ s.links = "none"
    BY <2>1 DEF NoReply, Reply, Links
  <2>3. SerializeReply(s) = s
    BY <2>1, <2>5 DEF SerializeReply
  <2>4. s \in Reply /\ ReplyOk(s) /\ ReplyAccepted(s)
    BY <2>5 DEF ReplyOk, ReplyAccepted
  <2>. QED BY <2>2, <2>3, <2>4
<1>. QED BY <1>1, <1>2

LEMMA NoReplySent == NoReply \in Reply /\ SerializeReply(NoReply) = NoReply
BY DEF NoReply, Reply, SerializeReply, Links

LEMMA ButtonSent ==
  ASSUME NEW b \in Button
  PROVE  LET c == SerializeButton(b)
         IN  /\ c \in Button
             /\ SerializeButton(c) = c
             /\ validateButton(b) =>
                  /\ validateButton(c)
                  /\ c.kind = "POSTBACK" /\ "odd" \notin {c.unlocked.links, c.locked.links} =>
                       /\ ReplyAccepted(c.unlocked)
                       /\ c.requireFollow => ReplyAccepted(c.locked)
<1>1. PICK c : c = SerializeButton(b)
  OBVIOUS
<1>2. b.unlocked \in Reply /\ b.locked \in Reply
  BY DEF Button
<1>3. CASE b.kind = "POSTBACK"
  <2>1. PICK u : u = SerializeReply(b.unlocked)
    OBVIOUS
  <2>2. PICK l : l = IF b.requireFollow THEN SerializeReply(b.locked) ELSE NoReply
    OBVIOUS
  <2>3. /\ u \in Reply /\ SerializeReply(u) = u /\ l \in Reply /\ SerializeReply(l) = l
        /\ ReplyOk(b.unlocked) => ReplyOk(u) /\ (u.links # "odd" => ReplyAccepted(u))
        /\ b.requireFollow /\ ReplyOk(b.locked) =>
             ReplyOk(l) /\ (l.links # "odd" => ReplyAccepted(l))
        /\ ~b.requireFollow => l = NoReply
    BY <1>2, <2>1, <2>2, ReplySent, NoReplySent
  <2>4. c = [b EXCEPT !.unlocked = u, !.locked = l]
    BY <1>1, <1>3, <2>1, <2>2 DEF SerializeButton
  <2>5. /\ c \in Button /\ c.kind = "POSTBACK" /\ c.requireFollow = b.requireFollow
        /\ c.unlocked = u /\ c.locked = l
    BY <1>3, <2>3, <2>4 DEF Button
  <2>6. SerializeButton(c) = c
    <3>1. (IF c.requireFollow THEN SerializeReply(c.locked) ELSE NoReply) = l
      BY <2>3, <2>5
    <3>2. SerializeButton(c) = [c EXCEPT !.unlocked = u, !.locked = l]
      BY <2>3, <2>5, <3>1 DEF SerializeButton
    <3>. QED BY <2>5, <3>2 DEF Button
  <2>7. ASSUME validateButton(b)
        PROVE  /\ validateButton(c)
               /\ "odd" \notin {c.unlocked.links, c.locked.links} =>
                    /\ ReplyAccepted(c.unlocked)
                    /\ c.requireFollow => ReplyAccepted(c.locked)
    BY <1>3, <2>3, <2>5, <2>7 DEF validateButton
  <2>. QED BY <1>1, <2>5, <2>6, <2>7
<1>4. CASE b.kind # "POSTBACK"
  <2>1. c = emptyButton(b.key, b.kind) /\ c \in Button /\ c.kind = b.kind /\ c.key = b.key
    BY <1>1, <1>4, EmptyButton DEF SerializeButton, Button, emptyButton
  <2>2. SerializeButton(c) = c
    BY <1>4, <2>1 DEF SerializeButton
  <2>. QED BY <1>1, <1>4, <2>1, <2>2 DEF validateButton
<1>. QED BY <1>3, <1>4

LEMMA StepSent ==
  ASSUME NEW n \in Step
  PROVE  LET m == SerializeStep(n)
         IN  /\ m \in Step /\ Normal(m)
             /\ m.key = n.key /\ m.type = n.type /\ m.path = n.path
             /\ Valid(n) => Valid(m) /\ (Odd(m) \/ Accepted(m))
<1>1. PICK bare : bare = [key |-> n.key, type |-> n.type, test |-> "plain", delay |-> "none",
                          text |-> FALSE, media |-> FALSE, buttons |-> <<>>, path |-> n.path]
  OBVIOUS
<1>2. bare = emptyActionStep(n.key, n.type, n.path)
  BY <1>1 DEF emptyActionStep
<1>3. /\ bare \in Step /\ bare.key = n.key /\ bare.type = n.type /\ bare.path = n.path
      /\ ~bare.media /\ bare.text = FALSE /\ bare.buttons = <<>> /\ bare.test = "plain"
  BY <1>1 DEF Step, Tests, Delays
<1>4. PICK m : m = SerializeStep(n)
  OBVIOUS
<1>5. ASSUME NEW x, x \in Step, x.key = n.key, x.type = n.type, x.path = n.path
      PROVE  SerializeStep(x) =
               CASE n.type = "CONDITION" -> [bare EXCEPT !.test = x.test]
                 [] n.type = "HIDE_COMMENT" -> [bare EXCEPT !.delay = x.delay]
                 [] OTHER ->
                      IF x.media THEN [bare EXCEPT !.delay = x.delay, !.media = TRUE]
                      ELSE [bare EXCEPT
                              !.delay = x.delay, !.text = x.text,
                              !.buttons = [j \in DOMAIN x.buttons |-> SerializeButton(x.buttons[j])]]
  BY <1>2, <1>5 DEF SerializeStep
<1>6. CASE n.type = "CONDITION"
  <2>1. m = [bare EXCEPT !.test = n.test]
    BY <1>4, <1>5, <1>6
  <2>2. m \in Step /\ m.key = n.key /\ m.type = n.type /\ m.path = n.path /\ m.test = n.test
    BY <1>3, <2>1 DEF Step
  <2>3. SerializeStep(m) = [bare EXCEPT !.test = m.test]
    BY <1>5, <1>6, <2>2
  <2>4. Valid(n) => Valid(m) /\ Accepted(m)
    BY <1>6, <2>2 DEF Valid, Accepted, Parses, depth
  <2>. QED BY <1>4, <2>1, <2>2, <2>3, <2>4 DEF Normal
<1>7. CASE n.type = "HIDE_COMMENT"
  <2>1. m = [bare EXCEPT !.delay = n.delay]
    BY <1>4, <1>5, <1>7
  <2>2. /\ m \in Step /\ m.key = n.key /\ m.type = n.type /\ m.path = n.path
        /\ m.delay = n.delay /\ ~m.media /\ m.buttons = <<>>
    BY <1>3, <2>1 DEF Step
  <2>3. SerializeStep(m) = [bare EXCEPT !.delay = n.delay]
    BY <1>5, <1>7, <2>2
  <2>4. Valid(m) /\ (Odd(m) \/ Accepted(m))
    BY <1>7, <2>2 DEF Valid, Accepted, Odd, ToSet, MaxButtons
  <2>. QED BY <1>4, <2>1, <2>2, <2>3, <2>4 DEF Normal
<1>8. CASE n.type \notin {"CONDITION", "HIDE_COMMENT"} /\ n.media
  <2>1. m = [bare EXCEPT !.delay = n.delay, !.media = TRUE]
    BY <1>4, <1>5, <1>8
  <2>2. /\ m \in Step /\ m.key = n.key /\ m.type = n.type /\ m.path = n.path
        /\ m.delay = n.delay /\ m.media /\ m.buttons = <<>>
    BY <1>3, <2>1 DEF Step
  <2>3. SerializeStep(m) = [bare EXCEPT !.delay = n.delay, !.media = TRUE]
    BY <1>5, <1>8, <2>2
  <2>4. Valid(n) => Valid(m) /\ (Odd(m) \/ Accepted(m))
    BY <1>8, <2>2 DEF Valid, Accepted, Odd, ToSet, MaxButtons
  <2>. QED BY <1>4, <2>1, <2>2, <2>3, <2>4 DEF Normal
<1>9. CASE n.type \notin {"CONDITION", "HIDE_COMMENT"} /\ ~n.media
  <2>1. PICK B \in Seq(Button) : B = n.buttons
    BY DEF Step
  <2>2. PICK C : C = [j \in DOMAIN B |-> SerializeButton(B[j])]
    OBVIOUS
  <2>3. /\ C \in Seq(Button) /\ Len(C) = Len(B) /\ DOMAIN C = DOMAIN B
        /\ \A j \in DOMAIN C : C[j] = SerializeButton(B[j]) /\ B[j] \in Button
    <3>1. DOMAIN B = 1..Len(B) /\ Len(B) \in Nat
      BY <2>1
    <3>2. \A j \in 1..Len(B) : B[j] \in Button /\ C[j] \in Button
      BY <2>1, <2>2, <3>1, ButtonSent
    <3>3. C = [j \in 1..Len(B) |-> C[j]]
      BY <2>2, <3>1
    <3>. QED BY <2>2, <3>1, <3>2, <3>3
  <2>4. m = [bare EXCEPT !.delay = n.delay, !.text = n.text, !.buttons = C]
    <3>1. SerializeStep(n) =
            [bare EXCEPT !.delay = n.delay, !.text = n.text,
                         !.buttons = [j \in DOMAIN n.buttons |-> SerializeButton(n.buttons[j])]]
      BY <1>2, <1>9, Zenon DEF SerializeStep
    <3>. QED BY <1>4, <2>1, <2>2, <3>1
  <2>5. /\ m \in Step /\ m.key = n.key /\ m.type = n.type /\ m.path = n.path
        /\ ~m.media /\ m.text = n.text /\ m.buttons = C /\ m.delay = n.delay
    BY <1>3, <2>3, <2>4 DEF Step
  <2>6. [j \in DOMAIN C |-> SerializeButton(C[j])] = C
    <3>1. \A j \in DOMAIN C : SerializeButton(C[j]) = C[j]
      BY <2>3, ButtonSent
    <3>2. C = [j \in DOMAIN C |-> C[j]]
      BY <2>3
    <3>. QED BY <3>1, <3>2
  <2>7. SerializeStep(m) = m
    <3>1. emptyActionStep(m.key, m.type, m.path) = bare
      BY <1>2, <2>5
    <3>2. m.type # "CONDITION" /\ m.type # "HIDE_COMMENT"
      BY <1>9, <2>5
    <3>3. SerializeStep(m) =
            [bare EXCEPT !.delay = m.delay, !.text = m.text,
                         !.buttons = [j \in DOMAIN m.buttons |-> SerializeButton(m.buttons[j])]]
      BY <2>5, <3>1, <3>2, Zenon DEF SerializeStep
    <3>4. [j \in DOMAIN m.buttons |-> SerializeButton(m.buttons[j])] = C
      BY <2>5, <2>6
    <3>. QED BY <2>4, <2>5, <3>3, <3>4
  <2>8. ASSUME Valid(n) PROVE Valid(m) /\ (Odd(m) \/ Accepted(m))
    <3>1. /\ n.text /\ Len(B) <= MaxButtons
          /\ \A j \in DOMAIN B : validateButton(B[j])
      BY <1>9, <2>1, <2>8 DEF Valid, ToSet
    <3>2. \A j \in DOMAIN C :
            /\ validateButton(C[j])
            /\ C[j].kind = "POSTBACK" /\ "odd" \notin {C[j].unlocked.links, C[j].locked.links} =>
                 /\ ReplyAccepted(C[j].unlocked)
                 /\ C[j].requireFollow => ReplyAccepted(C[j].locked)
      BY <2>3, <3>1, ButtonSent
    <3>3. Valid(m)
      BY <1>9, <2>3, <2>5, <3>1, <3>2 DEF Valid, ToSet
    <3>4. ASSUME ~Odd(m) PROVE Accepted(m)
      <4>1. \A b \in ToSet(m.buttons) : b.kind = "POSTBACK" =>
              ReplyAccepted(b.unlocked) /\ (b.requireFollow => ReplyAccepted(b.locked))
        BY <2>3, <2>5, <3>2, <3>4 DEF Odd, ToSet
      <4>. QED BY <1>9, <2>3, <2>5, <3>1, <3>4, <4>1 DEF Accepted, Odd
    <3>. QED BY <3>3, <3>4
  <2>. QED BY <1>4, <2>5, <2>7, <2>8 DEF Normal
<1>. QED BY <1>6, <1>7, <1>8, <1>9

\* Steps as they are sent: every one is shown and serialized, and valid.
AllNormal(steps) ==
  /\ steps \in Seq(Step)
  /\ \A n \in ToSet(steps) :
       /\ Normal(n)
       /\ \A key \in Above(n) : \E m \in ToSet(steps) : m.key = key /\ m.type = "CONDITION"

AllSound(steps) == AllNormal(steps) /\ \A n \in ToSet(steps) : Valid(n)

Sound(steps) == Tree(steps) /\ AllSound(steps)

LEMMA Validated ==
  ASSUME NEW steps
  PROVE  /\ validateActionSteps(steps) => \A n \in Shown(steps) : Valid(n)
         /\ (\A n \in Shown(steps) : Valid(n)) => validateActionSteps(steps)
<1>1. MaxDepth > 0
  BY BuilderAssumption
<1>. QED BY <1>1 DEF validateActionSteps, Valid

LEMMA ApiValidated ==
  ASSUME NEW steps, AllSound(steps), \A n \in ToSet(steps) : ~Odd(n)
  PROVE  validateActionTree(steps)
<1>1. MaxDepth > 0
  BY BuilderAssumption
<1>2. ASSUME NEW n \in ToSet(steps) PROVE Accepted(n)
  <2>1. n \in Step /\ Valid(n) /\ ~Odd(n) /\ SerializeStep(n) = n
    BY InSeq DEF AllSound, AllNormal, Normal
  <2>. QED BY <2>1, StepSent
<1>. QED BY <1>1, <1>2 DEF validateActionTree, Accepted

\* What is shown of a tree is a tree.
LEMMA ShownTree ==
  ASSUME NEW steps, Tree(steps)
  PROVE  /\ Tree(Among(steps, Shown(steps)))
         /\ ToSet(Among(steps, Shown(steps))) = Shown(steps)
         /\ \A n \in Shown(steps) : \A key \in Above(n) :
              \E m \in Shown(steps) : m.key = key /\ m.type = "CONDITION"
<1>1. PICK T : T = Shown(steps)
  OBVIOUS
<1>2. \A n : n \in T <=> n \in ToSet(steps)
               /\ \A key \in Above(n) : \E m \in ToSet(steps) : m.key = key /\ m.type = "CONDITION"
  BY <1>1 DEF Shown
<1>3. PICK u : u = Among(steps, T)
  OBVIOUS
<1>4. u \in Seq(Step) /\ ToSet(u) = T /\ \E p : PicksFrom(u, steps, p)
  <2>1. u \in Seq(Step) /\ ToSet(u) = ToSet(steps) \cap T /\ \E p : PicksFrom(u, steps, p)
    BY <1>3, AmongPicks DEF Tree
  <2>. QED BY <1>2, <2>1
<1>5. \A i, j \in DOMAIN u : u[i].key = u[j].key => i = j
  BY <1>4, PickedKeysDiffer DEF Tree
<1>6. \E n \in T : n.path = <<>>
  <2>1. PICK n \in ToSet(steps) : n.path = <<>>
    BY DEF Tree
  <2>2. Above(n) = {}
    BY <2>1, AboveEmpty
  <2>. QED BY <1>2, <2>1, <2>2
<1>7. ASSUME NEW n \in T, NEW key \in Above(n)
      PROVE  \E m \in T : m.key = key /\ m.type = "CONDITION"
  <2>1. PICK m \in ToSet(steps) : m.key = key /\ m.type = "CONDITION"
    BY <1>2, <1>7
  <2>2. Above(m) \subseteq Above(n)
    BY <1>2, <1>7, <2>1 DEF Tree
  <2>3. m \in T
    BY <1>2, <1>7, <2>1, <2>2
  <2>. QED BY <2>1, <2>3
<1>8. \A n, m \in T : m.key \in Above(n) => Above(m) \subseteq Above(n)
  BY <1>2 DEF Tree
<1>9. Tree(u)
  BY <1>4, <1>5, <1>6, <1>7, <1>8 DEF Tree
<1>. QED BY <1>1, <1>3, <1>4, <1>7, <1>9

LEMMA SentSteps ==
  ASSUME NEW steps, Tree(steps)
  PROVE  /\ Tree(serializeActionSteps(steps))
         /\ validateActionSteps(steps) => Sound(serializeActionSteps(steps))
         /\ serializeActionSteps(steps) # <<>>
<1>1. PICK s : s = Among(steps, Shown(steps))
  OBVIOUS
<1>2. /\ Tree(s) /\ ToSet(s) = Shown(steps)
      /\ \A n \in ToSet(s) : \A key \in Above(n) :
           \E m \in ToSet(s) : m.key = key /\ m.type = "CONDITION"
  BY <1>1, ShownTree
<1>3. s \in Seq(Step) /\ DOMAIN s = 1..Len(s) /\ Len(s) \in Nat
  BY <1>2, InSeq DEF Tree
<1>4. PICK u : u = serializeActionSteps(steps)
  OBVIOUS
<1>5. u = [i \in 1..Len(s) |-> SerializeStep(s[i])]
  BY <1>1, <1>3, <1>4 DEF serializeActionSteps
<1>6. ASSUME NEW i \in DOMAIN s
      PROVE  /\ s[i] \in Step /\ s[i] \in ToSet(s)
             /\ u[i] \in Step /\ Normal(u[i]) /\ u[i].key = s[i].key
             /\ u[i].type = s[i].type /\ u[i].path = s[i].path
             /\ Valid(s[i]) => Valid(u[i])
  <2>1. s[i] \in Step /\ s[i] \in ToSet(s)
    BY <1>3 DEF ToSet
  <2>2. u[i] = SerializeStep(s[i])
    BY <1>3, <1>5
  <2>. QED BY <2>1, <2>2, StepSent
<1>7. u \in Seq(Step) /\ DOMAIN u = DOMAIN s
  BY <1>3, <1>5, <1>6
<1>8. Tree(u)
  BY <1>2, <1>6, <1>7, ReshapedTree
<1>9. u # <<>>
  <2>1. PICK n \in ToSet(u) : TRUE
    BY <1>8 DEF Tree
  <2>. QED BY <2>1 DEF ToSet
<1>10. ASSUME validateActionSteps(steps) PROVE Sound(u)
  <2>1. \A n \in ToSet(s) : Valid(n)
    BY <1>2, <1>10, Validated
  <2>2. ASSUME NEW n \in ToSet(u)
        PROVE  /\ Normal(n) /\ Valid(n)
               /\ \A key \in Above(n) : \E m \in ToSet(u) : m.key = key /\ m.type = "CONDITION"
    <3>1. PICK i \in DOMAIN s : n = u[i]
      BY <1>7 DEF ToSet
    <3>2. Normal(n) /\ Valid(n)
      BY <1>6, <2>1, <3>1
    <3>3. ASSUME NEW key \in Above(n)
          PROVE  \E m \in ToSet(u) : m.key = key /\ m.type = "CONDITION"
      <4>1. Above(n) = Above(s[i])
        BY <1>6, <3>1 DEF Above
      <4>2. PICK m \in ToSet(s) : m.key = key /\ m.type = "CONDITION"
        BY <1>2, <1>6, <3>3, <4>1
      <4>3. PICK j \in DOMAIN s : m = s[j]
        BY <4>2 DEF ToSet
      <4>4. u[j] \in ToSet(u)
        BY <1>7 DEF ToSet
      <4>. QED BY <1>6, <4>2, <4>3, <4>4
    <3>. QED BY <3>2, <3>3
  <2>. QED BY <1>7, <1>8, <2>2 DEF Sound, AllSound, AllNormal
<1>. QED BY <1>4, <1>8, <1>9, <1>10

\* Steps that are serialized are sent as they are.
LEMMA SoundSent ==
  ASSUME NEW steps, AllNormal(steps)
  PROVE  /\ Shown(steps) = ToSet(steps)
         /\ AllSound(steps) => validateActionSteps(steps)
         /\ serializeActionSteps(steps) = steps
<1>1. Shown(steps) = ToSet(steps)
  BY DEF Shown, AllNormal
<1>2. AllSound(steps) => validateActionSteps(steps)
  BY <1>1, Validated DEF AllSound
<1>3. steps \in Seq(Step)
  BY DEF AllNormal
<1>4. Among(steps, Shown(steps)) = steps
  BY <1>1, <1>3, AmongAll
<1>5. serializeActionSteps(steps) = [i \in DOMAIN steps |-> SerializeStep(steps[i])]
  BY <1>4 DEF serializeActionSteps
<1>6. \A i \in DOMAIN steps : SerializeStep(steps[i]) = steps[i]
  BY DEF AllNormal, Normal, ToSet
<1>7. steps = [i \in DOMAIN steps |-> steps[i]]
  BY <1>3
<1>. QED BY <1>1, <1>2, <1>5, <1>6, <1>7

\* A step that was sent is opened as it was sent.
LEMMA StepOpened ==
  ASSUME NEW n \in Step, Normal(n), NEW row, row.key = n.key, row.type = n.type,
         row.test = n.test, row.delay = n.delay, row.text = n.text, row.media = n.media,
         row.buttons = n.buttons, row.path = n.path
  PROVE  OpenedStep(row) = n
<1>1. PICK bare : bare = emptyActionStep(n.key, n.type, n.path)
  OBVIOUS
<1>2. /\ bare \in Step /\ bare.key = n.key /\ bare.type = n.type /\ bare.path = n.path
      /\ bare.test = "plain"
  BY <1>1 DEF Step, Tests, Delays, emptyActionStep
<1>7. TestOpened(row.test) = n.test
  BY DEF TestOpened, Respelled, Step, Tests
<1>3. SerializeStep(n) = n
  BY DEF Normal
<1>4. CASE n.type = "CONDITION"
  <2>1. SerializeStep(n) = [bare EXCEPT !.test = n.test]
    BY <1>1, <1>4 DEF SerializeStep
  <2>2. OpenedStep(row) = [bare EXCEPT !.test = n.test]
    BY <1>1, <1>4, <1>7 DEF OpenedStep
  <2>. QED BY <1>3, <2>1, <2>2
<1>5. CASE n.type # "CONDITION"
  <2>1. OpenedStep(row) = [bare EXCEPT !.delay = n.delay, !.text = n.text, !.media = n.media,
                                       !.buttons = n.buttons]
    BY <1>1, <1>5 DEF OpenedStep
  <2>2. n.test = "plain"
    <3>1. CASE n.type = "HIDE_COMMENT"
      <4>1. SerializeStep(n) = [bare EXCEPT !.delay = n.delay]
        BY <1>1, <1>5, <3>1 DEF SerializeStep
      <4>. QED BY <1>2, <1>3, <4>1 DEF Step
    <3>2. CASE n.type # "HIDE_COMMENT" /\ n.media
      <4>1. SerializeStep(n) = [bare EXCEPT !.delay = n.delay, !.media = TRUE]
        BY <1>1, <1>5, <3>2 DEF SerializeStep
      <4>. QED BY <1>2, <1>3, <4>1 DEF Step
    <3>3. CASE n.type # "HIDE_COMMENT" /\ ~n.media
      <4>1. PICK C : C = [j \in DOMAIN n.buttons |-> SerializeButton(n.buttons[j])]
        OBVIOUS
      <4>2. SerializeStep(n) = [bare EXCEPT !.delay = n.delay, !.text = n.text, !.buttons = C]
        BY <1>1, <1>5, <3>3, <4>1, Zenon DEF SerializeStep
      <4>. QED BY <1>2, <1>3, <4>2 DEF Step
    <3>. QED BY <3>1, <3>2, <3>3
  <2>3. PICK d : d = [bare EXCEPT !.delay = n.delay, !.text = n.text, !.media = n.media,
                                  !.buttons = n.buttons]
    OBVIOUS
  <2>4. /\ d.key = bare.key /\ d.type = bare.type /\ d.path = bare.path /\ d.test = bare.test
        /\ d.delay = n.delay /\ d.text = n.text /\ d.media = n.media /\ d.buttons = n.buttons
    BY <1>2, <2>3 DEF Step
  <2>5. DOMAIN d = DOMAIN n /\ d = [x \in DOMAIN d |-> d[x]] /\ n = [x \in DOMAIN n |-> n[x]]
        /\ DOMAIN n = {"key", "type", "test", "delay", "text", "media", "buttons", "path"}
    BY <1>2, <2>3 DEF Step
  <2>6. \A x \in DOMAIN n : d[x] = n[x]
    BY <1>2, <2>2, <2>4, <2>5
  <2>. QED BY <2>1, <2>3, <2>5, <2>6
<1>. QED BY <1>4, <1>5

-----------------------------------------------------------------------------
(* The inductive invariant.                                                *)

\* A rule that was published: it never is a draft again.
Published(r) == r \in Rules /\ rule[r].status \notin {"NONE", "DRAFT"}

\* A form is whole, and one that edits a published rule saves no draft.
FormsHold ==
  \A t \in Tabs :
    /\ Whole(form[t])
    /\ form[t].open /\ form[t].isEdit => Published(form[t].rule) /\ save[t] = NoSave

\* A draft on its way is whole.
SavesHold ==
  \A t \in Tabs :
    /\ save[t].pc \in {"sent", "checked", "saved"} => save[t].data \in Contents /\ Whole(save[t].data)
    /\ save[t].pc = "checked" => save[t].rule \in Rules

\* What the form sends was checked by it, and what is being stored by the API.
Sent(body) ==
  /\ body \in Contents /\ Sound(body.steps)
  /\ body.picked <=> body.scope = "SPECIFIC_POSTS"

SubmitsHold ==
  \A t \in Tabs :
    /\ submit[t].pc \in {"sent", "read", "open"} =>
         Sent(submit[t].body) /\ (submit[t].isEdit => Published(submit[t].rule))
    /\ submit[t].pc \in {"read", "open"} =>
         /\ ApiOk(submit[t].body) /\ submit[t].rule \in Rules
         /\ rule[submit[t].rule].status # "NONE"

\* What a stored step opens as can be sent as it is, and is valid unless it is
\* a condition whose pattern a comma cuts.
Ready(n) == Normal(OpenedStep(n)) /\ (n.test # "commaPattern" => Valid(OpenedStep(n)))

\* The rows of a save: each one ready, the steps above a row among them.
Grouped(rows) ==
  \A n \in ToSet(rows) :
    /\ Ready(n)
    /\ \E m \in ToSet(rows) : m.by = n.by /\ m.path = <<>>
    /\ \A key \in Above(n) :
         \E m \in ToSet(rows) : m.by = n.by /\ m.key = key /\ m.type = "CONDITION"
    /\ \A m \in ToSet(rows) : m.by = n.by /\ m.key \in Above(n) => Above(m) \subseteq Above(n)

\* A row opens as the step it was made from, but for what opening it loses.
Faithful(n) ==
  LET m == OpenedStep(n)
  IN  /\ m.key = n.key /\ m.type = n.type /\ m.text = n.text
      /\ m.media = n.media /\ m.buttons = n.buttons /\ m.path = n.path
      /\ m.test = n.test \/ n.test \in Respelled
      /\ m.delay = n.delay \/ n.type = "CONDITION"

\* Steps as any client of the API stores them.
StepStored == [key : Nat, type : Types, test : TestsStored, delay : Delays, text : BOOLEAN,
               media : BOOLEAN, buttons : Seq(Button), path : Path]

Storable(steps) ==
  /\ steps \in Seq(StepStored)
  /\ \A i, j \in DOMAIN steps : steps[i].key = steps[j].key => i = j
  /\ \E n \in ToSet(steps) : n.path = <<>>
  /\ \A n \in ToSet(steps) :
       /\ Ready(n) /\ Faithful(n)
       /\ \A key \in Above(n) : \E m \in ToSet(steps) : m.key = key /\ m.type = "CONDITION"
  /\ \A n, m \in ToSet(steps) : m.key \in Above(n) => Above(m) \subseteq Above(n)

\* A body any of them sends.
Keepable(body) ==
  /\ body.scope \in ScopesStored /\ body.picked \in BOOLEAN
  /\ body.picked <=> body.scope \in {"SPECIFIC_POSTS", "SPECIFIC_STORIES"}
  /\ body.triggers \in Seq(TriggerStored) /\ Storable(body.steps)

Before(rows, by) == \A n \in ToSet(rows) : n.by < by

\* What a live rule has.
Stored(row) ==
  /\ row.triggers # <<>> /\ row.steps # <<>>
  /\ \A tr \in ToSet(row.triggers) : Parses(tr.trigger.test)
  /\ row.scope = "SPECIFIC_POSTS" => \E tr \in ToSet(row.triggers) : tr.trigger.source = "COMMENT"
  /\ row.scope \in {"ALL_STORIES", "SPECIFIC_STORIES"} =>
       \E tr \in ToSet(row.triggers) : tr.trigger.source = "STORY_REPLY"
  /\ row.picked <=> row.scope \in {"SPECIFIC_POSTS", "SPECIFIC_STORIES"}
  /\ Grouped(row.steps) /\ \A n \in ToSet(row.steps) : Faithful(n)

RowHolds(row) ==
  /\ row.status \in {"ACTIVE", "PAUSED"} => Stored(row)
  /\ row.status \notin {"ACTIVE", "PAUSED"} => row.triggers = <<>> /\ row.steps = <<>>
  /\ row.status = "DRAFT" => row.draft \in Contents /\ Whole(row.draft)

RulesHold == \A r \in Rules : RowHolds(rule[r]) /\ Before(rule[r].steps, used.by)

\* The rows of one save are found together or not at all.
Together(rows, found) ==
  \A n, m \in ToSet(rows) : n.by = m.by /\ n \in ToSet(found) => m \in ToSet(found)

FoundHold ==
  \A t \in Tabs : submit[t].pc = "open" =>
    \A found \in submit[t].found :
      Together(rule[submit[t].rule].steps, found) /\ Before(found, used.by)

\* While no two updates were open at once, the open one has seen what is stored.
AloneHold ==
  \A t \in Tabs : submit[t].pc = "open" /\ submit[t].rule \notin overlapped =>
    /\ \A u \in Tabs : submit[u].pc = "open" /\ submit[u].rule = submit[t].rule => u = t
    /\ Exists(submit[t].rule) =>
         /\ submit[t].triggers = rule[submit[t].rule].triggers
         /\ \A found \in submit[t].found : found = rule[submit[t].rule].steps

\* And all rows are of one save.
OneSave(row) ==
  /\ \A x, y \in ToSet(row.triggers) \cup ToSet(row.steps) : x.by = y.by
  /\ \A i, j \in DOMAIN row.steps : row.steps[i].key = row.steps[j].key => i = j

OneSaveHolds == \A r \in Rules : r \notin overlapped => OneSave(rule[r])

IInv ==
  /\ TypeOK /\ FormsHold /\ SavesHold /\ SubmitsHold /\ RulesHold /\ FoundHold
  /\ AloneHold /\ OneSaveHolds

-----------------------------------------------------------------------------
(* Rows.                                                                   *)

LEMMA JoinedSet ==
  ASSUME NEW S, NEW u \in Seq(S), NEW w \in Seq(S)
  PROVE  /\ u \o w \in Seq(S) /\ ToSet(u \o w) = ToSet(u) \cup ToSet(w)
         /\ w # <<>> => u \o w # <<>>
<1>1. Len(u) \in Nat /\ Len(w) \in Nat /\ DOMAIN u = 1..Len(u) /\ DOMAIN w = 1..Len(w)
  BY InSeq
<1>2. PICK k \in Nat : k = Len(u) + Len(w)
  BY <1>1
<1>3. PICK x : x = u \o w
  OBVIOUS
<1>4. Len(w) = k - Len(u)
  BY <1>1, <1>2
<1>5. /\ x \in Seq(S) /\ Len(x) = k
      /\ \A j \in 1..k : x[j] = IF j <= Len(u) THEN u[j] ELSE w[j - Len(u)]
  BY <1>1, <1>3, <1>4, Joined
<1>6. DOMAIN x = 1..k
  BY <1>5
<1>7. ASSUME NEW y \in ToSet(x) PROVE y \in ToSet(u) \cup ToSet(w)
  <2>1. PICK j \in 1..k : y = x[j]
    BY <1>6, <1>7 DEF ToSet
  <2>2. CASE j <= Len(u)
    BY <1>1, <1>5, <2>1, <2>2 DEF ToSet
  <2>3. CASE ~(j <= Len(u))
    <3>1. j - Len(u) \in DOMAIN w
      BY <1>1, <1>2, <2>3
    <3>. QED BY <1>5, <2>1, <2>3, <3>1 DEF ToSet
  <2>. QED BY <2>2, <2>3
<1>8. ASSUME NEW y \in ToSet(u) PROVE y \in ToSet(x)
  <2>1. PICK j \in DOMAIN u : y = u[j]
    BY <1>8 DEF ToSet
  <2>2. j \in 1..k /\ j <= Len(u)
    BY <1>1, <1>2
  <2>. QED BY <1>5, <1>6, <2>1, <2>2 DEF ToSet
<1>9. ASSUME NEW y \in ToSet(w) PROVE y \in ToSet(x)
  <2>1. PICK j \in DOMAIN w : y = w[j]
    BY <1>9 DEF ToSet
  <2>2. j + Len(u) \in 1..k /\ ~(j + Len(u) <= Len(u)) /\ (j + Len(u)) - Len(u) = j
    BY <1>1, <1>2
  <2>3. x[j + Len(u)] = w[j]
    BY <1>5, <2>2
  <2>. QED BY <1>6, <2>1, <2>2, <2>3 DEF ToSet
<1>10. ASSUME w # <<>> PROVE x # <<>>
  <2>1. 1 \in DOMAIN w
    BY <1>1, <1>10
  <2>2. w[1] \in ToSet(x)
    BY <1>9, <2>1 DEF ToSet
  <2>. QED BY <2>2 DEF ToSet
<1>. QED BY <1>3, <1>5, <1>7, <1>8, <1>9, <1>10

\* A sequence of elements of another set.
LEMMA SeqOfOthers ==
  ASSUME NEW S, NEW s \in Seq(S), NEW T, \A i \in DOMAIN s : s[i] \in T
  PROVE  s \in Seq(T)
<1>1. DOMAIN s = 1..Len(s) /\ Len(s) \in Nat /\ s = [i \in 1..Len(s) |-> s[i]]
  OBVIOUS
<1>. QED BY <1>1

\* A row opens as the step it is of does.
LEMMA RowOpens ==
  ASSUME NEW n \in StepStored, Ready(n), Faithful(n), NEW id \in Nat, NEW by \in Nat, NEW row,
         row = ActionRow(n, id, by)
  PROVE  /\ row \in StepRow /\ row.by = by /\ row.id = id /\ row.key = n.key
         /\ row.type = n.type /\ row.path = n.path /\ Ready(row) /\ Faithful(row)
<1>1. /\ row.key = n.key /\ row.type = n.type /\ row.test = n.test /\ row.delay = n.delay
      /\ row.text = n.text
      /\ row.media = n.media /\ row.buttons = n.buttons /\ row.path = n.path
      /\ row.by = by /\ row.id = id
  BY DEF ActionRow
<1>2. row \in StepRow
  BY DEF ActionRow, StepRow, StepStored
<1>3. OpenedStep(row) = OpenedStep(n)
  BY <1>1 DEF OpenedStep
<1>. QED BY <1>1, <1>2, <1>3 DEF Ready, Faithful

\* What a form sends is stored as it is.
LEMMA SoundStored ==
  ASSUME NEW steps, Sound(steps)
  PROVE  Storable(steps)
<1>1. steps \in Seq(Step)
  BY DEF Sound, Tree
<1>2. ASSUME NEW n \in Step, Normal(n), Valid(n)
      PROVE  n \in StepStored /\ Ready(n) /\ Faithful(n)
  <2>1. n \in StepStored
    BY DEF Step, StepStored, TestsStored
  <2>2. OpenedStep(n) = n
    BY <1>2, StepOpened
  <2>. QED BY <1>2, <2>1, <2>2 DEF Ready, Faithful
<1>3. ASSUME NEW n \in ToSet(steps) PROVE n \in StepStored /\ Ready(n) /\ Faithful(n)
  <2>1. n \in Step /\ Normal(n) /\ Valid(n)
    BY <1>1, InSeq DEF Sound, AllSound, AllNormal
  <2>. QED BY <1>2, <2>1
<1>4. steps \in Seq(StepStored)
  <2>1. \A i \in DOMAIN steps : steps[i] \in StepStored
    BY <1>3 DEF ToSet
  <2>. QED BY <1>1, <2>1, SeqOfOthers
<1>5. \A n \in ToSet(steps) : \A key \in Above(n) :
        \E m \in ToSet(steps) : m.key = key /\ m.type = "CONDITION"
  BY DEF Sound, AllSound, AllNormal
<1>6. /\ \A i, j \in DOMAIN steps : steps[i].key = steps[j].key => i = j
      /\ \E n \in ToSet(steps) : n.path = <<>>
      /\ \A n, m \in ToSet(steps) : m.key \in Above(n) => Above(m) \subseteq Above(n)
  BY DEF Sound, Tree
<1>. QED BY <1>3, <1>4, <1>5, <1>6 DEF Storable

LEMMA SentKept ==
  ASSUME NEW body, Sent(body)
  PROVE  Keepable(body)
<1>1. /\ body \in Contents /\ Sound(body.steps)
      /\ body.picked <=> body.scope = "SPECIFIC_POSTS"
  BY DEF Sent
<1>2. Storable(body.steps)
  BY <1>1, SoundStored
<1>3. body.scope \in Scopes /\ body.picked \in BOOLEAN /\ body.triggers \in Seq(Trigger)
  BY <1>1 DEF Contents
<1>4. body.triggers \in Seq(TriggerStored)
  <2>1. \A tr \in Trigger : tr \in TriggerStored
    BY DEF Trigger, TriggerStored, TestsStored
  <2>2. \A i \in DOMAIN body.triggers : body.triggers[i] \in TriggerStored
    BY <1>3, <2>1, InSeq
  <2>. QED BY <1>3, <2>2, SeqOfOthers
<1>. QED BY <1>1, <1>2, <1>3, <1>4 DEF Keepable, Scopes, ScopesStored

\* What is kept of the ids of a pool.
LEMMA IdKept ==
  ASSUME NEW rows \in Seq(StepRow), NEW i \in Nat \ {0}, NEW n, NEW fresh \in Nat
  PROVE  LET id == ReusedId(collectActionIdPool(rows), i, n, fresh)
         IN  /\ id \in Nat
             /\ rows = <<>> => id = fresh + i
             /\ i \in DOMAIN rows /\ rows[i].type = n.type => id = rows[i].id
<1>1. PICK pool : pool = collectActionIdPool(rows)
  OBVIOUS
<1>2. DOMAIN rows = 1..Len(rows) /\ Len(rows) \in Nat
  BY InSeq
<1>3. pool = [j \in 1..Len(rows) |-> [id |-> rows[j].id, type |-> rows[j].type]]
  BY <1>1, <1>2 DEF collectActionIdPool
<1>4. Len(pool) = Len(rows)
  BY <1>2, <1>3
<1>5. CASE i <= Len(rows)
  <2>1. i \in DOMAIN rows
    BY <1>2, <1>5
  <2>2. rows[i] \in StepRow
    BY <2>1, InSeq
  <2>3. pool[i].id = rows[i].id /\ pool[i].type = rows[i].type /\ rows[i].id \in Nat
    BY <1>2, <1>3, <2>1, <2>2 DEF StepRow
  <2>4. rows # <<>>
    BY <2>1
  <2>. QED BY <1>1, <1>4, <1>5, <2>1, <2>3, <2>4 DEF ReusedId
<1>6. CASE ~(i <= Len(rows))
  BY <1>1, <1>2, <1>4, <1>6 DEF ReusedId
<1>. QED BY <1>2, <1>5, <1>6

\* The rows a tree of steps is stored as, over the rows there were.
RowsMade(old, fresh, by, rows) ==
  /\ rows \in Seq(StepRow) /\ rows # <<>> /\ Grouped(rows)
  /\ \A n \in ToSet(rows) : Faithful(n) /\ n.by = by
  /\ \A i, j \in DOMAIN rows : rows[i].key = rows[j].key => i = j
  /\ \A i \in DOMAIN rows : old = <<>> => rows[i].id = fresh + i
  /\ \A i \in DOMAIN rows :
       i \in DOMAIN old /\ old[i].type = rows[i].type => rows[i].id = old[i].id

LEMMA Created ==
  ASSUME NEW steps, Storable(steps), NEW old \in Seq(StepRow), NEW fresh \in Nat, NEW by \in Nat,
         NEW rows, rows = createActionTree(steps, collectActionIdPool(old), fresh, by)
  PROVE  RowsMade(old, fresh, by, rows)
<1>1. steps \in Seq(StepStored) /\ DOMAIN steps = 1..Len(steps) /\ Len(steps) \in Nat
  BY InSeq DEF Storable
<1>2. PICK pool : pool = collectActionIdPool(old)
  OBVIOUS
<1>3. rows = [i \in 1..Len(steps) |-> ActionRow(steps[i], ReusedId(pool, i, steps[i], fresh), by)]
  BY <1>1, <1>2 DEF createActionTree
<1>4. ASSUME NEW i \in DOMAIN steps
      PROVE  /\ rows[i] \in StepRow /\ rows[i].by = by /\ rows[i].key = steps[i].key
             /\ rows[i].type = steps[i].type /\ rows[i].path = steps[i].path
             /\ Ready(rows[i]) /\ Faithful(rows[i])
             /\ steps[i] \in ToSet(steps)
             /\ old = <<>> => rows[i].id = fresh + i
             /\ i \in DOMAIN old /\ old[i].type = steps[i].type => rows[i].id = old[i].id
  <2>1. PICK id : id = ReusedId(pool, i, steps[i], fresh)
    OBVIOUS
  <2>2. steps[i] \in StepStored /\ steps[i] \in ToSet(steps) /\ i \in Nat \ {0}
    BY <1>1, InSeq
  <2>3. Ready(steps[i]) /\ Faithful(steps[i])
    BY <2>2 DEF Storable
  <2>4. /\ id \in Nat
        /\ old = <<>> => id = fresh + i
        /\ i \in DOMAIN old /\ old[i].type = steps[i].type => id = old[i].id
    BY <1>2, <2>1, <2>2, IdKept
  <2>5. rows[i] = ActionRow(steps[i], id, by)
    BY <1>1, <1>3, <2>1
  <2>6. /\ rows[i] \in StepRow /\ rows[i].by = by /\ rows[i].id = id
        /\ rows[i].key = steps[i].key
        /\ rows[i].type = steps[i].type /\ rows[i].path = steps[i].path
        /\ Ready(rows[i]) /\ Faithful(rows[i])
    BY <2>2, <2>3, <2>4, <2>5, RowOpens
  <2>. QED BY <2>2, <2>4, <2>6
<1>5. rows \in Seq(StepRow) /\ DOMAIN rows = DOMAIN steps
  BY <1>1, <1>3, <1>4
<1>6. \A n \in ToSet(rows) : \E i \in DOMAIN steps : n = rows[i]
  BY <1>5 DEF ToSet
<1>7. \A m \in ToSet(steps) : \E i \in DOMAIN steps : m = steps[i] /\ rows[i] \in ToSet(rows)
  BY <1>5 DEF ToSet
<1>8. rows # <<>>
  <2>1. PICK n \in ToSet(steps) : TRUE
    BY DEF Storable
  <2>2. PICK i \in DOMAIN steps : rows[i] \in ToSet(rows)
    BY <1>7, <2>1
  <2>. QED BY <2>2 DEF ToSet
<1>9. ASSUME NEW n \in ToSet(rows)
      PROVE  /\ Ready(n)
             /\ \E m \in ToSet(rows) : m.by = n.by /\ m.path = <<>>
             /\ \A key \in Above(n) :
                  \E m \in ToSet(rows) : m.by = n.by /\ m.key = key /\ m.type = "CONDITION"
             /\ \A m \in ToSet(rows) :
                  m.by = n.by /\ m.key \in Above(n) => Above(m) \subseteq Above(n)
  <2>1. PICK i \in DOMAIN steps : n = rows[i]
    BY <1>6, <1>9
  <2>3. Above(n) = Above(steps[i]) /\ n.by = by
    BY <1>4, <2>1 DEF Above
  <2>4. \E m \in ToSet(rows) : m.by = n.by /\ m.path = <<>>
    <3>1. PICK m \in ToSet(steps) : m.path = <<>>
      BY DEF Storable
    <3>2. PICK j \in DOMAIN steps : m = steps[j] /\ rows[j] \in ToSet(rows)
      BY <1>7, <3>1
    <3>. QED BY <1>4, <2>3, <3>1, <3>2
  <2>5. ASSUME NEW key \in Above(n)
        PROVE  \E m \in ToSet(rows) : m.by = n.by /\ m.key = key /\ m.type = "CONDITION"
    <3>1. PICK m \in ToSet(steps) : m.key = key /\ m.type = "CONDITION"
      BY <1>4, <2>3, <2>5 DEF Storable
    <3>2. PICK j \in DOMAIN steps : m = steps[j] /\ rows[j] \in ToSet(rows)
      BY <1>7, <3>1
    <3>. QED BY <1>4, <2>3, <3>1, <3>2
  <2>6. ASSUME NEW m \in ToSet(rows), m.key \in Above(n) PROVE Above(m) \subseteq Above(n)
    <3>1. PICK j \in DOMAIN steps : m = rows[j]
      BY <1>6
    <3>2. Above(m) = Above(steps[j]) /\ m.key = steps[j].key
      BY <1>4, <3>1 DEF Above
    <3>. QED BY <1>4, <2>3, <2>6, <3>2 DEF Storable
  <2>7. Ready(n)
    BY <1>4, <2>1
  <2>. QED BY <2>4, <2>5, <2>6, <2>7
<1>10. Grouped(rows)
  BY <1>9 DEF Grouped
<1>11. \A n \in ToSet(rows) : Faithful(n) /\ n.by = by
  BY <1>4, <1>6
<1>12. \A i, j \in DOMAIN rows : rows[i].key = rows[j].key => i = j
  BY <1>4, <1>5 DEF Storable
<1>13. \A i \in DOMAIN rows : /\ old = <<>> => rows[i].id = fresh + i
                              /\ i \in DOMAIN old /\ old[i].type = rows[i].type
                                   => rows[i].id = old[i].id
  BY <1>4, <1>5
<1>. QED BY <1>5, <1>8, <1>10, <1>11, <1>12, <1>13 DEF RowsMade

\* The rows of one save go together, and those of a later one are added.
RowsLeft(rows, found, new, by, all) ==
  /\ all \in Seq(StepRow) /\ all # <<>> /\ Grouped(all)
  /\ \A n \in ToSet(all) : Faithful(n)
  /\ ToSet(all) = (ToSet(rows) \ ToSet(found)) \cup ToSet(new)
  /\ Before(all, by + 1)

LEMMA GroupsReplaced ==
  ASSUME NEW rows \in Seq(StepRow), NEW found \in Seq(StepRow), NEW new \in Seq(StepRow),
         NEW by \in Nat, Grouped(rows), Together(rows, found), Before(rows, by),
         \A n \in ToSet(rows) : Faithful(n),
         Grouped(new), new # <<>>, \A n \in ToSet(new) : Faithful(n) /\ n.by = by,
         NEW all, all = Others(rows, found) \o new
  PROVE  RowsLeft(rows, found, new, by, all)
<1>1. PICK u : u = Others(rows, found)
  OBVIOUS
<1>2. u \in Seq(StepRow) /\ ToSet(u) = ToSet(rows) \ ToSet(found)
  BY <1>1, AmongPicks DEF Others
<1>3. /\ all \in Seq(StepRow) /\ ToSet(all) = ToSet(u) \cup ToSet(new) /\ all # <<>>
  BY <1>1, <1>2, JoinedSet
<1>4. \A n \in ToSet(rows) : n.by < by /\ n.by \in Nat
  <2>1. ToSet(rows) \subseteq StepRow
    BY InSeq
  <2>. QED BY <2>1 DEF Before, StepRow
<1>5. Before(all, by + 1)
  BY <1>2, <1>3, <1>4 DEF Before
<1>6. ASSUME NEW n \in ToSet(u), NEW m \in ToSet(rows), m.by = n.by PROVE m \in ToSet(u)
  BY <1>2, <1>6 DEF Together
<1>7. ASSUME NEW n \in ToSet(u), NEW m \in ToSet(all), m.by = n.by PROVE m \in ToSet(rows)
  BY <1>2, <1>3, <1>4, <1>7
<1>8. ASSUME NEW n \in ToSet(new), NEW m \in ToSet(all), m.by = n.by PROVE m \in ToSet(new)
  BY <1>2, <1>3, <1>4, <1>8
<1>9. ASSUME NEW n \in ToSet(all)
      PROVE  /\ Ready(n)
             /\ \E m \in ToSet(all) : m.by = n.by /\ m.path = <<>>
             /\ \A key \in Above(n) :
                  \E m \in ToSet(all) : m.by = n.by /\ m.key = key /\ m.type = "CONDITION"
             /\ \A m \in ToSet(all) :
                  m.by = n.by /\ m.key \in Above(n) => Above(m) \subseteq Above(n)
  <2>1. CASE n \in ToSet(u)
    <3>1. n \in ToSet(rows)
      BY <1>2, <2>1
    <3>2. Ready(n)
      BY <3>1 DEF Grouped
    <3>3. \E m \in ToSet(all) : m.by = n.by /\ m.path = <<>>
      BY <1>3, <1>6, <2>1, <3>1 DEF Grouped
    <3>4. \A key \in Above(n) :
            \E m \in ToSet(all) : m.by = n.by /\ m.key = key /\ m.type = "CONDITION"
      BY <1>3, <1>6, <2>1, <3>1 DEF Grouped
    <3>5. \A m \in ToSet(all) : m.by = n.by /\ m.key \in Above(n) => Above(m) \subseteq Above(n)
      BY <1>7, <2>1, <3>1 DEF Grouped
    <3>. QED BY <3>2, <3>3, <3>4, <3>5
  <2>2. CASE n \in ToSet(new)
    <3>2. Ready(n)
      BY <2>2 DEF Grouped
    <3>3. \E m \in ToSet(all) : m.by = n.by /\ m.path = <<>>
      BY <1>3, <2>2 DEF Grouped
    <3>4. \A key \in Above(n) :
            \E m \in ToSet(all) : m.by = n.by /\ m.key = key /\ m.type = "CONDITION"
      BY <1>3, <2>2 DEF Grouped
    <3>5. \A m \in ToSet(all) : m.by = n.by /\ m.key \in Above(n) => Above(m) \subseteq Above(n)
      BY <1>8, <2>2 DEF Grouped
    <3>. QED BY <3>2, <3>3, <3>4, <3>5
  <2>. QED BY <1>3, <1>9, <2>1, <2>2
<1>10. Grouped(all)
  BY <1>9 DEF Grouped
<1>11. \A n \in ToSet(all) : Faithful(n)
  BY <1>2, <1>3
<1>. QED BY <1>2, <1>3, <1>5, <1>10, <1>11 DEF RowsLeft

\* The rows of the triggers of a body.
LEMMA TriggersStored ==
  ASSUME NEW triggers \in Seq(TriggerStored), NEW by \in Nat,
         NEW rows, rows = TriggerRows(triggers, by)
  PROVE  /\ rows \in Seq(TriggerRow) /\ \A x \in ToSet(rows) : x.by = by
         /\ triggers # <<>> => rows # <<>>
         /\ \A x \in ToSet(rows) : x.trigger \in ToSet(triggers)
         /\ \A tr \in ToSet(triggers) : \E x \in ToSet(rows) : x.trigger = tr
<1>1. DOMAIN triggers = 1..Len(triggers) /\ Len(triggers) \in Nat
  BY InSeq
<1>2. rows = [i \in 1..Len(triggers) |-> [by |-> by, at |-> i, trigger |-> triggers[i]]]
  BY <1>1 DEF TriggerRows
<1>3. ASSUME NEW i \in 1..Len(triggers)
      PROVE  /\ rows[i] \in TriggerRow /\ rows[i].by = by /\ rows[i].trigger = triggers[i]
             /\ triggers[i] \in ToSet(triggers)
  BY <1>1, <1>2, InSeq DEF TriggerRow
<1>4. rows \in Seq(TriggerRow) /\ DOMAIN rows = 1..Len(triggers)
  BY <1>1, <1>2, <1>3
<1>5. \A x \in ToSet(rows) : \E i \in 1..Len(triggers) : x = rows[i]
  BY <1>4 DEF ToSet
<1>6. \A tr \in ToSet(triggers) : \E i \in 1..Len(triggers) : tr = triggers[i] /\ rows[i] \in ToSet(rows)
  BY <1>1, <1>4 DEF ToSet
<1>7. ASSUME triggers # <<>> PROVE rows # <<>>
  <2>1. 1 \in 1..Len(triggers)
    BY <1>1, <1>7
  <2>. QED BY <1>4, <2>1
<1>. QED BY <1>3, <1>4, <1>5, <1>6, <1>7

\* What the triggers of an accepted body say of a rule that has them.
Triggered(scope, rows) ==
  /\ rows # <<>>
  /\ scope = "SPECIFIC_POSTS" => \E x \in ToSet(rows) : x.trigger.source = "COMMENT"
  /\ scope \in {"ALL_STORIES", "SPECIFIC_STORIES"} =>
       \E x \in ToSet(rows) : x.trigger.source = "STORY_REPLY"

TriggersMade(scope, by, rows) ==
  /\ rows \in Seq(TriggerRow)
  /\ \A x \in ToSet(rows) : x.by = by /\ Parses(x.trigger.test)
  /\ Triggered(scope, rows)

LEMMA TriggersAccepted ==
  ASSUME NEW body, body.triggers \in Seq(TriggerStored), ApiOk(body), NEW by \in Nat,
         NEW rows, rows = TriggerRows(body.triggers, by)
  PROVE  TriggersMade(body.scope, by, rows)
<1>2. /\ rows \in Seq(TriggerRow) /\ \A x \in ToSet(rows) : x.by = by
      /\ rows # <<>>
      /\ \A x \in ToSet(rows) : x.trigger \in ToSet(body.triggers)
      /\ \A tr \in ToSet(body.triggers) : \E x \in ToSet(rows) : x.trigger = tr
  BY TriggersStored DEF ApiOk
<1>3. \A x \in ToSet(rows) : Parses(x.trigger.test)
  BY <1>2 DEF ApiOk
<1>4. /\ body.scope = "SPECIFIC_POSTS" => \E tr \in ToSet(body.triggers) : tr.source = "COMMENT"
      /\ body.scope \in {"ALL_STORIES", "SPECIFIC_STORIES"} =>
           \E tr \in ToSet(body.triggers) : tr.source = "STORY_REPLY"
  BY DEF ApiOk, validateScope
<1>5. Triggered(body.scope, rows)
  BY <1>2, <1>4 DEF Triggered
<1>. QED BY <1>2, <1>3, <1>5 DEF TriggersMade

LEMMA StoredIs ==
  ASSUME NEW row, Triggered(row.scope, row.triggers), row.steps # <<>>,
         \A tr \in ToSet(row.triggers) : Parses(tr.trigger.test),
         row.picked <=> row.scope \in {"SPECIFIC_POSTS", "SPECIFIC_STORIES"},
         Grouped(row.steps), \A n \in ToSet(row.steps) : Faithful(n)
  PROVE  Stored(row)
BY DEF Stored, Triggered

\* A rule made of an accepted body.
LEMMA NewRuleHolds ==
  ASSUME NEW body, Keepable(body), ApiOk(body), NEW by \in Nat, NEW fresh \in Nat,
         NEW row, row = NewRule(body, by, fresh)
  PROVE  /\ row \in Rows /\ row.status = "ACTIVE" /\ RowHolds(row) /\ OneSave(row)
         /\ Before(row.steps, by + 1) /\ IsInjective(Ids(row.steps))
<1>1. PICK triggers : triggers = TriggerRows(body.triggers, by)
  OBVIOUS
<1>2. PICK steps : steps = createActionTree(body.steps, <<>>, fresh, by)
  OBVIOUS
<1>3. /\ body.scope \in ScopesStored /\ body.picked \in BOOLEAN
      /\ body.picked <=> body.scope \in {"SPECIFIC_POSTS", "SPECIFIC_STORIES"}
      /\ body.triggers \in Seq(TriggerStored) /\ Storable(body.steps)
  BY DEF Keepable
<1>4. /\ triggers \in Seq(TriggerRow)
      /\ \A x \in ToSet(triggers) : x.by = by /\ Parses(x.trigger.test)
      /\ Triggered(body.scope, triggers)
  BY <1>1, <1>3, TriggersAccepted DEF TriggersMade
<1>5. PICK none \in Seq(StepRow) : none = <<>>
  BY EmptySeq
<1>6. collectActionIdPool(none) = <<>>
  BY <1>5 DEF collectActionIdPool
<1>7. /\ steps \in Seq(StepRow) /\ steps # <<>> /\ Grouped(steps)
      /\ \A n \in ToSet(steps) : Faithful(n) /\ n.by = by
      /\ \A i, j \in DOMAIN steps : steps[i].key = steps[j].key => i = j
      /\ \A i \in DOMAIN steps : none = <<>> => steps[i].id = fresh + i
  <2>1. steps = createActionTree(body.steps, collectActionIdPool(none), fresh, by)
    BY <1>2, <1>6
  <2>2. RowsMade(none, fresh, by, steps)
    BY <1>3, <2>1, Created
  <2>. QED BY <2>2 DEF RowsMade
<1>8. row = [status |-> "ACTIVE", scope |-> body.scope, picked |-> body.picked,
             triggers |-> triggers, steps |-> steps, draft |-> NoContent]
  BY <1>1, <1>2 DEF NewRule, Row
<1>9. /\ row.status = "ACTIVE" /\ row.scope = body.scope /\ row.picked = body.picked
      /\ row.triggers = triggers /\ row.steps = steps
  BY <1>8
<1>10. row \in Rows
  BY <1>3, <1>4, <1>7, <1>8 DEF Rows
<1>11. Stored(row)
  <2>1. row.picked <=> row.scope \in {"SPECIFIC_POSTS", "SPECIFIC_STORIES"}
    BY <1>3, <1>9
  <2>2. /\ Triggered(row.scope, row.triggers) /\ row.steps # <<>> /\ Grouped(row.steps)
        /\ \A tr \in ToSet(row.triggers) : Parses(tr.trigger.test)
        /\ \A n \in ToSet(row.steps) : Faithful(n)
    BY <1>4, <1>7, <1>9
  <2>. QED BY <2>1, <2>2, StoredIs
<1>12. RowHolds(row)
  BY <1>9, <1>11 DEF RowHolds
<1>13. OneSave(row)
  BY <1>4, <1>7, <1>9 DEF OneSave
<1>14. Before(row.steps, by + 1)
  BY <1>7, <1>9 DEF Before
<1>15. IsInjective(Ids(row.steps))
  <2>1. DOMAIN steps = 1..Len(steps) /\ Len(steps) \in Nat
    BY <1>7, InSeq
  <2>2. \A i, j \in DOMAIN steps : steps[i].id = steps[j].id => i = j
    BY <1>5, <1>7, <2>1
  <2>. QED BY <1>9, <2>2 DEF IsInjective, Ids
<1>. QED BY <1>9, <1>10, <1>12, <1>13, <1>14, <1>15

\* A rule an update has replaced: what it found is gone, what was sent is there.
LEMMA ReplacedHolds ==
  ASSUME TypeOK, NEW t \in Tabs, NEW s, s = submit[t], Sent(s.body), ApiOk(s.body),
         NEW r \in Rules, RowHolds(rule[r]), Exists(r), Before(rule[r].steps, used.by),
         s.isEdit => rule[r].status # "DRAFT",
         NEW found \in Seq(StepRow), Together(rule[r].steps, found),
         NEW row, row = Replaced(rule[r], s, found)
  PROVE  /\ row \in Rows /\ row.status \in {"ACTIVE", "PAUSED"} /\ RowHolds(row)
         /\ Before(row.steps, used.by + 1)
         /\ ToSet(row.steps) \subseteq {n \in ToSet(rule[r].steps) : n \notin ToSet(found)}
                                         \cup {n \in StepRow : n.by = used.by}
         /\ found = rule[r].steps /\ s.triggers = rule[r].triggers => OneSave(row)
         /\ found = rule[r].steps =>
              \A i \in DOMAIN row.steps : i \in DOMAIN found /\ found[i].type = row.steps[i].type
                => row.steps[i].id = found[i].id
<1>1. PICK old : old = rule[r]
  OBVIOUS
<1>2. PICK triggers : triggers = TriggerRows(s.body.triggers, used.by)
  OBVIOUS
<1>3. PICK steps : steps = createActionTree(s.body.steps, collectActionIdPool(found), used.id, used.by)
  OBVIOUS
<1>4. PICK allTriggers : allTriggers = Others(old.triggers, s.triggers) \o triggers
  OBVIOUS
<1>5. PICK allSteps : allSteps = Others(old.steps, found) \o steps
  OBVIOUS
<1>6. PICK status : status = IF s.isEdit THEN old.status ELSE "ACTIVE"
  OBVIOUS
<1>7. PICK draft : draft = IF s.publishing THEN NoContent ELSE old.draft
  OBVIOUS
<1>8. /\ old \in Rows /\ used.by \in Nat /\ used.id \in Nat /\ s \in Submits
  BY <1>1 DEF TypeOK
<1>9. row = [old EXCEPT !.status = status, !.draft = draft, !.scope = s.body.scope,
                        !.picked = s.body.picked, !.triggers = allTriggers, !.steps = allSteps]
  BY <1>1, <1>2, <1>3, <1>4, <1>5, <1>6, <1>7, <1>8 DEF Replaced, Rows
<1>10. /\ row.status = status /\ row.scope = s.body.scope /\ row.picked = s.body.picked
       /\ row.triggers = allTriggers /\ row.steps = allSteps /\ row.draft = draft
  BY <1>8, <1>9 DEF Rows
<1>11. /\ s.body.scope \in ScopesStored /\ s.body.picked \in BOOLEAN
       /\ s.body.picked <=> s.body.scope \in {"SPECIFIC_POSTS", "SPECIFIC_STORIES"}
       /\ s.body.triggers \in Seq(TriggerStored) /\ Storable(s.body.steps)
  BY SentKept DEF Keepable
<1>12. /\ triggers \in Seq(TriggerRow)
       /\ \A x \in ToSet(triggers) : x.by = used.by /\ Parses(x.trigger.test)
       /\ Triggered(s.body.scope, triggers)
  <2>1. TriggersMade(s.body.scope, used.by, triggers)
    BY <1>2, <1>8, <1>11, TriggersAccepted
  <2>. QED BY <2>1 DEF TriggersMade
<1>13. /\ steps \in Seq(StepRow) /\ steps # <<>> /\ Grouped(steps)
       /\ \A n \in ToSet(steps) : Faithful(n) /\ n.by = used.by
       /\ \A i, j \in DOMAIN steps : steps[i].key = steps[j].key => i = j
       /\ \A i \in DOMAIN steps : i \in DOMAIN found /\ found[i].type = steps[i].type
            => steps[i].id = found[i].id
  <2>1. RowsMade(found, used.id, used.by, steps)
    BY <1>3, <1>8, <1>11, Created
  <2>. QED BY <2>1 DEF RowsMade
<1>14. /\ Grouped(old.steps) /\ \A n \in ToSet(old.steps) : Faithful(n)
       /\ \A tr \in ToSet(old.triggers) : Parses(tr.trigger.test)
  <2>1. CASE old.status \in {"ACTIVE", "PAUSED"}
    BY <1>1, <2>1 DEF RowHolds, Stored
  <2>2. CASE old.status \notin {"ACTIVE", "PAUSED"}
    <3>1. old.steps = <<>> /\ old.triggers = <<>>
      BY <1>1, <2>2 DEF RowHolds
    <3>2. ToSet(old.steps) = {} /\ ToSet(old.triggers) = {}
      BY <3>1 DEF ToSet
    <3>. QED BY <3>2 DEF Grouped
  <2>. QED BY <2>1, <2>2
<1>15. old.steps \in Seq(StepRow) /\ old.triggers \in Seq(TriggerRow)
  BY <1>8 DEF Rows
<1>16. /\ allSteps \in Seq(StepRow) /\ allSteps # <<>> /\ Grouped(allSteps)
       /\ \A n \in ToSet(allSteps) : Faithful(n)
       /\ ToSet(allSteps) = (ToSet(old.steps) \ ToSet(found)) \cup ToSet(steps)
       /\ Before(allSteps, used.by + 1)
  <2>1. Together(old.steps, found) /\ Before(old.steps, used.by)
    BY <1>1
  <2>2. RowsLeft(old.steps, found, steps, used.by, allSteps)
    BY <1>5, <1>8, <1>13, <1>14, <1>15, <2>1, GroupsReplaced
  <2>. QED BY <2>2 DEF RowsLeft
<1>17. PICK rest : rest = Others(old.triggers, s.triggers)
  OBVIOUS
<1>18. rest \in Seq(TriggerRow) /\ ToSet(rest) = ToSet(old.triggers) \ ToSet(s.triggers)
  BY <1>15, <1>17, AmongPicks DEF Others
<1>19. /\ allTriggers \in Seq(TriggerRow) /\ ToSet(allTriggers) = ToSet(rest) \cup ToSet(triggers)
       /\ allTriggers # <<>>
  BY <1>4, <1>12, <1>17, <1>18, JoinedSet DEF Triggered
<1>20. Triggered(s.body.scope, allTriggers)
  BY <1>12, <1>19 DEF Triggered
<1>21. status \in {"ACTIVE", "PAUSED"}
  BY <1>1, <1>6 DEF Exists, Live
<1>22. row \in Rows
  <2>2. draft \in Contents \cup {NoContent}
    BY <1>7, <1>8 DEF Rows
  <2>. QED BY <1>8, <1>9, <1>11, <1>16, <1>19, <1>21, <2>2 DEF Rows
<1>23. Stored(row)
  <2>1. row.picked <=> row.scope \in {"SPECIFIC_POSTS", "SPECIFIC_STORIES"}
    BY <1>10, <1>11
  <2>2. \A tr \in ToSet(allTriggers) : Parses(tr.trigger.test)
    BY <1>12, <1>14, <1>18, <1>19
  <2>3. /\ Triggered(row.scope, row.triggers) /\ row.steps # <<>> /\ Grouped(row.steps)
        /\ \A tr \in ToSet(row.triggers) : Parses(tr.trigger.test)
        /\ \A n \in ToSet(row.steps) : Faithful(n)
    BY <1>10, <1>16, <1>20, <2>2
  <2>. QED BY <2>1, <2>3, StoredIs
<1>24. RowHolds(row)
  BY <1>10, <1>21, <1>23 DEF RowHolds
<1>25. ASSUME NEW n \in ToSet(row.steps)
       PROVE  n \in {m \in ToSet(rule[r].steps) : m \notin ToSet(found)}
                      \cup {m \in StepRow : m.by = used.by}
  <2>1. n \in (ToSet(old.steps) \ ToSet(found)) \cup ToSet(steps)
    BY <1>10, <1>16
  <2>2. ToSet(steps) \subseteq StepRow
    BY <1>13, InSeq
  <2>. QED BY <1>1, <1>13, <2>1, <2>2
<1>26. ASSUME found = rule[r].steps PROVE allSteps = steps
  <2>1. ToSet(old.steps) \cap (ToSet(old.steps) \ ToSet(found)) = {}
    BY <1>1, <1>26
  <2>2. Others(old.steps, found) = <<>>
    BY <1>15, <2>1, AmongNone DEF Others
  <2>. QED BY <1>5, <1>13, <2>2
<1>27. ASSUME s.triggers = rule[r].triggers PROVE allTriggers = triggers
  <2>1. ToSet(old.triggers) \cap (ToSet(old.triggers) \ ToSet(s.triggers)) = {}
    BY <1>1, <1>27
  <2>2. Others(old.triggers, s.triggers) = <<>>
    BY <1>15, <2>1, AmongNone DEF Others
  <2>. QED BY <1>4, <1>12, <2>2
<1>28. found = rule[r].steps /\ s.triggers = rule[r].triggers => OneSave(row)
  BY <1>10, <1>12, <1>13, <1>26, <1>27 DEF OneSave
<1>29. found = rule[r].steps =>
         \A i \in DOMAIN row.steps : i \in DOMAIN found /\ found[i].type = row.steps[i].type
           => row.steps[i].id = found[i].id
  BY <1>10, <1>13, <1>26
<1>. QED BY <1>10, <1>16, <1>21, <1>22, <1>24, <1>25, <1>28, <1>29

\* What a form that passes its checks sends.
LEMMA BodySent ==
  ASSUME NEW f, f.scope \in Scopes, f.picked \in BOOLEAN, f.triggers \in Seq(Trigger),
         Whole(f), FormOk(f), NEW body, body = Body(f)
  PROVE  /\ Sent(body)
         /\ ApiOk(body) \/ LeftToTheApi(body)
<1>1. PICK steps : steps = serializeActionSteps(f.steps)
  OBVIOUS
<1>2. PICK picked \in BOOLEAN : picked <=> f.scope = "SPECIFIC_POSTS" /\ f.picked
  OBVIOUS
<1>3. body = [scope |-> f.scope, picked |-> picked, triggers |-> f.triggers, steps |-> steps]
  <2>1. (f.scope = "SPECIFIC_POSTS" /\ f.picked) = picked
    BY <1>2
  <2>. QED BY <1>1, <2>1 DEF Body
<1>4. /\ body.scope = f.scope /\ body.picked = picked /\ body.triggers = f.triggers
      /\ body.steps = steps
  BY <1>3
<1>5. validateActionSteps(f.steps) /\ Tree(f.steps)
  BY DEF FormOk, Whole
<1>6. Sound(steps) /\ steps # <<>>
  BY <1>1, <1>5, SentSteps
<1>7. AllSound(steps) /\ steps \in Seq(Step)
  BY <1>6 DEF Sound, AllSound, AllNormal
<1>8. body \in Contents
  BY <1>2, <1>3, <1>7 DEF Contents
<1>9. body.picked <=> body.scope = "SPECIFIC_POSTS"
  BY <1>2, <1>4 DEF FormOk
<1>10. ASSUME ~LeftToTheApi(body) PROVE ApiOk(body)
  <2>1. validateActionTree(steps)
    <3>1. \A n \in ToSet(steps) : ~Odd(n)
      BY <1>4, <1>10 DEF LeftToTheApi, Odd
    <3>. QED BY <1>7, <3>1, ApiValidated
  <2>2. f.triggers # <<>>
    BY DEF Whole
  <2>3. validateScope(f.scope, f.triggers)
    BY DEF FormOk, validateScope, Scopes
  <2>4. ASSUME NEW tr \in ToSet(f.triggers) PROVE Parses(tr.test)
    BY <1>4, <1>10 DEF FormOk, LeftToTheApi, Parses
  <2>. QED BY <1>4, <1>6, <2>1, <2>2, <2>3, <2>4 DEF ApiOk
<1>. QED BY <1>4, <1>6, <1>8, <1>9, <1>10 DEF Sent

\* A step that is not odd is not sent as one.
LEMMA OddSent ==
  ASSUME NEW n \in Step, ~Odd(n)
  PROVE  ~Odd(SerializeStep(n))
<1>1. PICK bare : bare = emptyActionStep(n.key, n.type, n.path)
  OBVIOUS
<1>2. bare \in Step /\ bare.delay = "none" /\ bare.buttons = <<>>
  BY <1>1 DEF Step, Tests, Delays, emptyActionStep
<1>3. PICK C : C = [j \in DOMAIN n.buttons |-> SerializeButton(n.buttons[j])]
  OBVIOUS
<1>4. PICK m : m = SerializeStep(n)
  OBVIOUS
<1>5. n.delay # "odd" /\ \A b \in ToSet(n.buttons) : b.unlocked.links # "odd" /\ b.locked.links # "odd"
  BY DEF Odd
<1>6. m.delay # "odd" /\ (m.buttons = <<>> \/ m.buttons = C)
  <2>1. CASE n.type = "CONDITION"
    <3>1. m = [bare EXCEPT !.test = n.test]
      BY <1>1, <1>4, <2>1 DEF SerializeStep
    <3>. QED BY <1>2, <3>1 DEF Step
  <2>2. CASE n.type # "CONDITION" /\ n.type = "HIDE_COMMENT"
    <3>1. m = [bare EXCEPT !.delay = n.delay]
      BY <1>1, <1>4, <2>2 DEF SerializeStep
    <3>. QED BY <1>2, <1>5, <3>1 DEF Step
  <2>3. CASE n.type # "CONDITION" /\ n.type # "HIDE_COMMENT" /\ n.media
    <3>1. m = [bare EXCEPT !.delay = n.delay, !.media = TRUE]
      BY <1>1, <1>4, <2>3 DEF SerializeStep
    <3>. QED BY <1>2, <1>5, <3>1 DEF Step
  <2>4. CASE n.type # "CONDITION" /\ n.type # "HIDE_COMMENT" /\ ~n.media
    <3>1. m = [bare EXCEPT !.delay = n.delay, !.text = n.text, !.buttons = C]
      BY <1>1, <1>3, <1>4, <2>4, Zenon DEF SerializeStep
    <3>. QED BY <1>2, <1>5, <3>1 DEF Step
  <2>. QED BY <2>1, <2>2, <2>3, <2>4
<1>7. ASSUME NEW b \in Button, b.unlocked.links # "odd", b.locked.links # "odd",
             NEW c, c = SerializeButton(b)
      PROVE  c.unlocked.links # "odd" /\ c.locked.links # "odd"
  <2>1. ASSUME NEW r \in Reply, r.links # "odd" PROVE SerializeReply(r).links # "odd"
    BY <2>1 DEF SerializeReply, NoReply, Reply
  <2>2. NoReply.links # "odd"
    BY DEF NoReply
  <2>3. CASE b.kind # "POSTBACK"
    BY <1>7, <2>2, <2>3 DEF SerializeButton, emptyButton
  <2>4. CASE b.kind = "POSTBACK"
    <3>1. PICK u : u = SerializeReply(b.unlocked)
      OBVIOUS
    <3>2. PICK l : l = IF b.requireFollow THEN SerializeReply(b.locked) ELSE NoReply
      OBVIOUS
    <3>3. c = [b EXCEPT !.unlocked = u, !.locked = l]
      BY <1>7, <2>4, <3>1, <3>2 DEF SerializeButton
    <3>4. c.unlocked = u /\ c.locked = l
      BY <1>7, <3>3 DEF Button
    <3>5. b.unlocked \in Reply /\ b.locked \in Reply
      BY <1>7 DEF Button
    <3>. QED BY <1>7, <2>1, <2>2, <3>1, <3>2, <3>4, <3>5
  <2>. QED BY <2>3, <2>4
<1>8. ASSUME NEW c \in ToSet(m.buttons) PROVE c.unlocked.links # "odd" /\ c.locked.links # "odd"
  <2>1. CASE m.buttons = <<>>
    BY <1>8, <2>1 DEF ToSet
  <2>2. CASE m.buttons = C
    <3>1. PICK j \in DOMAIN n.buttons : c = SerializeButton(n.buttons[j])
      BY <1>3, <1>8, <2>2 DEF ToSet
    <3>2. n.buttons[j] \in ToSet(n.buttons) /\ n.buttons[j] \in Button
      BY <3>1, InSeq DEF Step
    <3>. QED BY <1>5, <1>7, <3>1, <3>2
  <2>. QED BY <1>6, <2>1, <2>2
<1>. QED BY <1>4, <1>6, <1>8 DEF Odd

\* Nor is there anything left to the API in what has nothing odd.
LEMMA NothingLeft ==
  ASSUME NEW f, Tree(f.steps), \A n \in ToSet(f.steps) : ~Odd(n),
         \A tr \in ToSet(f.triggers) : tr.test # "badPattern", NEW body, body = Body(f)
  PROVE  ~LeftToTheApi(body)
<1>1. PICK s : s = Among(f.steps, Shown(f.steps))
  OBVIOUS
<1>2. s \in Seq(Step) /\ ToSet(s) \subseteq ToSet(f.steps)
  BY <1>1, AmongPicks DEF Tree
<1>3. body.steps = [i \in DOMAIN s |-> SerializeStep(s[i])] /\ body.triggers = f.triggers
  BY <1>1 DEF Body, serializeActionSteps
<1>4. ASSUME NEW n \in ToSet(body.steps) PROVE ~Odd(n)
  <2>1. PICK i \in DOMAIN s : n = SerializeStep(s[i])
    BY <1>3, <1>4 DEF ToSet
  <2>2. s[i] \in Step /\ ~Odd(s[i])
    BY <1>2, InSeq
  <2>. QED BY <2>1, <2>2, OddSent
<1>. QED BY <1>3, <1>4 DEF LeftToTheApi, Odd

\* What the rows of a rule are opened as.
LEMMA OpenedIsStep ==
  ASSUME NEW row \in StepRow
  PROVE  OpenedStep(row) \in Step
<1>1. PICK bare : bare = emptyActionStep(row.key, row.type, row.path)
  OBVIOUS
<1>2. bare \in Step
  BY <1>1, EmptyStep DEF StepRow
<1>3. CASE row.type = "CONDITION"
  <2>1. OpenedStep(row) = [bare EXCEPT !.test = TestOpened(row.test)]
    BY <1>1, <1>3 DEF OpenedStep
  <2>2. TestOpened(row.test) \in Tests
    BY DEF TestOpened, StepRow, TestsStored, Tests
  <2>. QED BY <1>2, <2>1, <2>2 DEF Step
<1>4. CASE row.type # "CONDITION"
  <2>1. OpenedStep(row) = [bare EXCEPT !.delay = row.delay, !.text = row.text,
                                       !.media = row.media, !.buttons = row.buttons]
    BY <1>1, <1>4 DEF OpenedStep
  <2>. QED BY <1>2, <2>1 DEF Step, StepRow
<1>. QED BY <1>3, <1>4

LEMMA OpenedSteps ==
  ASSUME NEW rows \in Seq(StepRow), Grouped(rows), \A n \in ToSet(rows) : Faithful(n),
         NEW steps, steps = deserializeActionSteps(rows)
  PROVE  /\ AllNormal(steps) /\ DOMAIN steps = DOMAIN rows /\ Len(steps) = Len(rows)
         /\ (\A n \in ToSet(rows) : n.test # "commaPattern") => AllSound(steps)
         /\ \A i \in DOMAIN rows : steps[i] = OpenedStep(rows[i]) /\ Faithful(rows[i])
         /\ rows # <<>> /\ (\A i, j \in DOMAIN rows : rows[i].key = rows[j].key => i = j)
              => Tree(steps)
<1>1. DOMAIN rows = 1..Len(rows) /\ Len(rows) \in Nat
  BY InSeq
<1>2. steps = [i \in 1..Len(rows) |-> OpenedStep(rows[i])]
  BY <1>1 DEF deserializeActionSteps
<1>3. ASSUME NEW i \in DOMAIN rows
      PROVE  /\ rows[i] \in ToSet(rows) /\ steps[i] = OpenedStep(rows[i])
             /\ steps[i] \in Step /\ Faithful(rows[i])
             /\ steps[i].key = rows[i].key /\ steps[i].type = rows[i].type
             /\ steps[i].path = rows[i].path /\ Above(steps[i]) = Above(rows[i])
  <2>1. rows[i] \in ToSet(rows) /\ rows[i] \in StepRow
    BY InSeq
  <2>2. steps[i] = OpenedStep(rows[i]) /\ steps[i] \in Step
    BY <1>1, <1>2, <2>1, OpenedIsStep
  <2>3. Faithful(rows[i])
    BY <2>1
  <2>4. /\ steps[i].key = rows[i].key /\ steps[i].type = rows[i].type
        /\ steps[i].path = rows[i].path
    BY <2>2, <2>3 DEF Faithful
  <2>. QED BY <2>1, <2>2, <2>3, <2>4 DEF Above
<1>4. steps \in Seq(Step) /\ DOMAIN steps = DOMAIN rows /\ Len(steps) = Len(rows)
  BY <1>1, <1>2, <1>3
<1>5. \A n \in ToSet(steps) : \E i \in DOMAIN rows : n = steps[i]
  BY <1>4 DEF ToSet
<1>6. \A m \in ToSet(rows) : \E i \in DOMAIN rows : m = rows[i] /\ steps[i] \in ToSet(steps)
  BY <1>4 DEF ToSet
<1>7. ASSUME NEW n \in ToSet(steps)
      PROVE  /\ Normal(n)
             /\ (\A x \in ToSet(rows) : x.test # "commaPattern") => Valid(n)
             /\ \A key \in Above(n) : \E m \in ToSet(steps) : m.key = key /\ m.type = "CONDITION"
  <2>1. PICK i \in DOMAIN rows : n = steps[i]
    BY <1>5
  <2>2. Normal(n) /\ ((\A x \in ToSet(rows) : x.test # "commaPattern") => Valid(n))
    <3>1. Ready(rows[i])
      BY <1>3, <2>1 DEF Grouped
    <3>. QED BY <1>3, <2>1, <3>1 DEF Ready
  <2>3. ASSUME NEW key \in Above(n)
        PROVE  \E m \in ToSet(steps) : m.key = key /\ m.type = "CONDITION"
    <3>1. PICK m \in ToSet(rows) : m.key = key /\ m.type = "CONDITION"
      BY <1>3, <2>1, <2>3 DEF Grouped
    <3>2. PICK j \in DOMAIN rows : m = rows[j] /\ steps[j] \in ToSet(steps)
      BY <1>6
    <3>. QED BY <1>3, <3>1, <3>2
  <2>. QED BY <2>2, <2>3
<1>8. AllNormal(steps) /\ ((\A n \in ToSet(rows) : n.test # "commaPattern") => AllSound(steps))
  BY <1>4, <1>7 DEF AllNormal, AllSound
<1>9. ASSUME rows # <<>>, \A i, j \in DOMAIN rows : rows[i].key = rows[j].key => i = j
      PROVE  Tree(steps)
  <2>1. \A i, j \in DOMAIN steps : steps[i].key = steps[j].key => i = j
    BY <1>3, <1>4, <1>9
  <2>2. \E n \in ToSet(steps) : n.path = <<>>
    <3>1. 1 \in DOMAIN rows
      BY <1>1, <1>9
    <3>2. PICK m \in ToSet(rows) : m.path = <<>>
      BY <1>3, <3>1 DEF Grouped
    <3>3. PICK j \in DOMAIN rows : m = rows[j] /\ steps[j] \in ToSet(steps)
      BY <1>6
    <3>. QED BY <1>3, <3>2, <3>3
  <2>3. \A n \in ToSet(steps) : \A key \in Above(n) : \E m \in ToSet(steps) : m.key = key
    BY <1>7
  <2>4. ASSUME NEW n \in ToSet(steps), NEW m \in ToSet(steps), m.key \in Above(n)
        PROVE  Above(m) \subseteq Above(n)
    <3>1. PICK i \in DOMAIN rows : n = steps[i]
      BY <1>5
    <3>2. PICK j \in DOMAIN rows : m = steps[j]
      BY <1>5
    <3>3. rows[j].key \in Above(rows[i])
      BY <1>3, <2>4, <3>1, <3>2
    <3>4. PICK x \in ToSet(rows) : x.by = rows[i].by /\ x.key = rows[j].key
      BY <1>3, <3>3 DEF Grouped
    <3>5. PICK l \in DOMAIN rows : x = rows[l]
      BY <1>6
    <3>6. rows[j].by = rows[i].by
      BY <1>9, <3>4, <3>5
    <3>7. Above(rows[j]) \subseteq Above(rows[i])
      BY <1>3, <3>3, <3>6 DEF Grouped
    <3>. QED BY <1>3, <3>1, <3>2, <3>7
  <2>. QED BY <1>4, <2>1, <2>2, <2>3, <2>4 DEF Tree
<1>. QED BY <1>3, <1>4, <1>8, <1>9

\* A stored trigger opens as this one.
TriggerOpens(trigger, tr) ==
  tr = [source |-> trigger.source, test |-> TestOpened(trigger.test)]

LEMMA OpenedTriggers ==
  ASSUME NEW rows \in Seq(TriggerRow), NEW triggers, triggers = automationToTriggerRows(rows)
  PROVE  /\ triggers \in Seq(Trigger)
         /\ rows # <<>> => triggers # <<>>
         /\ DOMAIN triggers = DOMAIN rows /\ Len(triggers) = Len(rows)
         /\ \A i \in DOMAIN rows : TriggerOpens(rows[i].trigger, triggers[i])
         /\ \A tr \in ToSet(triggers) : \E x \in ToSet(rows) : TriggerOpens(x.trigger, tr)
         /\ \A x \in ToSet(rows) : \E tr \in ToSet(triggers) : TriggerOpens(x.trigger, tr)
<1>1. DOMAIN rows = 1..Len(rows) /\ Len(rows) \in Nat
  BY InSeq
<1>2. triggers = [i \in 1..Len(rows) |-> [source |-> rows[i].trigger.source,
                                         test |-> TestOpened(rows[i].trigger.test)]]
  BY <1>1 DEF automationToTriggerRows
<1>3. ASSUME NEW i \in DOMAIN rows
      PROVE  /\ rows[i] \in ToSet(rows) /\ triggers[i] \in Trigger
             /\ TriggerOpens(rows[i].trigger, triggers[i])
  <2>1. rows[i] \in ToSet(rows) /\ rows[i] \in TriggerRow
    BY InSeq
  <2>2. PICK tr \in TriggerStored : tr = rows[i].trigger
    BY <2>1 DEF TriggerRow
  <2>3. triggers[i] = [source |-> tr.source, test |-> TestOpened(tr.test)]
    BY <1>1, <1>2, <2>2
  <2>4. TestOpened(tr.test) \in Tests
    BY DEF TestOpened, TriggerStored, TestsStored, Tests
  <2>5. triggers[i] \in Trigger
    BY <2>3, <2>4 DEF Trigger, TriggerStored
  <2>. QED BY <2>1, <2>2, <2>3, <2>5 DEF TriggerOpens
<1>4. triggers \in Seq(Trigger) /\ DOMAIN triggers = DOMAIN rows /\ Len(triggers) = Len(rows)
  BY <1>1, <1>2, <1>3
<1>5. \A tr \in ToSet(triggers) : \E x \in ToSet(rows) : TriggerOpens(x.trigger, tr)
  BY <1>3, <1>4 DEF ToSet
<1>6. \A x \in ToSet(rows) : \E tr \in ToSet(triggers) : TriggerOpens(x.trigger, tr)
  BY <1>3, <1>4 DEF ToSet
<1>7. ASSUME rows # <<>> PROVE triggers # <<>>
  <2>1. 1 \in DOMAIN triggers
    BY <1>1, <1>4, <1>7
  <2>. QED BY <2>1
<1>. QED BY <1>3, <1>4, <1>5, <1>6, <1>7

\* A stored rule opened in the editor passes the form's checks as it stands,
\* unless a comma cuts a pattern of its conditions.
LEMMA StoredOpens ==
  ASSUME NEW row \in Rows, Stored(row), NEW f, f.scope = normalizeScopeType(row.scope),
         f.picked = row.picked,
         f.triggers = automationToTriggerRows(row.triggers),
         f.steps = deserializeActionSteps(row.steps)
  PROVE  /\ AllNormal(f.steps) /\ f.triggers \in Seq(Trigger) /\ f.scope \in Scopes
         /\ (\A n \in ToSet(row.steps) : n.test # "commaPattern") => FormOk(f)
         /\ (\A i, j \in DOMAIN row.steps : row.steps[i].key = row.steps[j].key => i = j)
              => Whole(f)
<1>1. row.steps \in Seq(StepRow) /\ row.triggers \in Seq(TriggerRow)
  BY DEF Rows
<1>2. /\ AllNormal(f.steps)
      /\ (\A n \in ToSet(row.steps) : n.test # "commaPattern") => AllSound(f.steps)
      /\ (\A i, j \in DOMAIN row.steps : row.steps[i].key = row.steps[j].key => i = j)
           => Tree(f.steps)
  <2>1. Grouped(row.steps) /\ (\A n \in ToSet(row.steps) : Faithful(n)) /\ row.steps # <<>>
    BY DEF Stored
  <2>. QED BY <1>1, <2>1, OpenedSteps
<1>3. /\ f.triggers \in Seq(Trigger) /\ f.triggers # <<>>
      /\ \A tr \in ToSet(f.triggers) : \E x \in ToSet(row.triggers) : TriggerOpens(x.trigger, tr)
      /\ \A x \in ToSet(row.triggers) : \E tr \in ToSet(f.triggers) : TriggerOpens(x.trigger, tr)
  BY <1>1, OpenedTriggers DEF Stored
<1>4. AllSound(f.steps) => validateActionSteps(f.steps)
  BY <1>2, SoundSent
<1>5. \A tr \in ToSet(f.triggers) : tr.test # "noPattern"
  BY <1>3 DEF Stored, TriggerOpens, TestOpened, Parses
<1>8. /\ f.scope \in Scopes
      /\ f.scope = "SPECIFIC_POSTS" => row.scope = "SPECIFIC_POSTS"
      /\ f.scope = "ALL_STORIES" => row.scope \in {"ALL_STORIES", "SPECIFIC_STORIES"}
  BY DEF normalizeScopeType, Rows, ScopesStored, Scopes
<1>6. /\ f.scope = "SPECIFIC_POSTS" => f.picked
      /\ f.scope = "SPECIFIC_POSTS" => \E tr \in ToSet(f.triggers) : tr.source = "COMMENT"
      /\ f.scope = "ALL_STORIES" => \E tr \in ToSet(f.triggers) : tr.source = "STORY_REPLY"
  BY <1>3, <1>8 DEF Stored, TriggerOpens
<1>7. AllSound(f.steps) => FormOk(f)
  BY <1>4, <1>5, <1>6 DEF FormOk
<1>. QED BY <1>2, <1>3, <1>7, <1>8 DEF Whole

-----------------------------------------------------------------------------
(* What is there at the start.                                             *)

LEMMA TemplateSent ==
  ASSUME NEW key \in Nat, NEW body, body = Body(TemplateContent(key))
  PROVE  Sent(body) /\ ApiOk(body)
<1>1. PICK c : c = TemplateContent(key)
  OBVIOUS
<1>2. /\ c \in Contents /\ Whole(c)
      /\ c.scope = "ALL_POSTS" /\ c.triggers = <<emptyTrigger>>
      /\ \A n \in ToSet(c.steps) :
           n.type # "CONDITION" /\ n.text /\ ~n.media /\ n.buttons = <<>> /\ n.delay = "none"
  BY <1>1, TemplateWhole
<1>3. \A n \in ToSet(c.steps) : Valid(n)
  <2>1. ASSUME NEW n, n.buttons = <<>> PROVE Len(n.buttons) <= MaxButtons /\ ToSet(n.buttons) = {}
    BY <2>1 DEF MaxButtons, ToSet
  <2>. QED BY <1>2, <2>1 DEF Valid
<1>4. validateActionSteps(c.steps)
  BY <1>3, Validated DEF Shown
<1>5. \A tr \in ToSet(c.triggers) : tr.test = "plain"
  BY <1>2 DEF ToSet, emptyTrigger
<1>6. FormOk(c)
  BY <1>2, <1>4, <1>5 DEF FormOk
<1>7. c.scope \in Scopes /\ c.picked \in BOOLEAN /\ c.triggers \in Seq(Trigger)
  BY <1>2 DEF Contents
<1>8. body = Body(c)
  BY <1>1
<1>9. ~LeftToTheApi(body)
  <2>1. Tree(c.steps) /\ \A n \in ToSet(c.steps) : ~Odd(n)
    <3>1. ToSet(<<>>) = {}
      BY DEF ToSet
    <3>. QED BY <1>2, <3>1 DEF Whole, Odd
  <2>. QED BY <1>5, <1>8, <2>1, NothingLeft
<1>. QED BY <1>2, <1>6, <1>7, <1>8, <1>9, BodySent

LEMMA SavedSent ==
  ASSUME NEW body, body = Body(SavedContent)
  PROVE  Sent(body) /\ ApiOk(body)
<1>1. PICK reply : reply = [NoReply EXCEPT !.text = TRUE]
  OBVIOUS
<1>2. PICK b : b = [emptyButton(3, "POSTBACK") EXCEPT
                      !.requireFollow = TRUE, !.unlocked = reply, !.locked = reply]
  OBVIOUS
<1>3. PICK then : then = <<<<1, "then">>>>
  OBVIOUS
<1>4. PICK else : else = <<<<1, "else">>>>
  OBVIOUS
<1>5. PICK ask : ask = [emptyActionStep(2, "SEND_DM", then) EXCEPT !.text = TRUE, !.buttons = <<b>>]
  OBVIOUS
<1>6. PICK show : show = [emptyActionStep(4, "SEND_DM", else) EXCEPT !.media = TRUE]
  OBVIOUS
<1>7. PICK test : test = emptyActionStep(1, "CONDITION", <<>>)
  OBVIOUS
<1>8. PICK s : s = <<test, ask, show>>
  OBVIOUS
<1>9. PICK c : c = SavedContent
  OBVIOUS
<1>10. c = [BlankContent(1) EXCEPT !.scope = "SPECIFIC_POSTS", !.picked = TRUE, !.steps = s]
  BY <1>1, <1>2, <1>3, <1>4, <1>5, <1>6, <1>7, <1>8, <1>9, Zenon DEF SavedContent
<1>11. reply \in Reply /\ reply.text /\ ~reply.media /\ reply.links = "none"
  BY <1>1 DEF NoReply, Reply, Links
<1>12. /\ b \in Button /\ b.unlocked = reply /\ b.locked = reply
  <2>1. PICK e : e = emptyButton(3, "POSTBACK")
    OBVIOUS
  <2>2. e \in Button
    BY <2>1, EmptyButton DEF Kinds
  <2>3. b = [e EXCEPT !.requireFollow = TRUE, !.unlocked = reply, !.locked = reply]
    BY <1>2, <2>1
  <2>. QED BY <1>11, <2>2, <2>3 DEF Button
<1>13. then \in Path /\ else \in Path
  BY <1>3, <1>4 DEF Path, Branches
<1>14. /\ test \in Step /\ test.key = 1 /\ test.type = "CONDITION" /\ test.path = <<>>
       /\ test.test = "plain" /\ test.delay = "none" /\ test.buttons = <<>>
  BY <1>7, NoPath DEF emptyActionStep, Step, Types, Tests, Delays
<1>15. /\ ask \in Step /\ ask.key = 2 /\ ask.type = "SEND_DM" /\ ask.path = then
       /\ ask.text /\ ~ask.media /\ ask.buttons = <<b>> /\ ask.delay = "none"
  <2>1. PICK bs : bs = <<b>>
    OBVIOUS
  <2>2. bs \in Seq(Button)
    BY <1>12, <2>1
  <2>3. PICK bare : bare = emptyActionStep(2, "SEND_DM", then)
    OBVIOUS
  <2>4. bare \in Step /\ bare.key = 2 /\ bare.type = "SEND_DM" /\ bare.path = then /\ ~bare.media
        /\ bare.delay = "none"
    BY <1>13, <2>3, EmptyStep DEF Types
  <2>5. ask = [bare EXCEPT !.text = TRUE, !.buttons = bs]
    BY <1>5, <2>1, <2>3
  <2>. QED BY <2>1, <2>2, <2>4, <2>5 DEF Step
<1>16. /\ show \in Step /\ show.key = 4 /\ show.type = "SEND_DM" /\ show.path = else
       /\ show.media /\ show.buttons = <<>> /\ show.delay = "none"
  <2>1. PICK bare : bare = emptyActionStep(4, "SEND_DM", else)
    OBVIOUS
  <2>2. /\ bare \in Step /\ bare.key = 4 /\ bare.type = "SEND_DM" /\ bare.path = else
        /\ bare.buttons = <<>> /\ bare.delay = "none"
    BY <1>13, <2>1, EmptyStep DEF Types
  <2>3. show = [bare EXCEPT !.media = TRUE]
    BY <1>6, <2>1
  <2>. QED BY <2>2, <2>3 DEF Step
<1>17. Above(test) = {} /\ Above(ask) = {1} /\ Above(show) = {1}
  <2>1. Above(test) = {}
    BY <1>14, AboveEmpty
  <2>2. Above(ask) = {1}
    BY <1>3, <1>15 DEF Above
  <2>3. Above(show) = {1}
    BY <1>4, <1>16 DEF Above
  <2>. QED BY <2>1, <2>2, <2>3
<1>18. s \in Seq(Step) /\ DOMAIN s = {1, 2, 3} /\ ToSet(s) = {test, ask, show}
       /\ s[1] = test /\ s[2] = ask /\ s[3] = show
  BY <1>8, <1>14, <1>15, <1>16 DEF ToSet
<1>19. Tree(s)
  BY <1>14, <1>15, <1>16, <1>17, <1>18 DEF Tree
<1>20. Valid(test)
  <2>1. depth(test) = 1
    BY <1>14 DEF depth
  <2>. QED BY <1>14, <2>1, BuilderAssumption DEF Valid
<1>21. Valid(ask)
  <2>1. ReplyOk(reply)
    BY <1>11 DEF ReplyOk, Reply
  <2>2. validateButton(b)
    BY <1>12, <2>1 DEF validateButton
  <2>3. Len(ask.buttons) <= MaxButtons /\ \A x \in ToSet(ask.buttons) : x = b
    BY <1>15 DEF MaxButtons, ToSet
  <2>. QED BY <1>15, <2>2, <2>3 DEF Valid
<1>22. Valid(show)
  <2>1. Len(show.buttons) <= MaxButtons /\ ToSet(show.buttons) = {}
    BY <1>16 DEF MaxButtons, ToSet
  <2>. QED BY <1>16, <2>1 DEF Valid
<1>23. validateActionSteps(s)
  BY <1>18, <1>20, <1>21, <1>22, Validated DEF Shown
<1>24. /\ c.scope = "SPECIFIC_POSTS" /\ c.picked = TRUE /\ c.steps = s
       /\ c.triggers = <<emptyTrigger>>
  BY <1>10 DEF BlankContent
<1>25. emptyTrigger \in Trigger /\ emptyTrigger.test = "plain" /\ emptyTrigger.source = "COMMENT"
  BY DEF emptyTrigger, Trigger, Sources, Tests
<1>26. /\ c.triggers \in Seq(Trigger) /\ c.triggers # <<>> /\ ToSet(c.triggers) = {emptyTrigger}
  BY <1>24, <1>25 DEF ToSet
<1>27. FormOk(c)
  BY <1>23, <1>24, <1>25, <1>26 DEF FormOk
<1>28. Whole(c) /\ c.scope \in Scopes /\ c.picked \in BOOLEAN
  BY <1>19, <1>24, <1>26 DEF Whole, Scopes
<1>29. body = Body(c)
  BY <1>9
<1>30. ~LeftToTheApi(body)
  <2>1. ToSet(test.buttons) = {} /\ ToSet(show.buttons) = {} /\ ToSet(ask.buttons) = {b}
    BY <1>14, <1>15, <1>16 DEF ToSet
  <2>2. ~Odd(test) /\ ~Odd(ask) /\ ~Odd(show)
    BY <1>11, <1>12, <1>14, <1>15, <1>16, <2>1 DEF Odd
  <2>3. \A n \in ToSet(c.steps) : ~Odd(n)
    BY <1>18, <1>24, <2>2
  <2>. QED BY <1>19, <1>24, <1>25, <1>26, <1>29, <2>3, NothingLeft
<1>. QED BY <1>27, <1>28, <1>26, <1>29, <1>30, BodySent

\* Steps are the same when their fields are.
LEMMA SameStep ==
  ASSUME NEW x, NEW y, DOMAIN x = Fields, DOMAIN y = Fields, x = [f \in DOMAIN x |-> x[f]],
         y = [f \in DOMAIN y |-> y[f]], x.key = y.key, x.type = y.type, x.test = y.test,
         x.delay = y.delay, x.text = y.text, x.media = y.media, x.buttons = y.buttons,
         x.path = y.path
  PROVE  x = y
<1>1. \A f \in Fields : x[f] = y[f]
  BY DEF Fields
<1>. QED BY <1>1

\* What another client of the API has saved.
LEMMA OlderKept ==
  ASSUME NEW test \in {"commas", "commaPattern"}, NEW body, body = OlderContent(test)
  PROVE  Keepable(body) /\ ApiOk(body)
<1>1. PICK then : then = <<<<1, "then">>>>
  OBVIOUS
<1>2. PICK cond : cond = [key |-> 1, type |-> "CONDITION", test |-> test, delay |-> "some",
                          text |-> FALSE, media |-> FALSE, buttons |-> <<>>, path |-> <<>>]
  OBVIOUS
<1>3. PICK send : send = [key |-> 2, type |-> "SEND_DM", test |-> "plain", delay |-> "some",
                          text |-> TRUE, media |-> FALSE, buttons |-> <<>>, path |-> then]
  OBVIOUS
<1>4. PICK s : s = <<cond, send>>
  OBVIOUS
<1>5. PICK tr : tr = [source |-> "STORY_REPLY", test |-> "intent"]
  OBVIOUS
<1>6. body = [scope |-> "SPECIFIC_STORIES", picked |-> TRUE, triggers |-> <<tr>>, steps |-> s]
  <2>1. cond = [emptyActionStep(1, "CONDITION", <<>>) EXCEPT !.test = test, !.delay = "some"]
    <3>1. PICK bare : bare = [key |-> 1, type |-> "CONDITION", test |-> "plain", delay |-> "none",
                              text |-> FALSE, media |-> FALSE, buttons |-> <<>>, path |-> <<>>]
      OBVIOUS
    <3>2. PICK x : x = [bare EXCEPT !.test = test, !.delay = "some"]
      OBVIOUS
    <3>3. x = cond
      <4>1. DOMAIN x = Fields /\ x = [f \in DOMAIN x |-> x[f]]
        BY <1>2, <3>1, <3>2 DEF Fields
      <4>2. DOMAIN cond = Fields /\ cond = [f \in DOMAIN cond |-> cond[f]]
        BY <1>2, <3>1, <3>2 DEF Fields
      <4>3. /\ x.key = cond.key /\ x.type = cond.type /\ x.test = cond.test
            /\ x.delay = cond.delay /\ x.text = cond.text /\ x.media = cond.media
            /\ x.buttons = cond.buttons /\ x.path = cond.path
        BY <1>2, <3>1, <3>2
      <4>. QED BY <4>1, <4>2, <4>3, SameStep
    <3>. QED BY <3>1, <3>2, <3>3 DEF emptyActionStep
  <2>2. send = [emptyActionStep(2, "SEND_DM", then) EXCEPT !.text = TRUE, !.delay = "some"]
    <3>1. PICK bare : bare = [key |-> 2, type |-> "SEND_DM", test |-> "plain", delay |-> "none",
                              text |-> FALSE, media |-> FALSE, buttons |-> <<>>, path |-> then]
      OBVIOUS
    <3>2. PICK x : x = [bare EXCEPT !.text = TRUE, !.delay = "some"]
      OBVIOUS
    <3>3. x = send
      <4>1. DOMAIN x = Fields /\ x = [f \in DOMAIN x |-> x[f]]
        BY <1>3, <3>1, <3>2 DEF Fields
      <4>2. DOMAIN send = Fields /\ send = [f \in DOMAIN send |-> send[f]]
        BY <1>3, <3>1, <3>2 DEF Fields
      <4>3. /\ x.key = send.key /\ x.type = send.type /\ x.test = send.test
            /\ x.delay = send.delay /\ x.text = send.text /\ x.media = send.media
            /\ x.buttons = send.buttons /\ x.path = send.path
        BY <1>3, <3>1, <3>2
      <4>. QED BY <4>1, <4>2, <4>3, SameStep
    <3>. QED BY <3>1, <3>2, <3>3 DEF emptyActionStep
  <2>. QED BY <1>1, <1>4, <1>5, <2>1, <2>2, Zenon DEF OlderContent
<1>7. then \in Path /\ <<>> \in Path /\ <<>> \in Seq(Button)
  BY <1>1 DEF Path, Branches
<1>8. cond \in StepStored /\ send \in StepStored
  BY <1>2, <1>3, <1>7 DEF StepStored, Types, TestsStored, Tests, Respelled, Delays
<1>9. tr \in TriggerStored /\ tr.source = "STORY_REPLY" /\ tr.test = "intent"
  BY <1>5 DEF TriggerStored, Sources, TestsStored, Respelled
<1>10. Above(cond) = {} /\ Above(send) = {1} /\ depth(cond) = 1
  <2>1. cond.path = <<>> /\ send.path = then
    BY <1>2, <1>3
  <2>2. Above(cond) = {} /\ depth(cond) = 1
    BY <2>1, AboveEmpty DEF depth
  <2>3. Above(send) = {1}
    BY <1>1, <2>1 DEF Above
  <2>. QED BY <2>2, <2>3
<1>11. /\ s \in Seq(StepStored) /\ DOMAIN s = {1, 2} /\ ToSet(s) = {cond, send}
       /\ s[1] = cond /\ s[2] = send /\ s # <<>>
  BY <1>4, <1>8 DEF ToSet
<1>12. Ready(cond) /\ Faithful(cond)
  <2>1. PICK to : to = TestOpened(test)
    OBVIOUS
  <2>2. PICK m : m = [key |-> 1, type |-> "CONDITION", test |-> to, delay |-> "none",
                      text |-> FALSE, media |-> FALSE, buttons |-> <<>>, path |-> <<>>]
    OBVIOUS
  <2>3. OpenedStep(cond) = m
    <3>1. PICK bare : bare = [key |-> 1, type |-> "CONDITION", test |-> "plain", delay |-> "none",
                              text |-> FALSE, media |-> FALSE, buttons |-> <<>>, path |-> <<>>]
      OBVIOUS
    <3>2. bare = emptyActionStep(cond.key, cond.type, cond.path)
      BY <1>2, <3>1 DEF emptyActionStep
    <3>3. PICK x : x = [bare EXCEPT !.test = to]
      OBVIOUS
    <3>4. OpenedStep(cond) = x
      BY <1>2, <2>1, <3>2, <3>3 DEF OpenedStep
    <3>5. x = m
      <4>1. DOMAIN x = Fields /\ x = [f \in DOMAIN x |-> x[f]]
        BY <2>2, <3>1, <3>3 DEF Fields
      <4>2. DOMAIN m = Fields /\ m = [f \in DOMAIN m |-> m[f]]
        BY <2>2, <3>1, <3>3 DEF Fields
      <4>3. /\ x.key = m.key /\ x.type = m.type /\ x.test = m.test
            /\ x.delay = m.delay /\ x.text = m.text /\ x.media = m.media
            /\ x.buttons = m.buttons /\ x.path = m.path
        BY <2>2, <3>1, <3>3
      <4>. QED BY <4>1, <4>2, <4>3, SameStep
    <3>. QED BY <3>4, <3>5
  <2>4. Normal(m)
    BY <2>2 DEF Normal, SerializeStep, emptyActionStep
  <2>5. test = "commas" => Valid(m)
    <3>1. test = "commas" => to = "plain"
      BY <2>1 DEF TestOpened, Respelled
    <3>2. depth(m) = 1
      BY <2>2 DEF depth
    <3>. QED BY <2>2, <3>1, <3>2, BuilderAssumption DEF Valid
  <2>6. Ready(cond)
    BY <1>2, <2>3, <2>4, <2>5 DEF Ready
  <2>7. cond.test \in Respelled
    BY <1>2 DEF Respelled
  <2>8. /\ m.key = cond.key /\ m.type = cond.type /\ m.text = cond.text
        /\ m.media = cond.media /\ m.buttons = cond.buttons /\ m.path = cond.path
    BY <1>2, <2>2
  <2>9. cond.type = "CONDITION"
    BY <1>2
  <2>. QED BY <2>3, <2>6, <2>7, <2>8, <2>9 DEF Faithful
<1>13. Ready(send) /\ Faithful(send)
  <2>1. OpenedStep(send) = send
    <3>1. PICK bare : bare = [key |-> 2, type |-> "SEND_DM", test |-> "plain", delay |-> "none",
                              text |-> FALSE, media |-> FALSE, buttons |-> <<>>, path |-> then]
      OBVIOUS
    <3>2. bare = emptyActionStep(send.key, send.type, send.path)
      BY <1>3, <3>1 DEF emptyActionStep
    <3>3. PICK x : x = [bare EXCEPT !.delay = send.delay, !.text = send.text,
                                    !.media = send.media, !.buttons = send.buttons]
      OBVIOUS
    <3>4. OpenedStep(send) = x
      BY <1>3, <3>2, <3>3 DEF OpenedStep
    <3>5. x = send
      <4>1. DOMAIN x = Fields /\ x = [f \in DOMAIN x |-> x[f]]
        BY <1>3, <3>1, <3>3 DEF Fields
      <4>2. DOMAIN send = Fields /\ send = [f \in DOMAIN send |-> send[f]]
        BY <1>3, <3>1, <3>3 DEF Fields
      <4>3. /\ x.key = send.key /\ x.type = send.type /\ x.test = send.test
            /\ x.delay = send.delay /\ x.text = send.text /\ x.media = send.media
            /\ x.buttons = send.buttons /\ x.path = send.path
        BY <1>3, <3>1, <3>3
      <4>. QED BY <4>1, <4>2, <4>3, SameStep
    <3>. QED BY <3>4, <3>5
  <2>2. Normal(send)
    <3>1. [j \in DOMAIN <<>> |-> SerializeButton(<<>>[j])] = <<>>
      OBVIOUS
    <3>. QED BY <1>3, <3>1 DEF Normal, SerializeStep, emptyActionStep
  <2>3. Valid(send)
    <3>1. Len(<<>>) <= MaxButtons /\ ToSet(<<>>) = {}
      BY DEF MaxButtons, ToSet
    <3>. QED BY <1>3, <3>1 DEF Valid
  <2>. QED BY <2>1, <2>2, <2>3 DEF Ready, Faithful
<1>14. Storable(s)
  <2>1. cond.key = 1 /\ send.key = 2 /\ cond.path = <<>> /\ cond.type = "CONDITION"
    BY <1>2, <1>3
  <2>2. \A i, j \in DOMAIN s : s[i].key = s[j].key => i = j
    BY <1>11, <2>1
  <2>3. \A n, m \in ToSet(s) : m.key \in Above(n) => Above(m) \subseteq Above(n)
    BY <1>10, <1>11, <2>1
  <2>4. \A n \in ToSet(s) : \A key \in Above(n) :
          \E m \in ToSet(s) : m.key = key /\ m.type = "CONDITION"
    BY <1>10, <1>11, <2>1
  <2>. QED BY <1>11, <1>12, <1>13, <2>1, <2>2, <2>3, <2>4 DEF Storable
<1>15. /\ body.scope = "SPECIFIC_STORIES" /\ body.picked = TRUE /\ body.steps = s
       /\ body.triggers = <<tr>> /\ ToSet(body.triggers) = {tr}
  BY <1>6 DEF ToSet
<1>16. Keepable(body)
  <2>1. body.triggers \in Seq(TriggerStored)
    BY <1>9, <1>15
  <2>. QED BY <1>14, <1>15, <2>1 DEF Keepable, ScopesStored
<1>17. validateActionTree(s)
  <2>1. Len(<<>>) <= MaxButtons /\ ToSet(<<>>) = {} /\ MaxDepth > 0
    BY BuilderAssumption DEF MaxButtons, ToSet
  <2>2. Accepted(cond)
    BY <1>2, <1>10, BuilderAssumption DEF Accepted, Parses
  <2>3. Accepted(send)
    BY <1>3, <2>1 DEF Accepted
  <2>. QED BY <1>11, <2>1, <2>2, <2>3 DEF validateActionTree, Accepted
<1>18. validateScope(body.scope, body.triggers)
  BY <1>9, <1>15 DEF validateScope
<1>19. body.triggers # <<>> /\ \A x \in ToSet(body.triggers) : Parses(x.test)
  BY <1>9, <1>15 DEF Parses
<1>. QED BY <1>11, <1>15, <1>16, <1>17, <1>18, <1>19 DEF ApiOk

LEMMA SavedKept ==
  ASSUME NEW body \in SavedBodies
  PROVE  Keepable(body) /\ ApiOk(body)
<1>1. CASE body = Body(SavedContent)
  BY <1>1, SavedSent, SentKept
<1>2. CASE body = OlderContent("commas") \/ body = OlderContent("commaPattern")
  BY <1>2, OlderKept
<1>. QED BY <1>1, <1>2 DEF SavedBodies

-----------------------------------------------------------------------------
(* Steps that change a form or an upload only.                             *)

Counters == [id : Nat, by : Nat, edits : Nat, files : Nat, saves : Nat, lost : Nat]

\* A form made of a content.
FormMade(isEdit, r, f) ==
  f \in Forms /\ Whole(f) /\ f.open /\ f.isEdit = isEdit /\ f.rule = r

LEMMA FormIs ==
  ASSUME NEW isEdit \in BOOLEAN, NEW r \in Rules \cup {NoRule}, NEW c \in Contents, Whole(c),
         NEW f, f = Form(isEdit, r, c)
  PROVE  FormMade(isEdit, r, f)
<1>1. /\ c.scope \in Scopes /\ c.picked \in BOOLEAN /\ c.triggers \in Seq(Trigger)
      /\ c.steps \in Seq(Step)
  BY DEF Contents
<1>2. f = [open |-> TRUE, isEdit |-> isEdit, rule |-> r, scope |-> c.scope, picked |-> c.picked,
           triggers |-> c.triggers, steps |-> c.steps]
  BY DEF Form
<1>. QED BY <1>1, <1>2 DEF Forms, Whole, FormMade

LEMMA ClosedIs == Closed \in Forms /\ Whole(Closed) /\ ~Closed.open
<1>1. PICK c : c = BlankContent(0)
  OBVIOUS
<1>2. c \in Contents /\ Whole(c)
  BY <1>1, BlankWhole
<1>3. PICK f : f = Form(FALSE, NoRule, c)
  OBVIOUS
<1>4. f \in Forms /\ Whole(f)
  BY <1>2, <1>3, FormIs DEF FormMade
<1>5. Closed = [f EXCEPT !.open = FALSE]
  BY <1>1, <1>3 DEF Closed
<1>. QED BY <1>4, <1>5 DEF Forms, Whole

\* A tab's form replaced by another that is whole.
LEMMA FormChanges ==
  ASSUME IInv, NEW t \in Tabs, NEW f \in Forms, Whole(f),
         f.open /\ f.isEdit => Published(f.rule) /\ save[t] = NoSave,
         form' = [form EXCEPT ![t] = f], upload' \in [Tabs -> Uploads],
         UNCHANGED <<save, submit, rule, overlapped>>,
         used' \in Counters, used'.by = used.by
  PROVE  IInv'
<1>1. TypeOK'
  <2>1. form' \in [Tabs -> Forms]
    BY DEF IInv, TypeOK
  <2>2. ASSUME NEW u \in Tabs PROVE IsInjective(Keys(form'[u].steps))
    <3>1. CASE u = t
      BY <3>1, KeysDiffer DEF IInv, TypeOK, Whole, Tree
    <3>2. CASE u # t
      BY <3>2 DEF IInv, TypeOK
    <3>. QED BY <3>1, <3>2
  <2>. QED BY <2>1, <2>2 DEF IInv, TypeOK, Counters
<1>2. FormsHold'
  <2>1. ASSUME NEW u \in Tabs
        PROVE  /\ Whole(form'[u])
               /\ form'[u].open /\ form'[u].isEdit => Published(form'[u].rule) /\ save[u] = NoSave
    <3>1. CASE u = t
      BY <3>1 DEF IInv, TypeOK
    <3>2. CASE u # t
      BY <3>2 DEF IInv, TypeOK, FormsHold
    <3>. QED BY <3>1, <3>2
  <2>. QED BY <2>1 DEF FormsHold, Published
<1>3. SavesHold' /\ SubmitsHold' /\ RulesHold' /\ OneSaveHolds'
  BY DEF IInv, SavesHold, SubmitsHold, RulesHold, OneSaveHolds, Published
<1>4. FoundHold' /\ AloneHold'
  BY DEF IInv, FoundHold, AloneHold, Exists, Live
<1>. QED BY <1>1, <1>2, <1>3, <1>4 DEF IInv

\* The same forms, and an upload or a counter that is not of ids or saves.
LEMMA FormsStay ==
  ASSUME IInv, UNCHANGED <<form, save, submit, rule, overlapped>>,
         upload' \in [Tabs -> Uploads], used' \in Counters, used'.by = used.by
  PROVE  IInv'
<1>1. TypeOK'
  BY DEF IInv, TypeOK, Counters
<1>2. FormsHold' /\ SavesHold' /\ SubmitsHold' /\ RulesHold' /\ OneSaveHolds'
  BY DEF IInv, FormsHold, SavesHold, SubmitsHold, RulesHold, OneSaveHolds, Published
<1>3. FoundHold' /\ AloneHold'
  BY DEF IInv, FoundHold, AloneHold, Exists, Live
<1>. QED BY <1>1, <1>2, <1>3 DEF IInv

LEMMA NoUploadIs == NoUpload \in Uploads
BY DEF NoUpload, Uploads, Replies

LEMMA OpenNewHolds ==
  ASSUME IInv, NEW t \in Tabs, OpenNew(t)
  PROVE  IInv'
<1>1. PICK c : c = BlankContent(nextKey(t))
  OBVIOUS
<1>2. c \in Contents /\ Whole(c)
  BY <1>1, NewKey, BlankWhole DEF IInv
<1>3. PICK f : f = Form(FALSE, NoRule, c)
  OBVIOUS
<1>4. f \in Forms /\ Whole(f) /\ ~f.isEdit
  BY <1>2, <1>3, FormIs DEF FormMade
<1>5. form' = [form EXCEPT ![t] = f] /\ UNCHANGED <<upload, save, submit, rule, used, overlapped>>
  BY <1>1, <1>3 DEF OpenNew, Opens, requests
<1>6. upload' \in [Tabs -> Uploads] /\ used' \in Counters /\ used'.by = used.by
  BY <1>5 DEF IInv, TypeOK, Counters
<1>. QED BY <1>4, <1>5, <1>6, FormChanges

LEMMA OpenRuleHolds ==
  ASSUME IInv, NEW t \in Tabs, NEW r \in Rules, OpenRule(t, r)
  PROVE  IInv'
<1>1. PICK f : f = Opened(r)
  OBVIOUS
<1>2. /\ form' = [form EXCEPT ![t] = f] /\ save[t] = NoSave
      /\ UNCHANGED <<upload, save, submit, rule, used, overlapped>>
  BY <1>1 DEF OpenRule, Opens, requests
<1>3. rule[r] \in Rows /\ RowHolds(rule[r])
  BY DEF IInv, TypeOK, RulesHold
<1>4. f \in Forms /\ Whole(f) /\ (f.isEdit => f.rule = r /\ rule[r].status \notin {"NONE", "DRAFT"})
  <2>1. CASE rule[r].status = "DRAFT"
    <3>1. f = Form(FALSE, r, rule[r].draft)
      BY <1>1, <2>1 DEF Opened
    <3>2. rule[r].draft \in Contents /\ Whole(rule[r].draft)
      BY <1>3, <2>1 DEF RowHolds
    <3>3. PICK c : c = rule[r].draft
      OBVIOUS
    <3>4. FormMade(FALSE, r, f)
      BY <3>1, <3>2, <3>3, FormIs
    <3>. QED BY <3>4 DEF FormMade
  <2>2. CASE rule[r].status # "DRAFT"
    <3>1. Live(r)
      BY <2>2 DEF OpenRule, Exists
    <3>2. Stored(rule[r])
      BY <1>3, <3>1 DEF RowHolds, Live
    <3>3. PICK c : c = [scope |-> normalizeScopeType(rule[r].scope), picked |-> rule[r].picked,
                        triggers |-> automationToTriggerRows(rule[r].triggers),
                        steps |-> deserializeActionSteps(rule[r].steps)]
      OBVIOUS
    <3>4. /\ AllNormal(c.steps) /\ c.triggers \in Seq(Trigger) /\ c.scope \in Scopes
          /\ (\A i, j \in DOMAIN rule[r].steps :
                rule[r].steps[i].key = rule[r].steps[j].key => i = j) => Whole(c)
      BY <1>3, <3>2, <3>3, StoredOpens
    <3>5. Whole(c)
      BY <3>4, KeysDiffer DEF OpenRule
    <3>6. c \in Contents
      BY <1>3, <3>3, <3>4 DEF Rows, Contents, AllNormal
    <3>7. f = Form(TRUE, r, c)
      BY <1>1, <2>2, <3>3 DEF Opened
    <3>8. FormMade(TRUE, r, f)
      BY <3>5, <3>6, <3>7, FormIs
    <3>. QED BY <2>2, <3>1, <3>8 DEF Live, FormMade
  <2>. QED BY <2>1, <2>2
<1>5. upload' \in [Tabs -> Uploads] /\ used' \in Counters /\ used'.by = used.by
  BY <1>2 DEF IInv, TypeOK, Counters
<1>6. f.open /\ f.isEdit => Published(f.rule) /\ save[t] = NoSave
  BY <1>2, <1>4 DEF Published
<1>. QED BY <1>2, <1>4, <1>5, <1>6, FormChanges

LEMMA LeaveHolds ==
  ASSUME IInv, NEW t \in Tabs, Leave(t)
  PROVE  IInv'
<1>1. /\ form' = [form EXCEPT ![t] = Closed] /\ upload' = [upload EXCEPT ![t] = NoUpload]
      /\ UNCHANGED <<save, submit, rule, used, overlapped>>
  BY DEF Leave
<1>2. upload' \in [Tabs -> Uploads] /\ used' \in Counters /\ used'.by = used.by
  BY <1>1, NoUploadIs DEF IInv, TypeOK, Counters
<1>. QED BY <1>1, <1>2, ClosedIs, FormChanges

LEMMA EditHolds ==
  ASSUME IInv, NEW t \in Tabs,
         EditScope(t) \/ EditTrigger(t) \/ EditSteps(t) \/ EditStep(t) \/ UseTemplate(t)
  PROVE  IInv'
<1>1. TypeOK /\ Whole(form[t])
  BY DEF IInv, FormsHold
<1>2. PICK f : Edited(t, f) /\ Edit(t, f)
  BY <1>1, EditsKeep
<1>3. /\ form[t].open /\ form' = [form EXCEPT ![t] = f]
      /\ used' = [used EXCEPT !.edits = @ + 1]
      /\ UNCHANGED <<upload, save, submit, rule, overlapped>>
  BY <1>2 DEF Edit, requests
<1>4. upload' \in [Tabs -> Uploads] /\ used' \in Counters /\ used'.by = used.by
  BY <1>1, <1>3 DEF TypeOK, Counters
<1>5. /\ f \in Forms /\ Whole(f)
      /\ f.open /\ f.isEdit => Published(f.rule) /\ save[t] = NoSave
  BY <1>2, <1>3 DEF Edited, IInv, FormsHold
<1>. QED BY <1>3, <1>4, <1>5, FormChanges

LEMMA PickFileHolds ==
  ASSUME IInv, NEW t \in Tabs, PickFile(t)
  PROVE  IInv'
<1>1. /\ UNCHANGED <<form, save, submit, rule, overlapped>>
      /\ used' = [used EXCEPT !.files = @ + 1]
  BY DEF PickFile
<1>2. used' \in Counters /\ used'.by = used.by
  BY <1>1 DEF IInv, TypeOK, Counters
<1>3. form[t].steps \in Seq(Step) /\ upload \in [Tabs -> Uploads]
  BY DEF IInv, TypeOK, Forms
<1>4. PICK n \in ToSet(form[t].steps) :
        \/ upload' = [upload EXCEPT ![t] = [NoUpload EXCEPT !.step = n.key]]
        \/ \E b \in ToSet(n.buttons), w \in Replies :
             upload' = [upload EXCEPT ![t] =
               [step |-> n.key, button |-> b.key, reply |-> w, buttons |-> n.buttons]]
  BY DEF PickFile
<1>5. n \in Step
  BY <1>3, InSeq
<1>6. n.key \in Nat /\ n.buttons \in Seq(Button)
  BY <1>5 DEF Step
<1>7. CASE upload' = [upload EXCEPT ![t] = [NoUpload EXCEPT !.step = n.key]]
  <2>1. [NoUpload EXCEPT !.step = n.key] \in Uploads
    BY <1>6, NoUploadIs DEF Uploads
  <2>2. upload' \in [Tabs -> Uploads]
    BY <1>3, <1>7, <2>1
  <2>. QED BY <1>1, <1>2, <2>2, FormsStay
<1>8. CASE \E b \in ToSet(n.buttons), w \in Replies :
             upload' = [upload EXCEPT ![t] =
               [step |-> n.key, button |-> b.key, reply |-> w, buttons |-> n.buttons]]
  <2>1. PICK b \in ToSet(n.buttons), w \in Replies :
             upload' = [upload EXCEPT ![t] =
               [step |-> n.key, button |-> b.key, reply |-> w, buttons |-> n.buttons]]
    BY <1>8
  <2>2. b \in Button
    BY <1>6, InSeq
  <2>3. [step |-> n.key, button |-> b.key, reply |-> w, buttons |-> n.buttons] \in Uploads
    BY <1>6, <2>2 DEF Uploads, Button
  <2>4. upload' \in [Tabs -> Uploads]
    BY <1>3, <2>1, <2>3
  <2>. QED BY <1>1, <1>2, <2>4, FormsStay
<1>. QED BY <1>4, <1>7, <1>8

LEMMA UploadHolds ==
  ASSUME IInv, NEW t \in Tabs, UploadDone(t)
  PROVE  IInv'
<1>1. /\ upload' = [upload EXCEPT ![t] = NoUpload]
      /\ UNCHANGED <<save, submit, rule, used, overlapped>>
  BY DEF UploadDone
<1>2. upload' \in [Tabs -> Uploads] /\ used' \in Counters /\ used'.by = used.by
  BY <1>1, NoUploadIs DEF IInv, TypeOK, Counters
<1>3. CASE form' = form
  BY <1>1, <1>2, <1>3, FormsStay
<1>4. CASE form' # form
  <2>1. PICK steps : Tree(steps) /\ form' = [form EXCEPT ![t].steps = steps]
    BY <1>4, UploadKeeps DEF IInv, FormsHold
  <2>2. PICK f : f = [form[t] EXCEPT !.steps = steps]
    OBVIOUS
  <2>3. form' = [form EXCEPT ![t] = f]
    BY <2>1, <2>2
  <2>4. form[t] \in Forms /\ Whole(form[t])
    BY DEF IInv, TypeOK, FormsHold
  <2>5. /\ f \in Forms /\ f.open = form[t].open /\ f.isEdit = form[t].isEdit
        /\ f.rule = form[t].rule /\ f.triggers = form[t].triggers /\ f.steps = steps
    BY <2>1, <2>2, <2>4 DEF Forms, Tree
  <2>6. Whole(f)
    BY <2>1, <2>4, <2>5 DEF Whole
  <2>7. f.open /\ f.isEdit => Published(f.rule) /\ save[t] = NoSave
    BY <2>5 DEF IInv, FormsHold
  <2>. QED BY <1>1, <1>2, <2>3, <2>5, <2>6, <2>7, FormChanges
<1>. QED BY <1>3, <1>4

-----------------------------------------------------------------------------
(* Steps that change a rule.                                               *)

LEMMA BeforeMore ==
  ASSUME NEW rows \in Seq(StepRow), NEW a \in Nat, NEW b \in Nat, a <= b, Before(rows, a)
  PROVE  Before(rows, b)
<1>1. ToSet(rows) \subseteq StepRow
  BY InSeq
<1>2. \A n \in ToSet(rows) : n.by \in Nat /\ n.by < a
  BY <1>1 DEF Before, StepRow
<1>. QED BY <1>2 DEF Before

\* A published rule stays one, and one that was made stays made.
StatusKept ==
  \A q \in Rules :
    /\ rule[q].status # "NONE" => rule'[q].status # "NONE"
    /\ rule[q].status \notin {"NONE", "DRAFT"} => rule'[q].status \notin {"NONE", "DRAFT"}

\* What a row may be changed to.
Allowed(r, row) ==
  /\ row \in Rows /\ IsInjective(Ids(row.steps)) /\ RowHolds(row)
  /\ row.status # "NONE"
  /\ row.status = "DRAFT" => rule[r].status \in {"NONE", "DRAFT"}
  /\ r \notin overlapped => OneSave(row)

LEMMA RuleStep ==
  ASSUME IInv, NEW r \in Rules, NEW row, Allowed(r, row), Before(row.steps, used'.by),
         rule' = [rule EXCEPT ![r] = row], overlapped' = overlapped,
         used' \in Counters, used.by <= used'.by
  PROVE  /\ rule' \in [Rules -> Rows] /\ \A q \in Rules : IsInjective(Ids(rule'[q].steps))
         /\ RulesHold' /\ OneSaveHolds' /\ StatusKept
<1>1. rule \in [Rules -> Rows] /\ used.by \in Nat /\ used'.by \in Nat
  BY DEF IInv, TypeOK, Counters
<1>2. rule'[r] = row /\ \A q \in Rules : q # r => rule'[q] = rule[q]
  BY <1>1
<1>3. rule' \in [Rules -> Rows] /\ \A q \in Rules : IsInjective(Ids(rule'[q].steps))
  BY <1>1, <1>2 DEF Allowed, IInv, TypeOK
<1>4. ASSUME NEW q \in Rules PROVE RowHolds(rule'[q]) /\ Before(rule'[q].steps, used'.by)
  <2>1. CASE q = r
    BY <1>2, <2>1 DEF Allowed
  <2>2. CASE q # r
    <3>1. RowHolds(rule[q]) /\ Before(rule[q].steps, used.by) /\ rule[q].steps \in Seq(StepRow)
      BY <1>1 DEF IInv, RulesHold, Rows
    <3>2. Before(rule[q].steps, used'.by)
      BY <1>1, <3>1, BeforeMore
    <3>. QED BY <1>2, <2>2, <3>1, <3>2
  <2>. QED BY <2>1, <2>2
<1>5. RulesHold'
  BY <1>4 DEF RulesHold
<1>6. ASSUME NEW q \in Rules, q \notin overlapped PROVE OneSave(rule'[q])
  BY <1>2, <1>6 DEF Allowed, IInv, OneSaveHolds
<1>7. OneSaveHolds'
  BY <1>6 DEF OneSaveHolds
<1>8. StatusKept
  BY <1>2 DEF Allowed, StatusKept
<1>. QED BY <1>3, <1>5, <1>7, <1>8

\* Whoever has the rule open finds in it what was there, or nothing.
StillFound(r, row) ==
  \A t \in Tabs : submit[t].pc = "open" /\ submit[t].rule = r =>
    \/ row.steps = <<>> /\ row.status = "DELETED"
    \/ row.steps = rule[r].steps /\ row.triggers = rule[r].triggers /\ Exists(r)

\* A rule changed, and perhaps a draft save.
LEMMA RuleChanges ==
  ASSUME IInv, NEW r \in Rules, NEW row, Allowed(r, row), Before(row.steps, used'.by),
         StillFound(r, row),
         rule' = [rule EXCEPT ![r] = row], UNCHANGED <<form, upload, submit, overlapped>>,
         used' \in Counters, used.by <= used'.by,
         save' \in [Tabs -> Saves], SavesHold',
         \A u \in Tabs : form[u].open /\ form[u].isEdit => save'[u] = NoSave
  PROVE  IInv'
<1>1. /\ rule' \in [Rules -> Rows] /\ \A q \in Rules : IsInjective(Ids(rule'[q].steps))
      /\ RulesHold' /\ OneSaveHolds' /\ StatusKept
  BY RuleStep
<1>2. TypeOK'
  BY <1>1 DEF IInv, TypeOK, Counters
<1>3. FormsHold'
  BY <1>1 DEF IInv, FormsHold, Published, StatusKept
<1>4. SubmitsHold'
  BY <1>1 DEF IInv, SubmitsHold, Published, StatusKept
<1>5. rule'[r] = row /\ \A q \in Rules : q # r => rule'[q] = rule[q]
  BY DEF IInv, TypeOK
<1>6. ASSUME NEW t \in Tabs, submit[t].pc = "open", NEW found \in submit[t].found
      PROVE  Together(rule'[submit[t].rule].steps, found) /\ Before(found, used'.by)
  <2>1. PICK q \in Rules : q = submit[t].rule
    BY <1>6 DEF IInv, SubmitsHold
  <2>2. Together(rule[q].steps, found) /\ Before(found, used.by)
    BY <1>6, <2>1 DEF IInv, FoundHold
  <2>3. found \in Seq(StepRow) /\ used.by \in Nat /\ used'.by \in Nat
    BY <1>6 DEF IInv, TypeOK, Submits, Counters
  <2>4. Before(found, used'.by)
    BY <2>2, <2>3, BeforeMore
  <2>5. Together(rule'[q].steps, found)
    <3>1. CASE q # r
      BY <1>5, <2>2, <3>1
    <3>2. CASE q = r /\ row.steps = rule[r].steps
      BY <1>5, <2>2, <3>2
    <3>3. CASE q = r /\ row.steps = <<>>
      BY <1>5, <3>3 DEF Together, ToSet
    <3>. QED BY <1>6, <2>1, <3>1, <3>2, <3>3 DEF StillFound
  <2>. QED BY <2>1, <2>4, <2>5
<1>7. FoundHold'
  BY <1>6 DEF FoundHold
<1>8. ASSUME NEW t \in Tabs, submit[t].pc = "open", submit[t].rule \notin overlapped
      PROVE  /\ \A u \in Tabs : submit[u].pc = "open" /\ submit[u].rule = submit[t].rule => u = t
             /\ Exists(submit[t].rule)' =>
                  /\ submit[t].triggers = rule'[submit[t].rule].triggers
                  /\ \A found \in submit[t].found : found = rule'[submit[t].rule].steps
  <2>1. PICK q \in Rules : q = submit[t].rule
    BY <1>8 DEF IInv, SubmitsHold
  <2>2. /\ \A u \in Tabs : submit[u].pc = "open" /\ submit[u].rule = submit[t].rule => u = t
        /\ Exists(q) =>
             /\ submit[t].triggers = rule[q].triggers
             /\ \A found \in submit[t].found : found = rule[q].steps
    BY <1>8, <2>1 DEF IInv, AloneHold
  <2>3. ASSUME rule'[q].status \in {"ACTIVE", "PAUSED", "DRAFT"}
        PROVE  rule'[q].triggers = rule[q].triggers /\ rule'[q].steps = rule[q].steps /\ Exists(q)
    <3>1. CASE q # r
      BY <1>5, <2>3, <3>1 DEF Exists, Live
    <3>2. CASE q = r
      <4>1. row.status # "DELETED"
        BY <1>5, <2>3, <3>2
      <4>. QED BY <1>5, <1>8, <2>1, <3>2, <4>1 DEF StillFound
    <3>. QED BY <3>1, <3>2
  <2>4. Exists(q)' => rule'[q].status \in {"ACTIVE", "PAUSED", "DRAFT"}
    BY DEF Exists, Live
  <2>5. Exists(submit[t].rule)' => Exists(q)'
    BY <2>1 DEF Exists, Live
  <2>. QED BY <2>1, <2>2, <2>3, <2>4, <2>5
<1>9. AloneHold'
  BY <1>8 DEF AloneHold
<1>. QED BY <1>1, <1>2, <1>3, <1>4, <1>7, <1>9 DEF IInv

\* A row that was never made has no one's transaction open on it.
LEMMA NeverOpen ==
  ASSUME IInv, NEW r \in Rules, rule[r] = NeverMade, NEW row
  PROVE  StillFound(r, row)
<1>1. rule[r].status = "NONE"
  BY DEF NeverMade, Row
<1>. QED BY <1>1 DEF StillFound, IInv, SubmitsHold

\* The saves of one tab, in the state after a step.
LEMMA SaveStep ==
  ASSUME IInv, NEW t \in Tabs, NEW s \in Saves, save' = [save EXCEPT ![t] = s],
         s.pc \in {"sent", "checked", "saved"} => s.data \in Contents /\ Whole(s.data),
         s.pc = "checked" => s.rule \in Rules,
         form[t].open /\ form[t].isEdit => s = NoSave
  PROVE  /\ save' \in [Tabs -> Saves] /\ SavesHold'
         /\ \A u \in Tabs : form[u].open /\ form[u].isEdit => save'[u] = NoSave
<1>1. save \in [Tabs -> Saves]
  BY DEF IInv, TypeOK
<1>2. save'[t] = s /\ \A u \in Tabs : u # t => save'[u] = save[u]
  BY <1>1
<1>3. save' \in [Tabs -> Saves]
  BY <1>1
<1>4. ASSUME NEW u \in Tabs
      PROVE  /\ save'[u].pc \in {"sent", "checked", "saved"} =>
                  save'[u].data \in Contents /\ Whole(save'[u].data)
             /\ save'[u].pc = "checked" => save'[u].rule \in Rules
             /\ form[u].open /\ form[u].isEdit => save'[u] = NoSave
  <2>1. CASE u = t
    BY <1>2, <2>1
  <2>2. CASE u # t
    BY <1>2, <2>2 DEF IInv, SavesHold, FormsHold
  <2>. QED BY <2>1, <2>2
<1>5. SavesHold'
  BY <1>4 DEF SavesHold
<1>. QED BY <1>3, <1>4, <1>5

\* A draft save alone, and perhaps what the form learns of it.
LEMMA SaveChanges ==
  ASSUME IInv, save' \in [Tabs -> Saves], SavesHold',
         form' \in [Tabs -> Forms],
         \A u \in Tabs :
           /\ Whole(form'[u])
           /\ form'[u].open /\ form'[u].isEdit => Published(form'[u].rule) /\ save'[u] = NoSave,
         UNCHANGED <<upload, submit, rule, overlapped>>, used' \in Counters, used'.by = used.by
  PROVE  IInv'
<1>1. TypeOK'
  <2>1. \A u \in Tabs : IsInjective(Keys(form'[u].steps))
    BY KeysDiffer DEF Whole, Tree
  <2>. QED BY <2>1 DEF IInv, TypeOK, Counters
<1>2. FormsHold'
  BY DEF FormsHold, Published
<1>3. SubmitsHold' /\ RulesHold' /\ OneSaveHolds'
  BY DEF IInv, SubmitsHold, RulesHold, OneSaveHolds, Published
<1>4. FoundHold' /\ AloneHold'
  BY DEF IInv, FoundHold, AloneHold, Exists, Live
<1>. QED BY <1>1, <1>2, <1>3, <1>4 DEF IInv

LEMMA SavesIn ==
  ASSUME IInv, NEW t \in Tabs
  PROVE  /\ save[t] \in Saves /\ NoSave \in Saves /\ NoSave.pc = "idle"
         /\ save[t].pc # "idle" => ~(form[t].open /\ form[t].isEdit)
BY DEF IInv, TypeOK, FormsHold, Saves, NoSave, NoContent

LEMMA saveDraftHolds ==
  ASSUME IInv, NEW t \in Tabs, saveDraft(t)
  PROVE  IInv'
<1>1. PICK d : d = Content(form[t])
  OBVIOUS
<1>2. form[t] \in Forms /\ Whole(form[t])
  BY DEF IInv, TypeOK, FormsHold
<1>3. d \in Contents /\ Whole(d)
  BY <1>1, <1>2 DEF Content, Contents, Forms, Whole
<1>4. PICK s : s = [pc |-> "sent", rule |-> form[t].rule, data |-> d]
  OBVIOUS
<1>5. s \in Saves /\ s.pc = "sent" /\ s.data = d
  BY <1>2, <1>3, <1>4 DEF Saves, Forms
<1>6. /\ save' = [save EXCEPT ![t] = s] /\ ~form[t].isEdit
      /\ used' = [used EXCEPT !.saves = @ + 1]
      /\ UNCHANGED <<form, upload, submit, rule, overlapped>>
  BY <1>1, <1>4 DEF saveDraft, Saving
<1>7. /\ save' \in [Tabs -> Saves] /\ SavesHold'
      /\ \A u \in Tabs : form[u].open /\ form[u].isEdit => save'[u] = NoSave
  BY <1>3, <1>5, <1>6, SaveStep
<1>8. used' \in Counters /\ used'.by = used.by
  BY <1>6 DEF IInv, TypeOK, Counters
<1>9. form' \in [Tabs -> Forms] /\ \A u \in Tabs :
           /\ Whole(form'[u])
           /\ form'[u].open /\ form'[u].isEdit => Published(form'[u].rule) /\ save'[u] = NoSave
  BY <1>6, <1>7 DEF IInv, TypeOK, FormsHold
<1>. QED BY <1>6, <1>7, <1>8, <1>9, SaveChanges

\* What save[t] becomes when only its state and its rule do.
LEMMA SaveMoves ==
  ASSUME IInv, NEW t \in Tabs, save[t].pc # "idle", NEW pc, NEW r \in Rules \cup {NoRule},
         pc \in {"sent", "checked", "saved", "failed"},
         pc # "failed" => save[t].pc \in {"sent", "checked", "saved"},
         pc = "checked" => r \in Rules,
         save' = [save EXCEPT ![t] = [save[t] EXCEPT !.pc = pc, !.rule = r]]
  PROVE  /\ save' \in [Tabs -> Saves] /\ SavesHold'
         /\ \A u \in Tabs : form[u].open /\ form[u].isEdit => save'[u] = NoSave
<1>1. PICK s : s = [save[t] EXCEPT !.pc = pc, !.rule = r]
  OBVIOUS
<1>2. save[t] \in Saves
  BY SavesIn
<1>3. s \in Saves /\ s.pc = pc /\ s.rule = r /\ s.data = save[t].data
  BY <1>1, <1>2 DEF Saves
<1>4. pc # "failed" => save[t].data \in Contents /\ Whole(save[t].data)
  BY DEF IInv, SavesHold
<1>5. ~(form[t].open /\ form[t].isEdit)
  BY SavesIn
<1>6. save' = [save EXCEPT ![t] = s]
  BY <1>1
<1>. QED BY <1>3, <1>4, <1>5, <1>6, SaveStep

\* A draft alone is made or written.
LEMMA DraftAllowed ==
  ASSUME IInv, NEW r \in Rules, rule[r] = NeverMade, NEW d \in Contents, Whole(d),
         NEW row, row = [NeverMade EXCEPT !.status = "DRAFT", !.draft = d]
  PROVE  Allowed(r, row) /\ \A by \in Nat : Before(row.steps, by)
<1>1. /\ row.status = "DRAFT" /\ row.triggers = <<>> /\ row.steps = <<>> /\ row.draft = d
  BY DEF NeverMade, Row
<1>2. row \in Rows
  <2>1. NeverMade \in Rows
    BY DEF NeverMade, Row, Rows, Scopes, ScopesStored
  <2>2. d \in Contents \cup {NoContent}
    OBVIOUS
  <2>. QED BY <2>1, <2>2 DEF Rows
<1>3. RowHolds(row)
  BY <1>1 DEF RowHolds
<1>4. OneSave(row) /\ IsInjective(Ids(row.steps))
  BY <1>1 DEF OneSave, IsInjective, Ids, ToSet
<1>5. rule[r].status = "NONE"
  BY DEF NeverMade, Row
<1>6. \A by \in Nat : Before(row.steps, by)
  BY <1>1 DEF Before, ToSet
<1>. QED BY <1>1, <1>2, <1>3, <1>4, <1>5, <1>6 DEF Allowed

LEMMA createDraftHolds ==
  ASSUME IInv, NEW t \in Tabs, createDraft(t)
  PROVE  IInv'
<1>1. PICK r \in Rules :
        /\ rule[r] = NeverMade
        /\ rule' = [rule EXCEPT ![r] = [NeverMade EXCEPT !.status = "DRAFT",
                                                         !.draft = save[t].data]]
        /\ save' = [save EXCEPT ![t] = [save[t] EXCEPT !.pc = "saved", !.rule = r]]
  BY DEF createDraft, Saving
<1>2. save[t].pc = "sent" /\ UNCHANGED <<form, upload, submit, used, overlapped>>
  BY DEF createDraft
<1>3. PICK d \in Contents : d = save[t].data /\ Whole(d)
  BY <1>2 DEF IInv, SavesHold
<1>4. PICK row : row = [NeverMade EXCEPT !.status = "DRAFT", !.draft = d]
  OBVIOUS
<1>5. rule' = [rule EXCEPT ![r] = row]
  BY <1>1, <1>3, <1>4
<1>6. used' \in Counters /\ used'.by \in Nat /\ used.by <= used'.by
  BY <1>2 DEF IInv, TypeOK, Counters
<1>7. Allowed(r, row) /\ Before(row.steps, used'.by)
  BY <1>1, <1>3, <1>4, <1>6, DraftAllowed
<1>8. StillFound(r, row)
  BY <1>1, NeverOpen
<1>9. /\ save' \in [Tabs -> Saves] /\ SavesHold'
      /\ \A u \in Tabs : form[u].open /\ form[u].isEdit => save'[u] = NoSave
  <2>1. PICK pc : pc = "saved"
    OBVIOUS
  <2>2. save' = [save EXCEPT ![t] = [save[t] EXCEPT !.pc = pc, !.rule = r]]
    BY <1>1, <2>1
  <2>. QED BY <1>2, <2>1, <2>2, SaveMoves
<1>. QED BY <1>2, <1>5, <1>6, <1>7, <1>8, <1>9, RuleChanges

LEMMA updateDraftReadsHolds ==
  ASSUME IInv, NEW t \in Tabs, updateDraftReads(t)
  PROVE  IInv'
<1>1. PICK pc : pc = IF rule[save[t].rule].status = "DRAFT" THEN "checked" ELSE "failed"
  OBVIOUS
<1>2. /\ save[t].pc = "sent" /\ save[t].rule # NoRule
      /\ save' = [save EXCEPT ![t] = [save[t] EXCEPT !.pc = pc]]
      /\ UNCHANGED <<form, upload, submit, rule, used, overlapped>>
  BY <1>1 DEF updateDraftReads, Saving
<1>3. PICK r \in Rules : r = save[t].rule
  BY <1>2, SavesIn DEF Saves
<1>4. save' = [save EXCEPT ![t] = [save[t] EXCEPT !.pc = pc, !.rule = r]]
  BY <1>2, <1>3, SavesIn DEF Saves
<1>5. pc \in {"checked", "failed"}
  BY <1>1
<1>6. /\ save' \in [Tabs -> Saves] /\ SavesHold'
      /\ \A u \in Tabs : form[u].open /\ form[u].isEdit => save'[u] = NoSave
  BY <1>2, <1>4, <1>5, SaveMoves
<1>7. used' \in Counters /\ used'.by = used.by
  BY <1>2 DEF IInv, TypeOK, Counters
<1>8. form' \in [Tabs -> Forms] /\ \A u \in Tabs :
           /\ Whole(form'[u])
           /\ form'[u].open /\ form'[u].isEdit => Published(form'[u].rule) /\ save'[u] = NoSave
  BY <1>2, <1>6 DEF IInv, TypeOK, FormsHold
<1>. QED BY <1>2, <1>6, <1>7, <1>8, SaveChanges

LEMMA updateDraftWritesHolds ==
  ASSUME IInv, NEW t \in Tabs, updateDraftWrites(t)
  PROVE  IInv'
<1>1. save[t].pc = "checked" /\ UNCHANGED <<form, upload, submit, used, overlapped>>
  BY DEF updateDraftWrites
<1>2. PICK r \in Rules : r = save[t].rule
  BY <1>1 DEF IInv, SavesHold
<1>3. used' \in Counters /\ used'.by = used.by /\ used.by \in Nat
  BY <1>1 DEF IInv, TypeOK, Counters
<1>4. CASE Exists(r)
  <2>1. PICK d \in Contents : d = save[t].data /\ Whole(d)
    BY <1>1 DEF IInv, SavesHold
  <2>2. PICK row : row = [rule[r] EXCEPT !.draft = d]
    OBVIOUS
  <2>3. /\ rule' = [rule EXCEPT ![r] = row]
        /\ save' = [save EXCEPT ![t] = [save[t] EXCEPT !.pc = "saved"]]
    BY <1>2, <1>4, <2>1, <2>2 DEF updateDraftWrites, Saving
  <2>4. rule[r] \in Rows /\ RowHolds(rule[r]) /\ Before(rule[r].steps, used.by)
        /\ IsInjective(Ids(rule[r].steps)) /\ (r \notin overlapped => OneSave(rule[r]))
    BY DEF IInv, TypeOK, RulesHold, OneSaveHolds
  <2>5. /\ row \in Rows /\ row.status = rule[r].status /\ row.scope = rule[r].scope
        /\ row.picked = rule[r].picked /\ row.triggers = rule[r].triggers
        /\ row.steps = rule[r].steps /\ row.draft = d
    BY <2>2, <2>4 DEF Rows
  <2>6. RowHolds(row)
    BY <2>1, <2>4, <2>5 DEF RowHolds, Stored
  <2>7. r \notin overlapped => OneSave(row)
    BY <2>4, <2>5 DEF OneSave
  <2>8. Allowed(r, row)
    BY <1>4, <2>4, <2>5, <2>6, <2>7 DEF Allowed, Exists, Live
  <2>9. StillFound(r, row)
    BY <1>4, <2>5 DEF StillFound
  <2>10. /\ save' \in [Tabs -> Saves] /\ SavesHold'
         /\ \A u \in Tabs : form[u].open /\ form[u].isEdit => save'[u] = NoSave
    <3>1. save' = [save EXCEPT ![t] = [save[t] EXCEPT !.pc = "saved", !.rule = r]]
      BY <1>2, <2>3, SavesIn DEF Saves
    <3>2. PICK pc : pc = "saved"
      OBVIOUS
    <3>3. save' = [save EXCEPT ![t] = [save[t] EXCEPT !.pc = pc, !.rule = r]]
      BY <3>1, <3>2
    <3>. QED BY <1>1, <3>2, <3>3, SaveMoves
  <2>11. Before(row.steps, used'.by) /\ used.by <= used'.by
    BY <1>3, <2>4, <2>5
  <2>. QED BY <1>1, <1>3, <2>3, <2>8, <2>9, <2>10, <2>11, RuleChanges
<1>5. CASE ~Exists(r)
  <2>1. /\ save' = [save EXCEPT ![t] = [save[t] EXCEPT !.pc = "failed"]] /\ rule' = rule
    BY <1>2, <1>5 DEF updateDraftWrites, Saving
  <2>2. save' = [save EXCEPT ![t] = [save[t] EXCEPT !.pc = "failed", !.rule = r]]
    BY <1>2, <2>1, SavesIn DEF Saves
  <2>3. PICK pc : pc = "failed"
    OBVIOUS
  <2>4. save' = [save EXCEPT ![t] = [save[t] EXCEPT !.pc = pc, !.rule = r]]
    BY <2>2, <2>3
  <2>5. /\ save' \in [Tabs -> Saves] /\ SavesHold'
        /\ \A u \in Tabs : form[u].open /\ form[u].isEdit => save'[u] = NoSave
    BY <1>1, <2>3, <2>4, SaveMoves
  <2>6. form' \in [Tabs -> Forms] /\ \A u \in Tabs :
           /\ Whole(form'[u])
           /\ form'[u].open /\ form'[u].isEdit => Published(form'[u].rule) /\ save'[u] = NoSave
    BY <1>1, <2>5 DEF IInv, TypeOK, FormsHold
  <2>. QED BY <1>1, <1>3, <2>1, <2>5, <2>6, SaveChanges
<1>. QED BY <1>4, <1>5

LEMMA DraftAnsweredHolds ==
  ASSUME IInv, NEW t \in Tabs, DraftAnswered(t)
  PROVE  IInv'
<1>1. /\ save[t].pc \in {"saved", "failed"} /\ save' = [save EXCEPT ![t] = NoSave]
      /\ UNCHANGED <<upload, submit, rule, overlapped>>
  BY DEF DraftAnswered, Saving
<1>2. /\ save[t] \in Saves /\ NoSave \in Saves /\ NoSave.pc = "idle"
      /\ ~(form[t].open /\ form[t].isEdit)
  BY <1>1, SavesIn
<1>3. PICK s : s = NoSave
  OBVIOUS
<1>4. /\ save' \in [Tabs -> Saves] /\ SavesHold'
      /\ \A u \in Tabs : form[u].open /\ form[u].isEdit => save'[u] = NoSave
  <2>1. /\ s \in Saves /\ save' = [save EXCEPT ![t] = s] /\ s.pc = "idle"
        /\ form[t].open /\ form[t].isEdit => s = NoSave
    BY <1>1, <1>2, <1>3
  <2>. QED BY <2>1, SaveStep
<1>5. /\ form \in [Tabs -> Forms]
      /\ \A u \in Tabs :
           /\ Whole(form[u])
           /\ form[u].open /\ form[u].isEdit => Published(form[u].rule) /\ save[u] = NoSave
  BY DEF IInv, TypeOK, FormsHold
<1>6. used' = used \/ used' = [used EXCEPT !.lost = @ + 1]
  BY DEF DraftAnswered
<1>7. used' \in Counters /\ used'.by = used.by
  BY <1>6 DEF IInv, TypeOK, Counters
<1>8. CASE form' = form
  <2>1. form' \in [Tabs -> Forms] /\ \A u \in Tabs :
           /\ Whole(form'[u])
           /\ form'[u].open /\ form'[u].isEdit => Published(form'[u].rule) /\ save'[u] = NoSave
    BY <1>4, <1>5, <1>8
  <2>. QED BY <1>1, <1>4, <1>7, <2>1, SaveChanges
<1>9. CASE form' = [form EXCEPT ![t].rule = save[t].rule]
  <2>1. PICK f : f = [form[t] EXCEPT !.rule = save[t].rule]
    OBVIOUS
  <2>2. form' = [form EXCEPT ![t] = f]
    BY <1>9, <2>1
  <2>3. /\ f \in Forms /\ f.open = form[t].open /\ f.isEdit = form[t].isEdit
        /\ f.triggers = form[t].triggers /\ f.steps = form[t].steps
    BY <1>2, <1>5, <2>1 DEF Forms, Saves
  <2>4. Whole(f) /\ ~(f.open /\ f.isEdit)
    BY <1>2, <1>5, <2>3 DEF Whole
  <2>5. form' \in [Tabs -> Forms] /\ form'[t] = f /\ \A u \in Tabs : u # t => form'[u] = form[u]
    BY <1>5, <2>2, <2>3
  <2>6. ASSUME NEW u \in Tabs
        PROVE  /\ Whole(form'[u])
               /\ form'[u].open /\ form'[u].isEdit => Published(form'[u].rule) /\ save'[u] = NoSave
    <3>1. CASE u = t
      BY <2>4, <2>5, <3>1
    <3>2. CASE u # t
      BY <1>4, <1>5, <2>5, <3>2
    <3>. QED BY <3>1, <3>2
  <2>. QED BY <1>1, <1>4, <1>7, <2>5, <2>6, SaveChanges
<1>. QED BY <1>8, <1>9 DEF DraftAnswered

\* The list.
LEMMA ToggleHolds ==
  ASSUME IInv, NEW r \in Rules, handleToggle(r)
  PROVE  IInv'
<1>1. PICK status : status = IF rule[r].status = "ACTIVE" THEN "PAUSED" ELSE "ACTIVE"
  OBVIOUS
<1>2. PICK row : row = [rule[r] EXCEPT !.status = status]
  OBVIOUS
<1>3. /\ Live(r) /\ rule' = [rule EXCEPT ![r] = row] /\ used' = [used EXCEPT !.edits = @ + 1]
      /\ UNCHANGED <<form, upload, save, submit, overlapped>>
  BY <1>1, <1>2 DEF handleToggle, ListEdit, requests
<1>4. rule[r] \in Rows /\ RowHolds(rule[r]) /\ Before(rule[r].steps, used.by)
      /\ IsInjective(Ids(rule[r].steps)) /\ (r \notin overlapped => OneSave(rule[r]))
  BY DEF IInv, TypeOK, RulesHold, OneSaveHolds
<1>5. status \in {"ACTIVE", "PAUSED"}
  BY <1>1
<1>6. /\ row \in Rows /\ row.status = status /\ row.scope = rule[r].scope
      /\ row.picked = rule[r].picked /\ row.triggers = rule[r].triggers
      /\ row.steps = rule[r].steps /\ row.draft = rule[r].draft
  BY <1>2, <1>4, <1>5 DEF Rows
<1>7. RowHolds(row)
  BY <1>3, <1>4, <1>5, <1>6 DEF RowHolds, Stored, Live
<1>8. r \notin overlapped => OneSave(row)
  BY <1>4, <1>6 DEF OneSave
<1>9. Allowed(r, row)
  BY <1>4, <1>5, <1>6, <1>7, <1>8 DEF Allowed
<1>10. StillFound(r, row)
  BY <1>3, <1>6 DEF StillFound, Exists
<1>11. used' \in Counters /\ used'.by = used.by /\ used.by \in Nat
  BY <1>3 DEF IInv, TypeOK, Counters
<1>12. Before(row.steps, used'.by) /\ used.by <= used'.by
  BY <1>4, <1>6, <1>11
<1>13. /\ save' \in [Tabs -> Saves] /\ SavesHold'
       /\ \A u \in Tabs : form[u].open /\ form[u].isEdit => save'[u] = NoSave
  BY <1>3 DEF IInv, TypeOK, SavesHold, FormsHold
<1>. QED BY <1>3, <1>9, <1>10, <1>11, <1>12, <1>13, RuleChanges

LEMMA DeleteHolds ==
  ASSUME IInv, NEW r \in Rules, handleDelete(r)
  PROVE  IInv'
<1>1. /\ rule' = [rule EXCEPT ![r] = Deleted] /\ used' = [used EXCEPT !.edits = @ + 1]
      /\ UNCHANGED <<form, upload, save, submit, overlapped>>
  BY DEF handleDelete, ListEdit, requests
<1>2. PICK row : row = Deleted
  OBVIOUS
<1>3. /\ row.status = "DELETED" /\ row.triggers = <<>> /\ row.steps = <<>>
      /\ row = [status |-> "DELETED", scope |-> "ALL_POSTS", picked |-> FALSE,
                triggers |-> <<>>, steps |-> <<>>, draft |-> NoContent]
  BY <1>2 DEF Deleted, NeverMade, Row
<1>4. row \in Rows
  BY <1>3 DEF Rows, ScopesStored, Scopes
<1>5. RowHolds(row) /\ OneSave(row) /\ IsInjective(Ids(row.steps)) /\ Before(row.steps, used'.by)
  BY <1>3 DEF RowHolds, OneSave, IsInjective, Ids, ToSet, Before
<1>6. Allowed(r, row) /\ StillFound(r, row)
  BY <1>3, <1>4, <1>5 DEF Allowed, StillFound
<1>7. used' \in Counters /\ used'.by = used.by /\ used.by \in Nat
  BY <1>1 DEF IInv, TypeOK, Counters
<1>8. /\ save' \in [Tabs -> Saves] /\ SavesHold'
      /\ \A u \in Tabs : form[u].open /\ form[u].isEdit => save'[u] = NoSave
  BY <1>1 DEF IInv, TypeOK, SavesHold, FormsHold
<1>9. used.by <= used'.by /\ rule' = [rule EXCEPT ![r] = row]
  BY <1>1, <1>2, <1>7
<1>. QED BY <1>1, <1>5, <1>6, <1>7, <1>8, <1>9, RuleChanges

\* A body stored as a rule that was never made.
LEMMA NewRuleAllowed ==
  ASSUME IInv, NEW body, Sent(body), ApiOk(body), NEW r \in Rules,
         NEW row, row = NewRule(body, used.by, used.id)
  PROVE  Allowed(r, row) /\ Before(row.steps, used.by + 1)
<1>1. used.by \in Nat /\ used.id \in Nat
  BY DEF IInv, TypeOK
<1>2. /\ row \in Rows /\ row.status = "ACTIVE" /\ RowHolds(row) /\ OneSave(row)
      /\ Before(row.steps, used.by + 1) /\ IsInjective(Ids(row.steps))
  BY <1>1, SentKept, NewRuleHolds
<1>. QED BY <1>2 DEF Allowed

LEMMA NumberedIs ==
  ASSUME IInv, NEW body, Sent(body)
  PROVE  Numbered(body) \in Counters /\ Numbered(body).by = used.by + 1
<1>1. body.steps \in Seq(Step)
  BY DEF Sent, Sound, AllSound, AllNormal
<1>2. Len(body.steps) \in Nat
  BY <1>1
<1>3. used \in Counters
  BY DEF IInv, TypeOK, Counters
<1>4. PICK id \in Nat : id = used.id + Len(body.steps)
  BY <1>2, <1>3 DEF Counters
<1>5. PICK by \in Nat : by = used.by + 1
  BY <1>3 DEF Counters
<1>6. Numbered(body) = [used EXCEPT !.id = id, !.by = by]
  BY <1>3, <1>4, <1>5 DEF Numbered, Counters
<1>. QED BY <1>3, <1>4, <1>5, <1>6 DEF Counters

LEMMA installHolds ==
  ASSUME IInv, install
  PROVE  IInv'
<1>1. PICK body : body = Body(TemplateContent(1))
  OBVIOUS
<1>2. Sent(body) /\ ApiOk(body)
  BY <1>1, TemplateSent
<1>3. PICK r \in Rules :
        rule[r] = NeverMade /\ rule' = [rule EXCEPT ![r] = NewRule(body, used.by, used.id)]
  BY <1>1, Zenon DEF install
<1>4. /\ used' = [Numbered(body) EXCEPT !.saves = @ + 1]
      /\ UNCHANGED <<form, upload, save, submit, overlapped>>
  BY <1>1 DEF install, requests
<1>5. PICK row : row = NewRule(body, used.by, used.id)
  OBVIOUS
<1>6. Allowed(r, row) /\ Before(row.steps, used.by + 1) /\ StillFound(r, row)
  BY <1>2, <1>3, <1>5, NewRuleAllowed, NeverOpen
<1>7. used' \in Counters /\ used'.by = used.by + 1 /\ used.by \in Nat
  <2>1. Numbered(body) \in Counters /\ Numbered(body).by = used.by + 1
    BY <1>2, NumberedIs
  <2>2. used.by \in Nat
    BY DEF IInv, TypeOK
  <2>. QED BY <1>4, <2>1, <2>2 DEF Counters
<1>8. used.by <= used'.by /\ Before(row.steps, used'.by)
  BY <1>6, <1>7
<1>9. /\ save' \in [Tabs -> Saves] /\ SavesHold'
      /\ \A u \in Tabs : form[u].open /\ form[u].isEdit => save'[u] = NoSave
  BY <1>4 DEF IInv, TypeOK, SavesHold, FormsHold
<1>. QED BY <1>3, <1>4, <1>5, <1>6, <1>7, <1>8, <1>9, RuleChanges

-----------------------------------------------------------------------------
(* Submissions.                                                            *)

LEMMA SubmitsIn ==
  ASSUME IInv, NEW t \in Tabs
  PROVE  submit[t] \in Submits /\ NoSubmit \in Submits /\ NoSubmit.pc = "idle"
<1>1. submit[t] \in Submits
  BY DEF IInv, TypeOK
<1>2. NoSubmit \in Submits
  BY DEF NoSubmit, Submits, NoContent
<1>. QED BY <1>1, <1>2 DEF NoSubmit

\* What is asked of a submission that has no transaction open.
Asked(s) ==
  /\ s \in Submits /\ s.pc # "open"
  /\ s.pc \in {"sent", "read"} => Sent(s.body) /\ (s.isEdit => Published(s.rule))
  /\ s.pc = "read" => ApiOk(s.body) /\ s.rule \in Rules /\ rule[s.rule].status # "NONE"

\* A submission alone, and perhaps its tab leaves the page.
LEMMA SubmitChanges ==
  ASSUME IInv, NEW t \in Tabs, NEW s, Asked(s), submit' = [submit EXCEPT ![t] = s],
         form' = form \/ form' = [form EXCEPT ![t] = Closed], upload' \in [Tabs -> Uploads],
         UNCHANGED <<save, rule, overlapped>>, used' \in Counters, used'.by = used.by
  PROVE  IInv'
<1>1. submit \in [Tabs -> Submits] /\ form \in [Tabs -> Forms]
  BY DEF IInv, TypeOK
<1>2. submit'[t] = s /\ \A u \in Tabs : u # t => submit'[u] = submit[u]
  BY <1>1
<1>3. submit' \in [Tabs -> Submits] /\ form' \in [Tabs -> Forms]
  BY <1>1, ClosedIs DEF Asked
<1>4. ASSUME NEW u \in Tabs
      PROVE  /\ Whole(form'[u])
             /\ form'[u].open /\ form'[u].isEdit => Published(form'[u].rule) /\ save[u] = NoSave
  <2>1. form'[u] = form[u] \/ form'[u] = Closed
    BY <1>1
  <2>. QED BY <2>1, ClosedIs DEF IInv, FormsHold
<1>5. TypeOK'
  <2>1. \A u \in Tabs : IsInjective(Keys(form'[u].steps))
    BY <1>4, KeysDiffer DEF Whole, Tree
  <2>. QED BY <1>3, <2>1 DEF IInv, TypeOK, Counters
<1>6. FormsHold'
  BY <1>4 DEF FormsHold, Published
<1>7. SavesHold' /\ RulesHold' /\ OneSaveHolds'
  BY DEF IInv, SavesHold, RulesHold, OneSaveHolds
<1>8. ASSUME NEW u \in Tabs
      PROVE  /\ submit'[u].pc \in {"sent", "read", "open"} =>
                  Sent(submit'[u].body) /\ (submit'[u].isEdit => Published(submit'[u].rule))
             /\ submit'[u].pc \in {"read", "open"} =>
                  /\ ApiOk(submit'[u].body) /\ submit'[u].rule \in Rules
                  /\ rule[submit'[u].rule].status # "NONE"
             /\ submit'[u].pc = "open" => u # t /\ submit'[u] = submit[u]
  <2>1. CASE u = t
    BY <1>2, <2>1 DEF Asked
  <2>2. CASE u # t
    BY <1>2, <2>2 DEF IInv, SubmitsHold
  <2>. QED BY <2>1, <2>2
<1>9. SubmitsHold'
  BY <1>8 DEF SubmitsHold, Published
<1>10. FoundHold' /\ AloneHold'
  BY <1>8 DEF IInv, FoundHold, AloneHold, Exists, Live
<1>. QED BY <1>5, <1>6, <1>7, <1>9, <1>10 DEF IInv

LEMMA submitAutomationHolds ==
  ASSUME IInv, NEW t \in Tabs, submitAutomation(t)
  PROVE  IInv'
<1>1. form[t] \in Forms /\ Whole(form[t])
      /\ (form[t].open /\ form[t].isEdit => Published(form[t].rule))
  BY DEF IInv, TypeOK, FormsHold
<1>2. PICK body : body = Body(form[t])
  OBVIOUS
<1>3. /\ form[t].open /\ FormOk(form[t])
      /\ UNCHANGED <<form, upload, save, rule, overlapped>>
      /\ used' = [used EXCEPT !.saves = @ + 1]
      /\ submit' = [submit EXCEPT ![t] = [NoSubmit EXCEPT
           !.pc = "sent", !.rule = form[t].rule, !.isEdit = form[t].isEdit, !.body = body]]
  BY <1>2 DEF submitAutomation, Submitting
<1>4. Sent(body)
  <2>1. form[t].scope \in Scopes /\ form[t].picked \in BOOLEAN /\ form[t].triggers \in Seq(Trigger)
    BY <1>1 DEF Forms
  <2>. QED BY <1>1, <1>2, <1>3, <2>1, BodySent
<1>5. PICK s : s = [NoSubmit EXCEPT
           !.pc = "sent", !.rule = form[t].rule, !.isEdit = form[t].isEdit, !.body = body]
  OBVIOUS
<1>6. s \in Submits /\ s.pc = "sent" /\ s.body = body /\ s.isEdit = form[t].isEdit
      /\ s.rule = form[t].rule
  <2>1. body \in Contents
    BY <1>4 DEF Sent
  <2>2. NoSubmit \in Submits
    BY SubmitsIn
  <2>3. form[t].rule \in Rules \cup {NoRule} /\ form[t].isEdit \in BOOLEAN
    BY <1>1 DEF Forms
  <2>. QED BY <1>5, <2>1, <2>2, <2>3 DEF Submits
<1>7. Asked(s)
  BY <1>1, <1>3, <1>4, <1>6 DEF Asked
<1>8. used' \in Counters /\ used'.by = used.by /\ upload' \in [Tabs -> Uploads]
  BY <1>3 DEF IInv, TypeOK, Counters
<1>9. submit' = [submit EXCEPT ![t] = s] /\ form' = form
  BY <1>3, <1>5
<1>. QED BY <1>3, <1>7, <1>8, <1>9, SubmitChanges

LEMMA updateReadsHolds ==
  ASSUME IInv, NEW t \in Tabs, updateReads(t)
  PROVE  IInv'
<1>1. /\ submit[t].pc = "sent" /\ submit[t].rule # NoRule /\ submit[t] \in Submits
      /\ UNCHANGED <<form, upload, save, rule, used, overlapped>>
  BY SubmitsIn DEF updateReads
<1>2. PICK r \in Rules : r = submit[t].rule
  BY <1>1 DEF Submits
<1>3. /\ Sent(submit[t].body) /\ (submit[t].isEdit => Published(submit[t].rule))
  BY <1>1 DEF IInv, SubmitsHold
<1>4. used' \in Counters /\ used'.by = used.by /\ upload' \in [Tabs -> Uploads] /\ form' = form
  BY <1>1 DEF IInv, TypeOK, Counters
<1>5. CASE Exists(r) /\ ApiOk(submit[t].body)
  <2>1. PICK publishing \in BOOLEAN : publishing <=> rule[r].status = "DRAFT" /\ ~submit[t].isEdit
    OBVIOUS
  <2>2. PICK s : s = [submit[t] EXCEPT !.pc = "read", !.publishing = publishing]
    OBVIOUS
  <2>3. submit' = [submit EXCEPT ![t] = s]
    <3>1. (rule[r].status = "DRAFT" /\ ~submit[t].isEdit) = publishing
      BY <2>1
    <3>. QED BY <1>2, <1>5, <2>2, <3>1 DEF updateReads, Submitting
  <2>4. s \in Submits /\ s.pc = "read" /\ s.body = submit[t].body /\ s.isEdit = submit[t].isEdit
        /\ s.rule = r
    BY <1>1, <1>2, <2>1, <2>2 DEF Submits
  <2>5. rule[r].status # "NONE"
    BY <1>5 DEF Exists, Live
  <2>6. Asked(s)
    BY <1>2, <1>3, <1>5, <2>4, <2>5 DEF Asked
  <2>. QED BY <1>1, <1>4, <2>3, <2>6, SubmitChanges
<1>6. CASE ~(Exists(r) /\ ApiOk(submit[t].body))
  <2>1. PICK s : s = [submit[t] EXCEPT !.pc = "failed"]
    OBVIOUS
  <2>2. submit' = [submit EXCEPT ![t] = s]
    BY <1>2, <1>6, <2>1 DEF updateReads, Submitting
  <2>3. s \in Submits /\ s.pc = "failed"
    BY <1>1, <2>1 DEF Submits
  <2>4. Asked(s)
    BY <2>3 DEF Asked
  <2>. QED BY <1>1, <1>4, <2>2, <2>4, SubmitChanges
<1>. QED BY <1>5, <1>6

LEMMA SubmitAnsweredHolds ==
  ASSUME IInv, NEW t \in Tabs, SubmitAnswered(t)
  PROVE  IInv'
<1>1. submit' = [submit EXCEPT ![t] = NoSubmit] /\ UNCHANGED <<save, rule, overlapped>>
  BY DEF SubmitAnswered, Submitting
<1>2. PICK s : s = NoSubmit
  OBVIOUS
<1>3. Asked(s) /\ submit' = [submit EXCEPT ![t] = s]
  BY <1>1, <1>2, SubmitsIn DEF Asked
<1>4. used' = used \/ used' = [used EXCEPT !.lost = @ + 1]
  BY DEF SubmitAnswered
<1>5. used' \in Counters /\ used'.by = used.by
  BY <1>4 DEF IInv, TypeOK, Counters
<1>6. upload' = upload \/ upload' = [upload EXCEPT ![t] = NoUpload]
  BY DEF SubmitAnswered
<1>7. upload' \in [Tabs -> Uploads]
  BY <1>6, NoUploadIs DEF IInv, TypeOK
<1>8. form' = form \/ form' = [form EXCEPT ![t] = Closed]
  BY DEF SubmitAnswered
<1>. QED BY <1>1, <1>3, <1>5, <1>7, <1>8, SubmitChanges

\* A transaction opens on a rule.
LEMMA updateOpensHolds ==
  ASSUME IInv, NEW t \in Tabs, updateOpens(t)
  PROVE  IInv'
<1>1. /\ submit[t].pc = "read" /\ submit[t] \in Submits
      /\ UNCHANGED <<form, upload, save, rule, used>>
  BY SubmitsIn DEF updateOpens
<1>2. PICK r \in Rules : r = submit[t].rule
  BY <1>1 DEF IInv, SubmitsHold
<1>3. PICK ahead : ahead = {u \in OpenOn(r) :
                              ToSet(submit[u].triggers) \cap ToSet(rule[r].triggers) # {}}
  OBVIOUS
<1>4. PICK found : found = IF ahead = {} THEN {rule[r].steps} ELSE {}
  OBVIOUS
<1>5. PICK s : s = [submit[t] EXCEPT !.pc = "open", !.triggers = rule[r].triggers,
                                     !.waits = ahead, !.found = found]
  OBVIOUS
<1>6. /\ submit' = [submit EXCEPT ![t] = s]
      /\ overlapped' = IF OpenOn(r) = {} THEN overlapped ELSE overlapped \cup {r}
  BY <1>2, <1>3, <1>4, <1>5 DEF updateOpens, Submitting
<1>7. rule[r] \in Rows /\ ahead \subseteq Tabs
  BY <1>3 DEF IInv, TypeOK, OpenOn
<1>8. found \in SUBSET Seq(StepRow) /\ \A F \in found : F = rule[r].steps
  BY <1>4, <1>7 DEF Rows
<1>9. /\ s \in Submits /\ s.pc = "open" /\ s.rule = r /\ s.triggers = rule[r].triggers
      /\ s.found = found /\ s.body = submit[t].body /\ s.isEdit = submit[t].isEdit
  BY <1>1, <1>2, <1>5, <1>7, <1>8 DEF Submits, Rows
<1>10. submit \in [Tabs -> Submits]
  BY DEF IInv, TypeOK
<1>11. submit'[t] = s /\ \A u \in Tabs : u # t => submit'[u] = submit[u]
  BY <1>6, <1>10
<1>12. TypeOK'
  <2>1. submit' \in [Tabs -> Submits]
    BY <1>6, <1>9, <1>10
  <2>2. overlapped' \subseteq Rules
    BY <1>6 DEF IInv, TypeOK
  <2>. QED BY <1>1, <2>1, <2>2 DEF IInv, TypeOK
<1>13. FormsHold' /\ SavesHold' /\ RulesHold'
  BY <1>1 DEF IInv, FormsHold, SavesHold, RulesHold, Published
<1>14. ASSUME NEW u \in Tabs
       PROVE  /\ submit'[u].pc \in {"sent", "read", "open"} =>
                   Sent(submit'[u].body) /\ (submit'[u].isEdit => Published(submit'[u].rule))
              /\ submit'[u].pc \in {"read", "open"} =>
                   /\ ApiOk(submit'[u].body) /\ submit'[u].rule \in Rules
                   /\ rule[submit'[u].rule].status # "NONE"
  <2>1. CASE u = t
    BY <1>1, <1>2, <1>9, <1>11, <2>1 DEF IInv, SubmitsHold
  <2>2. CASE u # t
    BY <1>11, <2>2 DEF IInv, SubmitsHold
  <2>. QED BY <2>1, <2>2
<1>15. SubmitsHold'
  BY <1>1, <1>14 DEF SubmitsHold, Published
<1>16. OneSaveHolds'
  BY <1>1, <1>6 DEF IInv, OneSaveHolds
<1>17. ASSUME NEW u \in Tabs, submit'[u].pc = "open", NEW F \in submit'[u].found
       PROVE  Together(rule[submit'[u].rule].steps, F) /\ Before(F, used.by)
  <2>1. CASE u = t
    <3>1. F = rule[r].steps /\ submit'[u].rule = r
      BY <1>8, <1>9, <1>11, <1>17, <2>1
    <3>2. Before(rule[r].steps, used.by)
      BY DEF IInv, RulesHold
    <3>. QED BY <3>1, <3>2 DEF Together
  <2>2. CASE u # t
    BY <1>11, <1>17, <2>2 DEF IInv, FoundHold
  <2>. QED BY <2>1, <2>2
<1>18. FoundHold'
  BY <1>1, <1>17 DEF FoundHold
<1>19. ASSUME NEW u \in Tabs, submit'[u].pc = "open", submit'[u].rule \notin overlapped'
       PROVE  /\ \A v \in Tabs : submit'[v].pc = "open" /\ submit'[v].rule = submit'[u].rule => v = u
              /\ Exists(submit'[u].rule) =>
                   /\ submit'[u].triggers = rule[submit'[u].rule].triggers
                   /\ \A F \in submit'[u].found : F = rule[submit'[u].rule].steps
  <2>1. CASE u = t
    <3>1. OpenOn(r) = {}
      BY <1>6, <1>9, <1>11, <1>19, <2>1
    <3>2. \A v \in Tabs : ~(submit[v].pc = "open" /\ submit[v].rule = r)
      BY <3>1 DEF OpenOn
    <3>. QED BY <1>8, <1>9, <1>11, <2>1, <3>2
  <2>2. CASE u # t
    <3>1. submit[u].pc = "open" /\ submit[u].rule \notin overlapped
      BY <1>6, <1>11, <1>19, <2>2
    <3>2. submit[u].rule # r
      BY <1>6, <1>11, <1>19, <2>2, <3>1 DEF OpenOn
    <3>. QED BY <1>9, <1>11, <2>2, <3>1, <3>2 DEF IInv, AloneHold
  <2>. QED BY <2>1, <2>2
<1>20. AloneHold'
  <2>1. \A q : Exists(q)' => Exists(q)
    BY <1>1 DEF Exists, Live
  <2>. QED BY <1>1, <1>19, <2>1 DEF AloneHold
<1>. QED BY <1>12, <1>13, <1>15, <1>16, <1>18, <1>20 DEF IInv

\* A body is stored as a new rule.
LEMMA createHolds ==
  ASSUME IInv, NEW t \in Tabs, create(t)
  PROVE  IInv'
<1>1. PICK body : body = submit[t].body
  OBVIOUS
<1>2. /\ submit[t].pc = "sent" /\ submit[t] \in Submits /\ Sent(body)
      /\ UNCHANGED <<form, upload, save, overlapped>>
  <2>1. submit[t].pc = "sent" /\ UNCHANGED <<form, upload, save, overlapped>>
    BY DEF create
  <2>. QED BY <1>1, <2>1, SubmitsIn DEF IInv, SubmitsHold
<1>3. upload' \in [Tabs -> Uploads] /\ form' = form /\ used \in Counters
  BY <1>2 DEF IInv, TypeOK, Counters
<1>4. CASE ~ApiOk(body)
  <2>1. PICK s : s = [submit[t] EXCEPT !.pc = "failed"]
    OBVIOUS
  <2>2. submit' = [submit EXCEPT ![t] = s] /\ UNCHANGED <<rule, used>>
    BY <1>1, <1>4, <2>1 DEF create, Submitting
  <2>3. s \in Submits /\ s.pc = "failed"
    BY <1>2, <2>1 DEF Submits
  <2>4. Asked(s)
    BY <2>3 DEF Asked
  <2>. QED BY <1>2, <1>3, <2>2, <2>4, SubmitChanges
<1>5. CASE ApiOk(body)
  <2>1. PICK r \in Rules :
          rule[r] = NeverMade /\ rule' = [rule EXCEPT ![r] = NewRule(body, used.by, used.id)]
    BY <1>1, <1>5, Zenon DEF create
  <2>2. PICK row : row = NewRule(body, used.by, used.id)
    OBVIOUS
  <2>3. PICK s : s = [submit[t] EXCEPT !.pc = "done"]
    OBVIOUS
  <2>4. used' = Numbered(body) /\ submit' = [submit EXCEPT ![t] = s] /\ rule' = [rule EXCEPT ![r] = row]
    BY <1>1, <1>5, <2>1, <2>2, <2>3 DEF create, Submitting
  <2>5. used' \in Counters /\ used'.by = used.by + 1 /\ used.by \in Nat
    BY <1>2, <1>3, <2>4, NumberedIs DEF Counters
  <2>6. used.by <= used'.by
    BY <2>5
  <2>7. Allowed(r, row) /\ Before(row.steps, used.by + 1)
    BY <1>2, <1>5, <2>2, NewRuleAllowed
  <2>8. /\ rule' \in [Rules -> Rows] /\ \A q \in Rules : IsInjective(Ids(rule'[q].steps))
        /\ RulesHold' /\ OneSaveHolds' /\ StatusKept
    BY <1>2, <2>4, <2>5, <2>6, <2>7, RuleStep
  <2>9. s \in Submits /\ s.pc = "done"
    BY <1>2, <2>3 DEF Submits
  <2>10. submit \in [Tabs -> Submits] /\ submit'[t] = s
         /\ \A u \in Tabs : u # t => submit'[u] = submit[u]
    BY <2>4 DEF IInv, TypeOK
  <2>11. submit' \in [Tabs -> Submits]
    BY <2>4, <2>9, <2>10
  <2>12. TypeOK'
    BY <1>2, <2>5, <2>8, <2>11 DEF IInv, TypeOK, Counters
  <2>13. FormsHold' /\ SavesHold'
    BY <1>2, <2>8 DEF IInv, FormsHold, SavesHold, Published, StatusKept
  <2>14. \A u \in Tabs : submit'[u].pc \in {"sent", "read", "open"} => u # t /\ submit'[u] = submit[u]
    BY <2>9, <2>10
  <2>15. SubmitsHold'
    BY <2>8, <2>14 DEF IInv, SubmitsHold, Published, StatusKept
  <2>16. \A q \in Rules : q # r => rule'[q] = rule[q]
    BY <2>4 DEF IInv, TypeOK
  <2>17. ASSUME NEW u \in Tabs, submit'[u].pc = "open"
         PROVE  /\ submit[u].pc = "open" /\ submit'[u] = submit[u]
                /\ submit[u].rule \in Rules /\ submit[u].rule # r
    <3>1. submit[u].pc = "open" /\ submit'[u] = submit[u]
      BY <2>14, <2>17
    <3>2. submit[u].rule \in Rules /\ rule[submit[u].rule].status # "NONE"
      BY <3>1 DEF IInv, SubmitsHold
    <3>3. rule[r].status = "NONE"
      BY <2>1 DEF NeverMade, Row
    <3>. QED BY <3>1, <3>2, <3>3
  <2>18. ASSUME NEW u \in Tabs, submit'[u].pc = "open", NEW F \in submit'[u].found
         PROVE  Together(rule'[submit'[u].rule].steps, F) /\ Before(F, used'.by)
    <3>1. Together(rule[submit[u].rule].steps, F) /\ Before(F, used.by)
      BY <2>17, <2>18 DEF IInv, FoundHold
    <3>2. F \in Seq(StepRow)
      BY <2>17, <2>18, SubmitsIn DEF Submits
    <3>3. Before(F, used'.by)
      BY <2>5, <2>6, <3>1, <3>2, BeforeMore DEF Counters
    <3>. QED BY <2>16, <2>17, <2>18, <3>1, <3>3
  <2>19. FoundHold'
    BY <2>18 DEF FoundHold
  <2>20. AloneHold'
    BY <1>2, <2>16, <2>17 DEF IInv, AloneHold, Exists, Live
  <2>. QED BY <2>8, <2>12, <2>13, <2>15, <2>19, <2>20 DEF IInv
<1>. QED BY <1>4, <1>5

\* What an ended submission leaves of the others.
LEMMA EndsHold ==
  ASSUME IInv, NEW t \in Tabs, submit[t].pc = "open", NEW pc, pc \in {"done", "failed"}, Ends(t, pc)
  PROVE  /\ submit' \in [Tabs -> Submits] /\ submit'[t].pc = pc
         /\ \A u \in Tabs : u # t =>
              /\ submit'[u].pc = submit[u].pc /\ submit'[u].rule = submit[u].rule
              /\ submit'[u].body = submit[u].body /\ submit'[u].isEdit = submit[u].isEdit
              /\ submit'[u].triggers = submit[u].triggers /\ submit'[u].found = submit[u].found
<1>1. submit' = [u \in Tabs |-> IF u = t THEN [submit[t] EXCEPT !.pc = pc]
                                ELSE [submit[u] EXCEPT !.waits = @ \ {t}]]
  BY DEF Ends
<1>2. ASSUME NEW u \in Tabs
      PROVE  /\ submit'[u] \in Submits /\ (u = t => submit'[u].pc = pc)
             /\ u # t =>
                /\ submit'[u].pc = submit[u].pc /\ submit'[u].rule = submit[u].rule
                /\ submit'[u].body = submit[u].body /\ submit'[u].isEdit = submit[u].isEdit
                /\ submit'[u].triggers = submit[u].triggers /\ submit'[u].found = submit[u].found
  <2>1. submit[u] \in Submits
    BY SubmitsIn
  <2>2. CASE u = t
    <3>1. submit'[u] = [submit[u] EXCEPT !.pc = pc]
      BY <1>1, <2>2
    <3>. QED BY <2>1, <2>2, <3>1 DEF Submits
  <2>3. CASE u # t
    <3>1. PICK waits \in SUBSET Tabs : waits = submit[u].waits \ {t}
      BY <2>1 DEF Submits
    <3>2. submit'[u] = [submit[u] EXCEPT !.waits = waits]
      BY <1>1, <2>1, <2>3, <3>1 DEF Submits
    <3>. QED BY <2>1, <2>3, <3>1, <3>2 DEF Submits
  <2>. QED BY <2>2, <2>3
<1>3. submit' \in [Tabs -> Submits]
  BY <1>1, <1>2
<1>. QED BY <1>2, <1>3

\* The submission's end with the rule left as it is.
LEMMA RolledBack ==
  ASSUME IInv, NEW t \in Tabs, submit[t].pc = "open", Ends(t, "failed"),
         UNCHANGED <<form, upload, save, rule, used, overlapped>>
  PROVE  IInv'
<1>1. /\ submit' \in [Tabs -> Submits] /\ submit'[t].pc = "failed"
      /\ \A u \in Tabs : u # t =>
           /\ submit'[u].pc = submit[u].pc /\ submit'[u].rule = submit[u].rule
           /\ submit'[u].body = submit[u].body /\ submit'[u].isEdit = submit[u].isEdit
           /\ submit'[u].triggers = submit[u].triggers /\ submit'[u].found = submit[u].found
  <2>1. PICK pc : pc = "failed"
    OBVIOUS
  <2>2. Ends(t, pc) /\ pc \in {"done", "failed"}
    BY <2>1
  <2>. QED BY <2>1, <2>2, EndsHold
<1>2. TypeOK'
  BY <1>1 DEF IInv, TypeOK
<1>3. FormsHold' /\ SavesHold' /\ RulesHold' /\ OneSaveHolds'
  BY DEF IInv, FormsHold, SavesHold, RulesHold, OneSaveHolds, Published
<1>4. SubmitsHold'
  BY <1>1 DEF IInv, SubmitsHold, Published
<1>5. FoundHold'
  BY <1>1 DEF IInv, FoundHold
<1>6. AloneHold'
  BY <1>1 DEF IInv, AloneHold, Exists, Live
<1>. QED BY <1>2, <1>3, <1>4, <1>5, <1>6 DEF IInv

\* What a commit finds, and what it makes of the rule.
Commits(t, r, found, row) ==
  /\ submit[t].pc = "open" /\ r = submit[t].rule /\ r \in Rules
  /\ found \in submit[t].found \cup {rule[r].steps} /\ row = Replaced(rule[r], submit[t], found)
  /\ Exists(r) /\ IsInjective(Ids(row.steps))
  /\ rule' = [rule EXCEPT ![r] = row] /\ used' = Numbered(submit[t].body) /\ Ends(t, "done")
  /\ UNCHANGED <<form, upload, save, overlapped>>

LEMMA CommitCases ==
  ASSUME IInv, NEW t \in Tabs, updateCommits(t)
  PROVE  \/ submit[t].pc = "open" /\ Ends(t, "failed")
              /\ UNCHANGED <<form, upload, save, rule, used, overlapped>>
         \/ \E r, found, row : Commits(t, r, found, row)
<1>1. PICK r \in Rules : r = submit[t].rule
  BY DEF updateCommits, IInv, SubmitsHold
<1>2. submit[t].pc = "open" /\ UNCHANGED <<form, upload, save, overlapped>>
  BY DEF updateCommits
<1>3. PICK found \in submit[t].found \cup {rule[r].steps} :
        LET row == Replaced(rule[r], submit[t], found)
        IN  IF Exists(r) /\ IsInjective(Ids(row.steps))
            THEN /\ rule' = [rule EXCEPT ![r] = row]
                 /\ used' = Numbered(submit[t].body)
                 /\ Ends(t, "done")
            ELSE /\ Ends(t, "failed")
                 /\ UNCHANGED <<rule, used>>
  BY <1>1, Zenon DEF updateCommits
<1>4. PICK row : row = Replaced(rule[r], submit[t], found)
  OBVIOUS
<1>5. CASE Exists(r) /\ IsInjective(Ids(row.steps))
  <2>1. rule' = [rule EXCEPT ![r] = row] /\ used' = Numbered(submit[t].body) /\ Ends(t, "done")
    BY <1>3, <1>4, <1>5
  <2>2. Commits(t, r, found, row)
    BY <1>1, <1>2, <1>3, <1>4, <1>5, <2>1 DEF Commits
  <2>. QED BY <2>2
<1>6. CASE ~(Exists(r) /\ IsInjective(Ids(row.steps)))
  BY <1>2, <1>3, <1>4, <1>6
<1>. QED BY <1>5, <1>6

\* The row a commit leaves, and what of it another transaction has found.
LEMMA CommitRow ==
  ASSUME IInv, NEW t \in Tabs, NEW r, NEW found, NEW row, Commits(t, r, found, row)
  PROVE  /\ Allowed(r, row) /\ row.status \in {"ACTIVE", "PAUSED"}
         /\ Before(row.steps, used.by + 1)
         /\ \A F \in Seq(StepRow) : Together(rule[r].steps, F) /\ Before(F, used.by)
              => Together(row.steps, F)
         /\ r \notin overlapped => found = rule[r].steps
         /\ found = rule[r].steps =>
              \A i \in DOMAIN row.steps : i \in DOMAIN found /\ found[i].type = row.steps[i].type
                => row.steps[i].id = found[i].id
<1>1. PICK s : s = submit[t]
  OBVIOUS
<1>2. /\ s.pc = "open" /\ r = s.rule /\ r \in Rules /\ found \in s.found \cup {rule[r].steps}
      /\ row = Replaced(rule[r], s, found) /\ Exists(r) /\ IsInjective(Ids(row.steps))
  BY <1>1 DEF Commits
<1>3. s \in Submits /\ rule[r] \in Rows /\ TypeOK /\ used.by \in Nat
  BY <1>1, <1>2 DEF IInv, TypeOK
<1>4. Sent(s.body) /\ ApiOk(s.body) /\ (s.isEdit => rule[r].status # "DRAFT")
  BY <1>1, <1>2 DEF IInv, SubmitsHold, Published
<1>5. RowHolds(rule[r]) /\ Before(rule[r].steps, used.by) /\ rule[r].steps \in Seq(StepRow)
  BY <1>2, <1>3 DEF IInv, RulesHold, Rows
<1>6. found \in Seq(StepRow) /\ Together(rule[r].steps, found)
  <2>1. CASE found = rule[r].steps
    BY <1>5, <2>1 DEF Together
  <2>2. CASE found \in s.found
    BY <1>1, <1>2, <1>3, <2>2 DEF IInv, FoundHold, Submits
  <2>. QED BY <1>2, <2>1, <2>2
<1>7. r \notin overlapped => found = rule[r].steps /\ s.triggers = rule[r].triggers
  BY <1>1, <1>2 DEF IInv, AloneHold
<1>8. /\ row \in Rows /\ row.status \in {"ACTIVE", "PAUSED"} /\ RowHolds(row)
      /\ Before(row.steps, used.by + 1)
      /\ ToSet(row.steps) \subseteq {n \in ToSet(rule[r].steps) : n \notin ToSet(found)}
                                      \cup {n \in StepRow : n.by = used.by}
      /\ found = rule[r].steps /\ s.triggers = rule[r].triggers => OneSave(row)
      /\ found = rule[r].steps =>
           \A i \in DOMAIN row.steps : i \in DOMAIN found /\ found[i].type = row.steps[i].type
             => row.steps[i].id = found[i].id
  BY <1>1, <1>2, <1>3, <1>4, <1>5, <1>6, ReplacedHolds
<1>9. Allowed(r, row)
  BY <1>2, <1>7, <1>8 DEF Allowed
<1>10. ASSUME NEW F \in Seq(StepRow), Together(rule[r].steps, F), Before(F, used.by)
       PROVE  Together(row.steps, F)
  <2>1. \A n \in ToSet(F) : n.by \in Nat /\ n.by < used.by
    <3>1. ToSet(F) \subseteq StepRow
      BY InSeq
    <3>. QED BY <1>10, <3>1 DEF Before, StepRow
  <2>2. \A n \in ToSet(row.steps) : n \in ToSet(rule[r].steps) \/ n.by = used.by
    BY <1>8
  <2>3. ASSUME NEW n \in ToSet(row.steps), NEW m \in ToSet(row.steps), n.by = m.by, n \in ToSet(F)
        PROVE  m \in ToSet(F)
    <3>1. n.by # used.by
      BY <1>3, <2>1, <2>3
    <3>2. n \in ToSet(rule[r].steps) /\ m \in ToSet(rule[r].steps)
      BY <2>2, <2>3, <3>1
    <3>. QED BY <1>10, <2>3, <3>2 DEF Together
  <2>. QED BY <2>3 DEF Together
<1>. QED BY <1>7, <1>8, <1>9, <1>10

LEMMA updateCommitsHolds ==
  ASSUME IInv, NEW t \in Tabs, updateCommits(t)
  PROVE  IInv'
<1>1. CASE submit[t].pc = "open" /\ Ends(t, "failed")
             /\ UNCHANGED <<form, upload, save, rule, used, overlapped>>
  BY <1>1, RolledBack
<1>2. ASSUME NEW r, NEW found, NEW row, Commits(t, r, found, row) PROVE IInv'
  <2>1. /\ submit[t].pc = "open" /\ r = submit[t].rule /\ r \in Rules
        /\ rule' = [rule EXCEPT ![r] = row] /\ used' = Numbered(submit[t].body) /\ Ends(t, "done")
        /\ UNCHANGED <<form, upload, save, overlapped>> /\ Exists(r)
    BY <1>2 DEF Commits
  <2>2. /\ Allowed(r, row) /\ row.status \in {"ACTIVE", "PAUSED"}
        /\ Before(row.steps, used.by + 1)
        /\ \A F \in Seq(StepRow) : Together(rule[r].steps, F) /\ Before(F, used.by)
             => Together(row.steps, F)
    BY <1>2, CommitRow
  <2>3. PICK body : body = submit[t].body /\ Sent(body)
    BY <2>1 DEF IInv, SubmitsHold
  <2>4. used' \in Counters /\ used'.by = used.by + 1 /\ used.by \in Nat
    <3>1. used.by \in Nat
      BY DEF IInv, TypeOK
    <3>. QED BY <2>1, <2>3, <3>1, NumberedIs
  <2>5. used.by <= used'.by /\ used'.by \in Nat
    BY <2>4
  <2>6. /\ rule' \in [Rules -> Rows] /\ \A q \in Rules : IsInjective(Ids(rule'[q].steps))
        /\ RulesHold' /\ OneSaveHolds' /\ StatusKept
    BY <2>1, <2>2, <2>4, <2>5, RuleStep
  <2>7. /\ submit' \in [Tabs -> Submits] /\ submit'[t].pc = "done"
        /\ \A u \in Tabs : u # t =>
             /\ submit'[u].pc = submit[u].pc /\ submit'[u].rule = submit[u].rule
             /\ submit'[u].body = submit[u].body /\ submit'[u].isEdit = submit[u].isEdit
             /\ submit'[u].triggers = submit[u].triggers /\ submit'[u].found = submit[u].found
    <3>1. PICK pc : pc = "done"
      OBVIOUS
    <3>2. Ends(t, pc) /\ pc \in {"done", "failed"}
      BY <2>1, <3>1
    <3>. QED BY <2>1, <3>1, <3>2, EndsHold
  <2>8. TypeOK'
    BY <2>1, <2>4, <2>6, <2>7 DEF IInv, TypeOK, Counters
  <2>9. FormsHold' /\ SavesHold'
    BY <2>1, <2>6 DEF IInv, FormsHold, SavesHold, Published, StatusKept
  <2>10. SubmitsHold'
    BY <2>6, <2>7 DEF IInv, SubmitsHold, Published, StatusKept
  <2>11. rule'[r] = row /\ \A q \in Rules : q # r => rule'[q] = rule[q]
    BY <2>1 DEF IInv, TypeOK
  <2>12. ASSUME NEW u \in Tabs, submit'[u].pc = "open", NEW F \in submit'[u].found
         PROVE  Together(rule'[submit'[u].rule].steps, F) /\ Before(F, used'.by)
    <3>1. u # t /\ submit[u].pc = "open" /\ F \in submit[u].found
          /\ submit'[u].rule = submit[u].rule
      BY <2>7, <2>12
    <3>2. PICK q \in Rules : q = submit[u].rule
      BY <3>1 DEF IInv, SubmitsHold
    <3>3. Together(rule[q].steps, F) /\ Before(F, used.by)
      BY <3>1, <3>2 DEF IInv, FoundHold
    <3>4. F \in Seq(StepRow)
      BY <3>1, SubmitsIn DEF Submits
    <3>5. Before(F, used'.by)
      BY <2>4, <2>5, <3>3, <3>4, BeforeMore
    <3>6. Together(rule'[q].steps, F)
      BY <2>2, <2>11, <3>3, <3>4
    <3>. QED BY <3>1, <3>2, <3>5, <3>6
  <2>13. FoundHold'
    BY <2>12 DEF FoundHold
  <2>14. ASSUME NEW u \in Tabs, submit'[u].pc = "open", submit'[u].rule \notin overlapped
         PROVE  /\ \A v \in Tabs : submit'[v].pc = "open" /\ submit'[v].rule = submit'[u].rule => v = u
                /\ rule'[submit'[u].rule].status \in {"ACTIVE", "PAUSED", "DRAFT"} =>
                     /\ submit'[u].triggers = rule'[submit'[u].rule].triggers
                     /\ \A F \in submit'[u].found : F = rule'[submit'[u].rule].steps
    <3>1. u # t /\ submit[u].pc = "open" /\ submit'[u].rule = submit[u].rule
          /\ submit'[u].triggers = submit[u].triggers /\ submit'[u].found = submit[u].found
      BY <2>7, <2>14
    <3>2. PICK q \in Rules : q = submit[u].rule
      BY <3>1 DEF IInv, SubmitsHold
    <3>3. q # r
      BY <2>1, <2>14, <3>1, <3>2 DEF IInv, AloneHold
    <3>4. \A v \in Tabs : submit'[v].pc = "open" /\ submit'[v].rule = submit'[u].rule => v = u
      BY <2>7, <2>14, <3>1 DEF IInv, AloneHold
    <3>5. rule'[submit'[u].rule].status \in {"ACTIVE", "PAUSED", "DRAFT"} => Exists(q)
      BY <2>11, <3>1, <3>2, <3>3 DEF Exists, Live
    <3>6. Exists(q) => /\ submit[u].triggers = rule[q].triggers
                       /\ \A F \in submit[u].found : F = rule[q].steps
      BY <2>14, <3>1, <3>2 DEF IInv, AloneHold
    <3>. QED BY <2>11, <3>1, <3>2, <3>3, <3>4, <3>5, <3>6
  <2>15. AloneHold'
    BY <2>1, <2>14 DEF AloneHold, Exists, Live
  <2>. QED BY <2>6, <2>8, <2>9, <2>10, <2>13, <2>15 DEF IInv
<1>. QED BY <1>1, <1>2, CommitCases

-----------------------------------------------------------------------------
(* The invariant.                                                          *)

LEMMA InitHolds == Init => IInv
<1>1. SUFFICES ASSUME Init PROVE IInv
  OBVIOUS
<1>2. Closed \in Forms /\ Whole(Closed) /\ ~Closed.open
  BY ClosedIs
<1>3. /\ form = [t \in Tabs |-> Closed] /\ upload = [t \in Tabs |-> NoUpload]
      /\ save = [t \in Tabs |-> NoSave] /\ submit = [t \in Tabs |-> NoSubmit]
      /\ overlapped = {}
      /\ used = [id |-> 10, by |-> 1, edits |-> 0, files |-> 0, saves |-> 0, lost |-> 0]
  BY <1>1 DEF Init
<1>4. NoSave \in Saves /\ NoSave.pc = "idle" /\ NoSubmit \in Submits /\ NoSubmit.pc = "idle"
  BY DEF NoSave, Saves, NoSubmit, Submits, NoContent
<1>5. used \in Counters /\ used.by = 1
  BY <1>3 DEF Counters
<1>16. PICK body \in SavedBodies :
          rule = [r \in Rules |->
                    IF r \in Seeded THEN NewRule(body, 0, 0)
                    ELSE IF r \in Drafted
                    THEN [NeverMade EXCEPT !.status = "DRAFT", !.draft = TemplateContent(1)]
                    ELSE NeverMade]
  BY <1>1, Zenon DEF Init
<1>6. PICK live : live = NewRule(body, 0, 0)
  OBVIOUS
<1>7. PICK draft : draft = [NeverMade EXCEPT !.status = "DRAFT", !.draft = TemplateContent(1)]
  OBVIOUS
<1>8. /\ live \in Rows /\ RowHolds(live) /\ OneSave(live)
      /\ Before(live.steps, 1) /\ IsInjective(Ids(live.steps))
  <2>2. Keepable(body) /\ ApiOk(body) /\ live = NewRule(body, 0, 0)
    BY <1>6, SavedKept
  <2>3. PICK zero \in Nat : zero = 0
    OBVIOUS
  <2>4. /\ live \in Rows /\ RowHolds(live) /\ OneSave(live)
        /\ Before(live.steps, zero + 1) /\ IsInjective(Ids(live.steps))
    <3>1. live = NewRule(body, zero, zero)
      BY <2>2, <2>3
    <3>. QED BY <2>2, <3>1, NewRuleHolds
  <2>5. zero + 1 = 1
    BY <2>3
  <2>. QED BY <2>4, <2>5
<1>9. ASSUME NEW row \in {draft, NeverMade}
      PROVE  /\ row \in Rows /\ RowHolds(row) /\ OneSave(row)
             /\ Before(row.steps, 1) /\ IsInjective(Ids(row.steps))
  <2>1. PICK c : c = TemplateContent(1)
    OBVIOUS
  <2>2. c \in Contents /\ Whole(c)
    BY <2>1, TemplateWhole
  <2>3. NeverMade \in Rows /\ NeverMade.status = "NONE" /\ NeverMade.triggers = <<>>
        /\ NeverMade.steps = <<>>
    BY DEF NeverMade, Row, Rows, Scopes, ScopesStored
  <2>4. c \in Contents \cup {NoContent} /\ draft = [NeverMade EXCEPT !.status = "DRAFT", !.draft = c]
    BY <1>7, <2>1, <2>2
  <2>5. draft \in Rows /\ draft.status = "DRAFT" /\ draft.triggers = <<>> /\ draft.steps = <<>>
        /\ draft.draft = c
    BY <2>3, <2>4 DEF Rows
  <2>6. RowHolds(row)
    BY <2>2, <2>3, <2>5 DEF RowHolds
  <2>7. OneSave(row) /\ Before(row.steps, 1) /\ IsInjective(Ids(row.steps))
    BY <2>3, <2>5 DEF OneSave, Before, IsInjective, Ids, ToSet
  <2>. QED BY <2>3, <2>5, <2>6, <2>7
<1>10. rule = [r \in Rules |-> IF r \in Seeded THEN live ELSE IF r \in Drafted THEN draft ELSE NeverMade]
  BY <1>6, <1>7, <1>16, Zenon
<1>11. ASSUME NEW r \in Rules
       PROVE  /\ rule[r] \in Rows /\ RowHolds(rule[r]) /\ OneSave(rule[r])
              /\ Before(rule[r].steps, 1) /\ IsInjective(Ids(rule[r].steps))
  <2>1. rule[r] = live \/ rule[r] \in {draft, NeverMade}
    BY <1>10
  <2>. QED BY <1>8, <1>9, <2>1
<1>12. TypeOK
  <2>1. form \in [Tabs -> Forms] /\ upload \in [Tabs -> Uploads]
    BY <1>2, <1>3, NoUploadIs
  <2>2. save \in [Tabs -> Saves] /\ submit \in [Tabs -> Submits]
    BY <1>3, <1>4
  <2>3. rule \in [Rules -> Rows]
    BY <1>10, <1>11
  <2>4. \A t \in Tabs : IsInjective(Keys(form[t].steps))
    BY <1>2, <1>3, KeysDiffer DEF Whole, Tree
  <2>. QED BY <1>3, <1>5, <1>11, <2>1, <2>2, <2>3, <2>4 DEF TypeOK, Counters
<1>13. FormsHold /\ SavesHold /\ SubmitsHold
  BY <1>2, <1>3, <1>4 DEF FormsHold, SavesHold, SubmitsHold
<1>14. RulesHold /\ OneSaveHolds
  BY <1>5, <1>11 DEF RulesHold, OneSaveHolds
<1>15. FoundHold /\ AloneHold
  BY <1>3, <1>4 DEF FoundHold, AloneHold
<1>. QED BY <1>12, <1>13, <1>14, <1>15 DEF IInv

LEMMA StutterHolds ==
  ASSUME IInv, UNCHANGED vars
  PROVE  IInv'
<1>1. UNCHANGED <<form, upload, save, submit, rule, used, overlapped>>
  BY DEF vars
<1>2. upload' \in [Tabs -> Uploads] /\ used' \in Counters /\ used'.by = used.by
  BY <1>1 DEF IInv, TypeOK, Counters
<1>. QED BY <1>1, <1>2, FormsStay

LEMMA NextHolds == IInv /\ [Next]_vars => IInv'
<1>1. SUFFICES ASSUME IInv, [Next]_vars PROVE IInv'
  OBVIOUS
<1>2. CASE UNCHANGED vars
  BY <1>1, <1>2, StutterHolds
<1>3. ASSUME NEW t \in Tabs,
             \/ OpenNew(t) \/ Leave(t)
             \/ \E r \in Rules : OpenRule(t, r)
             \/ EditScope(t) \/ EditTrigger(t) \/ EditSteps(t) \/ EditStep(t) \/ UseTemplate(t)
             \/ PickFile(t) \/ UploadDone(t)
      PROVE  IInv'
  BY <1>1, <1>3, OpenNewHolds, LeaveHolds, OpenRuleHolds, EditHolds, PickFileHolds, UploadHolds
<1>4. ASSUME NEW t \in Tabs,
             \/ saveDraft(t) \/ createDraft(t) \/ updateDraftReads(t) \/ updateDraftWrites(t)
             \/ DraftAnswered(t)
      PROVE  IInv'
  BY <1>1, <1>4, saveDraftHolds, createDraftHolds, updateDraftReadsHolds,
     updateDraftWritesHolds, DraftAnsweredHolds
<1>5. ASSUME NEW t \in Tabs,
             \/ submitAutomation(t) \/ create(t) \/ updateReads(t) \/ updateOpens(t)
             \/ updateCommits(t) \/ SubmitAnswered(t)
      PROVE  IInv'
  BY <1>1, <1>5, submitAutomationHolds, createHolds, updateReadsHolds, updateOpensHolds,
     updateCommitsHolds, SubmitAnsweredHolds
<1>6. ASSUME NEW r \in Rules, handleToggle(r) \/ handleDelete(r) PROVE IInv'
  BY <1>1, <1>6, ToggleHolds, DeleteHolds
<1>7. CASE install
  BY <1>1, <1>7, installHolds
<1>8. CASE Done
  BY <1>2, <1>8 DEF Done
<1>. QED BY <1>1, <1>2, <1>3, <1>4, <1>5, <1>6, <1>7, <1>8, Zenon DEF Next

\* The invariant of the builder: types, whole forms and drafts, checked
\* bodies on their way, whole rules and what open transactions have found.
THEOREM BuilderInvariant == Spec => []IInv
BY InitHolds, NextHolds, PTL DEF Spec

-----------------------------------------------------------------------------
(* What it gives.                                                          *)

\* Types, no two rows of a rule with one id, no two steps of a form with one
\* key, whatever tabs edit, upload, save and publish at once.
THEOREM BuilderTypes == Spec => []TypeOK
<1>1. IInv => TypeOK
  BY DEF IInv
<1>. QED BY <1>1, BuilderInvariant, PTL

\* What a form sends that passes its own checks is accepted by the API's
\* (validateActionSteps and validateActionTree), or it has what the API alone
\* checks, a pattern that does not parse, a delay or an address in a reply:
\* every edit and every late upload keeps the tree one in which both look at
\* the same steps.
THEOREM BuilderMirrors == Spec => []FormMirrorsApi
<1>1. ASSUME IInv PROVE FormMirrorsApi
  <2>1. ASSUME NEW t \in Tabs, form[t].open, FormOk(form[t])
        PROVE  ApiOk(Body(form[t])) \/ LeftToTheApi(Body(form[t]))
    <3>1. form[t] \in Forms /\ Whole(form[t])
      BY <1>1 DEF IInv, TypeOK, FormsHold
    <3>2. form[t].scope \in Scopes /\ form[t].picked \in BOOLEAN /\ form[t].triggers \in Seq(Trigger)
      BY <3>1 DEF Forms
    <3>3. PICK body : body = Body(form[t])
      OBVIOUS
    <3>. QED BY <2>1, <3>1, <3>2, <3>3, BodySent
  <2>. QED BY <2>1 DEF FormMirrorsApi
<1>. QED BY <1>1, BuilderInvariant, PTL

\* What matches a comment is whole: a live automation has the triggers and the
\* steps of one save unless two updates of it were open at once, and a draft
\* has none (AutomationsService.create, update and createDraft).
THEOREM BuilderRulesWhole == Spec => []RulesAreWhole
<1>1. ASSUME IInv PROVE RulesAreWhole
  <2>1. ASSUME NEW r \in Rules
        PROVE  /\ Live(r) =>
                    /\ rule[r].triggers # <<>> /\ rule[r].steps # <<>>
                    /\ r \notin overlapped =>
                         /\ \A x, y \in ToSet(rule[r].triggers) \cup ToSet(rule[r].steps) : x.by = y.by
                         /\ IsInjective(Keys(rule[r].steps))
               /\ rule[r].status = "DRAFT" => rule[r].triggers = <<>> /\ rule[r].steps = <<>>
    <3>1. RowHolds(rule[r]) /\ (r \notin overlapped => OneSave(rule[r]))
      BY <1>1 DEF IInv, RulesHold, OneSaveHolds
    <3>2. r \notin overlapped => IsInjective(Keys(rule[r].steps))
      BY <3>1, KeysDiffer DEF OneSave
    <3>3. Live(r) => rule[r].triggers # <<>> /\ rule[r].steps # <<>>
      BY <3>1 DEF RowHolds, Stored, Live
    <3>. QED BY <3>1, <3>2, <3>3 DEF RowHolds, OneSave
  <2>. QED BY <2>1 DEF RulesAreWhole
<1>. QED BY <1>1, BuilderInvariant, PTL

\* What is kept of a live rule that is opened as f and saved as it stands.
KeptBy(f, sent, kept) ==
  /\ (\A n \in ToSet(kept.steps) : n.test # "commaPattern") => FormOk(f)
  /\ Len(sent.steps) = Len(kept.steps)
  /\ \A i \in DOMAIN kept.steps, fd \in Fields :
       sent.steps[i][fd] = kept.steps[i][fd] \/ LostOpening(kept.steps[i], fd)
  /\ Len(sent.triggers) = Len(kept.triggers)
  /\ \A i \in DOMAIN kept.triggers :
       LET trigger == kept.triggers[i].trigger
       IN  sent.triggers[i] = trigger
             \/ (trigger.test \in Respelled /\ sent.triggers[i].source = trigger.source)
  /\ kept.scope # "SPECIFIC_STORIES" => sent.scope = kept.scope /\ sent.picked = kept.picked

\* Opening a live automation and saving it as it stands keeps its scope, its
\* triggers and every field of every step, also after two updates that
\* overlapped, but for the four things the form cannot hold: serializing what
\* was deserialized gives the rest of the stored steps back
\* (deserializeActionSteps, serializeActionSteps).
THEOREM BuilderReopens == Spec => []ReopensAsSaved
<1>1. ASSUME IInv PROVE ReopensAsSaved
  <2>1. ASSUME NEW r \in Rules, Live(r), NEW f, f = Opened(r), NEW body, body = Body(f),
               NEW kept, kept = rule[r]
        PROVE  KeptBy(f, body, kept)
    <3>1. kept \in Rows /\ Stored(kept)
      BY <1>1, <2>1 DEF IInv, TypeOK, RulesHold, RowHolds, Live
    <3>2. kept.status # "DRAFT"
      BY <2>1 DEF Live
    <3>3. /\ f.scope = normalizeScopeType(kept.scope) /\ f.picked = kept.picked
          /\ f.triggers = automationToTriggerRows(kept.triggers)
          /\ f.steps = deserializeActionSteps(kept.steps)
      BY <2>1, <3>2 DEF Opened, Form
    <3>4. /\ (\A n \in ToSet(kept.steps) : n.test # "commaPattern") => FormOk(f)
          /\ AllNormal(f.steps)
      BY <3>1, <3>3, StoredOpens
    <3>5. serializeActionSteps(f.steps) = f.steps
      BY <3>4, SoundSent
    <3>6. body.steps = f.steps /\ body.triggers = f.triggers /\ body.scope = f.scope
      BY <2>1, <3>5 DEF Body
    <3>7. kept.steps \in Seq(StepRow) /\ Grouped(kept.steps)
          /\ \A n \in ToSet(kept.steps) : Faithful(n)
      BY <3>1 DEF Rows, Stored
    <3>8. /\ Len(f.steps) = Len(kept.steps)
          /\ \A i \in DOMAIN kept.steps :
               f.steps[i] = OpenedStep(kept.steps[i]) /\ Faithful(kept.steps[i])
      BY <3>3, <3>7, OpenedSteps
    <3>9. ASSUME NEW i \in DOMAIN kept.steps, NEW fd \in Fields
          PROVE  f.steps[i][fd] = kept.steps[i][fd] \/ LostOpening(kept.steps[i], fd)
      <4>1. PICK n : n = kept.steps[i]
        OBVIOUS
      <4>2. PICK m : m = f.steps[i]
        OBVIOUS
      <4>3. m = OpenedStep(n) /\ Faithful(n)
        BY <3>8, <4>1, <4>2
      <4>4. /\ m["key"] = n["key"] /\ m["type"] = n["type"]
            /\ m["text"] = n["text"] /\ m["media"] = n["media"]
            /\ m["buttons"] = n["buttons"] /\ m["path"] = n["path"]
        BY <4>3 DEF Faithful
      <4>5. /\ m["test"] = n["test"] \/ n.test \in Respelled
            /\ m["delay"] = n["delay"] \/ n.type = "CONDITION"
        BY <4>3 DEF Faithful
      <4>6. m[fd] = n[fd] \/ LostOpening(n, fd)
        BY <4>4, <4>5 DEF Fields, LostOpening
      <4>. QED BY <4>1, <4>2, <4>6
    <3>10. ASSUME kept.scope # "SPECIFIC_STORIES"
           PROVE  body.scope = kept.scope /\ body.picked = kept.picked
      <4>1. kept.picked \in BOOLEAN /\ (kept.picked <=> kept.scope = "SPECIFIC_POSTS")
        BY <3>1, <3>10 DEF Rows, Stored
      <4>4. f.scope = kept.scope
        BY <3>3, <3>10 DEF normalizeScopeType
      <4>2. body.picked = (f.scope = "SPECIFIC_POSTS" /\ f.picked)
        BY <2>1 DEF Body
      <4>3. (f.scope = "SPECIFIC_POSTS" /\ f.picked) = kept.picked
        BY <3>3, <4>1, <4>4
      <4>. QED BY <3>6, <4>2, <4>3, <4>4
    <3>11. /\ Len(f.triggers) = Len(kept.triggers)
           /\ \A i \in DOMAIN kept.triggers : TriggerOpens(kept.triggers[i].trigger, f.triggers[i])
      <4>1. kept.triggers \in Seq(TriggerRow)
        BY <3>1 DEF Rows
      <4>. QED BY <3>3, <4>1, OpenedTriggers
    <3>12. ASSUME NEW i \in DOMAIN kept.triggers, NEW trigger, trigger = kept.triggers[i].trigger,
                  NEW tr, tr = f.triggers[i]
           PROVE  tr = trigger \/ (trigger.test \in Respelled /\ tr.source = trigger.source)
      <4>1. trigger \in TriggerStored
        <5>1. kept.triggers \in Seq(TriggerRow)
          BY <3>1 DEF Rows
        <5>2. kept.triggers[i] \in TriggerRow
          BY <5>1, InSeq
        <5>. QED BY <3>12, <5>2 DEF TriggerRow
      <4>2. tr = [source |-> trigger.source, test |-> TestOpened(trigger.test)]
        BY <3>11, <3>12 DEF TriggerOpens
      <4>3. trigger.test \in Respelled \/ TestOpened(trigger.test) = trigger.test
        BY DEF TestOpened, Respelled
      <4>4. trigger = [source |-> trigger.source, test |-> trigger.test]
        BY <4>1 DEF TriggerStored
      <4>. QED BY <4>2, <4>3, <4>4
    <3>13. \A i \in DOMAIN kept.triggers :
             LET trigger == kept.triggers[i].trigger
             IN  body.triggers[i] = trigger
                   \/ (trigger.test \in Respelled /\ body.triggers[i].source = trigger.source)
      BY <3>6, <3>12
    <3>. QED BY <3>4, <3>6, <3>8, <3>9, <3>10, <3>11, <3>13 DEF KeptBy
  <2>2. \A r \in Rules : Live(r) => KeptBy(Opened(r), Body(Opened(r)), rule[r])
    BY <2>1, Zenon
  <2>. QED BY <2>2, Zenon DEF ReopensAsSaved, KeptBy
<1>. QED BY <1>1, BuilderInvariant, PTL

\* Who changes a rule's steps.
LEMMA StepsStay ==
  ASSUME IInv, [Next]_vars, NEW r \in Rules, Live(r)
  PROVE  \/ rule'[r].steps = rule[r].steps
         \/ rule'[r].status \notin {"ACTIVE", "PAUSED"}
         \/ \E t \in Tabs : \E found, row : Commits(t, r, found, row)
<1>1. rule \in [Rules -> Rows] /\ rule[r].status # "NONE"
  BY DEF IInv, TypeOK, Live
<1>2. rule[r] # NeverMade
  BY <1>1 DEF NeverMade, Row
<1>3. CASE rule' = rule
  BY <1>3
<1>4. ASSUME NEW t \in Tabs,
             \/ OpenNew(t) \/ Leave(t)
             \/ \E q \in Rules : OpenRule(t, q)
             \/ EditScope(t) \/ EditTrigger(t) \/ EditSteps(t) \/ EditStep(t) \/ UseTemplate(t)
             \/ PickFile(t) \/ UploadDone(t)
      PROVE  rule' = rule
  <2>1. CASE \/ EditScope(t) \/ EditTrigger(t) \/ EditSteps(t) \/ EditStep(t) \/ UseTemplate(t)
    <3>1. TypeOK /\ Whole(form[t])
      BY DEF IInv, FormsHold
    <3>2. PICK f : Edit(t, f)
      BY <2>1, <3>1, EditsKeep
    <3>. QED BY <3>2 DEF Edit
  <2>2. CASE OpenNew(t) \/ \E q \in Rules : OpenRule(t, q)
    BY <2>2 DEF OpenNew, OpenRule, Opens
  <2>3. CASE Leave(t) \/ PickFile(t) \/ UploadDone(t)
    BY <2>3 DEF Leave, PickFile, UploadDone
  <2>. QED BY <1>4, <2>1, <2>2, <2>3
<1>5. ASSUME NEW t \in Tabs,
             \/ saveDraft(t) \/ updateDraftReads(t) \/ DraftAnswered(t)
             \/ submitAutomation(t) \/ updateReads(t) \/ updateOpens(t) \/ SubmitAnswered(t)
      PROVE  rule' = rule
  BY <1>5 DEF saveDraft, updateDraftReads, DraftAnswered, submitAutomation, updateReads,
     updateOpens, SubmitAnswered
<1>6. ASSUME NEW t \in Tabs, createDraft(t) \/ create(t) \/ install
      PROVE  rule'[r] = rule[r]
  <2>1. rule' = rule \/ \E q \in Rules : \E row : rule[q] = NeverMade /\ rule' = [rule EXCEPT ![q] = row]
    BY <1>6, Zenon DEF createDraft, create, install
  <2>. QED BY <1>1, <1>2, <2>1
<1>7. ASSUME NEW t \in Tabs, updateDraftWrites(t)
      PROVE  rule'[r].steps = rule[r].steps
  <2>1. PICK q \in Rules : q = save[t].rule
    BY <1>7 DEF updateDraftWrites, IInv, SavesHold
  <2>2. rule' = rule \/ rule' = [rule EXCEPT ![q].draft = save[t].data]
    BY <1>7, <2>1 DEF updateDraftWrites
  <2>3. CASE rule' = rule
    BY <2>3
  <2>4. CASE rule' = [rule EXCEPT ![q].draft = save[t].data]
    <3>1. PICK row : row = [rule[q] EXCEPT !.draft = save[t].data]
      OBVIOUS
    <3>2. rule' = [rule EXCEPT ![q] = row]
      BY <2>4, <3>1
    <3>3. row.steps = rule[q].steps
      BY <1>1, <3>1 DEF Rows
    <3>4. CASE q = r
      BY <1>1, <3>2, <3>3, <3>4
    <3>5. CASE q # r
      BY <1>1, <3>2, <3>5
    <3>. QED BY <3>4, <3>5
  <2>. QED BY <2>2, <2>3, <2>4
<1>8. ASSUME NEW t \in Tabs, updateCommits(t)
      PROVE  rule'[r] = rule[r] \/ \E found, row : Commits(t, r, found, row)
  <2>1. CASE rule' = rule
    BY <2>1
  <2>2. ASSUME NEW q, NEW found, NEW row, Commits(t, q, found, row)
        PROVE  rule'[r] = rule[r] \/ \E F, w : Commits(t, r, F, w)
    <3>1. CASE q = r
      BY <2>2, <3>1
    <3>2. CASE q # r
      <4>1. rule' = [rule EXCEPT ![q] = row]
        BY <2>2 DEF Commits
      <4>. QED BY <1>1, <3>2, <4>1
    <3>. QED BY <3>1, <3>2
  <2>. QED BY <1>8, <2>1, <2>2, CommitCases
<1>9. ASSUME NEW q \in Rules, handleToggle(q)
      PROVE  rule'[r].steps = rule[r].steps
  <2>1. PICK status : rule' = [rule EXCEPT ![q] = [rule[q] EXCEPT !.status = status]]
    BY <1>9 DEF handleToggle, ListEdit
  <2>. QED BY <1>1, <2>1 DEF Rows
<1>10. ASSUME NEW q \in Rules, handleDelete(q)
       PROVE  rule'[r] = rule[r] \/ rule'[r].status = "DELETED"
  <2>1. rule' = [rule EXCEPT ![q] = Deleted]
    BY <1>10 DEF handleDelete, ListEdit
  <2>2. Deleted.status = "DELETED"
    BY DEF Deleted, NeverMade, Row
  <2>. QED BY <1>1, <2>1, <2>2
<1>11. ASSUME install PROVE rule'[r] = rule[r]
  <2>1. \E q \in Rules : \E row : rule[q] = NeverMade /\ rule' = [rule EXCEPT ![q] = row]
    BY <1>11, Zenon DEF install
  <2>. QED BY <1>1, <1>2, <2>1
<1>12. CASE UNCHANGED vars
  BY <1>12 DEF vars
<1>13. CASE Done
  BY <1>13 DEF Done, vars
<1>14. ASSUME NEW t \in Tabs,
              \/ saveDraft(t) \/ createDraft(t) \/ updateDraftReads(t) \/ updateDraftWrites(t)
              \/ DraftAnswered(t)
              \/ submitAutomation(t) \/ create(t) \/ updateReads(t) \/ updateOpens(t)
              \/ updateCommits(t) \/ SubmitAnswered(t)
       PROVE  \/ rule'[r].steps = rule[r].steps
              \/ \E u \in Tabs : \E found, row : Commits(u, r, found, row)
  <2>1. CASE createDraft(t) \/ create(t)
    BY <1>6, <2>1
  <2>2. CASE updateDraftWrites(t)
    BY <1>7, <2>2
  <2>3. CASE updateCommits(t)
    BY <1>8, <2>3
  <2>. QED BY <1>5, <1>14, <2>1, <2>2, <2>3
<1>. QED BY <1>4, <1>9, <1>10, <1>11, <1>12, <1>13, <1>14, Zenon DEF Next

\* A button already sent still leads to its step: while no two updates of an
\* automation are open at once, an update that keeps the steps there are in
\* their places keeps their ids (collectActionIdPool and createActionTree).
THEOREM BuilderKeepsButtons == Spec => KeepsSentButtons
<1>1. ASSUME IInv, [Next]_vars, NEW r \in Rules, Live(r),
             rule'[r].status \in {"ACTIVE", "PAUSED"}, r \notin overlapped',
             Len(rule[r].steps) <= Len(rule'[r].steps),
             \A i \in DOMAIN rule[r].steps :
               /\ rule[r].steps[i].key = rule'[r].steps[i].key
               /\ rule[r].steps[i].type = rule'[r].steps[i].type
      PROVE  \A i \in DOMAIN rule[r].steps : rule[r].steps[i].id = rule'[r].steps[i].id
  <2>1. CASE rule'[r].steps = rule[r].steps
    BY <2>1
  <2>2. ASSUME NEW t \in Tabs, NEW found, NEW row, Commits(t, r, found, row)
        PROVE  \A i \in DOMAIN rule[r].steps : rule[r].steps[i].id = rule'[r].steps[i].id
    <3>1. rule'[r] = row /\ overlapped' = overlapped
      BY <1>1, <2>2 DEF Commits, IInv, TypeOK
    <3>2. /\ found = rule[r].steps /\ row \in Rows
          /\ \A i \in DOMAIN row.steps : i \in DOMAIN found /\ found[i].type = row.steps[i].type
               => row.steps[i].id = found[i].id
      BY <1>1, <2>2, <3>1, CommitRow DEF Allowed
    <3>3. rule[r].steps \in Seq(StepRow) /\ row.steps \in Seq(StepRow)
      BY <1>1, <3>2 DEF IInv, TypeOK, Rows
    <3>4. DOMAIN rule[r].steps \subseteq DOMAIN row.steps
      <4>1. /\ DOMAIN rule[r].steps = 1..Len(rule[r].steps) /\ Len(rule[r].steps) \in Nat
            /\ DOMAIN row.steps = 1..Len(row.steps) /\ Len(row.steps) \in Nat
        BY <3>3, InSeq
      <4>2. Len(rule[r].steps) <= Len(row.steps)
        BY <1>1, <3>1
      <4>. QED BY <4>1, <4>2
    <3>. QED BY <1>1, <3>1, <3>2, <3>4
  <2>. QED BY <1>1, <2>1, <2>2, StepsStay
<1>2. ASSUME IInv, [Next]_vars
      PROVE  [\A r \in Rules :
                LET old == rule[r].steps
                    new == rule'[r].steps
                IN  /\ Live(r) /\ Live(r)' /\ r \notin overlapped'
                    /\ Len(old) <= Len(new)
                    /\ \A i \in DOMAIN old : old[i].key = new[i].key /\ old[i].type = new[i].type
                    => \A i \in DOMAIN old : old[i].id = new[i].id]_vars
  <2>1. \A r \in Rules : Live(r)' => rule'[r].status \in {"ACTIVE", "PAUSED"}
    BY DEF Live
  <2>. QED BY <1>1, <1>2, <2>1
<1>. QED BY <1>2, BuilderInvariant, PTL DEF Spec, KeepsSentButtons

\* What a step does to the form of a tab that stays open.
LEMMA FormStays ==
  ASSUME IInv, [Next]_vars, NEW t \in Tabs, form[t].open, form'[t].open
  PROVE  \/ form'[t].steps = form[t].steps
         \/ Mixed(form'[t]) => Mixed(form[t])
         \/ upload[t] # NoUpload /\ upload'[t] = NoUpload
<1>1. form \in [Tabs -> Forms] /\ upload \in [Tabs -> Uploads] /\ ~Closed.open
  BY ClosedIs DEF IInv, TypeOK
<1>2. ASSUME form' = form PROVE form'[t].steps = form[t].steps
  BY <1>2
<1>3. ASSUME NEW u \in Tabs, OpenNew(u) \/ \E r \in Rules : OpenRule(u, r)
      PROVE  form'[t].steps = form[t].steps
  <2>1. ~form[u].open /\ \E f : form' = [form EXCEPT ![u] = f]
    BY <1>3 DEF OpenNew, OpenRule, Opens
  <2>. QED BY <1>1, <2>1
<1>4. ASSUME NEW u \in Tabs, Leave(u) \/ SubmitAnswered(u)
      PROVE  form'[t].steps = form[t].steps
  <2>1. form' = form \/ form' = [form EXCEPT ![u] = Closed]
    BY <1>4 DEF Leave, SubmitAnswered
  <2>. QED BY <1>1, <2>1
<1>5. ASSUME NEW u \in Tabs,
             EditScope(u) \/ EditTrigger(u) \/ EditSteps(u) \/ EditStep(u) \/ UseTemplate(u)
      PROVE  form'[t].steps = form[t].steps \/ (Mixed(form'[t]) => Mixed(form[t]))
  <2>1. TypeOK /\ Whole(form[u])
    BY DEF IInv, FormsHold
  <2>2. PICK f : Edited(u, f) /\ Edit(u, f)
    BY <1>5, <2>1, EditsKeep
  <2>3. form' = [form EXCEPT ![u] = f] /\ (Mixed(f) => Mixed(form[u]))
    BY <2>2 DEF Edited, Edit
  <2>4. CASE u = t
    BY <1>1, <2>3, <2>4
  <2>5. CASE u # t
    BY <1>1, <2>3, <2>5
  <2>. QED BY <2>4, <2>5
<1>6. ASSUME NEW u \in Tabs, UploadDone(u)
      PROVE  form'[t].steps = form[t].steps \/ (upload[t] # NoUpload /\ upload'[t] = NoUpload)
  <2>1. upload[u] # NoUpload /\ upload' = [upload EXCEPT ![u] = NoUpload]
    BY <1>6 DEF UploadDone
  <2>2. CASE u = t
    BY <1>1, <2>1, <2>2
  <2>3. CASE u # t
    <3>1. form' = form \/ \E steps : form' = [form EXCEPT ![u].steps = steps]
      BY <1>6, UploadKeeps DEF IInv, FormsHold
    <3>2. CASE form' = form
      BY <3>2
    <3>3. CASE form' # form
      <4>1. PICK steps : form' = [form EXCEPT ![u].steps = steps]
        BY <3>1, <3>3
      <4>2. PICK f : f = [form[u] EXCEPT !.steps = steps]
        OBVIOUS
      <4>3. form' = [form EXCEPT ![u] = f]
        BY <4>1, <4>2
      <4>. QED BY <1>1, <2>3, <4>3
    <3>. QED BY <3>2, <3>3
  <2>. QED BY <2>2, <2>3
<1>7. ASSUME NEW u \in Tabs, DraftAnswered(u)
      PROVE  form'[t].steps = form[t].steps
  <2>1. form' = form \/ form' = [form EXCEPT ![u].rule = save[u].rule]
    BY <1>7 DEF DraftAnswered
  <2>2. CASE form' = form
    BY <2>2
  <2>3. CASE form' = [form EXCEPT ![u].rule = save[u].rule]
    <3>1. PICK f : f = [form[u] EXCEPT !.rule = save[u].rule]
      OBVIOUS
    <3>2. form' = [form EXCEPT ![u] = f]
      BY <2>3, <3>1
    <3>3. f.steps = form[u].steps
      BY <1>1, <3>1 DEF Forms
    <3>4. CASE u = t
      BY <1>1, <3>2, <3>3, <3>4
    <3>5. CASE u # t
      BY <1>1, <3>2, <3>5
    <3>. QED BY <3>4, <3>5
  <2>. QED BY <2>1, <2>2, <2>3
<1>8. ASSUME NEW u \in Tabs,
             \/ PickFile(u) \/ saveDraft(u) \/ createDraft(u) \/ updateDraftReads(u)
             \/ updateDraftWrites(u) \/ submitAutomation(u) \/ create(u) \/ updateReads(u)
             \/ updateOpens(u) \/ updateCommits(u)
      PROVE  form' = form
  BY <1>8 DEF PickFile, saveDraft, createDraft, updateDraftReads, updateDraftWrites,
     submitAutomation, create, updateReads, updateOpens, updateCommits
<1>9. ASSUME NEW r \in Rules, handleToggle(r) \/ handleDelete(r)
      PROVE  form' = form
  BY <1>9 DEF handleToggle, handleDelete, ListEdit
<1>10. ASSUME install \/ Done \/ UNCHANGED vars
       PROVE  form' = form
  BY <1>10 DEF install, Done, vars
<1>. QED BY <1>2, <1>3, <1>4, <1>5, <1>6, <1>7, <1>8, <1>9, <1>10, Zenon DEF Next

\* Only the answer to an upload leaves a step with an attachment and buttons
\* (uploadMedia writes the buttons back as they were when the file was picked).
THEOREM BuilderMixes == Spec => OnlyUploadsMix
<1>1. ASSUME IInv, [Next]_vars, NEW t \in Tabs, form[t].open, form'[t].open,
             ~Mixed(form[t]), Mixed(form'[t])
      PROVE  upload[t] # NoUpload /\ upload'[t] = NoUpload
  <2>1. form'[t].steps # form[t].steps
    BY <1>1 DEF Mixed
  <2>. QED BY <1>1, <2>1, FormStays
<1>2. ASSUME IInv, [Next]_vars
      PROVE  [\A t \in Tabs :
                form[t].open /\ form'[t].open /\ ~Mixed(form[t]) /\ Mixed(form'[t])
                  => upload[t] # NoUpload /\ upload'[t] = NoUpload]_vars
  BY <1>1, <1>2
<1>. QED BY <1>2, BuilderInvariant, PTL DEF Spec, OnlyUploadsMix

=============================================================================
