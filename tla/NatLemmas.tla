------------------------------ MODULE NatLemmas ------------------------------
(***************************************************************************)
(* Facts about natural numbers that the proofs of several components cite. *)
(* The least element of a set of numbers takes the place of an induction:  *)
(* what fails for some number fails for a least one.                       *)
(***************************************************************************)
EXTENDS Integers, FiniteSetsExt, PrefixSums, WellFoundedInduction, TLAPS

(* Every non-empty set of natural numbers has a least element.             *)
LEMMA LeastNat ==
  ASSUME NEW T \in SUBSET Nat, T # {}
  PROVE  \E x \in T : \A y \in T : x <= y
<1> DEFINE R == OpToRel(<, Nat)
<1>1. IsWellFoundedOn(R, Nat)
  BY NatLessThanWellFounded
<1>2. \A x, y \in Nat : x < y => <<x, y>> \in R
  BY DEF OpToRel
<1> HIDE DEF R
<1>3. PICK x \in T : \A y \in T : ~(<<y, x>> \in R)
  BY <1>1, WFMin
<1>4. \A y \in T : ~(y < x)
  BY <1>2, <1>3
<1>5. x \in Nat /\ \A y \in T : y \in Nat
  OBVIOUS
<1>6. \A y \in T : x <= y
  BY <1>4, <1>5
<1>7. QED
  BY <1>6

(* Every non-empty bounded set of natural numbers has a greatest element.  *)
LEMMA GreatestNat ==
  ASSUME NEW T \in SUBSET Nat, T # {}, NEW b \in Nat, \A y \in T : y <= b
  PROVE  \E x \in T : \A y \in T : y <= x
<1> DEFINE D == {b - y : y \in T}
<1>1. D \in SUBSET Nat /\ D # {}
  <2>1. \A y \in T : y \in Nat /\ y <= b
    OBVIOUS
  <2>2. \A y \in T : b - y \in Nat
    BY <2>1
  <2>3. QED
    BY <2>2
<1> HIDE DEF D
<1>2. PICK m \in D : \A z \in D : m <= z
  BY <1>1, LeastNat
<1>3. PICK x \in T : m = b - x
  BY <1>2 DEF D
<1>4. ASSUME NEW y \in T
      PROVE  y <= x
  <2>1. b - y \in D
    BY DEF D
  <2>2. m <= b - y
    BY <1>2, <2>1
  <2>3. x \in Nat /\ y \in Nat
    OBVIOUS
  <2>4. QED
    BY <1>3, <2>2, <2>3
<1>5. QED
  BY <1>4

(* Min and Max of FiniteSetsExt are what their names say, for sets of      *)
(* numbers that have one.                                                  *)
LEMMA MinNat ==
  ASSUME NEW T \in SUBSET Nat, T # {}
  PROVE  Min(T) \in T /\ \A y \in T : Min(T) <= y
BY LeastNat DEF Min

LEMMA MaxNat ==
  ASSUME NEW T \in SUBSET Nat, T # {}, NEW b \in Nat, \A y \in T : y <= b
  PROVE  Max(T) \in T /\ \A y \in T : Max(T) >= y
<1>1. PICK x \in T : \A y \in T : y <= x
  BY GreatestNat
<1>2. \A y \in T : y \in Nat
  OBVIOUS
<1>3. \A y \in T : x >= y
  BY <1>1, <1>2
<1>4. QED
  BY <1>3 DEF Max

-----------------------------------------------------------------------------
(* Running totals                                                          *)

\* s holds the running totals of f up to n.
Sums(s, f, n) == s = [k \in 0..n |-> IF k = 0 THEN 0 ELSE s[k - 1] + f[k]]

\* There are running totals: were there none up to n, there would be a least
\* such n, and one turn more would continue those up to n - 1.
LEMMA SumsExist ==
  ASSUME NEW f, NEW n \in Nat
  PROVE  \E s : Sums(s, f, n)
<1> DEFINE T == {k \in Nat : ~ \E s : Sums(s, f, k)}
<1> SUFFICES ASSUME T # {} PROVE FALSE
  OBVIOUS
<1>1. PICK k \in T : \A y \in T : k <= y
  BY LeastNat
<1>2. k \in Nat /\ ~ \E s : Sums(s, f, k)
  OBVIOUS
<1>3. CASE k = 0
  <2> DEFINE s == [j \in 0..0 |-> 0]
  <2>1. Sums(s, f, 0)
    BY DEF Sums
  <2> QED BY <1>2, <1>3, <2>1
<1>4. CASE k # 0
  <2>1. k - 1 \in Nat /\ k - 1 \notin T
    BY <1>1, <1>2, <1>4
  <2>2. PICK s : Sums(s, f, k - 1)
    BY <2>1
  <2> DEFINE t == [j \in 0..k |-> IF j = k THEN s[k - 1] + f[k] ELSE s[j]]
  <2>3. ASSUME NEW j \in 0..k
        PROVE  t[j] = IF j = 0 THEN 0 ELSE t[j - 1] + f[j]
    <3>1. CASE j = k
      <4>1. k - 1 \in 0..k /\ k - 1 # k
        BY <1>2, <2>1
      <4> QED BY <1>4, <3>1, <4>1
    <3>2. CASE j # k
      <4>1. j \in 0..(k - 1) /\ (j # 0 => j - 1 \in 0..k /\ j - 1 # k)
        BY <1>2, <3>2
      <4>2. s[j] = IF j = 0 THEN 0 ELSE s[j - 1] + f[j]
        BY <2>2, <4>1 DEF Sums
      <4> QED BY <3>2, <4>1, <4>2
    <3> QED BY <3>1, <3>2
  <2>4. Sums(t, f, k)
    BY <2>3 DEF Sums
  <2> QED BY <1>2, <2>4
<1> QED BY <1>3, <1>4

\* Two runs of the loop agree as far as both go.
LEMMA SumsAgree ==
  ASSUME NEW f, NEW s, NEW t, NEW m \in Nat, NEW n \in Nat, m <= n,
         Sums(s, f, m), Sums(t, f, n)
  PROVE  s[m] = t[m]
<1> DEFINE T == {k \in 0..m : s[k] # t[k]}
<1> SUFFICES ASSUME T # {} PROVE FALSE
  OBVIOUS
<1>0. T \subseteq Nat
  OBVIOUS
<1>1. PICK k \in T : \A y \in T : k <= y
  BY <1>0, LeastNat
<1>2. k \in 0..m /\ k \in 0..n /\ s[k] # t[k]
  OBVIOUS
<1>3. s[k] = IF k = 0 THEN 0 ELSE s[k - 1] + f[k]
  BY <1>2 DEF Sums
<1>4. t[k] = IF k = 0 THEN 0 ELSE t[k - 1] + f[k]
  BY <1>2 DEF Sums
<1>5. k # 0 => k - 1 \in 0..m /\ k - 1 \notin T
  BY <1>1, <1>2
<1>6. k # 0 => s[k - 1] = t[k - 1]
  BY <1>5
<1> QED BY <1>2, <1>3, <1>4, <1>6

LEMMA SumIs ==
  ASSUME NEW f, NEW n \in Nat
  PROVE  \E s : Sums(s, f, n) /\ SumTo(f, n) = s[n]
BY SumsExist DEF SumTo, Sums

LEMMA SumZero ==
  ASSUME NEW f
  PROVE  SumTo(f, 0) = 0
<1>1. PICK s : Sums(s, f, 0) /\ SumTo(f, 0) = s[0]
  BY SumIs
<1> QED BY <1>1 DEF Sums

LEMMA SumStep ==
  ASSUME NEW f, NEW n \in Nat
  PROVE  SumTo(f, n + 1) = SumTo(f, n) + f[n + 1]
<1>1. PICK s : Sums(s, f, n) /\ SumTo(f, n) = s[n]
  BY SumIs
<1>2. PICK t : Sums(t, f, n + 1) /\ SumTo(f, n + 1) = t[n + 1]
  BY SumIs
<1>3. s[n] = t[n]
  BY <1>1, <1>2, SumsAgree
<1>4. n + 1 \in 0..(n + 1) /\ n + 1 # 0 /\ (n + 1) - 1 = n
  OBVIOUS
<1>5. t[n + 1] = t[(n + 1) - 1] + f[n + 1]
  BY <1>2, <1>4 DEF Sums
<1> QED BY <1>1, <1>2, <1>3, <1>4, <1>5

LEMMA SumPred ==
  ASSUME NEW f, NEW n \in Nat, n # 0
  PROVE  SumTo(f, n) = SumTo(f, n - 1) + f[n]
<1>1. n - 1 \in Nat /\ (n - 1) + 1 = n
  OBVIOUS
<1>2. SumTo(f, (n - 1) + 1) = SumTo(f, n - 1) + f[(n - 1) + 1]
  BY <1>1, SumStep
<1> QED BY <1>1, <1>2

\* Only the first n values count.
LEMMA SumSame ==
  ASSUME NEW f, NEW g, NEW n \in Nat, \A i \in 1..n : f[i] = g[i]
  PROVE  SumTo(f, n) = SumTo(g, n)
<1> DEFINE T == {k \in 0..n : SumTo(f, k) # SumTo(g, k)}
<1> SUFFICES ASSUME T # {} PROVE FALSE
  OBVIOUS
<1>0. T \subseteq Nat
  OBVIOUS
<1>1. PICK k \in T : \A y \in T : k <= y
  BY <1>0, LeastNat
<1>2. k \in 0..n /\ SumTo(f, k) # SumTo(g, k)
  OBVIOUS
<1>3. k # 0
  BY <1>2, SumZero
<1>4. k - 1 \in 0..n /\ k - 1 \notin T /\ k \in 1..n /\ k \in Nat
  BY <1>1, <1>2, <1>3
<1>5. SumTo(f, k - 1) = SumTo(g, k - 1) /\ f[k] = g[k]
  BY <1>4
<1> QED BY <1>2, <1>3, <1>4, <1>5, SumPred

LEMMA SumNat ==
  ASSUME NEW f, NEW n \in Nat, \A i \in 1..n : f[i] \in Nat
  PROVE  SumTo(f, n) \in Nat
<1> DEFINE T == {k \in 0..n : SumTo(f, k) \notin Nat}
<1> SUFFICES ASSUME T # {} PROVE FALSE
  OBVIOUS
<1>0. T \subseteq Nat
  OBVIOUS
<1>1. PICK k \in T : \A y \in T : k <= y
  BY <1>0, LeastNat
<1>2. k \in 0..n /\ SumTo(f, k) \notin Nat
  OBVIOUS
<1>3. k # 0
  BY <1>2, SumZero
<1>4. k - 1 \in 0..n /\ k - 1 \notin T /\ k \in 1..n /\ k \in Nat
  BY <1>1, <1>2, <1>3
<1>5. SumTo(f, k - 1) \in Nat /\ f[k] \in Nat
  BY <1>4
<1> QED BY <1>2, <1>3, <1>4, <1>5, SumPred

\* The totals do not fall.
LEMMA SumGrows ==
  ASSUME NEW f, NEW n \in Nat, \A i \in 1..n : f[i] \in Nat, NEW m \in 0..n
  PROVE  SumTo(f, m) <= SumTo(f, n)
<1> DEFINE T == {k \in m..n : ~(SumTo(f, m) <= SumTo(f, k))}
<1> SUFFICES ASSUME T # {} PROVE FALSE
  OBVIOUS
<1>0. T \subseteq Nat
  OBVIOUS
<1>1. PICK k \in T : \A y \in T : k <= y
  BY <1>0, LeastNat
<1>2. k \in m..n /\ ~(SumTo(f, m) <= SumTo(f, k))
  OBVIOUS
<1>3. ASSUME NEW j \in 0..n PROVE SumTo(f, j) \in Nat
  <2>1. j \in Nat /\ \A i \in 1..j : i \in 1..n
    OBVIOUS
  <2> QED BY <2>1, SumNat
<1>4. k # m /\ k \in 1..n /\ k - 1 \in m..n /\ k - 1 \notin T /\ k \in Nat /\ k # 0
  <2>1. k # m
    BY <1>2, <1>3
  <2> QED BY <1>1, <1>2, <2>1
<1>5. SumTo(f, m) <= SumTo(f, k - 1) /\ f[k] \in Nat
  BY <1>4
<1>6. SumTo(f, k) = SumTo(f, k - 1) + f[k]
  BY <1>4, SumPred
<1>7. SumTo(f, k - 1) \in Nat /\ SumTo(f, m) \in Nat
  BY <1>3, <1>4
<1> QED BY <1>2, <1>5, <1>6, <1>7

\* What is added after m is zero.
LEMMA SumTail ==
  ASSUME NEW f, NEW n \in Nat, NEW m \in 0..n, SumTo(f, m) \in Nat,
         \A i \in (m + 1)..n : f[i] = 0
  PROVE  SumTo(f, n) = SumTo(f, m)
<1> DEFINE T == {k \in m..n : SumTo(f, k) # SumTo(f, m)}
<1> SUFFICES ASSUME T # {} PROVE FALSE
  OBVIOUS
<1>0. T \subseteq Nat
  OBVIOUS
<1>1. PICK k \in T : \A y \in T : k <= y
  BY <1>0, LeastNat
<1>2. k \in m..n /\ SumTo(f, k) # SumTo(f, m)
  OBVIOUS
<1>3. k # m /\ k - 1 \in m..n /\ k - 1 \notin T /\ k \in Nat /\ k # 0 /\ k \in (m + 1)..n
  BY <1>1, <1>2
<1>4. SumTo(f, k - 1) = SumTo(f, m) /\ f[k] = 0
  BY <1>3
<1> QED BY <1>2, <1>3, <1>4, SumPred
=============================================================================
