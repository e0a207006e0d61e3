----------------------------- MODULE TimersProofs -----------------------------
(***************************************************************************)
(* Proofs about what timers drive.                                         *)
(*   Recurrent functions: the list stays a list whatever a run removes and *)
(* an interrupt appends (ListOK), a run looks at every function once       *)
(* (EachOnce), and the grain is that of the list (GrainSound).             *)
(*   Clock: micros64() is the true time for every word size and every step *)
(* of time; with the constants of the code millis() is exact for 2^22      *)
(* overflows, 570 years (ClkExact).                                        *)
(*   Ticker: the ticker does what was asked for last (TkrAsAsked).         *)
(*   Waveform: after each call every pin does what was asked for last      *)
(* (WvfAsRequested), and the PWM list the NMI walks is sound at every      *)
(* moment, whatever is added, removed and rebuilt (WvfPwmList).            *)
(***************************************************************************)
EXTENDS CoreClock, RecurrentFn, Ticker, WaveformPwm, NatLemmas, SequenceTheorems

-----------------------------------------------------------------------------
(* CLOCK: the constants                                                    *)

(* The constants of the code: 2^32, 0x00418937, 0x4bc6a7f0, 1000, and the  *)
(* bound 0x00400000 of the comment on millis().                            *)
ClkReal ==
    /\ ClkWord = 4294967296
    /\ MAGIC_1E3_wHI = 4294967
    /\ MAGIC_1E3_wLO = 1271310320
    /\ ClkDiv = 1000
    /\ ClkMaxHi <= 4194303

-----------------------------------------------------------------------------
(* The magic multiplier                                                    *)

(* Three divisions with their remainders: the high word of the accumulator *)
(* and of the last product is the quotient by 1000, since 1000 times the   *)
(* multiplier is 2^64 + 384 and 384 times the quotient stays below it.     *)
LEMMA MagicQuotient ==
    ASSUME NEW c \in Int, NEW m \in Int, NEW a \in Int, NEW b \in Int, NEW q \in Int,
           NEW r \in Int, NEW s \in Int, NEW t \in Int,
           0 <= c, c <= 4194303, 0 <= m, m <= 4294967295,
           0 <= r, r <= 4294967295, 0 <= s, s <= 4294967295, 0 <= t, t <= 999,
           m * 1271310320 = 4294967296 * a + r,
           a + m * 4294967 + c * 1271310320 = 4294967296 * b + s,
           c * 4294967296 + m = 1000 * q + t
    PROVE  b + c * 4294967 = q
  BY Z3T(30)

(* Division with remainder.                                                *)
LEMMA Division ==
    ASSUME NEW x \in Nat, NEW w \in Nat, w > 0
    PROVE  /\ x \div w \in Nat
           /\ x - w * (x \div w) >= 0
           /\ x - w * (x \div w) <= w - 1
  BY Z3T(30)

(* millis() is the exact number of milliseconds, in one word, for every    *)
(* time of up to 2^22 overflows ("+570 years of usec counter overflows").  *)
THEOREM MillisExact ==
    ASSUME ClkReal, NEW c \in Nat, c <= 4194303, NEW m \in Nat, m <= 4294967295
    PROVE  millis(c, m) = ((c * ClkWord + m) \div ClkDiv) % ClkWord
<1> DEFINE a == (m * 1271310320) \div 4294967296
           total == a + m * 4294967 + c * 1271310320
           b == total \div 4294967296
           q == (c * 4294967296 + m) \div 1000
<1>1. /\ a \in Nat
      /\ m * 1271310320 - 4294967296 * a >= 0
      /\ m * 1271310320 - 4294967296 * a <= 4294967295
  <2>1. m * 1271310320 \in Nat
    BY Z3T(30)
  <2> QED BY <2>1, Division, Z3T(30)
<1>2. millis_acc(c, m) = total /\ total \in Nat
  BY <1>1, Z3T(30) DEF millis_acc, ClkReal
<1> HIDE DEF a
<1>3. /\ b \in Nat
      /\ total - 4294967296 * b >= 0
      /\ total - 4294967296 * b <= 4294967295
  <2> HIDE DEF total
  <2> QED BY <1>2, Division, Z3T(30)
<1>4. /\ q \in Nat
      /\ (c * 4294967296 + m) - 1000 * q >= 0
      /\ (c * 4294967296 + m) - 1000 * q <= 999
  <2>1. c * 4294967296 + m \in Nat
    BY Z3T(30)
  <2> QED BY <2>1, Division, Z3T(30)
<1> HIDE DEF b, q
<1>5. b + c * 4294967 = q
  <2> DEFINE r == m * 1271310320 - 4294967296 * a
             s == total - 4294967296 * b
             t == (c * 4294967296 + m) - 1000 * q
  <2>1. /\ r \in Int /\ s \in Int /\ t \in Int
        /\ 0 <= r /\ r <= 4294967295 /\ 0 <= s /\ s <= 4294967295
        /\ 0 <= t /\ t <= 999
    BY <1>1, <1>3, <1>4, Z3T(30)
  <2>2. /\ m * 1271310320 = 4294967296 * a + r
        /\ a + m * 4294967 + c * 1271310320 = 4294967296 * b + s
        /\ c * 4294967296 + m = 1000 * q + t
    BY <1>1, <1>3, <1>4, Z3T(30)
  <2> HIDE DEF r, s, t
  <2>3. 0 <= c /\ 0 <= m
    BY Z3T(30)
  <2> QED BY <1>1, <1>3, <1>4, <2>1, <2>2, <2>3, MagicQuotient, Z3T(30)
<1>6. millis(c, m) = (b + c * 4294967) % 4294967296
  BY <1>2, Z3T(30) DEF millis, ClkReal, b
<1>7. ((c * ClkWord + m) \div ClkDiv) % ClkWord = q % 4294967296
  BY Z3T(30) DEF ClkReal, q
<1> QED BY <1>5, <1>6, <1>7, Z3T(30)

-----------------------------------------------------------------------------
(* The overflow counter                                                    *)

(* At rest the counter is that of the time of the last tick, which is less *)
(* than a word ago; during a tick the time m was read at lies between that *)
(* and now.                                                                *)
ClkInv ==
    /\ ClkTypeOK
    /\ clkHi <= ClkMaxHi
    /\ ClkTimely(clkHi, clkLo)
    /\ clkHi = clkAt => clkLo >= micros_at_last_overflow_tick
    /\ clkTick.pc \in {"idle", "read"} => micros_overflow_count = clkAt
    /\ clkTick.pc # "idle" =>
         /\ ClkTimely(clkTick.hi, clkTick.m)
         /\ clkTick.hi = clkAt => clkTick.m >= micros_at_last_overflow_tick
         /\ clkHi = clkTick.hi \/ (clkHi = clkTick.hi + 1 /\ clkLo < clkTick.m)
         /\ clkHi = clkTick.hi => clkLo >= clkTick.m
    /\ clkTick.pc = "counted" => micros_overflow_count = clkTick.hi

LEMMA ClkInvInit == ClkInit => ClkInv
  BY ClkAssumption DEF ClkInit, ClkInv, ClkTypeOK, ClkTimely

LEMMA ClkInvNext == ClkInv /\ [ClkNext]_clkVars => ClkInv'
<1> SUFFICES ASSUME ClkInv, [ClkNext]_clkVars PROVE ClkInv'
  OBVIOUS
<1> USE ClkAssumption
<1>1. ASSUME NEW d \in 1..ClkStep, ClkAdvance(d) PROVE ClkInv'
  <2> USE <1>1 DEF ClkAdvance, ClkInv, ClkTypeOK, ClkTimely
  <2>1. ClkTypeOK'
    OBVIOUS
  <2>2. (clkHi = clkAt => clkLo >= micros_at_last_overflow_tick)'
    OBVIOUS
  <2>3. (clkTick.pc # "idle" =>
           /\ clkHi = clkTick.hi \/ (clkHi = clkTick.hi + 1 /\ clkLo < clkTick.m)
           /\ clkHi = clkTick.hi => clkLo >= clkTick.m)'
    OBVIOUS
  <2> QED BY <2>1, <2>2, <2>3
<1>2. ASSUME ClkTickRead PROVE ClkInv'
  BY <1>2 DEF ClkTickRead, ClkInv, ClkTypeOK, ClkTimely
<1>3. ASSUME ClkTickCount PROVE ClkInv'
  BY <1>3 DEF ClkTickCount, ClkInv, ClkTypeOK, ClkTimely
<1>4. ASSUME ClkTickStore PROVE ClkInv'
  BY <1>4 DEF ClkTickStore, ClkInv, ClkTypeOK, ClkTimely
<1>5. ASSUME UNCHANGED clkVars PROVE ClkInv'
  BY <1>5 DEF clkVars, ClkInv, ClkTypeOK, ClkTimely
<1> QED BY <1>1, <1>2, <1>3, <1>4, <1>5 DEF ClkNext

(* Whoever reads the time outside the gap of a tick has the right number   *)
(* of overflows.                                                           *)
LEMMA ClkInvHigh == ClkInv => (clkTick.pc # "counted" => micros64_high = clkHi)
  BY ClkAssumption DEF ClkInv, ClkTypeOK, ClkTimely, micros64_high

(* With the constants of the code, micros64() is the true time and         *)
(* millis() the true number of milliseconds, whenever they are called      *)
(* outside that gap, for 570 years.                                        *)
THEOREM ClockCorrect == ClkReal => (ClkSpec => []ClkExact)
<1> SUFFICES ASSUME ClkReal PROVE ClkSpec => []ClkExact
  OBVIOUS
<1>1. ClkInv => ClkExact
  <2> SUFFICES ASSUME ClkInv, clkTick.pc # "counted"
               PROVE  /\ micros64_high = clkHi
                      /\ millis(micros64_high, clkLo)
                           = ((clkHi * ClkWord + clkLo) \div ClkDiv) % ClkWord
    BY DEF ClkExact
  <2>1. micros64_high = clkHi
    BY ClkInvHigh
  <2>2. clkHi \in Nat /\ clkHi <= 4194303 /\ clkLo \in Nat /\ clkLo <= 4294967295
    <3>1. ClkWord = 4294967296 /\ ClkMaxHi <= 4194303
      BY Z3T(30) DEF ClkReal
    <3>2. /\ clkHi \in Nat /\ clkHi <= ClkMaxHi
          /\ clkLo \in Nat /\ clkLo < ClkWord
      BY ClkAssumption DEF ClkInv, ClkTypeOK
    <3>3. ClkMaxHi \in Nat /\ ClkWord \in Nat
      BY ClkAssumption
    <3>4. clkHi <= 4194303
      BY <3>1, <3>2, <3>3, Z3T(30)
    <3>5. clkLo <= 4294967295
      BY <3>1, <3>2, <3>3, Z3T(30)
    <3> QED BY <3>2, <3>4, <3>5, Z3T(30)
  <2> QED BY <2>1, <2>2, MillisExact, Z3T(30)
<1> QED BY <1>1, ClkInvInit, ClkInvNext, PTL DEF ClkSpec

-----------------------------------------------------------------------------
(* The inductive invariant                                                 *)

(* mNext links the nodes of order, and no node is in the list twice.       *)
Linked ==
  /\ rFirst = IF order = <<>> THEN Null ELSE order[1]
  /\ rLast = IF order = <<>> THEN Null ELSE order[Len(order)]
  /\ \A i \in 1..Len(order) :
       mNext[order[i]] = IF i = Len(order) THEN Null ELSE order[i + 1]
  /\ \A i, j \in 1..Len(order) : order[i] = order[j] => i = j

(* The frame f stands at position p of the list.                           *)
Stands(f, p) ==
  /\ f.current = order[p]
  /\ f.prev = IF p = 1 THEN Null ELSE order[p - 1]

(* What the run still has to look at are the positions from p to q, and    *)
(* the node at q is the one it stops after.                                *)
Ahead(p, q) ==
  /\ Len(todo) = q + 1 - p
  /\ \A i \in 1..Len(todo) : todo[i] = order[p + i - 1]

FrameInv(f) ==
  \/ /\ f.at = "stop" /\ ~f.done
     /\ order # <<>> /\ f.current = rFirst /\ f.prev = Null
  \/ /\ f.at \in {"eval", "loop"} /\ ~f.done
     /\ \E p, q \in 1..Len(order) :
          p <= q /\ Stands(f, p) /\ f.stop = order[q] /\ Ahead(p, q)
  \/ /\ f.at = "call"
     /\ \E p, q \in 1..Len(order) :
          p <= q /\ Stands(f, p) /\ f.stop = order[q] /\ Ahead(p + 1, q)
          /\ (f.done <=> p = q)
  \/ /\ f.at = "loop" /\ f.done
     /\ f.current \in Live \cup {Null} /\ f.prev \in Live \cup {Null}
     /\ todo = <<>>

(* The fence lets one activation in; the grain is computed outside of it.  *)
RunInv ==
  \/ stack = <<>> /\ ~fence
  \/ Len(stack) = 1 /\ fence /\ gpc = "idle" /\ FrameInv(stack[1])

(* The gcd is that of the functions before the one the loop is at, unless  *)
(* one was scheduled meanwhile.                                            *)
Prefix(k) == {timeout[order[i]] : i \in 1..k}

SumInv ==
  /\ \E us \in Intervals \cup {0} : acc <= us
  /\ gpc = "sum" /\ ~late =>
       \E k \in 1..Len(order) :
          /\ it = IF k = Len(order) THEN Null ELSE order[k + 1]
          /\ acc = GcdOf(Prefix(k))

RecInv == RecTypeOK /\ Linked /\ RunInv /\ SumInv /\ GrainSound

-----------------------------------------------------------------------------
(* The greatest common divisor                                             *)

(* To divide is to have a multiple.                                        *)
LEMMA DividesMultiple ==
  ASSUME NEW d \in Nat, NEW n \in Nat
  PROVE  Divides(d, n) <=> \E k \in Nat : n = d * k
<1>1. CASE d = 0
  BY <1>1 DEF Divides
<1>2. CASE d # 0
  <2>1. n = d * (n \div d) + (n % d) /\ n \div d \in Nat
    BY <1>2
  <2>2. Divides(d, n) => \E k \in Nat : n = d * k
    BY <1>2, <2>1 DEF Divides
  <2>3. ASSUME NEW k \in Nat, n = d * k
        PROVE  Divides(d, n)
    BY <1>2, <2>3 DEF Divides
  <2>4. QED
    BY <2>2, <2>3
<1>3. QED
  BY <1>1, <1>2

LEMMA DividesBound ==
  ASSUME NEW d \in Nat, NEW n \in Nat \ {0}, Divides(d, n)
  PROVE  d \in 1..n
<1>1. PICK k \in Nat : n = d * k
  BY DividesMultiple
<1>2. k # 0 /\ d # 0
  BY <1>1
<1>3. d * k >= d
  BY <1>2
<1>4. QED
  BY <1>1, <1>2, <1>3

LEMMA DividesTransitive ==
  ASSUME NEW a \in Nat, NEW b \in Nat, NEW c \in Nat, Divides(a, b), Divides(b, c)
  PROVE  Divides(a, c)
<1>1. PICK j \in Nat : b = a * j
  BY DividesMultiple
<1>2. PICK k \in Nat : c = b * k
  BY DividesMultiple
<1>3. c = a * (j * k) /\ j * k \in Nat
  BY <1>1, <1>2
<1>4. QED
  BY <1>3, DividesMultiple

LEMMA DividesAntisymmetric ==
  ASSUME NEW a \in Nat, NEW b \in Nat, Divides(a, b), Divides(b, a)
  PROVE  a = b
<1>1. CASE a = 0 \/ b = 0
  BY <1>1 DEF Divides
<1>2. CASE a # 0 /\ b # 0
  BY <1>2, DividesBound
<1>3. QED
  BY <1>1, <1>2

(* What divides a number and a multiple divides the remainder.             *)
LEMMA DividesRemainder ==
  ASSUME NEW d \in Nat, NEW n \in Nat, NEW m \in Nat \ {0}, Divides(d, n), Divides(d, m)
  PROVE  Divides(d, n % m)
<1>1. PICK j \in Nat : n = d * j
  BY DividesMultiple
<1>2. PICK k \in Nat : m = d * k
  BY DividesMultiple
<1>3. PICK q \in Nat : n = m * q + (n % m)
  <2>1. n = m * (n \div m) + (n % m) /\ n \div m \in Nat
    OBVIOUS
  <2>2. QED
    BY <2>1
<1>4. PICK r \in Nat : r = n % m
  OBVIOUS
<1>5. d * j = d * (k * q) + r
  BY <1>1, <1>2, <1>3, <1>4
<1>6. d # 0 /\ k # 0
  BY <1>2
<1>7. j >= k * q
  <2>1. PICK x \in Nat : x = k * q
    OBVIOUS
  <2>2. d * j >= d * x
    BY <1>5, <2>1
  <2>3. QED
    BY <1>6, <2>1, <2>2
<1>8. PICK x \in Nat : x = j - k * q
  BY <1>7
<1>9. r = d * x
  <2>1. PICK y \in Nat : y = k * q
    OBVIOUS
  <2>2. j = x + y
    BY <1>8, <2>1
  <2>3. d * (x + y) = d * x + d * y
    OBVIOUS
  <2>4. d * x + d * y = d * y + r
    BY <1>5, <2>1, <2>2, <2>3
  <2>5. QED
    BY <2>4
<1>10. QED
  BY <1>4, <1>9, DividesMultiple

(* The divisors of g are the common divisors of S.                         *)
IsGcd(g, S) == \A d \in Nat : CommonDivisor(d, S) <=> Divides(d, g)

LEMMA GcdUnique ==
  ASSUME NEW S, NEW g \in Nat, NEW h \in Nat, IsGcd(g, S), IsGcd(h, S)
  PROVE  g = h
<1>1. Divides(g, g) /\ Divides(h, h)
  BY DEF Divides
<1>2. Divides(g, h) /\ Divides(h, g)
  BY <1>1 DEF IsGcd
<1>3. QED
  BY <1>2, DividesAntisymmetric

(* The greatest common divisor is divided by the others: the least common  *)
(* multiple of it and another one is a common divisor as well.             *)
LEMMA GreatestDivided ==
  ASSUME NEW S \in SUBSET Nat, NEW g \in Nat \ {0}, CommonDivisor(g, S),
         \A d \in Nat : CommonDivisor(d, S) => d <= g,
         NEW d \in Nat, d # 0, CommonDivisor(d, S)
  PROVE  Divides(d, g)
<1> DEFINE T == {n \in Nat : n # 0 /\ Divides(d, n) /\ Divides(g, n)}
<1>1. d * g \in T
  <2>1. d * g \in Nat /\ d * g # 0
    OBVIOUS
  <2>2. d * g = g * d
    OBVIOUS
  <2>3. QED
    BY <2>1, <2>2, DividesMultiple
<1>2. T \in SUBSET Nat /\ T # {}
  BY <1>1
<1> HIDE DEF T
<1>3. PICK m \in T : \A n \in T : m <= n
  BY <1>2, LeastNat
<1>4. m \in Nat \ {0} /\ Divides(d, m) /\ Divides(g, m)
  BY <1>3 DEF T
<1>5. ASSUME NEW s \in S
      PROVE  Divides(m, s)
  <2>1. s \in Nat /\ Divides(d, s) /\ Divides(g, s)
    BY DEF CommonDivisor
  <2>2. Divides(d, s % m) /\ Divides(g, s % m)
    BY <1>4, <2>1, DividesRemainder
  <2>3. s % m \in Nat /\ s % m < m
    BY <1>4, <2>1
  <2>4. s % m \notin T
    BY <1>3, <1>4, <2>3
  <2>5. s % m = 0
    BY <2>2, <2>3, <2>4 DEF T
  <2>6. QED
    BY <1>4, <2>5 DEF Divides
<1>6. m <= g
  BY <1>4, <1>5 DEF CommonDivisor
<1>7. g <= m
  BY <1>4, DividesBound
<1>8. QED
  BY <1>4, <1>6, <1>7

LEMMA GcdExists ==
  ASSUME NEW S \in SUBSET Nat
  PROVE  \E g \in {0} \cup UNION {0..n : n \in S} : IsGcd(g, S)
<1>1. CASE \A s \in S : s = 0
  <2>1. \A d \in Nat : Divides(d, 0)
    BY DEF Divides
  <2>2. IsGcd(0, S)
    BY <1>1, <2>1 DEF IsGcd, CommonDivisor
  <2>3. QED
    BY <2>2
<1>2. CASE \E s \in S : s # 0
  <2>1. PICK s \in S : s # 0
    BY <1>2
  <2>2. s \in Nat \ {0}
    BY <2>1
  <2> DEFINE T == {d \in Nat : CommonDivisor(d, S)}
  <2>3. \A d \in T : d \in 1..s
    BY <2>1, <2>2, DividesBound DEF CommonDivisor
  <2>4. 1 \in T
    BY DEF CommonDivisor, Divides
  <2>5. T \in SUBSET Nat /\ T # {} /\ \A d \in T : d <= s
    BY <2>2, <2>3, <2>4
  <2> HIDE DEF T
  <2>6. PICK g \in T : \A d \in T : d <= g
    BY <2>2, <2>5, GreatestNat
  <2>7. g \in Nat \ {0} /\ g \in 0..s /\ CommonDivisor(g, S)
    BY <2>2, <2>3, <2>6 DEF T
  <2>8. \A d \in Nat : CommonDivisor(d, S) => d <= g
    BY <2>6 DEF T
  <2>9. ASSUME NEW d \in Nat, CommonDivisor(d, S)
        PROVE  Divides(d, g)
    <3>1. d \in T
      BY <2>9 DEF T
    <3>2. d # 0
      BY <2>2, <2>3, <3>1
    <3>3. QED
      BY <2>7, <2>8, <2>9, <3>2, GreatestDivided
  <2>10. ASSUME NEW d \in Nat, Divides(d, g)
         PROVE  CommonDivisor(d, S)
    BY <2>7, <2>10, DividesTransitive DEF CommonDivisor
  <2>11. IsGcd(g, S)
    BY <2>9, <2>10 DEF IsGcd
  <2>12. QED
    BY <2>7, <2>11
<1>3. QED
  BY <1>1, <1>2

(* GcdOf() is the gcd, although it looks only at numbers up to those of S. *)
LEMMA GcdOfIsGcd ==
  ASSUME NEW S \in SUBSET Nat
  PROVE  GcdOf(S) \in Nat /\ IsGcd(GcdOf(S), S)
<1> DEFINE C == {0} \cup UNION {0..n : n \in S}
           P(g) == /\ CommonDivisor(g, S)
                   /\ \A d \in C : CommonDivisor(d, S) => Divides(d, g)
<1>1. C \subseteq Nat
  OBVIOUS
<1>2. PICK h \in C : IsGcd(h, S)
  BY GcdExists
<1>3. Divides(h, h)
  BY DEF Divides
<1>4. P(h)
  BY <1>1, <1>2, <1>3 DEF IsGcd
<1>5. GcdOf(S) = CHOOSE g \in C : P(g)
  BY DEF GcdOf
<1>6. GcdOf(S) \in C /\ P(GcdOf(S))
  BY <1>4, <1>5
<1>7. Divides(GcdOf(S), h)
  BY <1>1, <1>2, <1>6 DEF IsGcd
<1>8. Divides(h, GcdOf(S))
  <2>1. CommonDivisor(h, S)
    BY <1>1, <1>2, <1>3 DEF IsGcd
  <2>2. QED
    BY <1>2, <1>6, <2>1
<1>9. GcdOf(S) = h
  BY <1>1, <1>6, <1>7, <1>8, DividesAntisymmetric
<1>10. QED
  BY <1>1, <1>2, <1>9

(* The loop of compute_scheduled_recurrent_grain() may take the gcd of one *)
(* number after the other.                                                 *)
LEMMA GcdOfStep ==
  ASSUME NEW S \in SUBSET Nat, NEW t \in Nat
  PROVE  GcdOf({GcdOf(S), t}) = GcdOf(S \cup {t})
<1>1. PICK g \in Nat : g = GcdOf(S) /\ IsGcd(g, S)
  BY GcdOfIsGcd
<1>2. PICK h \in Nat : h = GcdOf({g, t}) /\ IsGcd(h, {g, t})
  BY GcdOfIsGcd
<1>3. PICK k \in Nat : k = GcdOf(S \cup {t}) /\ IsGcd(k, S \cup {t})
  <2>1. S \cup {t} \in SUBSET Nat
    OBVIOUS
  <2>2. QED
    BY <2>1, GcdOfIsGcd
<1>4. \A d \in Nat : CommonDivisor(d, {g, t}) <=> CommonDivisor(d, S \cup {t})
  BY <1>1 DEF IsGcd, CommonDivisor
<1>5. IsGcd(h, S \cup {t})
  BY <1>2, <1>4 DEF IsGcd
<1>6. h = k
  BY <1>3, <1>5, GcdUnique
<1>7. QED
  BY <1>1, <1>2, <1>3, <1>6

LEMMA GcdOfOne ==
  ASSUME NEW t \in Nat
  PROVE  GcdOf({t}) = t
<1>1. IsGcd(t, {t})
  BY DEF IsGcd, CommonDivisor
<1>2. QED
  BY <1>1, GcdOfIsGcd, GcdUnique

(* The gcd of two numbers is at most one of them.                          *)
LEMMA GcdOfBound ==
  ASSUME NEW a \in Nat, NEW b \in Nat
  PROVE  GcdOf({a, b}) \in Nat /\ (GcdOf({a, b}) <= a \/ GcdOf({a, b}) <= b)
<1>1. PICK g \in Nat : g = GcdOf({a, b}) /\ IsGcd(g, {a, b})
  BY GcdOfIsGcd
<1>2. Divides(g, g)
  BY DEF Divides
<1>3. Divides(g, a) /\ Divides(g, b)
  BY <1>1, <1>2 DEF IsGcd, CommonDivisor
<1>4. CASE a # 0
  BY <1>1, <1>3, <1>4, DividesBound
<1>5. CASE a = 0 /\ b # 0
  BY <1>1, <1>3, <1>5, DividesBound
<1>6. CASE a = 0 /\ b = 0
  <2>1. g \in {0} \cup UNION {0..n : n \in {a, b}}
    <3>1. PICK h \in {0} \cup UNION {0..n : n \in {a, b}} : IsGcd(h, {a, b})
      BY GcdExists
    <3>2. h = g
      BY <1>1, <3>1, GcdUnique
    <3>3. QED
      BY <3>1, <3>2
  <2>2. QED
    BY <1>1, <1>6, <2>1
<1>7. QED
  BY <1>4, <1>5, <1>6

-----------------------------------------------------------------------------
(* The activation of the run                                               *)

LEMMA TopFrame ==
  ASSUME RecTypeOK, RunInv, stack # <<>>
  PROVE  /\ Len(stack) = 1 /\ Top = stack[1] /\ Top \in Frame
         /\ fence /\ gpc = "idle" /\ FrameInv(Top)
BY DEF RecTypeOK, RunInv, Top

LEMMA ReplacedFrame ==
  ASSUME RecTypeOK, RunInv, stack # <<>>, NEW g \in Frame, Replace(g)
  PROVE  Len(stack') = 1 /\ stack' \in Seq(Frame) /\ stack'[1] = g
BY TopFrame DEF RecTypeOK, Replace

(* Every node of the list is a node and not Null.                          *)
LEMMA OrderNodes ==
  ASSUME RecTypeOK
  PROVE  /\ Live \subseteq Nodes /\ Null \notin Nodes
         /\ \A i \in 1..Len(order) : order[i] \in Live /\ order[i] \in Nodes /\ order[i] # Null
BY MaxNodesAssumption, SMTT(30) DEF RecTypeOK, Live, Nodes, Null

(* What a step that leaves the list and the grain alone does not disturb.  *)
LEMMA SameList ==
  ASSUME RecInv, UNCHANGED <<list, grain, compute, late>>
  PROVE  /\ Linked' /\ SumInv' /\ GrainSound' /\ Live' = Live
         /\ (RecTypeOK' <=> fence' \in BOOLEAN /\ stack' \in Seq(Frame) /\ todo' \in Seq(Nodes))
<1>1. /\ rFirst' = rFirst /\ rLast' = rLast /\ mNext' = mNext /\ timeout' = timeout
      /\ order' = order /\ grain' = grain /\ late' = late
      /\ gpc' = gpc /\ it' = it /\ acc' = acc
  BY DEF list, compute
<1>2. Linked'
  BY <1>1 DEF RecInv, Linked
<1>3. SumInv'
  <2>1. \A k \in 1..Len(order) : Prefix(k)' = Prefix(k)
    BY <1>1 DEF Prefix
  <2>2. QED
    BY <1>1, <2>1 DEF RecInv, SumInv
<1>4. Live' = Live
  BY <1>1 DEF Live
<1>5. GrainSound'
  <2>1. ListGrain' = ListGrain
    BY <1>1, <1>4 DEF ListGrain
  <2>2. QED
    BY <1>1, <2>1 DEF RecInv, GrainSound
<1>6. RecTypeOK' <=> fence' \in BOOLEAN /\ stack' \in Seq(Frame) /\ todo' \in Seq(Nodes)
  BY <1>1 DEF RecInv, RecTypeOK
<1>7. QED
  BY <1>2, <1>3, <1>4, <1>5, <1>6

(* A step of the run that only moves the frame.                            *)
LEMMA FrameStep ==
  ASSUME RecInv, stack # <<>>, UNCHANGED <<list, fence, grain, compute, late>>,
         NEW g \in Frame, Replace(g), todo' \in Seq(Nodes), FrameInv(g)'
  PROVE  RecInv'
<1>1. Len(stack') = 1 /\ stack' \in Seq(Frame) /\ stack'[1] = g
  BY ReplacedFrame DEF RecInv
<1>2. fence /\ gpc = "idle"
  BY TopFrame DEF RecInv
<1>3. fence' = fence /\ gpc' = gpc
  BY DEF compute
<1>4. RunInv'
  BY <1>1, <1>2, <1>3 DEF RunInv
<1>5. RecTypeOK'
  BY <1>1, <1>2, <1>3, SameList
<1>6. QED
  BY <1>4, <1>5, SameList DEF RecInv

LEMMA RunEnterStep ==
  ASSUME RecInv, RunEnter
  PROVE  RecInv'
<1> USE DEF RecInv
<1>1. stack = <<>> /\ ~fence /\ gpc = "idle" /\ rFirst # Null
  BY DEF RunEnter, FenceOpen, RunInv, MayEnter
<1> DEFINE g == [at |-> "stop", current |-> rFirst, prev |-> Null,
                 stop |-> Null, done |-> FALSE]
<1>2. stack' = Append(stack, g) /\ fence' = TRUE /\ UNCHANGED <<list, grain, compute, todo, late>>
  BY DEF RunEnter
<1>3. g \in Frame
  BY DEF Frame, RecTypeOK
<1>4. Len(stack') = 1 /\ stack'[1] = g /\ stack' \in Seq(Frame)
  BY <1>1, <1>2, <1>3 DEF RecTypeOK
<1>5. gpc' = gpc /\ rFirst' = rFirst /\ order' = order
  BY <1>2 DEF compute, list
<1>6. order # <<>>
  BY <1>1 DEF Linked
<1>7. FrameInv(g)'
  BY <1>5, <1>6 DEF FrameInv
<1>8. RunInv'
  BY <1>1, <1>2, <1>4, <1>5, <1>7 DEF RunInv
<1>9. RecTypeOK'
  BY <1>2, <1>4, SameList DEF RecTypeOK
<1>10. QED
  BY <1>2, <1>8, <1>9, SameList

LEMMA RunStopStep ==
  ASSUME RecInv, RunStop
  PROVE  RecInv'
<1> USE DEF RecInv
<1>1. stack # <<>> /\ Top.at = "stop"
  BY DEF RunStop, At
<1>2. PICK f \in Frame : f = Top /\ FrameInv(f) /\ Len(stack) = 1
  BY <1>1, TopFrame
<1>3. PICK g \in Frame : g = [f EXCEPT !.stop = rLast, !.at = "eval"]
  BY SMTT(30), ZenonT(60) DEF Frame, RecTypeOK
<1>4. Replace(g) /\ todo' = order /\ UNCHANGED <<list, fence, grain, compute, late>>
  BY <1>2, <1>3 DEF RunStop
<1>5. /\ g.at = "eval" /\ g.stop = rLast /\ g.current = f.current
      /\ g.prev = f.prev /\ g.done = f.done
  BY <1>3 DEF Frame
<1>6. order # <<>> /\ f.current = rFirst /\ f.prev = Null /\ ~f.done
  BY <1>1, <1>2 DEF FrameInv
<1>7. order \in Seq(Nodes) /\ Len(order) \in Nat /\ Len(order) >= 1
  BY <1>6 DEF RecTypeOK
<1>8. rFirst = order[1] /\ rLast = order[Len(order)]
  BY <1>6 DEF Linked
<1>9. order' = order
  BY <1>4 DEF list
<1>10. Stands(g, 1)' /\ Ahead(1, Len(order))'
  BY <1>4, <1>5, <1>6, <1>7, <1>8, <1>9 DEF Stands, Ahead
<1>11. FrameInv(g)'
  BY <1>5, <1>6, <1>7, <1>8, <1>9, <1>10 DEF FrameInv
<1>12. QED
  BY <1>1, <1>4, <1>7, <1>11, FrameStep

(* The node that is looked at is the head of todo.                         *)
LEMMA LookedAhead ==
  ASSUME RecTypeOK, NEW p \in 1..Len(order), NEW q \in 1..Len(order), p <= q,
         Ahead(p, q), Looked, Len(stack) = 1, order' = order
  PROVE  todo' \in Seq(Nodes) /\ Ahead(p + 1, q)' /\ todo # <<>> /\ Head(todo) = order[p]
<1>1. todo \in Seq(Nodes) /\ order \in Seq(Nodes) /\ Len(order) \in Nat
  BY DEF RecTypeOK
<1>2. Len(todo) = q + 1 - p /\ Len(todo) >= 1
  BY <1>1 DEF Ahead
<1>3. todo # <<>>
  BY <1>2
<1>4. todo' = Tail(todo)
  BY <1>3 DEF Looked
<1>5. Len(todo') = q - p /\ todo' \in Seq(Nodes) /\ \A i \in 1..Len(todo') : todo'[i] = todo[i + 1]
  BY <1>1, <1>2, <1>3, <1>4
<1>6. \A i \in 1..Len(todo') : todo[i + 1] = order[p + i]
  <2> TAKE i \in 1..Len(todo')
  <2>1. i + 1 \in 1..Len(todo)
    BY <1>1, <1>2, <1>5
  <2>2. todo[i + 1] = order[p + (i + 1) - 1]
    BY <2>1 DEF Ahead
  <2>3. p + (i + 1) - 1 = p + i
    BY <1>1
  <2>4. QED
    BY <2>2, <2>3
<1>7. Ahead(p + 1, q)'
  <2>1. Len(todo') = q + 1 - (p + 1)
    BY <1>1, <1>5
  <2>2. \A i \in 1..Len(todo') : p + 1 + i - 1 = p + i
    BY <1>1, <1>5
  <2>3. QED
    BY <1>5, <1>6, <2>1, <2>2 DEF Ahead
<1>8. Head(todo) = order[p]
  BY <1>1, <1>2 DEF Ahead
<1>9. QED
  BY <1>3, <1>5, <1>7, <1>8

(* Where a frame stands while the run has something ahead.                 *)
LEMMA StandsAt ==
  ASSUME RecInv, stack # <<>>, Top.at \in {"eval", "call"}
  PROVE  \E p, q \in 1..Len(order) :
           /\ p <= q /\ Stands(Top, p) /\ Top.stop = order[q]
           /\ Top.at = "eval" => Ahead(p, q) /\ ~Top.done
           /\ Top.at = "call" => Ahead(p + 1, q) /\ (Top.done <=> p = q)
BY TopFrame DEF RecInv, FrameInv

(* A frame that moves on from position p.                                  *)
LEMMA Advanced ==
  ASSUME RecInv, NEW p \in 1..Len(order), NEW q \in 1..Len(order), p <= q,
         NEW f \in Frame, Stands(f, p), f.stop = order[q],
         NEW g \in Frame, g.at = "loop", g.prev = f.current, g.current = mNext[f.current],
         g.stop = f.stop, g.done <=> p = q,
         order' = order, todo' \in Seq(Nodes), Ahead(p + 1, q)'
  PROVE  FrameInv(g)'
<1>1. order \in Seq(Nodes) /\ Len(order) \in Nat
  BY DEF RecInv, RecTypeOK
<1>2. f.current = order[p] /\ Live' = Live
  BY DEF Stands, Live
<1>3. CASE p = q
  <2>1. Len(todo') = 0
    BY <1>1, <1>3 DEF Ahead
  <2>2. todo' = <<>>
    BY <2>1
  <2>3. g.current = IF p = Len(order) THEN Null ELSE order[p + 1]
    BY <1>2 DEF RecInv, Linked
  <2>4. g.current \in Live \cup {Null} /\ g.prev \in Live \cup {Null}
    BY <1>1, <1>2, <2>3 DEF Live
  <2>5. QED
    BY <1>2, <1>3, <2>2, <2>4 DEF FrameInv
<1>4. CASE p # q
  <2>1. p + 1 \in 1..Len(order) /\ p + 1 <= q /\ p # Len(order)
    BY <1>1, <1>4
  <2>2. g.current = order[p + 1] /\ g.prev = order[p]
    BY <1>2, <2>1 DEF RecInv, Linked
  <2>3. p + 1 # 1 /\ (p + 1) - 1 = p
    BY <1>1
  <2>4. Stands(g, p + 1)'
    BY <2>2, <2>3 DEF Stands
  <2>5. QED
    BY <1>4, <2>1, <2>4 DEF FrameInv
<1>5. QED
  BY <1>3, <1>4

LEMMA RunDueStep ==
  ASSUME RecInv, RunDue
  PROVE  RecInv'
<1>1. stack # <<>> /\ Top.at = "eval" /\ Len(stack) = 1 /\ Top \in Frame
  BY TopFrame DEF RunDue, At, RecInv
<1>2. PICK f \in Frame : f = Top
  BY <1>1
<1>3. PICK p \in 1..Len(order), q \in 1..Len(order) :
        p <= q /\ Stands(f, p) /\ f.stop = order[q] /\ Ahead(p, q) /\ ~f.done
  BY <1>1, <1>2, StandsAt
<1>4. PICK g \in Frame : g = [f EXCEPT !.done = IsStop(f), !.at = "call"]
  BY DEF Frame, IsStop
<1>5. Replace(g) /\ Looked /\ UNCHANGED <<list, fence, grain, compute, late>>
  BY <1>2, <1>4 DEF RunDue
<1>6. /\ g.at = "call" /\ g.stop = f.stop /\ g.current = f.current
      /\ g.prev = f.prev /\ g.done = (f.current = f.stop)
  BY <1>4 DEF Frame, IsStop
<1>7. order' = order
  BY <1>5 DEF list
<1>8. todo' \in Seq(Nodes) /\ Ahead(p + 1, q)'
  BY <1>1, <1>3, <1>5, <1>7, LookedAhead DEF RecInv
<1>9. g.done <=> p = q
  BY <1>3, <1>6, ZenonT(60) DEF RecInv, Linked, Stands
<1>10. Stands(g, p)'
  BY <1>3, <1>6, <1>7 DEF Stands
<1>11. FrameInv(g)'
  BY <1>3, <1>6, <1>7, <1>8, <1>9, <1>10 DEF FrameInv
<1>12. QED
  BY <1>1, <1>5, <1>8, <1>11, FrameStep

LEMMA RunNotDueStep ==
  ASSUME RecInv, RunNotDue
  PROVE  RecInv'
<1>1. stack # <<>> /\ Top.at = "eval" /\ Len(stack) = 1 /\ Top \in Frame
  BY TopFrame DEF RunNotDue, At, RecInv
<1>2. PICK f \in Frame : f = Top
  BY <1>1
<1>3. PICK p \in 1..Len(order), q \in 1..Len(order) :
        p <= q /\ Stands(f, p) /\ f.stop = order[q] /\ Ahead(p, q) /\ ~f.done
  BY <1>1, <1>2, StandsAt
<1>4. f.current \in Nodes
  BY <1>3, OrderNodes DEF RecInv, Stands
<1>5. PICK n \in Nodes \cup {Null} : n = mNext[f.current]
  BY <1>4 DEF RecInv, RecTypeOK
<1>6. PICK g \in Frame : g = [[f EXCEPT !.prev = f.current, !.current = n, !.at = "loop"]
                                EXCEPT !.done = IsStop(f)]
  BY <1>4 DEF Frame, IsStop
<1>7. Replace(g) /\ Looked /\ UNCHANGED <<list, fence, grain, compute, late>>
  BY <1>2, <1>5, <1>6 DEF RunNotDue, Advance
<1>8. /\ g.at = "loop" /\ g.stop = f.stop /\ g.current = n
      /\ g.prev = f.current /\ g.done = (f.current = f.stop)
  BY <1>6 DEF Frame, IsStop
<1>9. order' = order
  BY <1>7 DEF list
<1>10. todo' \in Seq(Nodes) /\ Ahead(p + 1, q)'
  BY <1>1, <1>3, <1>7, <1>9, LookedAhead DEF RecInv
<1>11. g.done <=> p = q
  BY <1>3, <1>8, ZenonT(60) DEF RecInv, Linked, Stands
<1>12. FrameInv(g)'
  BY <1>3, <1>5, <1>8, <1>9, <1>10, <1>11, Advanced
<1>13. QED
  BY <1>1, <1>7, <1>10, <1>12, FrameStep

LEMMA RunKeepStep ==
  ASSUME RecInv, RunKeep
  PROVE  RecInv'
<1>1. stack # <<>> /\ Top.at = "call" /\ Len(stack) = 1 /\ Top \in Frame
  BY TopFrame DEF RunKeep, At, RecInv
<1>2. PICK f \in Frame : f = Top
  BY <1>1
<1>3. PICK p \in 1..Len(order), q \in 1..Len(order) :
        p <= q /\ Stands(f, p) /\ f.stop = order[q] /\ Ahead(p + 1, q) /\ (f.done <=> p = q)
  BY <1>1, <1>2, StandsAt
<1>4. f.current \in Nodes
  BY <1>3, OrderNodes DEF RecInv, Stands
<1>5. PICK n \in Nodes \cup {Null} : n = mNext[f.current]
  BY <1>4 DEF RecInv, RecTypeOK
<1>6. PICK g \in Frame : g = [f EXCEPT !.prev = f.current, !.current = n, !.at = "loop"]
  BY <1>4 DEF Frame
<1>7. Replace(g) /\ UNCHANGED <<list, fence, grain, compute, todo, late>>
  BY <1>2, <1>5, <1>6 DEF RunKeep, Advance
<1>8. /\ g.at = "loop" /\ g.stop = f.stop /\ g.current = n
      /\ g.prev = f.current /\ g.done = f.done
  BY <1>6 DEF Frame
<1>9. order' = order /\ todo' = todo /\ todo' \in Seq(Nodes)
  BY <1>7 DEF list, RecInv, RecTypeOK
<1>10. Ahead(p + 1, q)'
  BY <1>3, <1>9 DEF Ahead
<1>11. FrameInv(g)'
  BY <1>3, <1>5, <1>8, <1>9, <1>10, Advanced
<1>12. QED
  BY <1>1, <1>7, <1>9, <1>11, FrameStep

LEMMA RunLoopStep ==
  ASSUME RecInv, RunLoop
  PROVE  RecInv'
<1>1. stack # <<>> /\ Top.at = "loop" /\ Top \in Frame /\ FrameInv(Top)
  BY TopFrame DEF RunLoop, At, RecInv
<1>2. PICK f \in Frame : f = Top
  BY <1>1
<1>3. PICK g \in Frame : g = [f EXCEPT !.at = "eval"]
  BY DEF Frame
<1>4. Replace(g) /\ ~f.done /\ UNCHANGED <<list, fence, grain, compute, todo, late>>
  BY <1>2, <1>3 DEF RunLoop
<1>5. /\ g.at = "eval" /\ g.stop = f.stop /\ g.current = f.current
      /\ g.prev = f.prev /\ g.done = f.done
  BY <1>3 DEF Frame
<1>6. order' = order /\ todo' = todo /\ todo' \in Seq(Nodes)
  BY <1>4 DEF list, RecInv, RecTypeOK
<1>7. PICK p \in 1..Len(order), q \in 1..Len(order) :
        p <= q /\ Stands(f, p) /\ f.stop = order[q] /\ Ahead(p, q)
  BY <1>1, <1>2, <1>4 DEF FrameInv
<1>8. Stands(g, p)' /\ Ahead(p, q)'
  BY <1>5, <1>6, <1>7 DEF Stands, Ahead
<1>9. FrameInv(g)'
  BY <1>4, <1>5, <1>6, <1>7, <1>8 DEF FrameInv
<1>10. QED
  BY <1>1, <1>4, <1>6, <1>9, FrameStep

LEMMA RunExitStep ==
  ASSUME RecInv, RunExit
  PROVE  RecInv'
<1>1. stack # <<>> /\ Len(stack) = 1
  BY TopFrame DEF RunExit, At, RecInv
<1>2. /\ stack' = SubSeq(stack, 1, Len(stack) - 1) /\ fence' = FALSE
      /\ UNCHANGED <<list, grain, compute, todo, late>>
  BY DEF RunExit
<1>3. stack' = <<>> /\ stack' \in Seq(Frame)
  BY <1>1, <1>2 DEF RecInv, RecTypeOK
<1>4. RunInv'
  BY <1>2, <1>3 DEF RunInv
<1>5. RecTypeOK'
  BY <1>2, <1>3, SameList, ZenonT(60) DEF RecInv, RecTypeOK
<1>6. QED
  BY <1>2, <1>4, <1>5, SameList DEF RecInv

-----------------------------------------------------------------------------
(* Changes of the list                                                     *)

(* The list without the node at position p.                                *)
LEMMA WithoutAt ==
  ASSUME RecTypeOK, Linked, NEW p \in 1..Len(order)
  PROVE  LET s == Without(order, order[p]) IN
         /\ s \in Seq(Nodes) /\ Len(s) = Len(order) - 1
         /\ \A i \in 1..Len(order) - 1 : s[i] = IF i < p THEN order[i] ELSE order[i + 1]
<1>1. order \in Seq(Nodes) /\ Len(order) \in Nat
  BY DEF RecTypeOK
<1>2. (CHOOSE i \in 1..Len(order) : order[i] = order[p]) = p
  BY DEF Linked
<1>3. Without(order, order[p])
        = [i \in 1..Len(order) - 1 |-> IF i < p THEN order[i] ELSE order[i + 1]]
  BY <1>2 DEF Without
<1>4. \A i \in 1..Len(order) - 1 : order[i] \in Nodes /\ order[i + 1] \in Nodes
  BY <1>1
<1>5. Len(order) - 1 \in Nat
  BY <1>1
<1>6. QED
  BY <1>3, <1>4, <1>5

LEMMA RunRemoveLinked ==
  ASSUME RecInv, RunRemove, NEW p \in 1..Len(order), Stands(Top, p)
  PROVE  /\ order' = Without(order, order[p])
         /\ Linked' /\ rFirst' \in Nodes \cup {Null} /\ rLast' \in Nodes \cup {Null}
         /\ mNext' \in [Nodes -> Nodes \cup {Null}]
<1>1. order \in Seq(Nodes) /\ Len(order) \in Nat
  BY DEF RecInv, RecTypeOK
<1>2. /\ Top.current = order[p]
      /\ Top.prev = IF p = 1 THEN Null ELSE order[p - 1]
  BY DEF Stands
<1>3. PICK next : next = mNext[order[p]]
  OBVIOUS
<1>4. next = IF p = Len(order) THEN Null ELSE order[p + 1]
  BY <1>3 DEF RecInv, Linked
<1>5. /\ rLast' = IF rLast = order[p] THEN Top.prev ELSE rLast
      /\ rFirst' = IF Top.prev = Null THEN next ELSE rFirst
      /\ mNext' = [m \in Nodes |-> IF m = Top.prev THEN next ELSE mNext[m]]
      /\ order' = Without(order, order[p])
  BY <1>2, <1>3 DEF RunRemove, LastAfter
<1>6. PICK s : s = order'
  OBVIOUS
<1>7. /\ s \in Seq(Nodes) /\ Len(s) = Len(order) - 1
      /\ \A i \in 1..Len(order) - 1 : s[i] = IF i < p THEN order[i] ELSE order[i + 1]
  BY <1>5, <1>6, WithoutAt DEF RecInv
<1>8. \A i \in 1..Len(order) : order[i] \in Nodes /\ order[i] # Null
  BY OrderNodes DEF RecInv
<1>9. \A i, j \in 1..Len(order) : order[i] = order[j] => i = j
  BY DEF RecInv, Linked
<1>10. rLast = order[Len(order)] /\ rFirst = order[1]
  BY <1>1 DEF RecInv, Linked
<1>11. rFirst' = IF s = <<>> THEN Null ELSE s[1]
  <2>1. CASE p = 1 /\ Len(order) = 1
    <3>1. s = <<>>
      BY <1>7, <2>1
    <3>2. QED
      BY <1>2, <1>4, <1>5, <2>1, <3>1
  <2>2. CASE p = 1 /\ Len(order) # 1
    <3>1. s # <<>> /\ s[1] = order[2]
      BY <1>1, <1>7, <2>2
    <3>2. QED
      BY <1>2, <1>4, <1>5, <2>2, <3>1
  <2>3. CASE p # 1
    <3>1. s # <<>> /\ s[1] = order[1] /\ order[p - 1] # Null
      BY <1>1, <1>7, <1>8, <2>3
    <3>2. QED
      BY <1>2, <1>5, <1>10, <2>3, <3>1
  <2>4. QED
    BY <2>1, <2>2, <2>3
<1>12. rLast' = IF s = <<>> THEN Null ELSE s[Len(s)]
  <2>1. CASE p = Len(order) /\ p = 1
    <3>1. s = <<>>
      BY <1>7, <2>1
    <3>2. QED
      BY <1>2, <1>5, <1>10, <2>1, <3>1
  <2>2. CASE p = Len(order) /\ p # 1
    <3>1. s # <<>> /\ Len(s) = p - 1 /\ s[Len(s)] = order[p - 1]
      BY <1>1, <1>7, <2>2
    <3>2. QED
      BY <1>2, <1>5, <1>10, <2>2, <3>1
  <2>3. CASE p # Len(order)
    <3>1. s # <<>> /\ s[Len(s)] = order[Len(order)]
      BY <1>1, <1>7, <2>3
    <3>2. rLast # order[p]
      BY <1>1, <1>9, <1>10, <2>3
    <3>3. QED
      BY <1>5, <1>10, <3>1, <3>2
  <2>4. QED
    BY <2>1, <2>2, <2>3
<1>13. ASSUME NEW i \in 1..Len(s)
       PROVE  mNext'[s[i]] = IF i = Len(s) THEN Null ELSE s[i + 1]
  <2>1. i \in 1..Len(order) - 1 /\ i \in Nat
    BY <1>1, <1>7
  <2>2. s[i] \in Nodes
    BY <1>7
  <2>3. mNext'[s[i]] = IF s[i] = Top.prev THEN next ELSE mNext[s[i]]
    BY <1>5, <2>2
  <2>4. CASE i < p - 1
    <3>1. s[i] = order[i] /\ s[i + 1] = order[i + 1] /\ i # Len(s) /\ i # Len(order)
      BY <1>1, <1>7, <2>1, <2>4
    <3>2. s[i] # Top.prev
      <4>1. p # 1 /\ p - 1 \in 1..Len(order) /\ i # p - 1 /\ i \in 1..Len(order)
        BY <1>1, <2>1, <2>4
      <4>2. order[i] # order[p - 1]
        BY <1>9, <4>1
      <4>3. QED
        BY <1>2, <3>1, <4>1, <4>2
    <3>3. mNext[order[i]] = order[i + 1]
      <4>1. i \in 1..Len(order)
        BY <1>1, <2>1
      <4>2. QED
        BY <3>1, <4>1 DEF RecInv, Linked
    <3>4. QED
      BY <2>3, <3>1, <3>2, <3>3
  <2>5. CASE i = p - 1
    <3>1. s[i] = order[p - 1] /\ p # 1
      BY <1>1, <1>7, <2>1, <2>5
    <3>2. mNext'[s[i]] = next
      BY <1>2, <2>3, <3>1
    <3>3. CASE p = Len(order)
      BY <1>1, <1>4, <1>7, <2>5, <3>2, <3>3
    <3>4. CASE p # Len(order)
      <4>1. i # Len(s) /\ i + 1 = p /\ p \in 1..Len(order) - 1
        BY <1>1, <1>7, <2>5, <3>4
      <4>2. s[i + 1] = order[p + 1]
        BY <1>1, <1>7, <4>1
      <4>3. QED
        BY <1>4, <3>2, <3>4, <4>1, <4>2
    <3>5. QED
      BY <3>3, <3>4
  <2>6. CASE i >= p
    <3>1. s[i] = order[i + 1] /\ i + 1 \in 1..Len(order)
      BY <1>1, <1>7, <2>1, <2>6
    <3>2. s[i] # Top.prev
      <4>1. p # 1 => p - 1 \in 1..Len(order) /\ i + 1 # p - 1
        BY <1>1, <2>1, <2>6
      <4>2. p # 1 => order[i + 1] # order[p - 1]
        BY <1>9, <3>1, <4>1
      <4>3. order[i + 1] # Null
        BY <1>8, <3>1
      <4>4. QED
        BY <1>2, <3>1, <4>2, <4>3
    <3>3. mNext[order[i + 1]] = IF i + 1 = Len(order) THEN Null ELSE order[i + 2]
      <4>1. (i + 1) + 1 = i + 2
        BY <2>1
      <4>2. QED
        BY <3>1, <4>1 DEF RecInv, Linked
    <3>4. i # Len(s) => s[i + 1] = order[i + 2]
      <4>1. ASSUME i # Len(s)
            PROVE  s[i + 1] = order[i + 2]
        <5>1. i + 1 \in 1..Len(order) - 1 /\ ~(i + 1 < p) /\ (i + 1) + 1 = i + 2
          BY <1>1, <1>7, <2>1, <2>6, <4>1
        <5>2. QED
          BY <1>7, <5>1
      <4>2. QED
        BY <4>1
    <3>5. i = Len(s) <=> i + 1 = Len(order)
      BY <1>1, <1>7, <2>1
    <3>6. QED
      BY <2>3, <3>1, <3>2, <3>3, <3>4, <3>5
  <2>7. QED
    BY <1>1, <2>1, <2>4, <2>5, <2>6
<1>14. \A i, j \in 1..Len(s) : s[i] = s[j] => i = j
  BY <1>1, <1>7, <1>9
<1>15. Linked'
  BY <1>6, <1>11, <1>12, <1>13, <1>14 DEF Linked
<1>16. next \in Nodes \cup {Null}
  BY <1>1, <1>4, <1>8
<1>17. Top.prev \in Nodes \cup {Null}
  BY <1>1, <1>2, <1>8
<1>18. QED
  BY <1>5, <1>15, <1>16, <1>17 DEF RecInv, RecTypeOK

LEMMA RunRemoveStep ==
  ASSUME RecInv, RunRemove
  PROVE  RecInv'
<1>1. stack # <<>> /\ Top.at = "call" /\ Len(stack) = 1 /\ Top \in Frame /\ fence /\ gpc = "idle"
  BY TopFrame DEF RunRemove, At, RecInv
<1>2. PICK f \in Frame : f = Top
  BY <1>1
<1>3. PICK p \in 1..Len(order), q \in 1..Len(order) :
        p <= q /\ Stands(f, p) /\ f.stop = order[q] /\ Ahead(p + 1, q) /\ (f.done <=> p = q)
  BY <1>1, <1>2, StandsAt
<1>4. order \in Seq(Nodes) /\ Len(order) \in Nat /\ todo \in Seq(Nodes)
  BY DEF RecInv, RecTypeOK
<1>5. PICK s : s = order'
  OBVIOUS
<1>6. /\ s = Without(order, order[p])
      /\ Linked' /\ rFirst' \in Nodes \cup {Null} /\ rLast' \in Nodes \cup {Null}
      /\ mNext' \in [Nodes -> Nodes \cup {Null}]
  BY <1>2, <1>3, <1>5, RunRemoveLinked
<1>7. /\ s \in Seq(Nodes) /\ Len(s) = Len(order) - 1
      /\ \A i \in 1..Len(order) - 1 : s[i] = IF i < p THEN order[i] ELSE order[i + 1]
  BY <1>6, WithoutAt DEF RecInv
<1>8. f.current = order[p] /\ f.prev = IF p = 1 THEN Null ELSE order[p - 1]
  BY <1>3 DEF Stands
<1>9. PICK n \in Nodes \cup {Null} : n = mNext[f.current]
  BY <1>4, <1>8 DEF RecInv, RecTypeOK
<1>10. n = IF p = Len(order) THEN Null ELSE order[p + 1]
  BY <1>8, <1>9 DEF RecInv, Linked
<1>11. PICK g \in Frame : g = [f EXCEPT !.current = n, !.at = "loop"]
  BY DEF Frame
<1>12. Replace(g) /\ grain' = 0 /\ UNCHANGED <<timeout, fence, compute, todo, late>>
  BY <1>2, <1>9, <1>11 DEF RunRemove, CurrentAfter, GrainAfter
<1>13. g.at = "loop" /\ g.stop = f.stop /\ g.current = n /\ g.prev = f.prev /\ g.done = f.done
  BY <1>11 DEF Frame
<1>14. Len(stack') = 1 /\ stack' \in Seq(Frame) /\ stack'[1] = g
  BY <1>1, <1>12, ReplacedFrame DEF RecInv
<1>15. fence' = fence /\ gpc' = gpc /\ it' = it /\ acc' = acc /\ late' = late /\ timeout' = timeout /\ todo' = todo
  BY <1>12 DEF compute
<1>16. FrameInv(g)'
  <2>1. CASE p = q
    <3>1. Len(todo) = 0
      BY <1>3, <1>4, <2>1 DEF Ahead
    <3>2. todo' = <<>>
      BY <1>4, <1>15, <3>1
    <3>3. n = Null \/ \E i \in 1..Len(s) : n = s[i]
      <4>1. CASE p # Len(order)
        <5>1. p \in 1..Len(s) /\ s[p] = order[p + 1]
          BY <1>4, <1>7, <4>1
        <5>2. QED
          BY <1>10, <4>1, <5>1
      <4>2. QED
        BY <1>10, <4>1
    <3>4. f.prev = Null \/ \E i \in 1..Len(s) : f.prev = s[i]
      <4>1. CASE p # 1
        <5>1. p - 1 \in 1..Len(s) /\ s[p - 1] = order[p - 1]
          BY <1>4, <1>7, <4>1
        <5>2. QED
          BY <1>8, <4>1, <5>1
      <4>2. QED
        BY <1>8, <4>1
    <3>5. Live' = {s[i] : i \in 1..Len(s)}
      BY <1>5 DEF Live
    <3>6. g.current \in Live' \cup {Null} /\ g.prev \in Live' \cup {Null}
      BY <1>13, <3>3, <3>4, <3>5
    <3>7. QED
      BY <1>3, <1>13, <2>1, <3>2, <3>6 DEF FrameInv
  <2>2. CASE p # q
    <3>1. p # Len(order) /\ p \in 1..Len(s) /\ q - 1 \in 1..Len(s) /\ p <= q - 1
      BY <1>3, <1>4, <1>7, <2>2
    <3>2. s[p] = order[p + 1] /\ s[q - 1] = order[q]
      BY <1>3, <1>4, <1>7, <2>2, <3>1
    <3>3. p # 1 => s[p - 1] = order[p - 1]
      BY <1>4, <1>7, <3>1
    <3>4. Stands(g, p)'
      BY <1>5, <1>8, <1>10, <1>13, <3>1, <3>2, <3>3 DEF Stands
    <3>5. Len(todo') = q - 1 + 1 - p
      BY <1>3, <1>4, <1>15 DEF Ahead
    <3>6. ASSUME NEW i \in 1..Len(todo')
          PROVE  todo'[i] = s[p + i - 1]
      <4>1. p + i - 1 \in 1..Len(order) - 1 /\ ~(p + i - 1 < p) /\ i \in 1..Len(todo)
        BY <1>3, <1>4, <1>15, <3>5
      <4>2. s[p + i - 1] = order[(p + i - 1) + 1]
        BY <1>7, <4>1
      <4>3. todo[i] = order[p + 1 + i - 1]
        BY <1>3, <4>1 DEF Ahead
      <4>4. (p + i - 1) + 1 = p + 1 + i - 1
        BY <1>4, <4>1
      <4>5. QED
        BY <1>15, <4>2, <4>3, <4>4
    <3>7. Ahead(p, q - 1)'
      BY <1>5, <3>5, <3>6 DEF Ahead
    <3>8. g.stop = s[q - 1] /\ ~g.done
      BY <1>3, <1>13, <2>2, <3>2
    <3>9. QED
      BY <1>5, <1>13, <3>1, <3>4, <3>7, <3>8 DEF FrameInv
  <2>3. QED
    BY <2>1, <2>2
<1>17. RunInv'
  BY <1>1, <1>14, <1>15, <1>16 DEF RunInv
<1>18. RecTypeOK'
  <2>1. \E us \in Intervals \cup {0} : 1000 * grain' < us + 1000
    BY <1>12
  <2>2. QED
    BY <1>5, <1>6, <1>7, <1>12, <1>14, <1>15, <2>1 DEF RecInv, RecTypeOK
<1>19. SumInv'
  BY <1>1, <1>15 DEF RecInv, SumInv
<1>20. GrainSound'
  BY <1>12 DEF GrainSound
<1>21. QED
  BY <1>6, <1>17, <1>18, <1>19, <1>20 DEF RecInv

(* An interrupt appends a function between any two steps.                  *)
LEMMA ScheduleStep ==
  ASSUME RecInv, NEW n \in Nodes, NEW us \in Intervals, ScheduleRecurrent(n, us)
  PROVE  RecInv'
<1>1. order \in Seq(Nodes) /\ Len(order) \in Nat /\ todo \in Seq(Nodes)
  BY DEF RecInv, RecTypeOK
<1>2. /\ n \notin Live
      /\ timeout' = [timeout EXCEPT ![n] = us]
      /\ mNext' = [m \in Nodes |-> IF m = n THEN Null ELSE IF m = rLast THEN n ELSE mNext[m]]
      /\ rFirst' = IF rLast # Null THEN rFirst ELSE n
      /\ rLast' = n /\ grain' = 0 /\ order' = Append(order, n)
      /\ late' = (late \/ gpc = "sum")
      /\ fence' = fence /\ stack' = stack /\ todo' = todo
      /\ gpc' = gpc /\ it' = it /\ acc' = acc
  BY DEF ScheduleRecurrent, compute
<1>3. PICK s : s = order'
  OBVIOUS
<1>4. /\ s \in Seq(Nodes) /\ Len(s) = Len(order) + 1 /\ s[Len(order) + 1] = n
      /\ \A i \in 1..Len(order) : s[i] = order[i]
  BY <1>1, <1>2, <1>3
<1>5. \A i \in 1..Len(order) : order[i] \in Nodes /\ order[i] # Null /\ order[i] # n
  BY <1>2, OrderNodes DEF RecInv
<1>6. n # Null
  BY OrderNodes DEF RecInv
<1>7. rLast = (IF order = <<>> THEN Null ELSE order[Len(order)]) /\ rFirst = IF order = <<>> THEN Null ELSE order[1]
  BY DEF RecInv, Linked
<1>8. rFirst' = s[1] /\ s # <<>>
  <2>1. CASE order = <<>>
    BY <1>2, <1>4, <1>7, <2>1
  <2>2. CASE order # <<>>
    <3>1. rLast # Null
      BY <1>1, <1>5, <1>7, <2>2
    <3>2. QED
      BY <1>1, <1>2, <1>4, <1>7, <2>2, <3>1
  <2>3. QED
    BY <2>1, <2>2
<1>9. ASSUME NEW i \in 1..Len(s)
      PROVE  mNext'[s[i]] = IF i = Len(s) THEN Null ELSE s[i + 1]
  <2>1. s[i] \in Nodes
    BY <1>4
  <2>2. CASE i = Len(s)
    BY <1>2, <1>4, <2>1, <2>2
  <2>3. CASE i = Len(order)
    <3>1. order # <<>> /\ s[i] = rLast /\ s[i] # n /\ s[i + 1] = n /\ i # Len(s)
      BY <1>1, <1>4, <1>5, <1>7, <2>3
    <3>2. QED
      BY <1>2, <2>1, <3>1
  <2>4. CASE i < Len(order)
    <3>1. i \in 1..Len(order) /\ order # <<>> /\ i # Len(order) /\ i + 1 \in 1..Len(order) /\ i # Len(s)
      BY <1>1, <1>4, <2>4
    <3>2. s[i] = order[i] /\ s[i] # n /\ s[i + 1] = order[i + 1]
      BY <1>4, <1>5, <3>1
    <3>3. s[i] # rLast
      <4>1. Len(order) \in 1..Len(order)
        BY <1>1, <3>1
      <4>2. QED
        BY <1>7, <3>1, <3>2, <4>1 DEF RecInv, Linked
    <3>4. mNext[s[i]] = s[i + 1]
      BY <3>1, <3>2 DEF RecInv, Linked
    <3>5. QED
      BY <1>2, <2>1, <3>1, <3>2, <3>3, <3>4
  <2>5. QED
    BY <1>1, <1>4, <2>2, <2>3, <2>4
<1>10. \A i, j \in 1..Len(s) : s[i] = s[j] => i = j
  <2>1. \A i, j \in 1..Len(order) : order[i] = order[j] => i = j
    BY DEF RecInv, Linked
  <2>2. QED
    BY <1>1, <1>4, <1>5, <2>1
<1>11. Linked'
  <2>1. rFirst' = IF s = <<>> THEN Null ELSE s[1]
    BY <1>8
  <2>2. rLast' = IF s = <<>> THEN Null ELSE s[Len(s)]
    BY <1>2, <1>4, <1>8
  <2>3. \A i \in 1..Len(s) : mNext'[s[i]] = IF i = Len(s) THEN Null ELSE s[i + 1]
    BY <1>9
  <2>4. QED
    BY <1>3, <1>10, <2>1, <2>2, <2>3 DEF Linked
<1>12. RunInv'
  <2>1. ASSUME FrameInv(stack[1])
        PROVE  FrameInv(stack[1])'
    <3>1. PICK f : f = stack[1]
      OBVIOUS
    <3>2. \A p \in 1..Len(order) : Stands(f, p) => Stands(f, p)'
      <4> TAKE p \in 1..Len(order)
      <4>1. p # 1 => p - 1 \in 1..Len(order)
        BY <1>1
      <4>2. QED
        BY <1>3, <1>4, <4>1 DEF Stands
    <3>3. ASSUME NEW p \in Nat, p >= 1, NEW q \in 1..Len(order), Ahead(p, q)
          PROVE  Ahead(p, q)'
      <4>1. \A i \in 1..Len(todo) : p + i - 1 \in 1..Len(order)
        BY <1>1, <3>3 DEF Ahead
      <4>2. QED
        BY <1>2, <1>3, <1>4, <3>3, <4>1 DEF Ahead
    <3>4. CASE f.at = "stop" /\ ~f.done /\ order # <<>> /\ f.current = rFirst /\ f.prev = Null
      <4>1. rFirst' = rFirst
        BY <1>1, <1>4, <1>7, <1>8, <3>4
      <4>2. QED
        BY <1>2, <1>3, <1>8, <3>1, <3>4, <4>1 DEF FrameInv
    <3>5. CASE /\ f.at \in {"eval", "loop"} /\ ~f.done
               /\ \E p, q \in 1..Len(order) :
                    p <= q /\ Stands(f, p) /\ f.stop = order[q] /\ Ahead(p, q)
      <4>1. PICK p \in 1..Len(order), q \in 1..Len(order) :
              p <= q /\ Stands(f, p) /\ f.stop = order[q] /\ Ahead(p, q)
        BY <3>5
      <4>2. Stands(f, p)' /\ Ahead(p, q)' /\ f.stop = s[q] /\ p \in 1..Len(s) /\ q \in 1..Len(s)
        BY <1>1, <1>4, <3>2, <3>3, <4>1
      <4>3. QED
        BY <1>2, <1>3, <3>1, <3>5, <4>1, <4>2 DEF FrameInv
    <3>6. CASE /\ f.at = "call"
               /\ \E p, q \in 1..Len(order) :
                    p <= q /\ Stands(f, p) /\ f.stop = order[q] /\ Ahead(p + 1, q)
                    /\ (f.done <=> p = q)
      <4>1. PICK p \in 1..Len(order), q \in 1..Len(order) :
              p <= q /\ Stands(f, p) /\ f.stop = order[q] /\ Ahead(p + 1, q) /\ (f.done <=> p = q)
        BY <3>6
      <4>2. p + 1 \in Nat /\ p + 1 >= 1
        BY <1>1
      <4>3. Stands(f, p)' /\ Ahead(p + 1, q)' /\ f.stop = s[q] /\ p \in 1..Len(s) /\ q \in 1..Len(s)
        BY <1>1, <1>4, <3>2, <3>3, <4>1, <4>2
      <4>4. QED
        BY <1>2, <1>3, <3>1, <3>6, <4>1, <4>3 DEF FrameInv
    <3>7. CASE /\ f.at = "loop" /\ f.done
               /\ f.current \in Live \cup {Null} /\ f.prev \in Live \cup {Null}
               /\ todo = <<>>
      <4>1. Live \subseteq Live'
        BY <1>1, <1>3, <1>4 DEF Live
      <4>2. QED
        BY <1>2, <3>1, <3>7, <4>1 DEF FrameInv
    <3>8. QED
      BY <2>1, <3>1, <3>4, <3>5, <3>6, <3>7 DEF FrameInv
  <2>2. QED
    BY <1>2, <2>1 DEF RecInv, RunInv
<1>13. RecTypeOK'
  <2>1. \E u \in Intervals \cup {0} : 1000 * grain' < u + 1000
    <3>1. grain' = 0 /\ 0 \in Intervals \cup {0}
      BY <1>2
    <3>2. QED
      BY <3>1
  <2>2. timeout' \in [Nodes -> Intervals \cup {0}]
    BY <1>2 DEF RecInv, RecTypeOK
  <2>3. mNext' \in [Nodes -> Nodes \cup {Null}]
    BY <1>2 DEF RecInv, RecTypeOK
  <2>4. rFirst' \in Nodes \cup {Null} /\ rLast' \in Nodes \cup {Null} /\ late' \in BOOLEAN
    BY <1>2 DEF RecInv, RecTypeOK
  <2>5. QED
    BY <1>2, <1>3, <1>4, <2>1, <2>2, <2>3, <2>4 DEF RecInv, RecTypeOK
<1>14. SumInv'
  BY <1>2 DEF RecInv, SumInv
<1>15. GrainSound'
  BY <1>2 DEF GrainSound
<1>16. QED
  BY <1>11, <1>12, <1>13, <1>14, <1>15 DEF RecInv

-----------------------------------------------------------------------------
(* compute_scheduled_recurrent_grain()                                     *)

LEMMA PrefixNat ==
  ASSUME RecTypeOK, NEW k \in 1..Len(order)
  PROVE  /\ Prefix(k) \in SUBSET Nat
         /\ k + 1 \in 1..Len(order) => Prefix(k + 1) = Prefix(k) \cup {timeout[order[k + 1]]}
<1>1. order \in Seq(Nodes) /\ Len(order) \in Nat
  BY DEF RecTypeOK
<1>2. \A n \in Nodes : timeout[n] \in Nat
  <2>1. \A n \in Nodes : timeout[n] \in Intervals \cup {0}
    BY DEF RecTypeOK
  <2>2. Intervals \cup {0} \subseteq Nat
    BY IntervalsAssumption
  <2>3. QED
    BY <2>1, <2>2
<1>3. Prefix(k) \in SUBSET Nat
  BY <1>1, <1>2 DEF Prefix
<1>4. 1..k + 1 = 1..k \cup {k + 1}
  BY <1>1
<1>5. Prefix(k + 1) = Prefix(k) \cup {timeout[order[k + 1]]}
  BY <1>4 DEF Prefix
<1>6. QED
  BY <1>3, <1>5

(* What a step of the computation leaves alone.                            *)
LEMMA ComputeStep ==
  ASSUME RecInv, UNCHANGED <<list, fence, stack, todo>>, stack = <<>>,
         it' \in Nodes \cup {Null}, acc' \in Nat, gpc' \in {"idle", "sum"}, late' \in BOOLEAN,
         grain' \in Nat, \E us \in Intervals \cup {0} : 1000 * grain' < us + 1000
  PROVE  Linked' /\ RunInv' /\ RecTypeOK' /\ Live' = Live /\ ListGrain' = ListGrain
<1>1. /\ rFirst' = rFirst /\ rLast' = rLast /\ mNext' = mNext /\ timeout' = timeout
      /\ order' = order /\ fence' = fence /\ stack' = stack /\ todo' = todo
  BY DEF list
<1>2. Linked'
  BY <1>1 DEF RecInv, Linked
<1>3. RunInv'
  BY <1>1 DEF RecInv, RunInv
<1>4. RecTypeOK'
  BY <1>1 DEF RecInv, RecTypeOK
<1>5. Live' = Live
  BY <1>1 DEF Live
<1>6. ListGrain' = ListGrain
  BY <1>1, <1>5 DEF ListGrain
<1>7. QED
  BY <1>2, <1>3, <1>4, <1>5, <1>6

LEMMA GrainStartStep ==
  ASSUME RecInv, GrainStart
  PROVE  RecInv'
<1>1. /\ gpc = "idle" /\ stack = <<>> /\ grain = 0 /\ rFirst # Null
      /\ gpc' = "sum" /\ it' = mNext[rFirst] /\ acc' = timeout[rFirst] /\ late' = FALSE
      /\ UNCHANGED <<list, fence, stack, todo>> /\ grain' = grain
  BY DEF GrainStart
<1>2. order \in Seq(Nodes) /\ Len(order) \in Nat
  BY DEF RecInv, RecTypeOK
<1>3. order # <<>> /\ rFirst = order[1] /\ 1 \in 1..Len(order) /\ rFirst \in Nodes
  BY <1>1, <1>2 DEF RecInv, Linked
<1>4. it' = IF 1 = Len(order) THEN Null ELSE order[1 + 1]
  BY <1>1, <1>3 DEF RecInv, Linked
<1>5. it' \in Nodes \cup {Null}
  BY <1>1, <1>3 DEF RecInv, RecTypeOK
<1>6. acc' \in Intervals \cup {0} /\ acc' \in Nat
  BY <1>1, <1>3, IntervalsAssumption DEF RecInv, RecTypeOK
<1>7. Linked' /\ RunInv' /\ RecTypeOK' /\ Live' = Live
  <2>1. grain' \in Nat /\ \E us \in Intervals \cup {0} : 1000 * grain' < us + 1000
    BY <1>1 DEF RecInv, RecTypeOK
  <2>2. gpc' \in {"idle", "sum"} /\ late' \in BOOLEAN
    BY <1>1
  <2>3. QED
    BY <1>1, <1>5, <1>6, <2>1, <2>2, ComputeStep
<1>8. order' = order /\ timeout' = timeout
  BY <1>1 DEF list
<1>9. Prefix(1)' = {timeout[order[1]]}
  BY <1>8 DEF Prefix
<1>10. acc' = GcdOf(Prefix(1)')
  BY <1>1, <1>3, <1>6, <1>9, GcdOfOne
<1>11. \E us \in Intervals \cup {0} : acc' <= us
  BY <1>6
<1>12. SumInv'
  BY <1>3, <1>4, <1>8, <1>10, <1>11 DEF SumInv
<1>13. GrainSound'
  BY <1>1 DEF GrainSound
<1>14. QED
  BY <1>7, <1>12, <1>13 DEF RecInv

LEMMA GrainNextStep ==
  ASSUME RecInv, GrainNext
  PROVE  RecInv'
<1>1. /\ gpc = "sum" /\ it # Null /\ it' = mNext[it] /\ acc' = GcdOf({acc, timeout[it]})
      /\ UNCHANGED <<list, fence, stack, todo>>
      /\ grain' = grain /\ gpc' = gpc /\ late' = late
  BY DEF GrainNext
<1>2. order \in Seq(Nodes) /\ Len(order) \in Nat /\ acc \in Nat
  BY DEF RecInv, RecTypeOK
<1>3. stack = <<>>
  BY <1>1 DEF RecInv, RunInv
<1>4. it \in Nodes /\ it' \in Nodes \cup {Null}
  BY <1>1 DEF RecInv, RecTypeOK
<1>5. PICK t \in Intervals \cup {0} : t = timeout[it] /\ t \in Nat
  BY <1>4, IntervalsAssumption, ZenonT(60) DEF RecInv, RecTypeOK
<1>6. acc' \in Nat /\ (acc' <= acc \/ acc' <= t)
  BY <1>1, <1>2, <1>5, GcdOfBound
<1>7. \E us \in Intervals \cup {0} : acc' <= us
  <2>1. PICK u \in Intervals \cup {0} : acc <= u
    BY DEF RecInv, SumInv
  <2>2. u \in Nat
    BY IntervalsAssumption
  <2>3. acc' <= u \/ acc' <= t
    BY <1>2, <1>6, <2>1, <2>2
  <2>4. QED
    BY <2>3
<1>8. Linked' /\ RunInv' /\ RecTypeOK' /\ Live' = Live /\ ListGrain' = ListGrain
  BY <1>1, <1>3, <1>4, <1>6, ComputeStep DEF RecInv, RecTypeOK
<1>9. order' = order /\ timeout' = timeout
  BY <1>1 DEF list
<1>10. ASSUME ~late
       PROVE  \E k \in 1..Len(order) :
                /\ it' = IF k = Len(order) THEN Null ELSE order[k + 1]
                /\ acc' = GcdOf(Prefix(k))
  <2>1. PICK k \in 1..Len(order) :
          /\ it = IF k = Len(order) THEN Null ELSE order[k + 1]
          /\ acc = GcdOf(Prefix(k))
    BY <1>1, <1>10 DEF RecInv, SumInv
  <2>2. k # Len(order) /\ it = order[k + 1] /\ k + 1 \in 1..Len(order)
    BY <1>1, <1>2, <2>1
  <2>3. Prefix(k) \in SUBSET Nat /\ Prefix(k + 1) = Prefix(k) \cup {t}
    BY <1>5, <2>2, PrefixNat DEF RecInv
  <2>4. acc' = GcdOf(Prefix(k + 1))
    BY <1>1, <1>5, <2>1, <2>3, GcdOfStep
  <2>5. it' = IF k + 1 = Len(order) THEN Null ELSE order[(k + 1) + 1]
    BY <1>1, <2>2 DEF RecInv, Linked
  <2>6. QED
    BY <2>2, <2>4, <2>5
<1>11. SumInv'
  <2>1. \A k \in 1..Len(order) : Prefix(k)' = Prefix(k)
    BY <1>9 DEF Prefix
  <2>2. QED
    BY <1>1, <1>7, <1>9, <1>10, <2>1 DEF SumInv
<1>12. GrainSound'
  BY <1>1, <1>8 DEF RecInv, GrainSound
<1>13. QED
  BY <1>8, <1>11, <1>12 DEF RecInv

(* Rounding to the upper millis.                                           *)
LEMMA ToMillisBound ==
  ASSUME NEW us \in Nat
  PROVE  ToMillis(us) \in Nat /\ 1000 * ToMillis(us) < us + 1000
<1>1. (us + 999) \div 1000 \in Nat /\ 1000 * ((us + 999) \div 1000) <= us + 999
  OBVIOUS
<1>2. QED
  BY <1>1 DEF ToMillis

LEMMA GrainStoreStep ==
  ASSUME RecInv, GrainStore
  PROVE  RecInv'
<1>1. /\ gpc = "sum" /\ it = Null /\ gpc' = "idle" /\ acc' = 0
      /\ grain' = (IF acc # 0 THEN ToMillis(acc) ELSE grain)
      /\ UNCHANGED <<list, fence, stack, todo>> /\ it' = it /\ late' = late
  BY DEF GrainStore
<1>2. order \in Seq(Nodes) /\ Len(order) \in Nat /\ acc \in Nat
  BY DEF RecInv, RecTypeOK
<1>3. stack = <<>>
  BY <1>1 DEF RecInv, RunInv
<1>4. grain' \in Nat /\ \E us \in Intervals \cup {0} : 1000 * grain' < us + 1000
  <2>1. CASE acc = 0
    BY <1>1, <2>1 DEF RecInv, RecTypeOK
  <2>2. CASE acc # 0
    <3>1. PICK u \in Intervals \cup {0} : acc <= u
      BY DEF RecInv, SumInv
    <3>2. u \in Nat
      BY IntervalsAssumption
    <3>3. ToMillis(acc) \in Nat /\ 1000 * ToMillis(acc) < acc + 1000
      <4>1. PICK a \in Nat : a = acc
        BY <1>2
      <4>2. QED
        BY <4>1, ToMillisBound
    <3>4. 1000 * grain' < u + 1000 /\ grain' \in Nat
      BY <1>1, <1>2, <2>2, <3>1, <3>2, <3>3
    <3>5. QED
      BY <3>4
  <2>3. QED
    BY <2>1, <2>2
<1>5. Linked' /\ RunInv' /\ RecTypeOK' /\ Live' = Live /\ ListGrain' = ListGrain
  BY <1>1, <1>3, <1>4, ComputeStep DEF RecInv, RecTypeOK
<1>6. SumInv'
  <2>1. acc' <= 0 /\ 0 \in Intervals \cup {0}
    BY <1>1
  <2>2. QED
    BY <1>1, <2>1 DEF SumInv
<1>7. ASSUME ~late, acc # 0
      PROVE  acc = GcdOf({timeout[n] : n \in Live})
  <2>1. PICK k \in 1..Len(order) :
          /\ it = IF k = Len(order) THEN Null ELSE order[k + 1]
          /\ acc = GcdOf(Prefix(k))
    BY <1>1, <1>7 DEF RecInv, SumInv
  <2>2. k = Len(order)
    <3>1. k # Len(order) => k + 1 \in 1..Len(order)
      BY <1>2
    <3>2. QED
      BY <1>1, <2>1, <3>1, OrderNodes DEF RecInv
  <2>3. Prefix(k) = {timeout[n] : n \in Live}
    BY <2>2 DEF Prefix, Live
  <2>4. QED
    BY <2>1, <2>3
<1>8. GrainSound'
  <2>1. ASSUME ~late, acc # 0
        PROVE  grain' = ListGrain
    BY <1>1, <1>7, <2>1 DEF ListGrain
  <2>2. QED
    BY <1>1, <1>5, <2>1 DEF RecInv, GrainSound
<1>9. QED
  BY <1>5, <1>6, <1>8 DEF RecInv

-----------------------------------------------------------------------------
(* The theorems                                                            *)

LEMMA RecInvInit ==
  ASSUME RecInit
  PROVE  RecInv
<1>1. order = <<>> /\ todo = <<>> /\ stack = <<>> /\ acc = 0 /\ grain = 0 /\ gpc = "idle" /\ ~fence
  BY DEF RecInit
<1>2. 0 \in Intervals \cup {0} /\ acc <= 0 /\ 1000 * grain < 0 + 1000
  BY <1>1
<1>3. RecTypeOK
  <2>1. \E us \in Intervals \cup {0} : 1000 * grain < us + 1000
    BY <1>2
  <2>2. stack \in Seq(Frame) /\ order \in Seq(Nodes) /\ todo \in Seq(Nodes)
    BY <1>1
  <2>3. /\ mNext \in [Nodes -> Nodes \cup {Null}] /\ timeout \in [Nodes -> Intervals \cup {0}]
        /\ rFirst \in Nodes \cup {Null} /\ rLast \in Nodes \cup {Null} /\ it \in Nodes \cup {Null}
        /\ fence \in BOOLEAN /\ late \in BOOLEAN
    BY DEF RecInit
  <2>4. grain \in Nat /\ acc \in Nat /\ gpc \in {"idle", "sum"}
    BY <1>1
  <2>5. QED
    BY <2>1, <2>2, <2>3, <2>4 DEF RecTypeOK
<1>4. Linked
  BY <1>1 DEF RecInit, Linked
<1>5. SumInv
  BY <1>1, <1>2 DEF SumInv
<1>6. RunInv /\ GrainSound
  BY <1>1 DEF RunInv, GrainSound
<1>7. QED
  BY <1>3, <1>4, <1>5, <1>6 DEF RecInv

LEMMA RecInvNext ==
  ASSUME RecInv, [RecNext]_recVars
  PROVE  RecInv'
<1>1. CASE Schedule
  BY <1>1, ScheduleStep DEF Schedule
<1>2. CASE RunEnter
  BY <1>2, RunEnterStep
<1>3. CASE Run
  BY <1>3, RunStopStep, RunDueStep, RunNotDueStep, RunKeepStep, RunRemoveStep,
     RunLoopStep, RunExitStep DEF Run
<1>4. CASE Compute
  BY <1>4, GrainStartStep, GrainNextStep, GrainStoreStep DEF Compute
<1>5. CASE UNCHANGED recVars
  <2>1. UNCHANGED <<list, grain, compute, late>> /\ UNCHANGED <<fence, stack, todo>>
    BY <1>5 DEF recVars
  <2>2. order' = order /\ rFirst' = rFirst /\ gpc' = gpc /\ todo' = todo /\ stack' = stack /\ fence' = fence
    BY <2>1 DEF list, compute
  <2>3. RunInv'
    BY <2>2 DEF RecInv, RunInv, FrameInv, Stands, Ahead, Live
  <2>4. RecTypeOK'
    BY <2>1, <2>2, SameList DEF RecInv, RecTypeOK
  <2>5. QED
    BY <2>1, <2>3, <2>4, SameList DEF RecInv
<1>6. QED
  BY <1>1, <1>2, <1>3, <1>4, <1>5 DEF RecNext

LEMMA RecInvariant == RecSpec => []RecInv
BY RecInvInit, RecInvNext, PTL DEF RecSpec

LEMMA InvList ==
  ASSUME RecInv
  PROVE  ListOK
<1>1. NoDangling
  <2>1. CASE stack = <<>>
    BY <2>1 DEF NoDangling
  <2>2. CASE stack # <<>>
    <3>1. Len(stack) = 1 /\ FrameInv(stack[1])
      BY <2>2, TopFrame DEF RecInv
    <3>2. order \in Seq(Nodes) /\ Len(order) \in Nat /\ (order # <<>> => order[1] \in Live)
      BY DEF RecInv, RecTypeOK, Live
    <3>3. \A p \in 1..Len(order) : Stands(stack[1], p) =>
            stack[1].current \in Live \cup {Null} /\ stack[1].prev \in Live \cup {Null}
      BY <3>2 DEF Stands, Live
    <3>4. stack[1].current \in Live \cup {Null} /\ stack[1].prev \in Live \cup {Null}
      BY <3>1, <3>2, <3>3 DEF FrameInv, RecInv, Linked
    <3>5. QED
      BY <3>1, <3>4 DEF NoDangling
  <2>3. QED
    BY <2>1, <2>2
<1>2. QED
  BY <1>1 DEF RecInv, Linked, ListOK

LEMMA InvEachOnce ==
  ASSUME RecInv
  PROVE  EachOnce
<1>1. CASE stack = <<>>
  BY <1>1 DEF EachOnce, At
<1>2. CASE stack # <<>>
  <2>1. Len(stack) = 1 /\ FrameInv(Top)
    BY <1>2, TopFrame DEF RecInv
  <2>2. order \in Seq(Nodes) /\ Len(order) \in Nat /\ todo \in Seq(Nodes)
    BY DEF RecInv, RecTypeOK
  <2>3. ASSUME Top.at = "eval"
        PROVE  todo # <<>> /\ Top.current = Head(todo)
    <3>1. PICK p \in 1..Len(order), q \in 1..Len(order) : p <= q /\ Stands(Top, p) /\ Ahead(p, q)
      BY <2>1, <2>3 DEF FrameInv
    <3>2. Len(todo) >= 1 /\ todo[1] = order[p + 1 - 1]
      BY <2>2, <3>1 DEF Ahead
    <3>3. p + 1 - 1 = p
      BY <2>2
    <3>4. QED
      BY <2>2, <3>1, <3>2, <3>3 DEF Stands
  <2>4. ASSUME Top.at = "loop", Top.current = Null \/ Top.done
        PROVE  todo = <<>>
    <3>1. CASE Top.done
      BY <2>1, <2>4, <3>1 DEF FrameInv
    <3>2. CASE ~Top.done
      <4>1. PICK p \in 1..Len(order) : Stands(Top, p)
        BY <2>1, <2>4, <3>2 DEF FrameInv
      <4>2. Top.current # Null
        BY <4>1, OrderNodes DEF Stands, RecInv
      <4>3. QED
        BY <2>4, <3>2, <4>2
    <3>3. QED
      BY <3>1, <3>2
  <2>5. QED
    BY <2>3, <2>4 DEF EachOnce, At
<1>3. QED
  BY <1>1, <1>2

(* Whatever a run of run_scheduled_recurrent_functions() removes and an    *)
(* interrupt appends between two of its steps, the linked list holds the   *)
(* functions that are scheduled, in order, rLast is its end, and the run   *)
(* holds no deleted node: for any number of functions and any nesting.     *)
THEOREM ListCorrect == RecSpec => []ListOK
BY RecInvariant, InvList, PTL

(* A run of run_scheduled_recurrent_functions() looks at each function     *)
(* that was in the list when it began, once and in order, and at no other. *)
THEOREM EachOnceCorrect == RecSpec => []EachOnce
BY RecInvariant, InvEachOnce, PTL

(* What compute_scheduled_recurrent_grain() stores is the greatest common  *)
(* divisor of all intervals in the list, in milliseconds, and it is gone   *)
(* when the list changes; for any intervals.                               *)
THEOREM GrainCorrect == RecSpec => []GrainSound
<1>1. RecInv => GrainSound
  BY DEF RecInv
<1>2. QED
  BY <1>1, RecInvariant, PTL

-----------------------------------------------------------------------------
(* TICKER: the halving of a time                                           *)

LEMMA DoublePowerOfTwo ==
    ASSUME NEW n \in Nat \ {0}, PowerOfTwo(n)
    PROVE  PowerOfTwo(2 * n)
<1> SUFFICES ASSUME NEW d \in 1..(2 * n), (2 * n) % d = 0, d % 2 # 0
             PROVE  d = 1
    BY DEF PowerOfTwo
<1>1. PICK k \in Nat : 2 * n = d * k
  <2>1. Divides(d, 2 * n)
    BY DEF Divides
  <2> QED BY <2>1, DividesMultiple
<1>2. PICK j \in Nat : d = 2 * j + 1
  <2>1. d = 2 * (d \div 2) + 1 /\ d \div 2 \in Nat
    OBVIOUS
  <2> QED BY <2>1
<1>3. PICK h \in Nat : k = 2 * h
  <2>1. k = 2 * (n - j * k)
    <3>1. (2 * j + 1) * k = 2 * (j * k) + k
      OBVIOUS
    <3>2. PICK x \in Nat : x = j * k
      OBVIOUS
    <3> QED BY <1>1, <1>2, <3>1, <3>2
  <2>2. n - j * k \in Int
    OBVIOUS
  <2>3. PICK y \in Int : y = n - j * k
    BY <2>2
  <2>4. k = 2 * y
    BY <2>1, <2>3
  <2>5. y \in Nat
    BY <2>4
  <2> QED BY <2>4, <2>5
<1>4. n = d * h
  <2>1. d * (2 * h) = 2 * (d * h)
    OBVIOUS
  <2>2. PICK x \in Nat : x = d * h
    OBVIOUS
  <2> QED BY <1>1, <1>3, <2>1, <2>2
<1>5. n % d = 0 /\ d \in 1..n
  <2>1. Divides(d, n)
    BY <1>4, DividesMultiple
  <2>2. d # 0
    OBVIOUS
  <2> QED BY <2>1, <2>2, DividesBound DEF Divides
<1> QED BY <1>5 DEF PowerOfTwo

\* What _attach() divides a time by: 1 if the time is short enough.
LEMMA TkrTotalIs ==
    ASSUME NEW ms \in TkrTimes
    PROVE  /\ ms \in Nat \ {0} /\ TkrTotal(ms) \in Nat \ {0}
           /\ ms <= DurationMax => TkrTotal(ms) = 1
           /\ ms \div TkrTotal(ms) \in Nat
           /\ TkrTotal(ms) * (ms \div TkrTotal(ms)) <= ms
           /\ ms < TkrTotal(ms) * (ms \div TkrTotal(ms)) + TkrTotal(ms)
<1>1. ms \in Nat \ {0} /\ DurationMax \in Nat \ {0}
  BY TkrAssumption
<1> DEFINE S == {n \in 1..(2 * ms) : PowerOfTwo(n) /\ ms \div n <= DurationMax}
           P == {n \in 1..ms : PowerOfTwo(n)}
<1>2. PowerOfTwo(1)
  BY DEF PowerOfTwo
<1>3. S \subseteq Nat
  BY <1>1
<1>4. S # {}
  <2>1. P \subseteq Nat /\ 1 \in P /\ \A y \in P : y <= ms
    BY <1>1, <1>2
  <2> HIDE DEF P
  <2>2. PICK x \in P : \A y \in P : y <= x
    BY <1>1, <2>1, GreatestNat
  <2>3. x \in 1..ms /\ PowerOfTwo(x)
    BY DEF P
  <2>4. x \in Nat \ {0}
    BY <1>1, <2>3
  <2>5. PowerOfTwo(2 * x)
    BY <2>3, <2>4, DoublePowerOfTwo
  <2>6. 2 * x \notin P
    <3>1. 2 * x > x
      BY <2>4
    <3> QED BY <2>1, <2>2, <2>4, <3>1
  <2>7. 2 * x > ms
    BY <1>1, <2>4, <2>5, <2>6 DEF P
  <2>8. 2 * x \in 1..(2 * ms)
    BY <1>1, <2>3
  <2>9. ms \div (2 * x) = 0
    <3>1. PICK y \in Nat : y = 2 * x
      BY <2>4
    <3>2. ms \div y = 0
      BY <1>1, <2>7, <3>1
    <3> QED BY <3>1, <3>2
  <2>10. 2 * x \in S
    BY <1>1, <2>5, <2>8, <2>9
  <2> QED BY <2>10
<1>5. TkrTotal(ms) = Min(S)
  BY DEF TkrTotal
<1> HIDE DEF S, P
<1>6. Min(S) \in S /\ \A y \in S : Min(S) <= y
  BY <1>3, <1>4, MinNat
<1>7. PICK t \in Nat : t = TkrTotal(ms) /\ t # 0 /\ (1 \in S => t <= 1)
  <2>1. Min(S) \in Nat /\ Min(S) # 0
    BY <1>1, <1>6 DEF S
  <2> QED BY <1>5, <1>6, <2>1
<1>8. ms <= DurationMax => 1 \in S
  BY <1>1, <1>2 DEF S
<1>9. /\ ms \div t \in Nat /\ t * (ms \div t) <= ms /\ ms < t * (ms \div t) + t
  BY <1>1, <1>7
<1> QED BY <1>1, <1>7, <1>8, <1>9

-----------------------------------------------------------------------------
(* TICKER: the inductive invariant                                         *)

TkrPeriod(ms) == ms \div TkrTotal(ms)
TkrTickAt(ms, count) ==
    IF ms > DurationMax THEN [total |-> TkrTotal(ms), count |-> count] ELSE TkrNoTick
TkrRequest(fn, ms, repeat) == [fn |-> fn, ms |-> ms, repeat |-> repeat]
TkrTimer(ms, repeat, left) ==
    [armed |-> TRUE, period |-> TkrPeriod(ms), left |-> left,
     repeat |-> repeat \/ ms > DurationMax]

(* Attached: the parts that have passed and the one that runs add up.      *)
TkrActive ==
    \E fn \in TkrFns, ms \in TkrTimes, repeat \in BOOLEAN :
    \E count \in 0..(TkrTotal(ms) - 1), left \in 0..TkrPeriod(ms) :
        /\ tkrAsked = TkrRequest(fn, ms, repeat)
        /\ tkr = [timer |-> TRUE, repeat |-> repeat, tick |-> TkrTickAt(ms, count),
                  callback |-> fn]
        /\ tkrOs = TkrTimer(ms, repeat, left)
        /\ tkrSince = count * TkrPeriod(ms) + (TkrPeriod(ms) - left)

TkrIdle ==
    /\ tkr = TkrDetached /\ tkrOs = TkrDisarmed /\ tkrAsked = TkrNone

(* In the call, and the function has changed nothing: only a repeated or a *)
(* halved time keeps the timer armed.                                      *)
TkrCalling ==
    \E fn \in TkrFns, ms \in TkrTimes, repeat \in BOOLEAN :
        /\ tkrRun.asked = TkrRequest(fn, ms, repeat)
        /\ tkrAsked = IF repeat THEN TkrRequest(fn, ms, repeat) ELSE TkrNone
        /\ tkr = [timer |-> TRUE, repeat |-> repeat, callback |-> TkrNoFn,
                  tick |-> TkrTickAt(ms, TkrTotal(ms))]
        /\ tkrOs = IF repeat \/ ms > DurationMax
                   THEN TkrTimer(ms, repeat, TkrPeriod(ms)) ELSE TkrDisarmed
        /\ tkrSince = 0

(* What runs was asked for, and its time had passed.                       *)
TkrRunOK ==
    \E fn \in TkrFns, ms \in TkrTimes, repeat \in BOOLEAN, since \in Nat :
        /\ tkrRun = [fn |-> fn, asked |-> TkrRequest(fn, ms, repeat), since |-> since]
        /\ since > ms - TkrTotal(ms)

TkrInv ==
    \/ tkrRun = TkrNone /\ (TkrActive \/ TkrIdle)
    \/ TkrRunOK /\ (TkrActive \/ TkrIdle \/ TkrCalling)

(* No request, and no run, is TkrNone: they have other fields.             *)
LEMMA TkrNotNone ==
    /\ \A fn, ms, repeat : TkrRequest(fn, ms, repeat) # TkrNone
    /\ \A fn, asked, since : [fn |-> fn, asked |-> asked, since |-> since] # TkrNone
<1>1. DOMAIN TkrNone = {"fn"}
  BY DEF TkrNone
<1>2. \A fn, ms, repeat : "ms" \in DOMAIN TkrRequest(fn, ms, repeat)
  BY DEF TkrRequest
<1>3. \A fn, asked, since : "asked" \in DOMAIN [fn |-> fn, asked |-> asked, since |-> since]
  OBVIOUS
<1> QED BY <1>1, <1>2, <1>3

LEMMA TkrInvInit == TkrInit => TkrInv
  BY DEF TkrInit, TkrInv, TkrIdle

LEMMA TkrAttachInv ==
    ASSUME TkrInv, ~TkrReattach, NEW fn \in TkrFns, NEW ms \in TkrTimes,
           NEW repeat \in BOOLEAN, TkrAttach(fn, ms, repeat)
    PROVE  TkrInv'
<1>1. TkrTotal(ms) \in Nat \ {0} /\ TkrPeriod(ms) \in Nat
  BY TkrTotalIs DEF TkrPeriod
<1>2. TkrTick(ms) = TkrTickAt(ms, 0)
  <2>1. ms > DurationMax \/ tkr.tick = TkrNoTick
    BY DEF TkrAttach
  <2> QED BY <2>1 DEF TkrTick, TkrTickAt
<1>3. /\ tkrAsked' = TkrRequest(fn, ms, repeat)
      /\ tkr' = [timer |-> TRUE, repeat |-> repeat, tick |-> TkrTickAt(ms, 0), callback |-> fn]
      /\ tkrOs' = TkrTimer(ms, repeat, TkrPeriod(ms))
      /\ tkrSince' = 0 /\ tkrRun' = tkrRun
  BY <1>2 DEF TkrAttach, TkrRequest, TkrTimer, TkrPeriod
<1>4. /\ 0 \in 0..(TkrTotal(ms) - 1) /\ TkrPeriod(ms) \in 0..TkrPeriod(ms)
      /\ 0 = 0 * TkrPeriod(ms) + (TkrPeriod(ms) - TkrPeriod(ms))
  BY <1>1
<1>5. TkrActive'
  BY <1>3, <1>4 DEF TkrActive
<1> QED BY <1>3, <1>5 DEF TkrInv, TkrRunOK

LEMMA TkrDetachInv == ASSUME TkrInv, TkrDetach PROVE TkrInv'
  BY DEF TkrInv, TkrDetach, TkrIdle, TkrRunOK

\* The timer fires only for a ticker that is attached.
LEMMA TkrDueActive ==
    ASSUME TkrInv, TkrDue
    PROVE  tkrRun = TkrNone /\ TkrActive
<1>1. tkrRun = TkrNone /\ tkrOs.armed
  BY DEF TkrDue
<1>2. ~TkrRunOK
  BY <1>1, TkrNotNone DEF TkrRunOK
<1>3. ~TkrIdle
  BY <1>1 DEF TkrIdle, TkrDisarmed
<1> QED BY <1>1, <1>2, <1>3 DEF TkrInv

LEMMA TkrPartInv == ASSUME TkrInv, TkrPart PROVE TkrInv'
<1>1. tkrRun = TkrNone /\ TkrActive
  BY TkrDueActive DEF TkrPart
<1>2. PICK fn \in TkrFns, ms \in TkrTimes, repeat \in BOOLEAN :
         \E count \in 0..(TkrTotal(ms) - 1), left \in 0..TkrPeriod(ms) :
            /\ tkrAsked = TkrRequest(fn, ms, repeat)
            /\ tkr = [timer |-> TRUE, repeat |-> repeat, tick |-> TkrTickAt(ms, count),
                      callback |-> fn]
            /\ tkrOs = TkrTimer(ms, repeat, left)
            /\ tkrSince = count * TkrPeriod(ms) + (TkrPeriod(ms) - left)
  BY <1>1 DEF TkrActive
<1>3. PICK count \in 0..(TkrTotal(ms) - 1), left \in 0..TkrPeriod(ms) :
            /\ tkrAsked = TkrRequest(fn, ms, repeat)
            /\ tkr = [timer |-> TRUE, repeat |-> repeat, tick |-> TkrTickAt(ms, count),
                      callback |-> fn]
            /\ tkrOs = TkrTimer(ms, repeat, left)
            /\ tkrSince = count * TkrPeriod(ms) + (TkrPeriod(ms) - left)
  BY <1>2
<1>4. TkrTotal(ms) \in Nat \ {0} /\ TkrPeriod(ms) \in Nat /\ count \in Nat
  BY TkrTotalIs DEF TkrPeriod
<1>5. tkrOs.left = 0 /\ left = 0
  BY <1>3 DEF TkrPart, TkrDue, TkrTimer
<1>6. ms > DurationMax /\ tkr.tick = [total |-> TkrTotal(ms), count |-> count]
  BY <1>3 DEF TkrPart, TkrTickAt
<1>7. count + 1 \in 0..(TkrTotal(ms) - 1)
  BY <1>4, <1>6 DEF TkrPart
<1>8. tkr' = [timer |-> TRUE, repeat |-> repeat, tick |-> TkrTickAt(ms, count + 1),
              callback |-> fn]
  <2>1. tkr' = [tkr EXCEPT !.tick = [total |-> TkrTotal(ms), count |-> count + 1]]
    <3>1. tkr' = [tkr EXCEPT !.tick.count = @ + 1]
      BY DEF TkrPart
    <3>2. tkr' = [tkr EXCEPT !.tick = [tkr.tick EXCEPT !.count = tkr.tick.count + 1]]
      BY <3>1
    <3>3. [tkr.tick EXCEPT !.count = tkr.tick.count + 1]
            = [total |-> TkrTotal(ms), count |-> count + 1]
      BY <1>6
    <3> QED BY <3>2, <3>3
  <2>2. TkrTickAt(ms, count + 1) = [total |-> TkrTotal(ms), count |-> count + 1]
    BY <1>6 DEF TkrTickAt
  <2> QED BY <1>3, <2>1, <2>2
<1>9. tkrOs' = TkrTimer(ms, repeat, TkrPeriod(ms))
  BY <1>3, <1>6 DEF TkrPart, TkrOsFires, TkrTimer
<1>10. tkrSince' = (count + 1) * TkrPeriod(ms) + (TkrPeriod(ms) - TkrPeriod(ms))
  <2>1. tkrSince' = count * TkrPeriod(ms) + (TkrPeriod(ms) - 0)
    BY <1>3, <1>5 DEF TkrPart
  <2> QED BY <1>4, <2>1
<1>11. TkrActive'
  <2>1. tkrAsked' = TkrRequest(fn, ms, repeat)
    BY <1>3 DEF TkrPart
  <2>2. TkrPeriod(ms) \in 0..TkrPeriod(ms)
    BY <1>4
  <2> QED BY <1>7, <1>8, <1>9, <1>10, <2>1, <2>2 DEF TkrActive
<1> QED BY <1>1, <1>11 DEF TkrInv, TkrPart

LEMMA TkrRearmed ==
    ASSUME NEW a, NEW p, NEW l, NEW b, NEW os,
           os = [armed |-> a, period |-> p, left |-> l, repeat |-> b]
    PROVE  [os EXCEPT !.left = os.period] = [armed |-> a, period |-> p, left |-> p, repeat |-> b]
  OBVIOUS

LEMMA TkrCallInv == ASSUME TkrInv, TkrCall PROVE TkrInv'
<1>1. tkrRun = TkrNone /\ TkrActive
  BY TkrDueActive DEF TkrCall
<1>2. PICK fn \in TkrFns, ms \in TkrTimes, repeat \in BOOLEAN :
         \E count \in 0..(TkrTotal(ms) - 1), left \in 0..TkrPeriod(ms) :
            /\ tkrAsked = TkrRequest(fn, ms, repeat)
            /\ tkr = [timer |-> TRUE, repeat |-> repeat, tick |-> TkrTickAt(ms, count),
                      callback |-> fn]
            /\ tkrOs = TkrTimer(ms, repeat, left)
            /\ tkrSince = count * TkrPeriod(ms) + (TkrPeriod(ms) - left)
  BY <1>1 DEF TkrActive
<1>3. PICK count \in 0..(TkrTotal(ms) - 1), left \in 0..TkrPeriod(ms) :
            /\ tkrAsked = TkrRequest(fn, ms, repeat)
            /\ tkr = [timer |-> TRUE, repeat |-> repeat, tick |-> TkrTickAt(ms, count),
                      callback |-> fn]
            /\ tkrOs = TkrTimer(ms, repeat, left)
            /\ tkrSince = count * TkrPeriod(ms) + (TkrPeriod(ms) - left)
  BY <1>2
<1>4. /\ TkrTotal(ms) \in Nat \ {0} /\ TkrPeriod(ms) \in Nat /\ count \in Nat
      /\ ms \in Nat /\ ms < TkrTotal(ms) * TkrPeriod(ms) + TkrTotal(ms)
      /\ ms <= DurationMax => TkrTotal(ms) = 1
  BY TkrTotalIs DEF TkrPeriod
<1>5. tkrOs.left = 0 /\ left = 0
  BY <1>3 DEF TkrCall, TkrDue, TkrTimer
<1>6. DurationMax \in Nat
  BY TkrAssumption
<1>7. TkrTickAt(ms, count) # TkrNoTick <=> ms > DurationMax
  <2>1. [total |-> TkrTotal(ms), count |-> count].total # TkrNoTick.total
    BY <1>4 DEF TkrNoTick
  <2> QED BY <2>1 DEF TkrTickAt
<1>8. count = TkrTotal(ms) - 1
  <2>1. CASE ms > DurationMax
    <3>1. tkr.tick = [total |-> TkrTotal(ms), count |-> count] /\ tkr.tick # TkrNoTick
      BY <1>3, <1>7, <2>1 DEF TkrTickAt
    <3>2. count + 1 >= TkrTotal(ms)
      BY <3>1 DEF TkrCall
    <3>3. PICK t \in Nat : t = TkrTotal(ms)
      BY <1>4
    <3>4. count <= t - 1 /\ count + 1 >= t
      BY <3>2, <3>3
    <3> QED BY <1>4, <3>3, <3>4
  <2>2. CASE ~(ms > DurationMax)
    <3>1. TkrTotal(ms) = 1
      BY <1>4, <1>6, <2>2
    <3>2. count \in 0..(1 - 1)
      BY <3>1
    <3> QED BY <3>1, <3>2
  <2> QED BY <2>1, <2>2
<1>9. tkr' = [timer |-> TRUE, repeat |-> repeat, callback |-> TkrNoFn,
              tick |-> TkrTickAt(ms, TkrTotal(ms))]
  <2>1. CASE ms > DurationMax
    <3>1. tkr.tick = [total |-> TkrTotal(ms), count |-> count] /\ tkr.tick # TkrNoTick
      BY <1>3, <1>7, <2>1 DEF TkrTickAt
    <3>2. tkr' = [tkr EXCEPT !.tick = [tkr.tick EXCEPT !.count = tkr.tick.count + 1],
                             !.callback = TkrNoFn]
      <4>1. tkr' = [tkr EXCEPT !.tick.count = IF tkr.tick = TkrNoTick THEN @ ELSE @ + 1,
                               !.callback = TkrNoFn]
        BY DEF TkrCall
      <4> QED BY <3>1, <4>1
    <3>3. [tkr.tick EXCEPT !.count = tkr.tick.count + 1]
            = [total |-> TkrTotal(ms), count |-> TkrTotal(ms)]
      <4>1. PICK t \in Nat : t = TkrTotal(ms)
        BY <1>4
      <4>2. count + 1 = t
        BY <1>4, <1>8, <4>1
      <4> QED BY <3>1, <4>1, <4>2
    <3>4. TkrTickAt(ms, TkrTotal(ms)) = [total |-> TkrTotal(ms), count |-> TkrTotal(ms)]
      BY <2>1 DEF TkrTickAt
    <3> QED BY <1>3, <3>2, <3>3, <3>4
  <2>2. CASE ~(ms > DurationMax)
    <3>1. tkr.tick = TkrNoTick /\ TkrTickAt(ms, TkrTotal(ms)) = TkrNoTick
      BY <1>3, <2>2 DEF TkrTickAt
    <3>2. tkr' = [tkr EXCEPT !.tick = TkrNoTick, !.callback = TkrNoFn]
      <4>1. tkr' = [tkr EXCEPT !.tick.count = IF tkr.tick = TkrNoTick THEN @ ELSE @ + 1,
                               !.callback = TkrNoFn]
        BY DEF TkrCall
      <4>2. tkr' = [tkr EXCEPT !.tick = [tkr.tick EXCEPT !.count = tkr.tick.count],
                               !.callback = TkrNoFn]
        BY <3>1, <4>1
      <4>3. [tkr.tick EXCEPT !.count = tkr.tick.count] = TkrNoTick
        BY <3>1 DEF TkrNoTick
      <4> QED BY <4>2, <4>3
    <3> QED BY <1>3, <3>1, <3>2
  <2> QED BY <2>1, <2>2
<1>10. tkrOs' = IF repeat \/ ms > DurationMax
                THEN TkrTimer(ms, repeat, TkrPeriod(ms)) ELSE TkrDisarmed
  <2>1. tkrOs.repeat = (repeat \/ ms > DurationMax) /\ tkrOs.period = TkrPeriod(ms)
    BY <1>3 DEF TkrTimer
  <2>2. tkrOs' = IF tkrOs.repeat THEN [tkrOs EXCEPT !.left = tkrOs.period] ELSE TkrDisarmed
    BY DEF TkrCall, TkrOsFires
  <2>3. [tkrOs EXCEPT !.left = tkrOs.period] = TkrTimer(ms, repeat, TkrPeriod(ms))
    <3>1. PICK a, b : a = TRUE /\ b = (repeat \/ ms > DurationMax)
      OBVIOUS
    <3>2. tkrOs = [armed |-> a, period |-> TkrPeriod(ms), left |-> left, repeat |-> b]
      BY <1>3, <3>1 DEF TkrTimer
    <3>3. TkrTimer(ms, repeat, TkrPeriod(ms))
            = [armed |-> a, period |-> TkrPeriod(ms), left |-> TkrPeriod(ms), repeat |-> b]
      BY <3>1 DEF TkrTimer
    <3> QED BY <3>2, <3>3, TkrRearmed
  <2> QED BY <2>1, <2>2, <2>3
<1>11. tkrAsked' = IF repeat THEN TkrRequest(fn, ms, repeat) ELSE TkrNone
  <2>1. tkrAsked # TkrNone /\ tkrAsked.repeat = repeat
    BY <1>3, TkrNotNone DEF TkrRequest
  <2> QED BY <1>3, <2>1 DEF TkrCall
<1>12. tkrRun' = [fn |-> fn, asked |-> TkrRequest(fn, ms, repeat), since |-> tkrSince]
  BY <1>3 DEF TkrCall
<1>13. tkrSince \in Nat /\ tkrSince > ms - TkrTotal(ms)
  <2>1. PICK t \in Nat : t = TkrTotal(ms) /\ t # 0
    BY <1>4
  <2>2. PICK p \in Nat : p = TkrPeriod(ms)
    BY <1>4
  <2>3. tkrSince = (t - 1) * p + (p - 0)
    BY <1>3, <1>5, <1>8, <2>1, <2>2
  <2>4. (t - 1) * p + (p - 0) = t * p /\ t * p \in Nat
    BY <2>1
  <2>5. ms < t * p + t
    BY <1>4, <2>1, <2>2
  <2>6. PICK x \in Nat : x = t * p
    BY <2>4
  <2>7. tkrSince = x /\ ms < x + t
    BY <2>3, <2>4, <2>5, <2>6
  <2> QED BY <1>4, <2>1, <2>7
<1>14. TkrRunOK'
  BY <1>12, <1>13 DEF TkrRunOK
<1>15. TkrCalling'
  <2>1. tkrRun'.asked = TkrRequest(fn, ms, repeat)
    BY <1>12
  <2>2. tkrSince' = 0
    BY DEF TkrCall
  <2> QED BY <1>9, <1>10, <1>11, <2>1, <2>2 DEF TkrCalling
<1> QED BY <1>14, <1>15 DEF TkrInv

\* A function that attached or detached the ticker is left alone; otherwise
\* a repeated ticker starts again, and one that is not is detached.
LEMMA TkrReturnInv == ASSUME TkrInv, TkrReturn PROVE TkrInv'
<1>1. TkrActive \/ TkrIdle \/ TkrCalling
  BY DEF TkrInv
<1>2. tkrRun' = TkrNone /\ tkrAsked' = tkrAsked /\ tkrSince' = tkrSince
  BY DEF TkrReturn
<1>3. CASE TkrActive
  <2>1. tkr.callback # TkrNoFn
    BY <1>3, TkrAssumption DEF TkrActive, TkrNoFn
  <2>2. tkr' = tkr /\ tkrOs' = tkrOs
    BY <2>1 DEF TkrReturn
  <2>3. TkrActive'
    BY <1>2, <1>3, <2>2, ZenonT(60) DEF TkrActive
  <2> QED BY <1>2, <2>3 DEF TkrInv
<1>4. CASE TkrIdle
  <2>1. ~tkr.timer
    BY <1>4 DEF TkrIdle, TkrDetached
  <2>2. tkr' = tkr /\ tkrOs' = tkrOs
    BY <2>1 DEF TkrReturn
  <2>3. TkrIdle'
    BY <1>2, <1>4, <2>2 DEF TkrIdle
  <2> QED BY <1>2, <2>3 DEF TkrInv
<1>5. CASE TkrCalling /\ tkrRun # TkrNone
  <2>1. PICK fn \in TkrFns, ms \in TkrTimes, repeat \in BOOLEAN :
          /\ tkrRun.asked = TkrRequest(fn, ms, repeat)
          /\ tkrAsked = IF repeat THEN TkrRequest(fn, ms, repeat) ELSE TkrNone
          /\ tkr = [timer |-> TRUE, repeat |-> repeat, callback |-> TkrNoFn,
                    tick |-> TkrTickAt(ms, TkrTotal(ms))]
          /\ tkrOs = IF repeat \/ ms > DurationMax
                     THEN TkrTimer(ms, repeat, TkrPeriod(ms)) ELSE TkrDisarmed
          /\ tkrSince = 0
    BY <1>5 DEF TkrCalling
  <2>2. TkrRunOK
    BY <1>5 DEF TkrInv
  <2>3. tkrRun.fn = fn
    BY <2>1, <2>2 DEF TkrRunOK, TkrRequest
  <2>4. tkr.timer /\ tkr.callback = TkrNoFn /\ tkr.repeat = repeat
    BY <2>1
  <2>5. CASE repeat
    <3>1. tkr' = [tkr EXCEPT !.callback = fn, !.tick = [tkr.tick EXCEPT !.count = 0]]
      BY <2>3, <2>4, <2>5 DEF TkrReturn
    <3>2. tkrOs' = TkrTimer(ms, repeat, TkrPeriod(ms))
      BY <2>1, <2>4, <2>5 DEF TkrReturn
    <3>3. [tkr.tick EXCEPT !.count = 0] = TkrTickAt(ms, 0)
      BY <2>1 DEF TkrTickAt, TkrNoTick
    <3>4. tkr' = [timer |-> TRUE, repeat |-> repeat, tick |-> TkrTickAt(ms, 0), callback |-> fn]
      BY <2>1, <3>1, <3>3
    <3>5. TkrTotal(ms) \in Nat \ {0} /\ TkrPeriod(ms) \in Nat
      BY TkrTotalIs DEF TkrPeriod
    <3>6. /\ 0 \in 0..(TkrTotal(ms) - 1) /\ TkrPeriod(ms) \in 0..TkrPeriod(ms)
          /\ 0 = 0 * TkrPeriod(ms) + (TkrPeriod(ms) - TkrPeriod(ms))
      BY <3>5
    <3>7. tkrAsked' = TkrRequest(fn, ms, repeat) /\ tkrSince' = 0
      BY <1>2, <2>1, <2>5
    <3>8. TkrActive'
      BY <3>2, <3>4, <3>6, <3>7 DEF TkrActive
    <3> QED BY <1>2, <3>8 DEF TkrInv
  <2>6. CASE ~repeat
    <3>1. tkr' = TkrDetached /\ tkrOs' = TkrDisarmed
      BY <2>4, <2>6 DEF TkrReturn
    <3>2. TkrIdle'
      BY <1>2, <2>1, <2>6, <3>1 DEF TkrIdle
    <3> QED BY <1>2, <3>2 DEF TkrInv
  <2> QED BY <2>5, <2>6
<1>6. tkrRun # TkrNone
  BY DEF TkrReturn
<1> QED BY <1>1, <1>3, <1>4, <1>5, <1>6

LEMMA TkrTimeInv == ASSUME TkrInv, TkrTime PROVE TkrInv'
<1>1. tkrRun = TkrNone /\ TkrActive
  <2>1. tkrRun = TkrNone /\ tkrOs.armed
    BY DEF TkrTime
  <2>2. ~TkrRunOK /\ ~TkrIdle
    BY <2>1, TkrNotNone DEF TkrRunOK, TkrIdle, TkrDisarmed
  <2> QED BY <2>1, <2>2 DEF TkrInv
<1>2. PICK fn \in TkrFns, ms \in TkrTimes, repeat \in BOOLEAN :
         \E count \in 0..(TkrTotal(ms) - 1), left \in 0..TkrPeriod(ms) :
            /\ tkrAsked = TkrRequest(fn, ms, repeat)
            /\ tkr = [timer |-> TRUE, repeat |-> repeat, tick |-> TkrTickAt(ms, count),
                      callback |-> fn]
            /\ tkrOs = TkrTimer(ms, repeat, left)
            /\ tkrSince = count * TkrPeriod(ms) + (TkrPeriod(ms) - left)
  BY <1>1 DEF TkrActive
<1>3. PICK count \in 0..(TkrTotal(ms) - 1), left \in 0..TkrPeriod(ms) :
            /\ tkrAsked = TkrRequest(fn, ms, repeat)
            /\ tkr = [timer |-> TRUE, repeat |-> repeat, tick |-> TkrTickAt(ms, count),
                      callback |-> fn]
            /\ tkrOs = TkrTimer(ms, repeat, left)
            /\ tkrSince = count * TkrPeriod(ms) + (TkrPeriod(ms) - left)
  BY <1>2
<1>4. TkrTotal(ms) \in Nat \ {0} /\ TkrPeriod(ms) \in Nat /\ count \in Nat
  BY TkrTotalIs DEF TkrPeriod
<1>5. tkrOs.left = left /\ left > 0
  BY <1>3 DEF TkrTime, TkrTimer
<1>6. left - 1 \in 0..TkrPeriod(ms)
  BY <1>4, <1>5
<1>7. tkrOs' = TkrTimer(ms, repeat, left - 1)
  <2>1. tkrOs' = [tkrOs EXCEPT !.left = left - 1]
    BY <1>5 DEF TkrTime
  <2> QED BY <1>3, <2>1 DEF TkrTimer
<1>8. tkrSince' = count * TkrPeriod(ms) + (TkrPeriod(ms) - (left - 1))
  <2>1. PICK x \in Nat : x = count * TkrPeriod(ms)
    BY <1>4
  <2>2. PICK p \in Nat : p = TkrPeriod(ms)
    BY <1>4
  <2>3. tkrSince' = x + (p - left) + 1
    BY <1>3, <2>1, <2>2 DEF TkrTime
  <2>4. left \in Int
    BY <1>4
  <2> QED BY <2>1, <2>2, <2>3, <2>4
<1>9. TkrActive'
  <2>1. tkrAsked' = tkrAsked /\ tkr' = tkr
    BY DEF TkrTime
  <2> QED BY <1>3, <1>6, <1>7, <1>8, <2>1 DEF TkrActive
<1> QED BY <1>1, <1>9 DEF TkrInv, TkrTime

LEMMA TkrInvNext ==
    ASSUME TkrInv, ~TkrReattach, [TkrNext]_tkrVars
    PROVE  TkrInv'
<1>1. ASSUME UNCHANGED tkrVars PROVE TkrInv'
  BY <1>1 DEF tkrVars, TkrInv, TkrActive, TkrIdle, TkrCalling, TkrRunOK
<1>2. ASSUME NEW fn \in TkrFns, NEW ms \in TkrTimes, NEW repeat \in BOOLEAN,
             TkrAttach(fn, ms, repeat)
      PROVE  TkrInv'
  BY <1>2, TkrAttachInv
<1> QED BY <1>1, <1>2, TkrDetachInv, TkrPartInv, TkrCallInv, TkrReturnInv, TkrTimeInv
        DEF TkrNext

LEMMA TkrInvMeans == TkrInv => TkrAsAsked
<1> SUFFICES ASSUME TkrInv PROVE TkrAsAsked
  OBVIOUS
<1>1. tkrRun # TkrNone =>
        /\ tkrRun.asked # TkrNone /\ tkrRun.fn = tkrRun.asked.fn
        /\ tkrRun.since > tkrRun.asked.ms - TkrTotal(tkrRun.asked.ms)
  <2> SUFFICES ASSUME tkrRun # TkrNone
               PROVE  /\ tkrRun.asked # TkrNone /\ tkrRun.fn = tkrRun.asked.fn
                      /\ tkrRun.since > tkrRun.asked.ms - TkrTotal(tkrRun.asked.ms)
    OBVIOUS
  <2>1. PICK fn \in TkrFns, ms \in TkrTimes, repeat \in BOOLEAN, since \in Nat :
          /\ tkrRun = [fn |-> fn, asked |-> TkrRequest(fn, ms, repeat), since |-> since]
          /\ since > ms - TkrTotal(ms)
    BY DEF TkrInv, TkrRunOK
  <2>2. tkrRun.asked = TkrRequest(fn, ms, repeat) /\ tkrRun.fn = fn /\ tkrRun.since = since
    BY <2>1
  <2>3. tkrRun.asked.fn = fn /\ tkrRun.asked.ms = ms
    BY <2>2 DEF TkrRequest
  <2> QED BY <2>1, <2>2, <2>3, TkrNotNone
<1>2. ASSUME TkrActive
      PROVE  tkrAsked # TkrNone /\ tkrOs.armed /\ tkr.timer /\ tkrSince <= tkrAsked.ms
  <2>1. PICK fn \in TkrFns, ms \in TkrTimes, repeat \in BOOLEAN :
          \E count \in 0..(TkrTotal(ms) - 1), left \in 0..TkrPeriod(ms) :
            /\ tkrAsked = TkrRequest(fn, ms, repeat)
            /\ tkr = [timer |-> TRUE, repeat |-> repeat, tick |-> TkrTickAt(ms, count),
                      callback |-> fn]
            /\ tkrOs = TkrTimer(ms, repeat, left)
            /\ tkrSince = count * TkrPeriod(ms) + (TkrPeriod(ms) - left)
    BY <1>2 DEF TkrActive
  <2>2. PICK count \in 0..(TkrTotal(ms) - 1), left \in 0..TkrPeriod(ms) :
            /\ tkrAsked = TkrRequest(fn, ms, repeat)
            /\ tkr = [timer |-> TRUE, repeat |-> repeat, tick |-> TkrTickAt(ms, count),
                      callback |-> fn]
            /\ tkrOs = TkrTimer(ms, repeat, left)
            /\ tkrSince = count * TkrPeriod(ms) + (TkrPeriod(ms) - left)
    BY <2>1
  <2>3. tkrAsked.ms = ms /\ tkrOs.armed /\ tkr.timer
    BY <2>2 DEF TkrRequest, TkrTimer
  <2>4. PICK t \in Nat : t = TkrTotal(ms)
    BY TkrTotalIs
  <2>5. PICK p \in Nat : p = TkrPeriod(ms)
    BY TkrTotalIs DEF TkrPeriod
  <2>6. ms \in Nat /\ t * p <= ms
    BY <2>4, <2>5, TkrTotalIs DEF TkrPeriod
  <2>7. count \in Nat /\ count + 1 <= t /\ left \in Nat
    BY <2>4, <2>5
  <2>8. (count + 1) * p <= t * p
    <3>1. PICK d \in Nat : t = (count + 1) + d
      <4>1. t - (count + 1) \in Nat /\ t = (count + 1) + (t - (count + 1))
        BY <2>7
      <4> QED BY <4>1
    <3>2. t * p = (count + 1) * p + d * p
      BY <2>7, <3>1
    <3>3. d * p \in Nat /\ (count + 1) * p \in Nat
      BY <2>7
    <3> QED BY <3>2, <3>3
  <2>9. PICK x \in Nat : x = count * p
    BY <2>7
  <2>10. x + p <= t * p
    BY <2>7, <2>8, <2>9
  <2>11. tkrSince = x + (p - left)
    BY <2>2, <2>5, <2>9
  <2>12. tkrSince <= ms
    BY <2>6, <2>7, <2>10, <2>11
  <2> QED BY <2>2, <2>3, <2>12, TkrNotNone
<1>3. ASSUME TkrIdle PROVE tkrAsked = TkrNone /\ ~tkrOs.armed
  BY <1>3 DEF TkrIdle, TkrDisarmed
<1>4. ASSUME TkrCalling, tkrAsked # TkrNone
      PROVE  tkrOs.armed /\ tkr.timer /\ tkrSince <= tkrAsked.ms
  <2>1. PICK fn \in TkrFns, ms \in TkrTimes, repeat \in BOOLEAN :
          /\ repeat /\ tkrAsked = TkrRequest(fn, ms, repeat)
          /\ tkr = [timer |-> TRUE, repeat |-> repeat, callback |-> TkrNoFn,
                    tick |-> TkrTickAt(ms, TkrTotal(ms))]
          /\ tkrOs = TkrTimer(ms, repeat, TkrPeriod(ms))
          /\ tkrSince = 0
    BY <1>4 DEF TkrCalling
  <2>2. ms \in Nat /\ tkrAsked.ms = ms
    BY <2>1, TkrTotalIs DEF TkrRequest
  <2>3. tkrOs.armed /\ tkr.timer
    BY <2>1 DEF TkrTimer
  <2>4. tkrSince <= ms
    BY <2>1, <2>2
  <2> QED BY <2>2, <2>3, <2>4
<1>5. tkrRun = TkrNone => TkrActive \/ TkrIdle
  BY TkrNotNone DEF TkrInv, TkrRunOK
<1>6. TkrActive \/ TkrIdle \/ TkrCalling
  BY DEF TkrInv
<1> QED BY <1>1, <1>2, <1>3, <1>4, <1>5, <1>6 DEF TkrAsAsked

\* A ticker calls the function asked for last, at its time and not after it,
\* whatever the function itself attaches or detaches (_static_callback()).
THEOREM TickerCorrect == ~TkrReattach => (TkrSpec => []TkrAsAsked)
<1> SUFFICES ASSUME ~TkrReattach PROVE TkrSpec => []TkrAsAsked
  OBVIOUS
<1>1. TkrInv /\ [TkrNext]_tkrVars => TkrInv'
  BY TkrInvNext
<1> QED BY <1>1, TkrInvInit, TkrInvMeans, PTL DEF TkrSpec

-----------------------------------------------------------------------------
(* WAVEFORM: the PWM list                                                  *)

Pos == Nat \ {0}

WvfPair == Nat \X Nat
Duty == Pos \X Pos

\* A list of the pins s with the delays d, for a period of t cycles: those in
\* the mask m drop at the edge of their duty, the pins of the set e apart.
PwmList(m, s, d, t, w, e) ==
  /\ s \in Seq(WvfPins) /\ \A p \in m : \E i \in 1..Len(s) : s[i] = p
  /\ d \in Seq(Nat) /\ Len(d) = Len(s) + 1
  /\ \A p \in m \ e : w[p].desired \in Duty
  /\ Len(s) > 0 => /\ d[Len(s) + 1] > 0 /\ SumTo(d, Len(s) + 1) = t
                   /\ \A i \in 1..Len(s) : s[i] \in m \ e =>
                        SumTo(d, i) = WvfEdgeAt(t, w[s[i]].desired)

\* Other masks and other duties, as long as the pins that count are the same.
LEMMA PwmListLess ==
  ASSUME NEW m, NEW s, NEW d, NEW t, NEW w, NEW e, PwmList(m, s, d, t, w, e),
         NEW m2, NEW w2, NEW e2, m2 \subseteq m,
         \A p \in m2 \ e2 : p \in m \ e /\ w2[p].desired = w[p].desired
  PROVE  PwmList(m2, s, d, t, w2, e2)
<1>1. /\ s \in Seq(WvfPins) /\ \A p \in m : \E i \in 1..Len(s) : s[i] = p
      /\ d \in Seq(Nat) /\ Len(d) = Len(s) + 1
  BY DEF PwmList
<1>2. \A p \in m2 : \E i \in 1..Len(s) : s[i] = p
  BY <1>1
<1>3. \A p \in m2 \ e2 : w2[p].desired \in Duty
  BY DEF PwmList
<1>4. Len(s) > 0 => /\ d[Len(s) + 1] > 0 /\ SumTo(d, Len(s) + 1) = t
                    /\ \A i \in 1..Len(s) : s[i] \in m2 \ e2 =>
                         SumTo(d, i) = WvfEdgeAt(t, w2[s[i]].desired)
  <2> SUFFICES ASSUME Len(s) > 0
               PROVE  /\ d[Len(s) + 1] > 0 /\ SumTo(d, Len(s) + 1) = t
                      /\ \A i \in 1..Len(s) : s[i] \in m2 \ e2 =>
                           SumTo(d, i) = WvfEdgeAt(t, w2[s[i]].desired)
    OBVIOUS
  <2>1. /\ d[Len(s) + 1] > 0 /\ SumTo(d, Len(s) + 1) = t
        /\ \A i \in 1..Len(s) : s[i] \in m \ e => SumTo(d, i) = WvfEdgeAt(t, w[s[i]].desired)
    BY DEF PwmList
  <2>2. ASSUME NEW i \in 1..Len(s), s[i] \in m2 \ e2
        PROVE  SumTo(d, i) = WvfEdgeAt(t, w2[s[i]].desired)
    <3>1. s[i] \in m \ e /\ w2[s[i]].desired = w[s[i]].desired
      BY <2>2
    <3> QED BY <2>1, <3>1
  <2> QED BY <2>1, <2>2
<1> QED BY <1>1, <1>2, <1>3, <1>4 DEF PwmList

\* An edge is inside the period.
LEMMA EdgeAtIs ==
  ASSUME NEW t \in Nat, t > 1, NEW duty \in Duty
  PROVE  WvfEdgeAt(t, duty) \in 1..(t - 1)
<1>1. PICK a \in Nat, b \in Nat \ {0} : a = duty[1] /\ b = duty[2]
  BY DEF Duty, Pos
<1>2. PICK n \in Nat : n = (t * a) % WvfWord
  <2>1. PICK w \in Nat : w = WvfWord /\ w # 0
    BY WvfAssumption
  <2>2. PICK m \in Nat : m = t * a
    OBVIOUS
  <2>3. m % w \in Nat
    BY <2>1
  <2> QED BY <2>1, <2>2, <2>3
<1>3. PICK cc \in Nat : cc = n \div b
  OBVIOUS
<1>4. WvfEdgeAt(t, duty) = IF cc = 0 THEN 1 ELSE IF cc >= t THEN t - 1 ELSE cc
  BY <1>1, <1>2, <1>3 DEF WvfEdgeAt, WvfClipped, WvfCycles
<1> QED BY <1>4

\* If the product fits, the edge is the one of the duty.
LEMMA EdgeDrops ==
  ASSUME NEW t \in Nat, NEW duty \in Duty
  PROVE  WvfDropsAt(WvfEdgeAt(t, duty), t, duty)
<1> SUFFICES ASSUME t * duty[1] < WvfWord
             PROVE  WvfEdgeAt(t, duty) = WvfClipped(t, (t * duty[1]) \div duty[2])
  BY DEF WvfDropsAt
<1>1. PICK w \in Nat : w = WvfWord /\ w # 0
  BY WvfAssumption
<1>2. PICK a \in Nat : a = duty[1]
  BY DEF Duty, Pos
<1>3. PICK n \in Nat : n = t * duty[1]
  BY <1>2
<1>4. n % w = n
  BY <1>1, <1>3
<1>5. (t * duty[1]) % WvfWord = t * duty[1]
  BY <1>1, <1>3, <1>4
<1> QED BY <1>5 DEF WvfEdgeAt, WvfCycles

\* r is s with x before place i.
Inserted(r, s, i, x, n) ==
  /\ Len(r) = n + 1
  /\ \A k \in 1..(i - 1) : r[k] = s[k]
  /\ r[i] = x
  /\ \A k \in (i + 1)..(n + 1) : r[k] = s[k - 1]

LEMMA InsertAtIs ==
  ASSUME NEW S, NEW s \in Seq(S), NEW x \in S, NEW n \in Nat, n = Len(s), NEW i \in 1..(n + 1)
  PROVE  InsertAt(s, i, x) \in Seq(S) /\ Inserted(InsertAt(s, i, x), s, i, x, n)
<1>1. PICK a : a = SubSeq(s, 1, i - 1)
  OBVIOUS
<1>2. PICK b : b = SubSeq(s, i, n)
  OBVIOUS
<1>3. a \in Seq(S) /\ Len(a) = i - 1 /\ \A k \in 1..(i - 1) : a[k] = s[k]
  <2>1. PICK j \in Int : j = i - 1
    OBVIOUS
  <2>2. \A k \in 1..j : s[k] \in S
    BY <2>1
  <2>3. /\ SubSeq(s, 1, j) \in Seq(S)
        /\ Len(SubSeq(s, 1, j)) = IF 1 <= j THEN j - 1 + 1 ELSE 0
        /\ \A k \in 1..(j - 1 + 1) : SubSeq(s, 1, j)[k] = s[1 + k - 1]
    BY <2>2, SubSeqProperties
  <2>4. j - 1 + 1 = j /\ \A k \in 1..j : 1 + k - 1 = k
    OBVIOUS
  <2>5. Len(a) = j
    BY <1>1, <2>1, <2>3
  <2> QED BY <1>1, <2>1, <2>3, <2>4, <2>5
<1>4. b \in Seq(S) /\ Len(b) = n - i + 1 /\ \A k \in 1..(n - i + 1) : b[k] = s[i + k - 1]
  <2>1. \A k \in i..n : s[k] \in S
    OBVIOUS
  <2>2. /\ SubSeq(s, i, n) \in Seq(S)
        /\ Len(SubSeq(s, i, n)) = IF i <= n THEN n - i + 1 ELSE 0
        /\ \A k \in 1..(n - i + 1) : SubSeq(s, i, n)[k] = s[i + k - 1]
    BY <2>1, SubSeqProperties
  <2> QED BY <1>2, <2>2
<1>5. PICK c \in Seq(S) : c = a \o <<x>>
  <2>1. <<x>> \in Seq(S)
    OBVIOUS
  <2> QED BY <1>3, <2>1, ConcatProperties
<1>6. Len(c) = i /\ c[i] = x /\ \A k \in 1..(i - 1) : c[k] = s[k]
  BY <1>3, <1>5
<1>7. PICK r \in Seq(S) : r = c \o b
  BY <1>4, ConcatProperties
<1>8. Len(r) = Len(c) + Len(b)
      /\ \A k \in 1..(Len(c) + Len(b)) : r[k] = IF k <= Len(c) THEN c[k] ELSE b[k - Len(c)]
  BY <1>4, <1>7, ConcatProperties
<1>9. Len(c) + Len(b) = n + 1
  BY <1>4, <1>6
<1>10. Len(r) = n + 1 /\ \A k \in 1..(n + 1) : r[k] = IF k <= i THEN c[k] ELSE b[k - i]
  BY <1>6, <1>8, <1>9
<1>11. ASSUME NEW k \in (i + 1)..(n + 1) PROVE r[k] = s[k - 1]
  <2>1. k \in 1..(n + 1) /\ ~(k <= i) /\ k - i \in 1..(n - i + 1) /\ i + (k - i) - 1 = k - 1
    OBVIOUS
  <2> QED BY <1>4, <1>10, <2>1
<1>12. ASSUME NEW k \in 1..(i - 1) PROVE r[k] = s[k]
  <2>1. k \in 1..(n + 1) /\ k <= i
    OBVIOUS
  <2> QED BY <1>6, <1>10, <2>1
<1>13. r[i] = x
  BY <1>6, <1>10
<1>14. InsertAt(s, i, x) = r
  BY <1>1, <1>2, <1>5, <1>7 DEF InsertAt
<1> QED BY <1>7, <1>10, <1>11, <1>12, <1>13, <1>14 DEF Inserted

\* e is d with its delay i split into off and the rest.
Split(e, d, i, off, n) ==
  /\ e \in Seq(Nat) /\ Len(e) = n + 1
  /\ \A k \in 1..(i - 1) : e[k] = d[k]
  /\ e[i] = off /\ e[i + 1] = d[i] - off
  /\ \A k \in (i + 2)..(n + 1) : e[k] = d[k - 1]

LEMMA SplitIs ==
  ASSUME NEW d \in Seq(Nat), NEW n \in Nat, n = Len(d), NEW i \in 1..n,
         NEW off \in Nat, off <= d[i]
  PROVE  Split(InsertAt([d EXCEPT ![i] = d[i] - off], i, off), d, i, off, n)
<1>1. PICK f : f = [d EXCEPT ![i] = d[i] - off]
  OBVIOUS
<1>2. d[i] - off \in Nat
  OBVIOUS
<1>3. f \in Seq(Nat) /\ Len(f) = n /\ f[i] = d[i] - off /\ \A k \in 1..n : k # i => f[k] = d[k]
  BY <1>1, <1>2
<1>4. PICK e : e = InsertAt(f, i, off)
  OBVIOUS
<1>5. i \in 1..(n + 1)
  OBVIOUS
<1>6. e \in Seq(Nat) /\ Inserted(e, f, i, off, n)
  BY <1>3, <1>4, <1>5, InsertAtIs
<1>7. /\ Len(e) = n + 1 /\ e[i] = off
      /\ \A k \in 1..(i - 1) : e[k] = f[k]
      /\ \A k \in (i + 1)..(n + 1) : e[k] = f[k - 1]
  BY <1>6 DEF Inserted
<1>8. \A k \in 1..(i - 1) : e[k] = d[k]
  BY <1>3, <1>7
<1>9. e[i + 1] = d[i] - off
  <2>1. i + 1 \in (i + 1)..(n + 1) /\ (i + 1) - 1 = i
    OBVIOUS
  <2> QED BY <1>3, <1>7, <2>1
<1>10. ASSUME NEW k \in (i + 2)..(n + 1) PROVE e[k] = d[k - 1]
  <2>1. k \in (i + 1)..(n + 1) /\ k - 1 \in 1..n /\ k - 1 # i
    OBVIOUS
  <2> QED BY <1>3, <1>7, <2>1
<1>11. Split(e, d, i, off, n)
  BY <1>6, <1>7, <1>8, <1>9, <1>10 DEF Split
<1> QED BY <1>1, <1>4, <1>11

\* Where the edges are after the split.
LEMMA SplitSums ==
  ASSUME NEW d \in Seq(Nat), NEW n \in Nat, n = Len(d), NEW i \in 1..n,
         NEW off \in Nat, off <= d[i], NEW e, Split(e, d, i, off, n)
  PROVE  /\ \A k \in 0..(i - 1) : SumTo(e, k) = SumTo(d, k)
         /\ SumTo(e, i) = SumTo(d, i - 1) + off
         /\ \A k \in i..n : SumTo(e, k + 1) = SumTo(d, k)
<1>1. /\ \A k \in 1..(i - 1) : e[k] = d[k]
      /\ e[i] = off /\ e[i + 1] = d[i] - off
      /\ \A k \in (i + 2)..(n + 1) : e[k] = d[k - 1]
  BY DEF Split
<1>2. ASSUME NEW k \in 0..(i - 1) PROVE SumTo(e, k) = SumTo(d, k)
  <2>1. k \in Nat /\ \A j \in 1..k : j \in 1..(i - 1)
    OBVIOUS
  <2>2. \A j \in 1..k : e[j] = d[j]
    BY <1>1, <2>1
  <2> QED BY <2>1, <2>2, SumSame
<1>3. \A k \in 0..n : SumTo(d, k) \in Nat
  <2> SUFFICES ASSUME NEW k \in 0..n PROVE SumTo(d, k) \in Nat
    OBVIOUS
  <2>1. k \in Nat /\ \A j \in 1..k : d[j] \in Nat
    OBVIOUS
  <2> QED BY <2>1, SumNat
<1>4. SumTo(e, i) = SumTo(d, i - 1) + off
  <2>1. SumTo(e, i) = SumTo(e, i - 1) + e[i]
    BY SumPred
  <2>2. i - 1 \in 0..(i - 1)
    OBVIOUS
  <2> QED BY <1>1, <1>2, <2>1, <2>2
<1>5. SumTo(e, i + 1) = SumTo(d, i)
  <2>1. SumTo(e, i + 1) = SumTo(e, i) + e[i + 1]
    BY SumStep
  <2>2. SumTo(d, i) = SumTo(d, i - 1) + d[i]
    <3>1. i \in Nat /\ i # 0
      OBVIOUS
    <3> QED BY <3>1, SumPred, Zenon
  <2>3. SumTo(d, i - 1) \in Nat /\ d[i] \in Nat
    <3>1. i - 1 \in 0..n
      OBVIOUS
    <3> QED BY <1>3, <3>1
  <2> QED BY <1>1, <1>4, <2>1, <2>2, <2>3
<1>6. ASSUME \E k \in i..n : SumTo(e, k + 1) # SumTo(d, k) PROVE FALSE
  <2> DEFINE T == {k \in i..n : SumTo(e, k + 1) # SumTo(d, k)}
  <2>1. T \in SUBSET Nat /\ T # {}
    BY <1>6, SMTT(30)
  <2>2. PICK k \in T : \A y \in T : k <= y
    BY <2>1, LeastNat
  <2>3. k \in i..n /\ SumTo(e, k + 1) # SumTo(d, k)
    OBVIOUS
  <2>4. k # i
    BY <1>5, <2>3
  <2>5. k - 1 \in i..n /\ k - 1 \in Nat /\ ~(k <= k - 1) /\ k \in Nat /\ k # 0
    BY <2>3, <2>4
  <2>6. SumTo(e, (k - 1) + 1) = SumTo(d, k - 1)
    BY <2>2, <2>5
  <2>7. (k - 1) + 1 = k /\ k + 1 \in (i + 2)..(n + 1) /\ (k + 1) - 1 = k
    BY <2>3, <2>4, <2>5
  <2>8. SumTo(e, k + 1) = SumTo(e, k) + e[k + 1] /\ SumTo(d, k) = SumTo(d, k - 1) + d[k]
    BY <2>5, SumStep, SumPred
  <2>9. e[k + 1] = d[k]
    BY <1>1, <2>7
  <2> QED BY <2>3, <2>6, <2>7, <2>8, <2>9
<1>7. \A k \in i..n : SumTo(e, k + 1) = SumTo(d, k)
  BY <1>6
<1> QED BY <1>2, <1>4, <1>7

\* _addPWMtoList() finds the delay that the edge cc falls into.
LEMMA PlaceIs ==
  ASSUME NEW d \in Seq(Nat), NEW n \in Nat, Len(d) = n + 1, NEW cc \in Nat,
         cc > 0, cc < SumTo(d, n + 1),
         NEW i, i = Min({k \in 1..(n + 1) : k = n + 1 \/ SumTo(d, k) >= cc})
  PROVE  /\ i \in 1..(n + 1) /\ SumTo(d, i - 1) \in Nat
         /\ SumTo(d, i - 1) < cc /\ cc - SumTo(d, i - 1) <= d[i]
<1> DEFINE S == {k \in 1..(n + 1) : k = n + 1 \/ SumTo(d, k) >= cc}
<1>1. n + 1 \in S /\ S \in SUBSET Nat
  OBVIOUS
<1>2. PICK j \in S : j = i /\ \A y \in S : j <= y
  BY <1>1, MinNat
<1>3. j \in 1..(n + 1) /\ j \in Nat /\ j # 0 /\ j - 1 \in Nat
  OBVIOUS
<1>4. \A k \in 0..(n + 1) : SumTo(d, k) \in Nat
  <2> SUFFICES ASSUME NEW k \in 0..(n + 1) PROVE SumTo(d, k) \in Nat
    OBVIOUS
  <2>1. k \in Nat /\ \A l \in 1..k : d[l] \in Nat
    OBVIOUS
  <2> QED BY <2>1, SumNat
<1>5. SumTo(d, j) >= cc
  BY <1>4
<1>6. PICK a \in Nat : a = SumTo(d, j - 1)
  <2>1. j - 1 \in 0..(n + 1)
    BY <1>3
  <2> QED BY <1>4, <2>1
<1>7. a < cc
  <2>1. CASE j = 1
    BY <1>6, <2>1, SumZero
  <2>2. CASE j # 1
    <3>1. j - 1 \in 1..(n + 1) /\ ~(j <= j - 1)
      BY <1>3, <2>2
    <3>2. j - 1 \notin S
      BY <1>2, <3>1
    <3> QED BY <1>6, <3>1, <3>2
  <2> QED BY <2>1, <2>2
<1>8. SumTo(d, j) = a + d[j] /\ d[j] \in Nat
  <2>1. SumTo(d, j) = SumTo(d, j - 1) + d[j]
    BY <1>3, SumPred, Zenon
  <2> QED BY <1>3, <1>6, <2>1
<1>9. cc - a <= d[j]
  BY <1>5, <1>6, <1>8
<1> QED BY <1>2, <1>3, <1>6, <1>7, <1>9

\* _addPWMtoList() keeps the list sound, for the new pin too.
Plus(m, p) == m \cup {p}

\* An entry for the pin, if there is one, is on.
OnIfThere(m, s, p) == \A k \in 1..Len(s) : s[k] = p => p \in m

Added(r, l, p, t, w) ==
  /\ PwmList(r.mask, r.pin, r.delta, t, w, {}) /\ r.mask = Plus(l.mask, p)
  /\ Len(r.pin) = Len(l.pin) + 1
  /\ \A i \in 1..Len(r.pin) : r.pin[i] = p \/ \E k \in 1..Len(l.pin) : r.pin[i] = l.pin[k]

LEMMA AddIs ==
  ASSUME NEW l, NEW t \in Nat, t > 1, NEW w, PwmList(l.mask, l.pin, l.delta, t, w, {}),
         NEW p \in WvfPins, OnIfThere(l.mask, l.pin, p), NEW duty \in Duty, w[p].desired = duty,
         NEW r, r = WvfAddPWM(l, p, t, duty)
  PROVE  Added(r, l, p, t, w)
<1>1. PICK n \in Nat : n = Len(l.pin)
  BY DEF PwmList
<1>2. PICK cc \in 1..(t - 1) : cc = WvfEdgeAt(t, duty)
  BY EdgeAtIs
<1>3. PICK m, s, d : m = l.mask /\ s = l.pin /\ d = l.delta
  OBVIOUS
<1>4. /\ s \in Seq(WvfPins) /\ \A x \in m : \E i \in 1..n : s[i] = x
      /\ d \in Seq(Nat) /\ Len(d) = n + 1 /\ Len(s) = n
      /\ \A x \in m : w[x].desired \in Duty
  BY <1>1, <1>3 DEF PwmList
<1>5. r.mask = Plus(m, p)
  BY <1>3 DEF WvfAddPWM, Plus
<1>6. \A x \in Plus(m, p) : w[x].desired \in Duty
  BY <1>4 DEF Plus
<1>7. CASE n = 0
  <2>1. r.pin = <<p>> /\ r.delta = <<cc, t - cc>>
    BY <1>1, <1>2, <1>7 DEF WvfAddPWM
  <2>2. PICK e \in Seq(Nat) : e = <<cc, t - cc>> /\ Len(e) = 2 /\ e[1] = cc /\ e[2] = t - cc
    <3>1. PICK b \in Nat, c \in Nat : b = cc /\ c = t - cc
      BY <1>2
    <3>2. <<b, c>> \in Seq(Nat) /\ Len(<<b, c>>) = 2 /\ <<b, c>>[1] = b /\ <<b, c>>[2] = c
      OBVIOUS
    <3> QED BY <3>1, <3>2
  <2>3. SumTo(e, 1) = cc /\ SumTo(e, 2) = t
    <3>1. SumTo(e, 0) = 0
      BY SumZero
    <3>2. SumTo(e, 0 + 1) = SumTo(e, 0) + e[0 + 1]
      BY SumStep
    <3>3. SumTo(e, 1 + 1) = SumTo(e, 1) + e[1 + 1]
      BY SumStep
    <3> QED BY <1>2, <2>2, <3>1, <3>2, <3>3
  <2>4. PICK q \in Seq(WvfPins) : q = <<p>> /\ Len(q) = 1 /\ q[1] = p
    <3>1. <<p>> \in Seq(WvfPins) /\ Len(<<p>>) = 1 /\ <<p>>[1] = p
      OBVIOUS
    <3> QED BY <3>1
  <2>5. m = {}
    BY <1>4, <1>7
  <2>6. \A x \in Plus(m, p) : \E i \in 1..1 : q[i] = x
    BY <2>4, <2>5 DEF Plus
  <2>7. \A i \in 1..1 : SumTo(e, i) = WvfEdgeAt(t, w[q[i]].desired)
    BY <1>2, <2>3, <2>4
  <2>8. e[2] > 0 /\ Len(e) = 1 + 1
    BY <1>2, <2>2
  <2>9. PwmList(Plus(m, p), q, e, t, w, {})
    BY <1>6, <2>2, <2>3, <2>4, <2>6, <2>7, <2>8 DEF PwmList
  <2> QED BY <1>1, <1>3, <1>5, <1>7, <2>1, <2>2, <2>4, <2>9 DEF Added
<1>8. CASE n # 0
  <2>1. /\ d[n + 1] > 0 /\ SumTo(d, n + 1) = t
        /\ \A i \in 1..n : s[i] \in m => SumTo(d, i) = WvfEdgeAt(t, w[s[i]].desired)
    BY <1>1, <1>3, <1>8 DEF PwmList
  <2>2. PICK i : i = Min({k \in 1..(n + 1) : k = n + 1 \/ SumTo(d, k) >= cc})
    OBVIOUS
  <2>3. /\ i \in 1..(n + 1) /\ SumTo(d, i - 1) \in Nat
        /\ SumTo(d, i - 1) < cc /\ cc - SumTo(d, i - 1) <= d[i]
    <3>1. cc \in Nat /\ cc > 0 /\ cc < SumTo(d, n + 1)
      BY <1>2, <2>1
    <3> QED BY <1>4, <2>2, <3>1, PlaceIs, SMTT(30)
  <2>4. PICK off \in Nat : off = cc - SumTo(d, i - 1) /\ off > 0 /\ off <= d[i]
    BY <1>2, <2>3
  <2>5. PICK e : e = InsertAt([d EXCEPT ![i] = d[i] - off], i, off)
    OBVIOUS
  <2>6. PICK q : q = InsertAt(s, i, p)
    OBVIOUS
  <2>7. r.pin = q /\ r.delta = e
    <3>1. r.pin = InsertAt(l.pin, i, p)
      BY <1>1, <1>2, <1>3, <1>8, <2>2, Zenon DEF WvfAddPWM
    <3>2. r.delta = InsertAt([d EXCEPT ![i] = @ - off], i, off)
      BY <1>1, <1>2, <1>3, <1>8, <2>2, <2>4, Zenon DEF WvfAddPWM
    <3> QED BY <1>3, <2>5, <2>6, <3>1, <3>2
  <2>8a. PICK b \in Nat : b = n + 1 /\ b = Len(d)
    BY <1>4
  <2>8b. i \in 1..b /\ off <= d[i] /\ d \in Seq(Nat)
    BY <1>4, <2>3, <2>4, <2>8a
  <2>8. Split(e, d, i, off, b)
    BY <2>5, <2>8a, <2>8b, SplitIs
  <2>9. q \in Seq(WvfPins) /\ Inserted(q, s, i, p, n)
    BY <1>4, <2>3, <2>6, InsertAtIs
  <2>10. /\ Len(q) = n + 1 /\ q[i] = p
         /\ \A k \in 1..(i - 1) : q[k] = s[k]
         /\ \A k \in (i + 1)..(n + 1) : q[k] = s[k - 1]
    BY <2>9 DEF Inserted
  <2>11. /\ \A k \in 0..(i - 1) : SumTo(e, k) = SumTo(d, k)
         /\ SumTo(e, i) = cc
         /\ \A k \in i..(n + 1) : SumTo(e, k + 1) = SumTo(d, k)
    <3>1. /\ \A k \in 0..(i - 1) : SumTo(e, k) = SumTo(d, k)
          /\ SumTo(e, i) = SumTo(d, i - 1) + off
          /\ \A k \in i..b : SumTo(e, k + 1) = SumTo(d, k)
      BY <2>8, <2>8a, <2>8b, SplitSums
    <3>2. SumTo(d, i - 1) + off = cc
      BY <1>2, <2>3, <2>4
    <3> QED BY <2>8a, <3>1, <3>2
  <2>12. /\ e \in Seq(Nat) /\ Len(e) = n + 2 /\ e[i + 1] = d[i] - off
         /\ \A k \in (i + 2)..(n + 2) : e[k] = d[k - 1]
    <3>1. /\ e \in Seq(Nat) /\ Len(e) = b + 1 /\ e[i + 1] = d[i] - off
          /\ \A k \in (i + 2)..(b + 1) : e[k] = d[k - 1]
      BY <2>8 DEF Split
    <3>2. b + 1 = n + 2
      BY <2>8a
    <3> QED BY <3>1, <3>2
  <2>13. SumTo(e, n + 2) = t
    <3>1. n + 1 \in i..(n + 1) /\ (n + 1) + 1 = n + 2
      BY <2>3
    <3> QED BY <2>1, <2>11, <3>1
  <2>14. e[n + 2] > 0
    <3>1. CASE i = n + 1
      <4>1. SumTo(d, n + 1) = SumTo(d, n) + d[n + 1] /\ d[n + 1] \in Nat
        BY <1>4, SumStep
      <4>2. d[n + 1] = t - SumTo(d, i - 1)
        <5>1. i - 1 = n
          BY <3>1
        <5> QED BY <2>1, <2>3, <4>1, <5>1
      <4>3. d[n + 1] - off = t - cc
        BY <2>3, <2>4, <4>2
      <4> QED BY <1>2, <2>12, <3>1, <4>3
    <3>2. CASE i # n + 1
      <4>1. n + 2 \in (i + 2)..(n + 2) /\ (n + 2) - 1 = n + 1
        BY <2>3, <3>2
      <4> QED BY <2>1, <2>12, <4>1
    <3> QED BY <3>1, <3>2
  <2>15. \A x \in Plus(m, p) : \E k \in 1..(n + 1) : q[k] = x
    <3> SUFFICES ASSUME NEW x \in Plus(m, p) PROVE \E k \in 1..(n + 1) : q[k] = x
      OBVIOUS
    <3>1. CASE x = p
      BY <2>3, <2>10, <3>1
    <3>2. CASE x \in m
      <4>1. PICK k \in 1..n : s[k] = x
        BY <1>4, <3>2
      <4>2. CASE k < i
        <5>1. k \in 1..(i - 1) /\ k \in 1..(n + 1)
          BY <2>3, <4>2
        <5> QED BY <2>10, <4>1, <5>1
      <4>3. CASE ~(k < i)
        <5>1. k + 1 \in (i + 1)..(n + 1) /\ (k + 1) - 1 = k /\ k + 1 \in 1..(n + 1)
          BY <2>3, <4>3
        <5> QED BY <2>10, <4>1, <5>1
      <4> QED BY <4>2, <4>3
    <3> QED BY <3>1, <3>2 DEF Plus
  <2>16. ASSUME NEW k \in 1..(n + 1)
         PROVE  /\ q[k] = p \/ \E j \in 1..n : q[k] = s[j]
                /\ q[k] \in Plus(m, p) => SumTo(e, k) = WvfEdgeAt(t, w[q[k]].desired)
    <3>1. CASE k = i
      BY <1>2, <2>10, <2>11, <3>1
    <3>2. CASE k < i
      <4>1. k \in 1..(i - 1) /\ k \in 0..(i - 1) /\ k \in 1..n
        BY <2>3, <3>2
      <4>2. q[k] = s[k] /\ SumTo(e, k) = SumTo(d, k)
        BY <2>10, <2>11, <4>1
      <4>3. s[k] = p => p \in m
        BY <1>1, <1>3, <4>1 DEF OnIfThere
      <4> QED BY <2>1, <4>1, <4>2, <4>3 DEF Plus
    <3>3. CASE k > i
      <4>1. k \in (i + 1)..(n + 1) /\ k - 1 \in i..(n + 1) /\ k - 1 \in 1..n /\ (k - 1) + 1 = k
        BY <2>3, <3>3
      <4>2. q[k] = s[k - 1] /\ SumTo(e, k) = SumTo(d, k - 1)
        BY <2>10, <2>11, <4>1
      <4>3. s[k - 1] = p => p \in m
        BY <1>1, <1>3, <4>1 DEF OnIfThere
      <4> QED BY <2>1, <4>1, <4>2, <4>3 DEF Plus
    <3> QED BY <2>3, <3>1, <3>2, <3>3
  <2>17. PwmList(Plus(m, p), q, e, t, w, {})
    BY <1>6, <2>9, <2>10, <2>12, <2>13, <2>14, <2>15, <2>16, SMTT(30) DEF PwmList
  <2> QED BY <1>1, <1>3, <1>5, <2>7, <2>10, <2>16, <2>17 DEF Added
<1> QED BY <1>7, <1>8

-----------------------------------------------------------------------------
(* _cleanAndRemovePWM()                                                    *)

\* f is its loop over the first n entries of the list l.
CleanEmpty(l) == [mask |-> l.mask, pin |-> <<>>, delta |-> <<>>, leftover |-> 0]

Passes(f, l, p, n) ==
  f = [i \in 0..n |-> IF i = 0 THEN CleanEmpty(l)
                      ELSE WvfCleanEntry(f[i - 1], p, l.pin[i], l.delta[i])]

LEMMA PassesExist ==
  ASSUME NEW l, NEW p, NEW n \in Nat
  PROVE  \E f : Passes(f, l, p, n)
<1> DEFINE T == {k \in Nat : ~ \E f : Passes(f, l, p, k)}
<1> SUFFICES ASSUME T # {} PROVE FALSE
  OBVIOUS
<1>1. PICK k \in T : \A y \in T : k <= y
  BY LeastNat
<1>2. k \in Nat /\ ~ \E f : Passes(f, l, p, k)
  OBVIOUS
<1>3. CASE k = 0
  <2> DEFINE f == [j \in 0..0 |-> CleanEmpty(l)]
  <2>1. Passes(f, l, p, 0)
    BY DEF Passes
  <2> QED BY <1>2, <1>3, <2>1
<1>4. CASE k # 0
  <2>1. k - 1 \in Nat /\ k - 1 \notin T
    BY <1>1, <1>2, <1>4
  <2>2. PICK f : Passes(f, l, p, k - 1)
    BY <2>1
  <2> DEFINE g == [j \in 0..k |-> IF j = k THEN WvfCleanEntry(f[k - 1], p, l.pin[k], l.delta[k])
                                  ELSE f[j]]
  <2>3. ASSUME NEW j \in 0..k
        PROVE  g[j] = IF j = 0 THEN CleanEmpty(l)
                      ELSE WvfCleanEntry(g[j - 1], p, l.pin[j], l.delta[j])
    <3>1. CASE j = k
      <4>1. k - 1 \in 0..k /\ k - 1 # k
        BY <1>2, <2>1
      <4> QED BY <1>4, <3>1, <4>1
    <3>2. CASE j # k
      <4>1. j \in 0..(k - 1) /\ (j # 0 => j - 1 \in 0..k /\ j - 1 # k)
        BY <1>2, <3>2
      <4>2. f[j] = IF j = 0 THEN CleanEmpty(l)
                   ELSE WvfCleanEntry(f[j - 1], p, l.pin[j], l.delta[j])
        BY <2>2, <4>1 DEF Passes
      <4> QED BY <3>2, <4>1, <4>2
    <3> QED BY <3>1, <3>2
  <2>4. Passes(g, l, p, k)
    BY <2>3 DEF Passes
  <2> QED BY <1>2, <2>4
<1> QED BY <1>3, <1>4

\* What WvfClean returns, with the loop's last state.
LEMMA CleanLoop ==
  ASSUME NEW l, NEW p, NEW n \in Nat, n = Len(l.pin)
  PROVE  \E f : /\ Passes(f, l, p, n)
                /\ WvfClean(l, p) = [mask |-> f[n].mask, pin |-> f[n].pin,
                                     delta |-> Append(f[n].delta, l.delta[n + 1] + f[n].leftover)]
<1>1. \E f : Passes(f, l, p, n)
  BY PassesExist
<1> QED BY <1>1, Zenon DEF Passes, WvfClean, CleanEmpty

\* What the loop has done after the first i entries.
CleanKept(q, m, s, d, p, i) ==
  \A k \in 1..Len(q.pin) : \E j \in 1..i :
     q.pin[k] = s[j] /\ s[j] # p /\ s[j] \in m /\ SumTo(q.delta, k) = SumTo(d, j)

CleanAll(q, m, s, p, i) ==
  \A j \in 1..i : s[j] # p /\ s[j] \in m => \E k \in 1..Len(q.pin) : q.pin[k] = s[j]

CleanMask(q, m, s, p, i) ==
  /\ \A x : x # p => (x \in q.mask <=> x \in m)
  /\ \A j \in 1..i : s[j] = p => p \notin q.mask
  /\ p \in q.mask => p \in m

CleanShape(q, d, i) ==
  /\ q.pin \in Seq(WvfPins) /\ q.delta \in Seq(Nat) /\ q.leftover \in Nat
  /\ Len(q.delta) = Len(q.pin) /\ Len(q.pin) <= i
  /\ SumTo(q.delta, Len(q.pin)) + q.leftover = SumTo(d, i)

CleanedTo(q, m, s, d, p, i) ==
  CleanShape(q, d, i) /\ CleanKept(q, m, s, d, p, i) /\ CleanAll(q, m, s, p, i)
  /\ CleanMask(q, m, s, p, i)

\* Appending to a sequence adds its value to the sum.
LEMMA AppendSums ==
  ASSUME NEW d \in Seq(Nat), NEW n \in Nat, n = Len(d), NEW x \in Nat
  PROVE  /\ Append(d, x) \in Seq(Nat) /\ Len(Append(d, x)) = n + 1 /\ Append(d, x)[n + 1] = x
         /\ \A k \in 0..n : SumTo(Append(d, x), k) = SumTo(d, k)
         /\ SumTo(Append(d, x), n + 1) = SumTo(d, n) + x
<1>1. PICK e : e = Append(d, x)
  OBVIOUS
<1>2. e \in Seq(Nat) /\ Len(e) = n + 1 /\ e[n + 1] = x /\ \A k \in 1..n : e[k] = d[k]
  BY <1>1
<1>3. ASSUME NEW k \in 0..n PROVE SumTo(e, k) = SumTo(d, k)
  <2>1. k \in Nat /\ \A j \in 1..k : e[j] = d[j]
    BY <1>2
  <2> QED BY <2>1, SumSame
<1>4. SumTo(e, n + 1) = SumTo(d, n) + x
  <2>1. SumTo(e, n + 1) = SumTo(e, n) + e[n + 1]
    BY SumStep
  <2>2. n \in 0..n
    OBVIOUS
  <2> QED BY <1>2, <1>3, <2>1, <2>2
<1> QED BY <1>1, <1>2, <1>3, <1>4

LEMMA CleanTurn ==
  ASSUME NEW s \in Seq(WvfPins), NEW d \in Seq(Nat), NEW n \in Nat, n = Len(s), Len(d) = n + 1,
         NEW i \in 1..n, NEW j \in Nat, j = i - 1, NEW q, NEW m, NEW p, CleanedTo(q, m, s, d, p, j),
         NEW r, r = WvfCleanEntry(q, p, s[i], d[i])
  PROVE  CleanedTo(r, m, s, d, p, i)
<1>1. s[i] \in WvfPins /\ d[i] \in Nat /\ i \in Nat /\ i # 0
  OBVIOUS
<1>2. SumTo(d, i) = SumTo(d, j) + d[i]
  BY <1>1, SumPred, Zenon
<1>3. /\ q.pin \in Seq(WvfPins) /\ q.delta \in Seq(Nat) /\ q.leftover \in Nat
      /\ Len(q.delta) = Len(q.pin) /\ Len(q.pin) <= j
      /\ SumTo(q.delta, Len(q.pin)) + q.leftover = SumTo(d, j)
  BY DEF CleanedTo, CleanShape
<1>4. PICK a \in Nat, c \in Seq(Nat), o \in Nat :
        a = Len(q.pin) /\ c = q.delta /\ o = q.leftover
  BY <1>3, SMTT(30)
<1>5. Len(c) = a /\ SumTo(c, a) \in Nat /\ SumTo(c, a) + o = SumTo(d, j)
  <2>1. Len(c) = a
    BY <1>3, <1>4
  <2>2. SumTo(c, a) \in Nat
    <3>1. \A k \in 1..a : c[k] \in Nat
      BY <2>1
    <3> QED BY <3>1, SumNat
  <2> QED BY <1>3, <1>4, <2>1, <2>2
<1>6. /\ CleanKept(q, m, s, d, p, j) /\ CleanAll(q, m, s, p, j) /\ CleanMask(q, m, s, p, j)
  BY DEF CleanedTo
<1>7. \A k \in 1..i : k \in 1..j \/ k = i
  OBVIOUS
<1>8. \A k \in 1..j : k \in 1..i
  OBVIOUS
<1>9. CASE s[i] # p /\ s[i] \in q.mask
  <2>1. PICK x \in Nat : x = d[i] + o
    BY <1>1
  <2>2. r.mask = q.mask /\ r.pin = Append(q.pin, s[i]) /\ r.delta = Append(c, x) /\ r.leftover = 0
    BY <1>4, <1>9, <2>1 DEF WvfCleanEntry
  <2>3. /\ r.pin \in Seq(WvfPins) /\ Len(r.pin) = a + 1 /\ r.pin[a + 1] = s[i]
        /\ \A k \in 1..a : r.pin[k] = q.pin[k]
    BY <1>1, <1>3, <1>4, <2>2, SMTT(30)
  <2>4. /\ r.delta \in Seq(Nat) /\ Len(r.delta) = a + 1
        /\ \A k \in 0..a : SumTo(r.delta, k) = SumTo(c, k)
        /\ SumTo(r.delta, a + 1) = SumTo(c, a) + x
    <3>1. a = Len(c)
      BY <1>5
    <3>2. /\ Append(c, x) \in Seq(Nat) /\ Len(Append(c, x)) = a + 1
          /\ \A k \in 0..a : SumTo(Append(c, x), k) = SumTo(c, k)
          /\ SumTo(Append(c, x), a + 1) = SumTo(c, a) + x
      BY <3>1, AppendSums, SMTT(30)
    <3> QED BY <2>2, <3>2
  <2>5. SumTo(r.delta, a + 1) = SumTo(d, i)
    BY <1>1, <1>2, <1>5, <2>1, <2>4, SMTT(30)
  <2>6. CleanShape(r, d, i)
    <3>1. SumTo(r.delta, a + 1) \in Nat
      BY <1>5, <2>4, SMTT(30)
    <3>2. a + 1 <= i
      BY <1>3, <1>4
    <3> QED BY <2>2, <2>3, <2>4, <2>5, <3>1, <3>2 DEF CleanShape
  <2>7. s[i] \in m
    BY <1>6, <1>9 DEF CleanMask
  <2>8. CleanKept(r, m, s, d, p, i)
    <3> SUFFICES ASSUME NEW k \in 1..(a + 1)
                 PROVE  \E h \in 1..i : r.pin[k] = s[h] /\ s[h] # p /\ s[h] \in m
                                        /\ SumTo(r.delta, k) = SumTo(d, h)
      BY <2>3 DEF CleanKept
    <3>1. CASE k = a + 1
      BY <1>9, <2>3, <2>5, <2>7, <3>1
    <3>2. CASE k # a + 1
      <4>1. k \in 1..a /\ k \in 0..a
        BY <3>2
      <4>2. PICK h \in 1..j : q.pin[k] = s[h] /\ s[h] # p /\ s[h] \in m
                              /\ SumTo(q.delta, k) = SumTo(d, h)
        BY <1>4, <1>6, <4>1 DEF CleanKept
      <4>3. r.pin[k] = q.pin[k] /\ SumTo(r.delta, k) = SumTo(q.delta, k)
        BY <1>4, <2>3, <2>4, <4>1
      <4> QED BY <1>8, <4>2, <4>3
    <3> QED BY <3>1, <3>2
  <2>9. CleanAll(r, m, s, p, i)
    <3> SUFFICES ASSUME NEW h \in 1..i, s[h] # p, s[h] \in m
                 PROVE  \E k \in 1..(a + 1) : r.pin[k] = s[h]
      BY <2>3 DEF CleanAll
    <3>1. CASE h = i
      <4>1. a + 1 \in 1..(a + 1)
        OBVIOUS
      <4> QED BY <2>3, <3>1, <4>1
    <3>2. CASE h \in 1..j
      <4>1. PICK k \in 1..a : q.pin[k] = s[h]
        BY <1>4, <1>6, <3>2 DEF CleanAll
      <4>2. k \in 1..(a + 1)
        OBVIOUS
      <4> QED BY <2>3, <4>1, <4>2
    <3> QED BY <1>7, <3>1, <3>2
  <2>10. CleanMask(r, m, s, p, i)
    BY <1>6, <1>7, <1>9, <2>2 DEF CleanMask
  <2> QED BY <2>6, <2>8, <2>9, <2>10 DEF CleanedTo
<1>10. CASE ~(s[i] # p /\ s[i] \in q.mask)
  <2>1. /\ r.mask = q.mask \ {s[i]} /\ r.pin = q.pin /\ r.delta = q.delta
        /\ r.leftover = q.leftover + d[i]
    BY <1>10 DEF WvfCleanEntry
  <2>2. CleanShape(r, d, i)
    <3>1. o + d[i] \in Nat /\ SumTo(c, a) + (o + d[i]) = SumTo(d, i)
      BY <1>1, <1>2, <1>5, SMTT(30)
    <3>2. r.leftover = o + d[i] /\ r.delta = c /\ r.pin = q.pin /\ a <= i
      BY <1>3, <1>4, <2>1
    <3> QED BY <1>3, <1>4, <1>5, <3>1, <3>2 DEF CleanShape
  <2>3. CleanKept(r, m, s, d, p, i)
    BY <1>6, <1>8, <2>1 DEF CleanKept
  <2>4. CleanAll(r, m, s, p, i)
    <3> SUFFICES ASSUME NEW h \in 1..i, s[h] # p, s[h] \in m
                 PROVE  \E k \in 1..Len(q.pin) : q.pin[k] = s[h]
      BY <2>1 DEF CleanAll
    <3>1. h # i
      BY <1>6, <1>10 DEF CleanMask
    <3>2. h \in 1..j
      BY <1>7, <3>1
    <3> QED BY <1>6, <3>2 DEF CleanAll
  <2>5. CleanMask(r, m, s, p, i)
    BY <1>6, <1>7, <1>10, <2>1 DEF CleanMask
  <2> QED BY <2>2, <2>3, <2>4, <2>5 DEF CleanedTo
<1> QED BY <1>9, <1>10

LEMMA CleanPasses ==
  ASSUME NEW l, NEW p, NEW n \in Nat, n = Len(l.pin), l.pin \in Seq(WvfPins),
         l.delta \in Seq(Nat), Len(l.delta) = n + 1, NEW f, Passes(f, l, p, n)
  PROVE  CleanedTo(f[n], l.mask, l.pin, l.delta, p, n)
<1> DEFINE T == {k \in 0..n : ~CleanedTo(f[k], l.mask, l.pin, l.delta, p, k)}
<1> SUFFICES ASSUME T # {} PROVE FALSE
  OBVIOUS
<1>0. T \subseteq Nat
  OBVIOUS
<1>1. PICK k \in T : \A y \in T : k <= y
  BY <1>0, LeastNat
<1>2. k \in 0..n /\ k \in Nat /\ ~CleanedTo(f[k], l.mask, l.pin, l.delta, p, k)
  OBVIOUS
<1>3. f[k] = IF k = 0 THEN CleanEmpty(l) ELSE WvfCleanEntry(f[k - 1], p, l.pin[k], l.delta[k])
  BY <1>2 DEF Passes
<1>4. CASE k = 0
  <2>1. PICK q : q = f[0]
    OBVIOUS
  <2>2. q.mask = l.mask /\ q.pin = <<>> /\ q.delta = <<>> /\ q.leftover = 0
    BY <1>3, <1>4, <2>1 DEF CleanEmpty
  <2>3. <<>> \in Seq(WvfPins) /\ <<>> \in Seq(Nat) /\ Len(<<>>) = 0
    OBVIOUS
  <2>4. SumTo(q.delta, 0) = 0 /\ SumTo(l.delta, 0) = 0
    BY SumZero
  <2>5. CleanShape(q, l.delta, 0)
    BY <2>2, <2>3, <2>4 DEF CleanShape
  <2>6. CleanKept(q, l.mask, l.pin, l.delta, p, 0) /\ CleanAll(q, l.mask, l.pin, p, 0)
    BY <2>2, <2>3 DEF CleanKept, CleanAll
  <2>7. CleanMask(q, l.mask, l.pin, p, 0)
    BY <2>2 DEF CleanMask
  <2> QED BY <1>2, <1>4, <2>1, <2>5, <2>6, <2>7 DEF CleanedTo
<1>5. CASE k # 0
  <2>1. PICK j \in Nat : j = k - 1
    BY <1>2, <1>5
  <2>2. j \in 0..n /\ ~(k <= j) /\ k \in 1..n
    BY <1>2, <1>5, <2>1
  <2>3. CleanedTo(f[j], l.mask, l.pin, l.delta, p, j)
    BY <1>1, <2>2
  <2>4. PICK r : r = f[k] /\ r = WvfCleanEntry(f[j], p, l.pin[k], l.delta[k])
    BY <1>3, <1>5, <2>1
  <2>5. CleanedTo(r, l.mask, l.pin, l.delta, p, k)
    BY <2>1, <2>2, <2>3, <2>4, CleanTurn
  <2> QED BY <1>2, <2>4, <2>5
<1> QED BY <1>4, <1>5

\* _cleanAndRemovePWM() leaves a sound list without the pin, in which every
\* entry is on.
AllOn(m, s) == \A k \in 1..Len(s) : s[k] \in m

LEMMA CleanIs ==
  ASSUME NEW l, NEW p, NEW t, NEW w, PwmList(l.mask, l.pin, l.delta, t, w, {}),
         NEW r, r = WvfClean(l, p)
  PROVE  /\ PwmList(r.mask, r.pin, r.delta, t, w, {}) /\ r.mask = l.mask \ {p}
         /\ Len(r.pin) <= Len(l.pin) /\ AllOn(r.mask, r.pin)
<1>0. PICK m : m = l.mask
  OBVIOUS
<1>1. PICK n \in Nat, s \in Seq(WvfPins), d \in Seq(Nat) :
        n = Len(s) /\ s = l.pin /\ d = l.delta /\ m = l.mask
  BY <1>0 DEF PwmList
<1>2. Len(d) = n + 1 /\ \A x \in m : w[x].desired \in Duty /\ \E i \in 1..n : s[i] = x
  BY <1>1 DEF PwmList
<1>3. n > 0 => /\ d[n + 1] > 0 /\ SumTo(d, n + 1) = t
               /\ \A i \in 1..n : s[i] \in m => SumTo(d, i) = WvfEdgeAt(t, w[s[i]].desired)
  BY <1>1 DEF PwmList
<1>4. PICK f : Passes(f, l, p, n)
               /\ r = [mask |-> f[n].mask, pin |-> f[n].pin,
                       delta |-> Append(f[n].delta, l.delta[n + 1] + f[n].leftover)]
  <2>1. n = Len(l.pin)
    BY <1>1
  <2>2. \E f : /\ Passes(f, l, p, n)
               /\ WvfClean(l, p) = [mask |-> f[n].mask, pin |-> f[n].pin,
                                    delta |-> Append(f[n].delta, l.delta[n + 1] + f[n].leftover)]
    BY <2>1, CleanLoop
  <2> QED BY <2>2, Zenon
<1>5. PICK q : q = f[n]
  OBVIOUS
<1>6. CleanedTo(q, m, s, d, p, n)
  <2>1. CleanedTo(f[n], l.mask, l.pin, l.delta, p, n)
    BY <1>1, <1>2, <1>4, CleanPasses
  <2> QED BY <1>1, <1>5, <2>1
<1>7. /\ q.pin \in Seq(WvfPins) /\ q.delta \in Seq(Nat) /\ q.leftover \in Nat
      /\ Len(q.delta) = Len(q.pin) /\ Len(q.pin) <= n
      /\ SumTo(q.delta, Len(q.pin)) + q.leftover = SumTo(d, n)
  BY <1>6 DEF CleanedTo, CleanShape
<1>8. PICK a \in Nat, b \in Seq(WvfPins), c \in Seq(Nat), o \in Nat :
        a = Len(b) /\ b = q.pin /\ c = q.delta /\ o = q.leftover
  BY <1>7
<1>9. a = Len(c) /\ a <= n /\ SumTo(c, a) + o = SumTo(d, n)
  BY <1>7, <1>8
<1>10. PICK x \in Nat : x = d[n + 1] + o /\ (n > 0 => x > 0) /\ d[n + 1] \in Nat
  <2>1. d[n + 1] \in Nat
    BY <1>2
  <2> QED BY <1>3, <2>1
<1>11. PICK e : e = Append(c, x)
  OBVIOUS
<1>12. r.pin = b /\ r.delta = e /\ r.mask = q.mask
  <2>1. r.pin = f[n].pin /\ r.mask = f[n].mask
        /\ r.delta = Append(f[n].delta, l.delta[n + 1] + f[n].leftover)
    BY <1>4
  <2> QED BY <1>1, <1>5, <1>8, <1>10, <1>11, <2>1
<1>13. /\ e \in Seq(Nat) /\ Len(e) = a + 1 /\ e[a + 1] = x
       /\ \A k \in 0..a : SumTo(e, k) = SumTo(c, k)
       /\ SumTo(e, a + 1) = SumTo(c, a) + x
  BY <1>9, <1>11, AppendSums
<1>14. SumTo(e, a + 1) = SumTo(d, n + 1)
  <2>1. SumTo(d, n + 1) = SumTo(d, n) + d[n + 1]
    BY SumStep
  <2>2. SumTo(c, a) \in Nat
    <3>1. \A k \in 1..a : c[k] \in Nat
      BY <1>9
    <3> QED BY <3>1, SumNat
  <2>3. PICK u \in Nat, v \in Nat : u = SumTo(c, a) /\ v = d[n + 1] /\ x = v + o
    BY <1>10, <2>2
  <2>4. SumTo(d, n) = u + o
    BY <1>9, <2>3
  <2>5. SumTo(d, n + 1) = (u + o) + v
    BY <2>1, <2>3, <2>4, Zenon
  <2>6. SumTo(e, a + 1) = u + x
    BY <1>13, <2>3, Zenon
  <2>7. u + x = (u + o) + v
    BY <2>3, SMTT(30)
  <2> QED BY <2>5, <2>6, <2>7, Zenon
<1>15. q.mask = m \ {p}
  <2>1. /\ \A y : y # p => (y \in q.mask <=> y \in m)
        /\ \A j \in 1..n : s[j] = p => p \notin q.mask
        /\ p \in q.mask => p \in m
    BY <1>6 DEF CleanedTo, CleanMask
  <2>2. p \notin q.mask
    BY <1>2, <2>1
  <2> QED BY <2>1, <2>2
<1>16. \A k \in 1..a : \E j \in 1..n :
          b[k] = s[j] /\ s[j] # p /\ s[j] \in m /\ SumTo(c, k) = SumTo(d, j)
  BY <1>6, <1>8 DEF CleanedTo, CleanKept
<1>17. AllOn(m \ {p}, b)
  BY <1>8, <1>16 DEF AllOn
<1>18. ASSUME NEW y \in m \ {p} PROVE w[y].desired \in Duty /\ \E k \in 1..a : b[k] = y
  <2>1. PICK j \in 1..n : s[j] = y
    BY <1>2
  <2>2. \E k \in 1..a : b[k] = s[j]
    BY <1>6, <1>8, <2>1 DEF CleanedTo, CleanAll
  <2> QED BY <1>2, <2>1, <2>2
<1>19. ASSUME a > 0
       PROVE  /\ e[a + 1] > 0 /\ SumTo(e, a + 1) = t
              /\ \A k \in 1..a : SumTo(e, k) = WvfEdgeAt(t, w[b[k]].desired)
  <2>1. n > 0
    BY <1>9, <1>19
  <2>2. e[a + 1] > 0 /\ SumTo(e, a + 1) = t
    BY <1>3, <1>10, <1>13, <1>14, <2>1
  <2>3. ASSUME NEW k \in 1..a PROVE SumTo(e, k) = WvfEdgeAt(t, w[b[k]].desired)
    <3>1. PICK j \in 1..n : b[k] = s[j] /\ s[j] \in m /\ SumTo(c, k) = SumTo(d, j)
      BY <1>16
    <3>2. SumTo(d, j) = WvfEdgeAt(t, w[s[j]].desired)
      BY <1>3, <2>1, <3>1
    <3>3. k \in 0..a
      OBVIOUS
    <3> QED BY <1>13, <3>1, <3>2, <3>3
  <2> QED BY <2>2, <2>3
<1>20. PwmList(m \ {p}, b, e, t, w, {})
  BY <1>8, <1>13, <1>18, <1>19 DEF PwmList
<1> QED BY <1>1, <1>8, <1>9, <1>12, <1>15, <1>17, <1>20

-----------------------------------------------------------------------------
(* _setPWMFreq()                                                           *)

EmptyList == [mask |-> {}, pin |-> <<>>, delta |-> <<0>>]

\* f is its loop over the first n entries, s their pins.
Rebuilds(f, s, w, t, n) ==
  f = [i \in 0..n |-> IF i = 0 THEN EmptyList
                      ELSE WvfAddPWM(f[i - 1], s[i], t, w[s[i]].desired)]

LEMMA RebuildsExist ==
  ASSUME NEW s, NEW w, NEW t, NEW n \in Nat
  PROVE  \E f : Rebuilds(f, s, w, t, n)
<1> DEFINE T == {k \in Nat : ~ \E f : Rebuilds(f, s, w, t, k)}
<1> SUFFICES ASSUME T # {} PROVE FALSE
  OBVIOUS
<1>1. PICK k \in T : \A y \in T : k <= y
  BY LeastNat
<1>2. k \in Nat /\ ~ \E f : Rebuilds(f, s, w, t, k)
  OBVIOUS
<1>3. CASE k = 0
  <2> DEFINE f == [j \in 0..0 |-> EmptyList]
  <2>1. Rebuilds(f, s, w, t, 0)
    BY DEF Rebuilds
  <2> QED BY <1>2, <1>3, <2>1
<1>4. CASE k # 0
  <2>1. k - 1 \in Nat /\ k - 1 \notin T
    BY <1>1, <1>2, <1>4
  <2>2. PICK f : Rebuilds(f, s, w, t, k - 1)
    BY <2>1
  <2> DEFINE g == [j \in 0..k |-> IF j = k THEN WvfAddPWM(f[k - 1], s[k], t, w[s[k]].desired)
                                  ELSE f[j]]
  <2>3. ASSUME NEW j \in 0..k
        PROVE  g[j] = IF j = 0 THEN EmptyList ELSE WvfAddPWM(g[j - 1], s[j], t, w[s[j]].desired)
    <3>1. CASE j = k
      <4>1. k - 1 \in 0..k /\ k - 1 # k
        BY <1>2, <2>1
      <4> QED BY <1>4, <3>1, <4>1
    <3>2. CASE j # k
      <4>1. j \in 0..(k - 1) /\ (j # 0 => j - 1 \in 0..k /\ j - 1 # k)
        BY <1>2, <3>2
      <4>2. f[j] = IF j = 0 THEN EmptyList ELSE WvfAddPWM(f[j - 1], s[j], t, w[s[j]].desired)
        BY <2>2, <4>1 DEF Rebuilds
      <4> QED BY <3>2, <4>1, <4>2
    <3> QED BY <3>1, <3>2
  <2>4. Rebuilds(g, s, w, t, k)
    BY <2>3 DEF Rebuilds
  <2> QED BY <1>2, <2>4
<1> QED BY <1>3, <1>4

\* After i turns the list has the first i pins, all of them on.
RebuiltTo(l, s, w, t, i) ==
  /\ PwmList(l.mask, l.pin, l.delta, t, w, {}) /\ Len(l.pin) = i
  /\ AllOn(l.mask, l.pin)
  /\ \A x : x \in l.mask <=> \E j \in 1..i : s[j] = x

LEMMA RebuildTurn ==
  ASSUME NEW s \in Seq(WvfPins), NEW w, NEW t \in Nat, t > 1, NEW i \in 1..Len(s),
         NEW j \in Nat, j = i - 1, w[s[i]].desired \in Duty,
         NEW l, RebuiltTo(l, s, w, t, j), NEW r, r = WvfAddPWM(l, s[i], t, w[s[i]].desired)
  PROVE  RebuiltTo(r, s, w, t, i)
<1>1. PICK p \in WvfPins, duty \in Duty : p = s[i] /\ duty = w[p].desired
  OBVIOUS
<1>2. /\ PwmList(l.mask, l.pin, l.delta, t, w, {}) /\ Len(l.pin) = j
      /\ \A k \in 1..j : l.pin[k] \in l.mask
      /\ \A x : x \in l.mask <=> \E k \in 1..j : s[k] = x
  BY DEF RebuiltTo, AllOn
<1>3. OnIfThere(l.mask, l.pin, p)
  BY <1>2 DEF OnIfThere
<1>4. r = WvfAddPWM(l, p, t, duty) /\ w[p].desired = duty
  BY <1>1
<1>5. /\ PwmList(r.mask, r.pin, r.delta, t, w, {}) /\ r.mask = Plus(l.mask, p)
      /\ Len(r.pin) = Len(l.pin) + 1
      /\ \A k \in 1..Len(r.pin) : r.pin[k] = p \/ \E h \in 1..Len(l.pin) : r.pin[k] = l.pin[h]
  <2>1. Added(r, l, p, t, w)
    BY <1>2, <1>3, <1>4, AddIs
  <2> QED BY <2>1 DEF Added
<1>6. AllOn(r.mask, r.pin)
  BY <1>2, <1>5 DEF AllOn, Plus
<1>7. \A x : x \in r.mask <=> \E k \in 1..i : s[k] = x
  <2>1. \A k \in 1..i : k \in 1..j \/ k = i
    OBVIOUS
  <2>2. i \in 1..i /\ \A k \in 1..j : k \in 1..i
    OBVIOUS
  <2> QED BY <1>1, <1>2, <1>5, <2>1, <2>2 DEF Plus
<1> QED BY <1>2, <1>5, <1>6, <1>7, SMTT(30) DEF RebuiltTo

LEMMA RebuiltIs ==
  ASSUME NEW t \in Nat, t > 1, pwmState.pin \in Seq(WvfPins),
         \A i \in 1..Len(pwmState.pin) : wvfWave[pwmState.pin[i]].desired \in Duty
  PROVE  RebuiltTo(WvfRebuilt(t), pwmState.pin, wvfWave, t, Len(pwmState.pin))
<1>0. PICK w : w = wvfWave
  OBVIOUS
<1>1. PICK s \in Seq(WvfPins), n \in Nat : s = pwmState.pin /\ n = Len(s) /\ w = wvfWave
  BY <1>0
<1>2. \E f : Rebuilds(f, pwmState.pin, wvfWave, t, Len(pwmState.pin))
  <2>1. \E f : Rebuilds(f, s, w, t, n)
    BY RebuildsExist
  <2> QED BY <1>1, <2>1
<1>3. PICK f : Rebuilds(f, s, w, t, n) /\ WvfRebuilt(t) = f[n]
  <2>1. \E f : Rebuilds(f, pwmState.pin, wvfWave, t, Len(pwmState.pin))
               /\ WvfRebuilt(t) = f[Len(pwmState.pin)]
    BY <1>2, Zenon DEF Rebuilds, WvfRebuilt, EmptyList
  <2> QED BY <1>1, <2>1
<1> DEFINE T == {k \in 0..n : ~RebuiltTo(f[k], s, w, t, k)}
<1>4. ASSUME T # {} PROVE FALSE
  <2>0. T \subseteq Nat
    OBVIOUS
  <2>1. PICK k \in T : \A y \in T : k <= y
    BY <1>4, <2>0, LeastNat
  <2>2. k \in 0..n /\ k \in Nat /\ ~RebuiltTo(f[k], s, w, t, k)
    OBVIOUS
  <2>3. f[k] = IF k = 0 THEN EmptyList ELSE WvfAddPWM(f[k - 1], s[k], t, w[s[k]].desired)
    BY <1>3, <2>2 DEF Rebuilds
  <2>4. CASE k = 0
    <3>1. PICK l : l = f[0]
      OBVIOUS
    <3>2. l.mask = {} /\ l.pin = <<>> /\ l.delta = <<0>>
      BY <2>3, <2>4, <3>1 DEF EmptyList
    <3>3. <<>> \in Seq(WvfPins) /\ Len(<<>>) = 0 /\ <<0>> \in Seq(Nat) /\ Len(<<0>>) = 1
      OBVIOUS
    <3>4. PwmList(l.mask, l.pin, l.delta, t, w, {})
      BY <3>2, <3>3 DEF PwmList
    <3>5. RebuiltTo(l, s, w, t, 0)
      BY <3>2, <3>3, <3>4 DEF RebuiltTo, AllOn
    <3> QED BY <2>2, <2>4, <3>1, <3>5
  <2>5. CASE k # 0
    <3>1. PICK j \in Nat : j = k - 1
      BY <2>2, <2>5
    <3>2. j \in 0..n /\ ~(k <= j) /\ k \in 1..Len(s)
      BY <1>1, <2>2, <2>5, <3>1
    <3>3. RebuiltTo(f[j], s, w, t, j)
      BY <2>1, <3>2
    <3>4. PICK r : r = f[k] /\ r = WvfAddPWM(f[j], s[k], t, w[s[k]].desired)
      BY <2>3, <2>5, <3>1
    <3>5. w[s[k]].desired \in Duty
      BY <1>1, <3>2
    <3>6. RebuiltTo(r, s, w, t, k)
      BY <3>1, <3>2, <3>3, <3>4, <3>5, RebuildTurn
    <3> QED BY <2>2, <3>4, <3>6
  <2> QED BY <2>4, <2>5
<1>5. RebuiltTo(f[n], s, w, t, n)
  <2>1. n \in 0..n
    OBVIOUS
  <2> QED BY <1>4, <2>1
<1> QED BY <1>1, <1>3, <1>5

-----------------------------------------------------------------------------
(* WAVEFORM: the invariant                                                 *)

\* What a call has still to go through.
TStopStart == <<"stopPWM", "start">>
TStart == <<"start">>
TStopWave == <<"stopWaveform">>
TWrite == <<"stopWaveform", "stopPWM">>
TStopPwm == <<"stopPWM">>
TAnalog == <<"stopWaveform", "setPWM">>
TSet == <<"setPWM">>
TFreq == <<"setFreq">>

Todos == {TStopStart, TStart, TStopWave, TWrite, TStopPwm, TAnalog, TSet, TFreq}

LEMMA TodosDiffer ==
  /\ TStopStart # TStart /\ TStopStart # TStopWave /\ TStopStart # TWrite /\ TStopStart # TStopPwm
  /\ TStopStart # TAnalog /\ TStopStart # TSet /\ TStopStart # TFreq
  /\ TStart # TStopWave /\ TStart # TWrite /\ TStart # TStopPwm /\ TStart # TAnalog
  /\ TStart # TSet /\ TStart # TFreq
  /\ TStopWave # TWrite /\ TStopWave # TStopPwm /\ TStopWave # TAnalog /\ TStopWave # TSet
  /\ TStopWave # TFreq
  /\ TWrite # TStopPwm /\ TWrite # TAnalog /\ TWrite # TSet /\ TWrite # TFreq
  /\ TStopPwm # TAnalog /\ TStopPwm # TSet /\ TStopPwm # TFreq
  /\ TAnalog # TSet /\ TAnalog # TFreq /\ TSet # TFreq
BY DEF TStopStart, TStart, TStopWave, TWrite, TStopPwm, TAnalog, TSet, TFreq

LEMMA TodosFull == \A t \in Todos : t # <<>>
BY DEF Todos, TStopStart, TStart, TStopWave, TWrite, TStopPwm, TAnalog, TSet, TFreq

LEMMA TodosHead ==
  /\ Head(TStopStart) = "stopPWM" /\ Head(TStart) = "start" /\ Head(TStopWave) = "stopWaveform"
  /\ Head(TWrite) = "stopWaveform" /\ Head(TStopPwm) = "stopPWM"
  /\ Head(TAnalog) = "stopWaveform" /\ Head(TSet) = "setPWM" /\ Head(TFreq) = "setFreq"
BY DEF TStopStart, TStart, TStopWave, TWrite, TStopPwm, TAnalog, TSet, TFreq

LEMMA TodosTail ==
  /\ Tail(TStopStart) = TStart /\ Tail(TStart) = <<>> /\ Tail(TStopWave) = <<>>
  /\ Tail(TWrite) = TStopPwm /\ Tail(TStopPwm) = <<>> /\ Tail(TAnalog) = TSet
  /\ Tail(TSet) = <<>> /\ Tail(TFreq) = <<>>
BY DEF TStopStart, TStart, TStopWave, TWrite, TStopPwm, TAnalog, TSet, TFreq

Waits == {"no", "pwm", "disable", "change", "enable"}

Jobs == [todo : Todos, wait : Waits, pin : WvfPins, arg : WvfPair, expires : BOOLEAN]

Regs == [enabled : SUBSET WvfPins, state : SUBSET WvfPins, toEnable : SUBSET WvfPins,
         toDisable : SUBSET WvfPins, toChange : SUBSET WvfPins, new : WvfPair,
         running : BOOLEAN, cb : BOOLEAN]

WvfTypes ==
  /\ wvfReg \in Regs
  /\ wvfWave \in [WvfPins -> [desired : WvfPair, expires : BOOLEAN]]
  /\ DOMAIN pwmState = {"mask", "pin", "delta", "update"}
  /\ wvfFreq \in [freq : WvfFreqs, period : Nat] /\ wvfFreq.period > 1
  /\ wvfAsked = [p \in WvfPins |-> wvfAsked[p]]
  /\ wvfJob = WvfIdle \/ wvfJob \in Jobs

Busy == wvfJob.todo # <<>>
Full == pwmState.update.full = TRUE

\* The call waits for what its function asks for, with a duty if it has one.
WvfWaits ==
  Busy => /\ wvfJob.wait = "pwm" => Head(wvfJob.todo) \in {"stopPWM", "setPWM", "setFreq"}
          /\ wvfJob.wait = "disable" => Head(wvfJob.todo) = "stopWaveform"
          /\ wvfJob.wait \in {"change", "enable"} => Head(wvfJob.todo) = "start"
          /\ wvfJob.todo \in {TAnalog, TSet} => wvfJob.arg \in Duty

\* Requests are there only while the sketch waits for them to be taken.
WvfRequests ==
  /\ wvfReg.toEnable # {} => Busy /\ wvfJob.wait = "enable" /\ wvfReg.toEnable = {wvfJob.pin}
  /\ wvfReg.toDisable # {} => Busy /\ wvfJob.wait = "disable" /\ wvfReg.toDisable = {wvfJob.pin}
  /\ Full => Busy /\ wvfJob.wait = "pwm"
  /\ ~Full => pwmState.update = WvfNoUpdate

\* No pin belongs to both generators.
WvfOneGenerator ==
  /\ \A p \in pwmState.mask : p \notin wvfReg.enabled /\ p \notin wvfReg.toEnable
  /\ \A p \in pwmState.update.mask : p \notin wvfReg.enabled /\ p \notin wvfReg.toEnable
  /\ \A p \in wvfReg.toChange : p \in wvfReg.enabled /\ p \notin wvfReg.toDisable
  /\ \A p, r \in wvfReg.toChange : p = r
  /\ \A p \in wvfReg.toDisable : p \in wvfReg.enabled

WvfTimerOn == wvfReg.enabled # {} \/ pwmState.pin # <<>> \/ wvfReg.cb => wvfReg.running

\* The list, and the one in the mailbox, are sound; the old list no longer has
\* to be right once there is a new one.
OldList == \E t : PwmList(pwmState.mask, pwmState.pin, pwmState.delta, t, wvfWave, WvfPins)
CurList == PwmList(pwmState.mask, pwmState.pin, pwmState.delta, wvfFreq.period, wvfWave, {})
NewList == PwmList(pwmState.update.mask, pwmState.update.pin, pwmState.update.delta,
                   wvfFreq.period, wvfWave, {})

WvfLists ==
  /\ Len(pwmState.pin) <= maxPWMs /\ Len(pwmState.update.pin) <= maxPWMs
  /\ Full => OldList /\ NewList
  /\ ~Full => CurList

\* The pins that are on after the list in the mailbox is taken.
NextMask == IF Full THEN pwmState.update.mask ELSE pwmState.mask
NextOn == IF Full THEN AllOn(pwmState.update.mask, pwmState.update.pin)
          ELSE AllOn(pwmState.mask, pwmState.pin)
Right(p) == WvfGenerated(p) = wvfAsked[p]

\* How far each call is.
AtStopStart ==
  /\ wvfAsked[wvfJob.pin] = <<"wave", wvfJob.arg>>
  /\ wvfJob.wait = "pwm" => wvfJob.pin \notin NextMask
AtStart ==
  /\ wvfJob.pin \notin pwmState.mask
  /\ wvfJob.wait # "enable" => wvfAsked[wvfJob.pin] = <<"wave", wvfJob.arg>>
  /\ wvfJob.wait = "change" => wvfJob.pin \in wvfReg.enabled
  /\ wvfJob.wait = "enable" => wvfJob.pin \notin wvfReg.toChange
  /\ wvfJob.wait = "enable" /\ wvfReg.toEnable = {} => Right(wvfJob.pin)
  /\ wvfJob.wait = "enable" /\ wvfReg.toEnable # {} =>
       /\ wvfAsked[wvfJob.pin] = <<"wave", wvfJob.arg>>
       /\ wvfWave[wvfJob.pin].desired = wvfJob.arg /\ wvfJob.pin \notin wvfReg.enabled
AtStopWave ==
  /\ wvfJob.pin \in wvfReg.enabled => wvfAsked[wvfJob.pin] = WvfOff
  /\ wvfJob.pin \notin wvfReg.enabled => Right(wvfJob.pin)
AtStopPwm ==
  /\ wvfAsked[wvfJob.pin] = WvfOff /\ wvfJob.pin \notin wvfReg.enabled
  /\ wvfJob.wait = "pwm" => wvfJob.pin \notin NextMask
AtSet ==
  /\ wvfAsked[wvfJob.pin] = <<"pwm", wvfJob.arg>> /\ wvfJob.pin \notin wvfReg.enabled
  /\ wvfJob.wait = "pwm" =>
       wvfJob.pin \in NextMask /\ wvfWave[wvfJob.pin].desired = wvfJob.arg /\ NextOn
AtFreq ==
  Right(wvfJob.pin) /\ NextOn /\ (Full => pwmState.update.mask = pwmState.mask)

WvfPhase ==
  /\ wvfJob.todo = TStopStart => AtStopStart
  /\ wvfJob.todo = TStart => AtStart
  /\ wvfJob.todo = TStopWave => AtStopWave
  /\ wvfJob.todo = TWrite => wvfAsked[wvfJob.pin] = WvfOff
  /\ wvfJob.todo = TStopPwm => AtStopPwm
  /\ wvfJob.todo = TAnalog => wvfAsked[wvfJob.pin] = <<"pwm", wvfJob.arg>>
  /\ wvfJob.todo = TSet => AtSet
  /\ wvfJob.todo = TFreq => AtFreq
  /\ Busy /\ wvfJob.wait = "disable" /\ wvfReg.toDisable = {} => wvfJob.pin \notin wvfReg.enabled

\* The pins that the call is not about.
Other(p) == ~Busy \/ p # wvfJob.pin
WvfOthers ==
  /\ \A p \in WvfPins : Other(p) => Right(p)
  /\ Full => \A p \in WvfPins : Other(p) => (p \in pwmState.update.mask <=> p \in pwmState.mask)

WvfInv == /\ WvfTypes /\ WvfWaits /\ WvfRequests /\ WvfOneGenerator /\ WvfTimerOn
          /\ WvfLists /\ WvfPhase /\ WvfOthers

\* Without the two exceptions.
WvfPlain == WvfShortRuns = FALSE /\ WvfFreqAfterStop = FALSE

-----------------------------------------------------------------------------
(* WAVEFORM: what the steps do to the parts of the state                   *)

LEMMA IdleTodo == WvfIdle.todo = <<>>
BY DEF WvfIdle

LEMMA BusyJob == ASSUME WvfTypes, Busy PROVE wvfJob \in Jobs /\ wvfJob.todo \in Todos
BY IdleTodo DEF WvfTypes, Busy, Jobs

LEMMA IdleJob == ASSUME WvfTypes, ~Busy PROVE wvfJob = WvfIdle
<1>1. wvfJob \in Jobs => Busy
  BY TodosFull DEF Busy, Jobs
<1> QED BY <1>1 DEF WvfTypes

\* The call goes on, with its function t and what that waits for.
JobNow(t, x) ==
  /\ wvfJob' \in Jobs /\ wvfJob'.todo = t /\ wvfJob'.wait = x
  /\ wvfJob'.pin = wvfJob.pin /\ wvfJob'.arg = wvfJob.arg /\ wvfJob'.todo # <<>>

LEMMA GoIs == ASSUME wvfJob \in Jobs, NEW t \in Todos, WvfGo(t) PROVE JobNow(t, "no")
<1>1. t # <<>>
  BY TodosFull
<1>2. wvfJob' = [wvfJob EXCEPT !.todo = t, !.wait = "no"]
  BY <1>1 DEF WvfGo
<1> QED BY <1>1, <1>2 DEF Jobs, JobNow, Waits

LEMMA GoneIs == ASSUME WvfGo(<<>>) PROVE wvfJob' = WvfIdle /\ ~Busy'
BY IdleTodo DEF WvfGo, Busy

LEMMA WaitIs == ASSUME wvfJob \in Jobs, NEW x \in Waits, WvfWait(x) PROVE JobNow(wvfJob.todo, x)
<1>1. wvfJob.todo # <<>>
  BY TodosFull DEF Jobs
<1> QED BY <1>1 DEF Jobs, JobNow, WvfWait

\* What a pin generates depends on its part of the state alone.
LEMMA SameGenerated ==
  ASSUME NEW p, p \in pwmState'.mask <=> p \in pwmState.mask,
         p \in wvfReg'.enabled <=> p \in wvfReg.enabled,
         p \in wvfReg'.toChange <=> p \in wvfReg.toChange,
         p \in wvfReg.toChange => wvfReg'.new = wvfReg.new,
         p \in pwmState.mask \/ p \in wvfReg.enabled => wvfWave'[p].desired = wvfWave[p].desired
  PROVE  WvfGenerated(p)' = WvfGenerated(p)
BY DEF WvfGenerated

LEMMA SameRight ==
  ASSUME NEW p, WvfGenerated(p)' = WvfGenerated(p), wvfAsked'[p] = wvfAsked[p]
  PROVE  Right(p)' <=> Right(p)
BY DEF Right

\* The lists stay sound when the duties of the pins in them stay.
SameDuties == \A p : p \in pwmState.mask \/ p \in pwmState.update.mask =>
                       wvfWave'[p].desired = wvfWave[p].desired

LEMMA ListsKept ==
  ASSUME WvfLists, pwmState' = pwmState, wvfFreq'.period = wvfFreq.period, SameDuties
  PROVE  WvfLists'
<1>1. Full' = Full
  BY DEF Full
<1>2. ASSUME Full PROVE OldList'
  <2>1. PICK t : PwmList(pwmState.mask, pwmState.pin, pwmState.delta, t, wvfWave, WvfPins)
    BY <1>2 DEF WvfLists, OldList
  <2>2. \A p \in pwmState.mask \ WvfPins :
          p \in pwmState.mask \ WvfPins /\ wvfWave'[p].desired = wvfWave[p].desired
    BY DEF SameDuties
  <2>3. PwmList(pwmState.mask, pwmState.pin, pwmState.delta, t, wvfWave', WvfPins)
    BY <2>1, <2>2, PwmListLess
  <2> QED BY <2>3 DEF OldList
<1>3. ASSUME Full PROVE NewList'
  <2>1. NewList
    BY <1>3 DEF WvfLists
  <2>2. \A p \in pwmState.update.mask \ {} :
          p \in pwmState.update.mask \ {} /\ wvfWave'[p].desired = wvfWave[p].desired
    BY DEF SameDuties
  <2>3. PwmList(pwmState.update.mask, pwmState.update.pin, pwmState.update.delta,
                wvfFreq.period, wvfWave', {})
    BY <2>1, <2>2, PwmListLess DEF NewList
  <2> QED BY <2>3 DEF NewList
<1>4. ASSUME ~Full PROVE CurList'
  <2>1. CurList
    BY <1>4 DEF WvfLists
  <2>2. \A p \in pwmState.mask \ {} :
          p \in pwmState.mask \ {} /\ wvfWave'[p].desired = wvfWave[p].desired
    BY DEF SameDuties
  <2>3. PwmList(pwmState.mask, pwmState.pin, pwmState.delta, wvfFreq.period, wvfWave', {})
    BY <2>1, <2>2, PwmListLess DEF CurList
  <2> QED BY <2>3 DEF CurList
<1> QED BY <1>1, <1>2, <1>3, <1>4 DEF WvfLists

-----------------------------------------------------------------------------
(* WAVEFORM: the calls of the sketch                                       *)

\* A call is made: only the pin's own record and what is asked of it change.
CallMade(td, pin, arg) ==
  /\ wvfReg' = wvfReg /\ pwmState' = pwmState
  /\ wvfWave' \in [WvfPins -> [desired : WvfPair, expires : BOOLEAN]]
  /\ \A p \in WvfPins : wvfWave'[p].desired = wvfWave[p].desired
  /\ wvfFreq' \in [freq : WvfFreqs, period : Nat] /\ wvfFreq'.period = wvfFreq.period
  /\ wvfAsked' = [p \in WvfPins |-> wvfAsked'[p]]
  /\ \A p \in WvfPins : p # pin => wvfAsked'[p] = wvfAsked[p]
  /\ wvfJob' \in Jobs /\ wvfJob'.todo = td /\ wvfJob'.wait = "no" /\ wvfJob'.pin = pin
  /\ wvfJob'.arg = arg

LEMMA CallIs ==
  ASSUME NEW td \in Todos, NEW pin \in WvfPins, NEW arg \in WvfPair, NEW expires \in BOOLEAN,
         WvfCall(td, pin, arg, expires)
  PROVE  /\ ~Busy /\ wvfReg' = wvfReg /\ pwmState' = pwmState
         /\ wvfJob' \in Jobs /\ wvfJob'.todo = td /\ wvfJob'.wait = "no" /\ wvfJob'.pin = pin
         /\ wvfJob'.arg = arg
BY DEF WvfCall, Jobs, Waits, Busy

\* The masks are of pins.
LEMMA MaskPins ==
  ASSUME NEW m, NEW s, NEW d, NEW t, NEW w, NEW e, PwmList(m, s, d, t, w, e)
  PROVE  \A p \in m : p \in WvfPins
BY DEF PwmList

LEMMA MasksPins ==
  ASSUME WvfRequests, WvfLists
  PROVE  \A p : p \in pwmState.mask \/ p \in pwmState.update.mask => p \in WvfPins
<1>1. CASE Full
  <2>1. PICK t : PwmList(pwmState.mask, pwmState.pin, pwmState.delta, t, wvfWave, WvfPins)
    BY <1>1 DEF WvfLists, OldList
  <2>2. \A p \in pwmState.mask : p \in WvfPins
    BY <2>1, MaskPins
  <2>3. NewList
    BY <1>1 DEF WvfLists
  <2>4. \A p \in pwmState.update.mask : p \in WvfPins
    BY <2>3, MaskPins DEF NewList
  <2> QED BY <2>2, <2>4
<1>2. CASE ~Full
  <2>1. CurList
    BY <1>2 DEF WvfLists
  <2>2. \A p \in pwmState.mask : p \in WvfPins
    BY <2>1, MaskPins DEF CurList
  <2>3. pwmState.update.mask = {}
    BY <1>2 DEF WvfRequests, WvfNoUpdate
  <2> QED BY <2>2, <2>3
<1> QED BY <1>1, <1>2

LEMMA CallInv ==
  ASSUME WvfInv, ~Busy, NEW td \in Todos, NEW pin \in WvfPins, NEW arg, CallMade(td, pin, arg),
         td \in {TAnalog, TSet} => arg \in Duty, WvfPhase'
  PROVE  WvfInv'
<1>1. /\ WvfTypes /\ WvfWaits /\ WvfRequests /\ WvfOneGenerator /\ WvfTimerOn
      /\ WvfLists /\ WvfPhase /\ WvfOthers
  BY DEF WvfInv
<1>2. /\ wvfReg' = wvfReg /\ pwmState' = pwmState
      /\ \A p \in WvfPins : wvfWave'[p].desired = wvfWave[p].desired
      /\ \A p \in WvfPins : p # pin => wvfAsked'[p] = wvfAsked[p]
      /\ wvfJob'.todo = td /\ wvfJob'.wait = "no" /\ wvfJob'.pin = pin /\ wvfJob'.arg = arg
      /\ wvfFreq'.period = wvfFreq.period
  BY DEF CallMade
<1>3. td # <<>> /\ Busy'
  BY <1>2, TodosFull DEF Busy
<1>4. WvfTypes'
  BY <1>1 DEF WvfTypes, CallMade
<1>5. WvfWaits'
  BY <1>2 DEF WvfWaits
<1>6. WvfRequests' /\ ~Full
  BY <1>1, <1>2 DEF WvfRequests, Full
<1>7. WvfOneGenerator'
  BY <1>1, <1>2 DEF WvfOneGenerator
<1>8. WvfTimerOn'
  BY <1>1, <1>2 DEF WvfTimerOn
<1>9. WvfLists'
  <2>1. SameDuties
    BY <1>1, <1>2, MasksPins DEF SameDuties
  <2> QED BY <1>1, <1>2, <2>1, ListsKept
<1>10. WvfOthers'
  <2>1. Full' = Full
    BY <1>2 DEF Full
  <2>2. ASSUME NEW p \in WvfPins, p # pin PROVE Right(p)'
    <3>1. WvfGenerated(p)' = WvfGenerated(p)
      BY <1>2, SameGenerated
    <3>2. Right(p)
      BY <1>1 DEF WvfOthers, Other
    <3> QED BY <1>2, <2>2, <3>1, <3>2, SameRight
  <2> QED BY <1>2, <1>3, <1>6, <2>1, <2>2 DEF WvfOthers, Other
<1> QED BY <1>4, <1>5, <1>6, <1>7, <1>8, <1>9, <1>10 DEF WvfInv

LEMMA StartWaveformInv ==
  ASSUME WvfInv, NEW pin \in WvfPins, NEW wave \in WvfWaves[pin], NEW expires \in BOOLEAN,
         WvfStartWaveform(pin, wave, expires)
  PROVE  WvfInv'
<1>1. wave \in Duty /\ wave \in WvfPair
  BY WvfAssumption DEF Duty, Pos, WvfPair
<1>2. WvfTypes
  BY DEF WvfInv
<1>3. WvfCall(TStopStart, pin, wave, expires) /\ TStopStart \in Todos
  BY DEF WvfStartWaveform, TStopStart, Todos
<1>4. /\ ~Busy /\ wvfReg' = wvfReg /\ pwmState' = pwmState
      /\ wvfJob' \in Jobs /\ wvfJob'.todo = TStopStart /\ wvfJob'.wait = "no" /\ wvfJob'.pin = pin
      /\ wvfJob'.arg = wave
  BY <1>1, <1>3, CallIs
<1>5. /\ wvfWave' \in [WvfPins -> [desired : WvfPair, expires : BOOLEAN]]
      /\ \A p \in WvfPins : wvfWave'[p].desired = wvfWave[p].desired
  BY <1>2 DEF WvfStartWaveform, WvfTypes
<1>6. wvfFreq' = wvfFreq /\ wvfFreq' \in [freq : WvfFreqs, period : Nat]
  BY <1>2 DEF WvfStartWaveform, WvfTypes
<1>7. /\ wvfAsked' = [p \in WvfPins |-> wvfAsked'[p]]
      /\ \A p \in WvfPins : p # pin => wvfAsked'[p] = wvfAsked[p]
      /\ wvfAsked'[pin] = <<"wave", wave>>
  BY <1>2 DEF WvfStartWaveform, WvfTypes
<1>8. CallMade(TStopStart, pin, wave)
  BY <1>4, <1>5, <1>6, <1>7 DEF CallMade
<1>9. WvfPhase'
  BY <1>4, <1>7, TodosDiffer DEF WvfPhase, AtStopStart
<1> QED BY <1>3, <1>4, <1>8, <1>9, CallInv, TodosDiffer

LEMMA StopInv ==
  ASSUME WvfInv, NEW pin \in WvfPins, WvfStop(pin)
  PROVE  WvfInv'
<1>1. WvfNoWave \in WvfPair
  BY DEF WvfNoWave, WvfPair
<1>2. WvfTypes
  BY DEF WvfInv
<1>3. WvfCall(TStopWave, pin, WvfNoWave, FALSE) /\ TStopWave \in Todos
  BY DEF WvfStop, TStopWave, Todos
<1>4. /\ ~Busy /\ wvfReg' = wvfReg /\ pwmState' = pwmState
      /\ wvfJob' \in Jobs /\ wvfJob'.todo = TStopWave /\ wvfJob'.wait = "no" /\ wvfJob'.pin = pin
      /\ wvfJob'.arg = WvfNoWave
  BY <1>1, <1>3, CallIs
<1>5. wvfWave' = wvfWave /\ wvfFreq' = wvfFreq
  BY DEF WvfStop
<1>6. /\ wvfAsked' = [p \in WvfPins |-> wvfAsked'[p]]
      /\ \A p \in WvfPins : p # pin => wvfAsked'[p] = wvfAsked[p]
      /\ wvfAsked'[pin] = IF wvfAsked[pin][1] = "wave" THEN WvfOff ELSE wvfAsked[pin]
  BY <1>2 DEF WvfStop, WvfTypes
<1>7. CallMade(TStopWave, pin, WvfNoWave)
  BY <1>2, <1>4, <1>5, <1>6 DEF CallMade, WvfTypes
<1>8. wvfAsked[pin] = WvfGenerated(pin)
  BY <1>4 DEF WvfInv, WvfOthers, Other, Right
<1>9. pin \in wvfReg.enabled => wvfAsked'[pin] = WvfOff
  <2>1. pin \in wvfReg.enabled => pin \notin pwmState.mask
    BY DEF WvfInv, WvfOneGenerator
  <2>2. pin \in wvfReg.enabled => WvfGenerated(pin)[1] = "wave"
    BY <2>1 DEF WvfGenerated
  <2> QED BY <1>6, <1>8, <2>2
<1>10. pin \notin wvfReg.enabled => Right(pin)'
  <2>1. pin \notin wvfReg.enabled => WvfGenerated(pin)[1] # "wave"
    BY DEF WvfGenerated, WvfOff
  <2>2. WvfGenerated(pin)' = WvfGenerated(pin)
    BY <1>4, <1>5 DEF WvfGenerated
  <2> QED BY <1>6, <1>8, <2>1, <2>2 DEF Right
<1>11. AtStopWave'
  BY <1>4, <1>9, <1>10 DEF AtStopWave
<1>12. WvfPhase'
  BY <1>4, <1>11, TodosDiffer DEF WvfPhase
<1> QED BY <1>3, <1>4, <1>7, <1>12, CallInv, TodosDiffer

LEMMA DigitalWriteInv ==
  ASSUME WvfInv, NEW pin \in WvfPins, WvfDigitalWrite(pin)
  PROVE  WvfInv'
<1>1. WvfNoWave \in WvfPair
  BY DEF WvfNoWave, WvfPair
<1>2. WvfTypes
  BY DEF WvfInv
<1>3. WvfCall(TWrite, pin, WvfNoWave, FALSE) /\ TWrite \in Todos
  BY DEF WvfDigitalWrite, TWrite, Todos
<1>4. /\ ~Busy /\ wvfReg' = wvfReg /\ pwmState' = pwmState
      /\ wvfJob' \in Jobs /\ wvfJob'.todo = TWrite /\ wvfJob'.wait = "no" /\ wvfJob'.pin = pin
      /\ wvfJob'.arg = WvfNoWave
  BY <1>1, <1>3, CallIs
<1>5. wvfWave' = wvfWave /\ wvfFreq' = wvfFreq
  BY DEF WvfDigitalWrite
<1>6. /\ wvfAsked' = [p \in WvfPins |-> wvfAsked'[p]]
      /\ \A p \in WvfPins : p # pin => wvfAsked'[p] = wvfAsked[p]
      /\ wvfAsked'[pin] = WvfOff
  BY <1>2 DEF WvfDigitalWrite, WvfTypes
<1>7. CallMade(TWrite, pin, WvfNoWave)
  BY <1>2, <1>4, <1>5, <1>6 DEF CallMade, WvfTypes
<1>8. WvfPhase'
  BY <1>4, <1>6, TodosDiffer DEF WvfPhase
<1> QED BY <1>3, <1>4, <1>7, <1>8, CallInv, TodosDiffer

LEMMA AnalogWriteInv ==
  ASSUME WvfInv, NEW pin \in WvfPins, NEW duty \in WvfDuties[pin], WvfAnalogWrite(pin, duty)
  PROVE  WvfInv'
<1>1. duty \in Duty /\ duty \in WvfPair
  BY WvfAssumption DEF Duty, Pos, WvfPair
<1>2. WvfTypes
  BY DEF WvfInv
<1>3. WvfCall(TAnalog, pin, duty, FALSE) /\ TAnalog \in Todos
  BY DEF WvfAnalogWrite, TAnalog, Todos
<1>4. /\ ~Busy /\ wvfReg' = wvfReg /\ pwmState' = pwmState
      /\ wvfJob' \in Jobs /\ wvfJob'.todo = TAnalog /\ wvfJob'.wait = "no" /\ wvfJob'.pin = pin
      /\ wvfJob'.arg = duty
  BY <1>1, <1>3, CallIs
<1>5. wvfWave' = wvfWave /\ wvfFreq' = wvfFreq
  BY DEF WvfAnalogWrite
<1>6. /\ wvfAsked' = [p \in WvfPins |-> wvfAsked'[p]]
      /\ \A p \in WvfPins : p # pin => wvfAsked'[p] = wvfAsked[p]
      /\ wvfAsked'[pin] = <<"pwm", duty>>
  BY <1>2 DEF WvfAnalogWrite, WvfTypes
<1>7. CallMade(TAnalog, pin, duty)
  BY <1>2, <1>4, <1>5, <1>6 DEF CallMade, WvfTypes
<1>8. WvfPhase'
  BY <1>4, <1>6, TodosDiffer DEF WvfPhase
<1> QED BY <1>1, <1>3, <1>4, <1>7, <1>8, CallInv

LEMMA AnalogWriteFreqInv ==
  ASSUME WvfInv, WvfPlain, NEW freq \in WvfFreqs, WvfAnalogWriteFreq(freq)
  PROVE  WvfInv'
<1>1. PICK pin \in WvfPins : pin = CHOOSE p \in WvfPins : TRUE
  BY WvfAssumption
<1>2. WvfTypes
  BY DEF WvfInv
<1>3. WvfCall(TFreq, pin, WvfNoWave, FALSE) /\ TFreq \in Todos /\ WvfNoWave \in WvfPair
  BY <1>1 DEF WvfAnalogWriteFreq, TFreq, Todos, WvfNoWave, WvfPair
<1>4. /\ ~Busy /\ wvfReg' = wvfReg /\ pwmState' = pwmState
      /\ wvfJob' \in Jobs /\ wvfJob'.todo = TFreq /\ wvfJob'.wait = "no" /\ wvfJob'.pin = pin
      /\ wvfJob'.arg = WvfNoWave
  BY <1>3, CallIs
<1>5. wvfWave' = wvfWave /\ wvfAsked' = wvfAsked
  BY DEF WvfAnalogWriteFreq
<1>6. wvfFreq' \in [freq : WvfFreqs, period : Nat] /\ wvfFreq'.period = wvfFreq.period
  BY <1>2 DEF WvfAnalogWriteFreq, WvfTypes
<1>7. CallMade(TFreq, pin, WvfNoWave)
  BY <1>2, <1>4, <1>5, <1>6 DEF CallMade, WvfTypes
<1>8. ~Full /\ ~Full'
  BY <1>4 DEF WvfInv, WvfRequests, Full
<1>9. AllOn(pwmState.mask, pwmState.pin)
  <2>1. ToSet(pwmState.pin) \subseteq pwmState.mask
    BY DEF WvfPlain, WvfAnalogWriteFreq
  <2>2. pwmState.pin \in Seq(WvfPins)
    BY <1>8 DEF WvfInv, WvfLists, CurList, PwmList
  <2> QED BY <2>1, <2>2 DEF ToSet, AllOn
<1>10. Right(pin)'
  <2>1. Right(pin)
    BY <1>4 DEF WvfInv, WvfOthers, Other
  <2> QED BY <1>4, <1>5, <2>1 DEF Right, WvfGenerated
<1>11. AtFreq'
  BY <1>4, <1>8, <1>9, <1>10 DEF AtFreq, NextOn
<1>12. WvfPhase'
  BY <1>4, <1>11, TodosDiffer DEF WvfPhase
<1> QED BY <1>3, <1>4, <1>7, <1>12, CallInv, TodosDiffer

\* A step that leaves the pins and the lists as they are, and the timer on
\* where it is needed: disableIdleTimer(), initTimer(), setTimer1Callback().
OnlyTimer ==
  /\ wvfReg' \in Regs
  /\ wvfReg'.enabled = wvfReg.enabled /\ wvfReg'.toEnable = wvfReg.toEnable
  /\ wvfReg'.toDisable = wvfReg.toDisable /\ wvfReg'.toChange = wvfReg.toChange
  /\ wvfReg'.new = wvfReg.new

LEMMA DisableIdleIs ==
  ASSUME NEW r \in Regs
  PROVE  /\ WvfDisableIdle(r) \in Regs /\ WvfDisableIdle(r).enabled = r.enabled
         /\ WvfDisableIdle(r).toEnable = r.toEnable /\ WvfDisableIdle(r).toDisable = r.toDisable
         /\ WvfDisableIdle(r).toChange = r.toChange /\ WvfDisableIdle(r).new = r.new
         /\ WvfDisableIdle(r).cb = r.cb
         /\ WvfDisableIdle(r).running
              = (r.running /\ ~(r.enabled = {} /\ pwmState.pin = <<>> /\ ~r.cb))
BY DEF WvfDisableIdle, Regs

\* Nothing is left for the interrupt to take.
Unasked == wvfReg.toEnable = {} /\ wvfReg.toDisable = {} /\ ~Full

Quiet ==
  /\ OnlyTimer /\ WvfTimerOn'
  /\ pwmState' = pwmState /\ wvfWave' = wvfWave /\ wvfAsked' = wvfAsked

LEMMA QuietGenerated == ASSUME Quiet, NEW p PROVE Right(p)' <=> Right(p)
<1>1. WvfGenerated(p)' = WvfGenerated(p)
  BY DEF Quiet, OnlyTimer, WvfGenerated
<1> QED BY <1>1 DEF Right, Quiet

LEMMA QuietInv ==
  ASSUME WvfInv, Quiet, Unasked, wvfJob' = WvfIdle \/ wvfJob' \in Jobs, WvfWaits',
         wvfFreq' \in [freq : WvfFreqs, period : Nat], wvfFreq'.period > 1, WvfLists', WvfPhase',
         \A p \in WvfPins : Other(p)' => Other(p) \/ Right(p)
  PROVE  WvfInv'
<1>1. WvfTypes /\ WvfRequests /\ WvfOneGenerator /\ WvfOthers
  BY DEF WvfInv
<1>2. WvfTypes'
  BY <1>1 DEF WvfTypes, Quiet, OnlyTimer
<1>3. WvfRequests' /\ ~Full'
  BY <1>1 DEF WvfRequests, Quiet, OnlyTimer, Unasked, Full
<1>4. WvfOneGenerator'
  BY <1>1 DEF WvfOneGenerator, Quiet, OnlyTimer
<1>5. WvfOthers'
  <2>1. ASSUME NEW p \in WvfPins, Other(p)' PROVE Right(p)'
    BY <1>1, <2>1, QuietGenerated DEF WvfOthers
  <2> QED BY <1>3, <2>1 DEF WvfOthers
<1> QED BY <1>2, <1>3, <1>4, <1>5 DEF WvfInv, Quiet

LEMMA QuietLists == ASSUME WvfInv, Quiet, wvfFreq' = wvfFreq PROVE WvfLists'
<1>1. SameDuties
  BY DEF SameDuties, Quiet
<1>2. WvfLists /\ pwmState' = pwmState /\ wvfFreq'.period = wvfFreq.period
  BY DEF WvfInv, Quiet
<1> QED BY <1>1, <1>2, ListsKept

LEMMA IdlePhase == ASSUME ~Busy' PROVE WvfPhase'
<1>1. wvfJob'.todo = <<>>
  BY DEF Busy
<1> QED BY <1>1, TodosFull DEF WvfPhase, Todos, Busy

\* disableIdleTimer() is called.
LEMMA IdleTimerQuiet ==
  ASSUME WvfInv, wvfReg' = WvfDisableIdle(wvfReg),
         pwmState' = pwmState, wvfWave' = wvfWave, wvfAsked' = wvfAsked
  PROVE  Quiet
<1>1. wvfReg \in Regs /\ WvfTimerOn
  BY DEF WvfInv, WvfTypes
<1>2. OnlyTimer /\ wvfReg'.cb = wvfReg.cb
      /\ wvfReg'.running = (wvfReg.running
                             /\ ~(wvfReg.enabled = {} /\ pwmState.pin = <<>> /\ ~wvfReg.cb))
  BY <1>1, DisableIdleIs DEF OnlyTimer
<1>3. WvfTimerOn'
  BY <1>1, <1>2 DEF WvfTimerOn, OnlyTimer
<1> QED BY <1>2, <1>3 DEF Quiet

LEMMA SetTimer1CallbackInv ==
  ASSUME WvfInv, NEW on \in BOOLEAN, WvfSetTimer1Callback(on)
  PROVE  WvfInv'
<1>1. WvfTypes /\ WvfRequests /\ ~Busy
  BY DEF WvfInv, WvfSetTimer1Callback, Busy
<1>2. PICK r \in Regs : /\ wvfReg' = WvfDisableIdle(r)
                        /\ r.enabled = wvfReg.enabled /\ r.toEnable = wvfReg.toEnable
                        /\ r.toDisable = wvfReg.toDisable /\ r.toChange = wvfReg.toChange
                        /\ r.new = wvfReg.new /\ r.cb = on /\ (on \/ r.running = wvfReg.running)
                        /\ (on => r.running = TRUE)
  <2>1. wvfReg \in Regs
    BY <1>1 DEF WvfTypes
  <2>2. PICK a : a = [wvfReg EXCEPT !.cb = on]
    OBVIOUS
  <2>3. /\ a \in Regs /\ a.enabled = wvfReg.enabled /\ a.toEnable = wvfReg.toEnable
        /\ a.toDisable = wvfReg.toDisable /\ a.toChange = wvfReg.toChange
        /\ a.new = wvfReg.new /\ a.cb = on /\ a.running = wvfReg.running
    BY <2>1, <2>2 DEF Regs
  <2>4. PICK b : b = IF on THEN WvfInitTimer(a) ELSE a
    OBVIOUS
  <2>5. /\ b \in Regs /\ b.enabled = a.enabled /\ b.toEnable = a.toEnable
        /\ b.toDisable = a.toDisable /\ b.toChange = a.toChange
        /\ b.new = a.new /\ b.cb = a.cb /\ (on \/ b.running = a.running) /\ (on => b.running = TRUE)
    BY <2>3, <2>4 DEF Regs, WvfInitTimer
  <2>6. wvfReg' = WvfDisableIdle(b)
    BY <2>2, <2>4 DEF WvfSetTimer1Callback
  <2> QED BY <2>3, <2>5, <2>6
<1>3. OnlyTimer /\ wvfReg'.cb = on
      /\ wvfReg'.running = (r.running /\ ~(r.enabled = {} /\ pwmState.pin = <<>> /\ ~r.cb))
  BY <1>2, DisableIdleIs DEF OnlyTimer
<1>4. /\ pwmState' = pwmState /\ wvfWave' = wvfWave /\ wvfAsked' = wvfAsked /\ wvfJob' = wvfJob
      /\ wvfFreq' = wvfFreq
  BY DEF WvfSetTimer1Callback
<1>5. WvfTimerOn'
  <2>1. WvfTimerOn
    BY DEF WvfInv
  <2> QED BY <1>2, <1>3, <1>4, <2>1 DEF WvfTimerOn, OnlyTimer
<1>6. Quiet
  BY <1>3, <1>4, <1>5 DEF Quiet
<1>7. Unasked
  BY <1>1 DEF WvfRequests, Unasked
<1>8. ~Busy' /\ WvfWaits'
  BY <1>1, <1>4 DEF Busy, WvfWaits
<1>9. WvfLists' /\ WvfPhase'
  BY <1>4, <1>6, <1>8, QuietLists, IdlePhase
<1>10. /\ wvfJob' = WvfIdle \/ wvfJob' \in Jobs
       /\ wvfFreq' \in [freq : WvfFreqs, period : Nat] /\ wvfFreq'.period > 1
  BY <1>1, <1>4 DEF WvfTypes
<1>11. \A p \in WvfPins : Other(p)' => Other(p) \/ Right(p)
  BY <1>1 DEF Other
<1> QED BY <1>6, <1>7, <1>8, <1>9, <1>10, <1>11, QuietInv

-----------------------------------------------------------------------------
(* WAVEFORM: the functions of a call                                       *)

\* A function of the call begins, or has waited.
LEMMA AtIs ==
  ASSUME WvfInv, NEW f, NEW x, WvfAt(f, x)
  PROVE  /\ Busy /\ wvfJob \in Jobs /\ wvfJob.todo \in Todos /\ wvfJob.pin \in WvfPins
         /\ Head(wvfJob.todo) = f /\ wvfJob.wait = x
         /\ x # "enable" => wvfReg.toEnable = {}
         /\ x # "disable" => wvfReg.toDisable = {}
         /\ x # "pwm" => ~Full
<1>1. Busy /\ Head(wvfJob.todo) = f /\ wvfJob.wait = x
  BY DEF WvfAt, Busy
<1>2. wvfJob \in Jobs /\ wvfJob.todo \in Todos
  BY <1>1, BusyJob DEF WvfInv
<1>3. wvfJob.pin \in WvfPins
  BY <1>2 DEF Jobs
<1>4. WvfRequests
  BY DEF WvfInv
<1> QED BY <1>1, <1>2, <1>3, <1>4 DEF WvfRequests

\* Which calls a function belongs to.
LEMMA AtWhich ==
  ASSUME WvfInv, NEW f, NEW x, WvfAt(f, x)
  PROVE  /\ f = "stopPWM" => wvfJob.todo = TStopStart \/ wvfJob.todo = TStopPwm
         /\ f = "start" => wvfJob.todo = TStart
         /\ f = "stopWaveform" => wvfJob.todo = TStopWave \/ wvfJob.todo = TWrite
                                  \/ wvfJob.todo = TAnalog
         /\ f = "setPWM" => wvfJob.todo = TSet
         /\ f = "setFreq" => wvfJob.todo = TFreq
<1>1. wvfJob.todo \in Todos /\ Head(wvfJob.todo) = f
  BY AtIs
<1> QED BY <1>1, TodosHead DEF Todos

\* The function returns into the next one, or the call is over.
LEMMA ReturnIs ==
  ASSUME WvfInv, Busy, WvfReturn
  PROVE  /\ wvfJob.todo = TStopStart => JobNow(TStart, "no")
         /\ wvfJob.todo = TWrite => JobNow(TStopPwm, "no")
         /\ wvfJob.todo = TAnalog => JobNow(TSet, "no")
         /\ wvfJob.todo \in {TStart, TStopWave, TStopPwm, TFreq} => wvfJob' = WvfIdle /\ ~Busy'
<1>1. wvfJob \in Jobs
  BY BusyJob DEF WvfInv
<1>2. TStart \in Todos /\ TStopPwm \in Todos /\ TSet \in Todos
  BY DEF Todos
<1>3. WvfGo(Tail(wvfJob.todo))
  BY DEF WvfReturn
<1>4. ASSUME wvfJob.todo = TStopStart PROVE JobNow(TStart, "no")
  <2>1. WvfGo(TStart)
    BY <1>3, <1>4, TodosTail
  <2> QED BY <1>1, <1>2, <2>1, GoIs
<1>5. ASSUME wvfJob.todo = TWrite PROVE JobNow(TStopPwm, "no")
  <2>1. WvfGo(TStopPwm)
    BY <1>3, <1>5, TodosTail
  <2> QED BY <1>1, <1>2, <2>1, GoIs
<1>6. ASSUME wvfJob.todo = TAnalog PROVE JobNow(TSet, "no")
  <2>1. WvfGo(TSet)
    BY <1>3, <1>6, TodosTail
  <2> QED BY <1>1, <1>2, <2>1, GoIs
<1>7. ASSUME wvfJob.todo \in {TStart, TStopWave, TStopPwm, TFreq}
      PROVE  wvfJob' = WvfIdle /\ ~Busy'
  <2>1. WvfGo(<<>>)
    BY <1>3, <1>7, TodosTail
  <2> QED BY <2>1, GoneIs
<1> QED BY <1>4, <1>5, <1>6, <1>7

\* A call is over, and its pin does what was asked.
LEMMA QuietDone ==
  ASSUME WvfInv, Quiet, Unasked, Busy, wvfFreq' = wvfFreq, wvfJob' = WvfIdle, ~Busy',
         Right(wvfJob.pin)
  PROVE  WvfInv'
<1>1. WvfWaits' /\ WvfLists' /\ WvfPhase'
  BY QuietLists, IdlePhase DEF WvfWaits
<1>2. wvfFreq' \in [freq : WvfFreqs, period : Nat] /\ wvfFreq'.period > 1
  BY DEF WvfInv, WvfTypes
<1>3. \A p \in WvfPins : Other(p)' => Other(p) \/ Right(p)
  BY DEF Other
<1> QED BY <1>1, <1>2, <1>3, QuietInv

\* A call goes on.
LEMMA QuietOn ==
  ASSUME WvfInv, Quiet, Unasked, Busy, wvfFreq' = wvfFreq, NEW t, NEW x, JobNow(t, x), WvfWaits',
         WvfPhase'
  PROVE  WvfInv'
<1>1. WvfLists'
  BY QuietLists
<1>2. wvfFreq' \in [freq : WvfFreqs, period : Nat] /\ wvfFreq'.period > 1
  BY DEF WvfInv, WvfTypes
<1>3. \A p \in WvfPins : Other(p)' => Other(p) \/ Right(p)
  BY DEF Other, JobNow, Busy
<1>4. wvfJob' \in Jobs
  BY DEF JobNow
<1> QED BY <1>1, <1>2, <1>3, <1>4, QuietInv

LEMMA WaitsNo ==
  ASSUME NEW t, JobNow(t, "no"), t \in {TAnalog, TSet} => wvfJob.arg \in Duty
  PROVE  WvfWaits'
BY DEF JobNow, WvfWaits

LEMMA QuietFull == ASSUME Quiet PROVE Full' = Full /\ NextMask' = NextMask /\ NextOn' = NextOn
BY DEF Quiet, Full, NextMask, NextOn

LEMMA NotifiedInv ==
  ASSUME WvfInv, NEW f \in {"stopPWM", "setPWM", "setFreq"}, WvfNotified(f)
  PROVE  WvfInv'
<1>1. WvfAt(f, "pwm")
  BY DEF WvfNotified
<1>2. Busy /\ wvfJob \in Jobs /\ wvfJob.wait = "pwm" /\ wvfJob.pin \in WvfPins
      /\ wvfReg.toEnable = {} /\ wvfReg.toDisable = {}
  BY <1>1, AtIs
<1>3. ~Full
  BY DEF WvfNotified, Full
<1>4. Unasked
  BY <1>2, <1>3 DEF Unasked
<1>5. Quiet /\ wvfFreq' = wvfFreq
  BY IdleTimerQuiet DEF WvfNotified
<1>6. WvfPhase
  BY DEF WvfInv
<1>7. CASE f = "stopPWM"
  <2>1. WvfReturn /\ (wvfJob.todo = TStopStart \/ wvfJob.todo = TStopPwm)
    BY <1>1, <1>7, AtWhich DEF WvfNotified
  <2>2. CASE wvfJob.todo = TStopStart
    <3>1. JobNow(TStart, "no")
      BY <1>2, <2>1, <2>2, ReturnIs
    <3>2. AtStopStart
      BY <1>6, <2>2 DEF WvfPhase
    <3>3. wvfAsked[wvfJob.pin] = <<"wave", wvfJob.arg>> /\ wvfJob.pin \notin pwmState.mask
      BY <1>2, <1>3, <3>2 DEF AtStopStart, NextMask
    <3>4. AtStart'
      BY <1>5, <3>1, <3>3 DEF AtStart, JobNow, Quiet
    <3>5. WvfPhase'
      BY <3>1, <3>4, TodosDiffer DEF WvfPhase, JobNow
    <3>6. WvfWaits'
      BY <3>1, WaitsNo, TodosDiffer
    <3> QED BY <1>2, <1>4, <1>5, <3>1, <3>5, <3>6, QuietOn
  <2>3. CASE wvfJob.todo = TStopPwm
    <3>1. wvfJob' = WvfIdle /\ ~Busy'
      BY <1>2, <2>1, <2>3, ReturnIs
    <3>2. AtStopPwm
      BY <1>6, <2>3 DEF WvfPhase
    <3>3. Right(wvfJob.pin)
      BY <1>2, <1>3, <3>2 DEF AtStopPwm, NextMask, Right, WvfGenerated
    <3> QED BY <1>2, <1>4, <1>5, <3>1, <3>3, QuietDone
  <2> QED BY <2>1, <2>2, <2>3
<1>8. CASE f = "setPWM"
  <2>1. wvfJob.todo = TSet /\ WvfGo(TFreq) /\ TFreq \in Todos
    BY <1>1, <1>8, AtWhich DEF WvfNotified, TFreq, Todos
  <2>2. JobNow(TFreq, "no")
    BY <1>2, <2>1, GoIs
  <2>3. AtSet
    BY <1>6, <2>1 DEF WvfPhase
  <2>4. /\ wvfAsked[wvfJob.pin] = <<"pwm", wvfJob.arg>> /\ wvfJob.pin \in pwmState.mask
        /\ wvfWave[wvfJob.pin].desired = wvfJob.arg /\ NextOn
    BY <1>2, <1>3, <2>3 DEF AtSet, NextMask
  <2>5. Right(wvfJob.pin)
    BY <2>4 DEF Right, WvfGenerated
  <2>6. Right(wvfJob.pin)'
    <3>1. \A p : Right(p)' <=> Right(p)
      BY <1>5, QuietGenerated
    <3>2. wvfJob'.pin = wvfJob.pin
      BY <2>2 DEF JobNow
    <3> QED BY <1>5, <2>5, <3>2 DEF Right, WvfGenerated, Quiet, OnlyTimer
  <2>7. AtFreq'
    BY <1>3, <1>5, <2>4, <2>6, QuietFull DEF AtFreq
  <2>8. WvfPhase'
    BY <2>2, <2>7, TodosDiffer DEF WvfPhase, JobNow
  <2>9. WvfWaits'
    BY <2>2, WaitsNo, TodosDiffer
  <2> QED BY <1>2, <1>4, <1>5, <2>2, <2>8, <2>9, QuietOn
<1>9. CASE f = "setFreq"
  <2>1. wvfJob.todo = TFreq /\ WvfReturn
    BY <1>1, <1>9, AtWhich DEF WvfNotified
  <2>2. wvfJob' = WvfIdle /\ ~Busy'
    BY <1>2, <2>1, ReturnIs
  <2>3. Right(wvfJob.pin)
    BY <1>6, <2>1 DEF WvfPhase, AtFreq
  <2> QED BY <1>2, <1>4, <1>5, <2>2, <2>3, QuietDone
<1> QED BY <1>7, <1>8, <1>9

\* stopWaveform() is over: the pin has no waveform.
LEMMA WaveStopped ==
  ASSUME WvfInv, Busy, wvfJob \in Jobs, Head(wvfJob.todo) = "stopWaveform", Unasked, Quiet,
         wvfFreq' = wvfFreq, WvfReturn, wvfJob.pin \notin wvfReg.enabled,
         wvfJob.todo = TStopWave \/ wvfJob.todo = TWrite \/ wvfJob.todo = TAnalog
  PROVE  WvfInv'
<1>1. WvfPhase
  BY DEF WvfInv
<1>2. CASE wvfJob.todo = TStopWave
  <2>1. wvfJob' = WvfIdle /\ ~Busy'
    BY <1>2, ReturnIs
  <2>2. Right(wvfJob.pin)
    BY <1>1, <1>2 DEF WvfPhase, AtStopWave
  <2> QED BY <2>1, <2>2, QuietDone
<1>3. CASE wvfJob.todo = TWrite
  <2>1. JobNow(TStopPwm, "no")
    BY <1>3, ReturnIs
  <2>2. AtStopPwm'
    BY <1>1, <1>3, <2>1 DEF WvfPhase, AtStopPwm, JobNow, Quiet, OnlyTimer
  <2>3. WvfPhase'
    BY <2>1, <2>2, TodosDiffer DEF WvfPhase, JobNow
  <2>4. WvfWaits'
    BY <2>1, WaitsNo, TodosDiffer
  <2> QED BY <2>1, <2>3, <2>4, QuietOn
<1>4. CASE wvfJob.todo = TAnalog
  <2>1. JobNow(TSet, "no")
    BY <1>4, ReturnIs
  <2>2. AtSet'
    BY <1>1, <1>4, <2>1 DEF WvfPhase, AtSet, JobNow, Quiet, OnlyTimer
  <2>3. WvfPhase'
    BY <2>1, <2>2, TodosDiffer DEF WvfPhase, JobNow
  <2>4. WvfWaits'
    <3>1. wvfJob.arg \in Duty
      BY <1>4 DEF WvfInv, WvfWaits
    <3> QED BY <2>1, <3>1, WaitsNo
  <2> QED BY <2>1, <2>3, <2>4, QuietOn
<1> QED BY <1>2, <1>3, <1>4

LEMMA StoppedInv == ASSUME WvfInv, WvfStopped PROVE WvfInv'
<1>1. WvfAt("stopWaveform", "disable") /\ wvfReg.toDisable = {} /\ WvfReturn
  BY DEF WvfStopped
<1>2. Busy /\ wvfJob \in Jobs /\ wvfJob.wait = "disable" /\ wvfReg.toEnable = {} /\ ~Full
      /\ Head(wvfJob.todo) = "stopWaveform"
  BY <1>1, AtIs
<1>3. Unasked
  BY <1>1, <1>2 DEF Unasked
<1>4. Quiet /\ wvfFreq' = wvfFreq
  BY IdleTimerQuiet DEF WvfStopped
<1>5. wvfJob.pin \notin wvfReg.enabled
  BY <1>1, <1>2 DEF WvfInv, WvfPhase
<1>6. wvfJob.todo = TStopWave \/ wvfJob.todo = TWrite \/ wvfJob.todo = TAnalog
  BY <1>1, AtWhich
<1> QED BY <1>1, <1>2, <1>3, <1>4, <1>5, <1>6, WaveStopped

LEMMA EnabledInv == ASSUME WvfInv, WvfEnabled PROVE WvfInv'
<1>1. WvfAt("start", "enable") /\ wvfReg.toEnable = {} /\ WvfReturn
  BY DEF WvfEnabled
<1>2. Busy /\ wvfJob.wait = "enable" /\ wvfReg.toDisable = {} /\ ~Full /\ wvfJob.todo = TStart
  BY <1>1, AtIs, AtWhich
<1>3. Unasked
  BY <1>1, <1>2 DEF Unasked
<1>4. Quiet /\ wvfFreq' = wvfFreq
  BY DEF WvfEnabled, Quiet, OnlyTimer, WvfInv, WvfTypes, WvfTimerOn
<1>5. wvfJob' = WvfIdle /\ ~Busy'
  BY <1>1, <1>2, ReturnIs
<1>6. Right(wvfJob.pin)
  BY <1>1, <1>2 DEF WvfInv, WvfPhase, AtStart
<1> QED BY <1>2, <1>3, <1>4, <1>5, <1>6, QuietDone

LEMMA StopWaveformInv == ASSUME WvfInv, WvfStopWaveform PROVE WvfInv'
<1>1. /\ WvfTypes /\ WvfRequests /\ WvfOneGenerator /\ WvfTimerOn
      /\ WvfLists /\ WvfPhase /\ WvfOthers
  BY DEF WvfInv
<1>2. WvfAt("stopWaveform", "no")
  BY DEF WvfStopWaveform
<1>3. /\ Busy /\ wvfJob \in Jobs /\ wvfJob.pin \in WvfPins /\ Head(wvfJob.todo) = "stopWaveform"
      /\ wvfReg.toEnable = {} /\ wvfReg.toDisable = {} /\ ~Full
  BY <1>2, AtIs
<1>4. /\ pwmState' = pwmState /\ wvfWave' = wvfWave /\ wvfFreq' = wvfFreq /\ wvfAsked' = wvfAsked
  BY DEF WvfStopWaveform
<1>5. wvfJob.todo = TStopWave \/ wvfJob.todo = TWrite \/ wvfJob.todo = TAnalog
  BY <1>2, AtWhich
<1>6. PICK pin \in WvfPins : pin = wvfJob.pin
  BY <1>3
<1>7. CASE ~(wvfReg.running /\ pin \in wvfReg.enabled)
  <2>1. wvfReg' = WvfDisableIdle(wvfReg) /\ WvfReturn
    BY <1>6, <1>7 DEF WvfStopWaveform
  <2>2. pin \notin wvfReg.enabled
    BY <1>1, <1>7 DEF WvfTimerOn
  <2>3. Unasked /\ Quiet
    BY <1>3, <1>4, <2>1, IdleTimerQuiet DEF Unasked
  <2> QED BY <1>3, <1>4, <1>5, <1>6, <2>1, <2>2, <2>3, WaveStopped
<1>8. CASE wvfReg.running /\ pin \in wvfReg.enabled
  <2>1. /\ wvfReg' = [wvfReg EXCEPT !.toDisable = {pin}, !.toChange = @ \ {pin},
                                     !.new = IF pin \in wvfReg.toChange THEN WvfNoWave ELSE @]
        /\ WvfWait("disable")
    BY <1>6, <1>8 DEF WvfStopWaveform
  <2>2. JobNow(wvfJob.todo, "disable")
    BY <1>3, <2>1, WaitIs DEF Waits
  <2>3. /\ wvfReg' \in Regs /\ wvfReg'.enabled = wvfReg.enabled /\ wvfReg'.toEnable = {}
        /\ wvfReg'.toDisable = {pin} /\ wvfReg'.toChange = wvfReg.toChange \ {pin}
        /\ wvfReg'.new = (IF pin \in wvfReg.toChange THEN WvfNoWave ELSE wvfReg.new)
        /\ wvfReg'.running = wvfReg.running /\ wvfReg'.cb = wvfReg.cb
    <3>1. wvfReg \in Regs /\ WvfNoWave \in WvfPair
      BY <1>1 DEF WvfTypes, WvfNoWave, WvfPair
    <3> QED BY <1>3, <2>1, <3>1 DEF Regs
  <2>4. /\ Busy' /\ wvfJob' \in Jobs /\ wvfJob'.todo = wvfJob.todo /\ wvfJob'.wait = "disable"
        /\ wvfJob'.pin = pin /\ wvfJob'.arg = wvfJob.arg
    BY <1>6, <2>2 DEF JobNow, Busy
  <2>5. WvfTypes'
    BY <1>1, <1>4, <2>3, <2>4 DEF WvfTypes
  <2>6. WvfWaits'
    <3>1. WvfWaits
      BY DEF WvfInv
    <3> QED BY <1>3, <2>4, <3>1 DEF WvfWaits
  <2>7. WvfRequests' /\ ~Full'
    BY <1>1, <1>3, <1>4, <2>3, <2>4 DEF WvfRequests, Full
  <2>8. WvfOneGenerator'
    BY <1>1, <1>3, <1>4, <1>8, <2>3 DEF WvfOneGenerator
  <2>9. WvfTimerOn'
    BY <1>1, <1>4, <2>3 DEF WvfTimerOn
  <2>10. WvfLists'
    <3>1. SameDuties
      BY <1>4 DEF SameDuties
    <3> QED BY <1>1, <1>4, <3>1, ListsKept
  <2>11. WvfPhase'
    <3>1. wvfJob.todo = TStopWave => AtStopWave'
      BY <1>1, <1>4, <1>6, <1>8, <2>3, <2>4 DEF WvfPhase, AtStopWave
    <3> QED BY <1>1, <1>4, <1>5, <1>6, <2>3, <2>4, <3>1, TodosDiffer DEF WvfPhase
  <2>12. WvfOthers'
    <3>1. ASSUME NEW p \in WvfPins, p # pin PROVE Right(p)'
      <4>1. p \in wvfReg.toChange => pin \notin wvfReg.toChange
        BY <1>1, <3>1 DEF WvfOneGenerator
      <4>2. WvfGenerated(p)' = WvfGenerated(p)
        BY <1>4, <2>3, <3>1, <4>1, SameGenerated
      <4>3. Right(p)
        BY <1>1, <1>6, <3>1 DEF WvfOthers, Other
      <4> QED BY <1>4, <4>2, <4>3, SameRight
    <3> QED BY <2>4, <2>7, <3>1 DEF WvfOthers, Other
  <2> QED BY <2>5, <2>6, <2>7, <2>8, <2>9, <2>10, <2>11, <2>12 DEF WvfInv
<1> QED BY <1>7, <1>8

LEMMA StartInv == ASSUME WvfInv, WvfStart PROVE WvfInv'
<1>1. /\ WvfTypes /\ WvfRequests /\ WvfOneGenerator /\ WvfTimerOn
      /\ WvfLists /\ WvfPhase /\ WvfOthers
  BY DEF WvfInv
<1>2. WvfAt("start", "no")
  BY DEF WvfStart
<1>3. /\ Busy /\ wvfJob \in Jobs /\ wvfJob.pin \in WvfPins /\ Head(wvfJob.todo) = "start"
      /\ wvfJob.wait = "no" /\ wvfReg.toEnable = {} /\ wvfReg.toDisable = {} /\ ~Full
      /\ wvfJob.todo = TStart
  BY <1>2, AtIs, AtWhich
<1>4. pwmState' = pwmState /\ wvfFreq' = wvfFreq /\ wvfAsked' = wvfAsked
  BY DEF WvfStart
<1>5. PICK pin \in WvfPins, arg \in WvfPair : pin = wvfJob.pin /\ arg = wvfJob.arg
  BY <1>3 DEF Jobs
<1>6. wvfAsked[pin] = <<"wave", arg>> /\ pin \notin pwmState.mask
  BY <1>1, <1>3, <1>5 DEF WvfPhase, AtStart
<1>7. CASE pin \in wvfReg.enabled
  <2>1. WvfWait("change") /\ wvfReg' = wvfReg /\ wvfWave' = wvfWave
    BY <1>5, <1>7 DEF WvfStart
  <2>2. JobNow(TStart, "change")
    BY <1>3, <2>1, WaitIs DEF Waits
  <2>3. Quiet
    BY <1>1, <1>4, <2>1 DEF Quiet, OnlyTimer, WvfTypes, WvfTimerOn
  <2>4. AtStart'
    BY <1>4, <1>5, <1>6, <1>7, <2>1, <2>2 DEF AtStart, JobNow
  <2>5. WvfPhase'
    BY <2>2, <2>4, TodosDiffer DEF WvfPhase, JobNow
  <2>6. WvfWaits'
    BY <2>2, TodosDiffer, TodosHead DEF WvfWaits, JobNow
  <2>7. Unasked
    BY <1>3 DEF Unasked
  <2> QED BY <1>3, <1>4, <2>2, <2>3, <2>5, <2>6, <2>7, QuietOn
<1>8. CASE pin \notin wvfReg.enabled
  <2>1. /\ wvfWave' = [wvfWave EXCEPT ![pin].desired = arg] /\ WvfWait("enable")
        /\ wvfReg' = WvfInitTimer([wvfReg EXCEPT !.toEnable = @ \cup {pin}])
    BY <1>5, <1>8 DEF WvfStart
  <2>2. JobNow(TStart, "enable")
    BY <1>3, <2>1, WaitIs DEF Waits
  <2>3. /\ wvfReg' \in Regs /\ wvfReg'.enabled = wvfReg.enabled /\ wvfReg'.toEnable = {pin}
        /\ wvfReg'.toDisable = {} /\ wvfReg'.toChange = wvfReg.toChange
        /\ wvfReg'.new = wvfReg.new /\ wvfReg'.running = TRUE
    <3>1. wvfReg \in Regs
      BY <1>1 DEF WvfTypes
    <3> QED BY <1>3, <2>1, <3>1 DEF Regs, WvfInitTimer
  <2>4. /\ wvfWave' \in [WvfPins -> [desired : WvfPair, expires : BOOLEAN]]
        /\ \A p \in WvfPins : p # pin => wvfWave'[p] = wvfWave[p]
        /\ wvfWave'[pin].desired = arg
    BY <1>1, <2>1 DEF WvfTypes
  <2>5. /\ Busy' /\ wvfJob' \in Jobs /\ wvfJob'.todo = TStart /\ wvfJob'.wait = "enable"
        /\ wvfJob'.pin = pin /\ wvfJob'.arg = arg
    BY <1>5, <2>2 DEF JobNow, Busy
  <2>6. WvfTypes'
    BY <1>1, <1>4, <2>3, <2>4, <2>5 DEF WvfTypes
  <2>7. WvfWaits'
    BY <2>5, TodosDiffer, TodosHead DEF WvfWaits
  <2>8. WvfRequests' /\ ~Full'
    BY <1>1, <1>3, <1>4, <2>3, <2>5 DEF WvfRequests, Full
  <2>9. WvfOneGenerator'
    <3>1. pwmState.update.mask = {}
      BY <1>1, <1>3 DEF WvfRequests, WvfNoUpdate
    <3> QED BY <1>1, <1>4, <1>6, <2>3, <3>1 DEF WvfOneGenerator
  <2>10. WvfTimerOn'
    BY <2>3 DEF WvfTimerOn
  <2>11. WvfLists'
    <3>1. pwmState.update.mask = {}
      BY <1>1, <1>3 DEF WvfRequests, WvfNoUpdate
    <3>2. SameDuties
      BY <1>1, <1>6, <2>4, <3>1, MasksPins DEF SameDuties
    <3> QED BY <1>1, <1>4, <3>2, ListsKept
  <2>12. WvfPhase'
    <3>1. pin \notin wvfReg.toChange
      BY <1>1, <1>8 DEF WvfOneGenerator
    <3>2. AtStart'
      BY <1>4, <1>6, <1>8, <2>3, <2>4, <2>5, <3>1 DEF AtStart
    <3> QED BY <2>3, <2>5, <3>2, TodosDiffer DEF WvfPhase
  <2>13. WvfOthers'
    <3>1. ASSUME NEW p \in WvfPins, p # pin PROVE Right(p)'
      <4>1. WvfGenerated(p)' = WvfGenerated(p)
        BY <1>4, <2>3, <2>4, <3>1, SameGenerated
      <4>2. Right(p)
        BY <1>1, <1>5, <3>1 DEF WvfOthers, Other
      <4> QED BY <1>4, <4>1, <4>2, SameRight
    <3> QED BY <2>5, <2>8, <3>1 DEF WvfOthers, Other
  <2> QED BY <2>6, <2>7, <2>8, <2>9, <2>10, <2>11, <2>12, <2>13 DEF WvfInv
<1> QED BY <1>7, <1>8

LEMMA ChangeInv == ASSUME WvfInv, WvfChange PROVE WvfInv'
<1>1. /\ WvfTypes /\ WvfRequests /\ WvfOneGenerator /\ WvfTimerOn
      /\ WvfLists /\ WvfPhase /\ WvfOthers
  BY DEF WvfInv
<1>2. WvfAt("start", "change") /\ WvfReturn /\ wvfReg.toChange = {}
  BY DEF WvfChange
<1>3. /\ Busy /\ wvfJob \in Jobs /\ wvfJob.pin \in WvfPins /\ wvfJob.wait = "change"
      /\ wvfReg.toEnable = {} /\ wvfReg.toDisable = {} /\ ~Full /\ wvfJob.todo = TStart
  BY <1>2, AtIs, AtWhich
<1>4. /\ pwmState' = pwmState /\ wvfWave' = wvfWave /\ wvfFreq' = wvfFreq /\ wvfAsked' = wvfAsked
  BY DEF WvfChange
<1>5. PICK pin \in WvfPins, arg \in WvfPair : pin = wvfJob.pin /\ arg = wvfJob.arg
  BY <1>3 DEF Jobs
<1>6. wvfAsked[pin] = <<"wave", arg>> /\ pin \notin pwmState.mask /\ pin \in wvfReg.enabled
  BY <1>1, <1>3, <1>5 DEF WvfPhase, AtStart
<1>7. wvfJob' = WvfIdle /\ ~Busy'
  BY <1>2, <1>3, ReturnIs
<1>8. /\ wvfReg' \in Regs /\ wvfReg'.enabled = wvfReg.enabled /\ wvfReg'.toEnable = {}
      /\ wvfReg'.toDisable = {} /\ wvfReg'.toChange = {pin} /\ wvfReg'.new = arg
      /\ wvfReg'.running = wvfReg.running /\ wvfReg'.cb = wvfReg.cb
  <2>1. wvfReg' = [wvfReg EXCEPT !.new = arg, !.toChange = {pin}]
    BY <1>5 DEF WvfChange
  <2>2. wvfReg \in Regs
    BY <1>1 DEF WvfTypes
  <2> QED BY <1>3, <2>1, <2>2 DEF Regs
<1>9. WvfTypes'
  BY <1>1, <1>4, <1>7, <1>8 DEF WvfTypes
<1>10. WvfWaits' /\ WvfPhase'
  BY <1>7, IdlePhase DEF WvfWaits
<1>11. WvfRequests' /\ ~Full'
  BY <1>1, <1>3, <1>4, <1>8 DEF WvfRequests, Full
<1>12. WvfOneGenerator'
  BY <1>1, <1>3, <1>4, <1>6, <1>8 DEF WvfOneGenerator
<1>13. WvfTimerOn'
  BY <1>1, <1>4, <1>8 DEF WvfTimerOn
<1>14. WvfLists'
  <2>1. SameDuties
    BY <1>4 DEF SameDuties
  <2> QED BY <1>1, <1>4, <2>1, ListsKept
<1>15. WvfOthers'
  <2>1. ASSUME NEW p \in WvfPins, p # pin PROVE Right(p)'
    <3>1. WvfGenerated(p)' = WvfGenerated(p)
      BY <1>2, <1>4, <1>8, <2>1, SameGenerated
    <3>2. Right(p)
      BY <1>1, <1>5, <2>1 DEF WvfOthers, Other
    <3> QED BY <1>4, <3>1, <3>2, SameRight
  <2>2. Right(pin)'
    BY <1>4, <1>6, <1>8 DEF Right, WvfGenerated
  <2> QED BY <1>11, <2>1, <2>2 DEF WvfOthers
<1> QED BY <1>9, <1>10, <1>11, <1>12, <1>13, <1>14, <1>15 DEF WvfInv

\* _notifyPWM(): the list n is in the mailbox and the call waits.
Notified(n) ==
  /\ pwmState'.mask = pwmState.mask /\ pwmState'.pin = pwmState.pin
  /\ pwmState'.delta = pwmState.delta /\ DOMAIN pwmState' = DOMAIN pwmState /\ Full'
  /\ pwmState'.update.mask = n.mask /\ pwmState'.update.pin = n.pin
  /\ pwmState'.update.delta = n.delta

LEMMA NotifyIs ==
  ASSUME WvfTypes, NEW n, WvfNotify(n)
  PROVE  Notified(n)
<1>1. DOMAIN pwmState = {"mask", "pin", "delta", "update"}
  BY DEF WvfTypes
<1>2. PICK u : u = [mask |-> n.mask, pin |-> n.pin, delta |-> n.delta, full |-> TRUE]
  OBVIOUS
<1>3. pwmState' = [pwmState EXCEPT !.update = u]
  BY <1>2 DEF WvfNotify
<1>4. /\ pwmState'.mask = pwmState.mask /\ pwmState'.pin = pwmState.pin
      /\ pwmState'.delta = pwmState.delta /\ pwmState'.update = u
      /\ DOMAIN pwmState' = DOMAIN pwmState
  BY <1>1, <1>3
<1> QED BY <1>2, <1>4 DEF Notified, Full

\* The new list is about the pin of the call only.
NewFor(n) ==
  /\ \A p \in WvfPins : p # wvfJob.pin => (p \in n.mask <=> p \in pwmState.mask)
  /\ wvfJob.pin \in n.mask => wvfJob.pin \notin wvfReg.enabled
  /\ Len(n.pin) <= maxPWMs
  /\ PwmList(n.mask, n.pin, n.delta, wvfFreq'.period, wvfWave', {})

LEMMA NotifyInv ==
  ASSUME WvfInv, Unasked, Busy, NEW n, Notified(n), NewFor(n), JobNow(wvfJob.todo, "pwm"),
         Head(wvfJob.todo) \in {"stopPWM", "setPWM", "setFreq"}, OnlyTimer, WvfTimerOn',
         wvfFreq' \in [freq : WvfFreqs, period : Nat], wvfFreq'.period > 1,
         wvfWave' \in [WvfPins -> [desired : WvfPair, expires : BOOLEAN]],
         \A p \in WvfPins : p # wvfJob.pin => wvfWave'[p].desired = wvfWave[p].desired,
         wvfAsked' = wvfAsked, WvfPhase'
  PROVE  WvfInv'
<1>1. WvfTypes /\ WvfWaits /\ WvfRequests /\ WvfOneGenerator /\ WvfLists /\ WvfOthers
  BY DEF WvfInv
<1>2. /\ Busy' /\ wvfJob' \in Jobs /\ wvfJob'.todo = wvfJob.todo /\ wvfJob'.wait = "pwm"
      /\ wvfJob'.pin = wvfJob.pin /\ wvfJob'.arg = wvfJob.arg
  BY DEF JobNow, Busy
<1>3. /\ pwmState'.mask = pwmState.mask /\ pwmState'.pin = pwmState.pin
      /\ pwmState'.delta = pwmState.delta /\ DOMAIN pwmState' = DOMAIN pwmState /\ Full'
      /\ pwmState'.update.mask = n.mask /\ pwmState'.update.pin = n.pin
      /\ pwmState'.update.delta = n.delta
  BY DEF Notified
<1>4. CurList /\ wvfReg.toEnable = {} /\ wvfReg.toDisable = {}
  BY <1>1 DEF Unasked, WvfLists
<1>5. /\ \A p \in pwmState.mask : p \in WvfPins
      /\ \A p \in n.mask : p \in WvfPins
  BY <1>4, MaskPins DEF CurList, NewFor
<1>6. WvfTypes'
  BY <1>1, <1>2, <1>3 DEF WvfTypes, OnlyTimer
<1>7. WvfWaits'
  BY <1>1, <1>2 DEF WvfWaits
<1>8. WvfRequests'
  BY <1>2, <1>3, <1>4 DEF WvfRequests, OnlyTimer
<1>9. WvfOneGenerator'
  <2>1. ASSUME NEW p \in n.mask PROVE p \notin wvfReg.enabled
    BY <1>1, <1>5 DEF NewFor, WvfOneGenerator
  <2> QED BY <1>1, <1>3, <1>4, <2>1 DEF WvfOneGenerator, OnlyTimer
<1>10. WvfLists'
  <2>1. NewList'
    BY <1>3 DEF NewFor, NewList
  <2>2. \A p \in pwmState.mask \ WvfPins :
          p \in pwmState.mask \ {} /\ wvfWave'[p].desired = wvfWave[p].desired
    BY <1>5
  <2>3. PwmList(pwmState.mask, pwmState.pin, pwmState.delta, wvfFreq.period, wvfWave', WvfPins)
    BY <1>4, <2>2, PwmListLess DEF CurList
  <2>4. OldList'
    BY <1>3, <2>3 DEF OldList
  <2>5. Len(pwmState.pin) <= maxPWMs /\ Len(n.pin) <= maxPWMs
    BY <1>1 DEF WvfLists, NewFor
  <2> QED BY <1>3, <2>1, <2>4, <2>5 DEF WvfLists
<1>11. WvfOthers'
  <2>1. ASSUME NEW p \in WvfPins, p # wvfJob.pin PROVE Right(p)'
    <3>1. WvfGenerated(p)' = WvfGenerated(p)
      BY <1>3, <2>1, SameGenerated DEF OnlyTimer
    <3>2. Right(p)
      BY <1>1, <2>1 DEF WvfOthers, Other
    <3> QED BY <3>1, <3>2, SameRight
  <2> QED BY <1>2, <1>3, <2>1 DEF WvfOthers, Other, NewFor
<1> QED BY <1>6, <1>7, <1>8, <1>9, <1>10, <1>11 DEF WvfInv

LEMMA EmptyListIs == ASSUME NEW t, NEW w, NEW e PROVE PwmList({}, <<>>, <<0>>, t, w, e)
<1>1. PICK s \in Seq(WvfPins), d \in Seq(Nat) : s = <<>> /\ Len(s) = 0 /\ d = <<0>> /\ Len(d) = 1
  <2>1. <<>> \in Seq(WvfPins) /\ Len(<<>>) = 0 /\ <<0>> \in Seq(Nat) /\ Len(<<0>>) = 1
    OBVIOUS
  <2> QED BY <2>1
<1>2. PwmList({}, s, d, t, w, e)
  BY <1>1 DEF PwmList
<1> QED BY <1>1, <1>2

LEMMA StopPwmInv == ASSUME WvfInv, WvfStopPWM PROVE WvfInv'
<1>1. /\ WvfTypes /\ WvfRequests /\ WvfOneGenerator /\ WvfTimerOn
      /\ WvfLists /\ WvfPhase /\ WvfOthers
  BY DEF WvfInv
<1>2. WvfAt("stopPWM", "no")
  BY DEF WvfStopPWM
<1>3. /\ Busy /\ wvfJob \in Jobs /\ wvfJob.pin \in WvfPins /\ Head(wvfJob.todo) = "stopPWM"
      /\ wvfReg.toEnable = {} /\ wvfReg.toDisable = {} /\ ~Full
      /\ (wvfJob.todo = TStopStart \/ wvfJob.todo = TStopPwm)
  BY <1>2, AtIs, AtWhich
<1>4. /\ wvfReg' = wvfReg /\ wvfWave' = wvfWave /\ wvfFreq' = wvfFreq /\ wvfAsked' = wvfAsked
  BY DEF WvfStopPWM
<1>5. Unasked /\ CurList
  BY <1>1, <1>3 DEF Unasked, WvfLists
<1>6. CASE wvfJob.pin \notin pwmState.mask
  <2>1. WvfReturn /\ pwmState' = pwmState
    BY <1>6 DEF WvfStopPWM
  <2>2. Quiet
    BY <1>1, <1>4, <2>1 DEF Quiet, OnlyTimer, WvfTypes, WvfTimerOn
  <2>3. CASE wvfJob.todo = TStopStart
    <3>1. JobNow(TStart, "no")
      BY <1>3, <2>1, <2>3, ReturnIs
    <3>2. wvfAsked[wvfJob.pin] = <<"wave", wvfJob.arg>>
      BY <1>1, <2>3 DEF WvfPhase, AtStopStart
    <3>3. AtStart'
      BY <1>4, <1>6, <2>1, <3>1, <3>2 DEF AtStart, JobNow
    <3>4. WvfPhase'
      BY <3>1, <3>3, TodosDiffer DEF WvfPhase, JobNow
    <3>5. WvfWaits'
      BY <3>1, WaitsNo, TodosDiffer
    <3> QED BY <1>3, <1>4, <1>5, <2>2, <3>1, <3>4, <3>5, QuietOn
  <2>4. CASE wvfJob.todo = TStopPwm
    <3>1. wvfJob' = WvfIdle /\ ~Busy'
      BY <1>3, <2>1, <2>4, ReturnIs
    <3>2. Right(wvfJob.pin)
      BY <1>1, <1>6, <2>4 DEF WvfPhase, AtStopPwm, Right, WvfGenerated
    <3> QED BY <1>3, <1>4, <1>5, <2>2, <3>1, <3>2, QuietDone
  <2> QED BY <1>3, <2>3, <2>4
<1>7. CASE wvfJob.pin \in pwmState.mask
  <2>1. PICK m : m = pwmState.mask \ {wvfJob.pin}
    OBVIOUS
  <2>2. PICK n : n = [mask |-> m, pin |-> IF m = {} THEN <<>> ELSE pwmState.pin,
                      delta |-> IF m = {} THEN <<0>> ELSE pwmState.delta]
    OBVIOUS
  <2>3. WvfNotify(n) /\ WvfWait("pwm")
    BY <1>7, <2>1, <2>2 DEF WvfStopPWM
  <2>4. Notified(n) /\ JobNow(wvfJob.todo, "pwm")
    BY <1>1, <1>3, <2>3, NotifyIs, WaitIs DEF Waits
  <2>5. /\ n.mask = m /\ (m = {} => n.pin = <<>> /\ n.delta = <<0>>)
        /\ (m # {} => n.pin = pwmState.pin /\ n.delta = pwmState.delta)
    BY <2>2
  <2>6. PwmList(n.mask, n.pin, n.delta, wvfFreq.period, wvfWave, {})
    <3>1. CASE m = {}
      <4>1. PwmList({}, <<>>, <<0>>, wvfFreq.period, wvfWave, {})
        BY EmptyListIs
      <4> QED BY <2>5, <3>1, <4>1
    <3>2. CASE m # {}
      <4>1. /\ m \subseteq pwmState.mask
            /\ \A p \in m \ {} : p \in pwmState.mask \ {} /\ wvfWave[p].desired = wvfWave[p].desired
        BY <2>1
      <4>2. PwmList(m, pwmState.pin, pwmState.delta, wvfFreq.period, wvfWave, {})
        BY <1>5, <4>1, PwmListLess DEF CurList
      <4> QED BY <2>5, <3>2, <4>2
    <3> QED BY <3>1, <3>2
  <2>7. Len(n.pin) <= maxPWMs
    <3>1. Len(<<>>) <= maxPWMs
      BY WvfAssumption
    <3> QED BY <1>1, <2>5, <3>1 DEF WvfLists
  <2>8. NewFor(n)
    BY <1>4, <2>1, <2>5, <2>6, <2>7 DEF NewFor
  <2>9. OnlyTimer /\ WvfTimerOn'
    BY <1>1, <1>4, <2>4 DEF OnlyTimer, WvfTypes, WvfTimerOn, Notified
  <2>10. WvfPhase'
    <3>1. wvfJob'.pin \notin NextMask'
      BY <2>1, <2>4, <2>5 DEF NextMask, Notified, JobNow
    <3>2. wvfJob.todo = TStopStart => AtStopStart'
      BY <1>1, <1>4, <2>4, <3>1 DEF WvfPhase, AtStopStart, JobNow
    <3>3. wvfJob.todo = TStopPwm => AtStopPwm'
      BY <1>1, <1>4, <2>4, <3>1 DEF WvfPhase, AtStopPwm, JobNow
    <3> QED BY <1>3, <2>4, <3>2, <3>3, TodosDiffer DEF WvfPhase, JobNow
  <2>11. /\ wvfFreq' \in [freq : WvfFreqs, period : Nat] /\ wvfFreq'.period > 1
         /\ wvfWave' \in [WvfPins -> [desired : WvfPair, expires : BOOLEAN]]
         /\ \A p \in WvfPins : p # wvfJob.pin => wvfWave'[p].desired = wvfWave[p].desired
    BY <1>1, <1>4 DEF WvfTypes
  <2> QED BY <1>3, <1>4, <1>5, <2>4, <2>8, <2>9, <2>10, <2>11, NotifyInv
<1> QED BY <1>6, <1>7

\* The call turns into another one.
LEMMA TurnsInto ==
  ASSUME WvfInv, Unasked, Busy, NEW t, JobNow(t, "no"), t \notin {TAnalog, TSet},
         wvfReg' = wvfReg, pwmState' = pwmState, wvfFreq' = wvfFreq,
         wvfWave' \in [WvfPins -> [desired : WvfPair, expires : BOOLEAN]],
         \A p \in WvfPins : wvfWave'[p].desired = wvfWave[p].desired,
         wvfAsked' = [p \in WvfPins |-> wvfAsked'[p]],
         \A p \in WvfPins : p # wvfJob.pin => wvfAsked'[p] = wvfAsked[p], WvfPhase'
  PROVE  WvfInv'
<1>1. WvfTypes /\ WvfRequests /\ WvfOneGenerator /\ WvfTimerOn /\ WvfLists /\ WvfOthers
  BY DEF WvfInv
<1>2. Busy' /\ wvfJob' \in Jobs /\ wvfJob'.pin = wvfJob.pin
  BY DEF JobNow, Busy
<1>3. WvfTypes'
  BY <1>1, <1>2 DEF WvfTypes
<1>4. WvfWaits'
  BY WaitsNo
<1>5. WvfRequests' /\ ~Full'
  BY <1>1 DEF WvfRequests, Unasked, Full
<1>6. WvfOneGenerator' /\ WvfTimerOn'
  BY <1>1 DEF WvfOneGenerator, WvfTimerOn
<1>7. WvfLists'
  <2>1. SameDuties
    BY <1>1, MasksPins DEF SameDuties
  <2> QED BY <1>1, <2>1, ListsKept
<1>8. WvfOthers'
  <2>1. ASSUME NEW p \in WvfPins, p # wvfJob.pin PROVE Right(p)'
    <3>1. WvfGenerated(p)' = WvfGenerated(p)
      BY SameGenerated
    <3>2. Right(p)
      BY <1>1, <2>1 DEF WvfOthers, Other
    <3> QED BY <2>1, <3>1, <3>2, SameRight
  <2> QED BY <1>2, <1>5, <2>1 DEF WvfOthers, Other
<1> QED BY <1>3, <1>4, <1>5, <1>6, <1>7, <1>8 DEF WvfInv

LEMMA InitTimerIs ==
  ASSUME wvfReg \in Regs, wvfReg' = WvfInitTimer(wvfReg)
  PROVE  OnlyTimer /\ wvfReg'.running = TRUE
BY DEF OnlyTimer, WvfInitTimer, Regs

LEMMA SetPwmInv == ASSUME WvfInv, WvfSetPWM PROVE WvfInv'
<1>1. /\ WvfTypes /\ WvfWaits /\ WvfRequests /\ WvfOneGenerator /\ WvfTimerOn
      /\ WvfLists /\ WvfPhase /\ WvfOthers
  BY DEF WvfInv
<1>2. WvfAt("setPWM", "no")
  BY DEF WvfSetPWM
<1>3. /\ Busy /\ wvfJob \in Jobs /\ wvfJob.pin \in WvfPins /\ Head(wvfJob.todo) = "setPWM"
      /\ wvfReg.toEnable = {} /\ wvfReg.toDisable = {} /\ ~Full /\ wvfJob.todo = TSet
  BY <1>2, AtIs, AtWhich
<1>4. wvfFreq' = wvfFreq
  BY DEF WvfSetPWM
<1>5. Unasked /\ CurList
  BY <1>1, <1>3 DEF Unasked, WvfLists
<1>6. PICK pin \in WvfPins, arg \in Duty : pin = wvfJob.pin /\ arg = wvfJob.arg /\ arg \in WvfPair
  BY <1>1, <1>3 DEF WvfWaits, Jobs
<1>7. wvfAsked[pin] = <<"pwm", arg>> /\ pin \notin wvfReg.enabled
  BY <1>1, <1>3, <1>6 DEF WvfPhase, AtSet
<1>8. PICK r : r = WvfClean(pwmState, pin)
  OBVIOUS
<1>9. /\ PwmList(r.mask, r.pin, r.delta, wvfFreq.period, wvfWave, {})
      /\ r.mask = pwmState.mask \ {pin} /\ Len(r.pin) <= Len(pwmState.pin)
      /\ AllOn(r.mask, r.pin)
  BY <1>5, <1>8, CleanIs DEF CurList
<1>10. TStopStart \in Todos /\ TWrite \in Todos
  BY DEF Todos
<1>11. CASE Len(r.pin) >= maxPWMs
  <2>1. /\ WvfGo(TStopStart)
        /\ wvfWave' = [wvfWave EXCEPT ![pin].expires = FALSE]
        /\ wvfAsked' = [wvfAsked EXCEPT ![pin] = <<"wave", arg>>]
        /\ wvfReg' = wvfReg /\ pwmState' = pwmState
    BY <1>6, <1>8, <1>11 DEF WvfSetPWM, TStopStart
  <2>2. JobNow(TStopStart, "no")
    BY <1>3, <1>10, <2>1, GoIs
  <2>3. /\ wvfWave' \in [WvfPins -> [desired : WvfPair, expires : BOOLEAN]]
        /\ \A p \in WvfPins : wvfWave'[p].desired = wvfWave[p].desired
    BY <1>1, <2>1 DEF WvfTypes
  <2>4. /\ wvfAsked' = [p \in WvfPins |-> wvfAsked'[p]]
        /\ \A p \in WvfPins : p # pin => wvfAsked'[p] = wvfAsked[p]
        /\ wvfAsked'[pin] = <<"wave", arg>>
    BY <1>1, <2>1 DEF WvfTypes
  <2>5. WvfPhase'
    BY <1>6, <2>2, <2>4, TodosDiffer DEF WvfPhase, AtStopStart, JobNow
  <2> QED BY <1>3, <1>4, <1>5, <1>6, <2>1, <2>2, <2>3, <2>4, <2>5, TurnsInto, TodosDiffer
<1>12. ASSUME ~(Len(r.pin) >= maxPWMs),
              WvfCycles(wvfFreq.period, arg) = 0
                \/ WvfCycles(wvfFreq.period, arg) >= wvfFreq.period
       PROVE  WvfInv'
  <2>1. /\ WvfGo(TWrite)
        /\ wvfAsked' = [wvfAsked EXCEPT ![pin] = WvfOff]
        /\ wvfReg' = wvfReg /\ pwmState' = pwmState /\ wvfWave' = wvfWave
    BY <1>6, <1>8, <1>12, Zenon DEF WvfSetPWM, TWrite
  <2>2. JobNow(TWrite, "no")
    BY <1>3, <1>10, <2>1, GoIs
  <2>3. wvfWave' \in [WvfPins -> [desired : WvfPair, expires : BOOLEAN]]
    BY <1>1, <2>1 DEF WvfTypes
  <2>4. /\ wvfAsked' = [p \in WvfPins |-> wvfAsked'[p]]
        /\ \A p \in WvfPins : p # pin => wvfAsked'[p] = wvfAsked[p]
        /\ wvfAsked'[pin] = WvfOff
    BY <1>1, <2>1 DEF WvfTypes
  <2>5. WvfPhase'
    BY <1>6, <2>2, <2>4, TodosDiffer DEF WvfPhase, JobNow
  <2> QED BY <1>3, <1>4, <1>5, <1>6, <2>1, <2>2, <2>3, <2>4, <2>5, TurnsInto, TodosDiffer
<1>13. ASSUME ~(Len(r.pin) >= maxPWMs),
              ~(WvfCycles(wvfFreq.period, arg) = 0
                \/ WvfCycles(wvfFreq.period, arg) >= wvfFreq.period)
       PROVE  WvfInv'
  <2>1. PICK n : n = WvfAddPWM(r, pin, wvfFreq.period, arg)
    OBVIOUS
  <2>2. /\ WvfNotify(n) /\ wvfWave' = [wvfWave EXCEPT ![pin].desired = arg]
        /\ wvfReg' = WvfInitTimer(wvfReg) /\ WvfWait("pwm") /\ wvfAsked' = wvfAsked
    BY <1>6, <1>8, <1>13, <2>1, Zenon DEF WvfSetPWM
  <2>3. Notified(n) /\ JobNow(wvfJob.todo, "pwm")
    BY <1>1, <1>3, <2>2, NotifyIs, WaitIs DEF Waits
  <2>4. /\ wvfWave' \in [WvfPins -> [desired : WvfPair, expires : BOOLEAN]]
        /\ \A p \in WvfPins : p # pin => wvfWave'[p].desired = wvfWave[p].desired
        /\ wvfWave'[pin].desired = arg
    BY <1>1, <1>6, <2>2 DEF WvfTypes
  <2>5. PwmList(r.mask, r.pin, r.delta, wvfFreq.period, wvfWave', {})
    <3>1. \A p \in r.mask : p \in WvfPins /\ p # pin
      BY <1>9, MaskPins
    <3>2. r.mask \subseteq r.mask
          /\ \A p \in r.mask \ {} : p \in r.mask \ {} /\ wvfWave'[p].desired = wvfWave[p].desired
      BY <2>4, <3>1
    <3> QED BY <1>9, <3>2, PwmListLess
  <2>6. PICK t \in Nat : t = wvfFreq.period /\ t > 1
    BY <1>1 DEF WvfTypes
  <2>7. Added(n, r, pin, t, wvfWave')
    <3>1. OnIfThere(r.mask, r.pin, pin)
      BY <1>9 DEF OnIfThere, AllOn
    <3> QED BY <2>1, <2>4, <2>5, <2>6, <3>1, AddIs
  <2>8. /\ PwmList(n.mask, n.pin, n.delta, t, wvfWave', {}) /\ n.mask = Plus(r.mask, pin)
        /\ Len(n.pin) = Len(r.pin) + 1
        /\ \A i \in 1..Len(n.pin) : n.pin[i] = pin \/ \E k \in 1..Len(r.pin) : n.pin[i] = r.pin[k]
    BY <2>7 DEF Added
  <2>9. AllOn(n.mask, n.pin)
    BY <1>9, <2>8 DEF AllOn, Plus
  <2>10. Len(n.pin) <= maxPWMs
    <3>1. Len(r.pin) \in Nat
      BY <1>9 DEF PwmList
    <3> QED BY <1>13, <2>8, <3>1, WvfAssumption
  <2>11. NewFor(n)
    BY <1>4, <1>6, <1>7, <1>9, <2>6, <2>8, <2>10 DEF NewFor, Plus
  <2>12. OnlyTimer /\ WvfTimerOn'
    BY <1>1, <2>2, InitTimerIs DEF WvfTypes, WvfTimerOn
  <2>13. AtSet'
    <3>1. wvfJob'.pin \in NextMask' /\ NextOn'
      BY <1>6, <2>3, <2>8, <2>9 DEF NextMask, NextOn, Notified, JobNow, Plus
    <3> QED BY <1>6, <1>7, <2>2, <2>3, <2>4, <2>12, <3>1 DEF AtSet, JobNow, OnlyTimer
  <2>14. WvfPhase'
    BY <1>3, <2>3, <2>13, TodosDiffer DEF WvfPhase, JobNow
  <2>15. /\ wvfFreq' \in [freq : WvfFreqs, period : Nat] /\ wvfFreq'.period > 1
    BY <1>1, <1>4 DEF WvfTypes
  <2> QED BY <1>3, <1>5, <1>6, <2>2, <2>3, <2>4, <2>11, <2>12, <2>14, <2>15, NotifyInv
<1> QED BY <1>11, <1>12, <1>13

\* What _setPWMFreq() takes off leaves a period.
LEMMA PeriodIs ==
  ASSUME NEW f \in WvfFreqs, NEW n \in Nat, n <= maxPWMs
  PROVE  f - n * WvfAdjust \in Nat /\ f - n * WvfAdjust > 1
<1>1. PICK m \in Nat, a \in Nat : m = maxPWMs /\ a = WvfAdjust
  BY WvfAssumption
<1>2. n * a \in Nat /\ m * a \in Nat /\ n * a <= m * a
  BY <1>1
<1>3. f \in Nat /\ f > m * a + 1
  BY <1>1, WvfAssumption
<1> QED BY <1>1, <1>2, <1>3

LEMMA SetFreqInv == ASSUME WvfInv, WvfSetFreq PROVE WvfInv'
<1>1. /\ WvfTypes /\ WvfWaits /\ WvfRequests /\ WvfOneGenerator /\ WvfTimerOn
      /\ WvfLists /\ WvfPhase /\ WvfOthers
  BY DEF WvfInv
<1>2. WvfAt("setFreq", "no")
  BY DEF WvfSetFreq
<1>3. /\ Busy /\ wvfJob \in Jobs /\ wvfJob.pin \in WvfPins /\ Head(wvfJob.todo) = "setFreq"
      /\ wvfReg.toEnable = {} /\ wvfReg.toDisable = {} /\ ~Full /\ wvfJob.todo = TFreq
  BY <1>2, AtIs, AtWhich
<1>4. wvfWave' = wvfWave /\ wvfAsked' = wvfAsked
  BY DEF WvfSetFreq
<1>5. Unasked /\ CurList
  BY <1>1, <1>3 DEF Unasked, WvfLists
<1>6. /\ pwmState.pin \in Seq(WvfPins)
      /\ \A p \in pwmState.mask : wvfWave[p].desired \in Duty /\ \E i \in 1..Len(pwmState.pin) : pwmState.pin[i] = p
  BY <1>5 DEF CurList, PwmList
<1>7. Right(wvfJob.pin) /\ AllOn(pwmState.mask, pwmState.pin)
  BY <1>1, <1>3 DEF WvfPhase, AtFreq, NextOn
<1>8. PICK t \in Nat : t = wvfFreq.freq - Len(pwmState.pin) * WvfAdjust /\ t > 1
  <2>1. PICK f \in WvfFreqs, n \in Nat : f = wvfFreq.freq /\ n = Len(pwmState.pin) /\ n <= maxPWMs
    BY <1>1, <1>6 DEF WvfTypes, WvfLists
  <2> QED BY <2>1, PeriodIs
<1>9. wvfFreq' \in [freq : WvfFreqs, period : Nat] /\ wvfFreq'.period = t /\ wvfFreq'.period > 1
  BY <1>1, <1>8 DEF WvfSetFreq, WvfTypes
<1>10. CASE t = wvfFreq.period \/ pwmState.pin = <<>>
  <2>1. WvfReturn /\ wvfReg' = wvfReg /\ pwmState' = pwmState
    BY <1>8, <1>10 DEF WvfSetFreq
  <2>2. wvfJob' = WvfIdle /\ ~Busy'
    BY <1>3, <2>1, ReturnIs
  <2>3. Quiet
    BY <1>1, <1>4, <2>1 DEF Quiet, OnlyTimer, WvfTypes, WvfTimerOn
  <2>4. WvfWaits' /\ WvfPhase'
    BY <2>2, IdlePhase DEF WvfWaits
  <2>5. WvfLists'
    <3>1. CASE t = wvfFreq.period
      <4>1. SameDuties
        BY <1>4 DEF SameDuties
      <4> QED BY <1>1, <1>9, <2>1, <3>1, <4>1, ListsKept
    <3>2. CASE pwmState.pin = <<>>
      <4>1. CurList'
        <5>1. PwmList(pwmState.mask, pwmState.pin, pwmState.delta, wvfFreq.period, wvfWave, {})
          BY <1>5 DEF CurList
        <5>2. ~(Len(pwmState.pin) > 0)
          BY <3>2
        <5>3. PwmList(pwmState.mask, pwmState.pin, pwmState.delta, t, wvfWave, {})
          BY <5>1, <5>2 DEF PwmList
        <5> QED BY <1>4, <1>9, <2>1, <5>3 DEF CurList
      <4> QED BY <1>1, <1>3, <2>1, <4>1 DEF WvfLists, Full
    <3> QED BY <1>10, <3>1, <3>2
  <2>6. \A p \in WvfPins : Other(p)' => Other(p) \/ Right(p)
    BY <1>7 DEF Other
  <2> QED BY <1>5, <1>9, <2>2, <2>3, <2>4, <2>5, <2>6, QuietInv
<1>11. CASE ~(t = wvfFreq.period \/ pwmState.pin = <<>>)
  <2>1. PICK n : n = WvfRebuilt(t)
    OBVIOUS
  <2>2. WvfNotify(n) /\ wvfReg' = WvfInitTimer(wvfReg) /\ WvfWait("pwm")
    BY <1>8, <1>11, <2>1 DEF WvfSetFreq
  <2>3. Notified(n) /\ JobNow(wvfJob.todo, "pwm")
    BY <1>1, <1>3, <2>2, NotifyIs, WaitIs DEF Waits
  <2>4. RebuiltTo(n, pwmState.pin, wvfWave, t, Len(pwmState.pin))
    <3>1. \A i \in 1..Len(pwmState.pin) : wvfWave[pwmState.pin[i]].desired \in Duty
      BY <1>6, <1>7 DEF AllOn
    <3> QED BY <1>6, <1>8, <2>1, <3>1, RebuiltIs
  <2>5. /\ PwmList(n.mask, n.pin, n.delta, t, wvfWave, {}) /\ Len(n.pin) = Len(pwmState.pin)
        /\ AllOn(n.mask, n.pin)
        /\ \A x : x \in n.mask <=> \E j \in 1..Len(pwmState.pin) : pwmState.pin[j] = x
    BY <2>4 DEF RebuiltTo
  <2>6. \A x : x \in n.mask <=> x \in pwmState.mask
    BY <1>6, <1>7, <2>5, ZenonT(60) DEF AllOn
  <2>7. n.mask = pwmState.mask
    BY <2>6
  <2>8. NewFor(n)
    <3>1. wvfJob.pin \in pwmState.mask => wvfJob.pin \notin wvfReg.enabled
      BY <1>1 DEF WvfOneGenerator
    <3>2. Len(n.pin) <= maxPWMs
      BY <1>1, <2>5 DEF WvfLists
    <3> QED BY <1>4, <1>9, <2>5, <2>7, <3>1, <3>2 DEF NewFor
  <2>9. OnlyTimer /\ WvfTimerOn'
    BY <1>1, <2>2, InitTimerIs DEF WvfTypes, WvfTimerOn
  <2>10. AtFreq'
    <3>1. Right(wvfJob.pin)'
      BY <1>4, <1>7, <2>3, <2>9 DEF Right, WvfGenerated, Notified, OnlyTimer, JobNow
    <3> QED BY <2>3, <2>5, <2>7, <3>1 DEF AtFreq, NextOn, Notified
  <2>11. WvfPhase'
    BY <1>3, <2>3, <2>10, TodosDiffer DEF WvfPhase, JobNow
  <2>12. /\ wvfWave' \in [WvfPins -> [desired : WvfPair, expires : BOOLEAN]]
         /\ \A p \in WvfPins : p # wvfJob.pin => wvfWave'[p].desired = wvfWave[p].desired
    BY <1>1, <1>4 DEF WvfTypes
  <2> QED BY <1>3, <1>4, <1>5, <1>9, <2>3, <2>8, <2>9, <2>11, <2>12, NotifyInv
<1> QED BY <1>10, <1>11

-----------------------------------------------------------------------------
(* WAVEFORM: the interrupt                                                 *)

\* The record of pins is forgotten, but for the duty of those in the list.
LEMMA ForgetIs ==
  ASSUME WvfTypes, NEW pins
  PROVE  /\ WvfForget(pins) \in [WvfPins -> [desired : WvfPair, expires : BOOLEAN]]
         /\ \A p \in WvfPins : p \notin pins => WvfForget(pins)[p] = wvfWave[p]
         /\ \A p \in WvfPins : p \in ToSet(pwmState.pin) =>
              WvfForget(pins)[p].desired = wvfWave[p].desired
<1>1. wvfWave \in [WvfPins -> [desired : WvfPair, expires : BOOLEAN]] /\ WvfNoWave \in WvfPair
  BY DEF WvfTypes, WvfNoWave, WvfPair
<1>2. ASSUME NEW p \in WvfPins
      PROVE  (IF p \notin pins THEN wvfWave[p]
              ELSE [desired |-> IF p \in ToSet(pwmState.pin) THEN wvfWave[p].desired ELSE WvfNoWave,
                    expires |-> FALSE]) \in [desired : WvfPair, expires : BOOLEAN]
  <2>1. wvfWave[p] \in [desired : WvfPair, expires : BOOLEAN] /\ wvfWave[p].desired \in WvfPair
    BY <1>1
  <2>2. PICK x \in WvfPair : x = IF p \in ToSet(pwmState.pin) THEN wvfWave[p].desired ELSE WvfNoWave
    BY <1>1, <2>1
  <2> QED BY <2>1, <2>2
<1>3. WvfForget(pins) \in [WvfPins -> [desired : WvfPair, expires : BOOLEAN]]
  BY <1>2, Zenon DEF WvfForget
<1>4. ASSUME NEW p \in WvfPins
      PROVE  WvfForget(pins)[p] =
               (IF p \notin pins THEN wvfWave[p]
                ELSE [desired |-> IF p \in ToSet(pwmState.pin) THEN wvfWave[p].desired ELSE WvfNoWave,
                      expires |-> FALSE])
  BY DEF WvfForget
<1>5. ASSUME NEW p \in WvfPins, p \in ToSet(pwmState.pin)
      PROVE  WvfForget(pins)[p].desired = wvfWave[p].desired
  <2>1. CASE p \notin pins
    BY <1>4, <2>1
  <2>2. CASE p \in pins
    <3>1. WvfForget(pins)[p] = [desired |-> wvfWave[p].desired, expires |-> FALSE]
      BY <1>4, <1>5, <2>2
    <3> QED BY <3>1
  <2> QED BY <2>1, <2>2
<1> QED BY <1>3, <1>4, <1>5

LEMMA MaskListed ==
  ASSUME WvfLists, NEW p \in pwmState.mask
  PROVE  p \in ToSet(pwmState.pin)
<1>1. PICK t, e : PwmList(pwmState.mask, pwmState.pin, pwmState.delta, t, wvfWave, e)
  <2>1. CASE Full
    BY <2>1 DEF WvfLists, OldList
  <2>2. CASE ~Full
    BY <2>2 DEF WvfLists, CurList
  <2> QED BY <2>1, <2>2
<1>2. pwmState.pin \in Seq(WvfPins) /\ \E i \in 1..Len(pwmState.pin) : pwmState.pin[i] = p
  BY <1>1 DEF PwmList
<1> QED BY <1>2 DEF ToSet

LEMMA IsrRequestsInv == ASSUME WvfInv, WvfIsrRequests PROVE WvfInv'
<1>1. /\ WvfTypes /\ WvfWaits /\ WvfRequests /\ WvfOneGenerator /\ WvfTimerOn
      /\ WvfLists /\ WvfPhase /\ WvfOthers
  BY DEF WvfInv
<1>2. /\ pwmState' = pwmState /\ wvfFreq' = wvfFreq /\ wvfAsked' = wvfAsked /\ wvfJob' = wvfJob
      /\ wvfWave' = WvfForget(wvfReg.toDisable) /\ wvfReg.running
      /\ (wvfReg.toEnable # {} \/ wvfReg.toDisable # {})
  BY DEF WvfIsrRequests
<1>3. /\ wvfReg' \in Regs
      /\ wvfReg'.enabled = (wvfReg.enabled \ wvfReg.toDisable) \cup wvfReg.toEnable
      /\ wvfReg'.toEnable = {} /\ wvfReg'.toDisable = {} /\ wvfReg'.toChange = wvfReg.toChange
      /\ wvfReg'.new = wvfReg.new /\ wvfReg'.running = wvfReg.running /\ wvfReg'.cb = wvfReg.cb
  <2>1. wvfReg \in Regs
    BY <1>1 DEF WvfTypes
  <2> QED BY <2>1 DEF WvfIsrRequests, Regs
<1>4. /\ wvfWave' \in [WvfPins -> [desired : WvfPair, expires : BOOLEAN]]
      /\ \A p \in WvfPins : p \notin wvfReg.toDisable => wvfWave'[p] = wvfWave[p]
      /\ \A p \in WvfPins : p \in ToSet(pwmState.pin) => wvfWave'[p].desired = wvfWave[p].desired
  BY <1>1, <1>2, ForgetIs
<1>5. Busy /\ ~Full /\ pwmState.update.mask = {} /\ Busy' /\ ~Full'
  BY <1>1, <1>2 DEF WvfRequests, WvfNoUpdate, Busy, Full
<1>6. wvfJob \in Jobs /\ wvfJob.todo \in Todos
  BY <1>1, <1>5, BusyJob
<1>7. PICK pin \in WvfPins : pin = wvfJob.pin
  BY <1>6 DEF Jobs
<1>8. WvfTypes'
  BY <1>1, <1>2, <1>3, <1>4 DEF WvfTypes
<1>9. WvfWaits'
  BY <1>1, <1>2 DEF WvfWaits, Busy
<1>10. WvfRequests'
  BY <1>1, <1>2, <1>3, <1>5 DEF WvfRequests
<1>11. WvfTimerOn'
  BY <1>1, <1>2, <1>3 DEF WvfTimerOn
<1>12. WvfOneGenerator'
  BY <1>1, <1>2, <1>3, <1>5 DEF WvfOneGenerator
<1>13. WvfLists'
  <2>1. SameDuties
    BY <1>1, <1>4, <1>5, MasksPins, MaskListed DEF SameDuties
  <2> QED BY <1>1, <1>2, <2>1, ListsKept
<1>14. WvfOthers'
  <2>1. ASSUME NEW p \in WvfPins, p # pin PROVE Right(p)'
    <3>1. p \notin wvfReg.toEnable /\ p \notin wvfReg.toDisable
      BY <1>1, <1>7, <2>1 DEF WvfRequests
    <3>2. WvfGenerated(p)' = WvfGenerated(p)
      BY <1>2, <1>3, <1>4, <3>1, SameGenerated
    <3>3. Right(p)
      BY <1>1, <1>7, <2>1 DEF WvfOthers, Other
    <3> QED BY <1>2, <3>2, <3>3, SameRight
  <2> QED BY <1>2, <1>5, <1>7, <2>1 DEF WvfOthers, Other
<1>15. WvfPhase'
  <2>1. CASE wvfReg.toEnable # {}
    <3>1. /\ wvfJob.wait = "enable" /\ wvfReg.toEnable = {pin} /\ wvfReg.toDisable = {}
      BY <1>1, <1>5, <1>7, <2>1 DEF WvfRequests
    <3>2. wvfJob.todo = TStart
      BY <1>1, <1>5, <1>6, <3>1, TodosHead DEF WvfWaits, Todos
    <3>3. /\ pin \notin pwmState.mask /\ pin \notin wvfReg.toChange
          /\ wvfAsked[pin] = <<"wave", wvfJob.arg>> /\ wvfWave[pin].desired = wvfJob.arg
      BY <1>1, <1>7, <2>1, <3>1, <3>2 DEF WvfPhase, AtStart
    <3>4. Right(pin)'
      BY <1>2, <1>3, <1>4, <3>1, <3>3 DEF Right, WvfGenerated
    <3>5. AtStart'
      BY <1>2, <1>3, <1>7, <3>1, <3>3, <3>4 DEF AtStart
    <3> QED BY <1>2, <3>1, <3>2, <3>5, TodosDiffer DEF WvfPhase
  <2>2. CASE wvfReg.toDisable # {}
    <3>1. /\ wvfJob.wait = "disable" /\ wvfReg.toDisable = {pin} /\ wvfReg.toEnable = {}
          /\ pin \in wvfReg.enabled
      BY <1>1, <1>5, <1>7, <2>2 DEF WvfRequests, WvfOneGenerator
    <3>2. wvfJob.todo = TStopWave \/ wvfJob.todo = TWrite \/ wvfJob.todo = TAnalog
      BY <1>1, <1>5, <1>6, <3>1, TodosHead DEF WvfWaits, Todos
    <3>3. pin \notin wvfReg'.enabled /\ pin \notin pwmState.mask
      BY <1>1, <1>3, <3>1 DEF WvfOneGenerator
    <3>4. wvfJob.todo = TStopWave => AtStopWave'
      <4>1. wvfJob.todo = TStopWave => wvfAsked[pin] = WvfOff
        BY <1>1, <1>7, <3>1 DEF WvfPhase, AtStopWave
      <4>2. WvfGenerated(pin)' = WvfOff
        BY <1>2, <3>3 DEF WvfGenerated
      <4> QED BY <1>2, <1>7, <3>3, <4>1, <4>2 DEF AtStopWave, Right
    <3> QED BY <1>1, <1>2, <1>7, <3>2, <3>3, <3>4, TodosDiffer DEF WvfPhase
  <2> QED BY <1>2, <2>1, <2>2
<1> QED BY <1>8, <1>9, <1>10, <1>11, <1>12, <1>13, <1>14, <1>15 DEF WvfInv

LEMMA IsrPwmInv == ASSUME WvfInv, WvfIsrPwm PROVE WvfInv'
<1>1. /\ WvfTypes /\ WvfWaits /\ WvfRequests /\ WvfOneGenerator /\ WvfTimerOn
      /\ WvfLists /\ WvfPhase /\ WvfOthers
  BY DEF WvfInv
<1>2. /\ wvfReg' = wvfReg /\ wvfFreq' = wvfFreq /\ wvfAsked' = wvfAsked /\ wvfJob' = wvfJob
      /\ wvfReg.running /\ wvfReg.toEnable = {} /\ wvfReg.toDisable = {}
  BY DEF WvfIsrPwm, WvfIsr
<1>3. pwmState' = [mask |-> pwmState.update.mask, pin |-> pwmState.update.pin,
                   delta |-> pwmState.update.delta, update |-> WvfNoUpdate]
  BY DEF WvfIsrPwm
<1>4. /\ pwmState'.mask = pwmState.update.mask /\ pwmState'.pin = pwmState.update.pin
      /\ pwmState'.delta = pwmState.update.delta /\ pwmState'.update = WvfNoUpdate
      /\ DOMAIN pwmState' = {"mask", "pin", "delta", "update"}
  BY <1>3
<1>5. ~Full' /\ pwmState'.update.mask = {} /\ pwmState'.update.pin = <<>>
  BY <1>4 DEF Full, WvfNoUpdate
<1>6. NewList /\ Busy /\ wvfJob.wait = "pwm" /\ Full
  <2>1. CASE Full
    BY <1>1, <2>1 DEF WvfLists, WvfRequests
  <2>2. CASE ~Full
    <3>1. pwmState.update.full = FALSE
      BY <1>1, <2>2 DEF WvfRequests, WvfNoUpdate
    <3> QED BY <3>1 DEF WvfIsrPwm
  <2> QED BY <2>1, <2>2
<1>7. wvfJob \in Jobs /\ wvfJob.todo \in Todos
  BY <1>1, <1>6, BusyJob
<1>8. PICK pin \in WvfPins : pin = wvfJob.pin
  BY <1>7 DEF Jobs
<1>9. /\ pwmState.update.pin \in Seq(WvfPins)
      /\ \A p \in pwmState.update.mask : p \in WvfPins /\ p \in ToSet(pwmState.update.pin)
  <2>1. /\ pwmState.update.pin \in Seq(WvfPins)
        /\ \A p \in pwmState.update.mask :
             \E i \in 1..Len(pwmState.update.pin) : pwmState.update.pin[i] = p
    BY <1>6 DEF NewList, PwmList
  <2> QED BY <2>1 DEF ToSet
<1>10. /\ wvfWave' \in [WvfPins -> [desired : WvfPair, expires : BOOLEAN]]
       /\ \A p \in WvfPins : p \in pwmState.update.mask \/ p \in wvfReg.enabled =>
            wvfWave'[p].desired = wvfWave[p].desired
  <2>1. wvfWave \in [WvfPins -> [desired : WvfPair, expires : BOOLEAN]] /\ WvfNoWave \in WvfPair
    BY <1>1 DEF WvfTypes, WvfNoWave, WvfPair
  <2>2. wvfWave' = [p \in WvfPins |->
            IF p \in ToSet(pwmState.pin) \ (ToSet(pwmState.update.pin) \cup wvfReg.enabled)
            THEN [wvfWave[p] EXCEPT !.desired = WvfNoWave] ELSE wvfWave[p]]
    BY DEF WvfIsrPwm
  <2>3. ASSUME NEW p \in WvfPins
        PROVE  /\ wvfWave'[p] \in [desired : WvfPair, expires : BOOLEAN]
               /\ p \in pwmState.update.mask \/ p \in wvfReg.enabled => wvfWave'[p] = wvfWave[p]
    <3>1. wvfWave[p] \in [desired : WvfPair, expires : BOOLEAN]
      BY <2>1
    <3>2. [wvfWave[p] EXCEPT !.desired = WvfNoWave] \in [desired : WvfPair, expires : BOOLEAN]
      BY <2>1, <3>1
    <3> QED BY <1>9, <2>2, <3>1, <3>2
  <2> QED BY <2>2, <2>3
<1>11. WvfTypes'
  BY <1>1, <1>2, <1>4, <1>10 DEF WvfTypes
<1>12. WvfWaits'
  BY <1>1, <1>2 DEF WvfWaits, Busy
<1>13. WvfRequests'
  BY <1>2, <1>4, <1>5 DEF WvfRequests
<1>14. WvfOneGenerator'
  BY <1>1, <1>2, <1>4, <1>5 DEF WvfOneGenerator
<1>15. WvfTimerOn'
  BY <1>2 DEF WvfTimerOn
<1>16. WvfLists'
  <2>1. \A p \in pwmState.update.mask \ {} :
          p \in pwmState.update.mask \ {} /\ wvfWave'[p].desired = wvfWave[p].desired
    BY <1>9, <1>10
  <2>2. PwmList(pwmState.update.mask, pwmState.update.pin, pwmState.update.delta,
                wvfFreq.period, wvfWave', {})
    BY <1>6, <2>1, PwmListLess DEF NewList
  <2>3. CurList'
    BY <1>2, <1>4, <2>2 DEF CurList
  <2>4. Len(<<>>) <= maxPWMs
    BY WvfAssumption
  <2> QED BY <1>1, <1>4, <1>5, <2>3, <2>4 DEF WvfLists
<1>17. ASSUME NEW p \in WvfPins, p \in pwmState.update.mask <=> p \in pwmState.mask
       PROVE  Right(p)' <=> Right(p)
  <2>1. WvfGenerated(p)' = WvfGenerated(p)
    BY <1>2, <1>4, <1>10, <1>17, SameGenerated
  <2> QED BY <1>2, <2>1, SameRight
<1>18. WvfOthers'
  <2>1. ASSUME NEW p \in WvfPins, p # pin PROVE Right(p)'
    BY <1>1, <1>6, <1>8, <1>17, <2>1 DEF WvfOthers, Other
  <2> QED BY <1>2, <1>5, <1>6, <1>8, <2>1 DEF WvfOthers, Other, Busy
<1>19. WvfPhase'
  <2>1. NextMask' = NextMask /\ (NextOn => NextOn')
    BY <1>4, <1>5, <1>6 DEF NextMask, NextOn
  <2>2. wvfJob.todo = TStopStart => AtStopStart'
    BY <1>1, <1>2, <2>1 DEF WvfPhase, AtStopStart
  <2>3. wvfJob.todo = TStopPwm => AtStopPwm'
    BY <1>1, <1>2, <2>1 DEF WvfPhase, AtStopPwm
  <2>4. wvfJob.todo = TSet => AtSet'
    <3> SUFFICES ASSUME wvfJob.todo = TSet PROVE AtSet'
      OBVIOUS
    <3>1. AtSet
      BY <1>1 DEF WvfPhase
    <3>2. pin \in pwmState.update.mask /\ wvfWave[pin].desired = wvfJob.arg /\ NextOn
      BY <1>6, <1>8, <3>1 DEF AtSet, NextMask
    <3>3. wvfWave'[pin].desired = wvfWave[pin].desired
      BY <1>10, <3>2
    <3> QED BY <1>2, <1>8, <2>1, <3>1, <3>2, <3>3 DEF AtSet
  <2>5. wvfJob.todo = TFreq => AtFreq'
    <3> SUFFICES ASSUME wvfJob.todo = TFreq PROVE AtFreq'
      OBVIOUS
    <3>1. Right(pin) /\ NextOn /\ pwmState.update.mask = pwmState.mask
      BY <1>1, <1>6, <1>8 DEF WvfPhase, AtFreq
    <3>2. Right(pin)'
      BY <1>17, <3>1
    <3> QED BY <1>2, <1>5, <1>8, <2>1, <3>1, <3>2 DEF AtFreq
  <2>6. wvfJob.todo \in {TStopStart, TStopPwm, TSet, TFreq}
    BY <1>1, <1>6, <1>7, TodosHead DEF WvfWaits, Todos
  <2> QED BY <1>2, <1>6, <2>2, <2>3, <2>4, <2>5, <2>6, TodosDiffer DEF WvfPhase
<1> QED BY <1>11, <1>12, <1>13, <1>14, <1>15, <1>16, <1>18, <1>19 DEF WvfInv

LEMMA IsrExpireInv ==
  ASSUME WvfInv, WvfPlain, NEW pin \in WvfPins, WvfIsrExpire(pin)
  PROVE  WvfInv'
<1>1. /\ WvfTypes /\ WvfWaits /\ WvfRequests /\ WvfOneGenerator /\ WvfTimerOn
      /\ WvfLists /\ WvfPhase /\ WvfOthers
  BY DEF WvfInv
<1>2. /\ pwmState' = pwmState /\ wvfFreq' = wvfFreq /\ wvfJob' = wvfJob
      /\ wvfReg.toEnable = {} /\ wvfReg.toDisable = {} /\ pin \in wvfReg.enabled
  BY DEF WvfIsrExpire, WvfIsr
<1>3. pin \notin wvfReg.toChange /\ ~(WvfAt("start", "change") /\ wvfJob.pin = pin)
  BY DEF WvfIsrExpire, WvfPlain
<1>4. /\ wvfReg' \in Regs /\ wvfReg'.enabled = wvfReg.enabled \ {pin}
      /\ wvfReg'.toEnable = {} /\ wvfReg'.toDisable = {} /\ wvfReg'.toChange = wvfReg.toChange
      /\ wvfReg'.new = wvfReg.new /\ wvfReg'.running = wvfReg.running /\ wvfReg'.cb = wvfReg.cb
  <2>1. wvfReg \in Regs /\ wvfReg' = [wvfReg EXCEPT !.enabled = @ \ {pin}, !.state = @ \ {pin}]
    BY <1>1 DEF WvfTypes, WvfIsrExpire
  <2> QED BY <1>2, <2>1 DEF Regs
<1>5. pin \notin pwmState.mask /\ pin \notin pwmState.update.mask
  BY <1>1, <1>2 DEF WvfOneGenerator
<1>6. /\ wvfWave' \in [WvfPins -> [desired : WvfPair, expires : BOOLEAN]]
      /\ \A p \in WvfPins : p # pin => wvfWave'[p] = wvfWave[p]
  <2>1. wvfWave' = IF WvfRestarting(pin) THEN wvfWave ELSE WvfForget({pin})
    BY DEF WvfIsrExpire
  <2>2. wvfWave \in [WvfPins -> [desired : WvfPair, expires : BOOLEAN]]
    BY <1>1 DEF WvfTypes
  <2>3. /\ WvfForget({pin}) \in [WvfPins -> [desired : WvfPair, expires : BOOLEAN]]
        /\ \A p \in WvfPins : p \notin {pin} => WvfForget({pin})[p] = wvfWave[p]
    BY <1>1, ForgetIs
  <2> QED BY <2>1, <2>2, <2>3
<1>7. /\ wvfAsked' = [p \in WvfPins |-> wvfAsked'[p]]
      /\ \A p \in WvfPins : p # pin => wvfAsked'[p] = wvfAsked[p]
      /\ wvfAsked'[pin] = IF wvfAsked[pin][1] = "pwm" \/ WvfRestarting(pin)
                          THEN wvfAsked[pin] ELSE WvfOff
  <2>1. wvfAsked' = [wvfAsked EXCEPT ![pin] =
                       IF @[1] = "pwm" \/ WvfRestarting(pin) THEN @ ELSE WvfOff]
    BY DEF WvfIsrExpire
  <2> QED BY <1>1, <2>1 DEF WvfTypes
<1>8. WvfTypes'
  BY <1>1, <1>2, <1>4, <1>6, <1>7 DEF WvfTypes
<1>9. WvfWaits'
  BY <1>1, <1>2 DEF WvfWaits, Busy
<1>10. WvfRequests' /\ Full' = Full
  BY <1>1, <1>2, <1>4 DEF WvfRequests, Full, Busy
<1>11. WvfOneGenerator'
  BY <1>1, <1>2, <1>3, <1>4 DEF WvfOneGenerator
<1>12. WvfTimerOn'
  BY <1>1, <1>2, <1>4 DEF WvfTimerOn
<1>13. WvfLists'
  <2>1. SameDuties
    BY <1>1, <1>5, <1>6, MasksPins DEF SameDuties
  <2> QED BY <1>1, <1>2, <2>1, ListsKept
<1>14. WvfGenerated(pin)' = WvfOff /\ WvfGenerated(pin)[1] = "wave" /\ WvfOff[1] = "off"
  BY <1>2, <1>4, <1>5 DEF WvfGenerated, WvfOff
<1>15. ASSUME Right(pin), ~WvfRestarting(pin) PROVE Right(pin)'
  BY <1>7, <1>14, <1>15 DEF Right
<1>16. ASSUME NEW p \in WvfPins, p # pin PROVE Right(p)' <=> Right(p)
  <2>1. WvfGenerated(p)' = WvfGenerated(p)
    BY <1>2, <1>4, <1>6, <1>16, SameGenerated
  <2> QED BY <1>7, <1>16, <2>1, SameRight
<1>17. WvfOthers'
  <2>1. ASSUME NEW p \in WvfPins, Other(p)' PROVE Right(p)'
    <3>1. Other(p) /\ Right(p)
      BY <1>1, <1>2, <2>1 DEF WvfOthers, Other, Busy
    <3>2. CASE p = pin
      <4>1. ~WvfRestarting(pin)
        BY <3>1, <3>2 DEF Other, Busy, WvfRestarting
      <4> QED BY <1>15, <3>1, <3>2, <4>1
    <3>3. CASE p # pin
      BY <1>16, <3>1, <3>3
    <3> QED BY <3>2, <3>3
  <2> QED BY <1>1, <1>2, <1>10, <2>1 DEF WvfOthers, Other, Busy
<1>18. WvfPhase'
  <2>1. CASE ~Busy
    <3>1. ~Busy'
      BY <1>2, <2>1 DEF Busy
    <3> QED BY <3>1, IdlePhase
  <2>2. CASE Busy /\ wvfJob.pin # pin
    <3>1. wvfJob.pin \in WvfPins
      BY <1>1, <2>2, BusyJob DEF Jobs
    <3>2. /\ Right(wvfJob.pin)' <=> Right(wvfJob.pin)
          /\ wvfAsked'[wvfJob.pin] = wvfAsked[wvfJob.pin]
          /\ wvfWave'[wvfJob.pin] = wvfWave[wvfJob.pin]
          /\ wvfJob.pin \in wvfReg'.enabled <=> wvfJob.pin \in wvfReg.enabled
      <4>1. PICK q \in WvfPins : q = wvfJob.pin
        BY <3>1
      <4>2. Right(q)' <=> Right(q)
        BY <1>16, <2>2, <4>1
      <4>3. Right(wvfJob.pin)' <=> Right(q)'
        BY <1>2, <4>1 DEF Right, WvfGenerated
      <4> QED BY <1>4, <1>6, <1>7, <2>2, <3>1, <4>1, <4>2, <4>3
    <3>3. NextMask' = NextMask /\ NextOn' = NextOn
      BY <1>2 DEF NextMask, NextOn, Full
    <3>4. wvfJob.todo = TStopStart => AtStopStart'
      BY <1>1, <1>2, <3>2, <3>3 DEF WvfPhase, AtStopStart
    <3>5. wvfJob.todo = TStart => AtStart'
      BY <1>1, <1>2, <1>4, <3>2 DEF WvfPhase, AtStart
    <3>6. wvfJob.todo = TStopWave => AtStopWave'
      BY <1>1, <1>2, <3>2 DEF WvfPhase, AtStopWave
    <3>7. wvfJob.todo = TStopPwm => AtStopPwm'
      BY <1>1, <1>2, <3>2, <3>3 DEF WvfPhase, AtStopPwm
    <3>8. wvfJob.todo = TSet => AtSet'
      BY <1>1, <1>2, <3>2, <3>3 DEF WvfPhase, AtSet
    <3>9. wvfJob.todo = TFreq => AtFreq'
      BY <1>1, <1>2, <1>10, <3>2, <3>3 DEF WvfPhase, AtFreq
    <3> QED BY <1>1, <1>2, <1>4, <3>2, <3>4, <3>5, <3>6, <3>7, <3>8, <3>9 DEF WvfPhase, Busy
  <2>3. CASE Busy /\ wvfJob.pin = pin
    <3>1. wvfJob \in Jobs /\ wvfJob.todo \in Todos
      BY <1>1, <2>3, BusyJob
    <3>2. wvfJob.todo # TStopPwm /\ wvfJob.todo # TSet
      BY <1>1, <1>2, <2>3 DEF WvfPhase, AtStopPwm, AtSet
    <3>3. ASSUME wvfJob.todo = TStopStart PROVE WvfPhase'
      <4>1. wvfJob.wait # "enable"
        BY <1>1, <2>3, <3>3, TodosHead DEF WvfWaits
      <4>2. WvfRestarting(pin)
        <5>1. 2 \in DOMAIN TStopStart /\ TStopStart[2] = "start"
          BY DEF TStopStart
        <5> QED BY <2>3, <3>3, <4>1, <5>1 DEF WvfRestarting, Busy
      <4>3. AtStopStart'
        BY <1>1, <1>2, <1>7, <2>3, <3>3, <4>2 DEF WvfPhase, AtStopStart, NextMask, Full
      <4> QED BY <1>1, <1>2, <1>4, <2>3, <3>3, <4>3, TodosDiffer DEF WvfPhase
    <3>4. ASSUME wvfJob.todo = TStart PROVE WvfPhase'
      <4>1. AtStart /\ wvfJob.wait # "change"
        BY <1>1, <1>3, <2>3, <3>4, TodosHead DEF WvfPhase, WvfAt, Busy
      <4>2. CASE wvfJob.wait = "enable"
        <5>1. Right(pin) /\ ~WvfRestarting(pin)
          BY <1>2, <2>3, <4>1, <4>2 DEF AtStart, WvfRestarting
        <5>2. Right(pin)'
          BY <1>15, <5>1
        <5>3. AtStart'
          BY <1>2, <1>3, <1>4, <1>5, <2>3, <4>2, <5>2 DEF AtStart
        <5> QED BY <1>2, <3>4, <4>2, <5>3, TodosDiffer DEF WvfPhase
      <4>3. CASE wvfJob.wait # "enable"
        <5>1. WvfRestarting(pin)
          <6>1. 1 \in DOMAIN TStart /\ TStart[1] = "start"
            BY DEF TStart
          <6> QED BY <2>3, <3>4, <4>3, <6>1 DEF WvfRestarting, Busy
        <5>2. AtStart'
          BY <1>2, <1>5, <1>7, <2>3, <4>1, <4>3, <5>1 DEF AtStart
        <5> QED BY <1>1, <1>2, <1>4, <2>3, <3>4, <5>2, TodosDiffer DEF WvfPhase
      <4> QED BY <4>2, <4>3
    <3>5. ASSUME wvfJob.todo = TStopWave PROVE WvfPhase'
      <4>1. wvfAsked[pin] = WvfOff
        BY <1>1, <1>2, <2>3, <3>5 DEF WvfPhase, AtStopWave
      <4>2. wvfAsked'[pin] = WvfOff
        BY <1>7, <4>1
      <4>3. Right(pin)'
        BY <1>14, <4>2 DEF Right
      <4>4. AtStopWave'
        BY <1>2, <2>3, <4>2, <4>3 DEF AtStopWave
      <4> QED BY <1>1, <1>2, <1>4, <2>3, <3>5, <4>4, TodosDiffer DEF WvfPhase
    <3>6. ASSUME wvfJob.todo = TWrite PROVE WvfPhase'
      <4>1. wvfAsked'[pin] = WvfOff
        BY <1>1, <1>7, <2>3, <3>6 DEF WvfPhase
      <4> QED BY <1>1, <1>2, <1>4, <2>3, <3>6, <4>1, TodosDiffer DEF WvfPhase
    <3>7. ASSUME wvfJob.todo = TAnalog PROVE WvfPhase'
      <4>1. wvfAsked[pin] = <<"pwm", wvfJob.arg>>
        BY <1>1, <2>3, <3>7 DEF WvfPhase
      <4>2. wvfAsked'[pin] = <<"pwm", wvfJob.arg>>
        BY <1>7, <4>1
      <4> QED BY <1>1, <1>2, <1>4, <2>3, <3>7, <4>2, TodosDiffer DEF WvfPhase
    <3>8. ASSUME wvfJob.todo = TFreq PROVE WvfPhase'
      <4>1. AtFreq
        BY <1>1, <3>8 DEF WvfPhase
      <4>2. ~WvfRestarting(pin)
        <5>1. \A i \in DOMAIN TFreq : TFreq[i] # "start"
          BY DEF TFreq
        <5> QED BY <3>8, <5>1 DEF WvfRestarting
      <4>3. Right(pin)'
        BY <1>15, <2>3, <4>1, <4>2 DEF AtFreq
      <4>4. AtFreq'
        BY <1>2, <2>3, <4>1, <4>3 DEF AtFreq, NextOn, Full
      <4> QED BY <1>1, <1>2, <1>4, <2>3, <3>8, <4>4, TodosDiffer DEF WvfPhase
    <3> QED BY <3>1, <3>2, <3>3, <3>4, <3>5, <3>6, <3>7, <3>8 DEF Todos
  <2> QED BY <2>1, <2>2, <2>3
<1> QED BY <1>8, <1>9, <1>10, <1>11, <1>12, <1>13, <1>17, <1>18 DEF WvfInv

LEMMA IsrEdgeInv == ASSUME WvfInv, NEW pin \in WvfPins, WvfIsrEdge(pin) PROVE WvfInv'
<1>1. /\ WvfTypes /\ WvfWaits /\ WvfRequests /\ WvfOneGenerator /\ WvfTimerOn
      /\ WvfLists /\ WvfPhase /\ WvfOthers
  BY DEF WvfInv
<1>2. /\ pwmState' = pwmState /\ wvfFreq' = wvfFreq /\ wvfJob' = wvfJob /\ wvfAsked' = wvfAsked
      /\ wvfReg.toEnable = {} /\ wvfReg.toDisable = {} /\ pin \in wvfReg.enabled
  BY DEF WvfIsrEdge, WvfIsr
<1>3. PICK ch \in BOOLEAN : ch = (pin \notin wvfReg.state /\ pin \in wvfReg.toChange)
  OBVIOUS
<1>4. /\ wvfReg' \in Regs /\ wvfReg'.enabled = wvfReg.enabled
      /\ wvfReg'.toEnable = {} /\ wvfReg'.toDisable = {}
      /\ wvfReg'.toChange = (IF ch THEN {} ELSE wvfReg.toChange)
      /\ wvfReg'.new = (IF ch THEN WvfNoWave ELSE wvfReg.new)
      /\ wvfReg'.running = wvfReg.running /\ wvfReg'.cb = wvfReg.cb
  <2>1. wvfReg \in Regs /\ WvfNoWave \in WvfPair
    BY <1>1 DEF WvfTypes, WvfNoWave, WvfPair
  <2>2. PICK st \in SUBSET WvfPins :
          st = IF pin \notin wvfReg.state THEN wvfReg.state \cup {pin} ELSE wvfReg.state \ {pin}
    BY <2>1 DEF Regs
  <2>3. wvfReg' = [wvfReg EXCEPT !.state = st, !.toChange = IF ch THEN {} ELSE @,
                                  !.new = IF ch THEN WvfNoWave ELSE @]
    BY <1>3, <2>2 DEF WvfIsrEdge
  <2> QED BY <1>2, <2>1, <2>3 DEF Regs
<1>5. pin \notin pwmState.mask /\ pin \notin pwmState.update.mask
  BY <1>1, <1>2 DEF WvfOneGenerator
<1>6. /\ wvfWave' \in [WvfPins -> [desired : WvfPair, expires : BOOLEAN]]
      /\ \A p \in WvfPins : p # pin => wvfWave'[p] = wvfWave[p]
      /\ wvfWave'[pin].desired = (IF ch THEN wvfReg.new ELSE wvfWave[pin].desired)
  <2>1. wvfWave' = IF ch THEN [wvfWave EXCEPT ![pin].desired = wvfReg.new] ELSE wvfWave
    BY <1>3 DEF WvfIsrEdge
  <2>2. /\ wvfWave \in [WvfPins -> [desired : WvfPair, expires : BOOLEAN]]
        /\ wvfReg.new \in WvfPair
    BY <1>1 DEF WvfTypes, Regs
  <2> QED BY <2>1, <2>2
<1>7. WvfTypes'
  BY <1>1, <1>2, <1>4, <1>6 DEF WvfTypes
<1>8. WvfWaits'
  BY <1>1, <1>2 DEF WvfWaits, Busy
<1>9. WvfRequests' /\ Full' = Full
  BY <1>1, <1>2, <1>4 DEF WvfRequests, Full, Busy
<1>10. WvfOneGenerator'
  BY <1>1, <1>2, <1>4 DEF WvfOneGenerator
<1>11. WvfTimerOn'
  BY <1>1, <1>2, <1>4 DEF WvfTimerOn
<1>12. WvfLists'
  <2>1. SameDuties
    BY <1>1, <1>5, <1>6, MasksPins DEF SameDuties
  <2> QED BY <1>1, <1>2, <2>1, ListsKept
<1>13. ASSUME NEW p \in WvfPins PROVE WvfGenerated(p)' = WvfGenerated(p)
  <2>1. CASE ~ch
    BY <1>2, <1>4, <1>6, <2>1, SameGenerated
  <2>2. CASE ch /\ p = pin
    BY <1>2, <1>3, <1>4, <1>5, <1>6, <2>2 DEF WvfGenerated
  <2>3. CASE ch /\ p # pin
    <3>1. p \notin wvfReg.toChange
      BY <1>1, <1>3, <2>3 DEF WvfOneGenerator
    <3> QED BY <1>2, <1>4, <1>6, <2>3, <3>1, SameGenerated
  <2> QED BY <2>1, <2>2, <2>3
<1>14. ASSUME NEW p \in WvfPins PROVE Right(p)' <=> Right(p)
  BY <1>2, <1>13, SameRight
<1>15. WvfOthers'
  <2>1. ASSUME NEW p \in WvfPins, Other(p)' PROVE Right(p)'
    <3>1. Other(p) /\ Right(p)
      BY <1>1, <1>2, <2>1 DEF WvfOthers, Other, Busy
    <3> QED BY <1>14, <3>1
  <2> QED BY <1>1, <1>2, <1>9, <2>1 DEF WvfOthers, Other, Busy
<1>16. WvfPhase'
  <2>1. CASE ~Busy
    <3>1. ~Busy'
      BY <1>2, <2>1 DEF Busy
    <3> QED BY <3>1, IdlePhase
  <2>2. CASE Busy
    <3>1. PICK q \in WvfPins : q = wvfJob.pin
      BY <1>1, <2>2, BusyJob DEF Jobs
    <3>2. Right(wvfJob.pin)' <=> Right(wvfJob.pin)
      <4>1. Right(q)' <=> Right(q)
        BY <1>14
      <4>2. Right(wvfJob.pin)' <=> Right(q)'
        BY <1>2, <3>1 DEF Right, WvfGenerated
      <4> QED BY <3>1, <4>1, <4>2
    <3>3. NextMask' = NextMask /\ NextOn' = NextOn
      BY <1>2 DEF NextMask, NextOn, Full
    <3>4. wvfJob.todo = TStopStart => AtStopStart'
      BY <1>1, <1>2, <3>3 DEF WvfPhase, AtStopStart
    <3>5. wvfJob.todo = TStart => AtStart'
      BY <1>1, <1>2, <1>4, <3>2 DEF WvfPhase, AtStart
    <3>6. wvfJob.todo = TStopWave => AtStopWave'
      BY <1>1, <1>2, <1>4, <3>2 DEF WvfPhase, AtStopWave
    <3>7. wvfJob.todo = TStopPwm => AtStopPwm'
      BY <1>1, <1>2, <1>4, <3>3 DEF WvfPhase, AtStopPwm
    <3>8. wvfJob.todo = TSet => AtSet'
      <4>1. wvfJob.todo = TSet => q # pin
        BY <1>1, <1>2, <3>1 DEF WvfPhase, AtSet
      <4>2. wvfJob.todo = TSet => wvfWave'[wvfJob.pin].desired = wvfWave[wvfJob.pin].desired
        BY <1>6, <3>1, <4>1
      <4> QED BY <1>1, <1>2, <1>4, <3>3, <4>2 DEF WvfPhase, AtSet
    <3>9. wvfJob.todo = TFreq => AtFreq'
      BY <1>1, <1>2, <1>9, <3>2, <3>3 DEF WvfPhase, AtFreq
    <3> QED BY <1>1, <1>2, <1>4, <3>4, <3>5, <3>6, <3>7, <3>8, <3>9 DEF WvfPhase, Busy
  <2> QED BY <2>1, <2>2
<1> QED BY <1>7, <1>8, <1>9, <1>10, <1>11, <1>12, <1>15, <1>16 DEF WvfInv

-----------------------------------------------------------------------------
(* WAVEFORM: the theorems                                                  *)

LEMMA WvfInvInit == WvfInit => WvfInv
<1> SUFFICES ASSUME WvfInit PROVE WvfInv
  OBVIOUS
<1>1. PICK f \in WvfFreqs : wvfFreq = [freq |-> f, period |-> f]
  BY DEF WvfInit
<1>2. f \in Nat /\ f > 1
  <2>1. PICK k \in Nat : k = maxPWMs * WvfAdjust
    BY WvfAssumption
  <2> QED BY <2>1, WvfAssumption
<1>3. wvfFreq \in [freq : WvfFreqs, period : Nat] /\ wvfFreq.period > 1
  BY <1>1, <1>2
<1>4. /\ wvfReg \in Regs /\ wvfReg.enabled = {} /\ wvfReg.toEnable = {} /\ wvfReg.toDisable = {}
      /\ wvfReg.toChange = {} /\ wvfReg.cb = FALSE
  BY DEF WvfInit, Regs, WvfNoWave, WvfPair
<1>5. wvfWave \in [WvfPins -> [desired : WvfPair, expires : BOOLEAN]]
  <2>1. WvfNoWave \in WvfPair
    BY DEF WvfNoWave, WvfPair
  <2>2. [desired |-> WvfNoWave, expires |-> FALSE] \in [desired : WvfPair, expires : BOOLEAN]
    BY <2>1
  <2> QED BY <2>2, Zenon DEF WvfInit
<1>6. /\ DOMAIN pwmState = {"mask", "pin", "delta", "update"} /\ pwmState.mask = {}
      /\ pwmState.pin = <<>> /\ pwmState.delta = <<0>> /\ pwmState.update = WvfNoUpdate
  BY DEF WvfInit
<1>7. pwmState.update.mask = {} /\ pwmState.update.pin = <<>> /\ ~Full
  BY <1>6 DEF WvfNoUpdate, Full
<1>8. wvfJob = WvfIdle /\ ~Busy
  BY IdleTodo DEF WvfInit, Busy
<1>9. wvfAsked = [p \in WvfPins |-> wvfAsked[p]] /\ \A p \in WvfPins : wvfAsked[p] = WvfOff
  BY DEF WvfInit
<1>10. WvfTypes
  BY <1>3, <1>4, <1>5, <1>6, <1>8, <1>9 DEF WvfTypes
<1>11. WvfWaits /\ WvfRequests
  BY <1>4, <1>6, <1>7, <1>8 DEF WvfWaits, WvfRequests
<1>12. WvfOneGenerator /\ WvfTimerOn
  BY <1>4, <1>6, <1>7 DEF WvfOneGenerator, WvfTimerOn
<1>13. WvfLists
  <2>1. PwmList({}, <<>>, <<0>>, wvfFreq.period, wvfWave, {})
    BY EmptyListIs
  <2>2. CurList
    BY <1>6, <2>1 DEF CurList
  <2>3. Len(<<>>) <= maxPWMs
    BY WvfAssumption
  <2> QED BY <1>6, <1>7, <2>2, <2>3 DEF WvfLists
<1>14. WvfPhase
  <2>1. wvfJob.todo = <<>>
    BY <1>8 DEF Busy
  <2> QED BY <1>8, <2>1, TodosFull DEF WvfPhase, Todos
<1>15. WvfOthers
  BY <1>4, <1>6, <1>7, <1>9 DEF WvfOthers, Right, WvfGenerated
<1> QED BY <1>10, <1>11, <1>12, <1>13, <1>14, <1>15 DEF WvfInv

LEMMA WvfInvSame == ASSUME WvfInv, UNCHANGED wvfVars PROVE WvfInv'
<1>1. /\ wvfReg' = wvfReg /\ wvfWave' = wvfWave /\ pwmState' = pwmState /\ wvfFreq' = wvfFreq
      /\ wvfJob' = wvfJob /\ wvfAsked' = wvfAsked
  BY DEF wvfVars
<1>2. WvfTypes' /\ WvfWaits' /\ WvfRequests'
  BY <1>1 DEF WvfInv, WvfTypes, WvfWaits, WvfRequests, Busy, Full
<1>3. WvfOneGenerator' /\ WvfTimerOn'
  BY <1>1 DEF WvfInv, WvfOneGenerator, WvfTimerOn
<1>4. WvfLists'
  BY <1>1 DEF WvfInv, WvfLists, OldList, NewList, CurList, Full
<1>5. WvfPhase'
  BY <1>1 DEF WvfInv, WvfPhase, AtStopStart, AtStart, AtStopWave, AtStopPwm, AtSet, AtFreq, NextMask,
              NextOn, Right, WvfGenerated, Busy, Full
<1>6. WvfOthers'
  BY <1>1 DEF WvfInv, WvfOthers, Other, Right, WvfGenerated, Busy, Full
<1> QED BY <1>2, <1>3, <1>4, <1>5, <1>6 DEF WvfInv

LEMMA WvfInvNext == WvfPlain /\ WvfInv /\ [WvfNext]_wvfVars => WvfInv'
<1> SUFFICES ASSUME WvfPlain, WvfInv, [WvfNext]_wvfVars PROVE WvfInv'
  OBVIOUS
<1>1. ASSUME NEW pin \in WvfPins, NEW wave \in WvfWaves[pin], NEW expires \in BOOLEAN,
             WvfStartWaveform(pin, wave, expires)
      PROVE  WvfInv'
  BY <1>1, StartWaveformInv
<1>2. ASSUME NEW pin \in WvfPins,
             WvfStop(pin) \/ WvfDigitalWrite(pin) \/ WvfIsrExpire(pin) \/ WvfIsrEdge(pin)
      PROVE  WvfInv'
  BY <1>2, StopInv, DigitalWriteInv, IsrExpireInv, IsrEdgeInv
<1>3. ASSUME NEW pin \in WvfPins, NEW duty \in WvfDuties[pin], WvfAnalogWrite(pin, duty)
      PROVE  WvfInv'
  BY <1>3, AnalogWriteInv
<1>4. ASSUME NEW freq \in WvfFreqs, WvfAnalogWriteFreq(freq) PROVE WvfInv'
  BY <1>4, AnalogWriteFreqInv
<1>5. ASSUME NEW on \in BOOLEAN, WvfSetTimer1Callback(on) PROVE WvfInv'
  BY <1>5, SetTimer1CallbackInv
<1>6. ASSUME NEW f \in {"stopPWM", "setPWM", "setFreq"}, WvfNotified(f) PROVE WvfInv'
  BY <1>6, NotifiedInv
<1>7. ASSUME WvfCont PROVE WvfInv'
  BY <1>6, <1>7, StopPwmInv, StopWaveformInv, StoppedInv, SetPwmInv, SetFreqInv, StartInv, ChangeInv,
     EnabledInv DEF WvfCont
<1>8. ASSUME WvfIsrRequests \/ WvfIsrPwm PROVE WvfInv'
  BY <1>8, IsrRequestsInv, IsrPwmInv
<1>9. ASSUME UNCHANGED wvfVars PROVE WvfInv'
  BY <1>9, WvfInvSame
<1> QED BY <1>1, <1>2, <1>3, <1>4, <1>5, <1>7, <1>8, <1>9, Zenon DEF WvfNext

LEMMA WvfInvariant == WvfPlain => (WvfSpec => []WvfInv)
<1> SUFFICES ASSUME WvfPlain PROVE WvfSpec => []WvfInv
  OBVIOUS
<1>1. WvfInit => WvfInv
  BY WvfInvInit
<1>2. WvfInv /\ [WvfNext]_wvfVars => WvfInv'
  BY WvfInvNext
<1> QED BY <1>1, <1>2, PTL DEF WvfSpec

LEMMA InvAsRequested == WvfInv => WvfAsRequested
<1> SUFFICES ASSUME WvfInv PROVE WvfAsRequested
  OBVIOUS
<1>1. WvfOneGenerator /\ WvfTimerOn /\ WvfOthers
  BY DEF WvfInv
<1>2. ASSUME wvfJob.todo = <<>>, NEW pin \in WvfPins PROVE WvfGenerated(pin) = wvfAsked[pin]
  BY <1>1, <1>2 DEF WvfOthers, Other, Busy, Right
<1>3. pwmState.mask \cap wvfReg.enabled = {}
  BY <1>1 DEF WvfOneGenerator
<1> QED BY <1>1, <1>2, <1>3 DEF WvfAsRequested, WvfTimerOn

LEMMA InvPwmList == WvfInv => WvfPwmList
<1> SUFFICES ASSUME WvfInv PROVE WvfPwmList
  OBVIOUS
<1>1. WvfLists /\ WvfRequests
  BY DEF WvfInv
<1>2. PICK t, e : PwmList(pwmState.mask, pwmState.pin, pwmState.delta, t, wvfWave, e)
                  /\ (~Full => t = wvfFreq.period /\ e = {})
  <2>1. CASE Full
    BY <1>1, <2>1 DEF WvfLists, OldList
  <2>2. CASE ~Full
    BY <1>1, <2>2 DEF WvfLists, CurList
  <2> QED BY <2>1, <2>2
<1>3. PICK n \in Nat : n = Len(pwmState.pin) /\ n <= maxPWMs
  BY <1>1, <1>2 DEF PwmList, WvfLists
<1>4. pwmState.mask \subseteq ToSet(pwmState.pin)
  BY <1>1, MaskListed
<1>5. n > 0 => Len(pwmState.delta) = n + 1 /\ pwmState.delta[n + 1] > 0
  BY <1>2, <1>3 DEF PwmList
<1>6. ASSUME n > 0, wvfJob.todo = <<>>
      PROVE  /\ SumTo(pwmState.delta, n + 1) = wvfFreq.period
             /\ \A i \in 1..n : pwmState.pin[i] \in pwmState.mask =>
                  /\ SumTo(pwmState.delta, i) \in 1..(wvfFreq.period - 1)
                  /\ WvfDropsAt(SumTo(pwmState.delta, i), wvfFreq.period,
                                wvfWave[pwmState.pin[i]].desired)
  <2>1. ~Full
    BY <1>1, <1>6 DEF WvfRequests, Busy
  <2>2. t = wvfFreq.period /\ e = {}
    BY <1>2, <2>1
  <2>3. PwmList(pwmState.mask, pwmState.pin, pwmState.delta, wvfFreq.period, wvfWave, {})
    BY <1>2, <2>2
  <2>4. ASSUME NEW i \in 1..n, pwmState.pin[i] \in pwmState.mask
        PROVE  /\ SumTo(pwmState.delta, i) \in 1..(wvfFreq.period - 1)
               /\ WvfDropsAt(SumTo(pwmState.delta, i), wvfFreq.period,
                             wvfWave[pwmState.pin[i]].desired)
    <3>1. PICK d \in Duty : d = wvfWave[pwmState.pin[i]].desired
      BY <2>3, <2>4 DEF PwmList
    <3>2. PICK p \in Nat : p = wvfFreq.period /\ p > 1
      BY DEF WvfInv, WvfTypes
    <3>3. SumTo(pwmState.delta, i) = WvfEdgeAt(p, d)
      BY <1>3, <2>3, <2>4, <3>1, <3>2 DEF PwmList
    <3>4. WvfEdgeAt(p, d) \in 1..(p - 1) /\ WvfDropsAt(WvfEdgeAt(p, d), p, d)
      BY <3>2, EdgeAtIs, EdgeDrops
    <3> QED BY <3>1, <3>2, <3>3, <3>4
  <2> QED BY <1>3, <1>6, <2>3, <2>4 DEF PwmList
<1> QED BY <1>3, <1>4, <1>5, <1>6 DEF WvfPwmList

(* As long as no waveform ends while its change is asked for and no        *)
(* frequency is set while the list has stopped pins, after each call every *)
(* pin does what was last asked for it, no pin is driven by both           *)
(* generators, and the timer runs while anything needs it, whatever the    *)
(* pins, the duties and the interleaving with the NMI.                     *)
THEOREM WaveformsAsRequested ==
    ~WvfShortRuns /\ ~WvfFreqAfterStop => (WvfSpec => []WvfAsRequested)
<1> SUFFICES ASSUME ~WvfShortRuns, ~WvfFreqAfterStop PROVE WvfSpec => []WvfAsRequested
  OBVIOUS
<1>1. WvfPlain
  BY WvfAssumption DEF WvfPlain
<1>2. WvfSpec => []WvfInv
  BY <1>1, WvfInvariant
<1>3. WvfInv => WvfAsRequested
  BY InvAsRequested
<1> QED BY <1>2, <1>3, PTL

(* Under the same conditions the list the NMI walks is sound at every      *)
(* moment, for every number of pins, period and duty: the delays that      *)
(* _addPWMtoList() splits and _cleanAndRemovePWM() merges always add up to *)
(* the period, and each pin drops inside the period, at the edge of its    *)
(* duty if the product of period and val fits in 32 bits.                  *)
THEOREM PwmListSound ==
    ~WvfShortRuns /\ ~WvfFreqAfterStop => (WvfSpec => []WvfPwmList)
<1> SUFFICES ASSUME ~WvfShortRuns, ~WvfFreqAfterStop PROVE WvfSpec => []WvfPwmList
  OBVIOUS
<1>1. WvfPlain
  BY WvfAssumption DEF WvfPlain
<1>2. WvfSpec => []WvfInv
  BY <1>1, WvfInvariant
<1>3. WvfInv => WvfPwmList
  BY InvPwmList
<1> QED BY <1>2, <1>3, PTL

=============================================================================
