-------------------------- MODULE BuddyCreateProofs -------------------------
(***************************************************************************)
(* The safety properties of module BuddyCreate, for every width of the     *)
(* words and every set of configurations.  The arithmetic of powers of two *)
(* and of bits comes first.                                                *)
(***************************************************************************)
EXTENDS BuddyCreate, NaturalsInduction, WellFoundedInduction,
        FunctionTheorems, FiniteSetTheorems, TLAPS

(* The order that induction on naturals rests on.                          *)
LessThan == {ss \in Nat \X Nat : ss[1] < ss[2]}

(* A non-empty set of naturals has a least element.                        *)
LEMMA LeastElement ==
  ASSUME NEW T \in SUBSET Nat, T # {}
  PROVE  \E x \in T : \A y \in T : x <= y
<1>1. IsWellFoundedOn(LessThan, Nat)
  BY NatLessThanWellFounded, Zenon DEF OpToRel, LessThan
<1>2. PICK x \in T : \A y \in T : ~ (<<y, x>> \in LessThan)
  BY <1>1, WFMin
<1>3. ASSUME NEW y \in T PROVE x <= y
  <2>1. <<y, x>> \notin LessThan BY <1>2
  <2>2. x \in Nat /\ y \in Nat OBVIOUS
  <2>. QED BY <2>1, <2>2 DEF LessThan
<1>. QED BY <1>3

(* The form in which it proves that all naturals have a property, T being  *)
(* the set of those that have it.                                          *)
LEMMA AllNaturals ==
  ASSUME NEW T \in SUBSET Nat, 0 \in T, \A n \in T : n + 1 \in T
  PROVE  T = Nat
<1>1. SUFFICES ASSUME Nat \ T # {} PROVE FALSE
  OBVIOUS
<1>2. Nat \ T \in SUBSET Nat
  OBVIOUS
<1>3. PICK n \in Nat \ T : \A m \in Nat \ T : n <= m
  BY <1>1, <1>2, LeastElement
<1>4. n # 0 /\ n \in Nat
  BY <1>3
<1>5. n - 1 \in Nat /\ ~(n <= n - 1) /\ (n - 1) + 1 = n
  BY <1>4
<1>6. n - 1 \in T
  BY <1>3, <1>5
<1>. QED BY <1>3, <1>5, <1>6

-----------------------------------------------------------------------------
(* Powers of two.                                                          *)

(* A function on the naturals that starts at 1 and doubles exists, put     *)
(* together from its beginnings.                                           *)
LEMMA DoublingExists ==
  \E f : f = [k \in Nat |-> IF k = 0 THEN 1 ELSE 2 * f[k - 1]]
         /\ \A k \in Nat : f[k] \in Nat
<1>. DEFINE Start(g, n) == /\ g \in [0 .. n -> Nat] /\ g[0] = 1
                           /\ \A i \in 0 .. n : i # 0 => g[i] = 2 * g[i - 1]
            T == {n \in Nat : \E g : Start(g, n)}
<1>1. T = Nat
  <2>1. 0 \in T
    <3>. DEFINE g == [i \in 0 .. 0 |-> 1]
    <3>1. Start(g, 0)
      OBVIOUS
    <3>. QED BY <3>1
  <2>2. ASSUME NEW n \in T PROVE n + 1 \in T
    <3>1. PICK g : Start(g, n)
      OBVIOUS
    <3>. DEFINE h == [i \in 0 .. n + 1 |-> IF i = n + 1 THEN 2 * g[n] ELSE g[i]]
    <3>2. /\ n \in Nat /\ n \in 0 .. n /\ 0 # n + 1 /\ 0 \in 0 .. n + 1
          /\ (n + 1) - 1 = n /\ n # n + 1 /\ n \in 0 .. n + 1
          /\ \A i \in 0 .. n + 1 : i # n + 1 => i \in 0 .. n
      OBVIOUS
    <3>3. h \in [0 .. n + 1 -> Nat] /\ h[0] = 1
      BY <3>1, <3>2
    <3>4. ASSUME NEW i \in 0 .. n + 1, i # 0 PROVE h[i] = 2 * h[i - 1]
      <4>1. CASE i = n + 1
        BY <3>2, <4>1
      <4>2. CASE i # n + 1
        <5>1. i \in 0 .. n /\ i - 1 \in 0 .. n /\ i - 1 # n + 1 /\ i - 1 \in 0 .. n + 1
          BY <3>2, <3>4, <4>2
        <5>. QED BY <3>1, <3>4, <4>2, <5>1
      <4>. QED BY <4>1, <4>2
    <3>5. Start(h, n + 1)
      BY <3>3, <3>4
    <3>6. n + 1 \in Nat
      BY <3>2
    <3>. HIDE DEF Start
    <3>. QED BY <3>5, <3>6
  <2>3. T \in SUBSET Nat
    OBVIOUS
  <2>. HIDE DEF T
  <2>. QED BY <2>1, <2>2, <2>3, AllNaturals
<1>2. ASSUME NEW g, NEW h, NEW n \in Nat, NEW m \in Nat,
             Start(g, n), Start(h, m), NEW i \in Nat, i <= n, i <= m
      PROVE  g[i] = h[i]
  <2>. DEFINE D == {j \in Nat : j <= n /\ j <= m => g[j] = h[j]}
  <2>1. 0 \in D
    BY <1>2
  <2>2. ASSUME NEW j \in D PROVE j + 1 \in D
    <3>1. CASE j + 1 <= n /\ j + 1 <= m
      <4>1. /\ j + 1 \in 0 .. n /\ j + 1 \in 0 .. m /\ j + 1 # 0
            /\ (j + 1) - 1 = j /\ j <= n /\ j <= m
        BY <3>1
      <4>2. g[j + 1] = 2 * g[j] /\ h[j + 1] = 2 * h[j]
        BY <1>2, <4>1
      <4>. QED BY <4>1, <4>2
    <3>. QED BY <3>1
  <2>3. D \in SUBSET Nat
    OBVIOUS
  <2>4. D = Nat
    <3>. HIDE DEF D
    <3>. QED BY <2>1, <2>2, <2>3, AllNaturals
  <2>. QED BY <1>2, <2>4
<1>. DEFINE beg(n) == CHOOSE g : Start(g, n)
            f == [n \in Nat |-> beg(n)[n]]
<1>3. \A n \in Nat : Start(beg(n), n)
  <2>. HIDE DEF Start
  <2>. QED BY <1>1
<1>. HIDE DEF beg
<1>4. ASSUME NEW n \in Nat
      PROVE  f[n] = (IF n = 0 THEN 1 ELSE 2 * f[n - 1]) /\ f[n] \in Nat
  <2>1. f[n] \in Nat
    <3>1. Start(beg(n), n) /\ n \in 0 .. n
      BY <1>3
    <3>. QED BY <3>1
  <2>2. CASE n = 0
    BY <1>3, <2>2, <2>1
  <2>3. CASE n # 0
    <3>1. n - 1 \in Nat /\ n - 1 <= n /\ n - 1 <= n - 1 /\ n \in 0 .. n
      BY <2>3
    <3>2. beg(n)[n] = 2 * beg(n)[n - 1]
      BY <1>3, <2>3, <3>1
    <3>3. beg(n)[n - 1] = beg(n - 1)[n - 1]
      <4>. HIDE DEF Start
      <4>. QED BY <1>2, <1>3, <3>1
    <3>. QED BY <2>1, <2>3, <3>1, <3>2, <3>3
  <2>. QED BY <2>2, <2>3
<1>5. f = [k \in Nat |-> IF k = 0 THEN 1 ELSE 2 * f[k - 1]]
  <2>. DEFINE h == [k \in Nat |-> IF k = 0 THEN 1 ELSE 2 * f[k - 1]]
  <2>1. f = [k \in Nat |-> f[k]]
    OBVIOUS
  <2>. HIDE DEF f
  <2>. QED BY <1>4, <2>1
<1>. HIDE DEF f
<1>. QED BY <1>4, <1>5

(* The recursive definition of Power says what it seems to say.            *)
LEMMA PowerDef ==
  /\ Power[0] = 1
  /\ \A k \in Nat : Power[k] \in Nat /\ Power[k] > 0 /\ Power[k + 1] = 2 * Power[k]
<1>. DEFINE Doubles(f) == f = [k \in Nat |-> IF k = 0 THEN 1 ELSE 2 * f[k - 1]]
<1>1. PICK f : Doubles(f) /\ \A k \in Nat : f[k] \in Nat
  BY DoublingExists
<1>2. Power = CHOOSE g : Doubles(g)
  BY DEF Power
<1>3. Doubles(Power)
  <2>. HIDE DEF Doubles
  <2>. QED BY <1>1, <1>2
<1>4. Power[0] = 1 /\ \A k \in Nat : Power[k + 1] = 2 * Power[k]
  <2>1. \A k \in Nat : Power[k] = IF k = 0 THEN 1 ELSE 2 * Power[k - 1]
    BY <1>3
  <2>2. ASSUME NEW k \in Nat PROVE Power[k + 1] = 2 * Power[k]
    <3>1. k + 1 \in Nat /\ k + 1 # 0 /\ (k + 1) - 1 = k
      OBVIOUS
    <3>. QED BY <2>1, <3>1
  <2>. QED BY <2>1, <2>2
<1>. DEFINE T == {k \in Nat : Power[k] \in Nat /\ Power[k] > 0}
<1>5. 0 \in T
  BY <1>4
<1>6. \A k \in T : k + 1 \in T
  BY <1>4
<1>7. T = Nat
  <2>1. T \in SUBSET Nat
    OBVIOUS
  <2>. HIDE DEF T
  <2>. QED BY <1>5, <1>6, <2>1, AllNaturals
<1>. QED BY <1>4, <1>7

(* The first power.                                                        *)
LEMMA PowerOne == Power[1] = 2
<1>1. Power[0 + 1] = 2 * Power[0] /\ Power[0] = 1
  BY PowerDef
<1>. QED BY <1>1

(* A power above the first is twice the one below it.                      *)
LEMMA PowerPred ==
  ASSUME NEW k \in Nat, k > 0
  PROVE  k - 1 \in Nat /\ Power[k - 1] \in Nat /\ Power[k] = 2 * Power[k - 1]
<1>1. k - 1 \in Nat /\ (k - 1) + 1 = k
  OBVIOUS
<1>. QED BY <1>1, PowerDef

(* Powers multiply as their exponents add.                                 *)
LEMMA PowerAdd ==
  ASSUME NEW i \in Nat, NEW j \in Nat
  PROVE  Power[i + j] = Power[i] * Power[j]
<1>. DEFINE T == {n \in Nat : Power[i + n] = Power[i] * Power[n]}
<1>1. 0 \in T
  <2>1. i + 0 = i /\ Power[i] \in Nat /\ Power[0] = 1
    BY PowerDef
  <2>2. Power[i] * 1 = Power[i]
    BY <2>1
  <2>. QED BY <2>1, <2>2
<1>2. ASSUME NEW n \in T PROVE n + 1 \in T
  <2>1. /\ i + (n + 1) = (i + n) + 1 /\ i + n \in Nat /\ n \in Nat
        /\ Power[i + n] = Power[i] * Power[n]
    OBVIOUS
  <2>2. /\ Power[(i + n) + 1] = 2 * Power[i + n] /\ Power[n + 1] = 2 * Power[n]
        /\ Power[i] \in Nat /\ Power[n] \in Nat
    BY <2>1, PowerDef
  <2>3. 2 * (Power[i] * Power[n]) = Power[i] * (2 * Power[n])
    BY <2>2
  <2>. QED BY <2>1, <2>2, <2>3
<1>3. T \in SUBSET Nat
  OBVIOUS
<1>4. T = Nat
  <2>. HIDE DEF T
  <2>. QED BY <1>1, <1>2, <1>3, AllNaturals
<1>. QED BY <1>4

(* The same of an exponent that is known to be a sum.                      *)
LEMMA PowerSum ==
  ASSUME NEW s \in Nat, NEW i \in Nat, NEW j \in Nat, s = i + j
  PROVE  /\ Power[s] = Power[i] * Power[j]
         /\ Power[i] \in Nat /\ Power[i] > 0 /\ Power[j] \in Nat /\ Power[j] > 0
BY PowerAdd, PowerDef

(* Powers grow, by a factor of two at least.                               *)
LEMMA PowerGrows ==
  ASSUME NEW i \in Nat, NEW j \in Nat, i < j
  PROVE  2 * Power[i] <= Power[j]
<1>. DEFINE T == {n \in Nat : 2 * Power[i] <= Power[i + 1 + n]}
<1>1. 0 \in T
  <2>1. i + 1 + 0 = i + 1
    OBVIOUS
  <2>. QED BY <2>1, PowerDef
<1>2. ASSUME NEW n \in T PROVE n + 1 \in T
  <2>1. i + 1 + (n + 1) = (i + 1 + n) + 1 /\ i + 1 + n \in Nat
        /\ 2 * Power[i] <= Power[i + 1 + n]
    OBVIOUS
  <2>2. Power[(i + 1 + n) + 1] = 2 * Power[i + 1 + n]
        /\ Power[i + 1 + n] \in Nat /\ Power[i] \in Nat
    BY <2>1, PowerDef
  <2>. QED BY <2>1, <2>2
<1>3. T \in SUBSET Nat
  OBVIOUS
<1>4. T = Nat
  <2>. HIDE DEF T
  <2>. QED BY <1>1, <1>2, <1>3, AllNaturals
<1>5. j - i - 1 \in Nat /\ i + 1 + (j - i - 1) = j
  OBVIOUS
<1>6. j - i - 1 \in T
  BY <1>4, <1>5
<1>. QED BY <1>5, <1>6

(* Powers are ordered as their exponents are.                              *)
LEMMA PowerOrder ==
  ASSUME NEW i \in Nat, NEW j \in Nat
  PROVE  /\ Power[i] <= Power[j] <=> i <= j
         /\ Power[i] < Power[j] <=> i < j
         /\ Power[i] = Power[j] <=> i = j
<1>1. i < j => 2 * Power[i] <= Power[j]
  BY PowerGrows
<1>2. j < i => 2 * Power[j] <= Power[i]
  BY PowerGrows
<1>3. Power[i] \in Nat /\ Power[j] \in Nat /\ Power[i] > 0 /\ Power[j] > 0
  BY PowerDef
<1>. QED BY <1>1, <1>2, <1>3

(* A power is above its exponent, so powers of two have no bound.          *)
LEMMA PowerAbove ==
  ASSUME NEW n \in Nat
  PROVE  n < Power[n]
<1>. DEFINE T == {i \in Nat : i < Power[i]}
<1>1. 0 \in T
  BY PowerDef
<1>2. \A i \in T : i + 1 \in T
  BY PowerDef
<1>3. T \in SUBSET Nat
  OBVIOUS
<1>4. T = Nat
  <2>. HIDE DEF T
  <2>. QED BY <1>1, <1>2, <1>3, AllNaturals
<1>. QED BY <1>4

(* Every number but zero lies between a power and the next, and only       *)
(* between these.                                                          *)
LEMMA PowerBelow ==
  ASSUME NEW v \in Nat, v > 0
  PROVE  \E k \in Nat : Power[k] <= v /\ v < Power[k + 1]
<1>. DEFINE T == {n \in Nat : v < Power[n]}
<1>1. v \in T
  BY PowerAbove
<1>2. T \in SUBSET Nat
  OBVIOUS
<1>3. PICK n \in T : \A m \in T : n <= m
  <2>. HIDE DEF T
  <2>. QED BY <1>1, <1>2, LeastElement
<1>4. n \in Nat /\ v < Power[n] /\ n # 0
  BY PowerDef
<1>5. n - 1 \in Nat /\ (n - 1) + 1 = n /\ ~(n <= n - 1)
  BY <1>4
<1>6. Power[n - 1] <= v
  BY <1>3, <1>5, PowerDef
<1>. QED BY <1>4, <1>5, <1>6

(* A number is between two neighbouring powers in one way only.            *)
LEMMA PowerBelowUnique ==
  ASSUME NEW v \in Nat, NEW k \in Nat, NEW m \in Nat,
         Power[k] <= v, v < Power[k + 1], Power[m] <= v, v < Power[m + 1]
  PROVE  k = m
<1>1. Power[k] < Power[m + 1] /\ Power[m] < Power[k + 1]
  BY PowerDef
<1>2. k < m + 1 /\ m < k + 1
  BY <1>1, PowerOrder
<1>. QED BY <1>2

-----------------------------------------------------------------------------
(* Division.                                                               *)

(* The quotient is the number of whole steps of s below o.                 *)
LEMMA Quotient ==
  ASSUME NEW o \in Nat, NEW s \in Nat, s > 0
  PROVE  /\ o \div s \in Nat
         /\ (o \div s) * s \in Nat
         /\ (o \div s) * s <= o
         /\ o < (o \div s) * s + s
OBVIOUS

(* The quotient is determined by the interval that o lies in.              *)
LEMMA QuotientUnique ==
  ASSUME NEW o \in Nat, NEW s \in Nat, s > 0, NEW k \in Nat,
         k * s <= o, o < k * s + s
  PROVE  o \div s = k
OBVIOUS

(* A multiple of s and a rest below s are found again by division.         *)
LEMMA RemainderUnique ==
  ASSUME NEW s \in Nat, s > 0, NEW k \in Nat, NEW r \in Nat, r < s
  PROVE  (k * s + r) % s = r /\ (k * s + r) \div s = k
<1>1. k * s \in Nat
  OBVIOUS
<1>. QED BY <1>1

(* A natural is twice a natural, or one more.                              *)
LEMMA EvenOrOdd ==
  ASSUME NEW k \in Nat
  PROVE  \E h \in Nat : \/ k = 2 * h /\ k % 2 = 0 /\ k \div 2 = h
                        \/ k = 2 * h + 1 /\ k % 2 = 1 /\ k \div 2 = h
<1>1. k \div 2 \in Nat OBVIOUS
<1>2. \/ k = 2 * (k \div 2) /\ k % 2 = 0
      \/ k = 2 * (k \div 2) + 1 /\ k % 2 = 1
  OBVIOUS
<1>. QED BY <1>1, <1>2

(* Multiplication keeps the order.                                         *)
LEMMA TimesMonotone ==
  ASSUME NEW x \in Nat, NEW y \in Nat, NEW s \in Nat, x <= y
  PROVE  x * s \in Nat /\ y * s \in Nat /\ x * s <= y * s
<1>1. PICK d \in Nat : y = x + d
  <2>1. y - x \in Nat /\ y = x + (y - x)
    OBVIOUS
  <2>. QED BY <2>1
<1>2. x * s \in Nat /\ d * s \in Nat /\ (x + d) * s = x * s + d * s
  OBVIOUS
<1>. QED BY <1>1, <1>2

(* Dividing twice is dividing by the product.                              *)
LEMMA DivDiv ==
  ASSUME NEW v \in Nat, NEW s \in Nat, s > 0, NEW t \in Nat, t > 0
  PROVE  (v \div s) \div t = v \div (s * t)
<1>. DEFINE q == v \div s
            p == q \div t
<1>1. q \in Nat /\ q * s \in Nat /\ q * s <= v /\ v < q * s + s
  BY Quotient
<1>. HIDE DEF q
<1>2. p \in Nat /\ p * t \in Nat /\ p * t <= q /\ q < p * t + t
  BY <1>1, Quotient
<1>. HIDE DEF p
<1>3. s * t \in Nat /\ s * t > 0
  OBVIOUS
<1>4. (p * t) * s <= q * s
  BY <1>1, <1>2, TimesMonotone
<1>5. (q + 1) * s <= (p * t + t) * s
  <2>1. q + 1 \in Nat /\ p * t + t \in Nat /\ q + 1 <= p * t + t
    BY <1>1, <1>2
  <2>. QED BY <2>1, TimesMonotone
<1>6. (p * t) * s = p * (s * t) /\ (p * t + t) * s = p * (s * t) + s * t
      /\ (q + 1) * s = q * s + s /\ p * (s * t) \in Nat
  BY <1>1, <1>2
<1>7. p * (s * t) <= v /\ v < p * (s * t) + s * t
  BY <1>1, <1>3, <1>4, <1>5, <1>6
<1>8. v \div (s * t) = p
  BY <1>2, <1>3, <1>7, QuotientUnique
<1>. QED BY <1>8 DEF p, q

-----------------------------------------------------------------------------
(* Bits.                                                                   *)

(* Bit i of v.                                                             *)
Bit(v, i) == (v \div Power[i]) % 2 = 1

(* The operators of the model in terms of powers and digits.               *)
LEMMA BitsAre ==
  /\ W \in Nat /\ W > 0
  /\ \A v : Bits(v) \subseteq 0 .. W - 1 /\ \A i \in 0 .. W - 1 : i \in Bits(v) <=> Bit(v, i)
  /\ \A i \in 0 .. W - 1 : i \in Nat /\ i < W
  /\ Power[W] \in Nat /\ Power[W] > 0
  /\ \A v : v \in Word <=> v \in Nat /\ v < Power[W]
<1>1. W \in Nat /\ W > 0
  BY WidthAssumption
<1>2. Power[W] \in Nat /\ Power[W] > 0
  BY <1>1, PowerDef
<1>. QED BY <1>1, <1>2 DEF Bits, Bit, Word

(* The bits above the first are those of the half.                         *)
LEMMA BitOfHalf ==
  ASSUME NEW v \in Nat, NEW i \in Nat
  PROVE  /\ v \div 2 \in Nat
         /\ Bit(v, i + 1) <=> Bit(v \div 2, i)
         /\ Bit(v, 0) <=> v % 2 = 1
<1>1. Power[i] \in Nat /\ Power[i] > 0 /\ Power[i + 1] = 2 * Power[i] /\ Power[0] = 1
  BY PowerDef
<1>2. (v \div 2) \div Power[i] = v \div (2 * Power[i])
  BY <1>1, DivDiv
<1>3. v \div 1 = v /\ v \div 2 \in Nat
  OBVIOUS
<1>. QED BY <1>1, <1>2, <1>3 DEF Bit

(* A number of n bits is known by them.                                    *)
LEMMA BitsDetermine ==
  ASSUME NEW n \in Nat, NEW v \in Nat, NEW w \in Nat,
         v < Power[n], w < Power[n], \A i \in 0 .. n - 1 : Bit(v, i) <=> Bit(w, i)
  PROVE  v = w
<1>. DEFINE Same(x, y, m) == \A i \in 0 .. m - 1 : Bit(x, i) <=> Bit(y, i)
            T == {m \in Nat : \A x, y \in Nat :
                    x < Power[m] /\ y < Power[m] /\ Same(x, y, m) => x = y}
<1>1. 0 \in T
  BY PowerDef
<1>2. ASSUME NEW m \in T PROVE m + 1 \in T
  <2>1. m \in Nat /\ m + 1 \in Nat /\ (m + 1) - 1 = m
    OBVIOUS
  <2>2. SUFFICES ASSUME NEW x \in Nat, NEW y \in Nat, x < Power[m + 1],
                        y < Power[m + 1], Same(x, y, m + 1)
                 PROVE  x = y
    BY <2>1
  <2>3. /\ x \div 2 \in Nat /\ y \div 2 \in Nat
        /\ x \div 2 < Power[m] /\ y \div 2 < Power[m]
    <3>1. Power[m] \in Nat /\ Power[m + 1] = 2 * Power[m]
      BY <2>1, PowerDef
    <3>. QED BY <2>2, <3>1
  <2>4. Same(x \div 2, y \div 2, m)
    <3>1. ASSUME NEW i \in 0 .. m - 1
          PROVE  Bit(x \div 2, i) <=> Bit(y \div 2, i)
      <4>1. i \in Nat /\ i + 1 \in 0 .. (m + 1) - 1
        BY <2>1
      <4>2. Bit(x, i + 1) <=> Bit(y, i + 1)
        BY <2>2, <4>1
      <4>. QED BY <4>1, <4>2, BitOfHalf
    <3>. QED BY <3>1
  <2>5. x \div 2 = y \div 2
    <3>. HIDE DEF Same
    <3>. QED BY <2>3, <2>4
  <2>6. x % 2 = 1 <=> y % 2 = 1
    <3>1. 0 \in 0 .. (m + 1) - 1 /\ 0 \in Nat
      BY <2>1
    <3>2. Bit(x, 0) <=> Bit(y, 0)
      BY <2>2, <3>1
    <3>. QED BY <3>1, <3>2, BitOfHalf
  <2>. QED BY <2>5, <2>6, EvenOrOdd
<1>3. T \in SUBSET Nat
  OBVIOUS
<1>4. T = Nat
  <2>. HIDE DEF T
  <2>. QED BY <1>1, <1>2, <1>3, AllNaturals
<1>. QED BY <1>4

(* A word is the only one that has its bits.                               *)
LEMMA WordOfBits ==
  ASSUME NEW v \in Word, NEW bits, \A i : i \in bits <=> i \in Bits(v)
  PROVE  WordOf(bits) = v
<1>1. Bits(v) = bits
  OBVIOUS
<1>2. ASSUME NEW w \in Word, Bits(w) = bits PROVE w = v
  <2>1. \A i \in 0 .. W - 1 : Bit(v, i) <=> Bit(w, i)
    BY <1>1, <1>2, BitsAre
  <2>. QED BY <2>1, BitsAre, BitsDetermine
<1>. QED BY <1>1, <1>2 DEF WordOf

(* The bits of a multiple of a power of two are those of the factor, moved *)
(* up.                                                                     *)
LEMMA BitOfMultiple ==
  ASSUME NEW m \in Nat, NEW k \in Nat, NEW j \in Nat
  PROVE  Bit(m * Power[k], j) <=> j >= k /\ Bit(m, j - k)
<1>1. Power[k] \in Nat /\ Power[k] > 0 /\ Power[j] \in Nat /\ Power[j] > 0
      /\ m * Power[k] \in Nat
  BY PowerDef
<1>2. CASE j < k
  <2>. DEFINE e == k - j - 1
              x == m * Power[e]
  <2>1. e \in Nat /\ k = (e + 1) + j /\ e + 1 \in Nat
    BY <1>2
  <2>. HIDE DEF e
  <2>2. Power[e] \in Nat /\ Power[k] = 2 * (Power[e] * Power[j]) /\ x \in Nat
    <3>1. Power[k] = Power[e + 1] * Power[j]
      BY <2>1, PowerSum
    <3>2. Power[e + 1] = 2 * Power[e] /\ Power[e] \in Nat
      BY <2>1, PowerDef
    <3>. QED BY <1>1, <3>1, <3>2
  <2>3. m * Power[k] = (2 * x) * Power[j]
    BY <1>1, <2>2
  <2>. HIDE DEF x
  <2>4. (m * Power[k]) \div Power[j] = 2 * x
    <3>1. 2 * x \in Nat /\ 0 \in Nat /\ (2 * x) * Power[j] \in Nat
          /\ (2 * x) * Power[j] + 0 = (2 * x) * Power[j]
      BY <1>1, <2>2
    <3>2. ((2 * x) * Power[j] + 0) \div Power[j] = 2 * x
      BY <1>1, <3>1, RemainderUnique
    <3>. QED BY <2>3, <3>1, <3>2
  <2>5. (2 * x) % 2 = 0
    BY <2>2
  <2>. QED BY <1>2, <2>4, <2>5 DEF Bit
<1>3. CASE j >= k
  <2>1. j - k \in Nat /\ k + (j - k) = j
    BY <1>3
  <2>2. Power[j] = Power[k] * Power[j - k] /\ Power[j - k] \in Nat /\ Power[j - k] > 0
    BY <2>1, PowerSum
  <2>3. (m * Power[k]) \div Power[k] = m
    <3>1. (m * Power[k] + 0) \div Power[k] = m
      BY <1>1, RemainderUnique
    <3>. QED BY <1>1, <3>1
  <2>4. (m * Power[k]) \div Power[j] = m \div Power[j - k]
    BY <1>1, <2>2, <2>3, DivDiv
  <2>. QED BY <1>3, <2>4 DEF Bit
<1>. QED BY <1>2, <1>3

(* The highest bit of a number and the bits of the numbers around.         *)
LEMMA HighestBit ==
  ASSUME NEW v \in Nat, NEW k \in Nat, Power[k] <= v, v < Power[k + 1]
  PROVE  Bit(v, k) /\ \A j \in Nat : j > k => ~Bit(v, j)
<1>1. Power[k] \in Nat /\ Power[k] > 0 /\ Power[k + 1] = 2 * Power[k]
  BY PowerDef
<1>2. v \div Power[k] = 1
  <2>1. 1 * Power[k] <= v /\ v < 1 * Power[k] + Power[k]
    BY <1>1
  <2>. QED BY <1>1, <2>1, QuotientUnique
<1>3. ASSUME NEW j \in Nat, j > k PROVE v \div Power[j] = 0
  <2>1. Power[k + 1] <= Power[j] /\ Power[j] \in Nat /\ Power[j] > 0
    BY <1>3, PowerOrder, PowerDef
  <2>2. 0 * Power[j] <= v /\ v < 0 * Power[j] + Power[j]
    BY <1>1, <2>1
  <2>. QED BY <2>1, <2>2, QuotientUnique
<1>. QED BY <1>2, <1>3 DEF Bit

(* The bits of a number below a power are below its exponent.              *)
LEMMA NoHigherBit ==
  ASSUME NEW v \in Nat, NEW n \in Nat, v < Power[n], NEW j \in Nat, j >= n
  PROVE  ~Bit(v, j)
<1>1. Power[n] <= Power[j] /\ Power[j] \in Nat /\ Power[j] > 0 /\ Power[n] \in Nat
  BY PowerOrder, PowerDef
<1>2. 0 * Power[j] <= v /\ v < 0 * Power[j] + Power[j]
  BY <1>1
<1>3. v \div Power[j] = 0
  BY <1>1, <1>2, QuotientUnique
<1>. QED BY <1>3 DEF Bit

(* One below a power of two all bits are set.                              *)
LEMMA AllLowBits ==
  ASSUME NEW n \in Nat, NEW i \in Nat
  PROVE  Bit(Power[n] - 1, i) <=> i < n
<1>1. Power[n] \in Nat /\ Power[n] > 0 /\ Power[i] \in Nat /\ Power[i] > 0
      /\ Power[n] - 1 \in Nat /\ Power[n] - 1 < Power[n]
  BY PowerDef
<1>2. CASE i >= n
  BY <1>1, <1>2, NoHigherBit
<1>3. CASE i < n
  <2>. DEFINE e == n - i - 1
              x == 2 * Power[e] - 1
  <2>1. e \in Nat /\ n = (e + 1) + i /\ e + 1 \in Nat
    BY <1>3
  <2>. HIDE DEF e
  <2>2. Power[e] \in Nat /\ Power[e] > 0 /\ Power[n] = 2 * (Power[e] * Power[i]) /\ x \in Nat
    <3>1. Power[n] = Power[e + 1] * Power[i]
      BY <2>1, PowerSum
    <3>2. Power[e + 1] = 2 * Power[e] /\ Power[e] \in Nat /\ Power[e] > 0
      BY <2>1, PowerDef
    <3>. QED BY <1>1, <3>1, <3>2
  <2>3. Power[n] - 1 = x * Power[i] + (Power[i] - 1)
    BY <1>1, <2>2
  <2>4. x % 2 = 1
    BY <2>2
  <2>. HIDE DEF x
  <2>5. (Power[n] - 1) \div Power[i] = x
    <3>1. Power[i] - 1 \in Nat /\ Power[i] - 1 < Power[i]
      BY <1>1
    <3>2. (x * Power[i] + (Power[i] - 1)) \div Power[i] = x
      BY <1>1, <2>2, <3>1, RemainderUnique
    <3>. QED BY <2>3, <3>2
  <2>. QED BY <1>3, <2>4, <2>5 DEF Bit
<1>. QED BY <1>2, <1>3

(* The test v & (v - 1): the highest bit of a number is kept by the number *)
(* below it unless the number is a power of two.                           *)
LEMMA OneBitPower ==
  ASSUME NEW v \in Word, v # 0
  PROVE  OneBit(v) <=> v \in PowersOfTwo
<1>1. v \in Nat /\ v > 0 /\ v < Power[W] /\ v - 1 \in Nat
  BY BitsAre
<1>2. PICK k \in Nat : Power[k] <= v /\ v < Power[k + 1]
  BY <1>1, PowerBelow
<1>3. k < W /\ k \in 0 .. W - 1
  <2>1. Power[k] < Power[W]
    BY <1>1, <1>2, PowerDef, BitsAre
  <2>. QED BY <2>1, BitsAre, PowerOrder
<1>4. CASE v = Power[k]
  <2>1. v \in PowersOfTwo
    BY <1>3, <1>4 DEF PowersOfTwo
  <2>2. ASSUME NEW i \in 0 .. W - 1 PROVE ~(Bit(v, i) /\ Bit(v - 1, i))
    <3>1. i \in Nat
      BY BitsAre
    <3>2. Bit(v - 1, i) <=> i < k
      BY <1>4, <3>1, AllLowBits
    <3>3. Bit(1 * Power[k], i) <=> i >= k /\ Bit(1, i - k)
      BY <3>1, BitOfMultiple
    <3>4. 1 * Power[k] = v
      BY <1>1, <1>4
    <3>. QED BY <3>1, <3>2, <3>3, <3>4
  <2>3. Bits(v) \cap Bits(v - 1) = {}
    BY <2>2, BitsAre
  <2>. QED BY <2>1, <2>3 DEF OneBit
<1>5. CASE v # Power[k]
  <2>1. Bit(v, k)
    BY <1>1, <1>2, HighestBit
  <2>2. Bit(v - 1, k)
    <3>1. Power[k] <= v - 1 /\ v - 1 < Power[k + 1]
      BY <1>1, <1>2, <1>5, PowerDef
    <3>. QED BY <1>1, <3>1, HighestBit
  <2>3. ~OneBit(v)
    BY <1>3, <2>1, <2>2, BitsAre DEF OneBit
  <2>4. ASSUME v \in PowersOfTwo PROVE FALSE
    <3>1. PICK m \in 0 .. W - 1 : v = Power[m]
      BY <2>4 DEF PowersOfTwo
    <3>2. m \in Nat /\ Power[m] <= v /\ v < Power[m + 1]
      BY <1>1, <3>1, BitsAre, PowerDef
    <3>3. m = k
      BY <1>1, <1>2, <3>2, PowerBelowUnique
    <3>. QED BY <1>5, <3>1, <3>3
  <2>. QED BY <2>3, <2>4
<1>. QED BY <1>4, <1>5

-----------------------------------------------------------------------------
(* The numbers of levels and nodes.                                        *)

(* The loop of calc_num_of_levels halves until nothing is left.            *)
LEMMA CountsLevels ==
  ASSUME NEW a \in Nat, NEW b \in 0 .. a
  PROVE  calc_num_of_levels(Power[a], Power[b]) = a - b + 1
<1>. DEFINE Steps(f) == f = [t \in Nat |-> IF t = 0 THEN 0 ELSE 1 + f[t \div 2]]
            Log(t) == CHOOSE k \in Nat : Power[k] <= t /\ t < Power[k + 1]
            w == [t \in Nat |-> IF t = 0 THEN 0 ELSE 1 + Log(t)]
            count == CHOOSE f : Steps(f)
<1>1. ASSUME NEW t \in Nat, NEW k \in Nat, Power[k] <= t, t < Power[k + 1]
      PROVE  Log(t) = k
  BY <1>1, PowerBelowUnique
<1>2. ASSUME NEW t \in Nat
      PROVE  w[t] = IF t = 0 THEN 0 ELSE 1 + w[t \div 2]
  <2>. HIDE DEF Log
  <2>1. CASE t = 0
    BY <2>1
  <2>2. CASE t # 0
    <3>1. PICK k \in Nat : Power[k] <= t /\ t < Power[k + 1]
      BY <2>2, PowerBelow
    <3>2. w[t] = 1 + k
      BY <1>1, <2>2, <3>1
    <3>3. t \div 2 \in Nat
      OBVIOUS
    <3>4. CASE k = 0
      <4>1. t = 1
        BY <3>1, <3>4, <2>2, PowerOne
      <4>2. t \div 2 = 0
        BY <4>1
      <4>. QED BY <2>2, <3>2, <3>4, <4>2
    <3>5. CASE k # 0
      <4>1. k - 1 \in Nat /\ (k - 1) + 1 = k /\ Power[k - 1] \in Nat
            /\ Power[k] = 2 * Power[k - 1] /\ Power[k + 1] = 2 * Power[k]
            /\ Power[k - 1] > 0
        BY <3>5, PowerPred, PowerDef
      <4>2. Power[k - 1] <= t \div 2 /\ t \div 2 < Power[(k - 1) + 1]
        BY <3>1, <4>1
      <4>3. Log(t \div 2) = k - 1
        BY <1>1, <3>3, <4>1, <4>2
      <4>4. t \div 2 # 0
        BY <3>3, <4>1, <4>2
      <4>. QED BY <2>2, <3>2, <3>3, <4>1, <4>3, <4>4
    <3>. QED BY <3>4, <3>5
  <2>. QED BY <2>1, <2>2
<1>3. Steps(w)
  <2>1. w = [t \in Nat |-> w[t]]
    OBVIOUS
  <2>. HIDE DEF w
  <2>. QED BY <1>2, <2>1
<1>4. Steps(count)
  <2>. HIDE DEF Steps, w
  <2>. QED BY <1>3
<1>. HIDE DEF count, w
<1>5. \A t \in Nat : count[t] = IF t = 0 THEN 0 ELSE 1 + count[t \div 2]
  BY <1>4
<1>. DEFINE T == {n \in Nat : count[Power[n]] = n + 1}
<1>6. 0 \in T
  <2>1. 1 \div 2 = 0 /\ 1 \in Nat /\ 0 \in Nat
    OBVIOUS
  <2>2. count[1] = 1 + count[0] /\ count[0] = 0
    BY <1>5, <2>1
  <2>. QED BY <2>2, PowerDef
<1>7. ASSUME NEW n \in T PROVE n + 1 \in T
  <2>1. Power[n + 1] \in Nat /\ Power[n + 1] # 0 /\ Power[n + 1] \div 2 = Power[n]
    <3>1. Power[n] \in Nat /\ Power[n] > 0 /\ Power[n + 1] = 2 * Power[n]
      BY PowerDef
    <3>. QED BY <3>1
  <2>2. count[Power[n + 1]] = 1 + count[Power[n]]
    BY <1>5, <2>1
  <2>. QED BY <2>2
<1>8. T \in SUBSET Nat
  OBVIOUS
<1>9. T = Nat
  <2>. HIDE DEF T
  <2>. QED BY <1>6, <1>7, <1>8, AllNaturals
<1>10. a - b \in Nat /\ b \in Nat /\ a = (a - b) + b
  OBVIOUS
<1>11. Power[a] \div Power[b] = Power[a - b]
  <2>1. Power[a] = Power[a - b] * Power[b] /\ Power[a - b] \in Nat
        /\ Power[b] \in Nat /\ Power[b] > 0
    BY <1>10, PowerSum
  <2>2. (Power[a - b] * Power[b] + 0) \div Power[b] = Power[a - b]
    BY <2>1, RemainderUnique
  <2>. QED BY <2>1, <2>2
<1>12. calc_num_of_levels(Power[a], Power[b]) = count[Power[a] \div Power[b]]
  BY DEF calc_num_of_levels, count
<1>13. count[Power[a - b]] = (a - b) + 1
  BY <1>9, <1>10
<1>. QED BY <1>11, <1>12, <1>13

(* The loop of calc_max_nodes does not wrap as long as there are no more   *)
(* levels than bits.                                                       *)
LEMMA CountsNodes ==
  ASSUME NEW n \in 0 .. W
  PROVE  calc_max_nodes(n) = Power[n] - 1
<1>. DEFINE Steps(f) == f = [i \in Nat |-> IF i = 0 THEN 0
                               ELSE (f[i - 1] + Power[i - 1]) % Power[W]]
            w == [i \in Nat |-> IF i <= W THEN Power[i] - 1 ELSE Power[W] - 1]
            sum == CHOOSE f : Steps(f)
<1>1. ASSUME NEW i \in Nat
      PROVE  w[i] = IF i = 0 THEN 0 ELSE (w[i - 1] + Power[i - 1]) % Power[W]
  <2>1. CASE i = 0
    BY <2>1, PowerDef, BitsAre
  <2>2. CASE i # 0 /\ i <= W
    <3>1. i - 1 \in Nat /\ i - 1 <= W /\ Power[i] = 2 * Power[i - 1]
          /\ Power[i - 1] \in Nat /\ Power[i - 1] > 0
      BY <2>2, PowerPred, PowerDef, BitsAre
    <3>2. Power[i] <= Power[W] /\ Power[W] \in Nat
      BY <2>2, PowerOrder, BitsAre
    <3>3. w[i - 1] + Power[i - 1] = Power[i] - 1 /\ w[i] = Power[i] - 1
      BY <2>2, <3>1
    <3>4. (Power[i] - 1) % Power[W] = Power[i] - 1
      BY <3>1, <3>2
    <3>. QED BY <2>2, <3>3, <3>4
  <2>3. CASE i > W
    <3>1. i - 1 \in Nat /\ i # 0 /\ W \in Nat /\ i - 1 - W \in Nat
          /\ i - 1 = (i - 1 - W) + W
      BY <2>3, BitsAre
    <3>2. Power[i - 1] = Power[i - 1 - W] * Power[W] /\ Power[i - 1 - W] \in Nat
          /\ Power[W] \in Nat /\ Power[W] > 0
      BY <3>1, PowerSum
    <3>3. w[i - 1] = Power[W] - 1 /\ w[i] = Power[W] - 1
      BY <2>3, <3>1
    <3>4. (Power[i - 1 - W] * Power[W] + (Power[W] - 1)) % Power[W] = Power[W] - 1
      <4>1. Power[W] - 1 \in Nat /\ Power[W] - 1 < Power[W]
        BY <3>2
      <4>. QED BY <3>2, <4>1, RemainderUnique
    <3>5. w[i - 1] + Power[i - 1] = Power[i - 1 - W] * Power[W] + (Power[W] - 1)
      BY <3>2, <3>3
    <3>. QED BY <3>1, <3>3, <3>4, <3>5
  <2>. QED BY <2>1, <2>2, <2>3, BitsAre
<1>2. Steps(w)
  <2>1. w = [i \in Nat |-> w[i]]
    OBVIOUS
  <2>. HIDE DEF w
  <2>. QED BY <1>1, <2>1
<1>3. Steps(sum)
  <2>. HIDE DEF Steps, w
  <2>. QED BY <1>2
<1>4. \A i \in Nat : sum[i] = IF i = 0 THEN 0
                              ELSE (sum[i - 1] + Power[i - 1]) % Power[W]
  <2>. HIDE DEF sum
  <2>. QED BY <1>3
<1>. DEFINE T == {i \in Nat : sum[i] = w[i]}
<1>. HIDE DEF sum, w
<1>5. 0 \in T
  BY <1>1, <1>4
<1>6. ASSUME NEW i \in T PROVE i + 1 \in T
  <2>1. i + 1 \in Nat /\ i + 1 # 0 /\ (i + 1) - 1 = i /\ sum[i] = w[i]
    OBVIOUS
  <2>. QED BY <1>1, <1>4, <2>1
<1>7. T \in SUBSET Nat
  OBVIOUS
<1>8. T = Nat
  <2>. HIDE DEF T
  <2>. QED BY <1>5, <1>6, <1>7, AllNaturals
<1>9. n \in Nat /\ n <= W
  BY BitsAre
<1>10. w[n] = Power[n] - 1
  BY <1>9 DEF w
<1>11. calc_max_nodes(n) = sum[n]
  BY DEF calc_max_nodes, sum
<1>. QED BY <1>8, <1>9, <1>10, <1>11

(* The loop of get_block_level halves the size down to the smallest block. *)
LEMMA CountsShifts ==
  ASSUME NEW b \in Nat, minb = Power[b]
  PROVE  LET shift_count[s \in Nat] ==
               IF s > minb THEN 1 + shift_count[s \div 2] ELSE 0
         IN  \A c \in Nat : shift_count[Power[c]] = IF c <= b THEN 0 ELSE c - b
<1>. DEFINE Steps(f) == f = [s \in Nat |-> IF s > minb THEN 1 + f[s \div 2] ELSE 0]
            Down(s, k) == s \div Power[k] <= minb
            Least(s, k) == Down(s, k) /\ \A j \in Nat : Down(s, j) => k <= j
            w == [s \in Nat |-> CHOOSE k \in Nat : Least(s, k)]
            shifts == CHOOSE f : Steps(f)
<1>0. minb \in Nat /\ minb > 0
  BY PowerDef
<1>1. ASSUME NEW s \in Nat PROVE \E k \in Nat : Least(s, k)
  <2>. DEFINE T == {k \in Nat : Down(s, k)}
  <2>1. s \in T
    <3>1. s < Power[s] /\ Power[s] \in Nat /\ Power[s] > 0
      BY PowerAbove, PowerDef
    <3>2. 0 * Power[s] <= s /\ s < 0 * Power[s] + Power[s]
      BY <3>1
    <3>3. s \div Power[s] = 0
      BY <3>1, <3>2, QuotientUnique
    <3>. QED BY <1>0, <3>3
  <2>2. T \in SUBSET Nat
    OBVIOUS
  <2>3. PICK k \in T : \A j \in T : k <= j
    <3>. HIDE DEF T
    <3>. QED BY <2>1, <2>2, LeastElement
  <2>. QED BY <2>3
<1>2. ASSUME NEW s \in Nat, NEW k \in Nat, Least(s, k) PROVE w[s] = k
  <2>1. ASSUME NEW j \in Nat, Least(s, j) PROVE j = k
    BY <1>2, <2>1
  <2>. HIDE DEF Least
  <2>. QED BY <1>2, <2>1
<1>3. ASSUME NEW s \in Nat
      PROVE  w[s] = IF s > minb THEN 1 + w[s \div 2] ELSE 0
  <2>0. s \div Power[0] = s
    BY PowerDef
  <2>1. CASE ~(s > minb)
    <3>1. Least(s, 0)
      BY <1>0, <2>0, <2>1
    <3>. QED BY <1>2, <2>1, <3>1
  <2>2. CASE s > minb
    <3>. DEFINE h == s \div 2
    <3>1. h \in Nat
      OBVIOUS
    <3>2. ASSUME NEW k \in Nat PROVE Down(s, k + 1) <=> Down(h, k)
      <4>1. Power[k + 1] = 2 * Power[k] /\ Power[k] \in Nat /\ Power[k] > 0
        BY PowerDef
      <4>2. h \div Power[k] = s \div (2 * Power[k])
        BY <4>1, DivDiv
      <4>. QED BY <4>1, <4>2
    <3>3. ~Down(s, 0)
      BY <1>0, <2>0, <2>2
    <3>. HIDE DEF Down, h
    <3>4. PICK k \in Nat : Least(h, k)
      BY <1>1, <3>1
    <3>5. Least(s, k + 1)
      <4>1. ASSUME NEW j \in Nat, Down(s, j) PROVE k + 1 <= j
        <5>1. j # 0
          BY <3>3, <4>1
        <5>2. j - 1 \in Nat /\ (j - 1) + 1 = j
          BY <5>1
        <5>3. Down(h, j - 1)
          BY <3>2, <4>1, <5>2
        <5>. QED BY <3>4, <5>2, <5>3
      <4>. QED BY <3>2, <3>4, <4>1
    <3>6. w[s] = k + 1 /\ w[h] = k
      <4>. HIDE DEF Least, w
      <4>. QED BY <1>2, <3>1, <3>4, <3>5
    <3>. HIDE DEF Least, w
    <3>. QED BY <2>2, <3>4, <3>6 DEF h
  <2>. QED BY <2>1, <2>2
<1>4. Steps(w)
  <2>1. w = [s \in Nat |-> w[s]]
    OBVIOUS
  <2>. HIDE DEF w
  <2>. QED BY <1>3, <2>1
<1>5. Steps(shifts)
  <2>. HIDE DEF Steps, w
  <2>. QED BY <1>4
<1>6. \A s \in Nat : shifts[s] = IF s > minb THEN 1 + shifts[s \div 2] ELSE 0
  <2>. HIDE DEF shifts
  <2>. QED BY <1>5
<1>. HIDE DEF shifts
<1>7. ASSUME NEW c \in Nat, c <= b PROVE shifts[Power[c]] = 0
  <2>1. Power[c] \in Nat /\ ~(Power[c] > minb)
    BY <1>0, <1>7, PowerOrder, PowerDef
  <2>. QED BY <1>6, <2>1
<1>. DEFINE T == {n \in Nat : shifts[Power[b + n]] = n}
<1>8. 0 \in T
  <2>1. b + 0 = b /\ b <= b
    OBVIOUS
  <2>. QED BY <1>7, <2>1
<1>9. ASSUME NEW n \in T PROVE n + 1 \in T
  <2>1. b + (n + 1) = (b + n) + 1 /\ b + n \in Nat /\ shifts[Power[b + n]] = n
        /\ b < b + (n + 1) /\ b + (n + 1) \in Nat
    OBVIOUS
  <2>2. Power[b + (n + 1)] \in Nat /\ Power[b + (n + 1)] > minb
    BY <1>0, <2>1, PowerOrder, PowerDef
  <2>3. Power[b + (n + 1)] \div 2 = Power[b + n]
    <3>1. Power[(b + n) + 1] = 2 * Power[b + n] /\ Power[b + n] \in Nat
      BY <2>1, PowerDef
    <3>. QED BY <2>1, <3>1
  <2>4. shifts[Power[b + (n + 1)]] = 1 + shifts[Power[b + n]]
    BY <1>6, <2>2, <2>3
  <2>. QED BY <2>1, <2>4
<1>10. T \in SUBSET Nat
  OBVIOUS
<1>11. T = Nat
  <2>. HIDE DEF T
  <2>. QED BY <1>8, <1>9, <1>10, AllNaturals
<1>12. ASSUME NEW c \in Nat, ~(c <= b) PROVE shifts[Power[c]] = c - b
  <2>1. c - b \in Nat /\ b + (c - b) = c
    BY <1>12
  <2>2. shifts[Power[b + (c - b)]] = c - b
    BY <1>11, <2>1
  <2>. QED BY <2>1, <2>2
<1>13. \A c \in Nat : shifts[Power[c]] = IF c <= b THEN 0 ELSE c - b
  BY <1>7, <1>12
<1>. QED BY <1>13 DEF shifts

-----------------------------------------------------------------------------
(* The level of a request.                                                 *)

(* After n rounds a bit is set if one of the 2^n bits from it on was.      *)
LEMMA Spreads ==
  ASSUME NEW bits \in SUBSET (0 .. W - 1), NEW n \in Nat
  PROVE  Spread(bits)[n] = {i \in 0 .. W - 1 :
                              \E d \in 0 .. Power[n] - 1 : i + d \in bits}
<1>. DEFINE Steps(f) == f = [m \in Nat |-> IF m = 0 THEN bits
                               ELSE f[m - 1] \cup ShiftRight(f[m - 1], Power[m - 1])]
            w == [m \in Nat |-> {i \in 0 .. W - 1 :
                                   \E d \in 0 .. Power[m] - 1 : i + d \in bits}]
<1>1. ASSUME NEW m \in Nat
      PROVE  w[m] = IF m = 0 THEN bits
                    ELSE w[m - 1] \cup ShiftRight(w[m - 1], Power[m - 1])
  <2>1. CASE m = 0
    <3>1. 0 .. Power[0] - 1 = {0}
      BY PowerDef
    <3>2. \A i \in 0 .. W - 1 : i + 0 = i
      BY BitsAre
    <3>. QED BY <2>1, <3>1, <3>2
  <2>2. CASE m # 0
    <3>. DEFINE p == Power[m - 1]
    <3>1. m - 1 \in Nat /\ p \in Nat /\ p > 0 /\ Power[m] = 2 * p
      BY <2>2, PowerPred, PowerDef
    <3>. HIDE DEF p
    <3>2. w[m - 1] = {i \in 0 .. W - 1 : \E d \in 0 .. p - 1 : i + d \in bits}
      BY <3>1 DEF p
    <3>3. w[m] = {i \in 0 .. W - 1 : \E d \in 0 .. 2 * p - 1 : i + d \in bits}
      BY <3>1
    <3>. HIDE DEF w
    <3>4. ASSUME NEW i \in 0 .. W - 1, NEW d \in 0 .. 2 * p - 1, i + d \in bits
          PROVE  i \in w[m - 1] \/ i \in ShiftRight(w[m - 1], p)
      <4>1. i \in Nat /\ d \in Nat
        BY <3>1, BitsAre
      <4>2. CASE d < p
        <5>1. d \in 0 .. p - 1
          BY <3>1, <4>1, <4>2
        <5>. QED BY <3>2, <3>4, <5>1
      <4>3. CASE d >= p
        <5>1. d - p \in 0 .. p - 1 /\ (i + p) + (d - p) = i + d
          BY <3>1, <4>1, <4>3
        <5>2. i + p \in 0 .. W - 1
          <6>1. i + d \in 0 .. W - 1 /\ i + p <= i + d
            BY <3>1, <3>4, <4>1, <4>3
          <6>. QED BY <3>1, <4>1, <6>1, BitsAre
        <5>3. i + p \in w[m - 1]
          BY <3>2, <3>4, <5>1, <5>2
        <5>. QED BY <5>3 DEF ShiftRight
      <4>. QED BY <3>1, <4>1, <4>2, <4>3
    <3>5. ASSUME NEW i \in 0 .. W - 1, i \in w[m - 1]
          PROVE  i \in w[m]
      <4>1. PICK d \in 0 .. p - 1 : i + d \in bits
        BY <3>2, <3>5
      <4>2. d \in 0 .. 2 * p - 1
        BY <3>1
      <4>. QED BY <3>3, <4>1, <4>2
    <3>6. ASSUME NEW i \in 0 .. W - 1, i + p \in w[m - 1]
          PROVE  i \in w[m]
      <4>1. PICK d \in 0 .. p - 1 : (i + p) + d \in bits
        BY <3>2, <3>6
      <4>2. p + d \in 0 .. 2 * p - 1 /\ i + (p + d) = (i + p) + d
        BY <3>1, BitsAre
      <4>3. i + (p + d) \in bits
        BY <4>1, <4>2
      <4>. QED BY <3>3, <4>2, <4>3
    <3>7. w[m] = w[m - 1] \cup ShiftRight(w[m - 1], p)
      BY <3>2, <3>3, <3>4, <3>5, <3>6 DEF ShiftRight
    <3>. QED BY <2>2, <3>7 DEF p
  <2>. QED BY <2>1, <2>2
<1>2. Steps(w)
  <2>1. w = [m \in Nat |-> w[m]]
    OBVIOUS
  <2>. HIDE DEF w
  <2>. QED BY <1>1, <2>1
<1>. DEFINE spread == CHOOSE f : Steps(f)
<1>3. Steps(spread)
  <2>. HIDE DEF Steps, w
  <2>. QED BY <1>2
<1>4. \A m \in Nat : spread[m] = IF m = 0 THEN bits
        ELSE spread[m - 1] \cup ShiftRight(spread[m - 1], Power[m - 1])
  <2>. HIDE DEF spread
  <2>. QED BY <1>3
<1>5. Spread(bits) = spread
  BY DEF Spread
<1>. DEFINE T == {m \in Nat : spread[m] = w[m]}
<1>. HIDE DEF spread, w
<1>6. 0 \in T
  BY <1>1, <1>4
<1>7. ASSUME NEW m \in T PROVE m + 1 \in T
  <2>1. m + 1 \in Nat /\ m + 1 # 0 /\ (m + 1) - 1 = m /\ spread[m] = w[m]
    OBVIOUS
  <2>2. w[m + 1] = w[m] \cup ShiftRight(w[m], Power[m])
    BY <1>1, <2>1
  <2>3. spread[m + 1] = spread[m] \cup ShiftRight(spread[m], Power[m])
    BY <1>4, <2>1
  <2>. QED BY <2>1, <2>2, <2>3
<1>8. T \in SUBSET Nat
  OBVIOUS
<1>9. T = Nat
  <2>. HIDE DEF T
  <2>. QED BY <1>6, <1>7, <1>8, AllNaturals
<1>10. spread[n] = w[n]
  BY <1>9
<1>. QED BY <1>5, <1>10 DEF w

(* next_pow2 rounds up to a power of two; past the highest power of a word *)
(* it wraps around to zero.                                                *)
LEMMA RoundsUp ==
  ASSUME NEW v \in Word, v > 0
  PROVE  \E c \in 0 .. W : /\ v <= Power[c] /\ Power[c] < 2 * v
                           /\ next_pow2(v) = IF c = W THEN 0 ELSE Power[c]
<1>. DEFINE bits == Bits(v - 1)
            spread == Spread(bits)[Rounds]
<1>1. /\ v \in Nat /\ v - 1 \in Nat /\ v - 1 < Power[W] /\ v # 0
      /\ bits \in SUBSET (0 .. W - 1)
      /\ \A i \in 0 .. W - 1 : i \in bits <=> Bit(v - 1, i)
      /\ Rounds \in Nat /\ W <= Power[Rounds] /\ Power[Rounds] \in Nat
  BY BitsAre, PowerDef, WidthAssumption
<1>2. spread = {i \in 0 .. W - 1 : \E d \in 0 .. Power[Rounds] - 1 : i + d \in bits}
  BY <1>1, Spreads
<1>. HIDE DEF bits, spread
<1>3. \E c \in 0 .. W : /\ v <= Power[c] /\ Power[c] < 2 * v
                        /\ \A i \in 0 .. W - 1 : i \in spread <=> i < c
  <2>1. CASE v = 1
    <3>1. \A i \in 0 .. W - 1 : ~Bit(v - 1, i)
      BY <2>1, <1>1, NoHigherBit, PowerDef
    <3>2. bits = {}
      BY <1>1, <3>1
    <3>3. spread = {} /\ 0 \in 0 .. W /\ \A i \in 0 .. W - 1 : ~(i < 0)
      BY <1>2, <3>2, BitsAre
    <3>4. v <= Power[0] /\ Power[0] < 2 * v
      BY <2>1, PowerDef
    <3>. QED BY <3>3, <3>4
  <2>2. CASE v # 1
    <3>1. v - 1 > 0
      BY <1>1, <2>2
    <3>2. PICK k \in Nat : Power[k] <= v - 1 /\ v - 1 < Power[k + 1]
      BY <1>1, <3>1, PowerBelow
    <3>3. Bit(v - 1, k) /\ \A j \in Nat : j > k => ~Bit(v - 1, j)
      BY <1>1, <3>2, HighestBit
    <3>4. k < W /\ k \in 0 .. W - 1 /\ k + 1 \in 0 .. W
      <4>1. Power[k] < Power[W]
        BY <1>1, <3>2, PowerDef, BitsAre
      <4>2. k < W
        BY <4>1, BitsAre, PowerOrder
      <4>. QED BY <4>2, BitsAre
    <3>5. k \in bits /\ \A j \in bits : j \in Nat /\ j <= k
      BY <1>1, <3>3, <3>4, BitsAre
    <3>6. ASSUME NEW i \in 0 .. W - 1 PROVE i \in spread <=> i < k + 1
      <4>0. i \in Nat
        BY BitsAre
      <4>1. CASE i < k + 1
        <5>1. k - i \in 0 .. Power[Rounds] - 1 /\ i + (k - i) = k
          BY <1>1, <3>4, <4>0, <4>1, BitsAre
        <5>. QED BY <1>2, <3>5, <4>1, <5>1
      <4>2. CASE ~(i < k + 1)
        <5>1. ASSUME NEW d \in 0 .. Power[Rounds] - 1, i + d \in bits PROVE FALSE
          <6>1. d \in Nat /\ i + d <= k
            BY <1>1, <3>5, <5>1
          <6>. QED BY <4>0, <4>2, <6>1
        <5>. QED BY <1>2, <4>2, <5>1
      <4>. QED BY <4>1, <4>2
    <3>7. v <= Power[k + 1] /\ Power[k + 1] < 2 * v
      BY <1>1, <3>2, PowerDef
    <3>. QED BY <3>4, <3>6, <3>7
  <2>. QED BY <2>1, <2>2
<1>4. PICK c \in 0 .. W : /\ v <= Power[c] /\ Power[c] < 2 * v
                          /\ \A i \in 0 .. W - 1 : i \in spread <=> i < c
  BY <1>3
<1>5. c \in Nat /\ c <= W /\ Power[c] \in Nat /\ Power[c] > 0 /\ Power[c] <= Power[W]
      /\ (c # W => Power[c] < Power[W])
  BY BitsAre, PowerDef, PowerOrder
<1>6. WordOf(spread) = Power[c] - 1
  <2>1. Power[c] - 1 \in Word
    BY <1>5, BitsAre
  <2>2. \A i \in 0 .. W - 1 : Bit(Power[c] - 1, i) <=> i < c
    BY <1>5, AllLowBits, BitsAre
  <2>3. \A i : i \in spread <=> i \in Bits(Power[c] - 1)
    BY <1>2, <1>4, <2>2, BitsAre
  <2>. QED BY <2>1, <2>3, WordOfBits
<1>7. next_pow2(v) = ((Power[c] - 1) + 1) % Power[W]
  BY <1>1, <1>6 DEF next_pow2, spread, bits
<1>8. ((Power[c] - 1) + 1) % Power[W] = IF c = W THEN 0 ELSE Power[c]
  <2>1. (Power[c] - 1) + 1 = Power[c]
    BY <1>5
  <2>2. CASE c = W
    <3>1. (1 * Power[W] + 0) % Power[W] = 0
      BY BitsAre, RemainderUnique
    <3>2. 1 * Power[W] + 0 = Power[W]
      BY BitsAre
    <3>. QED BY <2>1, <2>2, <3>1, <3>2
  <2>3. CASE c # W
    <3>1. (0 * Power[W] + Power[c]) % Power[W] = Power[c]
      BY <1>5, <2>3, BitsAre, RemainderUnique
    <3>2. 0 * Power[W] + Power[c] = Power[c]
      BY <1>5, BitsAre
    <3>. QED BY <2>1, <2>3, <3>1, <3>2
  <2>. QED BY <2>2, <2>3
<1>. QED BY <1>4, <1>7, <1>8

(* The sizes of the blocks of a tree.                                      *)
LEMMA BlockSizes ==
  ASSUME NEW a \in 0 .. W - 1, NEW b \in 0 .. a, Tree(a, b), NEW lev \in 0 .. a - b
  PROVE  /\ a \in Nat /\ b \in Nat /\ a < W /\ b <= a /\ a - lev \in Nat
         /\ get_block_size(lev) = Power[a - lev]
<1>1. /\ a \in Nat /\ b \in Nat /\ lev \in Nat /\ a < W /\ b <= a
      /\ a - lev \in Nat /\ a - b - lev \in Nat /\ a - lev = b + (a - b - lev)
      /\ (a - b + 1) - 1 - lev = a - b - lev /\ a - lev < W
  BY BitsAre
<1>2. Power[a - lev] = Power[b] * Power[a - b - lev]
  BY <1>1, PowerSum
<1>3. Power[a - lev] \in Nat /\ Power[a - lev] < Power[W]
  BY <1>1, PowerDef, PowerOrder, BitsAre
<1>4. Power[a - lev] % Power[W] = Power[a - lev]
  BY <1>3, BitsAre
<1>. QED BY <1>1, <1>2, <1>4 DEF get_block_size, Tree

(* get_block_level finds the level of every size a tree has.               *)
LEMMA LevelOfSize ==
  ASSUME NEW a \in 0 .. W - 1, NEW b \in 0 .. a, Tree(a, b), NEW c \in 0 .. W - 1
  PROVE  get_block_level(Power[c]) = IF b <= c /\ c <= a THEN a - c ELSE None
<1>1. /\ a \in Nat /\ b \in Nat /\ c \in Nat /\ minb = Power[b]
      /\ num_of_levels - 1 = a - b
  BY BitsAre DEF Tree
<1>2. Power[c] < minb <=> c < b
  BY <1>1, PowerOrder
<1>3. OneBit(Power[c])
  <2>1. Power[c] \in Word /\ Power[c] # 0
    BY <1>1, PowerOrder, PowerDef, BitsAre
  <2>2. Power[c] \in PowersOfTwo
    BY DEF PowersOfTwo
  <2>. QED BY <2>1, <2>2, OneBitPower
<1>. DEFINE shifts == CHOOSE f : f = [s \in Nat |-> IF s > minb THEN 1 + f[s \div 2] ELSE 0]
<1>4. shifts[Power[c]] = IF c <= b THEN 0 ELSE c - b
  BY <1>1, CountsShifts
<1>5. get_block_level(Power[c]) =
        IF Power[c] < minb \/ ~OneBit(Power[c]) \/ shifts[Power[c]] > num_of_levels - 1
        THEN None ELSE (num_of_levels - 1) - shifts[Power[c]]
  BY DEF get_block_level
<1>. HIDE DEF shifts
<1>6. CASE c < b
  BY <1>1, <1>2, <1>5, <1>6
<1>7. CASE b <= c
  <2>1. shifts[Power[c]] = c - b
    BY <1>1, <1>4, <1>7
  <2>2. get_block_level(Power[c]) = IF c - b > a - b THEN None ELSE (a - b) - (c - b)
    BY <1>1, <1>2, <1>3, <1>5, <1>7, <2>1
  <2>3. (c - b > a - b <=> ~(c <= a)) /\ (a - b) - (c - b) = a - c
    BY <1>1
  <2>. QED BY <1>7, <2>2, <2>3
<1>. QED BY <1>1, <1>6, <1>7

(* The level computed for a request serves it, and none is computed if     *)
(* none does.                                                              *)
LEMMA RequestServed ==
  ASSUME NEW a \in 0 .. W - 1, NEW b \in 0 .. a, Tree(a, b), NEW size \in Word
  PROVE  LET found == IF size = 0 THEN None ELSE get_block_level(next_pow2(size))
         IN  /\ found \in (0 .. W - 1) \cup {None}
             /\ \A lev \in 0 .. a - b :
                  lev = found <=> /\ size <= get_block_size(lev)
                                  /\ get_block_size(lev) < 2 * size
<1>. DEFINE found == IF size = 0 THEN None ELSE get_block_level(next_pow2(size))
<1>1. /\ size \in Nat /\ a \in Nat /\ b \in Nat /\ a < W /\ b <= a
      /\ \A lev \in 0 .. a - b :
           lev \in Nat /\ lev # None /\ a - lev \in Nat /\ b <= a - lev /\ a - lev <= a
  BY BitsAre DEF None
<1>2. \A lev \in 0 .. a - b : get_block_size(lev) = Power[a - lev]
  BY BlockSizes
<1>3. CASE size = 0
  <2>1. \A lev \in 0 .. a - b : ~(get_block_size(lev) < 2 * size)
    BY <1>1, <1>2, <1>3, PowerDef
  <2>. QED BY <1>1, <1>3, <2>1
<1>4. CASE size # 0
  <2>1. PICK c \in 0 .. W : /\ size <= Power[c] /\ Power[c] < 2 * size
                            /\ next_pow2(size) = IF c = W THEN 0 ELSE Power[c]
    BY <1>1, <1>4, RoundsUp
  <2>2. c \in Nat /\ Power[c] \in Nat
    BY PowerDef, BitsAre
  <2>3. found = IF b <= c /\ c <= a THEN a - c ELSE None
    <3>1. CASE c = W
      <4>1. 0 < minb
        BY <1>1, PowerDef DEF Tree
      <4>2. get_block_level(0) = None
        BY <4>1 DEF get_block_level
      <4>. QED BY <1>1, <1>4, <2>1, <3>1, <4>2
    <3>2. CASE c # W
      <4>1. c \in 0 .. W - 1
        BY <3>2, BitsAre
      <4>. QED BY <1>4, <2>1, <3>2, <4>1, LevelOfSize
    <3>. QED BY <3>1, <3>2
  <2>. HIDE DEF found
  <2>4. found \in (0 .. W - 1) \cup {None}
    BY <1>1, <2>2, <2>3, BitsAre
  <2>5. ASSUME NEW lev \in 0 .. a - b
        PROVE  a - lev = c <=> /\ size <= get_block_size(lev)
                               /\ get_block_size(lev) < 2 * size
    <3>. DEFINE e == a - lev
    <3>1. e \in Nat /\ Power[e] \in Nat /\ get_block_size(lev) = Power[e]
      BY <1>1, <1>2, PowerDef
    <3>. HIDE DEF e
    <3>2. CASE e = c
      BY <2>1, <3>1, <3>2 DEF e
    <3>3. CASE e < c
      <4>1. 2 * Power[e] <= Power[c]
        BY <2>2, <3>1, <3>3, PowerGrows
      <4>2. ~(size <= Power[e])
        BY <1>1, <2>1, <2>2, <3>1, <4>1
      <4>. QED BY <2>2, <3>1, <3>3, <4>2 DEF e
    <3>4. CASE c < e
      <4>1. 2 * Power[c] <= Power[e]
        BY <2>2, <3>1, <3>4, PowerGrows
      <4>2. ~(Power[e] < 2 * size)
        BY <1>1, <2>1, <2>2, <3>1, <4>1
      <4>. QED BY <2>2, <3>1, <3>4, <4>2 DEF e
    <3>. QED BY <2>2, <3>1, <3>2, <3>3, <3>4
  <2>6. ASSUME NEW lev \in 0 .. a - b
        PROVE  lev = found <=> a - lev = c
    BY <1>1, <2>2, <2>3
  <2>. QED BY <2>4, <2>5, <2>6 DEF found
<1>. QED BY <1>3, <1>4

-----------------------------------------------------------------------------
(* The blocks of a tree, their slots and their buddies.                    *)

(* Level lev has 2^lev blocks.                                             *)
LEMMA NodesOfTree ==
  ASSUME NEW a \in 0 .. W - 1, NEW b \in 0 .. a, Tree(a, b)
  PROVE  \A n : n \in Nodes <=>
           \E lev \in 0 .. a - b : \E i \in 0 .. Power[lev] - 1 :
             n = <<lev, i * Power[a - lev]>>
<1>1. /\ num_of_levels - 1 = a - b /\ total = Power[a] /\ a \in Nat /\ b \in Nat
      /\ a - b \in Nat
      /\ \A lev \in 0 .. a - b : get_block_size(lev) = Power[a - lev]
  BY BitsAre, BlockSizes DEF Tree
<1>2. ASSUME NEW lev \in 0 .. a - b, NEW i \in Nat
      PROVE  /\ i * Power[a - lev] \in 0 .. Power[a] - 1 <=> i \in 0 .. Power[lev] - 1
             /\ i \in 0 .. Power[lev] - 1 => i \in 0 .. Power[a - b] - 1
  <2>1. lev \in Nat /\ a - lev \in Nat /\ a = lev + (a - lev) /\ lev <= a - b
    BY <1>1
  <2>. DEFINE P == Power[lev]
              S == Power[a - lev]
  <2>2. Power[a] = P * S /\ P \in Nat /\ S \in Nat /\ P > 0 /\ S > 0
    BY <1>1, <2>1, PowerSum
  <2>3. P <= Power[a - b] /\ Power[a - b] \in Nat
    BY <1>1, <2>1, PowerOrder, PowerDef
  <2>. HIDE DEF P, S
  <2>4. CASE i < P
    <3>1. i + 1 \in Nat /\ i + 1 <= P
      BY <2>2, <2>4
    <3>2. (i + 1) * S <= P * S /\ (i + 1) * S = i * S + S /\ i * S \in Nat /\ P * S \in Nat
      BY <2>2, <3>1, TimesMonotone
    <3>3. i * S \in 0 .. Power[a] - 1
      BY <2>2, <3>2
    <3>. QED BY <2>2, <2>3, <2>4, <3>3 DEF P, S
  <2>5. CASE ~(i < P)
    <3>1. P * S <= i * S /\ P * S \in Nat /\ i * S \in Nat
      BY <2>2, <2>5, TimesMonotone
    <3>2. i * S \notin 0 .. Power[a] - 1
      BY <2>2, <3>1
    <3>. QED BY <2>2, <2>5, <3>2 DEF P, S
  <2>. QED BY <2>4, <2>5
<1>3. ASSUME NEW n, n \in Nodes
      PROVE  \E lev \in 0 .. a - b : \E i \in 0 .. Power[lev] - 1 :
               n = <<lev, i * Power[a - lev]>>
  <2>1. PICK lev \in 0 .. a - b, i \in 0 .. Power[a - b] - 1 :
          n = <<lev, i * get_block_size(lev)>> /\ n[2] \in 0 .. Power[a] - 1
    BY <1>1, <1>3 DEF Nodes
  <2>2. n = <<lev, i * Power[a - lev]>> /\ i * Power[a - lev] \in 0 .. Power[a] - 1
    BY <1>1, <2>1
  <2>3. i \in Nat
    BY <1>1, PowerDef
  <2>4. i \in 0 .. Power[lev] - 1
    BY <1>2, <2>2, <2>3
  <2>. QED BY <2>2, <2>4
<1>4. ASSUME NEW lev \in 0 .. a - b, NEW i \in 0 .. Power[lev] - 1
      PROVE  <<lev, i * Power[a - lev]>> \in Nodes
  <2>1. i \in Nat
    BY <1>1, PowerDef
  <2>2. i * Power[a - lev] \in 0 .. Power[a] - 1 /\ i \in 0 .. Power[a - b] - 1
    BY <1>2, <2>1
  <2>3. <<lev, i * Power[a - lev]>> = <<lev, i * get_block_size(lev)>>
    BY <1>1
  <2>. QED BY <1>1, <2>2, <2>3 DEF Nodes
<1>. QED BY <1>3, <1>4

(* The blocks of a level fill the slots from 2^lev - 1 on in order.        *)
LEMMA SlotOfNode ==
  ASSUME NEW a \in 0 .. W - 1, NEW b \in 0 .. a, Tree(a, b),
         NEW lev \in 0 .. a - b, NEW i \in 0 .. Power[lev] - 1
  PROVE  /\ SlotOf(<<lev, i * Power[a - lev]>>) = Power[lev] - 1 + i
         /\ lev \in Nat /\ i \in Nat /\ Power[lev] \in Nat /\ i < Power[lev]
         /\ Power[lev] > 0
<1>1. lev \in Nat /\ i \in Nat /\ Power[lev] \in Nat /\ i < Power[lev] /\ Power[lev] > 0
  BY BitsAre, PowerDef
<1>2. get_block_size(lev) = Power[a - lev] /\ a - lev \in Nat
  BY BlockSizes
<1>3. Power[a - lev] \in Nat /\ Power[a - lev] > 0
  BY <1>2, PowerDef
<1>4. (i * Power[a - lev] + 0) \div Power[a - lev] = i
  BY <1>1, <1>3, RemainderUnique
<1>5. i * Power[a - lev] + 0 = i * Power[a - lev]
  BY <1>1, <1>3
<1>. QED BY <1>1, <1>2, <1>4, <1>5 DEF SlotOf, calc_buddy_allocator_slot

(* The slot formula numbers the blocks without gap or repetition.          *)
LEMMA SlotsNumbered ==
  ASSUME NEW a \in 0 .. W - 1, NEW b \in 0 .. a, Tree(a, b)
  PROVE  /\ {SlotOf(n) : n \in Nodes} = 0 .. max_nodes - 1
         /\ Cardinality(Nodes) = max_nodes
<1>. DEFINE L == a - b + 1
            At(lev, i) == <<lev, i * Power[a - lev]>>
<1>1. /\ a \in Nat /\ b \in Nat /\ b <= a /\ L \in Nat /\ a - b \in Nat
      /\ max_nodes = Power[L] - 1 /\ Power[L] \in Nat /\ Power[L] > 0
  <2>1. a \in Nat /\ b \in Nat /\ b <= a /\ L \in Nat /\ a - b \in Nat
    BY BitsAre
  <2>. QED BY <2>1, PowerDef DEF Tree
<1>2. \A n : n \in Nodes <=>
        \E lev \in 0 .. a - b : \E i \in 0 .. Power[lev] - 1 : n = At(lev, i)
  BY NodesOfTree
<1>3. \A lev \in 0 .. a - b : \A i \in 0 .. Power[lev] - 1 :
        /\ SlotOf(At(lev, i)) = Power[lev] - 1 + i
        /\ lev \in Nat /\ i \in Nat /\ Power[lev] \in Nat /\ i < Power[lev]
        /\ Power[lev] > 0
  BY SlotOfNode
<1>. HIDE DEF At
<1>4. ASSUME NEW n \in Nodes PROVE SlotOf(n) \in 0 .. max_nodes - 1
  <2>1. PICK lev \in 0 .. a - b : \E i \in 0 .. Power[lev] - 1 : n = At(lev, i)
    BY <1>2
  <2>2. PICK i \in 0 .. Power[lev] - 1 : n = At(lev, i)
    BY <2>1
  <2>3. SlotOf(n) = Power[lev] - 1 + i /\ lev \in Nat /\ i \in Nat
        /\ Power[lev] \in Nat /\ i < Power[lev] /\ Power[lev] > 0
    BY <1>3, <2>2
  <2>4. lev + 1 <= L
    BY <1>1, <2>3
  <2>5. Power[lev + 1] <= Power[L] /\ Power[lev + 1] = 2 * Power[lev]
    BY <1>1, <2>3, <2>4, PowerOrder, PowerDef
  <2>. HIDE DEF L
  <2>. QED BY <1>1, <2>3, <2>5
<1>5. ASSUME NEW x \in 0 .. max_nodes - 1 PROVE \E n \in Nodes : SlotOf(n) = x
  <2>1. x \in Nat /\ x + 1 \in Nat /\ x + 1 > 0 /\ x + 1 < Power[L]
    BY <1>1
  <2>2. PICK lev \in Nat : Power[lev] <= x + 1 /\ x + 1 < Power[lev + 1]
    BY <2>1, PowerBelow
  <2>3. Power[lev] \in Nat /\ Power[lev + 1] = 2 * Power[lev]
    BY PowerDef
  <2>4. lev < L
    <3>1. Power[lev] < Power[L]
      BY <1>1, <2>1, <2>2, <2>3
    <3>. QED BY <1>1, <3>1, PowerOrder
  <2>5. lev \in 0 .. a - b
    BY <1>1, <2>4
  <2>6. (x + 1) - Power[lev] \in 0 .. Power[lev] - 1
    BY <2>1, <2>2, <2>3
  <2>7. At(lev, (x + 1) - Power[lev]) \in Nodes
    BY <1>2, <2>5, <2>6
  <2>8. SlotOf(At(lev, (x + 1) - Power[lev])) = Power[lev] - 1 + ((x + 1) - Power[lev])
    BY <1>3, <2>5, <2>6
  <2>9. Power[lev] - 1 + ((x + 1) - Power[lev]) = x
    BY <2>1, <2>3
  <2>. QED BY <2>7, <2>8, <2>9
<1>6. ASSUME NEW n \in Nodes, NEW m \in Nodes, SlotOf(n) = SlotOf(m) PROVE n = m
  <2>1. PICK l \in 0 .. a - b : \E i \in 0 .. Power[l] - 1 : n = At(l, i)
    BY <1>2
  <2>2. PICK i \in 0 .. Power[l] - 1 : n = At(l, i)
    BY <2>1
  <2>3. PICK k \in 0 .. a - b : \E j \in 0 .. Power[k] - 1 : m = At(k, j)
    BY <1>2
  <2>4. PICK j \in 0 .. Power[k] - 1 : m = At(k, j)
    BY <2>3
  <2>5. SlotOf(n) = Power[l] - 1 + i /\ l \in Nat /\ i \in Nat
        /\ Power[l] \in Nat /\ i < Power[l]
    BY <1>3, <2>2
  <2>6. SlotOf(m) = Power[k] - 1 + j /\ k \in Nat /\ j \in Nat
        /\ Power[k] \in Nat /\ j < Power[k]
    BY <1>3, <2>4
  <2>7. Power[l + 1] = 2 * Power[l] /\ Power[k + 1] = 2 * Power[k]
    BY <2>5, <2>6, PowerDef
  <2>8. Power[l] + i \in Nat /\ Power[l] + i = Power[k] + j
    <3>1. Power[l] - 1 + i = Power[k] - 1 + j
      BY <1>6, <2>5, <2>6
    <3>. QED BY ONLY <2>5, <2>6, <3>1
  <2>9. l = k
    <3>1. /\ Power[l] <= Power[l] + i /\ Power[l] + i < Power[l + 1]
          /\ Power[k] <= Power[l] + i /\ Power[l] + i < Power[k + 1]
      BY <2>5, <2>6, <2>7, <2>8
    <3>. QED BY <2>5, <2>6, <2>8, <3>1, PowerBelowUnique
  <2>10. i = j
    BY <2>5, <2>6, <2>8, <2>9
  <2>. QED BY <2>2, <2>4, <2>9, <2>10
<1>7. Cardinality(Nodes) = max_nodes
  <2>. DEFINE R == 0 .. max_nodes - 1
              slot == [n \in Nodes |-> SlotOf(n)]
  <2>1. slot \in Bijection(Nodes, R)
    <3>1. slot \in [Nodes -> R]
      BY <1>4
    <3>2. \A n, m \in Nodes : slot[n] = slot[m] => n = m
      BY <1>6
    <3>3. \A x \in R : \E n \in Nodes : slot[n] = x
      BY <1>5
    <3>. HIDE DEF slot, R
    <3>. QED BY <3>1, <3>2, <3>3, Fun_IsBij
  <2>2. ExistsBijection(R, Nodes)
    <3>1. ExistsBijection(Nodes, R)
      BY <2>1 DEF ExistsBijection
    <3>. QED BY <3>1, Fun_ExistsBijSymmetric
  <2>3. IsFiniteSet(R) /\ Cardinality(R) = max_nodes
    <3>1. 0 \in Int /\ max_nodes - 1 \in Int
      BY <1>1
    <3>2. IsFiniteSet(R) /\ Cardinality(R) = IF 0 > max_nodes - 1 THEN 0 ELSE (max_nodes - 1) - 0 + 1
      BY <3>1, FS_Interval
    <3>. HIDE DEF R
    <3>. QED BY <1>1, <3>2
  <2>. HIDE DEF R
  <2>. QED BY <2>2, <2>3, FS_Bijection
<1>8. {SlotOf(n) : n \in Nodes} = 0 .. max_nodes - 1
  BY <1>4, <1>5
<1>. QED BY <1>7, <1>8

(* offset ^ size flips the one bit of size.                                *)
LEMMA FlipBit ==
  ASSUME NEW k \in 0 .. W - 1, NEW h \in Nat,
         (2 * h) * Power[k] \in Word, (2 * h + 1) * Power[k] \in Word
  PROVE  /\ get_buddy_offset((2 * h) * Power[k], Power[k]) = (2 * h + 1) * Power[k]
         /\ get_buddy_offset((2 * h + 1) * Power[k], Power[k]) = (2 * h) * Power[k]
<1>. DEFINE p == (2 * h) * Power[k]
            q == (2 * h + 1) * Power[k]
<1>1. k \in Nat /\ 2 * h \in Nat /\ 2 * h + 1 \in Nat /\ Power[k] \in Nat
      /\ (2 * h) \div 2 = h /\ (2 * h + 1) \div 2 = h
      /\ (2 * h) % 2 = 0 /\ (2 * h + 1) % 2 = 1
  BY BitsAre, PowerDef
<1>2. ASSUME NEW j \in 0 .. W - 1
      PROVE  /\ Bit(Power[k], j) <=> j = k
             /\ Bit(p, j) <=> j > k /\ Bit(h, j - k - 1)
             /\ Bit(q, j) <=> j = k \/ (j > k /\ Bit(h, j - k - 1))
  <2>1. j \in Nat
    BY BitsAre
  <2>2. /\ Bit(1 * Power[k], j) <=> j >= k /\ Bit(1, j - k)
        /\ Bit(p, j) <=> j >= k /\ Bit(2 * h, j - k)
        /\ Bit(q, j) <=> j >= k /\ Bit(2 * h + 1, j - k)
    BY <1>1, <2>1, BitOfMultiple
  <2>3. 1 * Power[k] = Power[k]
    BY <1>1
  <2>. HIDE DEF p, q
  <2>4. CASE j < k
    BY <1>1, <2>1, <2>2, <2>3, <2>4
  <2>5. CASE j = k
    <3>1. j - k = 0 /\ 1 % 2 = 1 /\ 0 \in Nat /\ 1 \in Nat
      BY <1>1, <2>5
    <3>2. Bit(1, 0) /\ ~Bit(2 * h, 0) /\ Bit(2 * h + 1, 0)
      BY <1>1, <3>1, BitOfHalf
    <3>. QED BY <1>1, <2>1, <2>2, <2>3, <2>5, <3>1, <3>2
  <2>6. CASE j > k
    <3>. DEFINE t == j - k - 1
    <3>1. t \in Nat /\ j - k = t + 1
      BY <1>1, <2>1, <2>6
    <3>. HIDE DEF t
    <3>2. Bit(2 * h, t + 1) <=> Bit(h, t)
      BY <1>1, <3>1, BitOfHalf
    <3>3. Bit(2 * h + 1, t + 1) <=> Bit(h, t)
      BY <1>1, <3>1, BitOfHalf
    <3>4. ~Bit(1, t + 1)
      <4>1. 1 < Power[1] /\ 1 \in Nat /\ t + 1 \in Nat /\ t + 1 >= 1
        BY <3>1, PowerOne
      <4>. QED BY <4>1, NoHigherBit
    <3>. QED BY <1>1, <2>1, <2>2, <2>3, <2>6, <3>1, <3>2, <3>3, <3>4 DEF t
  <2>. QED BY <1>1, <2>1, <2>4, <2>5, <2>6
<1>3. \A j : j \in (Bits(p) \ Bits(Power[k])) \cup (Bits(Power[k]) \ Bits(p)) <=> j \in Bits(q)
  <2>1. ASSUME NEW j \in 0 .. W - 1
        PROVE  Bit(q, j) <=> (Bit(p, j) /\ ~Bit(Power[k], j)) \/ (Bit(Power[k], j) /\ ~Bit(p, j))
    <3>1. j \in Nat /\ k \in Nat
      BY BitsAre
    <3>. HIDE DEF p, q
    <3>. QED BY <1>2, <3>1
  <2>. HIDE DEF p, q
  <2>. QED BY <2>1, BitsAre
<1>4. \A j : j \in (Bits(q) \ Bits(Power[k])) \cup (Bits(Power[k]) \ Bits(q)) <=> j \in Bits(p)
  <2>1. ASSUME NEW j \in 0 .. W - 1
        PROVE  Bit(p, j) <=> (Bit(q, j) /\ ~Bit(Power[k], j)) \/ (Bit(Power[k], j) /\ ~Bit(q, j))
    <3>1. j \in Nat /\ k \in Nat
      BY BitsAre
    <3>. HIDE DEF p, q
    <3>. QED BY <1>2, <3>1
  <2>. HIDE DEF p, q
  <2>. QED BY <2>1, BitsAre
<1>5. p \in Word /\ q \in Word
  OBVIOUS
<1>. HIDE DEF p, q
<1>6. get_buddy_offset(p, Power[k]) = q
  BY <1>3, <1>5, WordOfBits DEF get_buddy_offset
<1>7. get_buddy_offset(q, Power[k]) = p
  BY <1>4, <1>5, WordOfBits DEF get_buddy_offset
<1>. QED BY <1>6, <1>7 DEF p, q

(* The buddy computed with offset ^ size is the other half of the block    *)
(* that encloses both.                                                     *)
LEMMA BuddyOfNode ==
  ASSUME NEW a \in 0 .. W - 1, NEW b \in 0 .. a, Tree(a, b), NEW n \in Nodes,
         n[1] > 0
  PROVE  LET size  == get_block_size(n[1])
             buddy == get_buddy_offset(n[2], size)
         IN  /\ <<n[1], buddy>> \in Nodes
             /\ {n[2], buddy} = {(n[2] \div (2 * size)) * 2 * size,
                                 (n[2] \div (2 * size)) * 2 * size + size}
<1>1. \A x : x \in Nodes <=>
        \E lev \in 0 .. a - b : \E i \in 0 .. Power[lev] - 1 :
          x = <<lev, i * Power[a - lev]>>
  BY NodesOfTree
<1>2. PICK lev \in 0 .. a - b : \E i \in 0 .. Power[lev] - 1 : n = <<lev, i * Power[a - lev]>>
  BY <1>1
<1>3. PICK i \in 0 .. Power[lev] - 1 : n = <<lev, i * Power[a - lev]>>
  BY <1>2
<1>. DEFINE k == a - lev
            s == Power[k]
<1>4. /\ lev \in Nat /\ lev > 0 /\ a \in Nat /\ a < W /\ k \in Nat /\ k \in 0 .. W - 1
      /\ a = lev + k
  BY <1>3, BitsAre
<1>5. /\ get_block_size(lev) = s /\ s \in Nat /\ s > 0
      /\ Power[a] = Power[lev] * s /\ Power[a] < Power[W] /\ Power[a] \in Nat
  <2>1. get_block_size(lev) = s
    BY BlockSizes
  <2>2. Power[a] < Power[W] /\ Power[a] \in Nat
    BY <1>4, PowerOrder, PowerDef, BitsAre
  <2>. HIDE DEF k
  <2>3. Power[a] = Power[lev] * s /\ s \in Nat /\ s > 0
    BY <1>4, PowerSum
  <2>. QED BY <2>1, <2>2, <2>3
<1>6. PICK e \in Nat : Power[lev] = 2 * e
  BY <1>4, PowerPred
<1>7. i \in Nat /\ i < 2 * e
  BY <1>6
<1>8. PICK h \in Nat : i = 2 * h \/ i = 2 * h + 1
  BY <1>7, EvenOrOdd
<1>9. 2 * h \in 0 .. Power[lev] - 1 /\ 2 * h + 1 \in 0 .. Power[lev] - 1
  BY <1>6, <1>7, <1>8
<1>10. <<lev, (2 * h) * s>> \in Nodes /\ <<lev, (2 * h + 1) * s>> \in Nodes
  BY <1>1, <1>9
<1>. HIDE DEF k
<1>11. (2 * h) * s \in Word /\ (2 * h + 1) * s \in Word
  <2>1. ASSUME NEW x \in 0 .. Power[lev] - 1 PROVE x * s \in Word
    <3>1. x \in Nat /\ x + 1 \in Nat /\ Power[lev] \in Nat /\ x + 1 <= Power[lev]
      BY <1>6
    <3>2. s \in Nat /\ s > 0
      BY <1>5
    <3>. HIDE DEF s
    <3>3. (x + 1) * s <= Power[lev] * s
      BY ONLY <3>1, <3>2, TimesMonotone
    <3>4. (x + 1) * s = x * s + s /\ x * s \in Nat
      BY ONLY <3>1, <3>2
    <3>5. x * s < Power[W]
      BY <1>5, <3>2, <3>3, <3>4, BitsAre
    <3>. QED BY <3>4, <3>5, BitsAre
  <2>. QED BY <1>9, <2>1
<1>12. /\ get_buddy_offset((2 * h) * s, s) = (2 * h + 1) * s
       /\ get_buddy_offset((2 * h + 1) * s, s) = (2 * h) * s
  BY <1>4, <1>11, FlipBit
<1>. HIDE DEF s
<1>13. /\ ((2 * h) * s) \div (2 * s) = h /\ ((2 * h + 1) * s) \div (2 * s) = h
       /\ h * 2 * s = (2 * h) * s /\ h * 2 * s + s = (2 * h + 1) * s
  <2>1. 2 * s \in Nat /\ 2 * s > 0 /\ s < 2 * s /\ 0 < 2 * s
    BY <1>5
  <2>2. (h * (2 * s) + 0) \div (2 * s) = h /\ (h * (2 * s) + s) \div (2 * s) = h
    BY <1>5, <2>1, RemainderUnique
  <2>3. h * (2 * s) + 0 = (2 * h) * s /\ h * (2 * s) + s = (2 * h + 1) * s
    BY <1>5
  <2>4. h * 2 * s = (2 * h) * s /\ h * 2 * s + s = (2 * h + 1) * s
    BY <1>5
  <2>. QED BY <2>2, <2>3, <2>4
<1>14. n[1] = lev /\ n[2] = i * s /\ get_block_size(n[1]) = s
  BY <1>3, <1>5 DEF s, k
<1>15. CASE i = 2 * h
  <2>1. n[2] = (2 * h) * s /\ get_buddy_offset(n[2], s) = (2 * h + 1) * s
    BY <1>12, <1>14, <1>15
  <2>. QED BY <1>10, <1>13, <1>14, <2>1
<1>16. CASE i = 2 * h + 1
  <2>1. n[2] = (2 * h + 1) * s /\ get_buddy_offset(n[2], s) = (2 * h) * s
    BY <1>12, <1>14, <1>16
  <2>. QED BY <1>10, <1>13, <1>14, <2>1
<1>. QED BY <1>8, <1>15, <1>16

-----------------------------------------------------------------------------
(* The invariant.                                                          *)

(* Nothing has been configured.                                            *)
LEMMA InitInv == Init => IndInv
<1>. SUFFICES ASSUME Init PROVE IndInv
  OBVIOUS
<1>1. 0 \in Word
  BY BitsAre
<1>2. TypeOK
  BY <1>1 DEF Init, TypeOK
<1>. QED BY <1>2 DEF Init, IndInv, Configured, RefusedRightly, HeapInStep,
            NoRequestYet, LevelServes

(* The checks of buddy_alloc_create: what they let pass is a tree, and     *)
(* what they refuse is none.                                               *)
LEMMA ConfigureInv ==
  ASSUME IndInv, NEW t \in CfgValues, NEW m \in CfgValues, Configure(t, m)
  PROVE  IndInv'
<1>. DEFINE accepted == LegalConfig(t, m) /\ calc_num_of_levels(t, m) <= MaxLevels
<1>1. /\ pc = "idle" /\ total' = t /\ minb' = m /\ mem_pool' = FALSE
      /\ request' = None /\ level' = None /\ heap' = heap /\ double_free' = double_free
      /\ IF accepted
         THEN /\ pc' = "allocator"
              /\ num_of_levels' = calc_num_of_levels(t, m)
              /\ max_nodes' = calc_max_nodes(calc_num_of_levels(t, m))
              /\ rc' = "OK"
         ELSE /\ rc' = "EINVAL" /\ pc' = pc
              /\ num_of_levels' = num_of_levels /\ max_nodes' = max_nodes
  BY DEF Configure
<1>2. t \in Word /\ m \in Word /\ t \in Nat /\ m \in Nat
  BY WidthAssumption, BitsAre
<1>3. TypeOK /\ HeapInStep
  BY DEF IndInv
<1>4. HeapInStep' /\ NoRequestYet' /\ LevelServes'
  BY <1>1, <1>3 DEF HeapInStep, NoRequestYet, LevelServes
<1>5. LegalConfig(t, m) <=> t \in PowersOfTwo /\ m \in PowersOfTwo /\ m <= t
  <2>1. ASSUME NEW x \in PowersOfTwo PROVE x # 0
    BY <2>1, PowerDef, BitsAre DEF PowersOfTwo
  <2>2. CASE t = 0 \/ m = 0
    BY <2>1, <2>2 DEF LegalConfig
  <2>3. CASE t # 0 /\ m # 0
    BY <1>2, <2>3, OneBitPower DEF LegalConfig
  <2>. QED BY <2>2, <2>3
<1>6. CASE LegalConfig(t, m)
  <2>1. PICK a \in 0 .. W - 1 : t = Power[a]
    BY <1>5, <1>6 DEF PowersOfTwo
  <2>2. PICK b \in 0 .. W - 1 : m = Power[b]
    BY <1>5, <1>6 DEF PowersOfTwo
  <2>3. a \in Nat /\ b \in Nat /\ b <= a /\ b \in 0 .. a /\ a - b + 1 \in 0 .. W
        /\ a - b + 1 \in Nat /\ a - b + 1 <= W
    <3>1. a \in Nat /\ b \in Nat
      BY BitsAre
    <3>2. b <= a
      BY <1>5, <1>6, <2>1, <2>2, <3>1, PowerOrder
    <3>. QED BY <3>1, <3>2, BitsAre
  <2>4. calc_num_of_levels(t, m) = a - b + 1
    BY <2>1, <2>2, <2>3, CountsLevels
  <2>5. calc_max_nodes(a - b + 1) = Power[a - b + 1] - 1
    BY <2>3, CountsNodes
  <2>6. accepted
    <3>1. W <= MaxLevels /\ MaxLevels \in Nat /\ W \in Nat
      BY WidthAssumption
    <3>. QED BY <1>6, <2>3, <2>4, <3>1
  <2>. HIDE DEF accepted
  <2>7. Tree(a, b)' /\ pc' = "allocator" /\ rc' = "OK"
    BY <1>1, <2>1, <2>2, <2>4, <2>5, <2>6 DEF Tree
  <2>8. Configured'
    BY <2>3, <2>7 DEF Configured
  <2>9. (a - b + 1) \in Word /\ Power[a - b + 1] - 1 \in Word
    <3>1. a - b + 1 < Power[W]
      <4>1. W < Power[W]
        BY PowerAbove, BitsAre
      <4>. QED BY <2>3, <4>1, BitsAre
    <3>2. Power[a - b + 1] <= Power[W] /\ Power[a - b + 1] \in Nat /\ Power[a - b + 1] > 0
      BY <2>3, PowerOrder, PowerDef, BitsAre
    <3>. QED BY <2>3, <3>1, <3>2, BitsAre
  <2>10. TypeOK'
    BY <1>1, <1>2, <1>3, <2>4, <2>5, <2>6, <2>9 DEF TypeOK
  <2>11. RefusedRightly'
    BY <2>7 DEF RefusedRightly
  <2>. QED BY <1>4, <2>8, <2>10, <2>11 DEF IndInv
<1>7. CASE ~LegalConfig(t, m)
  <2>1. TypeOK'
    BY <1>1, <1>2, <1>3, <1>7 DEF TypeOK
  <2>2. Configured'
    BY <1>1, <1>7 DEF Configured
  <2>3. RefusedRightly'
    BY <1>1, <1>5, <1>7 DEF RefusedRightly
  <2>. QED BY <1>4, <2>1, <2>2, <2>3 DEF IndInv
<1>. QED BY <1>6, <1>7

(* The callocs and the releases touch neither geometry nor request.        *)
LEMMA HeapStepInv ==
  ASSUME IndInv, CallocAllocator \/ CallocPool \/ CallocElements \/ Fail
  PROVE  IndInv'
<1>1. UNCHANGED geometry
  BY DEF CallocAllocator, CallocPool, CallocElements, Fail
<1>2. TypeOK /\ Configured /\ RefusedRightly /\ HeapInStep /\ NoRequestYet
  BY DEF IndInv
<1>3. TypeOK'
  BY <1>1, <1>2 DEF TypeOK, geometry, CallocAllocator, CallocPool, CallocElements, Fail
<1>4. Configured'
  BY <1>1, <1>2 DEF Configured, Tree, geometry, CallocAllocator, CallocPool,
     CallocElements, Fail
<1>5. RefusedRightly'
  BY <1>1, <1>2 DEF RefusedRightly, geometry, CallocAllocator, CallocPool,
     CallocElements, Fail
<1>6. HeapInStep'
  BY <1>2 DEF HeapInStep, CallocAllocator, CallocPool, CallocElements, Fail
<1>7. request' = None /\ level' = None
  BY <1>1, <1>2 DEF NoRequestYet, geometry, CallocAllocator, CallocPool,
     CallocElements, Fail
<1>. QED BY <1>3, <1>4, <1>5, <1>6, <1>7 DEF IndInv, NoRequestYet, LevelServes

(* buddy_alloc_destroy gives back what buddy_alloc_create obtained.        *)
LEMMA DestroyInv ==
  ASSUME IndInv, buddy_alloc_destroy
  PROVE  IndInv'
<1>1. TypeOK /\ HeapInStep /\ 0 \in Word
  BY BitsAre DEF IndInv
<1>2. TypeOK'
  BY <1>1 DEF TypeOK, buddy_alloc_destroy
<1>3. HeapInStep'
  BY <1>1 DEF HeapInStep, buddy_alloc_destroy
<1>. QED BY <1>2, <1>3 DEF IndInv, Configured, RefusedRightly, NoRequestYet,
            LevelServes, buddy_alloc_destroy

(* A request changes only its own level and result.                        *)
LEMMA RequestInv ==
  ASSUME IndInv, NEW size \in Word, Request(size)
  PROVE  IndInv'
<1>1. /\ pc = "live" /\ request' = size
      /\ level' = (IF size = 0 THEN None ELSE get_block_level(next_pow2(size)))
      /\ rc' = (IF level' = None THEN "EINVAL" ELSE "OK")
      /\ UNCHANGED <<pc, total, minb, num_of_levels, max_nodes, heap, mem_pool,
                     double_free>>
  BY DEF Request
<1>2. TypeOK /\ Configured /\ HeapInStep
  BY DEF IndInv
<1>3. PICK a \in 0 .. W - 1 : \E b \in 0 .. a : Tree(a, b)
  BY <1>1, <1>2 DEF Configured
<1>4. PICK b \in 0 .. a : Tree(a, b)
  BY <1>3
<1>5. num_of_levels = a - b + 1 /\ num_of_levels - 1 = a - b
  BY <1>4, BitsAre DEF Tree
<1>6. /\ level' \in (0 .. W - 1) \cup {None}
      /\ \A lev \in 0 .. a - b :
           lev = level' <=> /\ size <= get_block_size(lev)
                            /\ get_block_size(lev) < 2 * size
  BY <1>1, <1>4, RequestServed
<1>7. size # None
  BY BitsAre DEF None
<1>8. TypeOK'
  BY <1>1, <1>2, <1>6 DEF TypeOK
<1>9. Configured' /\ HeapInStep' /\ NoRequestYet'
  BY <1>1, <1>2 DEF Configured, Tree, HeapInStep, NoRequestYet
<1>10. RefusedRightly'
  BY <1>1, <1>7 DEF RefusedRightly
<1>11. LevelServes'
  <2>1. \A lev : get_block_size(lev)' = get_block_size(lev)
    BY <1>1 DEF get_block_size
  <2>. QED BY <1>1, <1>5, <1>6, <2>1 DEF LevelServes
<1>. QED BY <1>8, <1>9, <1>10, <1>11 DEF IndInv

(* Every call keeps the invariant.                                         *)
LEMMA NextInv ==
  ASSUME IndInv, [Next]_vars
  PROVE  IndInv'
<1>1. CASE UNCHANGED vars
  BY <1>1 DEF vars, IndInv, TypeOK, Configured, Tree, RefusedRightly, HeapInStep,
     NoRequestYet, LevelServes, get_block_size
<1>2. ASSUME NEW t \in CfgValues, NEW m \in CfgValues, Configure(t, m)
      PROVE  IndInv'
  BY <1>2, ConfigureInv
<1>3. CASE CallocAllocator \/ CallocPool \/ CallocElements \/ Fail
  BY <1>3, HeapStepInv
<1>4. CASE buddy_alloc_destroy
  BY <1>4, DestroyInv
<1>5. ASSUME NEW size \in Word, Request(size)
      PROVE  IndInv'
  BY <1>5, RequestInv
<1>. QED BY <1>1, <1>2, <1>3, <1>4, <1>5 DEF Next

(* Every call, and every failing calloc, keeps the inductive invariant.    *)
THEOREM Invariance == Spec => []IndInv
<1>1. Init => IndInv
  BY InitInv
<1>2. IndInv /\ [Next]_vars => IndInv'
  BY NextInv
<1>. QED BY <1>1, <1>2, PTL DEF Spec

(* All numbers are words, and a level is less than their width.            *)
THEOREM TypeCorrect == Spec => []TypeOK
<1>1. IndInv => TypeOK
  BY DEF IndInv
<1>. QED BY <1>1, Invariance, PTL

(* What buddy_alloc_create accepts is a tree with the pool as root and the *)
(* smallest blocks as leaves, and it refuses no such configuration.        *)
THEOREM GeometryAlwaysExact == Spec => []GeometryExact
<1>1. ASSUME IndInv PROVE GeometryExact
  <2>1. RefusedRightly
    BY <1>1 DEF IndInv
  <2>2. ASSUME pc = "live"
        PROVE  /\ total \in PowersOfTwo /\ minb \in PowersOfTwo
               /\ num_of_levels > 0
               /\ get_block_size(0) = total
               /\ get_block_size(num_of_levels - 1) = minb
               /\ \A lev \in 1 .. num_of_levels - 1 :
                    get_block_size(lev - 1) = 2 * get_block_size(lev)
    <3>1. PICK a \in 0 .. W - 1 : \E b \in 0 .. a : Tree(a, b)
      BY <1>1, <2>2 DEF IndInv, Configured
    <3>2. PICK b \in 0 .. a : Tree(a, b)
      BY <3>1
    <3>3. /\ total = Power[a] /\ minb = Power[b] /\ num_of_levels = a - b + 1
          /\ num_of_levels - 1 = a - b /\ a \in Nat /\ b \in Nat /\ b <= a
          /\ b \in 0 .. W - 1 /\ 0 \in 0 .. a - b /\ a - b \in 0 .. a - b
          /\ num_of_levels > 0
      BY <3>2, BitsAre DEF Tree
    <3>4. \A lev \in 0 .. a - b : get_block_size(lev) = Power[a - lev]
      BY <3>2, BlockSizes
    <3>5. a - 0 = a /\ a - (a - b) = b
      BY <3>3
    <3>6. get_block_size(0) = total /\ get_block_size(num_of_levels - 1) = minb
      BY <3>3, <3>4, <3>5
    <3>7. ASSUME NEW lev \in 1 .. a - b
          PROVE  get_block_size(lev - 1) = 2 * get_block_size(lev)
      <4>1. lev \in 0 .. a - b /\ lev - 1 \in 0 .. a - b /\ a - lev \in Nat
            /\ a - (lev - 1) = (a - lev) + 1
        BY <3>3
      <4>2. Power[(a - lev) + 1] = 2 * Power[a - lev]
        BY <4>1, PowerDef
      <4>. QED BY <3>4, <4>1, <4>2
    <3>. QED BY <3>3, <3>6, <3>7 DEF PowersOfTwo
  <2>. QED BY <2>1, <2>2 DEF GeometryExact
<1>2. IndInv => GeometryExact
  BY <1>1
<1>. QED BY <1>2, Invariance, PTL

(* Each block of the tree has a slot of its own and no slot is left over.  *)
THEOREM SlotsAlwaysOneToOne == Spec => []SlotsOneToOne
<1>1. ASSUME IndInv, pc = "live"
      PROVE  /\ {SlotOf(n) : n \in Nodes} = 0 .. max_nodes - 1
             /\ Cardinality(Nodes) = max_nodes
  <2>1. PICK a \in 0 .. W - 1 : \E b \in 0 .. a : Tree(a, b)
    BY <1>1 DEF IndInv, Configured
  <2>2. PICK b \in 0 .. a : Tree(a, b)
    BY <2>1
  <2>. QED BY <2>2, SlotsNumbered
<1>2. IndInv => SlotsOneToOne
  BY <1>1 DEF SlotsOneToOne
<1>. QED BY <1>2, Invariance, PTL

(* offset ^ size finds the buddy of every block below the root.            *)
THEOREM BuddiesAlwaysPair == Spec => []BuddiesPair
<1>1. ASSUME IndInv, pc = "live", NEW n \in Nodes, n[1] > 0
      PROVE  LET size  == get_block_size(n[1])
                 buddy == get_buddy_offset(n[2], size)
             IN  /\ <<n[1], buddy>> \in Nodes
                 /\ {n[2], buddy} = {(n[2] \div (2 * size)) * 2 * size,
                                     (n[2] \div (2 * size)) * 2 * size + size}
  <2>1. PICK a \in 0 .. W - 1 : \E b \in 0 .. a : Tree(a, b)
    BY <1>1 DEF IndInv, Configured
  <2>2. PICK b \in 0 .. a : Tree(a, b)
    BY <2>1
  <2>. QED BY <1>1, <2>2, BuddyOfNode
<1>2. IndInv => BuddiesPair
  BY <1>1 DEF BuddiesPair
<1>. QED BY <1>2, Invariance, PTL

(* A request gets the level of the smallest block that holds it, or none   *)
(* if no level has such blocks, next_pow2 wrapping around included.        *)
THEOREM LevelAlwaysServes == Spec => []LevelServes
<1>1. IndInv => LevelServes
  BY DEF IndInv
<1>. QED BY <1>1, Invariance, PTL

(* Whichever calloc fails, buddy_alloc_create gives everything back.       *)
THEOREM NothingEverLeaked == Spec => []NothingLeaked
<1>1. IndInv => NothingLeaked
  BY DEF IndInv, HeapInStep, NothingLeaked
<1>. QED BY <1>1, Invariance, PTL

=============================================================================
