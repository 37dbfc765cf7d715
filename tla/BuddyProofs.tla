----------------------------- MODULE BuddyProofs ----------------------------
(***************************************************************************)
(* The safety properties of module BuddyAllocator, for every number of     *)
(* levels, every smallest block and every set of requests.  Lemmas about   *)
(* the geometry of the buddy tree, which take offsets to offsets, come     *)
(* first; then the free lists, one lemma for each call, and the theorems.  *)
(***************************************************************************)
EXTENDS BuddyAllocator, NaturalsInduction, WellFoundedInduction,
        FunctionTheorems, TLAPS

(* The order that induction on naturals rests on.                          *)
LessThan == {ss \in Nat \X Nat : ss[1] < ss[2]}

(* A non-empty set of naturals has a least element.                        *)
LEMMA LeastElement ==
  ASSUME NEW T \in SUBSET Nat, T # {}
  PROVE  \E x \in T : \A y \in T : x <= y
<1>1. IsWellFoundedOn(LessThan, Nat)
  BY NatLessThanWellFounded, Zenon DEF OpToRel, LessThan
<1>2. PICK x \in T : \A y \in T : ~ (<<y, x>> \in LessThan)
  BY <1>1, WFMin
<1>3. ASSUME NEW y \in T PROVE x <= y
  <2>1. <<y, x>> \notin LessThan BY <1>2
  <2>2. x \in Nat /\ y \in Nat OBVIOUS
  <2>. QED BY <2>1, <2>2 DEF LessThan
<1>. QED BY <1>3

-----------------------------------------------------------------------------
(* Division.                                                               *)

(* The quotient is the number of whole blocks below an offset.             *)
LEMMA Quotient ==
  ASSUME NEW o \in Nat, NEW s \in Nat, s > 0
  PROVE  /\ o \div s \in Nat
         /\ (o \div s) * s \in Nat
         /\ (o \div s) * s <= o
         /\ o < (o \div s) * s + s
OBVIOUS

(* The quotient is determined by the interval that the offset lies in.     *)
LEMMA QuotientUnique ==
  ASSUME NEW o \in Nat, NEW s \in Nat, s > 0, NEW k \in Nat,
         k * s <= o, o < k * s + s
  PROVE  o \div s = k
OBVIOUS

(* A multiple of s leaves no rest.                                         *)
LEMMA MultipleMod ==
  ASSUME NEW s \in Nat, s > 0, NEW k \in Nat
  PROVE  (k * s) % s = 0 /\ (k * s) \div s = k
OBVIOUS

(* What leaves no rest is a multiple of s.                                 *)
LEMMA ModMultiple ==
  ASSUME NEW s \in Nat, s > 0, NEW o \in Nat, o % s = 0
  PROVE  o = (o \div s) * s
OBVIOUS

(* A multiple of s that is below another one is below it by s at least.    *)
LEMMA NextMultiple ==
  ASSUME NEW s \in Nat, s > 0, NEW j \in Nat, NEW k \in Nat, j * s < k * s
  PROVE  j + 1 <= k /\ j * s + s <= k * s
<1>1. j < k
  OBVIOUS
<1>2. PICK d \in Nat : k = j + 1 + d
  <2>1. k - j - 1 \in Nat BY <1>1
  <2>. QED BY <2>1
<1>3. k * s = j * s + s + d * s
  BY <1>2
<1>4. d * s \in Nat
  OBVIOUS
<1>5. j * s \in Nat OBVIOUS
<1>. QED BY <1>1, <1>3, <1>4, <1>5

-----------------------------------------------------------------------------
(* Sizes.                                                                  *)

(* Sizes are positive and halve from a level to the next.                  *)
LEMMA Sizes ==
  ASSUME NEW l \in Levels
  PROVE  /\ l \in Nat
         /\ BlockSize[l] \in Nat /\ BlockSize[l] > 0
         /\ l > 0 => l - 1 \in Levels /\ BlockSize[l - 1] = 2 * BlockSize[l]
BY SizeAssumption DEF Levels

(* The size of a block is a multiple of the size of every smaller one.     *)
LEMMA SizeDivides ==
  ASSUME NEW k \in Levels, NEW l \in Levels, k <= l
  PROVE  \E d \in Nat : d > 0 /\ BlockSize[k] = d * BlockSize[l]
<1>. DEFINE T == {n \in Nat : n <= l /\ \A d \in Nat :
                     d > 0 => BlockSize[l - n] # d * BlockSize[l]}
<1>1. CASE T = {}
  <2>1. l - k \in Nat /\ l - k <= l /\ l - (l - k) = k
    BY Sizes DEF Levels
  <2>2. l - k \notin T
    BY <1>1
  <2>. HIDE DEF T
  <2>3. \E d \in Nat : d > 0 /\ BlockSize[l - (l - k)] = d * BlockSize[l]
    BY <2>1, <2>2 DEF T
  <2>. QED BY <2>1, <2>3
<1>2. CASE T # {}
  <2>1. PICK n \in T : \A m \in T : n <= m
    BY <1>2, LeastElement
  <2>2. n # 0
    <3>1. BlockSize[l - 0] = 1 * BlockSize[l]
      BY Sizes
    <3>. QED BY <2>1, <3>1
  <2>0. n \in Nat /\ n <= l /\ l \in Nat
    BY <2>1, Sizes
  <2>3. n - 1 \in Nat /\ n - 1 <= l /\ n - 1 \notin T
    <3>1. n - 1 \in Nat /\ n - 1 <= l /\ ~(n <= n - 1)
      BY <2>0, <2>2
    <3>. HIDE DEF T
    <3>. QED BY <3>1, <2>1
  <2>4. PICK d \in Nat : d > 0 /\ BlockSize[l - (n - 1)] = d * BlockSize[l]
    BY <2>3
  <2>5. l - (n - 1) \in Levels /\ l - (n - 1) > 0 /\ (l - (n - 1)) - 1 = l - n
    BY <2>0, <2>2, SizeAssumption DEF Levels
  <2>6. BlockSize[l - n] = 2 * BlockSize[l - (n - 1)]
    BY <2>5, Sizes
  <2>7. BlockSize[l - n] = (2 * d) * BlockSize[l] /\ 2 * d \in Nat /\ 2 * d > 0
    BY <2>4, <2>6, Sizes
  <2>. QED BY <2>1, <2>7
<1>. QED BY <1>1, <1>2

(* The pool is a whole number of blocks of every level, an even one below  *)
(* the root.                                                               *)
LEMMA TotalMultiple ==
  ASSUME NEW l \in Levels
  PROVE  /\ \E d \in Nat : d > 0 /\ Total = d * BlockSize[l]
         /\ l > 0 => \E d \in Nat : d > 0 /\ Total = d * (2 * BlockSize[l])
<1>1. 0 \in Levels /\ 0 <= l
  BY SizeAssumption, Sizes DEF Levels
<1>2. \E d \in Nat : d > 0 /\ Total = d * BlockSize[l]
  BY <1>1, SizeDivides DEF Total
<1>3. ASSUME l > 0
      PROVE  \E d \in Nat : d > 0 /\ Total = d * (2 * BlockSize[l])
  <2>1. l - 1 \in Levels /\ 0 <= l - 1 /\ BlockSize[l - 1] = 2 * BlockSize[l]
    BY <1>3, Sizes
  <2>. QED BY <1>1, <2>1, SizeDivides DEF Total
<1>. QED BY <1>2, <1>3

(* A slot is a level and a multiple of its size, and its block ends within *)
(* the pool.                                                               *)
LEMMA SlotShape ==
  ASSUME NEW b \in Slots
  PROVE  /\ b = <<b[1], b[2]>>
         /\ b[1] \in Levels /\ b[2] \in Nat
         /\ \E k \in Nat : b[2] = k * BlockSize[b[1]]
         /\ b[2] + BlockSize[b[1]] <= Total
<1>1. b = <<b[1], b[2]>> /\ b[1] \in Levels /\ b[2] \in 0 .. Total - 1
      /\ b[2] % BlockSize[b[1]] = 0
  BY DEF Slots
<1>2. Total \in Nat
  BY SizeAssumption DEF Total, Levels
<1>3. BlockSize[b[1]] \in Nat /\ BlockSize[b[1]] > 0 /\ b[2] \in Nat
  BY <1>1, <1>2, Sizes
<1>4. PICK k \in Nat : b[2] = k * BlockSize[b[1]]
  BY <1>1, <1>3, ModMultiple, Quotient
<1>5. PICK d \in Nat : Total = d * BlockSize[b[1]]
  BY <1>1, TotalMultiple
<1>6. k * BlockSize[b[1]] < d * BlockSize[b[1]]
  BY <1>1, <1>2, <1>4, <1>5
<1>7. k * BlockSize[b[1]] + BlockSize[b[1]] <= d * BlockSize[b[1]]
  BY <1>3, <1>6, NextMultiple
<1>. QED BY <1>1, <1>3, <1>4, <1>5, <1>7

(* Conversely, a multiple of the size below the pool's end is a slot.      *)
LEMMA SlotIntro ==
  ASSUME NEW l \in Levels, NEW k \in Nat, k * BlockSize[l] < Total
  PROVE  <<l, k * BlockSize[l]>> \in Slots
<1>1. Total \in Nat
  BY SizeAssumption DEF Total, Levels
<1>2. k * BlockSize[l] \in 0 .. Total - 1
  BY <1>1, Sizes
<1>3. (k * BlockSize[l]) % BlockSize[l] = 0
  BY MultipleMod, Sizes
<1>. QED BY <1>2, <1>3 DEF Slots

(* The whole pool is a block of level 0.                                   *)
LEMMA RootSlot == Root \in Slots /\ Root[1] = 0 /\ Root[2] = 0
<1>1. 0 \in Levels
  BY SizeAssumption DEF Levels
<1>2. BlockSize[0] \in Nat /\ BlockSize[0] > 0
  BY <1>1, Sizes
<1>3. 0 * BlockSize[0] = 0
  BY <1>2
<1>. QED BY <1>1, <1>2, <1>3, SlotIntro DEF Root, Total

-----------------------------------------------------------------------------
(* Buddies.                                                                *)

(* A natural is twice a natural, or one more.                              *)
LEMMA EvenOrOdd ==
  ASSUME NEW k \in Nat
  PROVE  \E h \in Nat : \/ k = 2 * h /\ k % 2 = 0
                        \/ k = 2 * h + 1 /\ k % 2 = 1
<1>1. k \div 2 \in Nat OBVIOUS
<1>2. \/ k = 2 * (k \div 2) /\ k % 2 = 0
      \/ k = 2 * (k \div 2) + 1 /\ k % 2 = 1
  OBVIOUS
<1>. QED BY <1>1, <1>2

(* Flipping the bit of weight s of a multiple of s leads to the other half *)
(* of the same double block.                                               *)
LEMMA BuddyOffset ==
  ASSUME NEW s \in Nat, s > 0, NEW h \in Nat
  PROVE  /\ get_buddy_offset((2 * h) * s, s) = (2 * h) * s + s
         /\ get_buddy_offset((2 * h + 1) * s, s) = (2 * h) * s
<1>1. ((2 * h) * s) \div s = 2 * h /\ ((2 * h + 1) * s) \div s = 2 * h + 1
  BY MultipleMod
<1>2. (2 * h) % 2 = 0 /\ (2 * h + 1) % 2 # 0
  OBVIOUS
<1>3. (2 * h + 1) * s - s = (2 * h) * s
  OBVIOUS
<1>. QED BY <1>1, <1>2, <1>3 DEF get_buddy_offset

(* A block below the root and its buddy are the two halves of an aligned   *)
(* range of the pool.                                                      *)
LEMMA BuddyShape ==
  ASSUME NEW b \in Slots, b[1] > 0
  PROVE  \E h \in Nat :
           LET s == BlockSize[b[1]]
               p == (2 * h) * s
           IN  /\ p \in Nat /\ p + 2 * s <= Total
               /\ \/ b[2] = p /\ Buddy(b) = <<b[1], p + s>>
                  \/ b[2] = p + s /\ Buddy(b) = <<b[1], p>>
<1>. DEFINE s == BlockSize[b[1]]
<1>1. b[1] \in Levels /\ b[2] \in Nat /\ s \in Nat /\ s > 0
  BY SlotShape, Sizes
<1>2. PICK k \in Nat : b[2] = k * s
  BY SlotShape
<1>3. PICK h \in Nat : k = 2 * h \/ k = 2 * h + 1
  BY EvenOrOdd
<1>4. PICK d \in Nat : Total = d * (2 * s)
  BY <1>1, TotalMultiple
<1>5. b[2] + s <= Total
  BY SlotShape
<1>. HIDE DEF s
<1>6. (2 * h) * s \in Nat /\ (2 * h) * s = h * (2 * s) /\ (2 * h + 1) * s = (2 * h) * s + s
  BY <1>1
<1>7. h * (2 * s) < d * (2 * s)
  <2>1. (2 * h) * s <= b[2]
    BY <1>1, <1>2, <1>3, <1>6
  <2>. QED BY <2>1, <1>1, <1>4, <1>5, <1>6
<1>8. (2 * h) * s + 2 * s <= Total
  BY <1>1, <1>4, <1>6, <1>7, NextMultiple
<1>9. \/ b[2] = (2 * h) * s /\ Buddy(b) = <<b[1], (2 * h) * s + s>>
      \/ b[2] = (2 * h) * s + s /\ Buddy(b) = <<b[1], (2 * h) * s>>
  BY <1>1, <1>2, <1>3, <1>6, BuddyOffset DEF Buddy, s
<1>. QED BY <1>6, <1>8, <1>9 DEF s

(* The buddy of a block is another block of its level, whose buddy it is.  *)
LEMMA BuddySlot ==
  ASSUME NEW b \in Slots, b[1] > 0
  PROVE  /\ Buddy(b) \in Slots
         /\ Buddy(b)[1] = b[1]
         /\ Buddy(b) # b
         /\ Buddy(Buddy(b)) = b
<1>. DEFINE s == BlockSize[b[1]]
<1>1. b = <<b[1], b[2]>> /\ b[1] \in Levels /\ s \in Nat /\ s > 0
  BY SlotShape, Sizes
<1>2. PICK h \in Nat :
        /\ (2 * h) * s \in Nat /\ (2 * h) * s + 2 * s <= Total
        /\ \/ b[2] = (2 * h) * s /\ Buddy(b) = <<b[1], (2 * h) * s + s>>
           \/ b[2] = (2 * h) * s + s /\ Buddy(b) = <<b[1], (2 * h) * s>>
  BY BuddyShape
<1>. HIDE DEF s
<1>3. (2 * h + 1) * s = (2 * h) * s + s
  BY <1>1
<1>4. Total \in Nat
  BY SizeAssumption DEF Total, Levels
<1>5. <<b[1], (2 * h) * s>> \in Slots /\ <<b[1], (2 * h + 1) * s>> \in Slots
  <2>1. (2 * h) * s < Total /\ (2 * h + 1) * s < Total
    BY <1>1, <1>2, <1>3, <1>4
  <2>2. 2 * h \in Nat /\ 2 * h + 1 \in Nat
    OBVIOUS
  <2>. QED BY <1>1, <2>1, <2>2, SlotIntro DEF s
<1>6. Buddy(b) \in Slots /\ Buddy(b)[1] = b[1]
  BY <1>2, <1>3, <1>5
<1>7. Buddy(b) # b
  BY <1>1, <1>2
<1>8. Buddy(Buddy(b)) = b
  BY <1>1, <1>2, <1>3, BuddyOffset DEF Buddy, s
<1>. QED BY <1>6, <1>7, <1>8

-----------------------------------------------------------------------------
(* The blocks the merging loop passes.                                     *)

(* The block of a higher level around b is a slot, and b lies within it.   *)
LEMMA EnclosingSlot ==
  ASSUME NEW b \in Slots, NEW l \in Levels, l <= b[1]
  PROVE  /\ Enclosing(b, l) \in Slots
         /\ Enclosing(b, l)[1] = l
         /\ Enclosing(b, l)[2] <= b[2]
         /\ b[2] + BlockSize[b[1]] <= Enclosing(b, l)[2] + BlockSize[l]
<1>. DEFINE s == BlockSize[b[1]]
            S == BlockSize[l]
            q == b[2] \div S
<1>1. b[1] \in Levels /\ b[2] \in Nat /\ b[2] + s <= Total
      /\ s \in Nat /\ s > 0 /\ S \in Nat /\ S > 0
  BY SlotShape, Sizes
<1>2. PICK k \in Nat : b[2] = k * s
  BY SlotShape
<1>3. PICK d \in Nat : d > 0 /\ S = d * s
  BY <1>1, SizeDivides
<1>4. q \in Nat /\ q * S \in Nat /\ q * S <= b[2] /\ b[2] < q * S + S
  BY <1>1, Quotient
<1>. HIDE DEF s, S, q
<1>5. (q + 1) * S = q * S + S /\ (q + 1) * S = ((q + 1) * d) * s
      /\ (q + 1) * d \in Nat
  BY <1>1, <1>3, <1>4
<1>6. k * s + s <= ((q + 1) * d) * s
  BY <1>1, <1>2, <1>4, <1>5, NextMultiple
<1>7. b[2] + s <= q * S + S
  BY <1>2, <1>5, <1>6
<1>8. Enclosing(b, l) = <<l, q * S>>
  BY DEF Enclosing, q, S
<1>9. q * S < Total
  <2>1. Total \in Nat
    BY SizeAssumption DEF Total, Levels
  <2>. QED BY <1>1, <1>4, <2>1
<1>10. <<l, q * S>> \in Slots
  BY <1>4, <1>9, SlotIntro DEF S
<1>. QED BY <1>4, <1>7, <1>8, <1>10 DEF s, S

(* A block is the one of its own level that contains it.                   *)
LEMMA EnclosingSelf ==
  ASSUME NEW b \in Slots
  PROVE  Enclosing(b, b[1]) = b
<1>1. b = <<b[1], b[2]>> /\ b[1] \in Levels /\ b[2] \in Nat
  BY SlotShape
<1>2. PICK k \in Nat : b[2] = k * BlockSize[b[1]]
  BY SlotShape
<1>3. (b[2] \div BlockSize[b[1]]) * BlockSize[b[1]] = b[2]
  BY <1>1, <1>2, Sizes, MultipleMod
<1>. QED BY <1>1, <1>3 DEF Enclosing

(* One round of the loop: a block and its buddy are the two halves of the  *)
(* next block.                                                             *)
LEMMA EnclosingStep ==
  ASSUME NEW b \in Slots, NEW l \in Levels, 0 < l, l <= b[1]
  PROVE  LET s == BlockSize[l]
             e == Enclosing(b, l)[2]
             u == Buddy(Enclosing(b, l))[2]
             p == Enclosing(b, l - 1)[2]
         IN  \/ e = p /\ u = p + s
             \/ e = p + s /\ u = p
<1>. DEFINE s == BlockSize[l]
            q == b[2] \div s
<1>1. b[2] \in Nat /\ s \in Nat /\ s > 0 /\ l - 1 \in Levels
      /\ BlockSize[l - 1] = 2 * s
  BY SlotShape, Sizes
<1>2. q \in Nat /\ q * s <= b[2] /\ b[2] < q * s + s
  BY <1>1, Quotient
<1>3. Enclosing(b, l) = <<l, q * s>>
      /\ Enclosing(b, l - 1) = <<l - 1, (b[2] \div (2 * s)) * (2 * s)>>
  BY <1>1 DEF Enclosing
<1>. HIDE DEF s, q
<1>4. PICK h \in Nat : q = 2 * h \/ q = 2 * h + 1
  BY <1>2, EvenOrOdd
<1>5. h * (2 * s) = (2 * h) * s /\ (2 * h + 1) * s = (2 * h) * s + s
      /\ (2 * h) * s \in Nat
  BY <1>1
<1>6. h * (2 * s) <= b[2] /\ b[2] < h * (2 * s) + 2 * s
  BY <1>1, <1>2, <1>4, <1>5
<1>7. b[2] \div (2 * s) = h
  BY <1>1, <1>6, QuotientUnique
<1>8. Buddy(Enclosing(b, l)) = <<l, get_buddy_offset(q * s, s)>>
  BY <1>3 DEF Buddy, s
<1>9. Enclosing(b, l - 1)[2] = (2 * h) * s
  BY <1>3, <1>5, <1>7
<1>10. CASE q = 2 * h
  <2>1. Enclosing(b, l)[2] = (2 * h) * s
    BY <1>3, <1>10
  <2>2. Buddy(Enclosing(b, l))[2] = (2 * h) * s + s
    BY <1>1, <1>8, <1>10, BuddyOffset
  <2>. QED BY <1>9, <2>1, <2>2 DEF s
<1>11. CASE q = 2 * h + 1
  <2>1. Enclosing(b, l)[2] = (2 * h) * s + s
    BY <1>3, <1>5, <1>11
  <2>2. Buddy(Enclosing(b, l))[2] = (2 * h) * s
    BY <1>1, <1>8, <1>11, BuddyOffset
  <2>. QED BY <1>9, <2>1, <2>2 DEF s
<1>. QED BY <1>4, <1>10, <1>11

-----------------------------------------------------------------------------
(* Overlap and nesting.                                                    *)

(* A block of a smaller level is at least twice as large.                  *)
LEMMA SizesGrow ==
  ASSUME NEW k \in Levels, NEW l \in Levels, k < l
  PROVE  2 * BlockSize[l] <= BlockSize[k]
<1>1. l - 1 \in Levels /\ k <= l - 1 /\ BlockSize[l - 1] = 2 * BlockSize[l]
      /\ BlockSize[l] \in Nat /\ BlockSize[l] > 0
  BY Sizes
<1>2. PICK d \in Nat : d > 0 /\ BlockSize[k] = d * BlockSize[l - 1]
  BY <1>1, SizeDivides
<1>. DEFINE S == BlockSize[l - 1]
<1>3. S \in Nat
  BY <1>1
<1>. HIDE DEF S
<1>4. S <= d * S
  BY <1>2, <1>3
<1>. QED BY <1>1, <1>2, <1>4 DEF S

(* Two blocks that overlap are nested: the larger one is the one the       *)
(* merging loop reaches from the smaller one.                              *)
LEMMA Nested ==
  ASSUME NEW b \in Slots, NEW c \in Slots, b[1] <= c[1], ~Disjoint(b, c)
  PROVE  b = Enclosing(c, b[1])
<1>. DEFINE s == BlockSize[c[1]]
            S == BlockSize[b[1]]
<1>1. b = <<b[1], b[2]>> /\ b[1] \in Levels /\ c[1] \in Levels
      /\ b[2] \in Nat /\ c[2] \in Nat
      /\ s \in Nat /\ s > 0 /\ S \in Nat /\ S > 0
  BY SlotShape, Sizes
<1>2. PICK j \in Nat : b[2] = j * S
  BY SlotShape
<1>3. PICK k \in Nat : c[2] = k * s
  BY SlotShape
<1>4. PICK d \in Nat : d > 0 /\ S = d * s
  BY <1>1, SizeDivides
<1>5. c[2] < b[2] + S /\ b[2] < c[2] + s
  BY <1>1 DEF Disjoint
<1>. HIDE DEF s, S
<1>6. b[2] <= c[2]
  <2>1. b[2] = (j * d) * s /\ j * d \in Nat
    BY <1>1, <1>2, <1>4
  <2>2. ~(k * s < (j * d) * s)
    <3>1. SUFFICES ASSUME k * s < (j * d) * s PROVE FALSE
      OBVIOUS
    <3>2. k * s + s <= (j * d) * s
      BY <1>1, <2>1, <3>1, NextMultiple
    <3>. QED BY <1>1, <1>3, <1>5, <2>1, <3>2
  <2>. QED BY <1>1, <1>3, <2>1, <2>2
<1>7. c[2] \div S = j
  BY <1>1, <1>2, <1>5, <1>6, QuotientUnique
<1>. QED BY <1>1, <1>2, <1>7 DEF Enclosing, S

(* Two blocks of one level are the same or apart.                          *)
LEMMA SameLevel ==
  ASSUME NEW b \in Slots, NEW c \in Slots, b[1] = c[1]
  PROVE  b = c \/ Disjoint(b, c)
<1>1. c[1] \in Levels /\ c[1] \in Nat
  BY SlotShape, Sizes
<1>. QED BY <1>1, Nested, EnclosingSelf

(* A block that contains a byte of another one is not apart from it.       *)
LEMMA SharedByte ==
  ASSUME NEW b \in Slots, NEW c \in Slots, NEW o \in Nat,
         Covers(b, o), Covers(c, o)
  PROVE  ~Disjoint(b, c)
<1>1. b[2] \in Nat /\ c[2] \in Nat
      /\ BlockSize[b[1]] \in Nat /\ BlockSize[c[1]] \in Nat
  BY SlotShape, Sizes
<1>. QED BY <1>1 DEF Covers, Disjoint

(* Disjointness is symmetric.                                              *)
LEMMA DisjointSymmetric ==
  ASSUME NEW b, NEW c, Disjoint(b, c)
  PROVE  Disjoint(c, b)
BY DEF Disjoint

(* The blocks around b are nested in each other.                           *)
LEMMA EnclosingNested ==
  ASSUME NEW b \in Slots, NEW k \in Levels, NEW m \in Levels,
         m <= k, k <= b[1]
  PROVE  LET e == Enclosing(b, k)
             p == Enclosing(b, m)
         IN  /\ p[2] <= e[2]
             /\ e[2] + BlockSize[k] <= p[2] + BlockSize[m]
<1>. DEFINE e == Enclosing(b, k)
            p == Enclosing(b, m)
<1>0. b[1] \in Levels /\ b[1] \in Nat /\ k \in Nat /\ m \in Nat /\ m <= b[1]
      /\ b[2] \in Nat /\ BlockSize[b[1]] \in Nat /\ BlockSize[b[1]] > 0
      /\ BlockSize[k] \in Nat /\ BlockSize[m] \in Nat
  BY SlotShape, Sizes
<1>1. e \in Slots /\ e[1] = k /\ e[2] <= b[2]
      /\ b[2] + BlockSize[b[1]] <= e[2] + BlockSize[k]
  BY EnclosingSlot
<1>2. p \in Slots /\ p[1] = m /\ p[2] <= b[2]
      /\ b[2] + BlockSize[b[1]] <= p[2] + BlockSize[m]
  BY <1>0, EnclosingSlot
<1>3. e[2] \in Nat /\ p[2] \in Nat
  BY <1>1, <1>2, SlotShape
<1>. HIDE DEF e, p
<1>4. Covers(e, b[2]) /\ Covers(p, b[2])
  BY <1>0, <1>1, <1>2, <1>3 DEF Covers
<1>5. ~Disjoint(p, e)
  BY <1>0, <1>1, <1>2, <1>4, SharedByte
<1>6. p = Enclosing(e, m)
  BY <1>1, <1>2, <1>5, Nested
<1>. QED BY <1>1, <1>6, EnclosingSlot DEF e, p

(* The buddy absorbed in a round of the loop lies in every later block.    *)
LEMMA AbsorbedInside ==
  ASSUME NEW b \in Slots, NEW l \in Levels, NEW m \in Levels,
         m < l, l <= b[1]
  PROVE  LET u == Buddy(Enclosing(b, l))
             p == Enclosing(b, m)
         IN  /\ p[2] <= u[2]
             /\ u[2] + BlockSize[l] <= p[2] + BlockSize[m]
<1>. DEFINE u == Buddy(Enclosing(b, l))
            e == Enclosing(b, l)
            f == Enclosing(b, l - 1)
            p == Enclosing(b, m)
            s == BlockSize[l]
<1>0. b[1] \in Levels /\ b[1] \in Nat /\ l \in Nat /\ m \in Nat
      /\ BlockSize[m] \in Nat /\ s \in Nat
  BY SlotShape, Sizes
<1>1. /\ 0 < l /\ m <= l - 1 /\ l - 1 <= b[1]
      /\ l - 1 \in Levels /\ BlockSize[l - 1] = 2 * s
  <2>1. 0 < l /\ m <= l - 1 /\ l - 1 <= b[1]
    BY <1>0
  <2>. QED BY <2>1, Sizes
<1>2. p[2] <= f[2] /\ f[2] + 2 * s <= p[2] + BlockSize[m]
  BY <1>1, EnclosingNested
<1>3. \/ e[2] = f[2] /\ u[2] = f[2] + s
      \/ e[2] = f[2] + s /\ u[2] = f[2]
  BY <1>1, EnclosingStep
<1>4. f[2] \in Nat /\ p[2] \in Nat
  <2>1. m <= b[1]
    BY <1>0
  <2>2. f \in Slots /\ p \in Slots
    BY <1>1, <2>1, EnclosingSlot
  <2>. QED BY <2>2, SlotShape
<1>. HIDE DEF u, e, f, p, s
<1>5. p[2] <= u[2] /\ u[2] + s <= p[2] + BlockSize[m]
  BY <1>0, <1>2, <1>3, <1>4
<1>. QED BY <1>5 DEF u, p, s

(* What is apart from b and from every absorbed buddy is apart from the    *)
(* merged block.                                                           *)
LEMMA ApartFromMerged ==
  ASSUME NEW b \in Slots, NEW c \in Slots, NEW m \in Levels, m <= b[1],
         Disjoint(c, b),
         \A l \in Levels : m < l /\ l <= b[1] =>
            Disjoint(c, Buddy(Enclosing(b, l)))
  PROVE  Disjoint(c, Enclosing(b, m))
<1>. DEFINE T == {n \in Nat : n <= b[1] - m /\ ~Disjoint(c, Enclosing(b, b[1] - n))}
<1>0. b[1] \in Levels /\ b[1] \in Nat /\ m \in Nat
  BY SlotShape, Sizes
<1>1. SUFFICES ASSUME ~Disjoint(c, Enclosing(b, m)) PROVE FALSE
  OBVIOUS
<1>2. b[1] - m \in T
  <2>1. b[1] - m \in Nat /\ b[1] - (b[1] - m) = m
    BY <1>0
  <2>. QED BY <1>1, <2>1
<1>3. PICK n \in T : \A i \in T : n <= i
  <2>. HIDE DEF T
  <2>1. T \in SUBSET Nat BY DEF T
  <2>. QED BY <1>2, <2>1, LeastElement
<1>4. n \in Nat /\ n <= b[1] - m /\ ~Disjoint(c, Enclosing(b, b[1] - n))
  BY <1>3
<1>5. n # 0
  <2>1. b[1] - 0 = b[1] BY <1>0
  <2>. QED BY <1>4, <2>1, EnclosingSelf
<1>. DEFINE l == b[1] - (n - 1)
<1>6. /\ n - 1 \in Nat /\ n - 1 <= b[1] - m /\ ~(n <= n - 1)
      /\ l \in Levels /\ 0 < l /\ l <= b[1] /\ m < l /\ l - 1 = b[1] - n
  <2>1. /\ n - 1 \in Nat /\ n - 1 <= b[1] - m /\ ~(n <= n - 1)
        /\ l \in Nat /\ 0 < l /\ l <= b[1] /\ m < l /\ l - 1 = b[1] - n
    BY <1>0, <1>4, <1>5
  <2>2. l \in Levels
    BY <1>0, <2>1, SizeAssumption DEF Levels
  <2>. QED BY <2>1, <2>2
<1>7. n - 1 \notin T
  <2>. HIDE DEF T
  <2>. QED BY <1>3, <1>6
<1>8. Disjoint(c, Enclosing(b, l)) /\ Disjoint(c, Buddy(Enclosing(b, l)))
  BY <1>6, <1>7
<1>. HIDE DEF T
<1>. DEFINE e == Enclosing(b, l)
            u == Buddy(Enclosing(b, l))
            p == Enclosing(b, l - 1)
            s == BlockSize[l]
<1>9. /\ l - 1 \in Levels /\ BlockSize[l - 1] = 2 * s /\ s \in Nat /\ s > 0
      /\ c[2] \in Nat /\ BlockSize[c[1]] \in Nat /\ BlockSize[c[1]] > 0
  BY <1>6, SlotShape, Sizes
<1>10. \/ e[2] = p[2] /\ u[2] = p[2] + s
       \/ e[2] = p[2] + s /\ u[2] = p[2]
  BY <1>6, EnclosingStep
<1>11. e \in Slots /\ e[1] = l /\ p \in Slots /\ p[1] = l - 1 /\ l - 1 <= b[1]
  BY <1>0, <1>6, <1>9, EnclosingSlot
<1>12. u[1] = l /\ p[2] \in Nat
  BY <1>6, <1>11, BuddySlot, SlotShape
<1>13. Disjoint(c, p)
  <2>. HIDE DEF e, u, p, s, l
  <2>1. \/ c[2] + BlockSize[c[1]] <= e[2]
        \/ e[2] + s <= c[2]
    BY <1>8, <1>11 DEF Disjoint, e, s
  <2>2. \/ c[2] + BlockSize[c[1]] <= u[2]
        \/ u[2] + s <= c[2]
    BY <1>8, <1>12 DEF Disjoint, u, s
  <2>3. \/ c[2] + BlockSize[c[1]] <= p[2]
        \/ p[2] + 2 * s <= c[2]
    BY <2>1, <2>2, <1>9, <1>10, <1>12
  <2>. QED BY <2>3, <1>9, <1>11 DEF Disjoint
<1>. QED BY <1>4, <1>6, <1>13

-----------------------------------------------------------------------------
(* The blocks a split produces.                                            *)

(* The second half that split_block_down creates at level l out of b, and  *)
(* the first half that is left at level t.                                 *)
LEMMA SplitShape ==
  ASSUME NEW b \in Slots, NEW l \in Levels, b[1] < l
  PROVE  /\ <<l, b[2]>> \in Slots
         /\ <<l, get_buddy_offset(b[2], BlockSize[l])>> \in Slots
         /\ get_buddy_offset(b[2], BlockSize[l]) = b[2] + BlockSize[l]
         /\ b[2] + 2 * BlockSize[l] <= b[2] + BlockSize[b[1]]
<1>. DEFINE s == BlockSize[l]
            S == BlockSize[b[1]]
<1>1. b[1] \in Levels /\ b[2] \in Nat /\ s \in Nat /\ s > 0 /\ S \in Nat
      /\ b[2] + S <= Total
  BY SlotShape, Sizes
<1>2. PICK k \in Nat : b[2] = k * S
  BY SlotShape
<1>3. l \in Nat /\ b[1] \in Nat
  BY <1>1, Sizes
<1>4. l - 1 \in Levels /\ b[1] <= l - 1 /\ BlockSize[l - 1] = 2 * s
  BY <1>3, Sizes
<1>5. PICK d \in Nat : d > 0 /\ S = d * (2 * s)
  BY <1>1, <1>4, SizeDivides
<1>6. 2 * s <= S
  BY <1>1, SizesGrow
<1>7. Total \in Nat
  BY SizeAssumption DEF Total, Levels
<1>. HIDE DEF s, S
<1>8. k * d \in Nat /\ b[2] = (2 * (k * d)) * s
  BY <1>1, <1>2, <1>5
<1>9. get_buddy_offset(b[2], s) = b[2] + s
  BY <1>1, <1>8, BuddyOffset
<1>10. b[2] + s = (2 * (k * d) + 1) * s
  BY <1>1, <1>8
<1>11. b[2] < Total /\ b[2] + s < Total
  BY <1>1, <1>6, <1>7
<1>12. <<l, b[2]>> \in Slots
  <2>1. 2 * (k * d) \in Nat
    BY <1>8
  <2>. QED BY <1>8, <1>11, <2>1, SlotIntro DEF s
<1>13. <<l, b[2] + s>> \in Slots
  <2>1. 2 * (k * d) + 1 \in Nat
    BY <1>8
  <2>. QED BY <1>10, <1>11, <2>1, SlotIntro DEF s
<1>14. b[2] + 2 * s <= b[2] + S
  BY <1>1, <1>6
<1>. QED BY <1>9, <1>12, <1>13, <1>14 DEF s, S

(* A byte of b lies in the first half at level t or in a second half.      *)
LEMMA SplitCovers ==
  ASSUME NEW b \in Slots, NEW t \in Levels, b[1] < t, NEW o \in Nat,
         Covers(b, o)
  PROVE  \/ Covers(<<t, b[2]>>, o)
         \/ \E l \in Levels : /\ b[1] < l /\ l <= t
                              /\ Covers(<<l, b[2] + BlockSize[l]>>, o)
<1>. DEFINE T == {n \in Nat : b[1] < n /\ n <= t /\ b[2] + BlockSize[n] <= o}
<1>1. b[1] \in Levels /\ b[1] \in Nat /\ b[2] \in Nat /\ t \in Nat
      /\ BlockSize[t] \in Nat /\ BlockSize[b[1]] \in Nat
  BY SlotShape, Sizes
<1>2. b[2] <= o /\ o < b[2] + BlockSize[b[1]]
  BY DEF Covers
<1>3. CASE t \notin T
  BY <1>1, <1>2, <1>3 DEF Covers
<1>4. CASE t \in T
  <2>1. T \in SUBSET Nat
    OBVIOUS
  <2>2. PICK l \in T : \A n \in T : l <= n
    <3>. HIDE DEF T
    <3>. QED BY <1>4, <2>1, LeastElement
  <2>3. l \in Nat /\ b[1] < l /\ l <= t /\ b[2] + BlockSize[l] <= o
    BY <2>2
  <2>4. l \in Levels /\ l - 1 \in Nat /\ l - 1 <= t /\ b[1] <= l - 1 /\ ~(l <= l - 1)
    BY <1>1, <2>3, SizeAssumption DEF Levels
  <2>5. BlockSize[l] \in Nat /\ l - 1 \in Levels /\ BlockSize[l - 1] = 2 * BlockSize[l]
    <3>1. l > 0
      BY <1>1, <2>3
    <3>. QED BY <2>4, <3>1, Sizes
  <2>6. l - 1 \notin T
    <3>. HIDE DEF T
    <3>. QED BY <2>2, <2>4
  <2>7. l - 1 = b[1] \/ ~(b[2] + BlockSize[l - 1] <= o)
    BY <1>1, <2>4, <2>6
  <2>8. o < b[2] + BlockSize[l] + BlockSize[l]
    BY <1>1, <1>2, <2>5, <2>7
  <2>. HIDE DEF T
  <2>9. Covers(<<l, b[2] + BlockSize[l]>>, o)
    BY <2>3, <2>8 DEF Covers
  <2>. QED BY <2>3, <2>4, <2>9
<1>. QED BY <1>3, <1>4

(* The blocks of a split are apart from each other.                        *)
LEMMA SplitApart ==
  ASSUME NEW b \in Slots, NEW k \in Levels, NEW l \in Levels,
         b[1] < k, b[1] < l
  PROVE  /\ k # l => Disjoint(<<k, b[2] + BlockSize[k]>>, <<l, b[2] + BlockSize[l]>>)
         /\ k <= l => Disjoint(<<k, b[2] + BlockSize[k]>>, <<l, b[2]>>)
         /\ k <= l => Disjoint(<<l, b[2]>>, <<k, b[2] + BlockSize[k]>>)
<1>1. b[2] \in Nat /\ k \in Nat /\ l \in Nat
      /\ BlockSize[k] \in Nat /\ BlockSize[l] \in Nat
  BY SlotShape, Sizes
<1>2. k < l => 2 * BlockSize[l] <= BlockSize[k]
  BY SizesGrow
<1>3. l < k => 2 * BlockSize[k] <= BlockSize[l]
  BY SizesGrow
<1>4. k < l \/ k = l \/ l < k
  BY <1>1
<1>. QED BY <1>1, <1>2, <1>3, <1>4 DEF Disjoint

-----------------------------------------------------------------------------
(* The free lists.                                                         *)

(* The free lists after a call that takes at most one block off each list, *)
(* or puts at most one new block at its head.                              *)
LEMMA RelinkKeepsLists ==
  ASSUME TypeOK, LinksInLevel, HeadsFree, ListsLinked,
         NEW out \in [Levels -> Pointers], NEW in \in [Levels -> Pointers],
         NEW new \in SUBSET Slots,
         Relink(out, in, new),
         \A l \in Levels : out[l] # NULL =>
            in[l] = NULL /\ out[l][1] = l /\ IsFree(out[l]),
         \A l \in Levels : in[l] # NULL => in[l][1] = l /\ in[l] \in new,
         \A s \in new : ~IsFree(s),
         \A s \in Slots : IsFree(s)' <=>
            s = in[s[1]] \/ (IsFree(s) /\ s # out[s[1]])
  PROVE  LinksInLevel' /\ HeadsFree' /\ ListsLinked'
<1>. DEFINE F(s) == is_active[s] /\ ~is_allocated[s]
            G(s) == is_active'[s] /\ ~is_allocated'[s]
<1>1. /\ \A s \in Slots : s[1] \in Levels
      /\ NULL \notin Slots
      /\ Pointers = Slots \cup {NULL}
  BY SlotShape, NullAssumption DEF Pointers
<1>2. /\ next \in [Slots -> Pointers] /\ prev \in [Slots -> Pointers]
      /\ head \in [Levels -> Pointers]
  BY DEF TypeOK
<1>3. /\ \A s \in Slots : next[s] # NULL => next[s] \in Slots /\ next[s][1] = s[1]
      /\ \A s \in Slots : prev[s] # NULL => prev[s] \in Slots /\ prev[s][1] = s[1]
      /\ \A l \in Levels : head[l] # NULL => head[l] \in Slots /\ head[l][1] = l
      /\ \A l \in Levels : out[l] # NULL => out[l] \in Slots /\ out[l][1] = l
                                            /\ F(out[l]) /\ in[l] = NULL
      /\ \A l \in Levels : in[l] # NULL => in[l] \in Slots /\ in[l][1] = l /\ in[l] \in new
  BY <1>1, <1>2 DEF LinksInLevel, IsFree
<1>4. /\ \A l \in Levels : head[l] # NULL => F(head[l]) /\ prev[head[l]] = NULL
      /\ \A s \in Slots : F(s) =>
           /\ next[s] # NULL => F(next[s]) /\ prev[next[s]] = s
           /\ prev[s] # NULL => F(prev[s]) /\ next[prev[s]] = s
           /\ prev[s] = NULL => head[s[1]] = s
      /\ \A s \in new : ~F(s)
      /\ \A s \in Slots : G(s) <=> s = in[s[1]] \/ (F(s) /\ s # out[s[1]])
  BY DEF HeadsFree, ListsLinked, IsFree
<1>5. \A s \in Slots :
        /\ next'[s] = IF s = in[s[1]] THEN head[s[1]]
                      ELSE IF s \in new THEN NULL
                      ELSE IF out[s[1]] # NULL /\ prev[out[s[1]]] = s
                      THEN next[out[s[1]]] ELSE next[s]
        /\ prev'[s] = IF s \in new THEN NULL
                      ELSE IF in[s[1]] # NULL /\ head[s[1]] = s THEN in[s[1]]
                      ELSE IF out[s[1]] # NULL /\ next[out[s[1]]] = s
                      THEN prev[out[s[1]]] ELSE prev[s]
  BY DEF Relink, linked_next, linked_prev
<1>6. \A l \in Levels :
        head'[l] = IF in[l] # NULL THEN in[l]
                   ELSE IF out[l] # NULL /\ prev[out[l]] = NULL THEN next[out[l]]
                   ELSE head[l]
  BY DEF Relink, linked_head
<1>. HIDE DEF F, G
<1>7. LinksInLevel'
  <2>1. \A s \in Slots : next'[s] # NULL => next'[s][1] = s[1]
    BY <1>1, <1>3, <1>5
  <2>2. \A s \in Slots : prev'[s] # NULL => prev'[s][1] = s[1]
    BY <1>1, <1>3, <1>5
  <2>3. \A l \in Levels : head'[l] # NULL => head'[l][1] = l
    BY <1>1, <1>3, <1>6
  <2>. QED BY <2>1, <2>2, <2>3 DEF LinksInLevel
<1>8. ASSUME NEW l \in Levels, head'[l] # NULL
      PROVE  head'[l] \in Slots /\ G(head'[l]) /\ prev'[head'[l]] = NULL
  <2>1. CASE in[l] # NULL
    BY <2>1, <1>3, <1>4, <1>5, <1>6
  <2>2. CASE in[l] = NULL /\ out[l] = NULL
    BY <2>2, <1>8, <1>3, <1>4, <1>5, <1>6
  <2>3. CASE in[l] = NULL /\ out[l] # NULL /\ prev[out[l]] = NULL
    BY <2>3, <1>8, <1>3, <1>4, <1>5, <1>6
  <2>4. CASE in[l] = NULL /\ out[l] # NULL /\ prev[out[l]] # NULL
    BY <2>4, <1>8, <1>3, <1>4, <1>5, <1>6
  <2>. QED BY <2>1, <2>2, <2>3, <2>4
<1>9. ASSUME NEW s \in Slots, G(s)
      PROVE  /\ next'[s] # NULL => next'[s] \in Slots /\ G(next'[s]) /\ prev'[next'[s]] = s
             /\ prev'[s] # NULL => prev'[s] \in Slots /\ G(prev'[s]) /\ next'[prev'[s]] = s
             /\ prev'[s] = NULL => head'[s[1]] = s
  <2>. DEFINE l == s[1]
  <2>0. l \in Levels
    BY <1>1
  <2>1. CASE s = in[l]
    BY <2>0, <2>1, <1>1, <1>3, <1>4, <1>5, <1>6
  <2>2. CASE s # in[l] /\ in[l] # NULL
    BY <2>0, <2>2, <1>9, <1>1, <1>3, <1>4, <1>5, <1>6
  <2>3. CASE in[l] = NULL /\ out[l] = NULL
    BY <2>0, <2>3, <1>9, <1>1, <1>3, <1>4, <1>5, <1>6
  <2>4. CASE in[l] = NULL /\ out[l] # NULL
    BY <2>0, <2>4, <1>9, <1>1, <1>3, <1>4, <1>5, <1>6
  <2>. QED BY <2>1, <2>2, <2>3, <2>4
<1>10. HeadsFree'
  BY <1>8 DEF HeadsFree, IsFree, G
<1>11. ListsLinked'
  BY <1>9 DEF ListsLinked, IsFree, G
<1>. QED BY <1>7, <1>10, <1>11

(* A level has no more blocks than the pool has bytes, so neither has a    *)
(* list of different blocks of it.                                         *)
LEMMA ListLength ==
  ASSUME NEW l \in Levels, NEW n \in Nat, NEW s,
         \A i \in 1 .. n : s[i] \in Slots /\ s[i][1] = l,
         \A i, j \in 1 .. n : s[i] = s[j] => i = j
  PROVE  n \in 0 .. Total
<1>. DEFINE place == [i \in 1 .. n |-> s[i][2] + 1]
<1>1. Total \in Nat
  BY SizeAssumption DEF Total, Levels
<1>2. ASSUME NEW i \in 1 .. n
      PROVE  s[i] = <<l, s[i][2]>> /\ s[i][2] \in 0 .. Total - 1
  <2>1. s[i] \in Slots /\ s[i][1] = l
    OBVIOUS
  <2>2. s[i] = <<s[i][1], s[i][2]>>
    BY <2>1, SlotShape
  <2>3. s[i][2] \in 0 .. Total - 1
    BY <2>1 DEF Slots
  <2>. QED BY <2>1, <2>2, <2>3
<1>3. place \in [1 .. n -> 1 .. Total]
  BY <1>1, <1>2
<1>4. ASSUME NEW i \in 1 .. n, NEW j \in 1 .. n, place[i] = place[j]
      PROVE  i = j
  <2>1. s[i][2] = s[j][2]
    BY <1>1, <1>2, <1>4
  <2>. QED BY <1>2, <2>1
<1>5. ExistsInjection(1 .. n, 1 .. Total)
  BY <1>3, <1>4 DEF ExistsInjection, Injection, IsInjective
<1>. QED BY <1>1, <1>5, Fun_NatInjLeq

(* The order of a list of no block, or of one.                             *)
LEMMA ShortList ==
  ASSUME NEW A, NEW h, NEW nx,
         \/ A = {} /\ h = NULL
         \/ A = {h} /\ nx[h] = NULL
  PROVE  \E n \in 0 .. Total : \E s \in [1 .. n -> A] : InListOrder(s, n, A, h, nx)
<1>1. 0 \in 0 .. Total /\ 1 \in 0 .. Total
  <2>1. 0 \in Levels
    BY SizeAssumption DEF Levels
  <2>2. BlockSize[0] \in Nat /\ BlockSize[0] > 0
    BY <2>1, Sizes
  <2>. QED BY <2>2 DEF Total
<1>2. CASE A = {} /\ h = NULL
  <2>. DEFINE s == [i \in 1 .. 0 |-> h]
  <2>1. s \in [1 .. 0 -> A] /\ InListOrder(s, 0, A, h, nx)
    BY <1>2 DEF InListOrder
  <2>. HIDE DEF s
  <2>. QED BY <1>1, <2>1
<1>3. CASE A = {h} /\ nx[h] = NULL
  <2>. DEFINE s == [i \in 1 .. 1 |-> h]
  <2>1. s \in [1 .. 1 -> A] /\ InListOrder(s, 1, A, h, nx)
    BY <1>3 DEF InListOrder
  <2>. HIDE DEF s
  <2>. QED BY <1>1, <2>1
<1>. QED BY <1>2, <1>3

(* The order of the lists after such a call: a block put at the head moves *)
(* the others one place down, and one taken off closes the gap it leaves.  *)
LEMMA RelinkKeepsOrder ==
  ASSUME TypeOK, LinksInLevel, HeadsFree, ListsLinked, ListsOrdered,
         NEW out \in [Levels -> Pointers], NEW in \in [Levels -> Pointers],
         NEW new \in SUBSET Slots,
         Relink(out, in, new),
         \A l \in Levels : out[l] # NULL =>
            in[l] = NULL /\ out[l][1] = l /\ IsFree(out[l]),
         \A l \in Levels : in[l] # NULL => in[l][1] = l /\ in[l] \in new,
         \A s \in new : ~IsFree(s),
         \A s \in Slots : IsFree(s)' <=>
            s = in[s[1]] \/ (IsFree(s) /\ s # out[s[1]])
  PROVE  ListsOrdered'
<1>. SUFFICES ASSUME NEW l \in Levels
              PROVE  \E n \in 0 .. Total : \E s \in [1 .. n -> FreeIn(l)'] :
                       InListOrder(s, n, FreeIn(l)', head'[l], next')
  BY DEF ListsOrdered
<1>. DEFINE A == FreeIn(l)
            B == FreeIn(l)'
<1>1. /\ \A b \in A : b \in Slots /\ b[1] = l /\ IsFree(b) /\ b \notin new /\ b # NULL
      /\ \A b \in Slots : b[1] = l /\ IsFree(b) => b \in A
      /\ \A b \in B : b \in Slots /\ b[1] = l
      /\ \A b : b \in B <=> (b \in Slots /\ b[1] = l /\ b = in[l])
                            \/ (b \in A /\ b # out[l])
  BY NullAssumption DEF FreeIn
<1>2. PICK n \in 0 .. Total : \E s \in [1 .. n -> A] :
        InListOrder(s, n, A, head[l], next)
  BY DEF ListsOrdered
<1>3. PICK s \in [1 .. n -> A] : InListOrder(s, n, A, head[l], next)
  BY <1>2
<1>4. /\ n \in Nat
      /\ \A i \in 1 .. n : s[i] \in A
      /\ \A i, j \in 1 .. n : s[i] = s[j] => i = j
      /\ \A b \in A : \E i \in 1 .. n : s[i] = b
      /\ head[l] = IF n = 0 THEN NULL ELSE s[1]
      /\ \A i \in 1 .. n : next[s[i]] = IF i = n THEN NULL ELSE s[i + 1]
  <2>1. n \in Nat
    BY SizeAssumption DEF Total, Levels
  <2>2. \A i \in 1 .. n : s[i] \in A
    OBVIOUS
  <2>. QED BY <1>3, <2>1, <2>2 DEF InListOrder
<1>5. \A b \in Slots : b[1] = l =>
        next'[b] = IF b = in[l] THEN head[l]
                   ELSE IF b \in new THEN NULL
                   ELSE IF out[l] # NULL /\ prev[out[l]] = b
                   THEN next[out[l]] ELSE next[b]
  BY DEF Relink, linked_next
<1>6. head'[l] = IF in[l] # NULL THEN in[l]
                 ELSE IF out[l] # NULL /\ prev[out[l]] = NULL THEN next[out[l]]
                 ELSE head[l]
  BY DEF Relink, linked_head
<1>. DEFINE Lists(t, m) == InListOrder(t, m, B, head'[l], next')
<1>7. SUFFICES \E m \in Nat : \E t \in [1 .. m -> B] : Lists(t, m)
  <2>. HIDE DEF A, B, Lists
  <2>1. PICK m \in Nat : \E t \in [1 .. m -> B] : Lists(t, m)
    BY <1>7
  <2>2. PICK t \in [1 .. m -> B] : Lists(t, m)
    BY <2>1
  <2>3. m \in 0 .. Total
    <3>1. \A i \in 1 .. m : t[i] \in Slots /\ t[i][1] = l
      BY <1>1
    <3>2. \A i, j \in 1 .. m : t[i] = t[j] => i = j
      BY <2>2 DEF Lists, InListOrder
    <3>3. \A s1 : \A n1 \in Nat : \A l1 \in Levels :
            /\ \A i \in 1 .. n1 : s1[i] \in Slots /\ s1[i][1] = l1
            /\ \A i, j \in 1 .. n1 : s1[i] = s1[j] => i = j
            => n1 \in 0 .. Total
      BY ListLength
    <3>. QED BY ONLY <3>1, <3>2, <3>3, m \in Nat, l \in Levels
  <2>. QED BY <2>2, <2>3 DEF B, Lists
<1>. HIDE DEF A, B, Lists
<1>8. CASE in[l] # NULL
  <2>. DEFINE t == [i \in 1 .. n + 1 |-> IF i = 1 THEN in[l] ELSE s[i - 1]]
  <2>1. in[l] \in Slots /\ in[l][1] = l /\ in[l] \in new /\ out[l] = NULL
        /\ in[l] \notin A /\ in[l] \in B
    BY <1>1, <1>8 DEF Pointers
  <2>2. \A b \in A : b \in B /\ next'[b] = next[b]
    BY <1>1, <1>5, <2>1
  <2>3. /\ n + 1 \in Nat /\ 1 \in 1 .. n + 1
        /\ \A i \in 2 .. n + 1 : i - 1 \in 1 .. n
        /\ \A i \in 1 .. n : i + 1 \in 2 .. n + 1
    BY <1>4
  <2>4. /\ t[1] = in[l]
        /\ \A i \in 2 .. n + 1 : t[i] = s[i - 1] /\ t[i] \in A
    BY <1>4, <2>3
  <2>5. t \in [1 .. n + 1 -> B]
    BY <1>4, <2>1, <2>2, <2>3
  <2>. HIDE DEF t
  <2>6. \A i, j \in 1 .. n + 1 : t[i] = t[j] => i = j
    <3>1. ASSUME NEW i \in 1 .. n + 1, NEW j \in 1 .. n + 1, t[i] = t[j], i # 1
          PROVE  j # 1 /\ i = j
      <4>1. i \in 2 .. n + 1 /\ i - 1 \in 1 .. n
        BY <1>4, <3>1
      <4>2. j # 1
        BY <2>1, <2>4, <3>1, <4>1
      <4>3. j \in 2 .. n + 1 /\ j - 1 \in 1 .. n
        BY <1>4, <4>2
      <4>4. i - 1 = j - 1
        BY <1>4, <2>4, <3>1, <4>1, <4>3
      <4>. QED BY <4>1, <4>2, <4>3, <4>4
    <3>. QED BY <3>1
  <2>7. \A b \in B : \E i \in 1 .. n + 1 : t[i] = b
    <3>1. ASSUME NEW b \in A PROVE \E i \in 1 .. n + 1 : t[i] = b
      <4>1. PICK i \in 1 .. n : s[i] = b
        BY <1>4
      <4>2. i + 1 \in 2 .. n + 1 /\ i + 1 \in 1 .. n + 1 /\ (i + 1) - 1 = i
        BY <1>4
      <4>3. t[i + 1] = s[i]
        BY <2>4, <4>2
      <4>. QED BY <4>1, <4>2, <4>3
    <3>. QED BY <1>1, <2>3, <2>4, <3>1
  <2>8. head'[l] = t[1] /\ n + 1 # 0
    BY <1>4, <1>6, <1>8, <2>4
  <2>9. ASSUME NEW i \in 1 .. n + 1
        PROVE  next'[t[i]] = IF i = n + 1 THEN NULL ELSE t[i + 1]
    <3>1. CASE i = 1
      <4>1. next'[t[i]] = head[l]
        BY <1>5, <2>1, <2>4, <3>1
      <4>2. n # 0 => t[2] = s[1]
        BY <1>4, <2>3, <2>4
      <4>. QED BY <1>4, <3>1, <4>1, <4>2
    <3>2. CASE i # 1
      <4>1. i \in 2 .. n + 1 /\ i - 1 \in 1 .. n
        BY <1>4, <3>2
      <4>2. next'[t[i]] = next[s[i - 1]]
        BY <2>2, <2>4, <4>1
      <4>3. i # n + 1 => i + 1 \in 2 .. n + 1 /\ t[i + 1] = s[(i - 1) + 1]
        <5>1. i # n + 1 => i + 1 \in 2 .. n + 1 /\ (i + 1) - 1 = (i - 1) + 1
          BY <1>4, <4>1
        <5>. QED BY <2>4, <5>1
      <4>4. i = n + 1 <=> i - 1 = n
        BY <1>4, <4>1
      <4>. QED BY <1>4, <4>1, <4>2, <4>3, <4>4
    <3>. QED BY <3>1, <3>2
  <2>10. Lists(t, n + 1)
    BY <2>6, <2>7, <2>8, <2>9 DEF Lists, InListOrder
  <2>. QED BY <2>3, <2>5, <2>10
<1>9. CASE in[l] = NULL /\ out[l] = NULL
  <2>1. \A b \in A : b \in B /\ next'[b] = next[b]
    BY <1>1, <1>5, <1>9
  <2>2. \A b \in B : b \in A
    BY <1>1, <1>9, NullAssumption
  <2>3. head'[l] = head[l]
    BY <1>6, <1>9
  <2>4. A = B
    BY <2>1, <2>2
  <2>5. s \in [1 .. n -> B] /\ n \in Nat
    BY <1>4, <2>4
  <2>6. /\ \A b \in B : \E i \in 1 .. n : s[i] = b
        /\ head'[l] = IF n = 0 THEN NULL ELSE s[1]
        /\ \A i \in 1 .. n : next'[s[i]] = IF i = n THEN NULL ELSE s[i + 1]
    BY <1>4, <2>1, <2>2, <2>3
  <2>7. \A i, j \in 1 .. n : s[i] = s[j] => i = j
    BY <1>4
  <2>8. Lists(s, n)
    BY <2>6, <2>7 DEF Lists, InListOrder
  <2>. QED BY <2>5, <2>8
<1>10. CASE in[l] = NULL /\ out[l] # NULL
  <2>1. out[l] \in A
    BY <1>1, <1>10 DEF Pointers
  <2>2. PICK k \in 1 .. n : s[k] = out[l]
    BY <1>4, <2>1
  <2>. DEFINE t == [i \in 1 .. n - 1 |-> IF i < k THEN s[i] ELSE s[i + 1]]
  <2>3. /\ n - 1 \in Nat /\ n \in Nat /\ k \in Nat /\ 1 <= k /\ k <= n
        /\ \A i \in 1 .. n - 1 : /\ i \in 1 .. n /\ i + 1 \in 1 .. n
                                 /\ i < k => i # k
                                 /\ ~(i < k) => i + 1 # k
    BY <1>4
  <2>4. \A i \in 1 .. n : i # k => s[i] \in B
    BY <1>1, <1>4, <2>2
  <2>5. t \in [1 .. n - 1 -> B]
    BY <2>3, <2>4
  <2>6. \A i \in 1 .. n - 1 : t[i] = IF i < k THEN s[i] ELSE s[i + 1]
    OBVIOUS
  <2>. HIDE DEF t
  <2>7. \A i, j \in 1 .. n - 1 : t[i] = t[j] => i = j
    BY <1>4, <2>3, <2>6
  <2>8. ASSUME NEW b \in B PROVE \E i \in 1 .. n - 1 : t[i] = b
    <3>1. b \in A /\ b # out[l]
      BY <1>1, <1>10, NullAssumption
    <3>2. PICK i \in 1 .. n : s[i] = b
      BY <1>4, <3>1
    <3>3. i # k
      BY <2>2, <3>1, <3>2
    <3>4. CASE i < k
      <4>1. i \in 1 .. n - 1
        BY <2>3, <3>4
      <4>. QED BY <2>6, <3>2, <3>4, <4>1
    <3>5. CASE k < i
      <4>1. i - 1 \in 1 .. n - 1 /\ ~(i - 1 < k) /\ (i - 1) + 1 = i
        BY <2>3, <3>5
      <4>2. t[i - 1] = s[(i - 1) + 1]
        BY <2>6, <4>1
      <4>. QED BY <3>2, <4>1, <4>2
    <3>. QED BY <2>3, <3>3, <3>4, <3>5
  <2>9. prev[s[k]] = IF k = 1 THEN NULL ELSE s[k - 1]
    <3>1. CASE k = 1
      <4>1. head[l] = s[k] /\ head[l] # NULL
        BY <1>1, <1>4, <2>3, <3>1
      <4>. QED BY <3>1, <4>1 DEF HeadsFree
    <3>2. CASE k # 1
      <4>1. k - 1 \in 1 .. n /\ k - 1 # n /\ (k - 1) + 1 = k
        BY <2>3, <3>2
      <4>2. next[s[k - 1]] = s[k]
        BY <1>4, <4>1
      <4>3. s[k - 1] \in Slots /\ IsFree(s[k - 1]) /\ s[k] # NULL
        BY <1>1, <1>4, <4>1
      <4>. QED BY <3>2, <4>2, <4>3 DEF ListsLinked
    <3>. QED BY <3>1, <3>2
  <2>10. ASSUME NEW i \in 1 .. n, i # k
         PROVE  next'[s[i]] = IF i + 1 = k THEN next[s[k]] ELSE next[s[i]]
    <3>1. s[i] \in Slots /\ s[i][1] = l /\ s[i] # in[l] /\ s[i] \notin new
          /\ s[i] # NULL
      BY <1>1, <1>4, <1>10
    <3>2. next'[s[i]] = IF prev[s[k]] = s[i] THEN next[s[k]] ELSE next[s[i]]
      BY <1>5, <1>10, <2>2, <3>1
    <3>3. prev[s[k]] = s[i] <=> i + 1 = k
      <4>1. CASE k = 1
        <5>1. i + 1 # k
          BY <2>3, <4>1
        <5>. QED BY <2>9, <3>1, <4>1, <5>1
      <4>2. CASE k # 1
        <5>1. k - 1 \in 1 .. n /\ (i = k - 1 <=> i + 1 = k)
          BY <2>3, <4>2
        <5>. QED BY <1>4, <2>9, <4>2, <5>1
      <4>. QED BY <4>1, <4>2
    <3>. QED BY <3>2, <3>3
  <2>11. head'[l] = IF n - 1 = 0 THEN NULL ELSE t[1]
    <3>1. CASE k = 1
      <4>1. head'[l] = next[s[k]]
        BY <1>6, <1>10, <2>2, <2>9, <3>1
      <4>2. n - 1 # 0 => 1 \in 1 .. n - 1 /\ ~(1 < k) /\ t[1] = s[2]
        <5>1. n - 1 # 0 => 1 \in 1 .. n - 1 /\ ~(1 < k)
          BY <2>3, <3>1
        <5>. QED BY <2>6, <5>1
      <4>3. k = n <=> n - 1 = 0
        BY <2>3, <3>1
      <4>. QED BY <1>4, <2>3, <3>1, <4>1, <4>2, <4>3
    <3>2. CASE k # 1
      <4>1. prev[s[k]] # NULL
        <5>1. k - 1 \in 1 .. n
          BY <2>3, <3>2
        <5>. QED BY <1>1, <1>4, <2>9, <3>2, <5>1
      <4>2. head'[l] = s[1]
        BY <1>4, <1>6, <1>10, <2>2, <2>3, <4>1
      <4>3. 1 \in 1 .. n - 1 /\ 1 < k /\ n - 1 # 0
        BY <2>3, <3>2
      <4>. QED BY <2>6, <4>2, <4>3
    <3>. QED BY <3>1, <3>2
  <2>12. ASSUME NEW i \in 1 .. n - 1
         PROVE  next'[t[i]] = IF i = n - 1 THEN NULL ELSE t[i + 1]
    <3>1. CASE i + 1 < k
      <4>1. i \in 1 .. n /\ i # k /\ i + 1 # k /\ i < k /\ i # n /\ i # n - 1
            /\ i + 1 \in 1 .. n - 1
        BY <2>3, <3>1
      <4>. QED BY <1>4, <2>6, <2>10, <3>1, <4>1
    <3>2. CASE i + 1 = k
      <4>1. /\ i \in 1 .. n /\ i # k /\ i < k
            /\ i = n - 1 <=> k = n
            /\ i # n - 1 => i + 1 \in 1 .. n - 1 /\ ~(i + 1 < k)
        BY <2>3, <3>2
      <4>2. t[i] = s[i] /\ next'[t[i]] = next[s[k]]
        BY <2>6, <2>10, <3>2, <4>1
      <4>3. i # n - 1 => t[i + 1] = s[k + 1]
        BY <2>6, <3>2, <4>1
      <4>. QED BY <1>4, <4>1, <4>2, <4>3
    <3>3. CASE k < i + 1
      <4>1. /\ i + 1 \in 1 .. n /\ i + 1 # k /\ (i + 1) + 1 # k /\ ~(i < k)
            /\ i = n - 1 <=> i + 1 = n
            /\ i # n - 1 => i + 1 \in 1 .. n - 1 /\ ~(i + 1 < k)
        BY <2>3, <3>3
      <4>2. t[i] = s[i + 1] /\ next'[t[i]] = next[s[i + 1]]
        BY <2>6, <2>10, <4>1
      <4>3. i # n - 1 => t[i + 1] = s[(i + 1) + 1]
        BY <2>6, <4>1
      <4>. QED BY <1>4, <4>1, <4>2, <4>3
    <3>. QED BY <2>3, <3>1, <3>2, <3>3
  <2>13. Lists(t, n - 1)
    BY <2>7, <2>8, <2>11, <2>12 DEF Lists, InListOrder
  <2>. QED BY <2>3, <2>5, <2>13
<1>. QED BY <1>8, <1>9, <1>10

(* The free lists keep their type.                                         *)
LEMMA RelinkType ==
  ASSUME TypeOK,
         NEW out \in [Levels -> Pointers], NEW in \in [Levels -> Pointers],
         NEW new \in SUBSET Slots,
         Relink(out, in, new)
  PROVE  /\ next' \in [Slots -> Pointers]
         /\ prev' \in [Slots -> Pointers]
         /\ head' \in [Levels -> Pointers]
<1>1. /\ \A s \in Slots : s[1] \in Levels
      /\ NULL \in Pointers
      /\ \A p \in Pointers : p # NULL => p \in Slots
  BY SlotShape DEF Pointers
<1>2. /\ next \in [Slots -> Pointers] /\ prev \in [Slots -> Pointers]
      /\ head \in [Levels -> Pointers]
  BY DEF TypeOK
<1>3. next' \in [Slots -> Pointers]
  BY <1>1, <1>2 DEF Relink, linked_next
<1>4. prev' \in [Slots -> Pointers]
  BY <1>1, <1>2 DEF Relink, linked_prev
<1>5. head' \in [Levels -> Pointers]
  BY <1>1, <1>2 DEF Relink, linked_head
<1>. QED BY <1>3, <1>4, <1>5

-----------------------------------------------------------------------------
(* The initial state, creation and destruction.                            *)

(* The empty flags, links and heads are of their types.                    *)
LEMMA EmptyType ==
  /\ Unset \in [Slots -> BOOLEAN]
  /\ Unlinked \in [Slots -> Pointers]
  /\ None \in [Levels -> Pointers]
  /\ \A s \in Slots : Unset[s] = FALSE /\ Unlinked[s] = NULL
  /\ \A l \in Levels : None[l] = NULL
BY DEF Unset, Unlinked, None, Pointers

(* A state in which nothing exists satisfies the invariant.                *)
LEMMA NothingThere ==
  ASSUME live = FALSE, is_active = Unset, is_allocated = Unset,
         next = Unlinked, prev = Unlinked, head = None, handles = {},
         rc = "OK"
  PROVE  IndInv
<1>1. TypeOK
  BY EmptyType DEF TypeOK
<1>2. LinksInLevel /\ HeadsFree /\ ListsLinked /\ ActiveApart /\ HandlesExact
      /\ NoLeak /\ Coalesced
  BY EmptyType DEF LinksInLevel, HeadsFree, ListsLinked, ActiveApart,
     HandlesExact, NoLeak, Coalesced, IsFree
<1>3. Gone
  BY DEF Gone
<1>4. ListsOrdered
  <2>1. \A l \in Levels : FreeIn(l) = {} /\ head[l] = NULL
    BY EmptyType DEF FreeIn, IsFree
  <2>2. ASSUME NEW l \in Levels
        PROVE  \E n \in 0 .. Total : \E s \in [1 .. n -> FreeIn(l)] :
                 InListOrder(s, n, FreeIn(l), head[l], next)
    <3>1. \/ FreeIn(l) = {} /\ head[l] = NULL
          \/ FreeIn(l) = {head[l]} /\ next[head[l]] = NULL
      BY <2>1
    <3>. QED BY <3>1, ShortList
  <2>. QED BY <2>2 DEF ListsOrdered
<1>. QED BY <1>1, <1>2, <1>3, <1>4 DEF IndInv

(* Before the first creation nothing is there.                             *)
LEMMA InitInv == Init => IndInv
BY NothingThere DEF Init

(* A call that changes nothing but its result.                             *)
LEMMA RefusalInv ==
  ASSUME IndInv, UNCHANGED memory, rc' \in {"OK", "EINVAL", "ENFILE", "ENOMEM"}
  PROVE  IndInv'
<1>1. ListsOrdered'
  <2>1. \A l \in Levels : FreeIn(l)' = FreeIn(l)
    BY DEF FreeIn, IsFree, memory
  <2>2. head' = head /\ next' = next
    BY DEF memory
  <2>. QED BY <2>1, <2>2 DEF IndInv, ListsOrdered
<1>2. (TypeOK /\ LinksInLevel /\ HeadsFree /\ ListsLinked /\ ActiveApart
      /\ HandlesExact /\ NoLeak /\ Coalesced /\ Gone)'
  BY DEF IndInv, memory, TypeOK, LinksInLevel, HeadsFree, ListsLinked,
     ActiveApart, HandlesExact, NoLeak, Coalesced, Gone, IsFree
<1>. QED BY <1>1, <1>2 DEF IndInv

(* buddy_alloc_destroy leaves nothing behind.                              *)
LEMMA DestroyInv ==
  ASSUME buddy_alloc_destroy
  PROVE  IndInv'
<1>1. /\ live' = FALSE /\ is_active' = Unset /\ is_allocated' = Unset
      /\ next' = Unlinked /\ prev' = Unlinked /\ head' = None
      /\ handles' = {} /\ rc' = "OK"
  BY DEF buddy_alloc_destroy
<1>2. TypeOK'
  BY <1>1, EmptyType DEF TypeOK
<1>3. (LinksInLevel /\ HeadsFree /\ ListsLinked /\ ActiveApart /\ HandlesExact
      /\ NoLeak /\ Coalesced)'
  BY <1>1, EmptyType DEF LinksInLevel, HeadsFree, ListsLinked, ActiveApart,
     HandlesExact, NoLeak, Coalesced, IsFree
<1>4. ListsOrdered'
  <2>1. \A l \in Levels : FreeIn(l)' = {} /\ head'[l] = NULL
    BY <1>1, EmptyType DEF FreeIn, IsFree
  <2>2. ASSUME NEW l \in Levels
        PROVE  \E n \in 0 .. Total : \E s \in [1 .. n -> FreeIn(l)'] :
                 InListOrder(s, n, FreeIn(l)', head'[l], next')
    <3>1. \/ FreeIn(l)' = {} /\ head'[l] = NULL
          \/ FreeIn(l)' = {head'[l]} /\ next'[head'[l]] = NULL
      BY <2>1
    <3>. QED BY <3>1, ShortList
  <2>. QED BY <2>2 DEF ListsOrdered
<1>5. Gone'
  BY <1>1 DEF Gone
<1>. QED BY <1>2, <1>3, <1>4, <1>5 DEF IndInv

(* buddy_alloc_create lists the whole pool as one free block.              *)
LEMMA CreateInv ==
  ASSUME IndInv, buddy_alloc_create
  PROVE  IndInv'
<1>1. /\ is_active = Unset /\ is_allocated = Unset /\ next = Unlinked
      /\ prev = Unlinked /\ head = None /\ handles = {}
  BY DEF IndInv, Gone, buddy_alloc_create
<1>2. 0 \in Levels /\ Root \in Slots /\ Root[1] = 0 /\ Root[2] = 0 /\ Root # NULL
      /\ Root \in Pointers
  BY RootSlot, SlotShape, NullAssumption DEF Pointers
<1>3. /\ live' = TRUE /\ rc' = "OK" /\ handles' = {}
      /\ is_active' = [Unset EXCEPT ![Root] = TRUE]
      /\ is_allocated' = Unset /\ next' = Unlinked /\ prev' = Unlinked
      /\ head' = [None EXCEPT ![0] = Root]
  BY <1>1 DEF buddy_alloc_create
<1>4. /\ \A s \in Slots : is_active'[s] <=> s = Root
      /\ \A s \in Slots : is_allocated'[s] = FALSE /\ next'[s] = NULL /\ prev'[s] = NULL
      /\ \A l \in Levels : head'[l] = IF l = 0 THEN Root ELSE NULL
  BY <1>2, <1>3, EmptyType
<1>5. TypeOK'
  BY <1>2, <1>3, EmptyType DEF TypeOK
<1>6. (LinksInLevel /\ HeadsFree /\ ListsLinked)'
  BY <1>2, <1>4 DEF LinksInLevel, HeadsFree, ListsLinked, IsFree
<1>7. (ActiveApart /\ HandlesExact)'
  BY <1>2, <1>3, <1>4 DEF ActiveApart, HandlesExact
<1>8. NoLeak'
  <2>1. BlockSize[0] \in Nat /\ Total = BlockSize[0]
    BY <1>2, Sizes DEF Total
  <2>2. \A o \in 0 .. Total - 1 : Covers(Root, o)
    BY <1>2, <2>1 DEF Covers
  <2>. QED BY <1>2, <1>4, <2>2 DEF NoLeak
<1>9. Coalesced'
  BY <1>2, <1>4 DEF Coalesced, IsFree
<1>10. Gone'
  BY <1>3 DEF Gone
<1>11. ListsOrdered'
  <2>1. \A l \in Levels : l # 0 => FreeIn(l)' = {} /\ head'[l] = NULL
    BY <1>2, <1>4 DEF FreeIn, IsFree
  <2>2. FreeIn(0)' = {head'[0]} /\ next'[head'[0]] = NULL
    BY <1>2, <1>4 DEF FreeIn, IsFree
  <2>3. ASSUME NEW l \in Levels
        PROVE  \E n \in 0 .. Total : \E s \in [1 .. n -> FreeIn(l)'] :
                 InListOrder(s, n, FreeIn(l)', head'[l], next')
    <3>1. \/ FreeIn(l)' = {} /\ head'[l] = NULL
          \/ FreeIn(l)' = {head'[l]} /\ next'[head'[l]] = NULL
      BY <2>1, <2>2
    <3>. QED BY <3>1, ShortList
  <2>. QED BY <2>3 DEF ListsOrdered
<1>. QED BY <1>5, <1>6, <1>7, <1>8, <1>9, <1>10, <1>11 DEF IndInv

-----------------------------------------------------------------------------
(* A block of the requested level is there.                                *)

(* The first block of the level's own list is handed out.                  *)
LEMMA AllocateAtLevelInv ==
  ASSUME IndInv, NEW level \in Levels, allocate_at_level(level)
  PROVE  IndInv'
<1>. DEFINE b   == head[level]
            out == [None EXCEPT ![level] = b]
<1>1. b \in Slots /\ b # NULL /\ b[1] = level /\ IsFree(b)
  BY DEF IndInv, TypeOK, LinksInLevel, HeadsFree, IsFree, allocate_at_level, found_block
<1>2. /\ \A s \in Slots : is_active'[s] = is_active[s]
      /\ \A s \in Slots : is_allocated'[s] = (s = b \/ is_allocated[s])
      /\ is_active' = is_active /\ live' = live /\ rc' = "OK"
      /\ is_allocated' \in [Slots -> BOOLEAN]
      /\ handles' = handles \cup {b}
      /\ Relink(out, None, {})
  BY DEF allocate_at_level, set_allocated, IndInv, TypeOK
<1>3. /\ out \in [Levels -> Pointers] /\ None \in [Levels -> Pointers]
      /\ \A l \in Levels : out[l] = (IF l = level THEN b ELSE NULL) /\ None[l] = NULL
  BY <1>1, EmptyType DEF Pointers
<1>. HIDE DEF b, out
<1>4. TypeOK'
  <2>1. next' \in [Slots -> Pointers] /\ prev' \in [Slots -> Pointers]
        /\ head' \in [Levels -> Pointers]
    BY <1>2, <1>3, RelinkType DEF IndInv
  <2>. QED BY <1>1, <1>2, <2>1 DEF IndInv, TypeOK
<1>5. (LinksInLevel /\ HeadsFree /\ ListsLinked /\ ListsOrdered)'
  <2>1. \A s \in Slots : s[1] \in Levels /\ s # NULL
    BY SlotShape, NullAssumption
  <2>2. \A l \in Levels : out[l] # NULL =>
          None[l] = NULL /\ out[l][1] = l /\ IsFree(out[l])
    BY <1>1, <1>3
  <2>3. \A s \in Slots : IsFree(s)' <=>
          s = None[s[1]] \/ (IsFree(s) /\ s # out[s[1]])
    BY <1>1, <1>2, <1>3, <2>1 DEF IsFree
  <2>. QED BY <1>2, <1>3, <2>2, <2>3, RelinkKeepsLists, RelinkKeepsOrder DEF IndInv
<1>6. ActiveApart' /\ NoLeak'
  BY <1>2 DEF IndInv, ActiveApart, NoLeak
<1>7. HandlesExact'
  BY <1>1, <1>2 DEF IndInv, HandlesExact, IsFree
<1>8. Coalesced'
  BY <1>2 DEF IndInv, Coalesced, IsFree
<1>9. Gone'
  BY <1>2 DEF Gone, allocate_at_level
<1>. QED BY <1>4, <1>5, <1>6, <1>7, <1>8, <1>9 DEF IndInv

-----------------------------------------------------------------------------
(* A larger block is split.                                                *)

(* A range inside an active block holds no other active block.             *)
LEMMA InsideActive ==
  ASSUME ActiveApart, NEW b \in Slots, is_active[b], NEW s \in Slots, s # b,
         b[2] <= s[2], s[2] + BlockSize[s[1]] <= b[2] + BlockSize[b[1]]
  PROVE  /\ ~is_active[s]
         /\ \A c \in Slots : is_active[c] /\ c # b => Disjoint(c, s)
<1>1. b[2] \in Nat /\ s[2] \in Nat /\ BlockSize[s[1]] \in Nat /\ BlockSize[s[1]] > 0
      /\ BlockSize[b[1]] \in Nat
  BY SlotShape, Sizes
<1>2. ~Disjoint(s, b)
  BY <1>1 DEF Disjoint
<1>3. ~is_active[s]
  BY <1>2 DEF ActiveApart
<1>4. ASSUME NEW c \in Slots, is_active[c], c # b
      PROVE  Disjoint(c, s)
  <2>1. Disjoint(c, b)
    BY <1>4 DEF ActiveApart
  <2>2. c[2] \in Nat /\ BlockSize[c[1]] \in Nat
    BY SlotShape, Sizes
  <2>. QED BY <1>1, <2>1, <2>2 DEF Disjoint
<1>. QED BY <1>3, <1>4

(* What split_block_down does, once the failures of create_new_block are   *)
(* ruled out.                                                              *)
LEMMA SplitEffect ==
  ASSUME IndInv, NEW src \in Levels, NEW level \in Levels,
         split_block_down(src, level)
  PROVE  LET b     == head[src]
             below == {l \in Levels : src < l /\ l <= level}
             half  == [l \in Levels |-> IF l \in below
                                        THEN <<l, b[2] + BlockSize[l]>> ELSE NULL]
             first == <<level, b[2]>>
             new   == {half[l] : l \in below} \cup {first}
         IN
         /\ live /\ b \in Slots /\ b[1] = src /\ IsFree(b) /\ src < level
         /\ first \in Slots /\ \A l \in below : half[l] \in Slots /\ head[l] = NULL
         /\ \A s \in new : /\ s \in Slots /\ s # b /\ ~is_active[s]
                           /\ \A c \in Slots : is_active[c] /\ c # b => Disjoint(c, s)
         /\ is_active' = [s \in Slots |-> s \in new \/ (is_active[s] /\ s # b)]
         /\ is_allocated' = [s \in Slots |-> s = first \/ (s \notin new /\ is_allocated[s])]
         /\ Relink([None EXCEPT ![src] = b], half, new)
         /\ handles' = handles \cup {first}
         /\ rc' = "OK"
         /\ live' = live
<1>. DEFINE b     == head[src]
            below == {l \in Levels : src < l /\ l <= level}
            half  == [l \in Levels |-> IF l \in below
                                       THEN <<l, b[2] + BlockSize[l]>> ELSE NULL]
            first == <<level, b[2]>>
            new   == {half[l] : l \in below} \cup {first}
<1>1. b \in Slots /\ b # NULL /\ b[1] = src /\ IsFree(b) /\ src < level /\ live
  BY DEF IndInv, TypeOK, LinksInLevel, HeadsFree, IsFree, split_block_down,
     find_non_empty_level
<1>2. \A l \in below : head[l] = NULL
  BY DEF split_block_down, find_non_empty_level
<1>3. level \in below /\ b[1] \in Nat /\ \A l \in below : l \in Levels /\ b[1] < l
  <2>1. level \in Nat /\ src \in Nat
    BY Sizes
  <2>2. level \in below
    BY <1>1, <2>1
  <2>. HIDE DEF b
  <2>3. \A l \in below : l \in Levels /\ b[1] < l
    BY <1>1
  <2>. QED BY <1>1, <2>1, <2>2, <2>3
<1>4. ASSUME NEW l \in below
      PROVE  /\ half[l] = <<l, get_buddy_offset(b[2], BlockSize[l])>>
             /\ half[l] = <<l, b[2] + BlockSize[l]>>
             /\ half[l] \in Slots /\ <<l, b[2]>> \in Slots
             /\ half[l] # b /\ <<l, b[2]>> # b
             /\ ~is_active[half[l]] /\ ~is_active[<<l, b[2]>>]
             /\ \A c \in Slots : is_active[c] /\ c # b =>
                  Disjoint(c, half[l]) /\ Disjoint(c, <<l, b[2]>>)
  <2>1. l \in Levels /\ b[1] < l
    BY <1>3
  <2>2. half[l] = <<l, b[2] + BlockSize[l]>>
    BY <2>1
  <2>3. /\ <<l, b[2]>> \in Slots
        /\ <<l, b[2] + BlockSize[l]>> \in Slots
        /\ get_buddy_offset(b[2], BlockSize[l]) = b[2] + BlockSize[l]
        /\ b[2] + 2 * BlockSize[l] <= b[2] + BlockSize[b[1]]
    BY <1>1, <2>1, SplitShape
  <2>4. b[2] \in Nat /\ BlockSize[l] \in Nat /\ BlockSize[b[1]] \in Nat /\ l \in Nat
        /\ is_active[b] /\ ActiveApart
    BY <1>1, <2>1, SlotShape, Sizes DEF IsFree, IndInv
  <2>. HIDE DEF half, below, b
  <2>5. <<l, b[2]>> # b /\ half[l] # b
    BY <2>1, <2>2, <2>4, <1>3
  <2>6. /\ ~is_active[<<l, b[2]>>]
        /\ \A c \in Slots : is_active[c] /\ c # b => Disjoint(c, <<l, b[2]>>)
    <3>. DEFINE s == <<l, b[2]>>
    <3>1. s \in Slots /\ s # b /\ b[2] <= s[2]
          /\ s[2] + BlockSize[s[1]] <= b[2] + BlockSize[b[1]]
      BY <2>3, <2>4, <2>5
    <3>. QED BY <1>1, <2>4, <3>1, InsideActive
  <2>7. /\ ~is_active[half[l]]
        /\ \A c \in Slots : is_active[c] /\ c # b => Disjoint(c, half[l])
    <3>1. half[l] \in Slots /\ b[2] <= half[l][2]
          /\ half[l][2] + BlockSize[half[l][1]] <= b[2] + BlockSize[b[1]]
      BY <2>2, <2>3, <2>4
    <3>. QED BY <1>1, <2>4, <2>5, <3>1, InsideActive
  <2>. QED BY <2>2, <2>3, <2>5, <2>6, <2>7
<1>5. first \in Slots /\ ~is_active[first] /\ first # b
      /\ \A c \in Slots : is_active[c] /\ c # b => Disjoint(c, first)
  BY <1>3, <1>4
<1>. DEFINE Half(l) == <<l, get_buddy_offset(b[2], BlockSize[l])>>
            created == {l \in below : \A k \in below :
                          k <= l => create_new_block(Half(k), b)}
            done    == created = below /\ create_new_block(first, b)
            made    == {Half(l) : l \in created} \cup (IF done THEN {first} ELSE {})
<1>6. created = below /\ done
  BY <1>4, <1>5 DEF create_new_block
<1>7. made = new
  BY <1>4, <1>6
<1>8. /\ is_active' = [s \in Slots |-> s \in made \/ (is_active[s] /\ s # b)]
      /\ is_allocated' = set_allocated(made, made \cap {first})
      /\ Relink([None EXCEPT ![src] = b],
                [l \in Levels |-> IF l \in created THEN Half(l) ELSE NULL], made)
      /\ handles' = (IF done THEN handles \cup {first} ELSE handles)
      /\ rc' = (IF done THEN "OK" ELSE "EINVAL")
      /\ live' = live
  BY DEF split_block_down, SplitLevels
<1>9. [l \in Levels |-> IF l \in created THEN Half(l) ELSE NULL] = half
  BY <1>4, <1>6
<1>10. is_allocated' = [s \in Slots |-> s = first \/ (s \notin new /\ is_allocated[s])]
  BY <1>7, <1>8 DEF set_allocated
<1>11. \A s \in new : /\ s \in Slots /\ s # b /\ ~is_active[s]
                      /\ \A c \in Slots : is_active[c] /\ c # b => Disjoint(c, s)
  <2>. HIDE DEF b, below, half, first
  <2>1. ASSUME NEW l \in below
        PROVE  /\ half[l] \in Slots /\ half[l] # b /\ ~is_active[half[l]]
               /\ \A c \in Slots : is_active[c] /\ c # b => Disjoint(c, half[l])
    BY <1>4
  <2>. QED BY <1>5, <2>1
<1>. HIDE DEF b, below, half, first, new, made, created, done, Half
<1>12. /\ is_active' = [s \in Slots |-> s \in new \/ (is_active[s] /\ s # b)]
       /\ Relink([None EXCEPT ![src] = b], half, new)
       /\ handles' = handles \cup {first}
       /\ rc' = "OK" /\ live' = live
  BY <1>6, <1>7, <1>8, <1>9
<1>13. \A l \in below : half[l] \in Slots /\ head[l] = NULL
  BY <1>2, <1>4
<1>. QED BY <1>1, <1>5, <1>10, <1>11, <1>12, <1>13 DEF b, below, half, first, new

(* The first half of a larger block, halved down to the level, is handed   *)
(* out.                                                                    *)
LEMMA SplitInv ==
  ASSUME IndInv, NEW src \in Levels, NEW level \in Levels,
         split_block_down(src, level)
  PROVE  IndInv'
<1>. DEFINE b     == head[src]
            below == {l \in Levels : src < l /\ l <= level}
            half  == [l \in Levels |-> IF l \in below
                                       THEN <<l, b[2] + BlockSize[l]>> ELSE NULL]
            first == <<level, b[2]>>
            new   == {half[l] : l \in below} \cup {first}
            out   == [None EXCEPT ![src] = b]
<1>1. /\ live /\ b \in Slots /\ b[1] = src /\ IsFree(b) /\ src < level
      /\ first \in Slots /\ \A l \in below : half[l] \in Slots /\ head[l] = NULL
      /\ \A s \in new : /\ s \in Slots /\ s # b /\ ~is_active[s]
                        /\ \A c \in Slots : is_active[c] /\ c # b => Disjoint(c, s)
      /\ is_active' = [s \in Slots |-> s \in new \/ (is_active[s] /\ s # b)]
      /\ is_allocated' = [s \in Slots |-> s = first \/ (s \notin new /\ is_allocated[s])]
      /\ Relink(out, half, new)
      /\ handles' = handles \cup {first}
      /\ rc' = "OK"
      /\ live' = live
  BY SplitEffect
<1>2. /\ \A l \in below : half[l] = <<l, b[2] + BlockSize[l]>> /\ half[l] \in new
      /\ \A l \in Levels : l \notin below => half[l] = NULL
      /\ \A s \in new : s = first \/ \E l \in below : s = half[l]
      /\ first \in new /\ first[1] = level /\ first[2] = b[2]
      /\ \A l \in below : l \in Levels /\ src < l /\ l <= level
      /\ src \notin below
  <2>1. src \in Nat
    BY Sizes
  <2>. QED BY <2>1
<1>3. /\ \A s \in Slots : s[1] \in Levels /\ s # NULL /\ s[2] \in Nat
      /\ \A l \in Levels : l \in Nat /\ BlockSize[l] \in Nat /\ BlockSize[l] > 0
      /\ b[2] \in Nat
  BY <1>1, SlotShape, Sizes, NullAssumption
<1>4. /\ \A l \in Levels : out[l] = IF l = src THEN b ELSE NULL
      /\ out \in [Levels -> Pointers] /\ half \in [Levels -> Pointers]
  BY <1>1, EmptyType DEF Pointers
<1>5. /\ TypeOK /\ LinksInLevel /\ HeadsFree /\ ListsLinked /\ ListsOrdered /\ ActiveApart
      /\ HandlesExact /\ NoLeak /\ Coalesced
  BY DEF IndInv
<1>6. level \in below
  BY <1>1, <1>3
<1>. HIDE DEF b, below, half, first, new, out
<1>7. \A s \in Slots : /\ is_active'[s] <=> s \in new \/ (is_active[s] /\ s # b)
                       /\ is_allocated'[s] <=> s = first \/ (s \notin new /\ is_allocated[s])
  BY <1>1
<1>8. new \in SUBSET Slots
  BY <1>1
<1>9. TypeOK'
  <2>1. next' \in [Slots -> Pointers] /\ prev' \in [Slots -> Pointers]
        /\ head' \in [Levels -> Pointers]
    BY <1>1, <1>4, <1>5, <1>8, RelinkType
  <2>2. is_active' \in [Slots -> BOOLEAN] /\ is_allocated' \in [Slots -> BOOLEAN]
    <3>1. \A s \in Slots : is_active[s] \in BOOLEAN /\ is_allocated[s] \in BOOLEAN
      BY <1>5 DEF TypeOK
    <3>. QED BY <1>1, <3>1
  <2>. QED BY <1>1, <1>5, <2>1, <2>2 DEF TypeOK
<1>10. (LinksInLevel /\ HeadsFree /\ ListsLinked /\ ListsOrdered)'
  <2>1. \A l \in Levels : out[l] # NULL =>
          half[l] = NULL /\ out[l][1] = l /\ IsFree(out[l])
    BY <1>1, <1>2, <1>4
  <2>2. \A l \in Levels : half[l] # NULL => half[l][1] = l /\ half[l] \in new
    BY <1>2
  <2>3. \A s \in new : ~IsFree(s)
    BY <1>1 DEF IsFree
  <2>4. ASSUME NEW s \in Slots
        PROVE  IsFree(s)' <=> s = half[s[1]] \/ (IsFree(s) /\ s # out[s[1]])
    <3>1. CASE s = first
      <4>1. s # half[s[1]]
        BY <3>1, <1>2, <1>3, <1>6
      <4>. QED BY <3>1, <4>1, <1>2, <1>7, <2>3 DEF IsFree
    <3>2. CASE s # first /\ s \in new
      <4>1. s = half[s[1]]
        BY <3>2, <1>2
      <4>. QED BY <3>2, <4>1, <1>1, <1>7 DEF IsFree
    <3>3. CASE s \notin new
      <4>1. s # half[s[1]]
        BY <3>3, <1>2, <1>3
      <4>2. s = b <=> s = out[s[1]]
        BY <1>1, <1>3, <1>4
      <4>3. s # first
        BY <3>3, <1>2
      <4>. QED BY <3>3, <4>1, <4>2, <4>3, <1>7 DEF IsFree
    <3>. QED BY <3>1, <3>2, <3>3
  <2>. QED BY <1>1, <1>4, <1>5, <1>8, <2>1, <2>2, <2>3, <2>4, RelinkKeepsLists,
           RelinkKeepsOrder
<1>11. ActiveApart'
  <2>1. SUFFICES ASSUME NEW s \in Slots, NEW t \in Slots,
                        is_active'[s], is_active'[t], s # t
                 PROVE  Disjoint(s, t)
    BY DEF ActiveApart
  <2>2. CASE s \notin new /\ t \notin new
    BY <2>1, <2>2, <1>5, <1>7 DEF ActiveApart
  <2>3. CASE s \notin new /\ t \in new
    BY <2>1, <2>3, <1>1, <1>7
  <2>4. CASE s \in new /\ t \notin new
    BY <2>1, <2>4, <1>1, <1>7, DisjointSymmetric
  <2>5. CASE s \in new /\ t \in new
    <3>1. /\ s = first \/ \E k \in below : s = <<k, b[2] + BlockSize[k]>>
          /\ t = first \/ \E k \in below : t = <<k, b[2] + BlockSize[k]>>
      BY <2>5, <1>2
    <3>2. ASSUME NEW k \in below
          PROVE  /\ Disjoint(<<k, b[2] + BlockSize[k]>>, first)
                 /\ Disjoint(first, <<k, b[2] + BlockSize[k]>>)
                 /\ \A l \in below : k # l =>
                      Disjoint(<<k, b[2] + BlockSize[k]>>, <<l, b[2] + BlockSize[l]>>)
      <4>1. k \in Levels /\ b[1] < k /\ k <= level /\ b[1] < level
        BY <1>1, <1>2
      <4>2. \A l \in below : l \in Levels /\ b[1] < l
        BY <1>1, <1>2
      <4>. QED BY <1>1, <4>1, <4>2, SplitApart DEF first
    <3>. QED BY <2>1, <3>1, <3>2
  <2>. QED BY <2>2, <2>3, <2>4, <2>5
<1>12. HandlesExact'
  <2>1. handles = {s \in Slots : is_active[s] /\ is_allocated[s]}
    BY <1>5 DEF HandlesExact
  <2>2. ~is_allocated[b]
    BY <1>1 DEF IsFree
  <2>3. \A s \in Slots : s \in handles' <=> is_active'[s] /\ is_allocated'[s]
    BY <1>1, <1>2, <1>7, <2>1, <2>2
  <2>4. handles' \subseteq Slots
    BY <1>1, <2>1
  <2>. QED BY <2>3, <2>4 DEF HandlesExact
<1>13. NoLeak'
  <2>1. SUFFICES ASSUME NEW o \in 0 .. Total - 1
                 PROVE  \E c \in Slots : is_active'[c] /\ Covers(c, o)
    BY DEF NoLeak
  <2>2. PICK c \in Slots : is_active[c] /\ Covers(c, o)
    BY <1>1, <1>5 DEF NoLeak
  <2>3. CASE c # b
    BY <2>2, <2>3, <1>7
  <2>4. CASE c = b
    <3>1. o \in Nat /\ b[1] < level
      BY <1>1, SizeAssumption DEF Total, Levels
    <3>2. \/ Covers(first, o)
          \/ \E l \in Levels : /\ b[1] < l /\ l <= level
                               /\ Covers(<<l, b[2] + BlockSize[l]>>, o)
      BY <1>1, <2>2, <2>4, <3>1, SplitCovers DEF first
    <3>3. \A l \in Levels : b[1] < l /\ l <= level => l \in below
      BY <1>1 DEF below
    <3>4. CASE Covers(first, o)
      BY <1>1, <1>2, <1>7, <3>4
    <3>5. ASSUME NEW l \in below, Covers(<<l, b[2] + BlockSize[l]>>, o)
          PROVE  \E x \in Slots : is_active'[x] /\ Covers(x, o)
      <4>1. half[l] \in Slots /\ half[l] \in new /\ Covers(half[l], o)
        BY <1>1, <1>2, <3>5
      <4>. QED BY <1>7, <4>1
    <3>. QED BY <3>2, <3>3, <3>4, <3>5
  <2>. QED BY <2>3, <2>4
<1>14. Coalesced'
  <2>1. ASSUME NEW l \in below
        PROVE  /\ <<l, b[2]>> \in Slots /\ Buddy(half[l]) = <<l, b[2]>>
               /\ ~(is_active'[<<l, b[2]>>] /\ ~is_allocated'[<<l, b[2]>>])
    <3>1. l \in Levels /\ b[1] < l /\ 0 < l
      BY <1>1, <1>2, <1>3
    <3>2. <<l, b[2]>> \in Slots
          /\ get_buddy_offset(b[2], BlockSize[l]) = b[2] + BlockSize[l]
      BY <1>1, <3>1, SplitShape
    <3>3. Buddy(<<l, b[2]>>) = half[l]
      BY <1>2, <3>2 DEF Buddy
    <3>. DEFINE u == <<l, b[2]>>
    <3>4. u \in Slots /\ u[1] > 0
      BY <3>1, <3>2
    <3>5. Buddy(Buddy(u)) = u
      BY <3>4, BuddySlot
    <3>6. CASE u = first
      BY <3>2, <3>3, <3>5, <3>6, <1>7
    <3>7. CASE u # first
      <4>1. ~Disjoint(u, first)
        BY <1>2, <1>3, <3>1 DEF Disjoint
      <4>2. is_active'[first]
        BY <1>1, <1>2, <1>7
      <4>3. ~is_active'[u]
        BY <1>1, <1>11, <3>2, <3>7, <4>1, <4>2 DEF ActiveApart
      <4>. QED BY <3>2, <3>3, <3>5, <4>3
    <3>. QED BY <3>6, <3>7
  <2>2. SUFFICES ASSUME NEW s \in Slots, s[1] > 0, IsFree(s)', IsFree(Buddy(s))'
                 PROVE  FALSE
    BY DEF Coalesced, IsFree
  <2>. DEFINE u == Buddy(s)
  <2>3. u \in Slots /\ Buddy(u) = s
    BY <2>2, BuddySlot
  <2>4. /\ is_active'[s] /\ ~is_allocated'[s]
        /\ is_active'[u] /\ ~is_allocated'[u]
    BY <2>2, <2>3 DEF IsFree
  <2>. HIDE DEF u
  <2>5. ASSUME NEW x \in Slots, is_active'[x], ~is_allocated'[x]
        PROVE  \/ x \notin new /\ is_active[x] /\ ~is_allocated[x]
               \/ \E l \in below : x = half[l]
    BY <2>5, <1>2, <1>7
  <2>6. CASE \E l \in below : s = half[l]
    BY <2>1, <2>4, <2>6 DEF u
  <2>7. CASE \E l \in below : u = half[l]
    BY <2>1, <2>3, <2>4, <2>7
  <2>8. CASE /\ is_active[s] /\ ~is_allocated[s]
             /\ is_active[u] /\ ~is_allocated[u]
    BY <2>2, <2>3, <2>8, <1>5 DEF Coalesced, IsFree, u
  <2>. QED BY <2>3, <2>4, <2>5, <2>6, <2>7, <2>8
<1>15. Gone'
  BY <1>1 DEF Gone
<1>. QED BY <1>9, <1>10, <1>11, <1>12, <1>13, <1>14, <1>15 DEF IndInv

-----------------------------------------------------------------------------
(* A block is freed and merged.                                            *)

(* What buddy_alloc_free does, once the failure of create_new_block is     *)
(* ruled out.                                                              *)
LEMMA FreeEffect ==
  ASSUME IndInv, NEW b \in handles, NEW level \in Levels,
         buddy_alloc_free(b, level)
  PROVE  LET merged == Enclosing(b, level)
             out    == [l \in Levels |-> IF level < l /\ l <= b[1]
                                         THEN Buddy(Enclosing(b, l)) ELSE NULL]
         IN
         /\ live /\ b \in Slots /\ is_active[b] /\ is_allocated[b] /\ level <= b[1]
         /\ merged \in Slots /\ merged[1] = level
         /\ merged = b \/ ~is_active[merged]
         /\ \A l \in Levels : level < l /\ l <= b[1] =>
              /\ out[l] \in Slots /\ out[l][1] = l /\ IsFree(out[l])
         /\ level > 0 => ~IsFree(Buddy(merged))
         /\ is_active' = [s \in Slots |->
              s = merged \/ (is_active[s] /\ s # b /\ s # out[s[1]])]
         /\ is_allocated' = [s \in Slots |-> s # merged /\ is_allocated[s]]
         /\ Relink(out, [None EXCEPT ![level] = merged], {merged})
         /\ handles' = handles \ {b}
         /\ rc' = "OK"
         /\ live' = live
<1>. DEFINE merged == Enclosing(b, level)
            out    == [l \in Levels |-> IF level < l /\ l <= b[1]
                                        THEN Buddy(Enclosing(b, l)) ELSE NULL]
            done   == create_new_block(merged, b)
            new    == IF done THEN {merged} ELSE {}
<1>1. b \in Slots /\ is_active[b] /\ is_allocated[b] /\ ActiveApart
  BY DEF IndInv, HandlesExact
<1>2. /\ live /\ level <= b[1]
      /\ \A l \in Levels : level < l /\ l <= b[1] => IsFree(Buddy(Enclosing(b, l)))
      /\ level > 0 => ~IsFree(Buddy(Enclosing(b, level)))
  BY DEF buddy_alloc_free, MergesUpTo
<1>3. /\ merged \in Slots /\ merged[1] = level
      /\ merged[2] <= b[2]
      /\ b[2] + BlockSize[b[1]] <= merged[2] + BlockSize[level]
  BY <1>1, <1>2, EnclosingSlot
<1>4. merged = b \/ ~is_active[merged]
  <2>1. ~Disjoint(merged, b)
    <3>1. b[1] \in Levels /\ b[2] \in Nat /\ merged[2] \in Nat
          /\ BlockSize[b[1]] \in Nat /\ BlockSize[b[1]] > 0 /\ BlockSize[level] \in Nat
      BY <1>1, <1>3, SlotShape, Sizes
    <3>. HIDE DEF merged
    <3>. QED BY <1>3, <3>1 DEF Disjoint
  <2>. QED BY <1>1, <1>3, <2>1 DEF ActiveApart
<1>5. ASSUME NEW l \in Levels, level < l, l <= b[1]
      PROVE  out[l] \in Slots /\ out[l][1] = l /\ IsFree(out[l])
  <2>1. out[l] = Buddy(Enclosing(b, l))
    BY <1>5
  <2>2. Enclosing(b, l) \in Slots /\ Enclosing(b, l)[1] = l
    BY <1>1, <1>5, EnclosingSlot
  <2>3. l > 0
    BY <1>5, Sizes
  <2>. QED BY <1>2, <1>5, <2>1, <2>2, <2>3, BuddySlot
<1>6. done
  BY <1>4 DEF create_new_block
<1>7. /\ is_active' = [s \in Slots |-> s \in new \/ (is_active[s] /\ s # b /\ s # out[s[1]])]
      /\ is_allocated' = set_allocated(new, {})
      /\ Relink(out, [None EXCEPT ![level] = IF done THEN merged ELSE NULL], new)
      /\ handles' = handles \ {b}
      /\ rc' = (IF done THEN "OK" ELSE "EINVAL")
      /\ live' = live
  BY DEF buddy_alloc_free
<1>8. new = {merged} /\ (IF done THEN merged ELSE NULL) = merged
  BY <1>6
<1>9. is_allocated' = [s \in Slots |-> s # merged /\ is_allocated[s]]
  BY <1>7, <1>8 DEF set_allocated
<1>10. is_active' = [s \in Slots |->
         s = merged \/ (is_active[s] /\ s # b /\ s # out[s[1]])]
  BY <1>7, <1>8
<1>. HIDE DEF merged, out, done, new
<1>11. /\ Relink(out, [None EXCEPT ![level] = merged], {merged})
       /\ handles' = handles \ {b} /\ rc' = "OK" /\ live' = live
  BY <1>6, <1>7, <1>8
<1>12. level > 0 => ~IsFree(Buddy(merged))
  BY <1>2 DEF merged
<1>. QED BY <1>1, <1>2, <1>3, <1>4, <1>5, <1>9, <1>10, <1>11, <1>12 DEF merged, out

(* The freed block, merged with its free buddies, is listed.               *)
LEMMA FreeInv ==
  ASSUME IndInv, NEW b \in handles, NEW level \in Levels,
         buddy_alloc_free(b, level)
  PROVE  IndInv'
<1>. DEFINE merged == Enclosing(b, level)
            out    == [l \in Levels |-> IF level < l /\ l <= b[1]
                                        THEN Buddy(Enclosing(b, l)) ELSE NULL]
            in     == [None EXCEPT ![level] = merged]
<1>1. /\ live /\ b \in Slots /\ is_active[b] /\ is_allocated[b] /\ level <= b[1]
      /\ merged \in Slots /\ merged[1] = level
      /\ merged = b \/ ~is_active[merged]
      /\ \A l \in Levels : level < l /\ l <= b[1] =>
           /\ out[l] \in Slots /\ out[l][1] = l /\ IsFree(out[l])
      /\ level > 0 => ~IsFree(Buddy(merged))
      /\ is_active' = [s \in Slots |->
           s = merged \/ (is_active[s] /\ s # b /\ s # out[s[1]])]
      /\ is_allocated' = [s \in Slots |-> s # merged /\ is_allocated[s]]
      /\ Relink(out, in, {merged})
      /\ handles' = handles \ {b}
      /\ rc' = "OK"
      /\ live' = live
  BY FreeEffect
<1>2. /\ \A l \in Levels : level < l /\ l <= b[1] => out[l] = Buddy(Enclosing(b, l))
      /\ \A l \in Levels : ~(level < l /\ l <= b[1]) => out[l] = NULL
      /\ \A l \in Levels : in[l] = IF l = level THEN merged ELSE NULL
  BY EmptyType
<1>3. /\ \A s \in Slots : s[1] \in Levels /\ s # NULL /\ s[2] \in Nat
      /\ \A l \in Levels : l \in Nat /\ BlockSize[l] \in Nat /\ BlockSize[l] > 0
      /\ out \in [Levels -> Pointers] /\ in \in [Levels -> Pointers]
  BY <1>1, SlotShape, Sizes, NullAssumption, EmptyType DEF Pointers
<1>4. /\ TypeOK /\ LinksInLevel /\ HeadsFree /\ ListsLinked /\ ListsOrdered /\ ActiveApart
      /\ HandlesExact /\ NoLeak /\ Coalesced
  BY DEF IndInv
<1>. HIDE DEF merged, out, in
<1>5. \A s \in Slots :
        /\ is_active'[s] <=> s = merged \/ (is_active[s] /\ s # b /\ s # out[s[1]])
        /\ is_allocated'[s] <=> s # merged /\ is_allocated[s]
  BY <1>1
<1>6. TypeOK'
  <2>1. next' \in [Slots -> Pointers] /\ prev' \in [Slots -> Pointers]
        /\ head' \in [Levels -> Pointers]
    BY <1>1, <1>3, <1>4, RelinkType
  <2>2. is_active' \in [Slots -> BOOLEAN] /\ is_allocated' \in [Slots -> BOOLEAN]
    <3>1. \A s \in Slots : is_active[s] \in BOOLEAN /\ is_allocated[s] \in BOOLEAN
      BY <1>4 DEF TypeOK
    <3>. QED BY <1>1, <3>1
  <2>. QED BY <1>1, <1>4, <2>1, <2>2 DEF TypeOK
<1>7. (LinksInLevel /\ HeadsFree /\ ListsLinked /\ ListsOrdered)'
  <2>1. \A l \in Levels : out[l] # NULL =>
          in[l] = NULL /\ out[l][1] = l /\ IsFree(out[l])
    BY <1>1, <1>2, <1>3
  <2>2. \A l \in Levels : in[l] # NULL => in[l][1] = l /\ in[l] \in {merged}
    BY <1>1, <1>2
  <2>3. \A s \in {merged} : ~IsFree(s)
    BY <1>1 DEF IsFree
  <2>4. ASSUME NEW s \in Slots
        PROVE  IsFree(s)' <=> s = in[s[1]] \/ (IsFree(s) /\ s # out[s[1]])
    <3>1. s = in[s[1]] <=> s = merged
      BY <1>1, <1>2, <1>3
    <3>. QED BY <1>1, <1>5, <3>1 DEF IsFree
  <2>. QED BY <1>1, <1>3, <1>4, <2>1, <2>2, <2>3, <2>4, RelinkKeepsLists,
           RelinkKeepsOrder
<1>8. ASSUME NEW c \in Slots, is_active[c], c # b, c # out[c[1]]
      PROVE  Disjoint(c, merged)
  <2>1. Disjoint(c, b)
    BY <1>1, <1>4, <1>8 DEF ActiveApart
  <2>2. ASSUME NEW l \in Levels, level < l, l <= b[1]
        PROVE  Disjoint(c, Buddy(Enclosing(b, l)))
    <3>1. out[l] \in Slots /\ out[l][1] = l /\ is_active[out[l]]
          /\ out[l] = Buddy(Enclosing(b, l))
      BY <1>1, <1>2, <2>2 DEF IsFree
    <3>. QED BY <1>4, <1>8, <3>1 DEF ActiveApart
  <2>. QED BY <1>1, <2>1, <2>2, ApartFromMerged DEF merged
<1>9. ActiveApart'
  <2>1. SUFFICES ASSUME NEW s \in Slots, NEW t \in Slots,
                        is_active'[s], is_active'[t], s # t
                 PROVE  Disjoint(s, t)
    BY DEF ActiveApart
  <2>2. CASE s # merged /\ t # merged
    BY <2>1, <2>2, <1>4, <1>5 DEF ActiveApart
  <2>3. CASE s # merged /\ t = merged
    BY <2>1, <2>3, <1>5, <1>8
  <2>4. CASE s = merged /\ t # merged
    BY <2>1, <2>4, <1>5, <1>8, DisjointSymmetric
  <2>. QED BY <2>1, <2>2, <2>3, <2>4
<1>10. HandlesExact'
  <2>1. handles = {s \in Slots : is_active[s] /\ is_allocated[s]}
    BY <1>4 DEF HandlesExact
  <2>2. ASSUME NEW s \in Slots, is_allocated[s]
        PROVE  s # out[s[1]]
    <3>1. out[s[1]] # NULL => ~is_allocated[out[s[1]]]
      BY <1>1, <1>2, <1>3 DEF IsFree
    <3>. QED BY <1>3, <2>2, <3>1
  <2>3. \A s \in Slots : s \in handles' <=> is_active'[s] /\ is_allocated'[s]
    BY <1>1, <1>5, <2>1, <2>2
  <2>4. handles' \subseteq Slots
    BY <1>1, <2>1
  <2>. QED BY <2>3, <2>4 DEF HandlesExact
<1>11. NoLeak'
  <2>1. SUFFICES ASSUME NEW o \in 0 .. Total - 1
                 PROVE  \E c \in Slots : is_active'[c] /\ Covers(c, o)
    BY DEF NoLeak
  <2>2. PICK c \in Slots : is_active[c] /\ Covers(c, o)
    BY <1>1, <1>4 DEF NoLeak
  <2>3. CASE c # b /\ c # out[c[1]]
    BY <2>2, <2>3, <1>5
  <2>4. ASSUME c = b \/ c = out[c[1]]
        PROVE  merged[2] <= c[2] /\ c[2] + BlockSize[c[1]] <= merged[2] + BlockSize[level]
    <3>1. CASE c = b
      BY <1>1, <3>1, EnclosingSlot DEF merged
    <3>2. CASE c = out[c[1]]
      <4>1. c[1] \in Levels /\ level < c[1] /\ c[1] <= b[1]
            /\ c = Buddy(Enclosing(b, c[1]))
        BY <1>2, <1>3, <3>2
      <4>. DEFINE l == c[1]
                  u == Buddy(Enclosing(b, l))
      <4>2. merged[2] <= u[2] /\ u[2] + BlockSize[l] <= merged[2] + BlockSize[level]
        BY <1>1, <4>1, AbsorbedInside DEF merged
      <4>. QED BY <4>1, <4>2
    <3>. QED BY <2>4, <3>1, <3>2
  <2>5. CASE c = b \/ c = out[c[1]]
    <3>1. o \in Nat
      BY SizeAssumption DEF Total, Levels
    <3>2. Covers(merged, o)
      BY <1>1, <1>3, <2>2, <2>4, <2>5, <3>1 DEF Covers
    <3>. QED BY <1>1, <1>5, <3>2
  <2>. QED BY <2>3, <2>5
<1>12. Coalesced'
  <2>1. SUFFICES ASSUME NEW s \in Slots, s[1] > 0, IsFree(s)', IsFree(Buddy(s))'
                 PROVE  FALSE
    BY DEF Coalesced, IsFree
  <2>. DEFINE u == Buddy(s)
  <2>2. u \in Slots /\ Buddy(u) = s /\ u # s /\ u[1] = s[1]
    BY <2>1, BuddySlot
  <2>3. /\ is_active'[s] /\ ~is_allocated'[s]
        /\ is_active'[u] /\ ~is_allocated'[u]
    BY <2>1, <2>2 DEF IsFree
  <2>. HIDE DEF u
  <2>4. CASE s = merged
    BY <1>1, <1>5, <2>1, <2>2, <2>3, <2>4 DEF IsFree, u
  <2>5. CASE u = merged
    BY <1>1, <1>5, <2>1, <2>2, <2>3, <2>5 DEF IsFree
  <2>6. CASE s # merged /\ u # merged
    BY <1>4, <1>5, <2>1, <2>2, <2>3, <2>6 DEF Coalesced, IsFree, u
  <2>. QED BY <2>4, <2>5, <2>6
<1>13. Gone'
  BY <1>1 DEF Gone
<1>. QED BY <1>6, <1>7, <1>9, <1>10, <1>11, <1>12, <1>13 DEF IndInv

-----------------------------------------------------------------------------
(* What the loop of buddy_alloc_count_free_blocks passes.                 *)

(* The walk along a list that is in order passes the blocks in that order  *)
(* and stays at the end.                                                   *)
LEMMA WalkInOrder ==
  ASSUME NEW l \in Levels, NEW n \in Nat, NEW s \in [1 .. n -> FreeIn(l)],
         InListOrder(s, n, FreeIn(l), head[l], next), NEW k \in Nat
  PROVE  Walk(l)[k] = IF k < n THEN s[k + 1] ELSE NULL
<1>. DEFINE Steps(f) == f = [i \in Nat |-> IF i = 0 THEN head[l]
                                           ELSE IF f[i - 1] = NULL THEN NULL
                                           ELSE next[f[i - 1]]]
            w == [i \in Nat |-> IF i < n THEN s[i + 1] ELSE NULL]
            T == {i \in Nat : Walk(l)[i] # w[i]}
<1>1. /\ \A i \in 1 .. n : s[i] # NULL
      /\ head[l] = IF n = 0 THEN NULL ELSE s[1]
      /\ \A i \in 1 .. n : next[s[i]] = IF i = n THEN NULL ELSE s[i + 1]
  <2>1. \A i \in 1 .. n : s[i] \in Slots
    BY DEF FreeIn
  <2>. QED BY <2>1, NullAssumption DEF InListOrder
<1>2. \A i \in Nat : w[i] = IF i < n THEN s[i + 1] ELSE NULL
  OBVIOUS
<1>3. Steps(w)
  <2>. HIDE DEF w
  <2>1. ASSUME NEW i \in Nat
        PROVE  w[i] = IF i = 0 THEN head[l]
                      ELSE IF w[i - 1] = NULL THEN NULL ELSE next[w[i - 1]]
    <3>1. CASE i = 0
      BY <1>1, <1>2, <3>1
    <3>2. CASE i # 0 /\ i - 1 < n
      <4>1. /\ i \in 1 .. n /\ i - 1 \in Nat /\ (i - 1) + 1 = i
            /\ i < n <=> i # n
        BY <3>2
      <4>2. w[i - 1] = s[i] /\ w[i - 1] # NULL
        BY <1>1, <1>2, <3>2, <4>1
      <4>. QED BY <1>1, <1>2, <3>2, <4>1, <4>2
    <3>3. CASE i # 0 /\ ~(i - 1 < n)
      <4>1. i - 1 \in Nat /\ ~(i < n)
        BY <3>3
      <4>. QED BY <1>2, <3>3, <4>1
    <3>. QED BY <3>1, <3>2, <3>3
  <2>2. w = [i \in Nat |-> w[i]]
    BY DEF w
  <2>. QED BY <2>1, <2>2
<1>4. Walk(l) = CHOOSE f : Steps(f)
  BY DEF Walk
<1>. HIDE DEF w
<1>5. Steps(Walk(l))
  <2>. HIDE DEF Steps
  <2>. QED BY <1>3, <1>4
<1>6. \A i \in Nat : Walk(l)[i] = IF i = 0 THEN head[l]
                                  ELSE IF Walk(l)[i - 1] = NULL THEN NULL
                                  ELSE next[Walk(l)[i - 1]]
  BY <1>5
<1>7. \A i \in Nat : w[i] = IF i = 0 THEN head[l]
                            ELSE IF w[i - 1] = NULL THEN NULL
                            ELSE next[w[i - 1]]
  BY <1>3
<1>8. T = {}
  <2>1. SUFFICES ASSUME T # {} PROVE FALSE
    OBVIOUS
  <2>2. T \in SUBSET Nat
    OBVIOUS
  <2>3. PICK i \in T : \A j \in T : i <= j
    <3>. HIDE DEF T
    <3>. QED BY <2>1, <2>2, LeastElement
  <2>4. i \in Nat /\ Walk(l)[i] # w[i]
    OBVIOUS
  <2>5. i # 0
    BY <1>6, <1>7, <2>4
  <2>6. i - 1 \in Nat /\ ~(i <= i - 1)
    BY <2>4, <2>5
  <2>7. i - 1 \notin T
    <3>. HIDE DEF T
    <3>. QED BY <2>3, <2>6
  <2>8. Walk(l)[i - 1] = w[i - 1]
    BY <2>6, <2>7
  <2>. QED BY <1>6, <1>7, <2>4, <2>5, <2>8
<1>. QED BY <1>2, <1>8

(* Lists in order are exact for the walk that counts their blocks.         *)
LEMMA OrderedExact ==
  ASSUME ListsOrdered
  PROVE  FreeListsExact
<1>. SUFFICES ASSUME NEW l \in Levels
              PROVE  /\ {Walk(l)[n] : n \in 0 .. Total} \ {NULL} = FreeIn(l)
                     /\ Walk(l)[Total] = NULL
  BY DEF FreeListsExact, FreeIn
<1>1. PICK n \in 0 .. Total : \E s \in [1 .. n -> FreeIn(l)] :
        InListOrder(s, n, FreeIn(l), head[l], next)
  BY DEF ListsOrdered
<1>2. PICK s \in [1 .. n -> FreeIn(l)] : InListOrder(s, n, FreeIn(l), head[l], next)
  BY <1>1
<1>3. n \in Nat /\ Total \in Nat /\ n <= Total
  BY SizeAssumption DEF Total, Levels
<1>4. \A k \in Nat : Walk(l)[k] = IF k < n THEN s[k + 1] ELSE NULL
  BY <1>2, <1>3, WalkInOrder
<1>5. Walk(l)[Total] = NULL
  BY <1>3, <1>4
<1>6. ASSUME NEW b \in FreeIn(l)
      PROVE  b # NULL /\ \E k \in 0 .. Total : Walk(l)[k] = b
  <2>1. PICK i \in 1 .. n : s[i] = b
    BY <1>2 DEF InListOrder
  <2>2. i - 1 \in 0 .. Total /\ i - 1 \in Nat /\ i - 1 < n /\ (i - 1) + 1 = i
    BY <1>3
  <2>3. Walk(l)[i - 1] = b
    BY <1>4, <2>1, <2>2
  <2>4. b # NULL
    BY NullAssumption DEF FreeIn
  <2>. QED BY <2>2, <2>3, <2>4
<1>7. ASSUME NEW k \in 0 .. Total, Walk(l)[k] # NULL
      PROVE  Walk(l)[k] \in FreeIn(l)
  <2>1. k \in Nat /\ k < n /\ k + 1 \in 1 .. n
    BY <1>3, <1>4, <1>7
  <2>. QED BY <1>4, <2>1
<1>. QED BY <1>5, <1>6, <1>7
-----------------------------------------------------------------------------
(* The theorems.                                                           *)

(* Every call keeps the invariant.                                         *)
LEMMA NextInv ==
  ASSUME IndInv, [Next]_vars
  PROVE  IndInv'
<1>1. CASE UNCHANGED vars
  <2>1. UNCHANGED memory /\ rc' = rc
    BY <1>1 DEF vars, memory
  <2>2. rc \in {"OK", "EINVAL", "ENFILE", "ENOMEM"}
    BY DEF IndInv, TypeOK
  <2>. QED BY <2>1, <2>2, RefusalInv
<1>2. CASE buddy_alloc_create
  BY <1>2, CreateInv
<1>3. CASE CreateOutOfMemory
  BY <1>3, RefusalInv DEF CreateOutOfMemory
<1>4. CASE buddy_alloc_destroy
  BY <1>4, DestroyInv
<1>5. ASSUME NEW size \in Requests, buddy_alloc_allocate(size)
      PROVE  IndInv'
  <2>1. CASE AllocateIllegalSize(size)
    BY <2>1, RefusalInv DEF AllocateIllegalSize
  <2>2. ASSUME NEW level \in Levels, allocate_at_level(level)
        PROVE  IndInv'
    BY <2>2, AllocateAtLevelInv
  <2>3. ASSUME NEW level \in Levels, NEW src \in Levels, split_block_down(src, level)
        PROVE  IndInv'
    BY <2>3, SplitInv
  <2>4. ASSUME NEW level \in Levels, AllocateNoSpace(level)
        PROVE  IndInv'
    BY <2>4, RefusalInv DEF AllocateNoSpace
  <2>. QED BY <1>5, <2>1, <2>2, <2>3, <2>4 DEF buddy_alloc_allocate
<1>6. ASSUME NEW b \in handles, NEW level \in Levels, buddy_alloc_free(b, level)
      PROVE  IndInv'
  BY <1>6, FreeInv
<1>. QED BY <1>1, <1>2, <1>3, <1>4, <1>5, <1>6 DEF Next

(* Every call of the allocator keeps the inductive invariant.              *)
THEOREM Invariance == Spec => []IndInv
<1>1. Init => IndInv
  BY InitInv
<1>2. IndInv /\ [Next]_vars => IndInv'
  BY NextInv
<1>. QED BY <1>1, <1>2, PTL DEF Spec

(* The state keeps its shape: handles and links always name descriptors.   *)
THEOREM TypeCorrect == Spec => []TypeOK
<1>1. IndInv => TypeOK
  BY DEF IndInv
<1>. QED BY <1>1, Invariance, PTL

(* Two blocks in the hands of callers never overlap.                       *)
THEOREM HandlesNeverOverlap == Spec => []NoOverlap
<1>1. IndInv => NoOverlap
  BY DEF IndInv, ActiveApart, HandlesExact, NoOverlap
<1>. QED BY <1>1, Invariance, PTL

(* No byte of the pool is lost by a split or a merge.                      *)
THEOREM PoolNeverLeaks == Spec => []NoLeak
<1>1. IndInv => NoLeak
  BY DEF IndInv
<1>. QED BY <1>1, Invariance, PTL

(* Two free buddies never stay apart.                                      *)
THEOREM AlwaysCoalesced == Spec => []Coalesced
<1>1. IndInv => Coalesced
  BY DEF IndInv
<1>. QED BY <1>1, Invariance, PTL

(* The two flags of the descriptors tell exactly what callers hold.        *)
THEOREM FlagsTellHandles == Spec => []HandlesExact
<1>1. IndInv => HandlesExact
  BY DEF IndInv
<1>. QED BY <1>1, Invariance, PTL

(* Every list ends, and passes each free block of its level once.          *)
THEOREM FreeListsAlwaysExact == Spec => []FreeListsExact
<1>1. IndInv => FreeListsExact
  BY OrderedExact DEF IndInv
<1>. QED BY <1>1, Invariance, PTL

(* A call that fails has changed nothing: create_new_block never finds its *)
(* slot in use, halfway through a split or at the end of a merge.          *)
THEOREM FailuresAreAtomic == Spec => FailureAtomic
<1>1. ASSUME IndInv, [Next]_vars
      PROVE  [rc' # "OK" => UNCHANGED memory]_vars
  <2>1. CASE UNCHANGED vars
    BY <2>1
  <2>2. CASE buddy_alloc_create \/ CreateOutOfMemory \/ buddy_alloc_destroy
    BY <2>2 DEF buddy_alloc_create, CreateOutOfMemory, buddy_alloc_destroy
  <2>3. ASSUME NEW size \in Requests, buddy_alloc_allocate(size)
        PROVE  rc' # "OK" => UNCHANGED memory
    <3>1. CASE AllocateIllegalSize(size)
      BY <3>1 DEF AllocateIllegalSize
    <3>2. ASSUME NEW level \in Levels, allocate_at_level(level)
          PROVE  rc' = "OK"
      BY <3>2 DEF allocate_at_level
    <3>3. ASSUME NEW level \in Levels, NEW src \in Levels, split_block_down(src, level)
          PROVE  rc' = "OK"
      BY <1>1, <3>3, SplitEffect
    <3>4. ASSUME NEW level \in Levels, AllocateNoSpace(level)
          PROVE  UNCHANGED memory
      BY <3>4 DEF AllocateNoSpace
    <3>. QED BY <2>3, <3>1, <3>2, <3>3, <3>4 DEF buddy_alloc_allocate
  <2>4. ASSUME NEW b \in handles, NEW level \in Levels, buddy_alloc_free(b, level)
        PROVE  rc' = "OK"
    BY <1>1, <2>4, FreeEffect
  <2>. QED BY <1>1, <2>1, <2>2, <2>3, <2>4 DEF Next
<1>2. IndInv /\ [Next]_vars => [rc' # "OK" => UNCHANGED memory]_vars
  BY <1>1
<1>. QED BY <1>2, Invariance, PTL DEF Spec, FailureAtomic

-----------------------------------------------------------------------------
(* Free space.                                                             *)

(* A range in which no active block is allocated meets a free block that   *)
(* is at least as large as the range: merging leaves no range in pieces.   *)
LEMMA FreeRangeMerged ==
  ASSUME IndInv, live, NEW r \in Slots,
         \A c \in Slots : is_active[c] /\ ~Disjoint(c, r) => ~is_allocated[c]
  PROVE  \E c \in Slots : IsFree(c) /\ c[1] <= r[1] /\ ~Disjoint(c, r)
<1>. DEFINE Meets(c) == c \in Slots /\ is_active[c] /\ ~Disjoint(c, r)
            T == {n \in Nat : \E c \in Slots : Meets(c) /\ c[1] + n = NumLevels}
<1>1. /\ \A s \in Slots : s[1] \in Levels /\ s[1] \in Nat /\ s[1] < NumLevels /\ s[2] \in Nat
      /\ \A s \in Slots : BlockSize[s[1]] \in Nat /\ BlockSize[s[1]] > 0
      /\ \A s \in Slots : s[2] + BlockSize[s[1]] <= Total
      /\ NumLevels \in Nat /\ Total \in Nat
  <2>1. NumLevels \in Nat /\ Total \in Nat
    BY SizeAssumption DEF Levels, Total
  <2>2. ASSUME NEW s \in Slots
        PROVE  /\ s[1] \in Levels /\ s[2] \in Nat
               /\ s[2] + BlockSize[s[1]] <= Total
    BY SlotShape
  <2>3. ASSUME NEW s \in Slots
        PROVE  s[1] \in Nat /\ s[1] < NumLevels
    BY <2>1, <2>2 DEF Levels
  <2>4. ASSUME NEW s \in Slots
        PROVE  BlockSize[s[1]] \in Nat /\ BlockSize[s[1]] > 0
    BY <2>2, Sizes
  <2>. QED BY <2>1, <2>2, <2>3, <2>4
<1>2. ActiveApart /\ Coalesced /\ NoLeak
  BY DEF IndInv
<1>3. ASSUME NEW o \in Nat, Covers(r, o)
      PROVE  \E c \in Slots : Meets(c) /\ Covers(c, o)
  <2>1. o \in 0 .. Total - 1
    BY <1>1, <1>3 DEF Covers
  <2>2. PICK c \in Slots : is_active[c] /\ Covers(c, o)
    BY <1>2, <2>1 DEF NoLeak
  <2>3. ~Disjoint(c, r)
    BY <1>3, <2>2, SharedByte
  <2>. QED BY <2>2, <2>3
<1>. HIDE DEF Meets
<1>4. PICK n \in T : \A m \in T : n <= m
  <2>1. Covers(r, r[2])
    BY <1>1 DEF Covers
  <2>2. PICK c \in Slots : Meets(c)
    BY <1>1, <1>3, <2>1
  <2>3. NumLevels - c[1] \in T
    BY <1>1, <2>2
  <2>4. T \in SUBSET Nat
    OBVIOUS
  <2>. HIDE DEF T
  <2>. QED BY <2>3, <2>4, LeastElement
<1>5. PICK b \in Slots : Meets(b) /\ b[1] + n = NumLevels
  BY <1>4
<1>6. ASSUME NEW c \in Slots, Meets(c)
      PROVE  c[1] <= b[1]
  <2>1. NumLevels - c[1] \in T
    BY <1>1, <1>6
  <2>2. n <= NumLevels - c[1] /\ n \in Nat
    BY <1>4, <2>1
  <2>. QED BY <1>1, <1>5, <2>2
<1>7. ASSUME NEW c \in Slots, Meets(c)
      PROVE  is_active[c] /\ ~is_allocated[c] /\ ~Disjoint(c, r) /\ IsFree(c)
  BY <1>7 DEF Meets, IsFree
<1>8. CASE b[1] <= r[1]
  BY <1>5, <1>7, <1>8
<1>9. CASE r[1] < b[1]
  <2>. DEFINE u == Buddy(b)
              p == Enclosing(b, b[1] - 1)
  <2>1. b[1] > 0 /\ b[1] - 1 \in Levels /\ r[1] <= b[1] - 1
        /\ b[1] - 1 < b[1] /\ BlockSize[b[1] - 1] = 2 * BlockSize[b[1]]
    <3>1. b[1] > 0 /\ r[1] <= b[1] - 1 /\ b[1] - 1 < b[1]
      BY <1>1, <1>9
    <3>. QED BY <1>1, <3>1, Sizes
  <2>2. u \in Slots /\ u[1] = b[1] /\ u # b
    BY <2>1, BuddySlot
  <2>3. r = Enclosing(b, r[1])
    <3>1. ~Disjoint(r, b)
      BY <1>5, <1>7, DisjointSymmetric
    <3>. QED BY <1>1, <1>9, <3>1, Nested
  <2>4. r[2] <= u[2] /\ u[2] + BlockSize[b[1]] <= r[2] + BlockSize[r[1]]
    <3>1. Enclosing(b, b[1]) = b
      BY EnclosingSelf
    <3>2. r[1] \in Levels /\ b[1] \in Levels /\ b[1] <= b[1]
      BY <1>1
    <3>3. LET x == Buddy(Enclosing(b, b[1]))
              y == Enclosing(b, r[1])
          IN  y[2] <= x[2] /\ x[2] + BlockSize[b[1]] <= y[2] + BlockSize[r[1]]
      BY <1>9, <3>2, AbsorbedInside
    <3>. QED BY <2>3, <3>1, <3>3
  <2>5. u[2] \in Nat /\ Covers(r, u[2]) /\ Covers(u, u[2])
    BY <1>1, <2>2, <2>4 DEF Covers
  <2>6. PICK c \in Slots : Meets(c) /\ Covers(c, u[2])
    BY <1>3, <2>5
  <2>7. c[1] <= b[1] /\ IsFree(c) /\ is_active[c]
    BY <1>6, <1>7, <2>6
  <2>8. ~Disjoint(c, u)
    BY <2>2, <2>5, <2>6, SharedByte
  <2>9. CASE c[1] = b[1]
    <3>1. c = u
      BY <2>2, <2>8, <2>9, SameLevel
    <3>. QED BY <1>2, <1>5, <1>7, <2>1, <2>7, <3>1 DEF Coalesced
  <2>10. CASE c[1] < b[1]
    <3>1. c = Enclosing(u, c[1])
      BY <1>1, <2>2, <2>7, <2>8, Nested
    <3>2. LET x == Buddy(Enclosing(u, u[1]))
              y == Enclosing(u, c[1])
          IN  y[2] <= x[2] /\ x[2] + BlockSize[u[1]] <= y[2] + BlockSize[c[1]]
      <4>1. c[1] \in Levels /\ u[1] \in Levels /\ c[1] < u[1] /\ u[1] <= u[1]
        BY <1>1, <2>2, <2>10
      <4>. QED BY <2>2, <4>1, AbsorbedInside
    <3>3. Buddy(Enclosing(u, u[1])) = b
      BY <2>1, <2>2, EnclosingSelf, BuddySlot
    <3>4. c[2] <= b[2] /\ b[2] + BlockSize[b[1]] <= c[2] + BlockSize[c[1]]
      BY <2>2, <3>1, <3>2, <3>3
    <3>5. ~Disjoint(c, b)
      BY <1>1, <3>4 DEF Disjoint
    <3>6. c # b
      BY <1>1, <2>10
    <3>. QED BY <1>2, <1>5, <1>7, <2>7, <3>5, <3>6 DEF ActiveApart
  <2>. QED BY <1>1, <2>7, <2>9, <2>10
<1>. QED BY <1>1, <1>8, <1>9

(* When the last handle comes back the pool is one free block again.       *)
THEOREM PoolWholeAgain == Spec => []WholeAgain
<1>1. ASSUME IndInv, live, handles = {}
      PROVE  IsFree(Root)
  <2>1. \A c \in Slots : is_active[c] => ~is_allocated[c]
    BY <1>1 DEF IndInv, HandlesExact
  <2>2. PICK c \in Slots : IsFree(c) /\ c[1] <= Root[1] /\ ~Disjoint(c, Root)
    BY <1>1, <2>1, RootSlot, FreeRangeMerged
  <2>3. c[1] = Root[1]
    <3>1. c[1] \in Levels
      BY SlotShape
    <3>2. c[1] \in Nat
      BY <3>1, Sizes
    <3>. QED BY <2>2, <3>2, RootSlot DEF Root
  <2>. QED BY <2>2, <2>3, RootSlot, SameLevel
<1>2. IndInv => WholeAgain
  BY <1>1 DEF WholeAgain
<1>. QED BY <1>2, Invariance, PTL

-----------------------------------------------------------------------------
(* What a caller sees.                                                     *)

(* A free block is on the list of its level.                               *)
LEMMA FreeBlockListed ==
  ASSUME ListsOrdered, NEW c \in Slots, IsFree(c)
  PROVE  head[c[1]] # NULL
<1>. DEFINE l == c[1]
<1>1. l \in Levels /\ c \in FreeIn(l)
  BY SlotShape DEF FreeIn
<1>. HIDE DEF l
<1>2. PICK n \in 0 .. Total : \E s \in [1 .. n -> FreeIn(l)] :
        InListOrder(s, n, FreeIn(l), head[l], next)
  BY <1>1 DEF ListsOrdered
<1>3. PICK s \in [1 .. n -> FreeIn(l)] : InListOrder(s, n, FreeIn(l), head[l], next)
  BY <1>2
<1>4. n \in Nat /\ n # 0
  BY <1>1, <1>3, SizeAssumption DEF InListOrder, Total, Levels
<1>5. head[l] = s[1] /\ 1 \in 1 .. n
  BY <1>3, <1>4 DEF InListOrder
<1>. QED BY <1>3, <1>5, NullAssumption DEF FreeIn, l

(* A block and the range a caller knows it as.                             *)
LEMMA RegionOfBlock ==
  ASSUME NEW b \in Slots
  PROVE  /\ BlockSize[b[1]] \in {BlockSize[l] : l \in Levels}
         /\ Region(b) \in Promise!Aligned(BlockSize[b[1]])
         /\ \A c \in Slots :
              /\ Disjoint(b, c) <=> Promise!Apart(Region(b), Region(c))
              /\ Disjoint(b, c) => Region(b) # Region(c)
<1>1. b[1] \in Levels /\ b[2] \in 0 .. Total - 1 /\ b[2] % BlockSize[b[1]] = 0
  BY DEF Slots
<1>2. \A c \in Slots : /\ c[2] \in Nat /\ BlockSize[c[1]] \in Nat
                       /\ BlockSize[c[1]] > 0
  BY SlotShape, Sizes
<1>. QED BY <1>1, <1>2 DEF Disjoint, Region, Promise!Aligned, Promise!Apart

(* The ranges that would serve a request are blocks, and if some level has *)
(* its size they are the blocks of that level.                             *)
LEMMA CandidateBlocks ==
  ASSUME NEW size \in Requests
  PROVE  /\ \A r \in Promise!Candidates(size) : \E b \in Slots :
              r = Region(b) /\ get_block_level(size, b[1])
         /\ \A b \in Slots : get_block_level(size, b[1]) =>
              Region(b) \in Promise!Candidates(size)
<1>1. ASSUME NEW r \in Promise!Candidates(size)
      PROVE  \E b \in Slots : r = Region(b) /\ get_block_level(size, b[1])
  <2>1. PICK l \in Levels : /\ Promise!Serves(BlockSize[l], size)
                            /\ r \in Promise!Aligned(BlockSize[l])
    BY DEF Promise!Candidates
  <2>2. <<l, r[1]>> \in Slots /\ r = Region(<<l, r[1]>>)
    BY <2>1 DEF Promise!Aligned, Slots, Region
  <2>. QED BY <2>1, <2>2 DEF Promise!Serves, get_block_level
<1>2. ASSUME NEW b \in Slots, get_block_level(size, b[1])
      PROVE  Region(b) \in Promise!Candidates(size)
  <2>1. b[1] \in Levels /\ Region(b) \in Promise!Aligned(BlockSize[b[1]])
    BY SlotShape, RegionOfBlock
  <2>2. Promise!Serves(BlockSize[b[1]], size)
    BY <1>2 DEF Promise!Serves, get_block_level
  <2>. QED BY <2>1, <2>2 DEF Promise!Candidates
<1>. QED BY <1>1, <1>2

(* A request has the size of the blocks of one level at most.              *)
LEMMA OneLevel ==
  ASSUME NEW size \in Requests, NEW k \in Levels, NEW l \in Levels,
         get_block_level(size, k), get_block_level(size, l)
  PROVE  k = l
<1>1. /\ k < l => 2 * BlockSize[l] <= BlockSize[k]
      /\ l < k => 2 * BlockSize[k] <= BlockSize[l]
  BY SizesGrow
<1>2. size \in Nat /\ BlockSize[k] \in Nat /\ BlockSize[l] \in Nat /\ k \in Nat /\ l \in Nat
  BY RequestAssumption, Sizes
<1>. QED BY <1>1, <1>2 DEF get_block_level

(* A block of each level starts at the start of the pool.                  *)
LEMMA FirstSlot ==
  ASSUME NEW l \in Levels
  PROVE  <<l, 0>> \in Slots
<1>1. 0 \in Levels /\ Total \in Nat /\ Total > 0 /\ BlockSize[l] \in Nat /\ BlockSize[l] > 0
  BY SizeAssumption DEF Levels, Total
<1>2. 0 % BlockSize[l] = 0
  BY <1>1
<1>. QED BY <1>1, <1>2 DEF Slots

(* A range that meets no block of a caller can be handed out.              *)
LEMMA ApartAvailable ==
  ASSUME NEW b \in Slots, handles \subseteq Slots
  PROVE  Promise!Available(Region(b))
           <=> \A c \in handles : Disjoint(b, c)
BY RegionOfBlock DEF Promise!Available

(* A block that overlaps no block of a caller is handed out.               *)
LEMMA HandOut ==
  ASSUME handles \subseteq Slots, live, live' = live, rc' = "OK",
         NEW size \in Requests, call' = <<"allocate", size>>,
         NEW b \in Slots, get_block_level(size, b[1]),
         \A c \in handles : Disjoint(b, c), handles' = handles \cup {b}
  PROVE  Promise!Allocate(size)
<1>1. Region(b) \in Promise!Candidates(size)
  BY CandidateBlocks
<1>2. Promise!Available(Region(b))
  BY ApartAvailable
<1>3. {Region(c) : c \in handles'} = {Region(c) : c \in handles} \cup {Region(b)}
  OBVIOUS
<1>. QED BY <1>1, <1>2, <1>3 DEF Promise!Allocate

(* -ENFILE is answered only when every aligned range of the size meets a   *)
(* block of a caller: a range without one meets a free block as large as   *)
(* the range, and the list of that block's level would not be empty.       *)
LEMMA NoSpaceIsTrue ==
  ASSUME IndInv, NEW level \in Levels, AllocateNoSpace(level),
         NEW b \in Slots, b[1] = level
  PROVE  ~Promise!Available(Region(b))
<1>1. handles \subseteq Slots
  BY DEF IndInv, TypeOK
<1>2. SUFFICES ASSUME \A c \in handles : Disjoint(b, c) PROVE FALSE
  BY <1>1, ApartAvailable
<1>3. \A c \in Slots : is_active[c] /\ ~Disjoint(c, b) => ~is_allocated[c]
  BY <1>2, DisjointSymmetric DEF IndInv, HandlesExact
<1>4. live /\ \A l \in Levels : l <= level => head[l] = NULL
  BY DEF AllocateNoSpace
<1>5. PICK c \in Slots : IsFree(c) /\ c[1] <= b[1]
  BY <1>1, <1>3, <1>4, FreeRangeMerged
<1>6. c[1] \in Levels /\ head[c[1]] # NULL
  BY <1>5, SlotShape, FreeBlockListed DEF IndInv
<1>. QED BY <1>1, <1>4, <1>5, <1>6

(* What a request is answered is true of it and of the ranges held.        *)
LEMMA AllocateIsPromised ==
  ASSUME IndInv, NEW size \in Requests, buddy_alloc_allocate(size)
  PROVE  Promise!Allocate(size)
<1>1. /\ handles \subseteq Slots /\ handles = {b \in Slots : is_active[b] /\ is_allocated[b]}
      /\ ActiveApart /\ HeadsFree /\ LinksInLevel
  BY DEF IndInv, TypeOK, HandlesExact
<1>2. call' = <<"allocate", size>>
  BY DEF buddy_alloc_allocate
<1>3. CASE AllocateIllegalSize(size)
  <2>1. Promise!Candidates(size) = {}
    BY <1>3, CandidateBlocks, SlotShape DEF AllocateIllegalSize
  <2>2. live /\ rc' = "EINVAL" /\ handles' = handles /\ live' = live
    BY <1>3 DEF AllocateIllegalSize, memory
  <2>. QED BY <1>2, <2>1, <2>2 DEF Promise!Allocate
<1>4. ASSUME NEW level \in Levels, get_block_level(size, level),
             allocate_at_level(level)
      PROVE  Promise!Allocate(size)
  <2>1. /\ live /\ live' = live /\ rc' = "OK" /\ head[level] # NULL
        /\ handles' = handles \cup {head[level]}
    BY <1>4 DEF allocate_at_level, found_block
  <2>2. IsFree(head[level]) /\ head[level][1] = level
    BY <1>1, <2>1 DEF HeadsFree, LinksInLevel
  <2>3. head[level] \in Slots /\ \A c \in handles : Disjoint(head[level], c)
    BY <1>1, <2>2 DEF IsFree, ActiveApart
  <2>. QED BY <1>1, <1>2, <1>4, <2>1, <2>2, <2>3, HandOut
<1>5. ASSUME NEW level \in Levels, get_block_level(size, level),
             NEW src \in Levels, split_block_down(src, level)
      PROVE  Promise!Allocate(size)
  <2>. DEFINE b     == head[src]
              below == {l \in Levels : src < l /\ l <= level}
              half  == [l \in Levels |-> IF l \in below
                                         THEN <<l, b[2] + BlockSize[l]>> ELSE NULL]
              first == <<level, b[2]>>
              new   == {half[l] : l \in below} \cup {first}
  <2>0. /\ live /\ live' = live /\ rc' = "OK" /\ IsFree(b)
        /\ handles' = handles \cup {first} /\ first \in Slots
        /\ \A s \in new : \A c \in Slots : is_active[c] /\ c # b => Disjoint(c, s)
    BY <1>5, SplitEffect
  <2>. HIDE DEF b, half, below
  <2>1. /\ live /\ live' = live /\ rc' = "OK" /\ IsFree(b)
        /\ handles' = handles \cup {first} /\ first \in Slots /\ first[1] = level
        /\ \A c \in Slots : is_active[c] /\ c # b => Disjoint(c, first)
    BY <2>0
  <2>2. \A c \in handles : Disjoint(first, c)
    BY <1>1, <2>1, DisjointSymmetric DEF IsFree
  <2>. HIDE DEF first
  <2>. QED BY <1>1, <1>2, <1>5, <2>1, <2>2, HandOut
<1>6. ASSUME NEW level \in Levels, get_block_level(size, level),
             AllocateNoSpace(level)
      PROVE  Promise!Allocate(size)
  <2>1. ASSUME NEW r \in Promise!Candidates(size)
        PROVE  ~Promise!Available(r)
    <3>1. PICK b \in Slots : r = Region(b) /\ get_block_level(size, b[1])
      BY <2>1, CandidateBlocks
    <3>2. b[1] = level
      BY <1>6, <3>1, OneLevel, SlotShape
    <3>. QED BY <1>6, <3>1, <3>2, NoSpaceIsTrue
  <2>2. Promise!Candidates(size) # {}
    <3>1. <<level, 0>> \in Slots
      BY FirstSlot
    <3>. QED BY <1>6, <3>1, CandidateBlocks
  <2>3. live /\ rc' = "ENFILE" /\ handles' = handles /\ live' = live
    BY <1>6 DEF AllocateNoSpace, memory
  <2>. QED BY <1>2, <2>1, <2>2, <2>3 DEF Promise!Allocate
<1>. QED BY <1>3, <1>4, <1>5, <1>6 DEF buddy_alloc_allocate

(* The range of the block given back, and no other one, is given back.     *)
LEMMA FreeIsPromised ==
  ASSUME IndInv, NEW b \in handles, NEW level \in Levels,
         buddy_alloc_free(b, level)
  PROVE  Promise!Free(Region(b))
<1>1. /\ handles \subseteq Slots /\ handles = {c \in Slots : is_active[c] /\ is_allocated[c]}
      /\ ActiveApart
  BY DEF IndInv, TypeOK, HandlesExact
<1>2. live /\ live' = live /\ rc' = "OK" /\ handles' = handles \ {b}
  BY FreeEffect
<1>3. call' = <<"free", b>>
  BY DEF buddy_alloc_free
<1>4. \A c \in handles : c # b => Region(c) # Region(b)
  BY <1>1, RegionOfBlock DEF ActiveApart
<1>5. {Region(c) : c \in handles'} = {Region(c) : c \in handles} \ {Region(b)}
  BY <1>2, <1>4
<1>6. Region(b) \in {Region(c) : c \in handles}
  OBVIOUS
<1>. QED BY <1>2, <1>3, <1>5, <1>6 DEF Promise!Free

(* Each call is the one a caller is promised, with the same argument.      *)
LEMMA CallIsPromised ==
  ASSUME IndInv, Next
  PROVE  Promise!Next
<1>1. live \in BOOLEAN
  BY DEF IndInv, TypeOK
<1>2. CASE buddy_alloc_create
  BY <1>2 DEF buddy_alloc_create, Promise!Create, Promise!Next
<1>3. CASE CreateOutOfMemory
  BY <1>1, <1>3 DEF CreateOutOfMemory, memory, Promise!Create, Promise!Next
<1>4. CASE buddy_alloc_destroy
  BY <1>4 DEF buddy_alloc_destroy, Promise!Destroy, Promise!Next
<1>5. ASSUME NEW size \in Requests, buddy_alloc_allocate(size)
      PROVE  Promise!Next
  BY <1>5, AllocateIsPromised DEF Promise!Next
<1>6. ASSUME NEW b \in handles, NEW level \in Levels, buddy_alloc_free(b, level)
      PROVE  Promise!Next
  BY <1>6, FreeIsPromised DEF Promise!Next
<1>. QED BY <1>2, <1>3, <1>4, <1>5, <1>6 DEF Next

(* The allocator keeps the promise of RegionAllocator: disjoint aligned    *)
(* ranges, a request refused only when no range of its size is free, and a *)
(* free that gives back the range it names.                                *)
THEOREM RegionsImplemented == Spec => ImplementsRegions
<1>1. Init => Promise!Init
  BY DEF Init, Promise!Init
<1>2. IndInv /\ [Next]_vars => [Promise!Next]_(Promise!vars)
  <2>1. UNCHANGED vars => UNCHANGED Promise!vars
    BY DEF vars, Promise!vars
  <2>. QED BY <2>1, CallIsPromised
<1>. QED BY <1>1, <1>2, Invariance, PTL DEF Spec, ImplementsRegions, Promise!Spec

=============================================================================
