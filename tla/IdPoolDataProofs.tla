-------------------------- MODULE IdPoolDataProofs --------------------------
(***************************************************************************)
(* Lemmas on the operations of an id pool, for every capacity and first    *)
(* id, also those whose ids wrap around the word: what each keeps true of  *)
(* a pool, and what it does to the flags.                                  *)
(***************************************************************************)
EXTENDS IdPoolData, FiniteSetTheorems, TLAPS

Id(k, offset) == (offset + k) % M

PoolRecords(capacity, offset) ==
  [capacity : {capacity}, id_start_offset : {offset}, top : 0 .. capacity,
   free_ids : [0 .. capacity - 1 -> Word],
   in_use : [0 .. capacity - 1 -> BOOLEAN]]

Used(p) == {k \in 0 .. p.capacity - 1 : p.in_use[k]}

(* The ids on the stack are exactly those not in use, each once, and top   *)
(* counts them.                                                            *)
PoolOK(p, capacity, offset) ==
  /\ p \in PoolRecords(capacity, offset)
  /\ \A i \in 0 .. p.top - 1 : \E k \in 0 .. capacity - 1 :
       p.free_ids[i] = Id(k, offset) /\ ~p.in_use[k]
  /\ \A i, j \in 0 .. p.top - 1 : p.free_ids[i] = p.free_ids[j] => i = j
  /\ \A k \in 0 .. capacity - 1 : ~p.in_use[k] =>
       \E i \in 0 .. p.top - 1 : p.free_ids[i] = Id(k, offset)
  /\ p.top + Cardinality(Used(p)) = capacity

-----------------------------------------------------------------------------
(* Words.                                                                  *)

(* A word minus a word, taken modulo M.                                    *)
LEMMA ModSmall ==
  ASSUME NEW a \in Int, -M <= a, a < 2 * M
  PROVE  a % M = IF a < 0 THEN a + M ELSE IF a < M THEN a ELSE a - M
BY WordAssumption

(* The index of the k-th id is k again, so the ids are all different.      *)
LEMMA IdIndex ==
  ASSUME NEW capacity \in Word, NEW offset \in Word,
         NEW k \in 0 .. capacity - 1
  PROVE  Id(k, offset) \in Word /\ (Id(k, offset) - offset) % M = k
<1>1. /\ offset \in Nat /\ offset < M /\ k \in Nat /\ k < M /\ M \in Nat \ {0}
  BY WordAssumption DEF Word
<1>2. Id(k, offset) = IF offset + k < M THEN offset + k ELSE offset + k - M
  BY <1>1, ModSmall DEF Id
<1>3. (Id(k, offset) - offset) % M = k
  <2>1. CASE offset + k < M
    BY <1>1, <1>2, <2>1, ModSmall
  <2>2. CASE ~(offset + k < M)
    <3>1. Id(k, offset) - offset = k - M
      BY <1>1, <1>2, <2>2
    <3>2. k - M \in Int /\ -M <= k - M /\ k - M < 0
      BY <1>1
    <3>3. (k - M) % M = k
      BY <1>1, <3>2, ModSmall
    <3>. QED
      BY <3>1, <3>3
  <2>. QED
    BY <2>1, <2>2
<1>. QED
  BY <1>1, <1>2, <1>3 DEF Word

(* Two indices have two ids.                                               *)
LEMMA IdInjective ==
  ASSUME NEW capacity \in Word, NEW offset \in Word,
         NEW k \in 0 .. capacity - 1, NEW l \in 0 .. capacity - 1,
         Id(k, offset) = Id(l, offset)
  PROVE  k = l
BY IdIndex

-----------------------------------------------------------------------------
(* The operations.                                                         *)

(* The ids in use are finitely many, and with one more or less in use they *)
(* are one more or less.                                                   *)
LEMMA UsedFinite ==
  ASSUME NEW capacity \in Word, NEW offset \in Word,
         NEW p \in PoolRecords(capacity, offset)
  PROVE  IsFiniteSet(Used(p)) /\ Cardinality(Used(p)) \in Nat
<1>1. IsFiniteSet(0 .. capacity - 1)
  BY FS_Interval, WordAssumption DEF Word
<1>2. Used(p) \subseteq 0 .. capacity - 1
  BY DEF Used, PoolRecords
<1>. QED
  BY <1>1, <1>2, FS_Subset, FS_CardinalityType

(* A new pool is in order: all its ids are on the stack.                   *)
LEMMA NewPoolOK ==
  ASSUME NEW capacity \in Word \ {0}, NEW offset \in Word
  PROVE  PoolOK(NewPool(capacity, offset), capacity, offset)
<1>. DEFINE p == NewPool(capacity, offset)
<1>1. /\ p.capacity = capacity /\ p.top = capacity /\ p.id_start_offset = offset
      /\ p.free_ids = [i \in 0 .. capacity - 1 |-> Id(capacity - 1 - i, offset)]
      /\ p.in_use = [i \in 0 .. capacity - 1 |-> FALSE]
      /\ p = [capacity |-> p.capacity, id_start_offset |-> p.id_start_offset,
              top |-> p.top, free_ids |-> p.free_ids, in_use |-> p.in_use]
  BY DEF NewPool, Id
<1>. HIDE DEF p
<1>2. capacity \in Nat \ {0}
  BY WordAssumption DEF Word
<1>3. \A i \in 0 .. capacity - 1 : capacity - 1 - i \in 0 .. capacity - 1
  BY <1>2
<1>4. \A i \in 0 .. capacity - 1 : Id(capacity - 1 - i, offset) \in Word
  BY <1>3, IdIndex
<1>5. p \in PoolRecords(capacity, offset)
  <2>1. p.free_ids \in [0 .. capacity - 1 -> Word]
    BY <1>1, <1>4
  <2>2. p.in_use \in [0 .. capacity - 1 -> BOOLEAN] /\ p.top \in 0 .. capacity
    BY <1>1, <1>2
  <2>. QED
    BY ONLY <1>1, <2>1, <2>2 DEF PoolRecords
<1>6. \A i \in 0 .. p.top - 1 : \E k \in 0 .. capacity - 1 :
        p.free_ids[i] = Id(k, offset) /\ ~p.in_use[k]
  BY <1>1, <1>3
<1>7. ASSUME NEW i \in 0 .. p.top - 1, NEW j \in 0 .. p.top - 1,
             p.free_ids[i] = p.free_ids[j]
      PROVE  i = j
  <2>1. capacity - 1 - i = capacity - 1 - j
    BY <1>1, <1>3, <1>7, IdInjective
  <2>. QED
    BY <1>1, <1>2, <2>1
<1>8. ASSUME NEW k \in 0 .. capacity - 1
      PROVE  \E i \in 0 .. p.top - 1 : p.free_ids[i] = Id(k, offset)
  <2>1. capacity - 1 - (capacity - 1 - k) = k
    BY <1>2
  <2>. QED
    BY <1>1, <1>3, <2>1
<1>9. Used(p) = {}
  BY <1>1 DEF Used
<1>10. p.top + Cardinality(Used(p)) = capacity
  BY <1>1, <1>2, <1>9, FS_EmptySet
<1>. QED
  BY <1>5, <1>6, <1>7, <1>8, <1>10 DEF PoolOK, p

(* The fields of a pool.                                                   *)
LEMMA PoolFields ==
  ASSUME NEW capacity \in Word \ {0}, NEW offset \in Word, NEW p,
         PoolOK(p, capacity, offset)
  PROVE  /\ capacity \in Nat \ {0} /\ offset \in Nat
         /\ p.capacity = capacity /\ p.id_start_offset = offset
         /\ p.top \in Nat /\ p.top <= capacity
         /\ p.free_ids \in [0 .. capacity - 1 -> Word]
         /\ p.in_use \in [0 .. capacity - 1 -> BOOLEAN]
BY WordAssumption DEF PoolOK, PoolRecords, Word

(* What id_pool_allocate hands out was not in use, and is from then on.    *)
LEMMA AllocatedOK ==
  ASSUME NEW capacity \in Word \ {0}, NEW offset \in Word, NEW p,
         PoolOK(p, capacity, offset), ~Exhausted(p)
  PROVE  /\ PoolOK(Allocated(p), capacity, offset)
         /\ Allocated(p).top = p.top - 1
         /\ \E k \in 0 .. capacity - 1 :
              /\ TopId(p) = Id(k, offset) /\ ~p.in_use[k]
              /\ Allocated(p).in_use = [p.in_use EXCEPT ![k] = TRUE]
<1>. DEFINE q == Allocated(p)
            n == p.top - 1
<1>1. /\ capacity \in Nat \ {0} /\ offset \in Nat
      /\ p.capacity = capacity /\ p.id_start_offset = offset
      /\ p.top \in Nat /\ p.top <= capacity
      /\ p.free_ids \in [0 .. capacity - 1 -> Word]
      /\ p.in_use \in [0 .. capacity - 1 -> BOOLEAN]
  BY PoolFields
<1>2. n \in 0 .. p.top - 1 /\ n \in Nat /\ p.top = n + 1
  BY <1>1 DEF Exhausted
<1>3. PICK k \in 0 .. capacity - 1 : p.free_ids[n] = Id(k, offset) /\ ~p.in_use[k]
  BY <1>2 DEF PoolOK
<1>4. TopId(p) = Id(k, offset) /\ Index(p, TopId(p)) = k
  BY <1>1, <1>3, IdIndex DEF TopId, Index
<1>5. q = [p EXCEPT !.top = n, !.in_use[k] = TRUE]
  BY <1>4 DEF Allocated
<1>6. /\ q \in PoolRecords(capacity, offset)
      /\ q.capacity = capacity /\ q.id_start_offset = offset /\ q.top = n
      /\ q.free_ids = p.free_ids /\ q.in_use = [p.in_use EXCEPT ![k] = TRUE]
  <2>1. p \in PoolRecords(capacity, offset) /\ n \in 0 .. capacity
    BY <1>1, <1>2 DEF PoolOK
  <2>. HIDE DEF q, n
  <2>2. q \in PoolRecords(capacity, offset)
    BY ONLY <1>5, <2>1 DEF PoolRecords
  <2>3. /\ q.capacity = capacity /\ q.id_start_offset = offset /\ q.top = n
        /\ q.free_ids = p.free_ids /\ q.in_use = [p.in_use EXCEPT ![k] = TRUE]
    BY ONLY <1>5, <2>1 DEF PoolRecords
  <2>. QED
    BY ONLY <2>2, <2>3
<1>. HIDE DEF q, n
<1>8. ASSUME NEW l \in 0 .. capacity - 1
      PROVE  q.in_use[l] = IF l = k THEN TRUE ELSE p.in_use[l]
  BY <1>1, <1>6
<1>9. 0 .. q.top - 1 \subseteq 0 .. p.top - 1 /\ n \notin 0 .. q.top - 1
  BY <1>2, <1>6
<1>10. ASSUME NEW i \in 0 .. q.top - 1
       PROVE  \E l \in 0 .. capacity - 1 :
                q.free_ids[i] = Id(l, offset) /\ ~q.in_use[l]
  <2>1. PICK l \in 0 .. capacity - 1 : p.free_ids[i] = Id(l, offset) /\ ~p.in_use[l]
    BY <1>9 DEF PoolOK
  <2>2. l # k
    BY <1>2, <1>3, <1>9, <2>1 DEF PoolOK
  <2>. QED
    BY <1>6, <1>8, <2>1, <2>2
<1>11. ASSUME NEW i \in 0 .. q.top - 1, NEW j \in 0 .. q.top - 1,
              q.free_ids[i] = q.free_ids[j]
       PROVE  i = j
  BY <1>6, <1>9, <1>11 DEF PoolOK
<1>12. ASSUME NEW l \in 0 .. capacity - 1, ~q.in_use[l]
       PROVE  \E i \in 0 .. q.top - 1 : q.free_ids[i] = Id(l, offset)
  <2>1. l # k /\ ~p.in_use[l]
    BY <1>8, <1>12
  <2>2. PICK i \in 0 .. p.top - 1 : p.free_ids[i] = Id(l, offset)
    BY <2>1 DEF PoolOK
  <2>3. i # n
    BY <1>3, <2>1, <2>2, IdInjective
  <2>4. i \in 0 .. q.top - 1
    BY <1>2, <1>6, <2>3
  <2>. QED
    BY <1>6, <2>2, <2>4
<1>13. q.top + Cardinality(Used(q)) = capacity
  <2>1. Used(q) = Used(p) \cup {k}
    BY <1>1, <1>6, <1>8 DEF Used
  <2>2. k \notin Used(p)
    BY <1>3 DEF Used
  <2>3. IsFiniteSet(Used(p)) /\ Cardinality(Used(p)) \in Nat
    BY UsedFinite DEF PoolOK
  <2>4. Cardinality(Used(q)) = Cardinality(Used(p)) + 1
    BY <2>1, <2>2, <2>3, FS_AddElement
  <2>5. p.top + Cardinality(Used(p)) = capacity
    BY DEF PoolOK
  <2>. QED
    BY <1>1, <1>2, <1>6, <2>3, <2>4, <2>5
<1>14. PoolOK(q, capacity, offset)
  BY <1>6, <1>10, <1>11, <1>12, <1>13 DEF PoolOK
<1>. QED
  BY <1>3, <1>4, <1>6, <1>14 DEF q, n

(* An id that id_pool_free accepts is the id of an index in use.           *)
LEMMA FreeAccepts ==
  ASSUME NEW capacity \in Word \ {0}, NEW offset \in Word, NEW p,
         PoolOK(p, capacity, offset), NEW id \in Word, FreeResult(p, id) = "OK"
  PROVE  \E k \in 0 .. capacity - 1 :
           id = Id(k, offset) /\ Index(p, id) = k /\ p.in_use[k]
<1>1. /\ capacity \in Nat \ {0} /\ offset \in Nat
      /\ p.capacity = capacity /\ p.id_start_offset = offset
  BY PoolFields
<1>2. capacity < M /\ offset < M /\ id \in Nat /\ id < M /\ M \in Nat \ {0}
  BY WordAssumption DEF Word
<1>3. ~IllegalId(p, id) /\ p.in_use[Index(p, id)]
  BY DEF FreeResult
<1>4. (capacity + offset) % M \in Nat
  BY <1>1, <1>2
<1>5. id < (capacity + offset) % M /\ offset <= id
  BY <1>1, <1>2, <1>3, <1>4 DEF IllegalId
<1>6. capacity + offset < 2 * M
  BY <1>1, <1>2
<1>7. id < capacity + offset
  <2>1. (capacity + offset) % M =
          IF capacity + offset < M THEN capacity + offset ELSE capacity + offset - M
    BY <1>1, <1>2, <1>6, ModSmall
  <2>. QED
    BY <1>1, <1>2, <1>5, <2>1
<1>8. id - offset \in 0 .. capacity - 1 /\ id - offset < M
  BY <1>1, <1>2, <1>5, <1>7
<1>9. Index(p, id) = id - offset
  BY <1>1, <1>2, <1>8, ModSmall DEF Index
<1>10. Id(id - offset, offset) = id
  <2>1. offset + (id - offset) = id
    BY <1>1, <1>2
  <2>. QED
    BY <2>1, <1>2, ModSmall DEF Id
<1>. QED
  BY <1>3, <1>8, <1>9, <1>10

(* What id_pool_free takes back was in use, and no longer is.              *)
LEMMA FreedOK ==
  ASSUME NEW capacity \in Word \ {0}, NEW offset \in Word, NEW p,
         PoolOK(p, capacity, offset), NEW id \in Word, FreeResult(p, id) = "OK"
  PROVE  /\ PoolOK(Freed(p, id), capacity, offset)
         /\ Freed(p, id).top = p.top + 1
         /\ \E k \in 0 .. capacity - 1 :
              /\ id = Id(k, offset) /\ Index(p, id) = k /\ p.in_use[k]
              /\ Freed(p, id).in_use = [p.in_use EXCEPT ![k] = FALSE]
<1>. DEFINE q == Freed(p, id)
<1>1. /\ capacity \in Nat \ {0} /\ offset \in Nat
      /\ p.capacity = capacity /\ p.id_start_offset = offset
      /\ p.top \in Nat /\ p.top <= capacity
      /\ p.free_ids \in [0 .. capacity - 1 -> Word]
      /\ p.in_use \in [0 .. capacity - 1 -> BOOLEAN]
  BY PoolFields
<1>2. PICK k \in 0 .. capacity - 1 :
        id = Id(k, offset) /\ Index(p, id) = k /\ p.in_use[k]
  BY FreeAccepts
<1>3. /\ p.top + Cardinality(Used(p)) = capacity
      /\ IsFiniteSet(Used(p)) /\ Cardinality(Used(p)) \in Nat
  BY UsedFinite DEF PoolOK
<1>4. k \in Used(p)
  BY <1>1, <1>2 DEF Used
<1>5. p.top < capacity
  <2>1. Cardinality(Used(p)) # 0
    BY <1>3, <1>4, FS_EmptySet
  <2>. QED
    BY <1>1, <1>3, <2>1
<1>6. q = [p EXCEPT !.in_use[k] = FALSE, !.free_ids[p.top] = id,
                    !.top = p.top + 1]
  BY <1>2 DEF Freed
<1>7. /\ q \in PoolRecords(capacity, offset)
      /\ q.capacity = capacity /\ q.id_start_offset = offset /\ q.top = p.top + 1
      /\ q.free_ids = [p.free_ids EXCEPT ![p.top] = id]
      /\ q.in_use = [p.in_use EXCEPT ![k] = FALSE]
  <2>1. /\ p \in PoolRecords(capacity, offset)
        /\ p.top \in 0 .. capacity - 1 /\ p.top + 1 \in 0 .. capacity
    BY <1>1, <1>5 DEF PoolOK
  <2>. HIDE DEF q
  <2>2. q \in PoolRecords(capacity, offset)
    BY ONLY <1>6, <2>1 DEF PoolRecords
  <2>3. /\ q.capacity = capacity /\ q.id_start_offset = offset
        /\ q.top = p.top + 1
        /\ q.free_ids = [p.free_ids EXCEPT ![p.top] = id]
        /\ q.in_use = [p.in_use EXCEPT ![k] = FALSE]
    BY ONLY <1>6, <2>1 DEF PoolRecords
  <2>. QED
    BY ONLY <2>2, <2>3
<1>. HIDE DEF q
<1>9. ASSUME NEW l \in 0 .. capacity - 1
      PROVE  q.in_use[l] = IF l = k THEN FALSE ELSE p.in_use[l]
  BY <1>1, <1>7
<1>10. ASSUME NEW i \in 0 .. q.top - 1
       PROVE  \/ i = p.top /\ q.free_ids[i] = id
              \/ i \in 0 .. p.top - 1 /\ q.free_ids[i] = p.free_ids[i]
  BY <1>1, <1>5, <1>7
<1>11. ASSUME NEW i \in 0 .. p.top - 1
       PROVE  /\ i \in 0 .. q.top - 1 /\ q.free_ids[i] = p.free_ids[i]
              /\ p.free_ids[i] # id
  <2>1. i \in 0 .. q.top - 1 /\ q.free_ids[i] = p.free_ids[i]
    BY <1>1, <1>5, <1>7
  <2>2. PICK l \in 0 .. capacity - 1 : p.free_ids[i] = Id(l, offset) /\ ~p.in_use[l]
    BY DEF PoolOK
  <2>3. l # k
    BY <1>2, <2>2
  <2>. QED
    BY <1>2, <2>1, <2>2, <2>3, IdInjective
<1>12. p.top \in 0 .. q.top - 1 /\ q.free_ids[p.top] = id
  BY <1>1, <1>5, <1>7
<1>13. ASSUME NEW i \in 0 .. q.top - 1
       PROVE  \E l \in 0 .. capacity - 1 :
                q.free_ids[i] = Id(l, offset) /\ ~q.in_use[l]
  <2>1. CASE q.free_ids[i] = id
    BY <1>2, <1>9, <2>1
  <2>2. CASE i \in 0 .. p.top - 1 /\ q.free_ids[i] = p.free_ids[i]
    <3>1. PICK l \in 0 .. capacity - 1 :
            p.free_ids[i] = Id(l, offset) /\ ~p.in_use[l]
      BY <2>2 DEF PoolOK
    <3>. QED
      BY <3>1, <2>2, <1>9
  <2>. QED
    BY <2>1, <2>2, <1>10
<1>14. ASSUME NEW i \in 0 .. q.top - 1, NEW j \in 0 .. q.top - 1,
              q.free_ids[i] = q.free_ids[j]
       PROVE  i = j
  <2>1. CASE i \in 0 .. p.top - 1 /\ j \in 0 .. p.top - 1
    BY <1>11, <1>14, <2>1 DEF PoolOK
  <2>. QED
    BY <1>10, <1>11, <1>14, <2>1
<1>15. ASSUME NEW l \in 0 .. capacity - 1, ~q.in_use[l]
       PROVE  \E i \in 0 .. q.top - 1 : q.free_ids[i] = Id(l, offset)
  <2>1. CASE l = k
    BY <1>2, <1>12, <2>1
  <2>2. CASE l # k
    <3>1. PICK i \in 0 .. p.top - 1 : p.free_ids[i] = Id(l, offset)
      BY <1>9, <1>15, <2>2 DEF PoolOK
    <3>. QED
      BY <3>1, <1>11
  <2>. QED
    BY <2>1, <2>2
<1>16. q.top + Cardinality(Used(q)) = capacity
  <2>1. Used(q) = Used(p) \ {k}
    BY <1>1, <1>7, <1>9 DEF Used
  <2>2. Cardinality(Used(q)) = Cardinality(Used(p)) - 1
    BY <2>1, <1>3, <1>4, FS_RemoveElement
  <2>3. q.top = p.top + 1
    BY <1>7
  <2>. QED
    BY ONLY <1>1, <1>3, <2>2, <2>3
<1>17. PoolOK(q, capacity, offset)
  BY <1>7, <1>13, <1>14, <1>15, <1>16 DEF PoolOK
<1>. QED
  BY <1>2, <1>7, <1>17 DEF q

(* The count, as long as it is one: the number of the ids in use below the *)
(* largest int, and -EINVAL from there on.                                 *)
LEMMA CountOf ==
  ASSUME NEW capacity \in Word \ {0}, NEW offset \in Word, NEW p,
         PoolOK(p, capacity, offset)
  PROVE  /\ Cardinality(Used(p)) = capacity - p.top
         /\ IsFiniteSet(Used(p)) /\ Cardinality(Used(p)) \in Nat
         /\ IF capacity - p.top < M \div 2
            THEN CountResult(p) = "OK" /\ UsedCount(p) = capacity - p.top
            ELSE CountResult(p) = "EINVAL"
         /\ CountResult(p) = "OK" /\ UsedCount(p) = 0 <=> capacity = p.top
<1>1. /\ p.capacity = capacity /\ p.top \in Nat /\ p.top <= capacity
      /\ capacity \in Nat /\ capacity < M /\ M \in Nat /\ M > 1
  <2>1. p.capacity = capacity /\ p.top \in 0 .. capacity
    BY DEF PoolOK, PoolRecords
  <2>. QED
    BY <2>1, WordAssumption DEF Word
<1>2. /\ p.top + Cardinality(Used(p)) = capacity
      /\ IsFiniteSet(Used(p)) /\ Cardinality(Used(p)) \in Nat
  BY UsedFinite DEF PoolOK
<1>. DEFINE n == capacity - p.top
<1>3. n \in Nat /\ n < M /\ n % M = n
  <2>1. n \in Nat /\ n < M
    BY <1>1
  <2>. HIDE DEF n
  <2>. QED
    BY <1>1, <2>1, ModSmall
<1>4. UsedCount(p) = IF n < M \div 2 THEN n ELSE n - M
  BY <1>1, <1>3 DEF UsedCount, AsInt
<1>5. M \div 2 \in Nat /\ M \div 2 > 0
  BY <1>1
<1>6. /\ n < M \div 2 => CountResult(p) = "OK" /\ UsedCount(p) = n
      /\ ~(n < M \div 2) => CountResult(p) = "EINVAL"
  <2>. HIDE DEF n
  <2>. QED
    BY <1>1, <1>3, <1>4, <1>5 DEF CountResult
<1>7. CountResult(p) = "OK" /\ UsedCount(p) = 0 <=> n = 0
  <2>. HIDE DEF n
  <2>. QED
    BY <1>1, <1>3, <1>5, <1>6
<1>. QED
  BY <1>1, <1>2, <1>6, <1>7

(* A count of zero means that no id is in use.                             *)
LEMMA CountZero ==
  ASSUME NEW capacity \in Word \ {0}, NEW offset \in Word, NEW p,
         PoolOK(p, capacity, offset), CountResult(p) = "OK", UsedCount(p) = 0
  PROVE  \A k \in 0 .. capacity - 1 : ~p.in_use[k]
<1>1. capacity \in Nat /\ p.capacity = capacity
  BY PoolFields
<1>2. Cardinality(Used(p)) = 0 /\ IsFiniteSet(Used(p))
  BY <1>1, CountOf
<1>3. Used(p) = {}
  BY <1>2, FS_EmptySet
<1>. QED
  BY <1>1, <1>3 DEF Used

(* A pool whose stack is empty has all its ids in use.                     *)
LEMMA ExhaustedFull ==
  ASSUME NEW capacity \in Word \ {0}, NEW offset \in Word, NEW p,
         PoolOK(p, capacity, offset), Exhausted(p)
  PROVE  \A k \in 0 .. capacity - 1 : p.in_use[k]
<1>1. p.top = 0
  BY DEF Exhausted
<1>2. \A k \in 0 .. capacity - 1 : ~p.in_use[k] => \E i \in 0 .. p.top - 1 : TRUE
  BY DEF PoolOK
<1>. QED
  BY <1>1, <1>2

(* Any other answer means that some are.                                   *)
LEMMA CountNotZero ==
  ASSUME NEW capacity \in Word \ {0}, NEW offset \in Word, NEW p,
         PoolOK(p, capacity, offset),
         ~(CountResult(p) = "OK" /\ UsedCount(p) = 0)
  PROVE  \E k \in 0 .. capacity - 1 : p.in_use[k]
<1>1. p.capacity = capacity /\ p.top \in Nat /\ capacity \in Nat
  BY PoolFields
<1>2. capacity # p.top /\ Cardinality(Used(p)) = capacity - p.top
  BY CountOf
<1>3. Used(p) # {}
  <2>1. SUFFICES ASSUME Used(p) = {} PROVE FALSE
    OBVIOUS
  <2>2. Cardinality(Used(p)) = 0
    BY <2>1, FS_EmptySet
  <2>. QED
    BY <1>1, <1>2, <2>2
<1>. QED
  BY <1>1, <1>3 DEF Used

=============================================================================
