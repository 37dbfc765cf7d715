---------------------------- MODULE IdPoolProofs ----------------------------
(***************************************************************************)
(* The id pool is correct for every capacity and first id.  Only that what *)
(* is held can be freed needs the ids to stay below the top of the word.   *)
(***************************************************************************)
EXTENDS IdPool, IdPoolDataProofs

Ids == {(Offset + i) % M : i \in Indices}

(* What is not on the stack is held.                                       *)
TopExact == Cardinality(held) = Capacity - pool.top

(* The pool is in order, and what the callers hold is what it says is in   *)
(* use.                                                                    *)
PoolInv ==
  /\ PoolOK(pool, Capacity, Offset)
  /\ held \subseteq Ids
  /\ FlagsExact
  /\ IsFiniteSet(held)
  /\ TopExact

Results == {"OK", "EINVAL", "ENOMEM", "ENOENT", "ESPIPE", "EALREADY"}

(* The inductive invariant.                                                *)
IndInv ==
  /\ live \in BOOLEAN
  /\ rc \in Results
  /\ ~live => held = {}
  /\ PoolInv

(* What the constants and the invariant say of the pool.                   *)
LEMMA Facts ==
  ASSUME PoolInv
  PROVE  /\ Capacity \in Nat \ {0} /\ Capacity < M /\ Offset \in Nat /\ Offset < M
         /\ Capacity \in Word \ {0} /\ Offset \in Word
         /\ pool.capacity = Capacity /\ pool.top \in Nat /\ pool.top <= Capacity
         /\ pool.in_use \in [Indices -> BOOLEAN]
<1>1. /\ Capacity \in Nat \ {0} /\ Capacity < M /\ Offset \in Nat /\ Offset < M
      /\ Capacity \in Word \ {0} /\ Offset \in Word
  BY ConfigAssumption, WordAssumption DEF Word
<1>2. PoolOK(pool, Capacity, Offset)
  BY DEF PoolInv
<1>. QED
  BY <1>1, <1>2, PoolFields DEF Indices

(* A new pool, of which nothing is held.                                   *)
LEMMA NewPoolInv ==
  ASSUME pool' = NewPool(Capacity, Offset), held' = {}
  PROVE  PoolInv'
<1>1. Capacity \in Nat \ {0} /\ Capacity \in Word \ {0} /\ Offset \in Word
  BY ConfigAssumption, WordAssumption DEF Word
<1>2. PoolOK(pool', Capacity, Offset)
  BY <1>1, NewPoolOK
<1>3. /\ pool'.in_use = [i \in Indices |-> FALSE]
      /\ pool'.top = Capacity /\ pool'.capacity = Capacity
  BY DEF NewPool, Indices
<1>4. FlagsExact'
  BY <1>3 DEF FlagsExact
<1>5. IsFiniteSet(held') /\ Cardinality(held') = 0 /\ held' \subseteq Ids
  BY FS_EmptySet
<1>6. TopExact'
  BY <1>1, <1>3, <1>5 DEF TopExact
<1>. QED
  BY <1>2, <1>4, <1>5, <1>6 DEF PoolInv

(* The pool of the initial state.                                          *)
LEMMA InitInv ==
  ASSUME Init
  PROVE  IndInv
<1>1. Capacity \in Nat \ {0} /\ Capacity \in Word \ {0} /\ Offset \in Word
  BY ConfigAssumption, WordAssumption DEF Word
<1>2. PoolOK(pool, Capacity, Offset)
  BY <1>1, NewPoolOK DEF Init
<1>3. /\ pool.in_use = [i \in Indices |-> FALSE]
      /\ pool.top = Capacity /\ pool.capacity = Capacity /\ held = {}
  BY DEF NewPool, Indices, Init
<1>4. FlagsExact
  BY <1>3 DEF FlagsExact
<1>5. IsFiniteSet(held) /\ Cardinality(held) = 0
  BY <1>3, FS_EmptySet
<1>6. TopExact
  BY <1>1, <1>3, <1>5 DEF TopExact
<1>7. ~live /\ live \in BOOLEAN /\ rc = "OK"
  BY DEF Init
<1>. QED
  BY <1>2, <1>3, <1>4, <1>5, <1>6, <1>7 DEF PoolInv, IndInv, Results

(* The id on top of the stack is not held; it is from then on.             *)
LEMMA AllocateInv ==
  ASSUME PoolInv, ~Exhausted(pool), pool' = Allocated(pool),
         held' = held \cup {TopId(pool)}
  PROVE  /\ TopId(pool) \notin held
         /\ PoolInv'
<1>1. PoolOK(pool, Capacity, Offset) /\ Capacity \in Word \ {0} /\ Offset \in Word
  BY Facts DEF PoolInv
<1>2. PoolOK(pool', Capacity, Offset) /\ pool'.top = pool.top - 1
  BY ONLY <1>1, ~Exhausted(pool), pool' = Allocated(pool), AllocatedOK
<1>3. PICK k \in Indices : /\ TopId(pool) = Id(k, Offset) /\ ~pool.in_use[k]
                           /\ pool'.in_use = [pool.in_use EXCEPT ![k] = TRUE]
  BY ONLY <1>1, ~Exhausted(pool), pool' = Allocated(pool), AllocatedOK DEF Indices
<1>4. TopId(pool) \notin held
  BY <1>3 DEF PoolInv, FlagsExact, Id
<1>5. held' \subseteq Ids
  BY <1>3 DEF PoolInv, Ids, Id
<1>6. ASSUME NEW i \in Indices
      PROVE  pool'.in_use[i] <=> Id(i, Offset) \in held'
  <2>1. Id(i, Offset) = Id(k, Offset) => i = k
    BY <1>1, IdInjective DEF Indices
  <2>2. pool'.in_use[i] = IF i = k THEN TRUE ELSE pool.in_use[i]
    BY <1>3, Facts
  <2>3. pool.in_use[i] <=> Id(i, Offset) \in held
    BY DEF PoolInv, FlagsExact, Id
  <2>. QED
    BY <1>3, <2>1, <2>2, <2>3
<1>7. FlagsExact'
  BY <1>6 DEF FlagsExact, Id
<1>8. IsFiniteSet(held') /\ Cardinality(held') = Cardinality(held) + 1
  BY <1>4, FS_AddElement DEF PoolInv
<1>9. TopExact'
  <2>1. pool.top \in Nat /\ Capacity \in Nat /\ pool.capacity = Capacity
    BY Facts
  <2>2. pool'.capacity = Capacity
    BY <1>1, <1>2, PoolFields
  <2>3. Cardinality(held) = Capacity - pool.top
    BY <2>1 DEF PoolInv, TopExact
  <2>4. Cardinality(held') = pool'.capacity - pool'.top
    BY ONLY <1>2, <1>8, <2>1, <2>2, <2>3
  <2>. QED
    BY <1>1, <2>2, <2>4 DEF TopExact
<1>. QED
  BY <1>2, <1>4, <1>5, <1>7, <1>8, <1>9 DEF PoolInv

(* What id_pool_free accepts was held, and is not from then on.            *)
LEMMA FreeInv ==
  ASSUME PoolInv, NEW id \in Word, FreeResult(pool, id) = "OK",
         pool' = Freed(pool, id), held' = held \ {id}
  PROVE  PoolInv'
<1>1. PoolOK(pool, Capacity, Offset) /\ Capacity \in Word \ {0} /\ Offset \in Word
  BY Facts DEF PoolInv
<1>2. PoolOK(pool', Capacity, Offset) /\ pool'.top = pool.top + 1
  BY ONLY <1>1, id \in Word, FreeResult(pool, id) = "OK",
          pool' = Freed(pool, id), FreedOK
<1>3. PICK k \in Indices : /\ id = Id(k, Offset) /\ pool.in_use[k]
                           /\ pool'.in_use = [pool.in_use EXCEPT ![k] = FALSE]
  BY ONLY <1>1, id \in Word, FreeResult(pool, id) = "OK",
          pool' = Freed(pool, id), FreedOK DEF Indices
<1>4. id \in held
  BY <1>3 DEF PoolInv, FlagsExact, Id
<1>5. held' \subseteq Ids
  BY DEF PoolInv
<1>6. ASSUME NEW i \in Indices
      PROVE  pool'.in_use[i] <=> Id(i, Offset) \in held'
  <2>1. Id(i, Offset) = Id(k, Offset) => i = k
    BY <1>1, IdInjective DEF Indices
  <2>2. pool'.in_use[i] = IF i = k THEN FALSE ELSE pool.in_use[i]
    BY <1>3, Facts
  <2>3. pool.in_use[i] <=> Id(i, Offset) \in held
    BY DEF PoolInv, FlagsExact, Id
  <2>. QED
    BY <1>3, <2>1, <2>2, <2>3
<1>7. FlagsExact'
  BY <1>6 DEF FlagsExact, Id
<1>8. IsFiniteSet(held') /\ Cardinality(held') = Cardinality(held) - 1
  BY <1>4, FS_RemoveElement DEF PoolInv
<1>9. TopExact'
  <2>1. pool.top \in Nat /\ Capacity \in Nat /\ pool.capacity = Capacity
    BY Facts
  <2>2. pool'.capacity = Capacity
    BY <1>1, <1>2, PoolFields
  <2>3. Cardinality(held) = Capacity - pool.top
    BY <2>1 DEF PoolInv, TopExact
  <2>4. Cardinality(held') = pool'.capacity - pool'.top
    BY ONLY <1>2, <1>8, <2>1, <2>2, <2>3
  <2>. QED
    BY <1>1, <2>2, <2>4 DEF TopExact
<1>. QED
  BY <1>2, <1>5, <1>7, <1>8, <1>9 DEF PoolInv

(* Every call keeps the invariant.                                         *)
LEMMA StepInv ==
  ASSUME IndInv, [Next]_vars
  PROVE  IndInv'
<1>1. ASSUME UNCHANGED <<pool, held>>
      PROVE  PoolInv'
  BY <1>1 DEF IndInv, PoolInv, FlagsExact, TopExact
<1>2. ASSUME NEW capacity \in {0, Capacity}, id_pool_create(capacity)
      PROVE  IndInv'
  <2>1. held = {} /\ held' = {} /\ live' \in BOOLEAN /\ rc' \in Results
    BY <1>2 DEF id_pool_create, IndInv, Results
  <2>2. PoolInv'
    <3>1. CASE pool' = pool
      BY <1>1, <2>1, <3>1
    <3>2. CASE pool' = NewPool(Capacity, Offset)
      BY <2>1, <3>2, NewPoolInv
    <3>. QED
      BY <1>2, <3>1, <3>2 DEF id_pool_create
  <2>. QED
    BY <2>1, <2>2 DEF IndInv
<1>3. ASSUME id_pool_destroy
      PROVE  IndInv'
  <2>1. /\ live' = FALSE /\ held' = {} /\ rc' = "OK"
        /\ pool' = NewPool(Capacity, Offset)
    BY <1>3 DEF id_pool_destroy
  <2>. QED
    BY <2>1, NewPoolInv DEF IndInv, Results
<1>4. ASSUME id_pool_allocate
      PROVE  IndInv'
  <2>1. live /\ live' = live /\ rc' \in Results
    BY <1>4 DEF id_pool_allocate, Results
  <2>2. PoolInv'
    <3>1. CASE Exhausted(pool)
      BY <1>1, <1>4, <3>1 DEF id_pool_allocate
    <3>2. CASE ~Exhausted(pool)
      BY <1>4, <3>2, AllocateInv DEF id_pool_allocate, IndInv
    <3>. QED
      BY <3>1, <3>2
  <2>. QED
    BY <2>1, <2>2 DEF IndInv
<1>5. ASSUME NEW id \in Word, id_pool_free(id)
      PROVE  IndInv'
  <2>1. live /\ live' = live /\ rc' \in Results
    BY <1>5 DEF id_pool_free, FreeResult, Results
  <2>2. PoolInv'
    <3>1. CASE FreeResult(pool, id) = "OK"
      BY <1>5, <3>1, FreeInv DEF id_pool_free, IndInv
    <3>2. CASE FreeResult(pool, id) # "OK"
      BY <1>1, <1>5, <3>2 DEF id_pool_free
    <3>. QED
      BY <3>1, <3>2
  <2>. QED
    BY <2>1, <2>2 DEF IndInv
<1>6. ASSUME id_pool_get_used_id_count
      PROVE  IndInv'
  BY <1>1, <1>6 DEF id_pool_get_used_id_count, IndInv, Results, CountResult
<1>7. CASE UNCHANGED vars
  <2>1. UNCHANGED <<live, pool, held, rc>>
    BY <1>7 DEF vars
  <2>. QED
    BY <1>1, <2>1 DEF IndInv
<1>. QED
  BY <1>2, <1>3, <1>4, <1>5, <1>6, <1>7 DEF Next

-----------------------------------------------------------------------------

(* Whatever ids are given back, and in whatever order, the invariant holds *)
(* after every call of id_pool.c.                                          *)
THEOREM Invariance == Spec => []IndInv
<1>1. Init => IndInv
  BY InitInv
<1>2. IndInv /\ [Next]_vars => IndInv'
  BY StepInv
<1>. QED
  BY <1>1, <1>2, PTL DEF Spec

(* struct id_pool_t keeps its shape: top stays within the stack, whatever  *)
(* is given to id_pool_free.                                               *)
THEOREM PoolTypeCorrect == Spec => []TypeOK
<1>1. IndInv => TypeOK
  <2>1. SUFFICES ASSUME IndInv PROVE TypeOK
    OBVIOUS
  <2>2. pool \in PoolRecords(Capacity, Offset)
    BY <2>1 DEF IndInv, PoolInv, PoolOK
  <2>3. held \subseteq Word
    <3>1. /\ Capacity \in Word \ {0} /\ Offset \in Word
      BY <2>1, Facts DEF IndInv
    <3>2. \A k \in Indices : Id(k, Offset) \in Word
      BY <3>1, IdIndex DEF Indices
    <3>. QED
      BY <2>1, <3>2 DEF IndInv, PoolInv, Ids, Id
  <2>. QED
    BY <2>1, <2>2, <2>3 DEF TypeOK, IndInv, Results, PoolRecords, Indices
<1>. QED
  BY <1>1, Invariance, PTL

(* The flags of id_pool.c say which ids are held.                          *)
THEOREM FlagsAlwaysExact == Spec => []FlagsExact
<1>1. IndInv => FlagsExact
  BY DEF IndInv, PoolInv
<1>. QED
  BY <1>1, Invariance, PTL

(* id_pool_get_used_id_count answers the number of ids held as long as it  *)
(* is an int, and -EINVAL from 2^31 held ids on, never a wrong number.     *)
THEOREM CountAlwaysExact == Spec => []CountExact
<1>1. IndInv => CountExact
  <2>1. SUFFICES ASSUME IndInv PROVE CountExact
    OBVIOUS
  <2>2. /\ PoolOK(pool, Capacity, Offset)
        /\ Capacity \in Word \ {0} /\ Offset \in Word
        /\ Cardinality(held) = Capacity - pool.top
    BY <2>1, Facts DEF IndInv, PoolInv, TopExact
  <2>3. IF Capacity - pool.top < M \div 2
        THEN CountResult(pool) = "OK" /\ UsedCount(pool) = Capacity - pool.top
        ELSE CountResult(pool) = "EINVAL"
    BY ONLY <2>2, CountOf
  <2>. QED
    BY <2>2, <2>3 DEF CountExact
<1>. QED
  BY <1>1, Invariance, PTL

(* The stack of id_pool.c holds each id that is not held, once.            *)
THEOREM StackAlwaysExact == Spec => []StackExact
<1>1. IndInv => StackExact
  <2>1. SUFFICES ASSUME IndInv PROVE StackExact
    OBVIOUS
  <2>2. PoolOK(pool, Capacity, Offset) /\ FlagsExact
    BY <2>1 DEF IndInv, PoolInv
  <2>3. \A i, j \in 0 .. pool.top - 1 :
          i # j => pool.free_ids[i] # pool.free_ids[j]
    BY <2>2 DEF PoolOK
  <2>4. ASSUME NEW i \in 0 .. pool.top - 1
        PROVE  pool.free_ids[i] \in Ids \ held
    <3>1. PICK k \in Indices : pool.free_ids[i] = Id(k, Offset) /\ ~pool.in_use[k]
      BY <2>2 DEF PoolOK, Indices
    <3>. QED
      BY <2>2, <3>1 DEF FlagsExact, Ids, Id
  <2>5. ASSUME NEW id \in Ids \ held
        PROVE  \E i \in 0 .. pool.top - 1 : pool.free_ids[i] = id
    <3>1. PICK k \in Indices : id = Id(k, Offset)
      BY DEF Ids, Id
    <3>2. ~pool.in_use[k]
      BY <2>2, <3>1 DEF FlagsExact, Id
    <3>. QED
      BY <2>2, <3>1, <3>2 DEF PoolOK, Indices
  <2>6. {pool.free_ids[i] : i \in 0 .. pool.top - 1} = Ids \ held
    BY <2>4, <2>5
  <2>. QED
    BY <2>3, <2>6 DEF StackExact, Ids
<1>. QED
  BY <1>1, Invariance, PTL

(* id_pool_allocate never hands out an id that a caller holds.             *)
THEOREM IdsAreUnique == Spec => NeverHandedOutTwice
<1>1. IndInv /\ [Next]_vars =>
        [~Exhausted(pool) /\ id_pool_allocate => TopId(pool) \notin held]_vars
  BY AllocateInv DEF IndInv, id_pool_allocate
<1>. QED
  BY <1>1, Invariance, PTL DEF Spec, NeverHandedOutTwice

(* An id that a caller holds can be freed, if the ids stay below the top   *)
(* of a uint32_t: the guard of id_pool_free computes their sum in one.     *)
THEOREM HeldIdsCanBeFreed ==
  ASSUME Offset + Capacity < M
  PROVE  Spec => []HeldCanBeFreed
<1>1. IndInv => HeldCanBeFreed
  <2>1. SUFFICES ASSUME IndInv, NEW id \in held PROVE FreeResult(pool, id) = "OK"
    BY DEF HeldCanBeFreed
  <2>2. PICK k \in Indices : id = Id(k, Offset) /\ pool.in_use[k]
    BY <2>1 DEF IndInv, PoolInv, Ids, FlagsExact, Id
  <2>3. /\ Capacity \in Nat \ {0} /\ Offset \in Nat /\ M \in Nat \ {0}
        /\ Capacity \in Word /\ Offset \in Word
        /\ pool.capacity = Capacity /\ pool.id_start_offset = Offset
        /\ k \in Nat /\ k < Capacity
    BY <2>1, WordAssumption, Facts, PoolFields DEF IndInv, PoolInv, Indices
  <2>4. id = Offset + k
    BY <2>2, <2>3, ModSmall DEF Id
  <2>5. (Capacity + Offset) % M = Capacity + Offset
    BY <2>3, ModSmall
  <2>6. ~IllegalId(pool, id)
    BY <2>3, <2>4, <2>5 DEF IllegalId
  <2>7. Index(pool, id) = k
    BY <2>2, <2>3, IdIndex DEF Index, Indices
  <2>. QED
    BY <2>2, <2>6, <2>7 DEF FreeResult
<1>. QED
  BY <1>1, Invariance, PTL

=============================================================================
