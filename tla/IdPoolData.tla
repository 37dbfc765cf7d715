----------------------------- MODULE IdPoolData -----------------------------
(***************************************************************************)
(* The data of INFRA/src/id_pool.c: a stack of the free ids and a flag per *)
(* id.  A pool is a record with the fields of struct id_pool_t.  The code  *)
(* computes in uint32_t; here a word has M values, so that the wrap-around *)
(* is at a size that can be checked.                                       *)
(***************************************************************************)
EXTENDS Integers

CONSTANT M   \* the number of values of a uint32_t

ASSUME WordAssumption == M \in Nat \ {0}

Word == 0 .. M - 1

(* Variant: the ids start one too high.                                    *)
NewPoolShifted(capacity, offset) ==
  [capacity        |-> capacity,
   id_start_offset |-> offset,
   top             |-> capacity,
   free_ids        |-> [i \in 0 .. capacity - 1 |-> (offset + (capacity - i)) % M],
   in_use          |-> [i \in 0 .. capacity - 1 |-> FALSE]]

(* id_pool_create, when it succeeds: the first id on top of the stack.     *)
NewPool(capacity, offset) ==
  [capacity        |-> capacity,
   id_start_offset |-> offset,
   top             |-> capacity,
   free_ids        |-> [i \in 0 .. capacity - 1 |-> (offset + (capacity - 1 - i)) % M],
   in_use          |-> [i \in 0 .. capacity - 1 |-> FALSE]]

Index(pool, id) == (id - pool.id_start_offset) % M

(* Variant: the last id is never handed out.                              *)
ExhaustedEarly(pool) == pool.top <= 1

Exhausted(pool) == pool.top = 0

(* The id that id_pool_allocate hands out, and the pool after it.          *)
TopId(pool) == pool.free_ids[pool.top - 1]

(* Variant: the id handed out is not marked.                               *)
AllocatedUnmarked(pool) == [pool EXCEPT !.top = pool.top - 1]

(* Variant: the id handed out stays on the stack.                          *)
AllocatedNotPopped(pool) ==
  [pool EXCEPT !.in_use[Index(pool, TopId(pool))] = TRUE]

Allocated(pool) ==
  [pool EXCEPT !.top = pool.top - 1,
               !.in_use[Index(pool, TopId(pool))] = TRUE]

(* Variant: the first id is taken for an illegal one.                      *)
IllegalFirstId(pool, id) ==
  \/ id >= (pool.capacity + pool.id_start_offset) % M
  \/ id <= pool.id_start_offset

IllegalId(pool, id) ==
  \/ id >= (pool.capacity + pool.id_start_offset) % M
  \/ id < pool.id_start_offset

(* Variant: a second free of an id is not noticed.                         *)
FreeUnchecked(pool, id) == IF IllegalId(pool, id) THEN "ESPIPE" ELSE "OK"

(* What id_pool_free answers, and the pool after it answered "OK".         *)
FreeResult(pool, id) ==
  IF IllegalId(pool, id) THEN "ESPIPE"
  ELSE IF ~pool.in_use[Index(pool, id)] THEN "EALREADY"
  ELSE "OK"

(* Variant: the stack is not moved up over the id put on it.               *)
FreedWithoutPush(pool, id) ==
  [pool EXCEPT !.in_use[Index(pool, id)] = FALSE,
               !.free_ids[pool.top] = id]

Freed(pool, id) ==
  [pool EXCEPT !.in_use[Index(pool, id)] = FALSE,
               !.free_ids[pool.top] = id,
               !.top = pool.top + 1]

(* The int with the bits of a word.                                        *)
AsInt(n) == IF n < M \div 2 THEN n ELSE n - M

(* id_pool_get_used_id_count: the difference is a word, its copy an int,   *)
(* and a negative one is taken for an illegal top.                         *)
UsedCount(pool) == AsInt((pool.capacity - pool.top) % M)

CountResult(pool) == IF UsedCount(pool) < 0 THEN "EINVAL" ELSE "OK"

=============================================================================
