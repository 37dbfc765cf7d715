------------------------------- MODULE IdPool -------------------------------
(***************************************************************************)
(* The id pool of INFRA/src/id_pool.c as its callers use it: ids are       *)
(* allocated, and freed in any order; any id may be given to id_pool_free, *)
(* one that was never handed out or has been freed before too.             *)
(***************************************************************************)
EXTENDS IdPoolData, FiniteSets

CONSTANTS Capacity, Offset   \* the configuration of the pool

ASSUME ConfigAssumption == /\ Capacity \in Word \ {0}
                           /\ Offset \in Word

VARIABLES
  live,   \* the pool exists: created and not yet destroyed
  pool,   \* *id_pool_t
  held,   \* the ids handed out and not yet freed
  rc      \* the result of the last call

vars == <<live, pool, held, rc>>

Init == /\ live = FALSE
        /\ pool = NewPool(Capacity, Offset)
        /\ held = {}
        /\ rc = "OK"

(* A capacity of zero is refused, and so is any if there is no memory.     *)
id_pool_create(capacity) ==
  /\ ~live
  /\ \/ /\ capacity # 0
        /\ live' = TRUE
        /\ pool' = NewPool(capacity, Offset)
        /\ rc' = "OK"
     \/ /\ rc' = IF capacity = 0 THEN "EINVAL" ELSE "ENOMEM"
        /\ UNCHANGED <<live, pool>>
  /\ UNCHANGED held

(* The memory is released; the callers forget their ids.                   *)
id_pool_destroy ==
  /\ live
  /\ live' = FALSE
  /\ pool' = NewPool(Capacity, Offset)
  /\ held' = {}
  /\ rc' = "OK"

id_pool_allocate ==
  /\ live
  /\ \/ /\ ~Exhausted(pool)
        /\ pool' = Allocated(pool)
        /\ held' = held \cup {TopId(pool)}
        /\ rc' = "OK"
     \/ /\ Exhausted(pool)
        /\ rc' = "ENOENT"
        /\ UNCHANGED <<pool, held>>
  /\ UNCHANGED live

id_pool_free(id) ==
  /\ live
  /\ rc' = FreeResult(pool, id)
  /\ IF FreeResult(pool, id) = "OK"
     THEN /\ pool' = Freed(pool, id)
          /\ held' = held \ {id}
     ELSE UNCHANGED <<pool, held>>
  /\ UNCHANGED live

id_pool_get_used_id_count ==
  /\ live
  /\ rc' = CountResult(pool)
  /\ UNCHANGED <<live, pool, held>>

Next ==
  \/ \E capacity \in {0, Capacity} : id_pool_create(capacity)
  \/ id_pool_destroy
  \/ id_pool_allocate
  \/ \E id \in Word : id_pool_free(id)
  \/ id_pool_get_used_id_count

Spec == Init /\ [][Next]_vars

-----------------------------------------------------------------------------
(* Properties.                                                             *)

Indices == 0 .. Capacity - 1

(* The pool keeps the shape of struct id_pool_t: top stays within the      *)
(* stack, whatever ids are given to id_pool_free.                          *)
TypeOK ==
  /\ pool \in [capacity : {Capacity}, id_start_offset : {Offset},
               top : 0 .. Capacity,
               free_ids : [Indices -> Word], in_use : [Indices -> BOOLEAN]]
  /\ held \subseteq Word
  /\ live \in BOOLEAN
  /\ rc \in {"OK", "EINVAL", "ENOMEM", "ENOENT", "ESPIPE", "EALREADY"}

(* An id that a caller holds is never handed out again, in whatever order  *)
(* ids come back and however often one is freed twice.                     *)
NeverHandedOutTwice ==
  [][~Exhausted(pool) /\ id_pool_allocate => TopId(pool) \notin held]_vars

(* The part of the stack below top and the ids in use are complementary:   *)
(* no id is lost and none is there twice.                                  *)
StackExact ==
  /\ \A i, j \in 0 .. pool.top - 1 :
       i # j => pool.free_ids[i] # pool.free_ids[j]
  /\ {pool.free_ids[i] : i \in 0 .. pool.top - 1}
       = {(Offset + i) % M : i \in Indices} \ held

(* The flags say which ids are held.                                       *)
FlagsExact == \A i \in Indices : pool.in_use[i] <=> (Offset + i) % M \in held

(* id_pool_get_used_id_count, on which client_mngr_free relies to tell     *)
(* whether a client still has files, answers the number of ids held, up to *)
(* the largest int, and from there on only -EINVAL; it never answers a     *)
(* wrong number.                                                           *)
CountExact ==
  IF Cardinality(held) < M \div 2
  THEN CountResult(pool) = "OK" /\ UsedCount(pool) = Cardinality(held)
  ELSE CountResult(pool) = "EINVAL"

(* An id that a caller holds can be freed.                                 *)
HeldCanBeFreed == \A id \in held : FreeResult(pool, id) = "OK"

=============================================================================
