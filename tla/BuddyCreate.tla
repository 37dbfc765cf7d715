----------------------------- MODULE BuddyCreate ----------------------------
(***************************************************************************)
(* The part of BUDDY_ALLOCATOR/src/buddy_allocator.c that module           *)
(* BuddyAllocator takes as given: the checks of the configuration, the     *)
(* heap objects buddy_alloc_create builds the allocator from, one calloc   *)
(* at a time, and the unsigned arithmetic on sizes, levels, offsets and    *)
(* slots, bit by bit in words of W bits (the code's words have 32).        *)
(***************************************************************************)
EXTENDS Integers, FiniteSets

CONSTANTS
  W,         \* the width of uint32_t
  Rounds,    \* how often next_pow2 spreads its bits: 5 times in 32 bits
  MaxLevels, \* MAX_LEVELS
  CfgValues  \* the sizes given in configurations

(* 1 << k                                                                  *)
Power[k \in Nat] == IF k = 0 THEN 1 ELSE 2 * Power[k - 1]

Word == 0 .. Power[W] - 1

(* The last shift of next_pow2 is half the width, and a pool has no more   *)
(* levels than a word has bits (MAX_LEVELS is 64).                         *)
ASSUME WidthAssumption ==
  /\ W \in Nat \ {0}
  /\ Rounds \in Nat /\ W <= Power[Rounds]
  /\ MaxLevels \in Nat /\ W <= MaxLevels
  /\ CfgValues \subseteq Word

VARIABLES
  pc,              \* where buddy_alloc_create is, "idle" or "live" outside it
  total, minb,     \* the configuration last given to it
  num_of_levels, max_nodes,
  heap,            \* the heap objects that are allocated
  mem_pool,        \* b_allocator->mem_pool is not NULL
  double_free,     \* an object was freed, or read, after it had been freed
  request, level,  \* the size last asked for and the level computed for it
  rc               \* the result of the last call

vars == <<pc, total, minb, num_of_levels, max_nodes, heap, mem_pool,
          double_free, request, level, rc>>

None == -1   \* no request yet; no level for a request

-----------------------------------------------------------------------------
(* Arithmetic.  The operators &, |, ^ and >> are those on the sets of bits *)
(* of their operands.                                                      *)

Bits(v) == {i \in 0 .. W - 1 : (v \div Power[i]) % 2 = 1}

WordOf(bits) == CHOOSE v \in Word : Bits(v) = bits

(* bits >> k                                                               *)
ShiftRight(bits, k) == {i \in 0 .. W - 1 : i + k \in bits}

(* v & (v - 1) is zero.                                                    *)
OneBit(v) == Bits(v) \cap Bits(v - 1) = {}

(* The bits after n rounds: the shift doubles from one round to the next.  *)
Spread(bits) ==
  LET spread[n \in Nat] == IF n = 0 THEN bits
                           ELSE spread[n - 1] \cup
                                ShiftRight(spread[n - 1], Power[n - 1])
  IN  spread

(* Variant: the last round is missing.                                     *)
next_pow2_short(v) ==
  IF v = 0 THEN 0 ELSE (WordOf(Spread(Bits(v - 1))[Rounds - 1]) + 1) % Power[W]

(* The bits below the highest one of v - 1 are set, then 1 is added.       *)
next_pow2(v) ==
  IF v = 0 THEN 0 ELSE (WordOf(Spread(Bits(v - 1))[Rounds]) + 1) % Power[W]

(* Variant: the count starts at 1.                                         *)
calc_num_of_levels_long(size, min) ==
  LET count[t \in Nat] == IF t = 0 THEN 1 ELSE 1 + count[t \div 2]
  IN  count[size \div min]

calc_num_of_levels(size, min) ==
  LET count[t \in Nat] == IF t = 0 THEN 0 ELSE 1 + count[t \div 2]
  IN  count[size \div min]

calc_max_nodes(levels) ==
  LET sum[i \in Nat] == IF i = 0 THEN 0 ELSE (sum[i - 1] + Power[i - 1]) % Power[W]
  IN  sum[levels]

get_block_size(lev) == (minb * Power[num_of_levels - 1 - lev]) % Power[W]

(* Variant: the buddy is always the one above.                             *)
next_offset(offset, size) == (offset + size) % Power[W]

get_buddy_offset(offset, size) ==
  WordOf((Bits(offset) \ Bits(size)) \cup (Bits(size) \ Bits(offset)))

(* Variant: the slots of a level start one too early.                      *)
slot_off_by_one(offset, lev, size) ==
  (IF lev = 0 THEN 0 ELSE Power[lev] - 2) + offset \div size

calc_buddy_allocator_slot(offset, lev, size) == Power[lev] - 1 + offset \div size

(* Variant: a block larger than the pool is not noticed.                   *)
level_unchecked(size) ==
  LET shift_count[s \in Nat] == IF s > minb THEN 1 + shift_count[s \div 2] ELSE 0
  IN  IF size < minb \/ ~OneBit(size)
      THEN None
      ELSE (num_of_levels - 1 - shift_count[size]) % Power[W]

(* The level of a block of the given size, None for -EINVAL.               *)
get_block_level(size) ==
  LET shift_count[s \in Nat] == IF s > minb THEN 1 + shift_count[s \div 2] ELSE 0
      max_lvl == num_of_levels - 1
  IN  IF size < minb \/ ~OneBit(size) \/ shift_count[size] > max_lvl
      THEN None
      ELSE max_lvl - shift_count[size]

-----------------------------------------------------------------------------
(* The operations.                                                         *)

Init ==
  /\ pc = "idle"
  /\ total = 0 /\ minb = 0
  /\ num_of_levels = 0 /\ max_nodes = 0
  /\ heap = {}
  /\ mem_pool = FALSE
  /\ double_free = FALSE
  /\ request = None /\ level = None
  /\ rc = "OK"

LegalConfig(t, m) ==
  /\ m # 0 /\ t # 0
  /\ OneBit(t) /\ OneBit(m)
  /\ m <= t

(* The checks at the head of buddy_alloc_create.                           *)
Configure(t, m) ==
  LET levels   == calc_num_of_levels(t, m)
      accepted == LegalConfig(t, m) /\ levels <= MaxLevels
  IN
  /\ pc = "idle"
  /\ total' = t /\ minb' = m
  /\ IF accepted
     THEN /\ pc' = "allocator"
          /\ num_of_levels' = levels
          /\ max_nodes' = calc_max_nodes(levels)
          /\ rc' = "OK"
     ELSE /\ rc' = "EINVAL"
          /\ UNCHANGED <<pc, num_of_levels, max_nodes>>
  /\ mem_pool' = FALSE
  /\ request' = None /\ level' = None
  /\ UNCHANGED <<heap, double_free>>

geometry == <<total, minb, num_of_levels, max_nodes, request, level>>

(* A calloc of the given object succeeds or fails.                         *)
CallocAllocator ==
  /\ pc = "allocator"
  /\ \/ /\ heap' = heap \cup {"allocator"}
        /\ pc' = "pool"
        /\ UNCHANGED rc
     \/ /\ pc' = "fail"
        /\ rc' = "ENOMEM"
        /\ UNCHANGED heap
  /\ UNCHANGED <<mem_pool, double_free, geometry>>

(* mem_pool_create stores the result of calloc in the allocator at once.   *)
CallocPool ==
  /\ pc = "pool"
  /\ \/ /\ heap' = heap \cup {"pool"}
        /\ mem_pool' = TRUE
        /\ pc' = "elements"
        /\ UNCHANGED rc
     \/ /\ mem_pool' = FALSE
        /\ pc' = "fail"
        /\ rc' = "ENOMEM"
        /\ UNCHANGED heap
  /\ UNCHANGED <<double_free, geometry>>

(* With the block array in place the rest cannot fail: slot 0 of an array  *)
(* of zeroes is not active.  Without it mem_pool_create frees its pool and *)
(* leaves the allocator's pointer to it as it is.                          *)
CallocElements ==
  /\ pc = "elements"
  /\ \/ /\ heap' = heap \cup {"elements"}
        /\ pc' = "live"
        /\ rc' = "OK"
     \/ /\ heap' = heap \ {"pool"}
        /\ pc' = "fail"
        /\ rc' = "ENOMEM"
  /\ UNCHANGED <<mem_pool, double_free, geometry>>

(* Variant: the allocator itself is forgotten.                             *)
FailLeavesAllocator ==
  /\ pc = "fail"
  /\ heap' = IF mem_pool THEN heap \ {"elements", "pool"} ELSE heap
  /\ pc' = "idle"
  /\ UNCHANGED <<mem_pool, rc, double_free, geometry>>

(* The label fail: mem_pool_destroy, if there is a pool, and free.         *)
Fail ==
  /\ pc = "fail"
  /\ double_free' = (double_free \/ (mem_pool /\ "pool" \notin heap))
  /\ heap' = (IF mem_pool THEN heap \ {"elements", "pool"} ELSE heap)
             \ {"allocator"}
  /\ pc' = "idle"
  /\ UNCHANGED <<mem_pool, rc, geometry>>

buddy_alloc_destroy ==
  /\ pc = "live"
  /\ pc' = "idle"
  /\ double_free' = (double_free \/ heap # {"elements", "pool", "allocator"})
  /\ heap' = heap \ {"elements", "pool", "allocator"}
  /\ mem_pool' = FALSE
  /\ num_of_levels' = 0 /\ max_nodes' = 0
  /\ request' = None /\ level' = None
  /\ rc' = "OK"
  /\ UNCHANGED <<total, minb>>

(* buddy_alloc_allocate up to the level of the request.                    *)
Request(size) ==
  LET lev == IF size = 0 THEN None ELSE get_block_level(next_pow2(size)) IN
  /\ pc = "live"
  /\ request' = size
  /\ level' = lev
  /\ rc' = IF lev = None THEN "EINVAL" ELSE "OK"
  /\ UNCHANGED <<pc, total, minb, num_of_levels, max_nodes, heap, mem_pool,
                 double_free>>

Next ==
  \/ \E t, m \in CfgValues : Configure(t, m)
  \/ CallocAllocator
  \/ CallocPool
  \/ CallocElements
  \/ Fail
  \/ buddy_alloc_destroy
  \/ \E size \in Word : Request(size)

Spec == Init /\ [][Next]_vars

-----------------------------------------------------------------------------
(* Properties.                                                             *)

(* The numbers are words; a level computed by get_block_level is less than *)
(* the width, so the shifts by it are defined.                             *)
TypeOK ==
  /\ pc \in {"idle", "allocator", "pool", "elements", "fail", "live"}
  /\ total \in Word /\ minb \in Word
  /\ num_of_levels \in Word /\ max_nodes \in Word
  /\ heap \subseteq {"allocator", "pool", "elements"}
  /\ mem_pool \in BOOLEAN /\ double_free \in BOOLEAN
  /\ request \in Word \cup {None}
  /\ level \in (0 .. W - 1) \cup {None}
  /\ rc \in {"OK", "EINVAL", "ENOMEM"}

PowersOfTwo == {Power[k] : k \in 0 .. W - 1}

(* A configuration is refused only if it is not two powers of two in the   *)
(* right order.                                                            *)
RefusedRightly ==
  rc = "EINVAL" /\ request = None =>
    ~(total \in PowersOfTwo /\ minb \in PowersOfTwo /\ minb <= total)

(* buddy_alloc_create takes exactly the configurations of two powers of    *)
(* two in the right order, and counts the levels so that level 0 is the    *)
(* whole pool and the last level the smallest block: the doubling sizes    *)
(* module BuddyAllocator assumes.                                          *)
GeometryExact ==
  /\ RefusedRightly
  /\ pc = "live" =>
       /\ total \in PowersOfTwo /\ minb \in PowersOfTwo
       /\ num_of_levels > 0
       /\ get_block_size(0) = total
       /\ get_block_size(num_of_levels - 1) = minb
       /\ \A lev \in 1 .. num_of_levels - 1 :
            get_block_size(lev - 1) = 2 * get_block_size(lev)

Nodes == {<<lev, i * get_block_size(lev)>> :
             lev \in 0 .. num_of_levels - 1, i \in 0 .. Power[num_of_levels - 1] - 1}
         \cap ((0 .. num_of_levels - 1) \X (0 .. total - 1))

SlotOf(n) == calc_buddy_allocator_slot(n[2], n[1], get_block_size(n[1]))

(* The slot formula gives each block of the tree a descriptor of its own   *)
(* and uses the whole array, so a pair of level and offset can stand for a *)
(* descriptor.                                                             *)
SlotsOneToOne ==
  pc = "live" /\ request = None =>
    /\ {SlotOf(n) : n \in Nodes} = 0 .. max_nodes - 1
    /\ Cardinality(Nodes) = max_nodes

(* offset ^ size is the other half of the parent, inside the pool.         *)
BuddiesPair ==
  pc = "live" /\ request = None =>
    \A n \in Nodes :
      LET size  == get_block_size(n[1])
          buddy == get_buddy_offset(n[2], size)
      IN  n[1] > 0 =>
            /\ <<n[1], buddy>> \in Nodes
            /\ {n[2], buddy} = {(n[2] \div (2 * size)) * 2 * size,
                                (n[2] \div (2 * size)) * 2 * size + size}

(* The level of a request is the one whose blocks are the smallest that    *)
(* hold it, with no more than a factor of two lost, and a request that no  *)
(* level serves is refused: one below the smallest block that would be     *)
(* rounded below it, one above the pool, and one so large that next_pow2   *)
(* wraps around to zero.                                                   *)
LevelServes ==
  pc = "live" /\ request # None =>
    \A lev \in 0 .. num_of_levels - 1 :
      lev = level <=> /\ request <= get_block_size(lev)
                      /\ get_block_size(lev) < 2 * request

(* A create that fails, or a destroy, leaves nothing on the heap.          *)
NothingLeaked == pc = "idle" => heap = {}

(* mem_pool_destroy is only given a pool that exists, as the test          *)
(* if (b_allocator->mem_pool) before it says.                              *)
NoDoubleFree == ~double_free

-----------------------------------------------------------------------------
(* The inductive invariant behind the properties.                          *)

(* Levels and nodes are those of a binary tree with a pool of 2^a bytes at *)
(* the root and blocks of 2^b bytes as leaves.                             *)
Tree(a, b) ==
  /\ total = Power[a] /\ minb = Power[b]
  /\ num_of_levels = a - b + 1
  /\ max_nodes = Power[a - b + 1] - 1

Configured ==
  pc \in {"allocator", "pool", "elements", "live"} =>
    \E a \in 0 .. W - 1 : \E b \in 0 .. a : Tree(a, b)

(* What is on the heap at each point of buddy_alloc_create; a failed one   *)
(* has released the pool by the time it reaches the label fail.            *)
HeapInStep ==
  /\ pc \in {"idle", "allocator"} => heap = {}
  /\ pc = "pool" => heap = {"allocator"}
  /\ pc = "elements" => heap = {"allocator", "pool"}
  /\ pc = "live" => heap = {"allocator", "pool", "elements"}
  /\ pc = "fail" => heap \subseteq {"allocator"}

NoRequestYet == pc # "live" => request = None /\ level = None

IndInv ==
  /\ TypeOK
  /\ Configured
  /\ RefusedRightly
  /\ HeapInStep
  /\ NoRequestYet
  /\ LevelServes

=============================================================================
