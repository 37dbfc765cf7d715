--------------------------- MODULE BuddyAllocator ---------------------------
(***************************************************************************)
(* The buddy allocator of BUDDY_ALLOCATOR/src/buddy_allocator.c.           *)
(*                                                                         *)
(* The allocator hands out power-of-two ranges of a virtual pool.  Its     *)
(* state is an array of block descriptors, one per node of a binary tree,  *)
(* and one doubly linked list of free blocks per level of the tree.  The   *)
(* slot of a descriptor in the array is a function of the block's level    *)
(* and offset, so a descriptor is named here by the pair <<level, offset>> *)
(* (module BuddyCreate checks the slot formula and the rest of the bit      *)
(* arithmetic).  A handle is a pointer to a descriptor, hence such a pair. *)
(*                                                                         *)
(* The library takes no lock and starts no thread, so each call is one     *)
(* step.  A call that walks several levels touches the list of each level  *)
(* at most once; the loops are therefore written in closed form.           *)
(***************************************************************************)
EXTENDS Integers

CONSTANTS
  NumLevels,  \* num_of_levels: level 0 is the whole pool
  BlockSize,  \* the size of a block of each level, in bytes
  Requests,   \* the sizes callers ask for
  NULL        \* the null pointer

Levels == 0 .. NumLevels - 1

(* The pool size and the smallest block size are powers of two (the check  *)
(* of buddy_alloc_create), so a block is twice as large as its halves.     *)
ASSUME SizeAssumption ==
  /\ NumLevels \in Nat \ {0}
  /\ BlockSize \in [Levels -> Nat \ {0}]
  /\ \A l \in Levels \ {0} : BlockSize[l - 1] = 2 * BlockSize[l]

ASSUME RequestAssumption == Requests \subseteq Nat

Total == BlockSize[0]

(* The descriptors of the block array: a block starts at a multiple of its *)
(* size.                                                                   *)
Slots == {b \in Levels \X (0 .. Total - 1) : b[2] % BlockSize[b[1]] = 0}

ASSUME NullAssumption == NULL \notin Slots

VARIABLES
  live,          \* the allocator exists: created and not yet destroyed
  is_active,     \* per descriptor: it holds a block of the partition
  is_allocated,  \* per descriptor: its block belongs to a caller
  next, prev,    \* per descriptor: the links of the free list
  head,          \* per level: free_list[level].head
  handles,       \* the handles the callers hold
  call,          \* the last call: its name and its argument
  rc             \* the result of the last call

vars == <<live, is_active, is_allocated, next, prev, head, handles, call, rc>>

(* What a call may change in the allocator, apart from its answer.         *)
memory == <<live, is_active, is_allocated, next, prev, head, handles>>

Pointers == Slots \cup {NULL}

-----------------------------------------------------------------------------
(* Offsets and levels.                                                     *)

(* offset ^ size: the bit of weight size is flipped.                       *)
get_buddy_offset(offset, size) ==
  IF (offset \div size) % 2 = 0 THEN offset + size ELSE offset - size

Buddy(b) == <<b[1], get_buddy_offset(b[2], BlockSize[b[1]])>>

(* The level of a request: its size rounded up to a power of two has to be *)
(* the size of a block of that level.                                      *)
get_block_level(size, level) ==
  /\ size <= BlockSize[level]
  /\ BlockSize[level] < 2 * size

(* The block of the given level that the merging loop has reached from b:  *)
(* each round keeps the smaller offset of the two buddies.                 *)
Enclosing(b, level) ==
  <<level, (b[2] \div BlockSize[level]) * BlockSize[level]>>

(* Variant: the buddy is taken for free although a caller holds it.        *)
ActiveOnly(b) == b \in Slots /\ is_active[b]

(* The test of remove_buddy_block: the block exists and no caller has it.  *)
IsFree(b) == b \in Slots /\ is_active[b] /\ ~is_allocated[b]

(* Byte o of the pool belongs to block b.                                  *)
Covers(b, o) == b[2] <= o /\ o < b[2] + BlockSize[b[1]]

Disjoint(b, c) == \/ b[2] + BlockSize[b[1]] <= c[2]
                  \/ c[2] + BlockSize[c[1]] <= b[2]

-----------------------------------------------------------------------------
(* The free lists.                                                         *)

None == [l \in Levels |-> NULL]

(* A call extracts the block out[l] from the list of level l and then puts *)
(* in[l] at its head, at every level l where they are not NULL; it has     *)
(* created the blocks of the set new, whose links start as NULL.           *)
linked_next(out, in, new) ==
  [s \in Slots |->
     LET l == s[1] IN
     IF s = in[l] THEN head[l]
     ELSE IF s \in new THEN NULL
     ELSE IF out[l] # NULL /\ prev[out[l]] = s THEN next[out[l]]
     ELSE next[s]]

(* Variant: the successor of an extracted block keeps its prev link.       *)
PrevNotMended(out, in, new) ==
  [s \in Slots |->
     LET l == s[1] IN
     IF s \in new THEN NULL
     ELSE IF in[l] # NULL /\ head[l] = s THEN in[l]
     ELSE prev[s]]

linked_prev(out, in, new) ==
  [s \in Slots |->
     LET l == s[1] IN
     IF s \in new THEN NULL
     ELSE IF in[l] # NULL /\ head[l] = s THEN in[l]
     ELSE IF out[l] # NULL /\ next[out[l]] = s THEN prev[out[l]]
     ELSE prev[s]]

linked_head(out, in) ==
  [l \in Levels |->
     IF in[l] # NULL THEN in[l]
     ELSE IF out[l] # NULL /\ prev[out[l]] = NULL THEN next[out[l]]
     ELSE head[l]]

Relink(out, in, new) ==
  /\ next' = linked_next(out, in, new)
  /\ prev' = linked_prev(out, in, new)
  /\ head' = linked_head(out, in)

(* The blocks the loop of buddy_alloc_count_free_blocks passes, given as   *)
(* many rounds as there are descriptors, and where it is then.             *)
Walk(level) ==
  LET cur[n \in Nat] == IF n = 0 THEN head[level]
                        ELSE IF cur[n - 1] = NULL THEN NULL
                        ELSE next[cur[n - 1]]
  IN  cur

-----------------------------------------------------------------------------
(* Descriptors.                                                            *)

(* Variant: the block the call itself gives up still counts as active.     *)
SlotBusy(s, given_up) == ~is_active[s]

(* create_new_block accepts slot s: it is not active, the block given_up   *)
(* by the same call being inactive by then.                                *)
create_new_block(s, given_up) == s = given_up \/ ~is_active[s]

(* Variant: create_new_block keeps the flag of the slot's former block.    *)
AllocatedKept(new, taken) ==
  [s \in Slots |-> s \in taken \/ is_allocated[s]]

(* is_allocated after a call that creates the blocks of new and hands out  *)
(* those of taken.                                                         *)
set_allocated(new, taken) ==
  [s \in Slots |-> s \in taken \/ (s \notin new /\ is_allocated[s])]

-----------------------------------------------------------------------------
(* Creation and destruction.                                               *)

Root == <<0, 0>>

(* What calloc returns.                                                    *)
Unset    == [s \in Slots |-> FALSE]
Unlinked == [s \in Slots |-> NULL]

Init ==
  /\ live = FALSE
  /\ is_active = Unset
  /\ is_allocated = Unset
  /\ next = Unlinked
  /\ prev = Unlinked
  /\ head = None
  /\ handles = {}
  /\ call = <<"none">>
  /\ rc = "OK"

(* buddy_alloc_create with a legal configuration: one free block, the pool.*)
buddy_alloc_create ==
  /\ ~live
  /\ call' = <<"create">>
  /\ live' = TRUE
  /\ is_active' = [is_active EXCEPT ![Root] = TRUE]
  /\ head' = [head EXCEPT ![0] = Root]
  /\ rc' = "OK"
  /\ UNCHANGED <<is_allocated, next, prev, handles>>

(* The allocator or its mem_pool_t cannot be allocated.                    *)
CreateOutOfMemory ==
  /\ ~live
  /\ call' = <<"create">>
  /\ rc' = "ENOMEM"
  /\ UNCHANGED memory

(* The descriptors are released; the callers drop their handles.           *)
buddy_alloc_destroy ==
  /\ live
  /\ call' = <<"destroy">>
  /\ live' = FALSE
  /\ is_active' = Unset
  /\ is_allocated' = Unset
  /\ next' = Unlinked
  /\ prev' = Unlinked
  /\ head' = None
  /\ handles' = {}
  /\ rc' = "OK"

-----------------------------------------------------------------------------
(* buddy_alloc_allocate, one action for each way it ends.                  *)

AllocateIllegalSize(size) ==
  /\ live
  /\ \A l \in Levels : ~get_block_level(size, l)
  /\ rc' = "EINVAL"
  /\ UNCHANGED memory

(* Variant: an empty list is not noticed.                                  *)
AlwaysFound(level) == TRUE

found_block(level) == head[level] # NULL

(* The list of the level is not empty: its head is taken.                  *)
allocate_at_level(level) ==
  LET b == head[level] IN
  /\ live
  /\ found_block(level)
  /\ is_allocated' = set_allocated({}, {b})
  /\ Relink([None EXCEPT ![level] = b], None, {})
  /\ handles' = handles \cup {b}
  /\ rc' = "OK"
  /\ UNCHANGED <<live, is_active>>

(* The first non-empty list above the level, found going up to level 0.    *)
find_non_empty_level(level, src) ==
  /\ src < level
  /\ head[src] # NULL
  /\ \A l \in Levels : src < l /\ l <= level => head[l] = NULL

(* Variant: the loop stops one level early.                                *)
SplitShort(src, level) == {l \in Levels : src < l /\ l < level}

SplitLevels(src, level) == {l \in Levels : src < l /\ l <= level}

(* split_block_down: the head of the list of src leaves it, the second     *)
(* half is put on its list at each level below, and the first half of the  *)
(* last one is the result.  A descriptor that is in use already stops it.  *)
split_block_down(src, level) ==
  LET b       == head[src]
      Half(l) == <<l, get_buddy_offset(b[2], BlockSize[l])>>
      target  == <<level, b[2]>>
      below   == SplitLevels(src, level)
      created == {l \in below : \A k \in below :
                    k <= l => create_new_block(Half(k), b)}
      done    == created = below /\ create_new_block(target, b)
      new     == {Half(l) : l \in created} \cup (IF done THEN {target} ELSE {})
  IN
  /\ live
  /\ find_non_empty_level(level, src)
  /\ is_active' = [s \in Slots |-> s \in new \/ (is_active[s] /\ s # b)]
  /\ is_allocated' = set_allocated(new, new \cap {target})
  /\ Relink([None EXCEPT ![src] = b],
            [l \in Levels |-> IF l \in created THEN Half(l) ELSE NULL],
            new)
  /\ handles' = IF done THEN handles \cup {target} ELSE handles
  /\ rc' = IF done THEN "OK" ELSE "EINVAL"
  /\ UNCHANGED live

(* Variant: the search stops before it looks at level 0.                   *)
NoSpaceBelowRoot(level) ==
  /\ live
  /\ \A l \in Levels : 0 < l /\ l <= level => head[l] = NULL
  /\ rc' = "ENFILE"
  /\ UNCHANGED memory

(* find_non_empty_level reaches level 0 and finds its list empty too.      *)
AllocateNoSpace(level) ==
  /\ live
  /\ \A l \in Levels : l <= level => head[l] = NULL
  /\ rc' = "ENFILE"
  /\ UNCHANGED memory

buddy_alloc_allocate(size) ==
  /\ call' = <<"allocate", size>>
  /\ \/ AllocateIllegalSize(size)
     \/ \E level \in Levels :
          /\ get_block_level(size, level)
          /\ \/ allocate_at_level(level)
             \/ \E src \in Levels : split_block_down(src, level)
             \/ AllocateNoSpace(level)

-----------------------------------------------------------------------------
(* buddy_alloc_free.                                                       *)

(* Variant: at most one buddy is absorbed.                                 *)
MergesOnce(b, level) ==
  /\ level <= b[1]
  /\ b[1] <= level + 1
  /\ b[1] > 0 => (level < b[1] <=> IsFree(Buddy(b)))

(* Variant: the loop stops at level 1.                                     *)
MergesBelowRoot(b, level) ==
  /\ level <= b[1]
  /\ \A l \in Levels : level < l /\ l <= b[1] =>
       l > 1 /\ IsFree(Buddy(Enclosing(b, l)))
  /\ level > 1 => ~IsFree(Buddy(Enclosing(b, level)))

(* The merging loop of a free of b has absorbed the free buddies of the    *)
(* levels below level and has stopped there.                               *)
MergesUpTo(b, level) ==
  /\ level <= b[1]
  /\ \A l \in Levels : level < l /\ l <= b[1] => IsFree(Buddy(Enclosing(b, l)))
  /\ level > 0 => ~IsFree(Buddy(Enclosing(b, level)))

(* Callers only free what they hold.  The block and the absorbed buddies   *)
(* (remove_buddy_block) become inactive and the block that encloses them   *)
(* is created at the head of its list; a descriptor in use stops it.       *)
buddy_alloc_free(b, level) ==
  LET merged == Enclosing(b, level)
      out    == [l \in Levels |-> IF level < l /\ l <= b[1]
                                  THEN Buddy(Enclosing(b, l)) ELSE NULL]
      done   == create_new_block(merged, b)
      new    == IF done THEN {merged} ELSE {}
  IN
  /\ live
  /\ b \in handles
  /\ call' = <<"free", b>>
  /\ MergesUpTo(b, level)
  /\ is_active' = [s \in Slots |->
       s \in new \/ (is_active[s] /\ s # b /\ s # out[s[1]])]
  /\ is_allocated' = set_allocated(new, {})
  /\ Relink(out, [None EXCEPT ![level] = IF done THEN merged ELSE NULL], new)
  /\ handles' = handles \ {b}
  /\ rc' = IF done THEN "OK" ELSE "EINVAL"
  /\ UNCHANGED live

-----------------------------------------------------------------------------

Next ==
  \/ buddy_alloc_create
  \/ CreateOutOfMemory
  \/ buddy_alloc_destroy
  \/ \E size \in Requests : buddy_alloc_allocate(size)
  \/ \E b \in handles, level \in Levels : buddy_alloc_free(b, level)

Spec == Init /\ [][Next]_vars

-----------------------------------------------------------------------------
(* Properties.                                                             *)

(* The state has the shape of the structs of buddy_allocator.c.            *)
TypeOK ==
  /\ live \in BOOLEAN
  /\ is_active \in [Slots -> BOOLEAN]
  /\ is_allocated \in [Slots -> BOOLEAN]
  /\ next \in [Slots -> Pointers]
  /\ prev \in [Slots -> Pointers]
  /\ head \in [Levels -> Pointers]
  /\ handles \subseteq Slots
  /\ rc \in {"OK", "EINVAL", "ENFILE", "ENOMEM"}

(* The ranges of two blocks that callers hold never overlap, whatever      *)
(* splits and merges came between the two allocations.                     *)
NoOverlap == \A b, c \in handles : b # c => Disjoint(b, c)

(* Every byte of the pool belongs to an active block: no split or merge    *)
(* loses a part of the pool.                                               *)
NoLeak == live => \A o \in 0 .. Total - 1 :
                    \E b \in Slots : is_active[b] /\ Covers(b, o)

(* The merging loop of buddy_alloc_free never leaves two free buddies.     *)
Coalesced == \A b \in Slots : b[1] > 0 /\ IsFree(b) => ~IsFree(Buddy(b))

(* is_active and is_allocated tell exactly the blocks the callers hold.    *)
HandlesExact == handles = {b \in Slots : is_active[b] /\ is_allocated[b]}

(* The loop of buddy_alloc_count_free_blocks ends and passes exactly the   *)
(* free blocks of the level: extracting a buddy from the middle of a list  *)
(* neither drops nor duplicates a block nor closes a cycle.                *)
FreeListsExact ==
  \A l \in Levels :
    /\ {Walk(l)[n] : n \in 0 .. Total} \ {NULL}
         = {b \in Slots : b[1] = l /\ IsFree(b)}
    /\ Walk(l)[Total] = NULL

(* Once every handle has been returned the pool is one free block again.   *)
WholeAgain == live /\ handles = {} => IsFree(Root)

(* The range a caller knows a block as.                                    *)
Region(b) == <<b[2], BlockSize[b[1]]>>

(* A caller sees no more than a set of disjoint aligned ranges: a request  *)
(* is served with a range of its size rounded up whenever one is free of   *)
(* allocations, so the search of the free lists misses nothing and merging *)
(* is never put off; -ENFILE is answered only to a request for whose size  *)
(* there is none, and a free gives back the range it names and no other.   *)
Promise == INSTANCE RegionAllocator WITH
  regions <- {Region(b) : b \in handles},
  Sizes   <- {BlockSize[l] : l \in Levels},
  call    <- IF call[1] = "free" THEN <<"free", Region(call[2])>> ELSE call

ImplementsRegions == Promise!Spec

(* A call that reports an error has changed nothing: the -EINVAL that a    *)
(* descriptor in use would cause halfway through a split or a merge, with  *)
(* blocks already moved, never happens.                                    *)
FailureAtomic == [][rc' # "OK" => UNCHANGED memory]_vars

-----------------------------------------------------------------------------
(* The inductive invariant behind the properties.                          *)

(* A link never leads to another level, not even a stale one.              *)
LinksInLevel ==
  /\ \A s \in Slots : next[s] # NULL => next[s][1] = s[1]
  /\ \A s \in Slots : prev[s] # NULL => prev[s][1] = s[1]
  /\ \A l \in Levels : head[l] # NULL => head[l][1] = l

HeadsFree ==
  \A l \in Levels : head[l] # NULL => IsFree(head[l]) /\ prev[head[l]] = NULL

(* Among the free blocks next and prev are inverse to each other, and the  *)
(* only one without a predecessor is the head of its list.                 *)
ListsLinked ==
  \A b \in Slots : IsFree(b) =>
    /\ next[b] # NULL => IsFree(next[b]) /\ prev[next[b]] = b
    /\ prev[b] # NULL => IsFree(prev[b]) /\ next[prev[b]] = b
    /\ prev[b] = NULL => head[b[1]] = b

(* The free blocks of a level.                                             *)
FreeIn(l) == {b \in Slots : b[1] = l /\ IsFree(b)}

(* s names the n given blocks, each of them once, in the order in which a  *)
(* list with this head and these links passes them.                        *)
InListOrder(s, n, blocks, first, link) ==
  /\ \A i, j \in 1 .. n : s[i] = s[j] => i = j
  /\ \A b \in blocks : \E i \in 1 .. n : s[i] = b
  /\ first = IF n = 0 THEN NULL ELSE s[1]
  /\ \A i \in 1 .. n : link[s[i]] = IF i = n THEN NULL ELSE s[i + 1]

(* Each list has a last block and leaves no free block of its level out.   *)
ListsOrdered ==
  \A l \in Levels : \E n \in 0 .. Total : \E s \in [1 .. n -> FreeIn(l)] :
    InListOrder(s, n, FreeIn(l), head[l], next)

(* The active blocks, free or not, never overlap.                          *)
ActiveApart ==
  \A b, c \in Slots : is_active[b] /\ is_active[c] /\ b # c => Disjoint(b, c)

Gone == ~live => /\ is_active = Unset
                 /\ is_allocated = Unset
                 /\ next = Unlinked
                 /\ prev = Unlinked
                 /\ head = None
                 /\ handles = {}

(* The active blocks are a partition of the pool in which no two free      *)
(* buddies meet; the flags, the handles and the lists agree about it.      *)
IndInv ==
  /\ TypeOK
  /\ LinksInLevel
  /\ HeadsFree
  /\ ListsLinked
  /\ ListsOrdered
  /\ ActiveApart
  /\ HandlesExact
  /\ NoLeak
  /\ Coalesced
  /\ Gone

=============================================================================
