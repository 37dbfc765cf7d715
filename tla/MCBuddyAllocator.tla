-------------------------- MODULE MCBuddyAllocator --------------------------
(***************************************************************************)
(* The buddy allocator on a pool of four levels, the geometry of the       *)
(* repository's own tests (4096 bytes in blocks of at least 512), with the *)
(* smallest block taken as the unit.                                       *)
(***************************************************************************)
EXTENDS BuddyAllocator

MCNumLevels == 4
MCBlockSize == [l \in 0 .. MCNumLevels - 1 |-> 2 ^ (MCNumLevels - 1 - l)]
MCRequests  == {0, 1, 2, 3, 5, 9}

(* No call depends on which call was the last.  The links of a descriptor  *)
(* that is on no list, and the is_allocated flag of one that is not        *)
(* active, are stale: they are written again before they are read.  States *)
(* that differ only there are one state.                                   *)
CurrentState ==
  <<live, is_active, head, handles, rc,
    [s \in Slots |-> is_active[s] /\ is_allocated[s]],
    [s \in Slots |-> IF IsFree(s) THEN <<next[s], prev[s]>> ELSE NULL]>>

=============================================================================
