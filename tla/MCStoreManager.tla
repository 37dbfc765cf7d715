--------------------------- MODULE MCStoreManager ---------------------------
(***************************************************************************)
(* The storage manager on a pool of four bytes in blocks of at least one:  *)
(* three levels, the fewest with a split and a merge in the middle.  The   *)
(* callers write two bytes, one of them zero, so that one block's byte     *)
(* shows in another and a byte of zero is not always a hole.               *)
(***************************************************************************)
EXTENDS StoreManager

MCBlockSize == [l \in 0 .. 2 |-> 2 ^ (2 - l)]

(* As in MCBuddyAllocator, states that differ only in stale links or flags *)
(* of descriptors are one state; so are states that differ only in the     *)
(* last call and what it returned, which no step reads.  TLC checks the    *)
(* step properties on every step all the same, and of these variables they *)
(* are only about the new values.                                          *)
CurrentState ==
  <<store, file, contents, live, is_active, head, handles,
    [s \in Slots |-> is_active[s] /\ is_allocated[s]],
    [s \in Slots |-> IF IsFree(s) THEN <<next[s], prev[s]>> ELSE NULL]>>

=============================================================================
