--------------------------- MODULE RegionAllocator --------------------------
(***************************************************************************)
(* What a caller of the buddy allocator is promised, without trees, lists  *)
(* or flags: a set of disjoint, aligned ranges of the pool.  Each call is  *)
(* here with its argument, and its answer follows from that argument and   *)
(* the ranges held.                                                        *)
(***************************************************************************)
EXTENDS Integers

CONSTANTS
  Total,     \* the size of the pool
  Sizes,     \* the sizes of the ranges that can be handed out
  Requests   \* the sizes callers ask for

VARIABLES
  live,      \* the allocator exists
  regions,   \* the ranges the callers hold, as pairs <<offset, size>>
  call,      \* the last call: its name and its argument
  rc         \* the result of the last call

vars == <<live, regions, call, rc>>

Init == live = FALSE /\ regions = {} /\ call = <<"none">> /\ rc = "OK"

(* The range a request of the given size is served with.                   *)
Serves(s, size) == size <= s /\ s < 2 * size

Aligned(s) == {r \in (0 .. Total - 1) \X {s} : r[1] % s = 0}

(* The ranges that would serve the request.                                *)
Candidates(size) == UNION {Aligned(s) : s \in {t \in Sizes : Serves(t, size)}}

Apart(r, q) == r[1] + r[2] <= q[1] \/ q[1] + q[2] <= r[1]

Available(r) == \A q \in regions : Apart(r, q)

(* There may be no memory for the descriptors.                             *)
Create == /\ ~live
          /\ call' = <<"create">>
          /\ live' = (rc' = "OK")
          /\ rc' \in {"OK", "ENOMEM"}
          /\ UNCHANGED regions

Destroy == /\ live
           /\ call' = <<"destroy">>
           /\ live' = FALSE
           /\ regions' = {}
           /\ rc' = "OK"

(* A request is refused only if no range has its size, or if none of those *)
(* that have it is available; any other one is served.                     *)
Allocate(size) ==
  /\ live
  /\ call' = <<"allocate", size>>
  /\ \/ /\ \E r \in Candidates(size) : /\ Available(r)
                                       /\ regions' = regions \cup {r}
        /\ rc' = "OK"
     \/ /\ \A r \in Candidates(size) : ~Available(r)
        /\ rc' = IF Candidates(size) = {} THEN "EINVAL" ELSE "ENFILE"
        /\ UNCHANGED regions
  /\ UNCHANGED live

(* The range given back is the one named.                                  *)
Free(r) == /\ live
           /\ r \in regions
           /\ call' = <<"free", r>>
           /\ regions' = regions \ {r}
           /\ rc' = "OK"
           /\ UNCHANGED live

Next ==
  \/ Create
  \/ Destroy
  \/ \E size \in Requests : Allocate(size)
  \/ \E r \in regions : Free(r)

Spec == Init /\ [][Next]_vars

=============================================================================
