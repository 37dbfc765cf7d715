----------------------------- MODULE BlockStore -----------------------------
(***************************************************************************)
(* What a caller of the storage manager is promised: every block it holds  *)
(* is a memory of its own.  No other block, no free, no reallocation and   *)
(* no failed call shows in it; only a write through the block that failed  *)
(* halfway leaves the bytes it was to write open.  The promise holds while *)
(* the callers stay inside their blocks: nothing keeps a write from        *)
(* leaving its block, and one that does may spoil any of them.             *)
(***************************************************************************)
EXTENDS Integers

CONSTANTS
  Blocks,    \* the blocks there can be
  Size,      \* the size of each
  Meet,      \* the pairs of blocks that cannot be held together
  Requests,  \* the sizes callers ask for
  Offsets,   \* the offsets inside blocks
  Word,      \* the offsets callers give
  Lengths,   \* the lengths of their reads and writes
  Values,    \* the bytes they write
  Zero,      \* what a byte never written may read as
  Any,       \* in contents: the byte may read as anything
  NULL       \* in got: nothing was read

VARIABLES
  store,     \* "none", "creating" or "live"
  held,      \* the blocks callers hold
  contents,  \* per block and offset: the byte it must have, or Any
  request,   \* the last call: its name and its arguments
  result,    \* the result of the last call
  got        \* the bytes the last call has read

vars == <<store, held, contents, request, result, got>>

Fresh == [o \in Offsets |-> Any]

Init == /\ store = "none" /\ held = {} /\ contents = [b \in Blocks |-> Fresh]
        /\ request = <<"none">> /\ result = "OK" /\ got = NULL

(* An illegal configuration is never accepted.                             *)
Create(legal) ==
  /\ store = "none"
  /\ request' = <<"create", legal>>
  /\ \/ legal /\ store' = "creating" /\ result' = "OK"
     \/ ~legal /\ result' = "EINVAL" /\ UNCHANGED store
     \/ result' = "ENOMEM" /\ UNCHANGED store
  /\ got' = NULL
  /\ UNCHANGED <<held, contents>>

(* The second half of the same call.                                       *)
Created == /\ store = "creating"
           /\ \/ store' = "live" /\ result' = "OK"
              \/ store' = "none" /\ result' \in {"ENOMEM", "EIO"}
           /\ got' = NULL
           /\ UNCHANGED <<held, contents, request>>

Closed == /\ store' = "none" /\ held' = {}
          /\ contents' = [b \in Blocks |-> Fresh]
          /\ result' = "OK" /\ got' = NULL

Destroy == store = "live" /\ request' = <<"destroy">> /\ Closed

(* The process dies.                                                       *)
Crash == store # "none" /\ request' = <<"crash">> /\ Closed

-----------------------------------------------------------------------------

Serves(b, size) == size <= Size[b] /\ Size[b] < 2 * size

Available(b) == \A c \in held : <<b, c>> \notin Meet

(* The request is refused for its size or for want of space only if that   *)
(* is so; memory may be short at any time.                                 *)
Alloc(size) ==
  /\ store = "live"
  /\ request' = <<"alloc", size>>
  /\ \/ /\ \E b \in Blocks \ held :
             /\ Serves(b, size) /\ Available(b)
             /\ held' = held \cup {b}
             /\ contents' = [contents EXCEPT ![b] = Fresh]
        /\ result' = "OK"
     \/ /\ \A b \in Blocks : Serves(b, size) => ~Available(b)
        /\ result' = IF \E b \in Blocks : Serves(b, size) THEN "ENFILE" ELSE "EINVAL"
        /\ UNCHANGED <<held, contents>>
     \/ result' = "ENOMEM" /\ UNCHANGED <<held, contents>>
  /\ got' = NULL
  /\ UNCHANGED store

Free(b) == /\ store = "live"
           /\ b \in held
           /\ request' = <<"free", b>>
           /\ held' = held \ {b}
           /\ contents' = [contents EXCEPT ![b] = Fresh]
           /\ result' = "OK" /\ got' = NULL
           /\ UNCHANGED store

Inside(b, offset, len) == offset + len <= Size[b]

(* A write inside its block is done, or it fails and each of its bytes is  *)
(* old or new.                                                             *)
WriteInside(b, offset, len, bytes) ==
  LET Hit(o) == offset <= o /\ o < offset + len IN
  \/ /\ contents' = [contents EXCEPT ![b] = [o \in Offsets |->
          IF Hit(o) THEN bytes[o - offset] ELSE contents[b][o]]]
     /\ result' = "OK"
  \/ /\ contents' = [contents EXCEPT ![b] = [o \in Offsets |->
          IF Hit(o) THEN Any ELSE contents[b][o]]]
     /\ result' = "EIO"

(* One that leaves it is refused, or spoils what it hits; it never makes a *)
(* byte be promised.                                                       *)
WriteOutside ==
  \/ result' = "EFBIG" /\ UNCHANGED contents
  \/ /\ contents' = [b \in Blocks |-> [o \in Offsets |-> contents'[b][o]]]
     /\ \A b \in Blocks, o \in Offsets :
          contents'[b][o] \in {contents[b][o], Any}
     /\ result' \in {"OK", "EIO"}

Write(b, offset, len, bytes) ==
  /\ store = "live"
  /\ b \in held
  /\ request' = <<"write", b, offset, len, bytes>>
  /\ \/ len = 0 /\ result' = "EINVAL" /\ UNCHANGED contents
     \/ len > 0 /\ Inside(b, offset, len) /\ WriteInside(b, offset, len, bytes)
     \/ len > 0 /\ ~Inside(b, offset, len) /\ WriteOutside
  /\ got' = NULL
  /\ UNCHANGED <<store, held>>

(* A read inside its block returns what the block must have, byte by byte, *)
(* or fails on an I/O error or at the end of the file.                     *)
Read(b, offset, len) ==
  /\ store = "live"
  /\ b \in held
  /\ request' = <<"read", b, offset, len>>
  /\ \/ len = 0 /\ result' = "EINVAL" /\ got' = NULL
     \/ len > 0 /\ result' = "EIO" /\ got' = NULL
     \/ len > 0 /\ ~Inside(b, offset, len) /\ result' = "EFBIG" /\ got' = NULL
     \/ /\ len > 0 /\ result' = "OK"
        /\ got' \in [0 .. len - 1 -> Values \cup {Zero}]
        /\ Inside(b, offset, len) =>
             \A i \in 0 .. len - 1 : contents[b][offset + i] \in {Any, got'[i]}
  /\ UNCHANGED <<store, held, contents>>

-----------------------------------------------------------------------------

Next ==
  \/ \E legal \in BOOLEAN : Create(legal)
  \/ Created
  \/ Destroy
  \/ Crash
  \/ \E size \in Requests : Alloc(size)
  \/ \E b \in held :
       \/ Free(b)
       \/ \E offset \in Word, len \in Lengths :
            \/ \E bytes \in [0 .. len - 1 -> Values] : Write(b, offset, len, bytes)
            \/ Read(b, offset, len)

Spec == Init /\ [][Next]_vars

=============================================================================
