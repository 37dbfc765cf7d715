---------------------------- MODULE StoreManager ----------------------------
(***************************************************************************)
(* The storage manager of STORAGE_MANAGER/src/store_mngr.c: blocks of one  *)
(* backing file, ./storage.bin, handed out by the buddy allocator and read *)
(* and written through ram_file_ctrl.c at the block's offset in the pool.  *)
(*                                                                         *)
(* The allocator is module BuddyAllocator itself, its variables and        *)
(* actions included; the file is a value of module RamFile.  A block       *)
(* handle of the store holds one of the allocator's, and stands for it.    *)
(* The process may die between two calls: the allocator is gone with it,   *)
(* the file is not, and the next store opens what it finds.                *)
(***************************************************************************)
EXTENDS BuddyAllocator, RamFile

CONSTANTS
  Uint32,   \* how many values a uint32_t has
  Values,   \* the bytes callers write
  Lengths,  \* the lengths of their reads and writes
  Any       \* not a byte: see contents

ASSUME StoreAssumption ==
  /\ Uint32 \in Nat /\ Total < Uint32
  /\ Lengths \subseteq Nat
  /\ \A len \in Lengths : 2 * (Uint32 + len) < SizeT
  /\ Any \notin Values \cup {Zero}

Offsets == 0 .. Total - 1    \* the offsets in the pool and in the file
Word    == 0 .. Uint32 - 1   \* the offsets a caller can give
Byte    == Values \cup {Zero}

VARIABLES
  store,     \* "none", "creating" inside store_mngr_create, or "live"
  file,      \* ./storage.bin
  contents,  \* per handle and offset: what its holder wrote there, or Any
  request,   \* the last call: its name and its arguments
  result,    \* the result of the last call
  got        \* the bytes the last call has read, or NULL

store_vars == <<store, file, contents, request, result, got>>
all_vars   == <<vars, store_vars>>

(* contents is what the callers know, not a variable of the code: a block  *)
(* of which nothing is known.                                              *)
Fresh   == [o \in Offsets |-> Any]
Nothing == [b \in Slots |-> Fresh]

StoreInit ==
  /\ Init
  /\ store = "none"
  /\ file = NoFile(Offsets)
  /\ contents = Nothing
  /\ request = <<"none">>
  /\ result = "OK"
  /\ got = NULL

-----------------------------------------------------------------------------
(* Creation and destruction.                                               *)

(* store_mngr_create up to buddy_alloc_create, which refuses an illegal    *)
(* configuration; each calloc on the way may fail.                         *)
CreateAllocator(legal) ==
  /\ store = "none"
  /\ request' = <<"create", legal>>
  /\ \/ legal /\ buddy_alloc_create /\ store' = "creating" /\ result' = "OK"
     \/ /\ \/ legal /\ CreateOutOfMemory /\ result' = "ENOMEM"
           \/ ~legal /\ UNCHANGED vars /\ result' = "EINVAL"
           \/ UNCHANGED vars /\ result' = "ENOMEM"
        /\ UNCHANGED store
  /\ got' = NULL
  /\ UNCHANGED <<file, contents>>

(* Variant: the label fail leaves the allocator alone.                     *)
FailLeavesAllocator ==
  /\ store = "creating"
  /\ store' = "none"
  /\ result' \in {"ENOMEM", "EIO"}
  /\ got' = NULL
  /\ UNCHANGED <<vars, file, contents, request>>

(* The label fail: ram_file_create has failed, r_file_ctrl being NULL.     *)
CreateFails ==
  /\ store = "creating"
  /\ buddy_alloc_destroy
  /\ store' = "none"
  /\ result' \in {"ENOMEM", "EIO"}
  /\ got' = NULL
  /\ UNCHANGED <<file, contents, request>>

(* store_mngr_create from ram_file_create on.                              *)
CreateFile ==
  /\ store = "creating"
  /\ file' = ram_file_create(file)
  /\ store' = "live"
  /\ result' = "OK"
  /\ got' = NULL
  /\ UNCHANGED <<vars, contents, request>>

(* store_mngr_destroy does not look at the results of what it calls: the   *)
(* file may not have been removed.                                         *)
store_mngr_destroy ==
  /\ store = "live"
  /\ request' = <<"destroy">>
  /\ buddy_alloc_destroy
  /\ file' \in {file, delete_file_if_exists(file)}
  /\ store' = "none"
  /\ contents' = Nothing
  /\ result' = "OK"
  /\ got' = NULL

(* The process dies, between two calls or inside store_mngr_create.        *)
Crash ==
  /\ store # "none"
  /\ request' = <<"crash">>
  /\ buddy_alloc_destroy
  /\ store' = "none"
  /\ contents' = Nothing
  /\ result' = "OK"
  /\ got' = NULL
  /\ UNCHANGED file

-----------------------------------------------------------------------------
(* Blocks.                                                                 *)

store_mngr_block_alloc(size) ==
  /\ store = "live"
  /\ request' = <<"alloc", size>>
  /\ \/ buddy_alloc_allocate(size) /\ result' = rc'
     \/ UNCHANGED vars /\ result' = "ENOMEM"
  /\ got' = NULL
  /\ UNCHANGED <<store, file, contents>>

(* Variant: the handle is released and the allocator's block kept.         *)
FreeForgetsBlock(b) ==
  /\ store = "live"
  /\ request' = <<"free", b>>
  /\ handles' = handles \ {b}
  /\ contents' = [contents EXCEPT ![b] = Fresh]
  /\ result' = "OK"
  /\ got' = NULL
  /\ UNCHANGED <<live, is_active, is_allocated, next, prev, head, call, rc>>
  /\ UNCHANGED <<store, file>>

store_mngr_block_free(b) ==
  /\ store = "live"
  /\ request' = <<"free", b>>
  /\ \E level \in Levels : buddy_alloc_free(b, level)
  /\ contents' = [contents EXCEPT ![b] = Fresh]
  /\ result' = rc'
  /\ got' = NULL
  /\ UNCHANGED <<store, file>>

(* Variant: the block's own offset is forgotten.                           *)
FileOffset(b, offset) == offset

(* total_offset, a sum of two uint32_t: an offset far enough past the end  *)
(* of the pool comes out in front of the block.                            *)
total_offset(b, offset) == (b[2] + offset) % Uint32

(* No call looks at the size of the block: a caller may leave it.          *)
Inside(b, offset, len) == offset + len <= BlockSize[b[1]]

(* The bytes of contents[b] from offset on, replaced by those given.       *)
Noted(b, offset, len, bytes) ==
  [contents EXCEPT ![b] = [o \in Offsets |->
     IF offset <= o /\ o < offset + len THEN bytes[o - offset]
     ELSE contents[b][o]]]

(* Of the bytes of the pool that a write outside its block has hit nobody  *)
(* knows anything any more.                                                *)
Overrun(at, len) ==
  [c \in Slots |-> [o \in Offsets |->
     IF at <= c[2] + o /\ c[2] + o < at + len THEN Any ELSE contents[c][o]]]

(* ram_file_write refuses, succeeds, or fails with some of the bytes       *)
(* written, and then the caller does not know which.                       *)
store_mngr_block_write(b, offset, len, bytes) ==
  LET at    == total_offset(b, offset)
      check == WriteCheck(at, len, Total)
      Known(new) == IF Inside(b, offset, len) THEN Noted(b, offset, len, new)
                    ELSE Overrun(at, len)
  IN
  /\ store = "live"
  /\ b \in handles
  /\ request' = <<"write", b, offset, len, bytes>>
  /\ \/ /\ check # "OK"
        /\ result' = check
        /\ UNCHANGED <<file, contents>>
     \/ /\ check = "OK"
        /\ file' = Written(file, at, bytes, len)
        /\ contents' = Known(bytes)
        /\ result' = "OK"
     \/ /\ check = "OK"
        /\ \E n \in 0 .. len : file' = Written(file, at, bytes, n)
        /\ contents' = Known([i \in 0 .. len - 1 |-> Any])
        /\ result' = "EIO"
  /\ got' = NULL
  /\ UNCHANGED <<vars, store>>

(* ram_file_read fails on its checks, at the end of the file or on an I/O  *)
(* error, or it returns what the file holds.                               *)
store_mngr_block_read(b, offset, len) ==
  LET at    == total_offset(b, offset)
      check == ReadCheck(file, at, len, Total)
  IN
  /\ store = "live"
  /\ b \in handles
  /\ request' = <<"read", b, offset, len>>
  /\ \/ result' = check /\ check # "OK" /\ got' = NULL
     \/ result' = "EIO" /\ check = "OK" /\ got' = NULL
     \/ result' = "OK"  /\ check = "OK" /\ got' = BytesAt(file, at, len)
  /\ UNCHANGED <<vars, store, file, contents>>

-----------------------------------------------------------------------------

StoreNext ==
  \/ \E legal \in BOOLEAN : CreateAllocator(legal)
  \/ CreateFails
  \/ CreateFile
  \/ store_mngr_destroy
  \/ Crash
  \/ \E size \in Requests : store_mngr_block_alloc(size)
  \/ \E b \in handles :
       \/ store_mngr_block_free(b)
       \/ \E offset \in Word, len \in Lengths :
            \/ \E bytes \in [0 .. len - 1 -> Values] :
                 store_mngr_block_write(b, offset, len, bytes)
            \/ store_mngr_block_read(b, offset, len)

StoreSpec == StoreInit /\ [][StoreNext]_all_vars

-----------------------------------------------------------------------------
(* Properties.                                                             *)

(* The allocator lives exactly from the middle of store_mngr_create to     *)
(* destroy, also when the file could not be opened; the file exists while  *)
(* the store is live, fits the pool, and is zero past its end; nothing is  *)
(* known of a block that no caller holds.                                  *)
StoreTypeOK ==
  /\ store \in {"none", "creating", "live"}
  /\ live <=> store # "none"
  /\ store # "live" => handles = {}
  /\ file \in Files(Offsets, Byte)
  /\ file.size <= Total
  /\ store = "live" => file.there
  /\ \A o \in Offsets : o >= file.size => file.data[o] = Zero
  /\ contents \in [Slots -> [Offsets -> Values \cup {Any}]]
  /\ \A b \in Slots \ handles : contents[b] = Fresh
  /\ result \in {"OK", "EINVAL", "ENFILE", "ENOMEM", "EFBIG", "EIO"}

(* What the holder of a block wrote through it is in the file, at the      *)
(* block's place, until the holder writes there again or somebody's write  *)
(* that leaves its block hits it: no write inside another block, no free   *)
(* or allocation, no split or merge, no failed call and no leftover of an  *)
(* earlier process comes between.                                          *)
ReadYourWrites ==
  \A b \in handles : \A o \in Offsets : contents[b][o] # Any =>
    /\ o < BlockSize[b[1]]
    /\ b[2] + o < file.size
    /\ file.data[b[2] + o] = contents[b][o]

(* A caller cannot tell the store from one that gives every block a memory *)
(* of its own, as long as the callers stay inside their blocks: each call  *)
(* is answered for the block, the offset and the length it names, a read   *)
(* with that block's bytes, and an allocation is refused only if every     *)
(* block that would serve it meets one that is held.                       *)
Isolated == INSTANCE BlockStore WITH
  Blocks <- Slots,
  Size   <- [b \in Slots |-> BlockSize[b[1]]],
  Meet   <- {p \in Slots \X Slots : ~Disjoint(p[1], p[2])},
  held   <- handles

ImplementsBlockStore == Isolated!Spec

(* An access that ends past the pool, the file's allowed maximum size, is  *)
(* refused and leaves file and blocks alone, whichever block it goes       *)
(* through, the first byte too far included: unless the sum of the block's *)
(* offset and the caller's does not fit a uint32_t.  Nothing refuses that  *)
(* one for its place: it is taken for the access the wrapped sum names.    *)
PastPoolRefused ==
  [][/\ store = "live" /\ request'[1] \in {"write", "read"}
     /\ LET start == request'[2][2] + request'[3]
        IN  start < Uint32 /\ start + request'[4] > Total
     => result' # "OK" /\ UNCHANGED <<file, contents>>]_all_vars

=============================================================================
