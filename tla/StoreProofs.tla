----------------------------- MODULE StoreProofs ----------------------------
(***************************************************************************)
(* The storage manager, for every pool, every set of bytes and every       *)
(* offset and length of access: what is written inside a block stays there *)
(* unless a write leaves its block, and the store implements module        *)
(* BlockStore.                                                             *)
(***************************************************************************)
EXTENDS StoreManager, BuddyProofs

-----------------------------------------------------------------------------
(* The composition: a step of the store is a step of its allocator, or     *)
(* leaves the allocator alone.                                             *)
LEMMA StepOfAllocator ==
  ASSUME [StoreNext]_all_vars
  PROVE  [Next]_vars
<1>1. CASE UNCHANGED all_vars
  BY <1>1 DEF all_vars
<1>2. CASE \E legal \in BOOLEAN : CreateAllocator(legal)
  BY <1>2 DEF CreateAllocator, Next
<1>3. CASE CreateFails \/ store_mngr_destroy \/ Crash
  BY <1>3 DEF CreateFails, store_mngr_destroy, Crash, Next
<1>4. CASE CreateFile
  BY <1>4 DEF CreateFile
<1>5. CASE \E size \in Requests : store_mngr_block_alloc(size)
  BY <1>5 DEF store_mngr_block_alloc, Next
<1>6. CASE \E b \in handles : store_mngr_block_free(b)
  BY <1>6 DEF store_mngr_block_free, Next
<1>7. ASSUME NEW b \in handles, NEW offset \in Word, NEW len \in Lengths,
             \/ \E bytes \in [0 .. len - 1 -> Values] :
                  store_mngr_block_write(b, offset, len, bytes)
             \/ store_mngr_block_read(b, offset, len)
      PROVE  UNCHANGED vars
  BY <1>7 DEF store_mngr_block_write, store_mngr_block_read
<1>. QED BY <1>1, <1>2, <1>3, <1>4, <1>5, <1>6, <1>7 DEF StoreNext

(* So every theorem about the allocator holds inside the store.            *)
LEMMA AllocatorInStore == StoreSpec => Spec
<1>1. StoreInit => Init
  BY DEF StoreInit
<1>2. [StoreNext]_all_vars => [Next]_vars
  BY StepOfAllocator
<1>. QED BY <1>1, <1>2, PTL DEF StoreSpec, Spec

(* The blocks the store hands out are disjoint aligned ranges, over failed *)
(* creations and deaths of the process, and store_mngr_block_alloc fails   *)
(* for want of space only if there is none.                                *)
THEOREM StoreHandsOutRegions == StoreSpec => ImplementsRegions
BY AllocatorInStore, RegionsImplemented

(* What a call of buddy_alloc_allocate does to the handles: a block that   *)
(* serves the request and meets none that is held, or a refusal because    *)
(* there is no such block.                                                 *)
LEMMA AllocEffect ==
  ASSUME IndInv, NEW size \in Requests, buddy_alloc_allocate(size)
  PROVE  \/ /\ rc' = "OK"
            /\ \E h \in Slots \ handles : /\ handles' = handles \cup {h}
                                         /\ get_block_level(size, h[1])
                                         /\ \A c \in handles : Disjoint(h, c)
         \/ /\ handles' = handles
            /\ \A h \in Slots : get_block_level(size, h[1]) =>
                 \E c \in handles : ~Disjoint(h, c)
            /\ rc' = IF \E h \in Slots : get_block_level(size, h[1])
                     THEN "ENFILE" ELSE "EINVAL"
<1>1. /\ handles \subseteq Slots /\ handles = {b \in Slots : is_active[b] /\ is_allocated[b]}
      /\ ActiveApart /\ HeadsFree /\ LinksInLevel
  BY DEF IndInv, TypeOK, HandlesExact
<1>2. ASSUME handles' = handles, rc' # "OK"
      PROVE  /\ \A h \in Slots : get_block_level(size, h[1]) =>
                  \E c \in handles : ~Disjoint(h, c)
             /\ rc' = IF \E h \in Slots : get_block_level(size, h[1])
                      THEN "ENFILE" ELSE "EINVAL"
  <2>1. /\ \A r \in Promise!Candidates(size) : ~Promise!Available(r)
        /\ rc' = IF Promise!Candidates(size) = {} THEN "EINVAL" ELSE "ENFILE"
    BY <1>2, AllocateIsPromised DEF Promise!Allocate
  <2>2. ASSUME NEW h \in Slots, get_block_level(size, h[1])
        PROVE  \E c \in handles : ~Disjoint(h, c)
    BY <1>1, <2>1, <2>2, CandidateBlocks, ApartAvailable
  <2>. QED BY <2>1, <2>2, CandidateBlocks
<1>3. CASE AllocateIllegalSize(size)
  BY <1>2, <1>3 DEF AllocateIllegalSize, memory
<1>4. ASSUME NEW level \in Levels, AllocateNoSpace(level)
      PROVE  rc' # "OK" /\ handles' = handles
  BY <1>4 DEF AllocateNoSpace, memory
<1>5. ASSUME NEW level \in Levels, get_block_level(size, level),
             allocate_at_level(level)
      PROVE  rc' = "OK" /\ \E h \in Slots \ handles :
               /\ handles' = handles \cup {h} /\ get_block_level(size, h[1])
               /\ \A c \in handles : Disjoint(h, c)
  <2>1. /\ rc' = "OK" /\ head[level] # NULL
        /\ handles' = handles \cup {head[level]}
    BY <1>5 DEF allocate_at_level, found_block
  <2>2. IsFree(head[level]) /\ head[level][1] = level
    BY <1>1, <2>1 DEF HeadsFree, LinksInLevel
  <2>3. /\ head[level] \in Slots \ handles
        /\ \A c \in handles : Disjoint(head[level], c)
    BY <1>1, <2>2 DEF IsFree, ActiveApart
  <2>. QED BY <1>5, <2>1, <2>2, <2>3
<1>6. ASSUME NEW level \in Levels, get_block_level(size, level),
             NEW src \in Levels, split_block_down(src, level)
      PROVE  rc' = "OK" /\ \E h \in Slots \ handles :
               /\ handles' = handles \cup {h} /\ get_block_level(size, h[1])
               /\ \A c \in handles : Disjoint(h, c)
  <2>. DEFINE b     == head[src]
              below == {l \in Levels : src < l /\ l <= level}
              half  == [l \in Levels |-> IF l \in below
                                         THEN <<l, b[2] + BlockSize[l]>> ELSE NULL]
              first == <<level, b[2]>>
              new   == {half[l] : l \in below} \cup {first}
  <2>0. /\ \A s \in new : s \in Slots /\ ~is_active[s]
        /\ \A s \in new : \A c \in Slots : is_active[c] /\ c # b => Disjoint(c, s)
        /\ handles' = handles \cup {first} /\ rc' = "OK" /\ IsFree(b)
    BY <1>6, SplitEffect
  <2>. HIDE DEF b, half, below
  <2>1. /\ first \in Slots /\ ~is_active[first] /\ first[1] = level
        /\ \A c \in Slots : is_active[c] /\ c # b => Disjoint(c, first)
        /\ handles' = handles \cup {first} /\ rc' = "OK" /\ IsFree(b)
    BY <2>0
  <2>2. \A c \in handles : Disjoint(first, c)
    BY <1>1, <2>1, DisjointSymmetric DEF IsFree
  <2>3. first \notin handles
    BY <1>1, <2>1
  <2>. HIDE DEF first
  <2>. QED BY <1>6, <2>1, <2>2, <2>3
<1>. QED BY <1>2, <1>3, <1>4, <1>5, <1>6 DEF buddy_alloc_allocate

-----------------------------------------------------------------------------
(* Accesses.                                                               *)

(* A sum below the word does not wrap.                                     *)
LEMMA SmallMod ==
  ASSUME NEW a \in Nat, NEW m \in Nat, a < m
  PROVE  a % m = a
OBVIOUS

(* What the checks of ram_file_ctrl.c make of an access: the sum with the  *)
(* length never wraps; that of the offsets does not if the access stays    *)
(* inside its block, and then it ends in the pool.                         *)
LEMMA AccessChecked ==
  ASSUME NEW b \in Slots, NEW offset \in Word, NEW len \in Lengths
  PROVE  LET at == total_offset(b, offset) IN
         /\ at \in Nat /\ len \in Nat /\ offset \in Nat
         /\ WriteCheck(at, len, Total) =
              IF len = 0 THEN "EINVAL" ELSE IF at + len > Total THEN "EFBIG" ELSE "OK"
         /\ \A f \in Files(Offsets, Byte) : ReadCheck(f, at, len, Total) =
              IF len = 0 THEN "EINVAL" ELSE IF at + len > Total THEN "EFBIG"
              ELSE IF at + len > f.size THEN "EIO" ELSE "OK"
         /\ len > 0 /\ Inside(b, offset, len) =>
              at = b[2] + offset /\ at + len <= Total
<1>. DEFINE at == total_offset(b, offset)
<1>1. /\ b[1] \in Levels /\ b[2] \in Nat /\ b[2] + BlockSize[b[1]] <= Total
      /\ BlockSize[b[1]] \in Nat /\ Total \in Nat
  BY SlotShape, Sizes, SizeAssumption DEF Total, Levels
<1>2. /\ offset \in Nat /\ len \in Nat /\ offset < Uint32
      /\ Uint32 \in Nat /\ SizeT \in Nat /\ Total < Uint32
      /\ 2 * (Uint32 + len) < SizeT
  BY <1>1, StoreAssumption, SizeTAssumption DEF Word
<1>3. at \in Nat /\ at < Uint32
  <2>1. b[2] + offset \in Nat
    BY <1>1, <1>2
  <2>. DEFINE sum == b[2] + offset
  <2>. HIDE DEF sum
  <2>2. sum \in Nat => sum % Uint32 \in Nat /\ sum % Uint32 < Uint32
    BY <1>2
  <2>. QED BY <2>1, <2>2 DEF total_offset, sum
<1>a. ASSUME len > 0, Inside(b, offset, len)
      PROVE  at = b[2] + offset /\ at + len <= Total
  <2>1. offset + len <= BlockSize[b[1]]
    BY <1>a DEF Inside
  <2>2. b[2] + offset \in Nat /\ b[2] + offset < Uint32 /\ b[2] + offset + len <= Total
    BY <1>1, <1>2, <1>a, <2>1
  <2>3. (b[2] + offset) % Uint32 = b[2] + offset
    BY <1>2, <2>2, SmallMod
  <2>. QED BY <2>2, <2>3 DEF total_offset
<1>. HIDE DEF at
<1>4. AccessEnd(at, len) = at + len
  <2>1. at + len \in Nat /\ at + len < SizeT
    BY <1>2, <1>3
  <2>2. (at + len) % SizeT = at + len
    BY <1>2, <2>1, SmallMod
  <2>. QED BY <2>2 DEF AccessEnd
<1>5. at < SizeT \div 2
  <2>2. SizeT \div 2 \in Nat /\ SizeT <= 2 * (SizeT \div 2) + 1
    BY <1>2
  <2>. QED BY <1>2, <1>3, <2>2
<1>6. ASSUME NEW e
      PROVE  Checked(at, len, Total, e) =
               IF len = 0 THEN "EINVAL" ELSE IF at + len > Total THEN "EFBIG" ELSE "OK"
  <2>1. CASE len = 0
    BY <2>1 DEF Checked
  <2>2. CASE len # 0 /\ at + len > Total
    BY <2>2, <1>4 DEF Checked
  <2>3. CASE len # 0 /\ ~(at + len > Total)
    BY <2>3, <1>4, <1>5 DEF Checked, CanSeek
  <2>. QED BY <2>1, <2>2, <2>3
<1>7. WriteCheck(at, len, Total) =
        IF len = 0 THEN "EINVAL" ELSE IF at + len > Total THEN "EFBIG" ELSE "OK"
  BY <1>6 DEF WriteCheck
<1>8. \A f \in Files(Offsets, Byte) : ReadCheck(f, at, len, Total) =
         IF len = 0 THEN "EINVAL" ELSE IF at + len > Total THEN "EFBIG"
         ELSE IF at + len > f.size THEN "EIO" ELSE "OK"
  BY <1>6 DEF ReadCheck
<1>. QED BY <1>2, <1>3, <1>a, <1>7, <1>8 DEF at

ZeroPast(f) == \A o \in Offsets : o >= f.size => f.data[o] = Zero

(* A write of n bytes inside the pool.                                     *)
LEMMA WriteEffect ==
  ASSUME NEW f \in Files(Offsets, Byte), f.size <= Total,
         ZeroPast(f),
         NEW at \in Nat, NEW n \in Nat, NEW len \in Nat, n <= len,
         at + n <= Total, NEW bytes \in [0 .. len - 1 -> Values],
         NEW g, g = Written(f, at, bytes, n)
  PROVE  /\ g \in Files(Offsets, Byte) /\ g.there = f.there
         /\ f.size <= g.size /\ g.size <= Total
         /\ n > 0 => at + n <= g.size
         /\ ZeroPast(g)
         /\ \A o \in Offsets : at <= o /\ o < at + n => g.data[o] = bytes[o - at]
         /\ \A o \in Offsets : ~(at <= o /\ o < at + n) => g.data[o] = f.data[o]
<1>0. Total \in Nat
  BY SizeAssumption DEF Total, Levels
<1>1. f.size \in Nat /\ f.there \in BOOLEAN /\ f.data \in [Offsets -> Byte]
  BY DEF Files
<1>2. /\ g.there = f.there
      /\ g.size = IF n > 0 /\ at + n > f.size THEN at + n ELSE f.size
      /\ g.data = [o \in Offsets |->
                     IF at <= o /\ o < at + n THEN bytes[o - at] ELSE f.data[o]]
  BY <1>1 DEF Written
<1>3. ASSUME NEW o \in Offsets, at <= o, o < at + n
      PROVE  bytes[o - at] \in Byte
  <2>1. o - at \in 0 .. len - 1
    BY <1>3, <1>0 DEF Offsets
  <2>. QED BY <2>1 DEF Byte
<1>4. g.data \in [Offsets -> Byte]
  BY <1>1, <1>2, <1>3
<1>5. g.size \in Nat /\ f.size <= g.size /\ g.size <= Total /\ (n > 0 => at + n <= g.size)
  BY <1>1, <1>2
<1>6. g \in Files(Offsets, Byte)
  <2>1. g = [there |-> g.there, size |-> g.size, data |-> g.data]
    BY DEF Written
  <2>. QED BY <2>1, <1>1, <1>2, <1>4, <1>5 DEF Files
<1>7. ASSUME NEW o \in Offsets, o >= g.size
      PROVE  g.data[o] = Zero
  <2>1. o \in Nat BY <1>0 DEF Offsets
  <2>2. ~(at <= o /\ o < at + n) /\ o >= f.size
    BY <1>1, <1>5, <1>7, <2>1
  <2>. QED BY <1>2, <2>2 DEF ZeroPast
<1>. QED BY <1>2, <1>5, <1>6, <1>7 DEF ZeroPast

-----------------------------------------------------------------------------
(* The invariant.                                                          *)

StoreInv == StoreTypeOK /\ ReadYourWrites

(* The absent file is a file.                                              *)
LEMMA NoFileType ==
  /\ NoFile(Offsets) \in Files(Offsets, Byte)
  /\ NoFile(Offsets).size = 0 /\ NoFile(Offsets).there = FALSE
  /\ NoFile(Offsets).data = [o \in Offsets |-> Zero]
BY DEF NoFile, Files, Byte

(* What is known of blocks nobody holds is of the right type.              *)
LEMMA NothingType ==
  /\ Fresh \in [Offsets -> Values \cup {Any}]
  /\ Nothing \in [Slots -> [Offsets -> Values \cup {Any}]]
  /\ \A o \in Offsets : Fresh[o] = Any
  /\ \A b \in Slots : Nothing[b] = Fresh
BY DEF Fresh, Nothing

(* A new or reopened file fits the pool, whatever an earlier process left. *)
LEMMA OpenedType ==
  ASSUME StoreTypeOK
  PROVE  LET f == ram_file_create(file) IN
         /\ f \in Files(Offsets, Byte) /\ f.size <= Total /\ f.there
         /\ \A o \in Offsets : o >= f.size => f.data[o] = Zero
<1>. DEFINE f == ram_file_create(file)
<1>0. Total \in Nat
  BY SizeAssumption DEF Total, Levels
<1>1. /\ file \in Files(Offsets, Byte) /\ file.size <= Total
      /\ \A o \in Offsets : o >= file.size => file.data[o] = Zero
      /\ DOMAIN file.data = Offsets /\ file.there \in BOOLEAN
  BY DEF StoreTypeOK, Files
<1>2. CASE file.there
  BY <1>1, <1>2 DEF ram_file_create, check_if_file_exist
<1>3. CASE ~file.there
  <2>1. f = [there |-> TRUE, size |-> 0, data |-> [o \in Offsets |-> Zero]]
    BY <1>1, <1>3 DEF ram_file_create, check_if_file_exist
  <2>2. f.there = TRUE /\ f.size = 0 /\ f.data = [o \in Offsets |-> Zero]
    BY <2>1
  <2>3. f \in Files(Offsets, Byte)
    BY <2>1 DEF Files, Byte
  <2>. QED BY <1>0, <2>2, <2>3
<1>. QED BY <1>1, <1>2, <1>3

(* Creation, destruction and crash: nobody holds a block afterwards.       *)
LEMMA LifecycleInv ==
  ASSUME IndInv, StoreInv,
         \/ \E legal \in BOOLEAN : CreateAllocator(legal)
         \/ CreateFails \/ CreateFile \/ store_mngr_destroy \/ Crash
  PROVE  StoreInv'
<1>0. Total \in Nat
  BY SizeAssumption DEF Total, Levels
<1>1. StoreTypeOK /\ live \in BOOLEAN /\ live' \in BOOLEAN
  <2>1. IndInv' \/ UNCHANGED live \/ live' \in BOOLEAN
    BY CreateInv, DestroyInv DEF CreateAllocator, CreateFails, CreateFile,
       store_mngr_destroy, Crash, CreateOutOfMemory, memory, vars
  <2>. QED BY <2>1 DEF StoreInv, IndInv, TypeOK
<1>2. handles' = {}
  <2>1. CASE \E legal \in BOOLEAN : CreateAllocator(legal)
    BY <1>1, <2>1 DEF CreateAllocator, StoreTypeOK, buddy_alloc_create,
       CreateOutOfMemory, memory, vars
  <2>2. CASE CreateFile
    BY <1>1, <2>2 DEF CreateFile, StoreTypeOK, vars
  <2>3. CASE CreateFails \/ store_mngr_destroy \/ Crash
    BY <2>3 DEF CreateFails, store_mngr_destroy, Crash, buddy_alloc_destroy
  <2>. QED BY <2>1, <2>2, <2>3
<1>3. contents' = Nothing
  <2>1. store # "live" => contents = Nothing
    <3>1. ASSUME store # "live"
          PROVE  /\ contents \in [Slots -> [Offsets -> Values \cup {Any}]]
                 /\ \A b \in Slots : contents[b] = Fresh
      BY <1>1, <3>1 DEF StoreTypeOK
    <3>. QED BY <3>1 DEF Nothing
  <2>. QED BY <2>1 DEF CreateAllocator, CreateFails, CreateFile,
             store_mngr_destroy, Crash
<1>4. /\ file' \in Files(Offsets, Byte) /\ file'.size <= Total
      /\ \A o \in Offsets : o >= file'.size => file'.data[o] = Zero
      /\ store' = "live" => file'.there
  <2>1. CASE CreateFile
    BY <1>1, <2>1, OpenedType DEF CreateFile
  <2>2. CASE file' = file /\ store' # "live"
    BY <1>1, <2>2 DEF StoreTypeOK
  <2>3. CASE file' = delete_file_if_exists(file) /\ store' # "live"
    <3>1. file' = NoFile(Offsets)
      BY <1>1, <2>3 DEF delete_file_if_exists, StoreTypeOK, Files
    <3>. QED BY <1>0, <2>3, <3>1, NoFileType
  <2>. QED BY <2>1, <2>2, <2>3 DEF CreateAllocator, CreateFails,
             store_mngr_destroy, Crash
<1>5. /\ store' \in {"none", "creating", "live"}
      /\ result' \in {"OK", "EINVAL", "ENFILE", "ENOMEM", "EFBIG", "EIO"}
  BY <1>1 DEF StoreTypeOK, CreateAllocator, CreateFails, CreateFile,
     store_mngr_destroy, Crash
<1>6. live' <=> store' # "none"
  <2>1. CASE \E legal \in BOOLEAN : CreateAllocator(legal)
    BY <1>1, <2>1 DEF CreateAllocator, StoreTypeOK, buddy_alloc_create,
       CreateOutOfMemory, memory, vars
  <2>2. CASE CreateFile
    BY <1>1, <2>2 DEF CreateFile, StoreTypeOK, vars
  <2>3. CASE CreateFails \/ store_mngr_destroy \/ Crash
    BY <2>3 DEF CreateFails, store_mngr_destroy, Crash, buddy_alloc_destroy
  <2>. QED BY <2>1, <2>2, <2>3
<1>7. StoreTypeOK'
  BY <1>2, <1>3, <1>4, <1>5, <1>6, NothingType DEF StoreTypeOK
<1>. QED BY <1>2, <1>7 DEF StoreInv, ReadYourWrites

(* Allocation and freeing touch neither the file nor what is known of the  *)
(* other blocks; nothing is known of a new one.                            *)
LEMMA AllocInv ==
  ASSUME IndInv, StoreInv, NEW size \in Requests, store_mngr_block_alloc(size)
  PROVE  StoreInv'
<1>1. /\ StoreTypeOK /\ ReadYourWrites /\ store = "live" /\ live
      /\ UNCHANGED <<store, file, contents>>
  BY DEF StoreInv, StoreTypeOK, store_mngr_block_alloc
<1>2. /\ handles' = handles \/ \E h \in Slots \ handles : handles' = handles \cup {h}
      /\ result' \in {"OK", "EINVAL", "ENFILE", "ENOMEM"}
  BY AllocEffect DEF store_mngr_block_alloc, vars
<1>3. live' = live
  BY DEF store_mngr_block_alloc, vars, buddy_alloc_allocate, AllocateIllegalSize,
     AllocateNoSpace, allocate_at_level, split_block_down, memory
<1>4. StoreTypeOK'
  BY <1>1, <1>2, <1>3 DEF StoreTypeOK
<1>5. ASSUME NEW b \in handles', NEW o \in Offsets, contents'[b][o] # Any
      PROVE  b \in handles
  <2>1. CASE b \in Slots \ handles
    <3>1. contents[b] = Fresh
      BY <1>1, <2>1 DEF StoreTypeOK
    <3>. QED BY <1>1, <1>5, <3>1, NothingType
  <2>. QED BY <1>2, <2>1
<1>6. ReadYourWrites'
  BY <1>1, <1>5 DEF ReadYourWrites
<1>. QED BY <1>4, <1>6 DEF StoreInv

(* Freeing a block forgets what was known of it and touches no byte.       *)
LEMMA FreeStoreInv ==
  ASSUME IndInv, StoreInv, NEW b \in handles, store_mngr_block_free(b)
  PROVE  StoreInv'
<1>1. /\ StoreTypeOK /\ ReadYourWrites /\ store = "live" /\ live
      /\ UNCHANGED <<store, file>>
      /\ contents' = [contents EXCEPT ![b] = Fresh]
      /\ contents \in [Slots -> [Offsets -> Values \cup {Any}]]
  BY DEF StoreInv, StoreTypeOK, store_mngr_block_free
<1>2. handles' = handles \ {b} /\ result' = "OK" /\ live' = live /\ b \in Slots
  BY FreeEffect DEF store_mngr_block_free
<1>3. \A c \in Slots : contents'[c] = IF c = b THEN Fresh ELSE contents[c]
  BY <1>1
<1>4. contents' \in [Slots -> [Offsets -> Values \cup {Any}]]
  BY <1>1, NothingType
<1>5. handles \subseteq Slots
  BY DEF IndInv, TypeOK
<1>6. StoreTypeOK'
  BY <1>1, <1>2, <1>3, <1>4 DEF StoreTypeOK
<1>7. ReadYourWrites'
  BY <1>1, <1>2, <1>3, <1>5 DEF ReadYourWrites
<1>. QED BY <1>6, <1>7 DEF StoreInv

(* Byte o of block c, seen from a write of n bytes at an offset of block b. *)
LEMMA OtherByte ==
  ASSUME NEW b \in Nat, NEW sb \in Nat, NEW c \in Nat, NEW sc \in Nat,
         NEW o \in Nat, NEW offset \in Nat, NEW n \in Nat, NEW len \in Nat,
         b + sb <= c \/ c + sc <= b, o < sc, n <= len, offset + len <= sb
  PROVE  ~(b + offset <= c + o /\ c + o < b + offset + n)
OBVIOUS

(* A byte of the block written is the byte given, or as before.            *)
LEMMA OwnByte ==
  ASSUME NEW b \in Nat, NEW sb \in Nat, NEW total \in Nat, NEW o \in Nat,
         NEW offset \in Nat, NEW n \in Nat, NEW len \in Nat,
         b + sb <= total, o < sb, n <= len, offset + len <= sb
  PROVE  /\ b + o \in 0 .. total - 1
         /\ ~(offset <= o /\ o < offset + len) =>
              ~(b + offset <= b + o /\ b + o < b + offset + n)
         /\ offset <= o /\ o < offset + len /\ n = len =>
              /\ b + offset <= b + o /\ b + o < b + offset + n
              /\ b + o - (b + offset) = o - offset
OBVIOUS

(* The file after a write in the pool, in full or in part.                 *)
LEMMA FileAfterWrite ==
  ASSUME StoreTypeOK, NEW at \in Nat, NEW len \in Nat, NEW n \in 0 .. len,
         at + len <= Total, NEW bytes \in [0 .. len - 1 -> Values],
         file' = Written(file, at, bytes, n)
  PROVE  /\ file' \in Files(Offsets, Byte) /\ file'.there = file.there
         /\ file.size <= file'.size /\ file'.size <= Total
         /\ n > 0 => at + n <= file'.size
         /\ ZeroPast(file')
         /\ \A o \in Offsets : at <= o /\ o < at + n => file'.data[o] = bytes[o - at]
         /\ \A o \in Offsets : ~(at <= o /\ o < at + n) => file'.data[o] = file.data[o]
<1>1. /\ file \in Files(Offsets, Byte) /\ file.size <= Total
      /\ ZeroPast(file) /\ Total \in Nat
  BY SizeAssumption DEF StoreTypeOK, ZeroPast, Total, Levels
<1>2. n \in Nat /\ n <= len /\ at + n <= Total
  BY <1>1
<1>3. file' = Written(file, at, bytes, n)
  OBVIOUS
<1>4. len \in Nat /\ at \in Nat /\ bytes \in [0 .. len - 1 -> Values]
  OBVIOUS
<1>5. file' \in Files(Offsets, Byte)
  BY ONLY <1>1, <1>2, <1>3, <1>4, WriteEffect
<1>6. file.size <= file'.size /\ file'.size <= Total
  BY ONLY <1>1, <1>2, <1>3, <1>4, WriteEffect
<1>7. (n > 0 => at + n <= file'.size) /\ ZeroPast(file')
  BY ONLY <1>1, <1>2, <1>3, <1>4, WriteEffect
<1>8. file'.there = file.there /\ DOMAIN file.data = Offsets
  BY ONLY <1>1, <1>3 DEF Written, Files
<1>9. \A o \in Offsets : at <= o /\ o < at + n => file'.data[o] = bytes[o - at]
  BY ONLY <1>3, <1>8 DEF Written
<1>10. \A o \in Offsets : ~(at <= o /\ o < at + n) => file'.data[o] = file.data[o]
  BY ONLY <1>3, <1>8 DEF Written
<1>. QED BY <1>5, <1>6, <1>7, <1>8, <1>9, <1>10

(* A write that got through, in full or in part: it changes bytes of its   *)
(* own block only, so what other holders know is still in the file; and    *)
(* what its own holder knows is either outside the write or written.       *)
LEMMA WrittenInv ==
  ASSUME IndInv, StoreInv, NEW b \in handles, NEW offset \in Nat,
         NEW len \in Nat, len > 0, offset + len <= BlockSize[b[1]],
         NEW bytes \in [0 .. len - 1 -> Values], NEW n \in 0 .. len,
         NEW known \in [0 .. len - 1 -> Values \cup {Any}],
         (known = bytes /\ n = len) \/ \A i \in 0 .. len - 1 : known[i] = Any,
         store = "live", UNCHANGED <<vars, store>>,
         file' = Written(file, b[2] + offset, bytes, n),
         contents' = Noted(b, offset, len, known),
         result' \in {"OK", "EIO"}
  PROVE  StoreInv'
<1>. DEFINE at == b[2] + offset
<1>0. /\ StoreTypeOK /\ ReadYourWrites /\ handles \subseteq Slots /\ NoOverlap
      /\ handles' = handles /\ live' = live /\ Total \in Nat
  BY SizeAssumption DEF StoreInv, IndInv, TypeOK, ActiveApart, HandlesExact,
     NoOverlap, vars, Total, Levels
<1>1. \A c \in handles : /\ c[2] \in Nat /\ BlockSize[c[1]] \in Nat
                         /\ c[2] + BlockSize[c[1]] <= Total
  BY <1>0, SlotShape, Sizes
<1>b. b[2] \in Nat /\ BlockSize[b[1]] \in Nat /\ b[2] + BlockSize[b[1]] <= Total
  BY <1>1
<1>2. /\ offset \in Nat /\ at \in Nat /\ n \in Nat /\ n <= len
      /\ at + len <= Total /\ at + n <= Total
  BY <1>0, <1>b DEF Offsets
<1>3. /\ file' \in Files(Offsets, Byte) /\ file'.there = file.there
      /\ file.size <= file'.size /\ file'.size <= Total
      /\ n > 0 => at + n <= file'.size
      /\ ZeroPast(file')
      /\ \A o \in Offsets : at <= o /\ o < at + n => file'.data[o] = bytes[o - at]
      /\ \A o \in Offsets : ~(at <= o /\ o < at + n) => file'.data[o] = file.data[o]
  BY <1>0, <1>2, FileAfterWrite
<1>4. contents \in [Slots -> [Offsets -> Values \cup {Any}]]
  BY <1>0 DEF StoreTypeOK
<1>5. /\ \A c \in Slots : c # b => contents'[c] = contents[c]
      /\ \A o \in Offsets : contents'[b][o] =
           IF offset <= o /\ o < offset + len THEN known[o - offset]
           ELSE contents[b][o]
      /\ contents' \in [Slots -> [Offsets -> Values \cup {Any}]]
  <2>. DEFINE new == [o \in Offsets |->
                        IF offset <= o /\ o < offset + len THEN known[o - offset]
                        ELSE contents[b][o]]
  <2>1. contents' = [contents EXCEPT ![b] = new]
    BY DEF Noted
  <2>2. ASSUME NEW o \in Offsets, offset <= o, o < offset + len
        PROVE  known[o - offset] \in Values \cup {Any}
    <3>1. o - offset \in 0 .. len - 1
      BY <1>0, <1>2, <2>2 DEF Offsets
    <3>. QED BY <3>1
  <2>3. new \in [Offsets -> Values \cup {Any}]
    BY <1>0, <1>4, <2>2
  <2>. QED BY <1>0, <1>4, <2>1, <2>3
<1>6. StoreTypeOK'
  <2>1. \A c \in Slots \ handles' : contents'[c] = Fresh
    BY <1>0, <1>5 DEF StoreTypeOK
  <2>. QED BY <1>0, <1>3, <1>5, <2>1 DEF StoreTypeOK, ZeroPast
<1>7. ASSUME NEW c \in handles, NEW o \in Offsets, contents'[c][o] # Any
      PROVE  /\ o < BlockSize[c[1]]
             /\ c[2] + o < file'.size
             /\ file'.data[c[2] + o] = contents'[c][o]
  <2>0. o \in Nat /\ file.size \in Nat /\ file'.size \in Nat
    BY <1>0, <1>3 DEF Offsets, StoreTypeOK, Files
  <2>c. c[2] \in Nat /\ BlockSize[c[1]] \in Nat /\ c[2] + BlockSize[c[1]] <= Total
    BY <1>1
  <2>1. CASE c # b
    <3>1. /\ contents'[c][o] = contents[c][o] /\ o < BlockSize[c[1]]
          /\ c[2] + o < file.size /\ file.data[c[2] + o] = contents[c][o]
      BY <1>0, <1>5, <1>7, <2>1 DEF ReadYourWrites
    <3>2. c[2] + o \in Offsets
      <4>1. o < BlockSize[c[1]]
        BY <3>1
      <4>2. Total \in Nat
        BY SizeAssumption DEF Total, Levels
      <4>. QED BY ONLY <2>c, <2>0, <4>1, <4>2 DEF Offsets
    <3>3. ~(at <= c[2] + o /\ c[2] + o < at + n)
      <4>1. Disjoint(b, c)
        BY <1>0, <2>1 DEF NoOverlap
      <4>. QED BY <1>b, <1>2, <2>c, <2>0, <3>1, <4>1, OtherByte DEF Disjoint
    <3>. QED BY <2>c, <1>3, <2>0, <3>1, <3>2, <3>3
  <2>2. CASE c = b /\ ~(offset <= o /\ o < offset + len)
    <3>1. /\ contents'[b][o] = contents[b][o] /\ o < BlockSize[b[1]]
          /\ b[2] + o < file.size /\ file.data[b[2] + o] = contents[b][o]
      BY <1>0, <1>5, <1>7, <2>2 DEF ReadYourWrites
    <3>2. b[2] + o \in Offsets /\ ~(at <= b[2] + o /\ b[2] + o < at + n)
      <4>1. /\ b[2] \in Nat /\ BlockSize[b[1]] \in Nat /\ Total \in Nat /\ o \in Nat
            /\ offset \in Nat /\ n \in Nat /\ len \in Nat /\ o < BlockSize[b[1]]
            /\ b[2] + BlockSize[b[1]] <= Total /\ n <= len
            /\ ~(offset <= o /\ o < offset + len)
        BY <1>0, <1>b, <1>2, <2>0, <2>2, <3>1
      <4>. QED BY ONLY <4>1 DEF Offsets
    <3>3. file'.data[b[2] + o] = file.data[b[2] + o]
      BY <1>3, <3>2
    <3>4. b[2] + o < file'.size
      BY <1>b, <1>3, <2>0, <3>1
    <3>. QED BY <2>2, <3>1, <3>3, <3>4
  <2>3. CASE c = b /\ offset <= o /\ o < offset + len
    <3>1. contents'[b][o] = known[o - offset] /\ o - offset \in 0 .. len - 1
      BY <1>2, <1>5, <2>0, <2>3
    <3>2. known[o - offset] = bytes[o - offset] /\ n = len
      BY <1>7, <2>3, <3>1
    <3>3. o < BlockSize[b[1]]
      <4>1. offset + len <= BlockSize[b[1]] /\ o < offset + len
        BY <2>3
      <4>2. offset \in Nat /\ len \in Nat /\ BlockSize[b[1]] \in Nat /\ o \in Nat
        BY <1>b, <1>2, <2>0
      <4>. QED BY ONLY <4>1, <4>2
    <3>4. /\ b[2] + o \in Offsets /\ at <= b[2] + o /\ b[2] + o < at + n
          /\ b[2] + o - at = o - offset
      <4>1. b[2] + o \in 0 .. Total - 1
        <5>1. /\ b[2] \in Nat /\ BlockSize[b[1]] \in Nat /\ Total \in Nat /\ o \in Nat
              /\ o < BlockSize[b[1]] /\ b[2] + BlockSize[b[1]] <= Total
          BY <1>0, <1>b, <2>0, <3>3
        <5>. QED BY ONLY <5>1
      <4>2. b[2] + offset <= b[2] + o /\ b[2] + o < b[2] + offset + n
        <5>1. n = len /\ n \in Nat /\ offset <= o /\ o < offset + len
          BY <1>2, <2>3, <3>2
        <5>2. b[2] \in Nat /\ o \in Nat /\ offset \in Nat
          BY <1>b, <1>2, <2>0
        <5>. QED BY ONLY <5>1, <5>2
      <4>3. b[2] + o - (b[2] + offset) = o - offset
        BY <1>b, <1>2, <2>0
      <4>. QED BY <4>1, <4>2, <4>3 DEF Offsets
    <3>5. file'.data[b[2] + o] = bytes[o - offset]
      <4>1. \A p \in Offsets : at <= p /\ p < at + n => file'.data[p] = bytes[p - at]
        BY <1>3
      <4>. DEFINE p == b[2] + o
      <4>2. p \in Offsets /\ at <= p /\ p < at + n
        BY ONLY <3>4
      <4>3. p - at = o - offset
        BY ONLY <1>b, <1>2, <2>0
      <4>. HIDE DEF at, p
      <4>4. file'.data[p] = bytes[o - offset]
        BY ONLY <4>1, <4>2, <4>3
      <4>. QED BY ONLY <4>4 DEF p
    <3>6. b[2] + o < file'.size
      <4>1. at + n <= file'.size
        BY <1>2, <1>3, <3>2
      <4>2. at \in Nat /\ n \in Nat /\ b[2] + o \in Nat /\ file'.size \in Nat
        <5>1. at \in Nat /\ n \in Nat
          BY <1>2
        <5>2. b[2] \in Nat
          BY <1>b
        <5>. QED BY ONLY <2>0, <5>1, <5>2
      <4>. QED BY ONLY <3>4, <4>1, <4>2
    <3>. QED BY <2>3, <3>1, <3>2, <3>3, <3>5, <3>6
  <2>. QED BY <2>1, <2>2, <2>3
<1>8. ReadYourWrites'
  BY <1>0, <1>7 DEF ReadYourWrites
<1>. QED BY <1>6, <1>8 DEF StoreInv

(* A write that left its block: of the bytes it hit nothing is known, and  *)
(* the others are as they were.                                            *)
LEMMA OverrunInv ==
  ASSUME IndInv, StoreInv, NEW at \in Nat, NEW len \in Nat, at + len <= Total,
         NEW bytes \in [0 .. len - 1 -> Values], NEW n \in 0 .. len,
         store = "live", UNCHANGED <<vars, store>>,
         file' = Written(file, at, bytes, n),
         contents' = Overrun(at, len),
         result' \in {"OK", "EIO"}
  PROVE  StoreInv'
<1>1. /\ StoreTypeOK /\ ReadYourWrites /\ handles \subseteq Slots
      /\ handles' = handles /\ live' = live /\ Total \in Nat
      /\ contents \in [Slots -> [Offsets -> Values \cup {Any}]]
      /\ \A c \in Slots \ handles : contents[c] = Fresh
  BY SizeAssumption DEF StoreInv, StoreTypeOK, IndInv, TypeOK, vars, Total, Levels
<1>2. /\ file' \in Files(Offsets, Byte) /\ file'.there = file.there
      /\ file.size <= file'.size /\ file'.size <= Total
      /\ ZeroPast(file')
      /\ \A o \in Offsets : ~(at <= o /\ o < at + n) => file'.data[o] = file.data[o]
  BY <1>1, FileAfterWrite
<1>3. \A c \in Slots, o \in Offsets : contents'[c][o] =
        IF at <= c[2] + o /\ c[2] + o < at + len THEN Any ELSE contents[c][o]
  BY DEF Overrun
<1>4. contents' \in [Slots -> [Offsets -> Values \cup {Any}]]
  <2>1. \A c \in Slots : [o \in Offsets |->
          IF at <= c[2] + o /\ c[2] + o < at + len THEN Any ELSE contents[c][o]]
            \in [Offsets -> Values \cup {Any}]
    BY <1>1
  <2>. QED BY <2>1 DEF Overrun
<1>5. ASSUME NEW c \in Slots \ handles
      PROVE  contents'[c] = Fresh
  <2>1. \A o \in Offsets : contents'[c][o] = Any
    BY <1>1, <1>3, NothingType
  <2>. QED BY <1>4, <2>1 DEF Fresh
<1>6. StoreTypeOK'
  BY <1>1, <1>2, <1>4, <1>5 DEF StoreTypeOK, ZeroPast
<1>7. ASSUME NEW c \in handles, NEW o \in Offsets, contents'[c][o] # Any
      PROVE  /\ o < BlockSize[c[1]]
             /\ c[2] + o < file'.size
             /\ file'.data[c[2] + o] = contents'[c][o]
  <2>1. c \in Slots
    BY <1>1
  <2>2. ~(at <= c[2] + o /\ c[2] + o < at + len) /\ contents'[c][o] = contents[c][o]
    BY <1>3, <1>7, <2>1
  <2>3. /\ o < BlockSize[c[1]] /\ c[2] + o < file.size
        /\ file.data[c[2] + o] = contents[c][o]
    BY <1>1, <1>7, <2>2 DEF ReadYourWrites
  <2>4. c[2] \in Nat /\ o \in Nat /\ file.size \in Nat /\ file'.size \in Nat
    BY <1>1, <1>2, <2>1, SlotShape DEF Offsets, StoreTypeOK, Files
  <2>5. c[2] + o < file'.size /\ c[2] + o \in Offsets
    BY <1>1, <1>2, <2>3, <2>4 DEF Offsets
  <2>6. ~(at <= c[2] + o /\ c[2] + o < at + n)
    BY <2>2, <2>4
  <2>. QED BY <1>2, <2>2, <2>3, <2>5, <2>6
<1>8. ReadYourWrites'
  BY <1>1, <1>7 DEF ReadYourWrites
<1>. QED BY <1>6, <1>8 DEF StoreInv

(* A write keeps the invariant, whichever way it ends.                     *)
LEMMA WriteInv ==
  ASSUME IndInv, StoreInv, NEW b \in handles, NEW offset \in Word,
         NEW len \in Lengths, NEW bytes \in [0 .. len - 1 -> Values],
         store_mngr_block_write(b, offset, len, bytes)
  PROVE  StoreInv'
<1>. DEFINE at    == total_offset(b, offset)
            check == WriteCheck(at, len, Total)
            lost  == [i \in 0 .. len - 1 |-> Any]
            Known(new) == IF Inside(b, offset, len) THEN Noted(b, offset, len, new)
                          ELSE Overrun(at, len)
<1>0. b \in Slots /\ Total \in Nat
  BY SizeAssumption DEF IndInv, TypeOK, Total, Levels
<1>1. /\ at \in Nat /\ len \in Nat /\ offset \in Nat
      /\ check \in {"OK", "EINVAL", "EFBIG"}
      /\ check = "OK" => len > 0 /\ at + len <= Total
      /\ len > 0 /\ Inside(b, offset, len) => at = b[2] + offset
  BY <1>0, AccessChecked
<1>2. store = "live" /\ UNCHANGED <<vars, store>>
  BY DEF store_mngr_block_write
<1>3. CASE check # "OK" /\ result' = check /\ UNCHANGED <<file, contents>>
  <2>1. handles' = handles /\ live' = live
    BY <1>2 DEF vars
  <2>2. StoreTypeOK'
    BY <1>1, <1>2, <1>3, <2>1 DEF StoreInv, StoreTypeOK
  <2>3. ReadYourWrites'
    BY <1>3, <2>1 DEF StoreInv, ReadYourWrites
  <2>. QED BY <2>2, <2>3 DEF StoreInv
<1>4. ASSUME check = "OK", result' \in {"OK", "EIO"},
             NEW n \in 0 .. len, file' = Written(file, at, bytes, n),
             NEW known \in [0 .. len - 1 -> Values \cup {Any}],
             (known = bytes /\ n = len) \/ \A i \in 0 .. len - 1 : known[i] = Any,
             contents' = Known(known)
      PROVE  StoreInv'
  <2>1. CASE Inside(b, offset, len)
    <3>1. at = b[2] + offset /\ contents' = Noted(b, offset, len, known)
      BY <1>1, <1>4, <2>1
    <3>2. offset + len <= BlockSize[b[1]]
      BY <2>1 DEF Inside
    <3>. QED BY <1>1, <1>2, <1>4, <3>1, <3>2, WrittenInv
  <2>2. CASE ~Inside(b, offset, len)
    <3>1. contents' = Overrun(at, len)
      BY <1>4, <2>2
    <3>. HIDE DEF at
    <3>. QED BY <1>1, <1>2, <1>4, <3>1, OverrunInv DEF check
  <2>. QED BY <2>1, <2>2
<1>5. CASE /\ check = "OK" /\ result' = "OK"
           /\ file' = Written(file, at, bytes, len)
           /\ contents' = Known(bytes)
  <2>1. len \in 0 .. len /\ bytes \in [0 .. len - 1 -> Values \cup {Any}]
    BY <1>1
  <2>. QED BY <1>4, <1>5, <2>1
<1>6. CASE /\ check = "OK" /\ result' = "EIO"
           /\ \E n \in 0 .. len : file' = Written(file, at, bytes, n)
           /\ contents' = Known(lost)
  <2>1. PICK n \in 0 .. len : file' = Written(file, at, bytes, n)
    BY <1>6
  <2>2. /\ lost \in [0 .. len - 1 -> Values \cup {Any}]
        /\ \A i \in 0 .. len - 1 : lost[i] = Any
    OBVIOUS
  <2>. QED BY <1>4, <1>6, <2>1, <2>2
<1>. QED BY <1>3, <1>5, <1>6 DEF store_mngr_block_write

(* A read changes nothing but the result.                                  *)
LEMMA ReadInv ==
  ASSUME IndInv, StoreInv, NEW b \in handles, NEW offset \in Word,
         NEW len \in Lengths, store_mngr_block_read(b, offset, len)
  PROVE  StoreInv'
<1>1. b \in Slots /\ file \in Files(Offsets, Byte)
  BY DEF IndInv, TypeOK, StoreInv, StoreTypeOK, store_mngr_block_read
<1>2. result' \in {"OK", "EINVAL", "EFBIG", "EIO"}
  BY <1>1, AccessChecked DEF store_mngr_block_read
<1>3. UNCHANGED <<store, file, contents>> /\ handles' = handles /\ live' = live
  BY DEF store_mngr_block_read, vars
<1>4. StoreTypeOK'
  BY <1>2, <1>3 DEF StoreInv, StoreTypeOK
<1>5. ReadYourWrites'
  BY <1>3 DEF StoreInv, ReadYourWrites
<1>. QED BY <1>4, <1>5 DEF StoreInv

(* The invariant holds at the start.                                       *)
LEMMA StoreInitInv == StoreInit => StoreInv
<1>. SUFFICES ASSUME StoreInit PROVE StoreInv
  OBVIOUS
<1>1. live = FALSE /\ handles = {} /\ store = "none" /\ file = NoFile(Offsets)
      /\ contents = Nothing /\ result = "OK" /\ Total \in Nat
  BY SizeAssumption DEF StoreInit, Init, Total, Levels
<1>2. StoreTypeOK
  BY <1>1, NoFileType, NothingType DEF StoreTypeOK
<1>. QED BY <1>1, <1>2 DEF StoreInv, ReadYourWrites

(* Every step keeps the invariant, given the allocator's.                  *)
LEMMA StoreNextInv ==
  ASSUME IndInv, StoreInv, [StoreNext]_all_vars
  PROVE  StoreInv'
<1>1. CASE UNCHANGED all_vars
  <2>1. UNCHANGED <<store, file, contents, result, handles, live>>
    BY <1>1 DEF all_vars, vars, store_vars
  <2>2. StoreTypeOK'
    BY <2>1 DEF StoreInv, StoreTypeOK
  <2>3. ReadYourWrites'
    BY <2>1 DEF StoreInv, ReadYourWrites
  <2>. QED BY <2>2, <2>3 DEF StoreInv
<1>2. CASE \/ \E legal \in BOOLEAN : CreateAllocator(legal)
           \/ CreateFails \/ CreateFile \/ store_mngr_destroy \/ Crash
  BY <1>2, LifecycleInv
<1>3. CASE \E size \in Requests : store_mngr_block_alloc(size)
  BY <1>3, AllocInv
<1>4. CASE \E b \in handles : store_mngr_block_free(b)
  BY <1>4, FreeStoreInv
<1>5. ASSUME NEW b \in handles, NEW offset \in Word, NEW len \in Lengths,
             NEW bytes \in [0 .. len - 1 -> Values],
             store_mngr_block_write(b, offset, len, bytes)
      PROVE  StoreInv'
  BY <1>5, WriteInv
<1>6. ASSUME NEW b \in handles, NEW offset \in Word, NEW len \in Lengths,
             store_mngr_block_read(b, offset, len)
      PROVE  StoreInv'
  BY <1>6, ReadInv
<1>. QED BY <1>1, <1>2, <1>3, <1>4, <1>5, <1>6 DEF StoreNext

(* Inside the store the allocator's invariant holds.                       *)
LEMMA AllocatorInvariance == StoreSpec => []IndInv
BY AllocatorInStore, Invariance, PTL

(* The two invariants hold together.                                       *)
LEMMA StoreInvariance == StoreSpec => [](IndInv /\ StoreInv)
<1>1. StoreInit => StoreInv
  BY StoreInitInv
<1>2. IndInv /\ StoreInv /\ [StoreNext]_all_vars => StoreInv'
  BY StoreNextInv
<1>. QED BY <1>1, <1>2, AllocatorInvariance, PTL DEF StoreSpec

(* The store, its allocator and its file agree on what exists, also after  *)
(* a creation that failed and after a crash.                               *)
THEOREM StoreTypeCorrect == StoreSpec => []StoreTypeOK
<1>1. StoreInv => StoreTypeOK
  BY DEF StoreInv
<1>. QED BY <1>1, StoreInvariance, PTL

(* What the holder of a block wrote stays in the file at the block's place *)
(* until the holder writes there again, or a write leaves its block and    *)
(* hits it, as any offset that store_mngr.c accepts may.                   *)
THEOREM WritesAreKept == StoreSpec => []ReadYourWrites
<1>1. StoreInv => ReadYourWrites
  BY DEF StoreInv
<1>. QED BY <1>1, StoreInvariance, PTL

(* An access that ends past the pool, its offset in the pool fitting a     *)
(* uint32_t, passes neither check.                                         *)
LEMMA PastPoolChecked ==
  ASSUME NEW b \in Slots, NEW offset \in Word, NEW len \in Lengths,
         b[2] + offset < Uint32, b[2] + offset + len > Total
  PROVE  LET at == total_offset(b, offset) IN
         /\ WriteCheck(at, len, Total) # "OK"
         /\ \A f \in Files(Offsets, Byte) : ReadCheck(f, at, len, Total) # "OK"
<1>1. b[2] \in Nat /\ offset \in Nat /\ Uint32 \in Nat
  BY SlotShape, StoreAssumption DEF Word
<1>2. total_offset(b, offset) = b[2] + offset
  BY <1>1, SmallMod DEF total_offset
<1>. QED BY <1>2, AccessChecked

(* Past the end of the pool nothing is read or written, if the offset in   *)
(* the pool fits a uint32_t.                                               *)
THEOREM PastPoolAlwaysRefused == StoreSpec => PastPoolRefused
<1>. DEFINE Beyond == /\ store = "live" /\ request'[1] \in {"write", "read"}
                      /\ LET start == request'[2][2] + request'[3]
                         IN  start < Uint32 /\ start + request'[4] > Total
            Refused == result' # "OK" /\ UNCHANGED <<file, contents>>
<1>1. ASSUME IndInv, StoreInv, [StoreNext]_all_vars
      PROVE  [Beyond => Refused]_all_vars
  <2>. SUFFICES ASSUME StoreNext, Beyond PROVE Refused
    BY <1>1
  <2>1. handles \subseteq Slots /\ file \in Files(Offsets, Byte)
    BY <1>1 DEF IndInv, TypeOK, StoreInv, StoreTypeOK
  <2>2. ASSUME NEW b \in handles, NEW offset \in Word, NEW len \in Lengths,
               NEW bytes \in [0 .. len - 1 -> Values],
               store_mngr_block_write(b, offset, len, bytes)
        PROVE  Refused
    <3>1. request' = <<"write", b, offset, len, bytes>>
      BY <2>2 DEF store_mngr_block_write
    <3>2. b[2] + offset < Uint32 /\ b[2] + offset + len > Total
      BY <3>1
    <3>. QED BY <2>1, <2>2, <3>2, PastPoolChecked DEF store_mngr_block_write
  <2>3. ASSUME NEW b \in handles, NEW offset \in Word, NEW len \in Lengths,
               store_mngr_block_read(b, offset, len)
        PROVE  Refused
    <3>1. request' = <<"read", b, offset, len>>
      BY <2>3 DEF store_mngr_block_read
    <3>2. b[2] + offset < Uint32 /\ b[2] + offset + len > Total
      BY <3>1
    <3>. QED BY <2>1, <2>3, <3>2, PastPoolChecked DEF store_mngr_block_read
  <2>4. CASE \/ \E legal \in BOOLEAN : CreateAllocator(legal)
             \/ CreateFails \/ CreateFile \/ store_mngr_destroy \/ Crash
    BY <2>4 DEF CreateAllocator, CreateFails, CreateFile, store_mngr_destroy, Crash
  <2>5. CASE \E size \in Requests : store_mngr_block_alloc(size)
    BY <2>5 DEF store_mngr_block_alloc
  <2>6. CASE \E b \in handles : store_mngr_block_free(b)
    BY <2>6 DEF store_mngr_block_free
  <2>. QED BY <2>2, <2>3, <2>4, <2>5, <2>6 DEF StoreNext
<1>. QED BY <1>1, StoreInvariance, PTL DEF StoreSpec, PastPoolRefused

(* The exception is real: through every block but the first there is an    *)
(* offset past the pool that store_mngr.c takes for the pool's first byte, *)
(* and the file's limit has no objection to what is then written there.    *)
THEOREM WrappedAccepted ==
  ASSUME NEW b \in Slots, b[2] # 0, NEW len \in Lengths, 0 < len, len <= Total
  PROVE  \E offset \in Word : /\ b[2] + offset + len > Total
                             /\ total_offset(b, offset) = 0
                             /\ WriteCheck(total_offset(b, offset), len, Total) = "OK"
<1>1. /\ b[2] \in Nat /\ b[2] <= Total /\ Total \in Nat /\ len \in Nat
      /\ Uint32 \in Nat /\ Total < Uint32
  <2>1. /\ b[1] \in Levels /\ b[2] \in Nat /\ b[2] + BlockSize[b[1]] <= Total
        /\ BlockSize[b[1]] \in Nat /\ Total \in Nat
    BY SlotShape, Sizes, SizeAssumption DEF Total, Levels
  <2>. QED BY <2>1, StoreAssumption
<1>. DEFINE offset == Uint32 - b[2]
<1>2. offset \in Word /\ b[2] + offset = Uint32
  BY <1>1 DEF Word
<1>. HIDE DEF offset
<1>3. total_offset(b, offset) = 0
  <2>1. Uint32 % Uint32 = 0
    BY <1>1
  <2>. QED BY <1>2, <2>1 DEF total_offset
<1>4. WriteCheck(0, len, Total) = "OK"
  BY <1>1, <1>2, <1>3, AccessChecked
<1>. QED BY <1>1, <1>2, <1>3, <1>4

-----------------------------------------------------------------------------
(* The refinement.                                                         *)

(* The store and its promise know the same of a fresh block.               *)
LEMMA SameFresh ==
  /\ Isolated!Fresh = Fresh
  /\ Nothing = [b \in Slots |-> Isolated!Fresh]
BY DEF Isolated!Fresh, Fresh, Nothing

(* The first state of the store is one of the promise.                     *)
LEMMA SameInit == StoreInit => Isolated!Init
BY SameFresh DEF StoreInit, Init, Isolated!Init

(* Creation, destruction and crash are steps of the promise.               *)
LEMMA LifecycleStep ==
  ASSUME IndInv, StoreInv,
         \/ \E legal \in BOOLEAN : CreateAllocator(legal)
         \/ CreateFails \/ CreateFile \/ store_mngr_destroy \/ Crash
  PROVE  Isolated!Next
<1>0. StoreTypeOK
  BY DEF StoreInv
<1>1. ASSUME NEW legal \in BOOLEAN, CreateAllocator(legal)
      PROVE  Isolated!Next
  <2>1. handles' = handles
    BY <1>1 DEF CreateAllocator, buddy_alloc_create, CreateOutOfMemory, memory, vars
  <2>2. Isolated!Create(legal)
    BY <1>1, <2>1 DEF CreateAllocator, Isolated!Create
  <2>. QED BY <2>2 DEF Isolated!Next
<1>2. CASE CreateFails \/ CreateFile
  <2>1. handles' = handles
    BY <1>0, <1>2 DEF CreateFails, CreateFile, buddy_alloc_destroy, vars, StoreTypeOK
  <2>2. Isolated!Created
    BY <1>2, <2>1 DEF CreateFails, CreateFile, Isolated!Created
  <2>. QED BY <2>2 DEF Isolated!Next
<1>3. CASE store_mngr_destroy \/ Crash
  <2>1. handles' = {}
    BY <1>3 DEF store_mngr_destroy, Crash, buddy_alloc_destroy
  <2>2. Isolated!Closed
    BY <1>3, <2>1, SameFresh DEF store_mngr_destroy, Crash, Isolated!Closed
  <2>3. Isolated!Destroy \/ Isolated!Crash
    BY <1>3, <2>2 DEF store_mngr_destroy, Crash, Isolated!Destroy, Isolated!Crash
  <2>. QED BY <2>3 DEF Isolated!Next
<1>. QED BY <1>1, <1>2, <1>3

(* An allocation gives a block that serves the request and meets none that *)
(* is held, or is refused because there is none.                           *)
LEMMA AllocStep ==
  ASSUME IndInv, StoreInv, NEW size \in Requests, store_mngr_block_alloc(size)
  PROVE  Isolated!Alloc(size)
<1>1. /\ store = "live" /\ UNCHANGED <<store, contents>> /\ got' = NULL
      /\ request' = <<"alloc", size>>
      /\ contents \in [Slots -> [Offsets -> Values \cup {Any}]]
      /\ \A b \in Slots \ handles : contents[b] = Fresh
      /\ handles \subseteq Slots
  BY DEF StoreInv, StoreTypeOK, store_mngr_block_alloc, IndInv, TypeOK
<1>2. /\ \A b \in Slots : Isolated!Serves(b, size) <=> get_block_level(size, b[1])
      /\ \A b \in Slots : Isolated!Available(b) <=> \A c \in handles : Disjoint(b, c)
  BY <1>1 DEF Isolated!Serves, Isolated!Available, get_block_level
<1>3. CASE result' = "ENOMEM" /\ UNCHANGED vars
  BY <1>1, <1>3 DEF Isolated!Alloc, vars
<1>4. CASE buddy_alloc_allocate(size) /\ result' = rc'
  <2>1. CASE /\ handles' = handles
             /\ \A h \in Slots : get_block_level(size, h[1]) =>
                  \E c \in handles : ~Disjoint(h, c)
             /\ rc' = IF \E h \in Slots : get_block_level(size, h[1])
                      THEN "ENFILE" ELSE "EINVAL"
    BY <1>1, <1>2, <1>4, <2>1 DEF Isolated!Alloc
  <2>2. ASSUME rc' = "OK", NEW h \in Slots \ handles, handles' = handles \cup {h},
               get_block_level(size, h[1]), \A c \in handles : Disjoint(h, c)
        PROVE  Isolated!Alloc(size)
    <3>1. contents' = [contents EXCEPT ![h] = Isolated!Fresh]
      BY <1>1, <2>2, SameFresh
    <3>2. Isolated!Serves(h, size) /\ Isolated!Available(h)
      BY <1>2, <2>2
    <3>. QED BY <1>1, <1>4, <2>2, <3>1, <3>2 DEF Isolated!Alloc
  <2>. QED BY <1>4, <2>1, <2>2, AllocEffect
<1>. QED BY <1>3, <1>4 DEF store_mngr_block_alloc

(* A free gives back the one block.                                        *)
LEMMA FreeStep ==
  ASSUME IndInv, StoreInv, NEW b \in handles, store_mngr_block_free(b)
  PROVE  Isolated!Free(b)
<1>1. handles' = handles \ {b} /\ rc' = "OK" /\ b \in Slots
  BY FreeEffect DEF store_mngr_block_free
<1>. QED BY <1>1, SameFresh DEF store_mngr_block_free, Isolated!Free

(* A write inside its block is one to the block's own memory; any other is *)
(* refused or only makes less be known.                                    *)
LEMMA WriteStep ==
  ASSUME IndInv, StoreInv, NEW b \in handles, NEW offset \in Word,
         NEW len \in Lengths, NEW bytes \in [0 .. len - 1 -> Values],
         store_mngr_block_write(b, offset, len, bytes)
  PROVE  Isolated!Write(b, offset, len, bytes)
<1>. DEFINE at    == total_offset(b, offset)
            check == WriteCheck(at, len, Total)
            lost  == [i \in 0 .. len - 1 |-> Any]
            Known(new) == IF Inside(b, offset, len) THEN Noted(b, offset, len, new)
                          ELSE Overrun(at, len)
<1>0. /\ b \in Slots /\ handles' = handles
      /\ store = "live" /\ store' = store /\ got' = NULL
      /\ request' = <<"write", b, offset, len, bytes>>
  BY DEF IndInv, TypeOK, store_mngr_block_write, vars
<1>1. /\ at \in Nat /\ len \in Nat /\ offset \in Nat
      /\ check = IF len = 0 THEN "EINVAL" ELSE IF at + len > Total THEN "EFBIG" ELSE "OK"
      /\ len > 0 /\ Inside(b, offset, len) => check = "OK"
  <2>1. Total \in Nat
    BY SizeAssumption DEF Total, Levels
  <2>. QED BY <1>0, <2>1, AccessChecked
<1>2. Inside(b, offset, len) <=> Isolated!Inside(b, offset, len)
  BY <1>0 DEF Inside, Isolated!Inside
<1>. HIDE DEF at
<1>3. CASE check # "OK" /\ result' = check /\ UNCHANGED contents
  <2>1. CASE len = 0
    BY <1>0, <1>1, <1>3, <2>1 DEF Isolated!Write
  <2>2. CASE len # 0
    <3>1. len > 0 /\ ~Isolated!Inside(b, offset, len) /\ result' = "EFBIG"
      BY <1>1, <1>2, <1>3, <2>2
    <3>. QED BY <1>0, <1>3, <3>1 DEF Isolated!Write, Isolated!WriteOutside
  <2>. QED BY <2>1, <2>2
<1>4. ASSUME check = "OK",
             \/ result' = "OK" /\ contents' = Known(bytes)
             \/ result' = "EIO" /\ contents' = Known(lost)
      PROVE  Isolated!Write(b, offset, len, bytes)
  <2>0. len > 0
    BY <1>1, <1>4
  <2>1. CASE Inside(b, offset, len)
    <3>1. ASSUME NEW o \in Offsets, offset <= o, o < offset + len
          PROVE  lost[o - offset] = Any
      <4>1. o - offset \in 0 .. len - 1
        BY <1>1, <3>1, SizeAssumption DEF Offsets, Total
      <4>. QED BY <4>1
    <3>2. Noted(b, offset, len, lost) =
            [contents EXCEPT ![b] = [o \in Offsets |->
               IF offset <= o /\ o < offset + len THEN Any ELSE contents[b][o]]]
      BY <3>1 DEF Noted
    <3>3. Noted(b, offset, len, bytes) =
            [contents EXCEPT ![b] = [o \in Offsets |->
               IF offset <= o /\ o < offset + len THEN bytes[o - offset]
               ELSE contents[b][o]]]
      BY DEF Noted
    <3>4. Isolated!WriteInside(b, offset, len, bytes)
      BY <1>4, <2>1, <3>2, <3>3 DEF Isolated!WriteInside
    <3>. QED BY <1>0, <1>2, <2>0, <2>1, <3>4 DEF Isolated!Write
  <2>2. CASE ~Inside(b, offset, len)
    <3>1. contents' = Overrun(at, len) /\ result' \in {"OK", "EIO"}
      BY <1>4, <2>2
    <3>2. \A c \in Slots, o \in Offsets : contents'[c][o] \in {contents[c][o], Any}
      BY <3>1 DEF Overrun
    <3>3. contents' = [c \in Slots |-> [o \in Offsets |-> contents'[c][o]]]
      BY <3>1 DEF Overrun
    <3>4. Isolated!WriteOutside
      BY <3>1, <3>2, <3>3 DEF Isolated!WriteOutside
    <3>. QED BY <1>0, <1>2, <2>0, <2>2, <3>4 DEF Isolated!Write
  <2>. QED BY <2>1, <2>2
<1>. QED BY <1>3, <1>4 DEF store_mngr_block_write, at

(* A read inside its block returns the bytes of the file at the block's    *)
(* place, and ReadYourWrites says what they are.                           *)
LEMMA ReadStep ==
  ASSUME IndInv, StoreInv, NEW b \in handles, NEW offset \in Word,
         NEW len \in Lengths, store_mngr_block_read(b, offset, len)
  PROVE  Isolated!Read(b, offset, len)
<1>. DEFINE at    == total_offset(b, offset)
            check == ReadCheck(file, at, len, Total)
<1>0. /\ b \in Slots /\ handles' = handles
      /\ store = "live" /\ UNCHANGED <<store, contents>>
      /\ request' = <<"read", b, offset, len>>
      /\ file \in Files(Offsets, Byte)
  BY DEF IndInv, TypeOK, StoreInv, StoreTypeOK, store_mngr_block_read, vars
<1>1. /\ at \in Nat /\ len \in Nat /\ offset \in Nat
      /\ check = IF len = 0 THEN "EINVAL" ELSE IF at + len > Total THEN "EFBIG"
                 ELSE IF at + len > file.size THEN "EIO" ELSE "OK"
      /\ len > 0 /\ Inside(b, offset, len) =>
           at = b[2] + offset /\ at + len <= Total
  BY <1>0, AccessChecked
<1>2. /\ b[2] \in Nat /\ Total \in Nat /\ file.size \in Nat
      /\ Inside(b, offset, len) <=> Isolated!Inside(b, offset, len)
  <2>1. b[2] \in Nat
    BY <1>0, SlotShape
  <2>2. Total \in Nat
    BY SizeAssumption DEF Total, Levels
  <2>. QED BY <1>0, <2>1, <2>2 DEF Inside, Isolated!Inside, Files
<1>. HIDE DEF at
<1>3. CASE result' = check /\ check # "OK" /\ got' = NULL
  BY <1>0, <1>1, <1>2, <1>3 DEF Isolated!Read
<1>4. CASE result' = "EIO" /\ check = "OK" /\ got' = NULL
  BY <1>0, <1>1, <1>4 DEF Isolated!Read
<1>5. CASE result' = "OK" /\ check = "OK" /\ got' = BytesAt(file, at, len)
  <2>0. len > 0 /\ at + len <= Total
    BY <1>1, <1>2, <1>5
  <2>1. ASSUME NEW i \in 0 .. len - 1
        PROVE  got'[i] = file.data[at + i] /\ got'[i] \in Values \cup {Zero}
    <3>1. at + i \in Offsets
      BY <1>1, <1>2, <2>0 DEF Offsets
    <3>2. got'[i] = file.data[at + i]
      BY <1>5 DEF BytesAt
    <3>. QED BY <1>0, <3>1, <3>2 DEF Files, Byte
  <2>2. ASSUME Inside(b, offset, len), NEW i \in 0 .. len - 1
        PROVE  contents[b][offset + i] \in {Any, got'[i]}
    <3>1. at + i = b[2] + (offset + i) /\ offset + i \in Offsets
      BY <1>1, <1>2, <2>0, <2>2 DEF Offsets
    <3>2. contents[b][offset + i] # Any =>
            file.data[b[2] + (offset + i)] = contents[b][offset + i]
      BY <3>1 DEF StoreInv, ReadYourWrites
    <3>. QED BY <2>1, <3>1, <3>2
  <2>3. got' \in [0 .. len - 1 -> Values \cup {Zero}]
    BY <1>5, <2>1 DEF BytesAt
  <2>. QED BY <1>0, <1>2, <1>5, <2>0, <2>2, <2>3 DEF Isolated!Read
<1>. QED BY <1>3, <1>4, <1>5 DEF store_mngr_block_read, at

(* Every step of the store is one of the promise, or a stutter.            *)
LEMMA StoreStep ==
  ASSUME IndInv, StoreInv, [StoreNext]_all_vars
  PROVE  [Isolated!Next]_(Isolated!vars)
<1>1. CASE UNCHANGED all_vars
  BY <1>1 DEF all_vars, vars, store_vars, Isolated!vars
<1>2. CASE \/ \E legal \in BOOLEAN : CreateAllocator(legal)
           \/ CreateFails \/ CreateFile \/ store_mngr_destroy \/ Crash
  BY <1>2, LifecycleStep
<1>3. CASE \E size \in Requests : store_mngr_block_alloc(size)
  BY <1>3, AllocStep DEF Isolated!Next
<1>4. CASE \E b \in handles : store_mngr_block_free(b)
  BY <1>4, FreeStep DEF Isolated!Next
<1>5. ASSUME NEW b \in handles, NEW offset \in Word, NEW len \in Lengths,
             NEW bytes \in [0 .. len - 1 -> Values],
             store_mngr_block_write(b, offset, len, bytes)
      PROVE  Isolated!Next
  BY <1>5, WriteStep DEF Isolated!Next
<1>6. ASSUME NEW b \in handles, NEW offset \in Word, NEW len \in Lengths,
             store_mngr_block_read(b, offset, len)
      PROVE  Isolated!Next
  BY <1>6, ReadStep DEF Isolated!Next
<1>. QED BY <1>1, <1>2, <1>3, <1>4, <1>5, <1>6 DEF StoreNext

(* The storage manager implements BlockStore: callers that stay inside     *)
(* their blocks cannot tell it from a store in which every block has a     *)
(* memory of its own, whatever they ask for and in whatever order.         *)
THEOREM StoreRefines == StoreSpec => ImplementsBlockStore
<1>1. StoreInit => Isolated!Init
  BY SameInit
<1>2. IndInv /\ StoreInv /\ [StoreNext]_all_vars => [Isolated!Next]_(Isolated!vars)
  BY StoreStep
<1>. QED BY <1>1, <1>2, StoreInvariance, PTL
         DEF StoreSpec, ImplementsBlockStore, Isolated!Spec

=============================================================================
