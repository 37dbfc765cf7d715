------------------------- MODULE ClientManagerProofs ------------------------
(***************************************************************************)
(* The client manager keeps flags, pools and contexts in agreement, for    *)
(* any number of clients and files, although it changes flags and sizes    *)
(* before a pool has accepted the id, and although cells of all clients    *)
(* but the first lie outside the region.                                   *)
(***************************************************************************)
EXTENDS ClientManager, IdPoolDataProofs

Results == {"OK", "EINVAL", "ENOMEM", "ENOENT", "EACCES", "EPERM",
            "ESPIPE", "EALREADY"}

(* All pools are in order.                                                 *)
PoolsOK ==
  /\ PoolOK(clients_id_pool, MaxClients, 0)
  /\ files_id_pool = [c \in Clients |-> files_id_pool[c]]
  /\ \A c \in Clients : PoolOK(files_id_pool[c], MaxFiles, 0)

CellsType ==
  /\ file_size \in [Region -> FileSizes \cup {0}]
  /\ ctx \in [Region -> Contexts \cup {NULL}]

(* The inductive invariant.                                                *)
IndInv ==
  /\ live \in BOOLEAN
  /\ rc \in Results
  /\ PoolsOK
  /\ in_use \in [Clients -> BOOLEAN]
  /\ InUseExact
  /\ NoFilesWithoutClient
  /\ CellsType
  /\ NoOrphanContext
  /\ NoOrphanSize

-----------------------------------------------------------------------------

(* The configuration.                                                      *)
LEMMA Config ==
  /\ MaxClients \in Word \ {0} /\ MaxFiles \in Word \ {0} /\ 0 \in Word
  /\ MaxClients \in Nat \ {0} /\ MaxFiles \in Nat \ {0}
BY ConfigAssumption, WordAssumption DEF Word

(* With the first id 0, an id is its own index.                            *)
LEMMA IdIsIndex ==
  ASSUME NEW capacity \in Word \ {0}, NEW k \in 0 .. capacity - 1
  PROVE  Id(k, 0) = k
BY WordAssumption, ModSmall DEF Id, Word

(* An allocation takes an index that was free.                             *)
LEMMA Taken ==
  ASSUME NEW capacity \in Word \ {0}, NEW p, PoolOK(p, capacity, 0), ~Exhausted(p)
  PROVE  /\ PoolOK(Allocated(p), capacity, 0)
         /\ TopId(p) \in 0 .. capacity - 1 /\ ~p.in_use[TopId(p)]
         /\ \A k \in 0 .. capacity - 1 :
              Allocated(p).in_use[k] = IF k = TopId(p) THEN TRUE ELSE p.in_use[k]
<1>1. 0 \in Word
  BY Config
<1>2. PICK k \in 0 .. capacity - 1 :
        /\ TopId(p) = Id(k, 0) /\ ~p.in_use[k]
        /\ Allocated(p).in_use = [p.in_use EXCEPT ![k] = TRUE]
  BY <1>1, AllocatedOK
<1>3. TopId(p) = k
  BY <1>2, IdIsIndex
<1>4. p.in_use \in [0 .. capacity - 1 -> BOOLEAN]
  BY <1>1, PoolFields
<1>. QED
  BY <1>1, <1>2, <1>3, <1>4, AllocatedOK

(* An id in range is accepted if and only if it is in use.                 *)
LEMMA Legal ==
  ASSUME NEW capacity \in Word \ {0}, NEW p, PoolOK(p, capacity, 0),
         NEW id \in 0 .. capacity - 1
  PROVE  FreeResult(p, id) = IF p.in_use[id] THEN "OK" ELSE "EALREADY"
<1>1. /\ capacity \in Nat \ {0} /\ capacity < M /\ M \in Nat \ {0} /\ 0 \in Word
      /\ id \in Nat /\ id < capacity
  BY WordAssumption, Config DEF Word
<1>2. p.capacity = capacity /\ p.id_start_offset = 0
  BY <1>1, PoolFields
<1>3. (capacity + 0) % M = capacity /\ (id - 0) % M = id
  BY <1>1, ModSmall
<1>. QED
  BY <1>1, <1>2, <1>3 DEF FreeResult, IllegalId, Index

(* A free gives back its index.                                            *)
LEMMA GivenBack ==
  ASSUME NEW capacity \in Word \ {0}, NEW p, PoolOK(p, capacity, 0),
         NEW id \in 0 .. capacity - 1, FreeResult(p, id) = "OK"
  PROVE  /\ PoolOK(Freed(p, id), capacity, 0)
         /\ \A k \in 0 .. capacity - 1 :
              Freed(p, id).in_use[k] <=> p.in_use[k] /\ k # id
<1>1. 0 \in Word /\ id \in Word
  BY WordAssumption, Config DEF Word
<1>2. PICK k \in 0 .. capacity - 1 :
        id = Id(k, 0) /\ Freed(p, id).in_use = [p.in_use EXCEPT ![k] = FALSE]
  BY <1>1, FreedOK
<1>3. id = k
  BY <1>2, IdIsIndex
<1>4. p.in_use \in [0 .. capacity - 1 -> BOOLEAN]
  BY <1>1, PoolFields
<1>. QED
  BY <1>1, <1>2, <1>3, <1>4, FreedOK

(* A cell in the region belongs to the first client only.                  *)
LEMMA CellOwner ==
  ASSUME NEW c \in Clients, NEW f \in Files, NEW d \in Clients, NEW g \in Files,
         Cell(c, f) \in Region, Cell(c, f) = Cell(d, g)
  PROVE  c = d /\ f = g
<1>1. /\ MaxFiles \in Nat \ {0} /\ c \in Nat /\ d \in Nat /\ f \in Nat /\ g \in Nat
      /\ f < MaxFiles /\ g < MaxFiles
  BY Config DEF Clients, Files
<1>2. ASSUME NEW e \in Nat, e # 0
      PROVE  e * MaxFiles >= MaxFiles
  BY <1>1, <1>2
<1>3. Cell(c, f) < MaxFiles
  BY <1>1 DEF Region
<1>4. c = 0 /\ d = 0
  BY <1>1, <1>2, <1>3 DEF Cell
<1>. QED
  BY <1>1, <1>4 DEF Cell

-----------------------------------------------------------------------------

(* A new manager: no client, no file, no context.                          *)
New ==
  /\ clients_id_pool = NewPool(MaxClients, 0)
  /\ in_use = NoClients
  /\ files_id_pool = NewPools
  /\ file_size = NewSizes
  /\ ctx = NewCtx

(* It satisfies the invariant.                                              *)
LEMMA NewInv ==
  ASSUME New
  PROVE  /\ PoolsOK /\ in_use \in [Clients -> BOOLEAN] /\ InUseExact
         /\ NoFilesWithoutClient /\ CellsType /\ NoOrphanContext /\ NoOrphanSize
<1>1. PoolsOK
  BY Config, NewPoolOK DEF New, NewPools, PoolsOK
<1>2. in_use \in [Clients -> BOOLEAN] /\ InUseExact
  BY DEF New, NoClients, NewPool, InUseExact, Clients
<1>3. \A c \in Clients, f \in Files : ~FileAllocated(c, f)
  BY DEF New, NewPools, NewPool, Files, FileAllocated
<1>4. CellsType
  BY DEF New, NewSizes, NewCtx, CellsType
<1>5. \A n \in Region : ctx[n] = NULL /\ file_size[n] = 0
  BY DEF New, NewCtx, NewSizes
<1>. QED
  BY <1>1, <1>2, <1>3, <1>4, <1>5
  DEF NoFilesWithoutClient, NoOrphanContext, NoOrphanSize

(* The state that the calls read and write, unchanged.                     *)
LEMMA SameInv ==
  ASSUME IndInv, UNCHANGED <<pools, cells>>, live' \in BOOLEAN, rc' \in Results
  PROVE  IndInv'
BY DEF IndInv, pools, cells, PoolsOK, InUseExact, NoFilesWithoutClient, CellsType,
       NoOrphanContext, NoOrphanSize, FileAllocated

(* The flag of the client handed out is set, and only that one.            *)
LEMMA AllocateInv ==
  ASSUME IndInv, client_mngr_allocate
  PROVE  IndInv'
<1>1. CASE Exhausted(clients_id_pool) /\ Refuse("ENOENT")
  BY <1>1, SameInv DEF Refuse, IndInv, Results
<1>2. CASE /\ live
           /\ ~Exhausted(clients_id_pool)
           /\ clients_id_pool' = Allocated(clients_id_pool)
           /\ in_use' = [in_use EXCEPT ![TopId(clients_id_pool)] = TRUE]
           /\ rc' = "OK"
           /\ UNCHANGED <<live, files_id_pool, cells>>
  <2>. DEFINE client == TopId(clients_id_pool)
  <2>1. PoolOK(clients_id_pool, MaxClients, 0) /\ MaxClients \in Word \ {0}
    BY Config DEF IndInv, PoolsOK
  <2>2. /\ PoolOK(clients_id_pool', MaxClients, 0) /\ client \in Clients
        /\ \A c \in Clients : clients_id_pool'.in_use[c] =
             IF c = client THEN TRUE ELSE clients_id_pool.in_use[c]
    BY <1>2, <2>1, Taken DEF Clients
  <2>. HIDE DEF client
  <2>3. in_use' \in [Clients -> BOOLEAN]
        /\ \A c \in Clients : in_use'[c] = IF c = client THEN TRUE ELSE in_use[c]
    BY <1>2, <2>2 DEF IndInv, client
  <2>4. InUseExact'
    BY <2>2, <2>3 DEF IndInv, InUseExact
  <2>5. NoFilesWithoutClient'
    BY <1>2, <2>3 DEF IndInv, NoFilesWithoutClient, FileAllocated
  <2>6. PoolsOK'
    BY <1>2, <2>2 DEF IndInv, PoolsOK
  <2>7. CellsType' /\ NoOrphanContext' /\ NoOrphanSize'
    BY <1>2 DEF IndInv, CellsType, NoOrphanContext, NoOrphanSize, FileAllocated, cells
  <2>. QED
    BY <1>2, <2>3, <2>4, <2>5, <2>6, <2>7 DEF IndInv, Results
<1>. QED
  BY <1>1, <1>2 DEF client_mngr_allocate

(* The flag is cleared before the pool answers; it only refuses a client   *)
(* whose flag was clear.                                                   *)
LEMMA FreeInv ==
  ASSUME IndInv, NEW client \in ClientIds, client_mngr_free(client)
  PROVE  IndInv'
<1>1. CASE \E error \in {"EINVAL", "EACCES"} : Refuse(error)
  BY <1>1, SameInv DEF Refuse, IndInv, Results
<1>2. CASE /\ live
           /\ client \in Clients
           /\ NoFilesLeft(client)
           /\ in_use' = InUseCleared(client)
           /\ rc' = FreeResult(clients_id_pool, client)
           /\ clients_id_pool' = IF rc' = "OK" THEN Freed(clients_id_pool, client)
                                 ELSE clients_id_pool
           /\ UNCHANGED <<live, files_id_pool, cells>>
  <2>1. /\ PoolOK(clients_id_pool, MaxClients, 0) /\ MaxClients \in Word \ {0}
        /\ MaxFiles \in Word \ {0} /\ 0 \in Word
        /\ PoolOK(files_id_pool[client], MaxFiles, 0)
    BY <1>2, Config DEF IndInv, PoolsOK
  <2>2. rc' = IF clients_id_pool.in_use[client] THEN "OK" ELSE "EALREADY"
    BY <1>2, <2>1, Legal DEF Clients
  <2>3. /\ PoolOK(clients_id_pool', MaxClients, 0)
        /\ \A c \in Clients : clients_id_pool'.in_use[c] <=>
                                clients_id_pool.in_use[c] /\ c # client
    <3>1. CASE clients_id_pool.in_use[client]
      <4>1. /\ FreeResult(clients_id_pool, client) = "OK"
            /\ clients_id_pool' = Freed(clients_id_pool, client)
        BY <1>2, <2>2, <3>1
      <4>2. client \in 0 .. MaxClients - 1
        BY <1>2 DEF Clients
      <4>3. PoolOK(clients_id_pool', MaxClients, 0)
        BY ONLY <2>1, <4>1, <4>2, GivenBack
      <4>4. \A c \in 0 .. MaxClients - 1 : clients_id_pool'.in_use[c] <=>
                                           clients_id_pool.in_use[c] /\ c # client
        BY ONLY <2>1, <4>1, <4>2, GivenBack
      <4>. QED
        BY <4>3, <4>4 DEF Clients
    <3>2. CASE ~clients_id_pool.in_use[client]
      <4>1. clients_id_pool.in_use \in [0 .. MaxClients - 1 -> BOOLEAN]
        BY <2>1, PoolFields
      <4>. QED
        BY <1>2, <2>1, <2>2, <3>2, <4>1 DEF Clients
    <3>. QED
      BY <3>1, <3>2
  <2>4. in_use' \in [Clients -> BOOLEAN]
        /\ \A c \in Clients : in_use'[c] = IF c = client THEN FALSE ELSE in_use[c]
    BY <1>2 DEF IndInv, InUseCleared
  <2>5. \A f \in Files : ~FileAllocated(client, f)
    BY <1>2, <2>1, CountZero DEF NoFilesLeft, FileAllocated, Files
  <2>6. InUseExact'
    BY <2>3, <2>4 DEF IndInv, InUseExact
  <2>7. NoFilesWithoutClient'
    BY <1>2, <2>4, <2>5 DEF IndInv, NoFilesWithoutClient, FileAllocated
  <2>8. PoolsOK'
    BY <1>2, <2>3 DEF IndInv, PoolsOK
  <2>9. CellsType' /\ NoOrphanContext' /\ NoOrphanSize'
    BY <1>2 DEF IndInv, CellsType, NoOrphanContext, NoOrphanSize, FileAllocated, cells
  <2>. QED
    BY <1>2, <2>2, <2>4, <2>6, <2>7, <2>8, <2>9 DEF IndInv, Results
<1>. QED
  BY <1>1, <1>2 DEF client_mngr_free

(* A new file starts without a context, in the region or out of it.        *)
LEMMA FileAllocateInv ==
  ASSUME IndInv, NEW client \in ClientIds, NEW size \in FileSizes, Known(client),
         client_mngr_file_allocate(client, size)
  PROVE  IndInv'
<1>1. CASE \E error \in {"EINVAL", "ENOENT"} : Refuse(error)
  BY <1>1, SameInv DEF Refuse, IndInv, Results
<1>. DEFINE file == TopId(files_id_pool[client])
<1>2. CASE /\ live
           /\ client \in Clients
           /\ ~Exhausted(files_id_pool[client])
           /\ file_size' = Store(file_size, client, file, size)
           /\ ctx' = Store(ctx, client, file, NULL)
           /\ files_id_pool' = [files_id_pool EXCEPT ![client] = Allocated(@)]
           /\ rc' = "OK"
           /\ UNCHANGED <<live, clients_id_pool, in_use>>
  <2>1. PoolOK(files_id_pool[client], MaxFiles, 0) /\ MaxFiles \in Word \ {0}
    BY <1>2, Config DEF IndInv, PoolsOK
  <2>2. files_id_pool' = [c \in Clients |-> IF c = client THEN Allocated(files_id_pool[c])
                                            ELSE files_id_pool[c]]
    BY <1>2 DEF IndInv, PoolsOK
  <2>3. PoolsOK'
    BY <1>2, <2>1, <2>2, Taken DEF IndInv, PoolsOK
  <2>4. file \in Files
    BY <1>2, <2>1, Taken DEF Files
  <2>5. ASSUME NEW c \in Clients, NEW f \in Files
        PROVE  FileAllocated(c, f)' <=> FileAllocated(c, f) \/ (c = client /\ f = file)
    <3>1. c = client =>
            files_id_pool[c]'.in_use[f] =
              IF f = file THEN TRUE ELSE files_id_pool[c].in_use[f]
      <4>1. Allocated(files_id_pool[client]).in_use[f] =
              IF f = file THEN TRUE ELSE files_id_pool[client].in_use[f]
        BY <1>2, <2>1, Taken DEF Files
      <4>2. files_id_pool'[client] = Allocated(files_id_pool[client])
        BY <1>2, <2>2
      <4>. QED
        BY ONLY <4>1, <4>2
    <3>2. c # client => files_id_pool[c]' = files_id_pool[c]
      BY <2>2
    <3>. QED
      BY <3>1, <3>2 DEF FileAllocated
  <2>. HIDE DEF file
  <2>6. in_use[client]
    BY <1>2 DEF Known
  <2>7. NoFilesWithoutClient'
    BY <1>2, <2>5, <2>6 DEF IndInv, NoFilesWithoutClient
  <2>8. CellsType'
    BY <1>2 DEF IndInv, CellsType, Store
  <2>9. NoOrphanContext'
    BY <1>2, <2>5 DEF IndInv, NoOrphanContext, Store
  <2>10. NoOrphanSize'
    <3>1. SUFFICES ASSUME NEW c \in Clients, NEW f \in Files, Cell(c, f) \in Region,
                          ~FileAllocated(c, f)'
                   PROVE  file_size'[Cell(c, f)] = 0
      BY DEF NoOrphanSize
    <3>2. ~FileAllocated(c, f) /\ ~(c = client /\ f = file)
      BY <2>5, <3>1
    <3>3. Cell(c, f) # Cell(client, file)
      BY <1>2, <2>4, <3>1, <3>2, CellOwner
    <3>. QED
      BY <1>2, <3>1, <3>2, <3>3 DEF IndInv, NoOrphanSize, Store
  <2>11. InUseExact'
    BY <1>2 DEF IndInv, InUseExact
  <2>. QED
    BY <1>2, <2>3, <2>7, <2>8, <2>9, <2>10, <2>11 DEF IndInv, Results
<1>. QED
  BY <1>1, <1>2 DEF client_mngr_file_allocate

(* A file is given back without a context, if its cell is in the region.   *)
LEMMA FileFreeInv ==
  ASSUME IndInv, NEW client \in ClientIds, NEW file \in FileIds,
         client_mngr_file_free(client, file)
  PROVE  IndInv'
<1>1. CASE \E error \in {"EINVAL", "EPERM"} : Refuse(error)
  BY <1>1, SameInv DEF Refuse, IndInv, Results
<1>2. CASE /\ live
           /\ InRange(client, file)
           /\ NULL \in CtxSeen(client, file)
           /\ file_size' = Store(file_size, client, file, 0)
           /\ rc' = FreeResult(files_id_pool[client], file)
           /\ files_id_pool' = IF rc' = "OK"
                               THEN [files_id_pool EXCEPT ![client] = Freed(@, file)]
                               ELSE files_id_pool
           /\ UNCHANGED <<live, clients_id_pool, in_use, ctx>>
  <2>1. /\ PoolOK(files_id_pool[client], MaxFiles, 0) /\ MaxFiles \in Word \ {0}
        /\ client \in Clients /\ file \in Files
    BY <1>2, Config DEF IndInv, PoolsOK, InRange
  <2>2. rc' \in {"OK", "EALREADY"}
    BY <1>2, <2>1, Legal DEF Files
  <2>3. CellsType'
    BY <1>2 DEF IndInv, CellsType, Store
  <2>4. CASE rc' = "OK"
    <3>1. files_id_pool' = [c \in Clients |->
                              IF c = client THEN Freed(files_id_pool[c], file)
                              ELSE files_id_pool[c]]
      BY <1>2, <2>4 DEF IndInv, PoolsOK
    <3>. DEFINE p == files_id_pool[client]
    <3>2. /\ PoolOK(Freed(p, file), MaxFiles, 0)
          /\ \A f \in Files :
               Freed(p, file).in_use[f] <=> p.in_use[f] /\ f # file
      <4>1. PoolOK(p, MaxFiles, 0) /\ file \in 0 .. MaxFiles - 1 /\ FreeResult(p, file) = "OK"
        BY <1>2, <2>1, <2>4 DEF Files
      <4>. HIDE DEF p
      <4>2. PoolOK(Freed(p, file), MaxFiles, 0)
        BY ONLY <2>1, <4>1, GivenBack
      <4>3. \A f \in 0 .. MaxFiles - 1 :
              Freed(p, file).in_use[f] <=> p.in_use[f] /\ f # file
        BY ONLY <2>1, <4>1, GivenBack
      <4>. QED
        BY <4>2, <4>3 DEF Files
    <3>3. files_id_pool'[client] = Freed(p, file)
      BY <2>1, <3>1
    <3>4. PoolsOK'
      BY <1>2, <3>1, <3>2 DEF IndInv, PoolsOK
    <3>5. ASSUME NEW c \in Clients, NEW f \in Files
          PROVE  FileAllocated(c, f)' <=> FileAllocated(c, f) /\ ~(c = client /\ f = file)
      <4>1. c = client =>
              (files_id_pool[c]'.in_use[f] <=> files_id_pool[c].in_use[f] /\ f # file)
        BY ONLY <3>2, <3>3, f \in Files
      <4>2. c # client => files_id_pool[c]' = files_id_pool[c]
        BY <3>1
      <4>. QED
        BY <4>1, <4>2 DEF FileAllocated
    <3>6. NoFilesWithoutClient'
      BY <1>2, <3>5 DEF IndInv, NoFilesWithoutClient
    <3>7. NoOrphanContext'
      BY <1>2, <3>5 DEF IndInv, NoOrphanContext, CtxSeen
    <3>8. InUseExact'
      BY <1>2 DEF IndInv, InUseExact
    <3>9. NoOrphanSize'
      <4>1. SUFFICES ASSUME NEW c \in Clients, NEW f \in Files, Cell(c, f) \in Region,
                            ~FileAllocated(c, f)'
                     PROVE  file_size'[Cell(c, f)] = 0
        BY DEF NoOrphanSize
      <4>2. CASE c = client /\ f = file
        BY <1>2, <4>1, <4>2 DEF Store
      <4>3. CASE ~(c = client /\ f = file)
        BY <1>2, <3>5, <4>1, <4>3 DEF IndInv, NoOrphanSize, Store
      <4>. QED
        BY <4>2, <4>3
    <3>. QED
      BY <1>2, <2>2, <2>3, <3>4, <3>6, <3>7, <3>8, <3>9 DEF IndInv, Results
  <2>5. CASE rc' # "OK"
    BY <1>2, <2>2, <2>3, <2>5 DEF IndInv, Results, PoolsOK, InUseExact,
       NoFilesWithoutClient, NoOrphanContext, NoOrphanSize, FileAllocated, Store
  <2>. QED
    BY <2>4, <2>5
<1>. QED
  BY <1>1, <1>2 DEF client_mngr_file_free

(* A context is attached to an allocated file, in its own cell.            *)
LEMMA SetCtxInv ==
  ASSUME IndInv, NEW client \in ClientIds, NEW file \in FileIds,
         NEW value \in Contexts \cup {NULL},
         client_mngr_file_set_ctx(client, file, value)
  PROVE  IndInv'
<1>1. CASE Refuse("EINVAL")
  BY <1>1, SameInv DEF Refuse, IndInv, Results
<1>2. CASE /\ live
           /\ InRange(client, file)
           /\ FileAllocated(client, file)
           /\ ctx' = Store(ctx, client, file, value)
           /\ rc' = "OK"
           /\ UNCHANGED <<live, pools, file_size>>
  <2>1. CellsType'
    BY <1>2 DEF IndInv, CellsType, Store
  <2>2. NoOrphanContext'
    <3>1. SUFFICES ASSUME NEW c \in Clients, NEW f \in Files, Cell(c, f) \in Region,
                          ctx'[Cell(c, f)] # NULL
                   PROVE  FileAllocated(c, f)'
      BY DEF NoOrphanContext
    <3>2. CASE Cell(c, f) = Cell(client, file)
      BY <1>2, <3>1, <3>2, CellOwner DEF FileAllocated, InRange, pools
    <3>3. CASE Cell(c, f) # Cell(client, file)
      BY <1>2, <3>1, <3>3 DEF IndInv, NoOrphanContext, Store, FileAllocated, pools
    <3>. QED
      BY <3>2, <3>3
  <2>3. PoolsOK' /\ InUseExact' /\ NoFilesWithoutClient' /\ NoOrphanSize'
    BY <1>2 DEF IndInv, PoolsOK, InUseExact, NoFilesWithoutClient, NoOrphanSize,
       FileAllocated, pools
  <2>. QED
    BY <1>2, <2>1, <2>2, <2>3 DEF IndInv, Results, pools
<1>. QED
  BY <1>1, <1>2 DEF client_mngr_file_set_ctx

(* Every call of client_mngr.c keeps the invariant.                        *)
LEMMA StepInv ==
  ASSUME IndInv, [Next]_vars
  PROVE  IndInv'
<1>1. ASSUME NEW clients, NEW files, client_mngr_create(clients, files)
      PROVE  IndInv'
  <2>1. /\ UNCHANGED <<pools, cells>> /\ live' \in BOOLEAN /\ rc' \in Results
    BY <1>1 DEF client_mngr_create, IndInv, Results
  <2>. QED
    BY <2>1, SameInv
<1>2. ASSUME client_mngr_destroy
      PROVE  IndInv'
  <2>1. New' /\ live' \in BOOLEAN /\ rc' \in Results
    BY <1>2 DEF client_mngr_destroy, New, Results, NoClients, NewPools, NewSizes,
       NewCtx, Clients, Region
  <2>2. (/\ PoolsOK /\ in_use \in [Clients -> BOOLEAN] /\ InUseExact
         /\ NoFilesWithoutClient /\ CellsType /\ NoOrphanContext /\ NoOrphanSize)'
    BY <2>1, NewInv, PTL
  <2>. QED
    BY <2>1, <2>2 DEF IndInv
<1>3. ASSUME NEW client \in ClientIds, NEW file \in FileIds,
             client_mngr_file_get_ctx(client, file)
             \/ client_mngr_file_get_size(client, file)
      PROVE  IndInv'
  <2>1. UNCHANGED <<pools, cells>> /\ live' \in BOOLEAN /\ rc' \in Results
    BY <1>3 DEF client_mngr_file_get_ctx, client_mngr_file_get_size, Refuse, IndInv,
       Results
  <2>. QED
    BY <2>1, SameInv
<1>4. CASE UNCHANGED vars
  BY <1>4, SameInv DEF vars, pools, cells, IndInv
<1>. QED
  BY <1>1, <1>2, <1>3, <1>4, AllocateInv, FreeInv, FileAllocateInv, FileFreeInv,
     SetCtxInv DEF Next

-----------------------------------------------------------------------------

(* The invariant holds after every call of client_mngr.c.                  *)
THEOREM Invariance == Spec => []IndInv
<1>1. Init => IndInv
  <2>1. Init => New /\ live = FALSE /\ rc = "OK"
    BY DEF Init, New
  <2>. QED
    BY <2>1, NewInv DEF IndInv, Results
<1>2. IndInv /\ [Next]_vars => IndInv'
  BY StepInv
<1>. QED
  BY <1>1, <1>2, PTL DEF Spec

(* The pools, flags and cells keep the shape of the structs.               *)
THEOREM ManagerTypeCorrect == Spec => []TypeOK
<1>1. IndInv => TypeOK
  BY DEF IndInv, PoolsOK, PoolOK, PoolRecords, CellsType, TypeOK, PoolType, Results
<1>. QED
  BY <1>1, Invariance, PTL

(* The in_use flags agree with the pool of clients.                        *)
THEOREM FlagsAgree == Spec => []InUseExact
<1>1. IndInv => InUseExact
  BY DEF IndInv
<1>. QED
  BY <1>1, Invariance, PTL

(* Whoever is handed a client id starts without files.                     *)
THEOREM ClientsStartEmpty == Spec => []NoFilesWithoutClient
<1>1. IndInv => NoFilesWithoutClient
  BY DEF IndInv
<1>. QED
  BY <1>1, Invariance, PTL

(* Whoever is handed a file id does not find another file's context.       *)
THEOREM FilesStartBare == Spec => []NoOrphanContext
<1>1. IndInv => NoOrphanContext
  BY DEF IndInv
<1>. QED
  BY <1>1, Invariance, PTL

-----------------------------------------------------------------------------
(* What callers are promised.                                              *)

(* The cells of one client are all in the region, or all outside it.       *)
LEMMA KeptCells ==
  ASSUME NEW c \in Clients, NEW f \in Files
  PROVE  c \in Kept <=> Cell(c, f) \in Region
<1>1. /\ MaxFiles \in Nat \ {0} /\ c \in Nat
      /\ \A g \in Files : g \in Nat /\ g < MaxFiles
  BY Config DEF Clients, Files
<1>2. CASE c = 0
  <2>1. \A g \in Files : Cell(c, g) = g
    BY <1>1, <1>2 DEF Cell
  <2>2. \A g \in Files : Cell(c, g) \in Region
    BY <2>1 DEF Files, Region
  <2>. QED
    BY <2>2 DEF Kept
<1>3. CASE c # 0
  <2>1. c * MaxFiles >= MaxFiles
    BY <1>1, <1>3
  <2>2. c * MaxFiles \in Int
    BY <1>1
  <2>. DEFINE start == c * MaxFiles
  <2>. HIDE DEF start
  <2>3. \A g \in Files : start + g >= MaxFiles
    BY <1>1, <2>1, <2>2 DEF start
  <2>4. \A g \in Files : Cell(c, g) \notin Region
    BY <1>1, <2>2, <2>3 DEF Cell, Region, start
  <2>. QED
    BY <2>4 DEF Kept
<1>. QED
  BY <1>2, <1>3

(* What is written to a cell is seen on its file, if it is kept, and on no *)
(* other.                                                                  *)
LEMMA StoreSeen ==
  ASSUME NEW field, NEW client \in Clients, NEW file \in Files, NEW value
  PROVE  InRows(Store(field, client, file, value))
           = Registry!Put(InRows(field), client, file, value)
<1>. DEFINE after == Store(field, client, file, value)
            seen  == Registry!Put(InRows(field), client, file, value)
<1>1. ASSUME NEW c \in Kept, NEW f \in Files
      PROVE  after[Cell(c, f)] = IF c = client /\ f = file THEN value
                                 ELSE field[Cell(c, f)]
  <2>1. c \in Clients /\ Cell(c, f) \in Region
    BY KeptCells DEF Kept
  <2>2. Cell(c, f) = Cell(client, file) <=> c = client /\ f = file
    BY <2>1, CellOwner
  <2>. QED
    BY <2>1, <2>2 DEF Store
<1>2. ASSUME NEW c \in Kept
      PROVE  [f \in Files |-> after[Cell(c, f)]] = seen[c]
  <2>1. CASE c = client
    <3>1. seen[c] = [[f \in Files |-> field[Cell(c, f)]] EXCEPT ![file] = value]
      BY <2>1 DEF Registry!Put, InRows
    <3>. QED
      BY <1>1, <2>1, <3>1
  <2>2. CASE c # client
    <3>1. seen[c] = [f \in Files |-> field[Cell(c, f)]]
      BY <2>2 DEF Registry!Put, InRows
    <3>. QED
      BY <1>1, <2>2, <3>1
  <2>. QED
    BY <2>1, <2>2
<1>3. seen = [c \in Kept |-> seen[c]]
  BY DEF Registry!Put, InRows
<1>. HIDE DEF after, seen
<1>4. InRows(after) = [c \in Kept |-> [f \in Files |-> after[Cell(c, f)]]]
  BY DEF InRows
<1>5. InRows(after) = seen
  BY <1>2, <1>3, <1>4
<1>. QED
  BY <1>5 DEF after, seen

(* What a read finds in a cell is what callers see on its file.            *)
LEMMA ReadSeen ==
  ASSUME NEW client \in Clients, NEW file \in Files
  PROVE  /\ CtxSeen(client, file) = Registry!ContextOf(client, file)
         /\ SizeSeen(client, file) = Registry!SizeOf(client, file)
BY KeptCells DEF CtxSeen, SizeSeen, Registry!ContextOf, Registry!SizeOf, InRows

(* A call that leaves pools, flags and cells alone changes nothing but its *)
(* result.                                                                 *)
LEMMA SeenUnchanged ==
  /\ UNCHANGED <<in_use, files_id_pool>>
       => HeldClients' = HeldClients /\ OpenFiles' = OpenFiles
  /\ UNCHANGED file_size => InRows(file_size)' = InRows(file_size)
  /\ UNCHANGED ctx => InRows(ctx)' = InRows(ctx)
BY DEF HeldClients, OpenFiles, FileAllocated, InRows

(* A refusal that callers see as such.                                     *)
LEMMA RefusalSeen ==
  ASSUME NEW error, Refuse(error)
  PROVE  live /\ Registry!Answer(error)
BY SeenUnchanged DEF Refuse, pools, cells, Registry!Answer, Registry!registry

(* The state of the registry has its type.                                 *)
LEMMA SeenType ==
  ASSUME IndInv
  PROVE  /\ HeldClients \subseteq Clients
         /\ \A c \in Clients : c \in HeldClients <=> in_use[c]
         /\ \A c \in Clients : OpenFiles[c] = {f \in Files : FileAllocated(c, f)}
         /\ \A c \in Clients : c \notin HeldClients => OpenFiles[c] = {}
         /\ OpenFiles = [c \in Clients |-> OpenFiles[c]]
BY DEF HeldClients, OpenFiles, IndInv, NoFilesWithoutClient

(* Clients, files and ranges are the same on both sides.                   *)
LEMMA SameNames ==
  /\ Registry!Clients = Clients /\ Registry!Files = Files
  /\ \A c, f : Registry!InRange(c, f) <=> InRange(c, f)
BY DEF Registry!Clients, Registry!Files, Registry!InRange, InRange, Clients, Files

(* A client is handed out who was not held, or all of them are held.       *)
LEMMA AllocateSeen ==
  ASSUME IndInv, client_mngr_allocate
  PROVE  Registry!AddClient
<1>1. PoolOK(clients_id_pool, MaxClients, 0) /\ MaxClients \in Word \ {0} /\ 0 \in Word
  BY Config DEF IndInv, PoolsOK
<1>0. call' = <<"allocate">>
  BY DEF client_mngr_allocate
<1>2. CASE Exhausted(clients_id_pool) /\ Refuse("ENOENT")
  <2>1. \A c \in Clients : clients_id_pool.in_use[c]
    BY <1>1, <1>2, ExhaustedFull DEF Clients
  <2>2. HeldClients = Clients
    BY <2>1 DEF HeldClients, IndInv, InUseExact
  <2>. QED
    BY <1>2, <1>0, <2>2, RefusalSeen, SameNames DEF Registry!AddClient
<1>3. CASE /\ live
           /\ ~Exhausted(clients_id_pool)
           /\ clients_id_pool' = Allocated(clients_id_pool)
           /\ in_use' = [in_use EXCEPT ![TopId(clients_id_pool)] = TRUE]
           /\ rc' = "OK"
           /\ out' = TopId(clients_id_pool)
           /\ UNCHANGED <<live, files_id_pool, cells>>
  <2>. DEFINE client == TopId(clients_id_pool)
  <2>1. client \in Clients /\ ~clients_id_pool.in_use[client]
    BY <1>1, <1>3, Taken DEF Clients
  <2>2. client \in Clients \ HeldClients /\ OpenFiles[client] = {}
    BY <2>1, SeenType DEF IndInv, InUseExact
  <2>3. HeldClients' = HeldClients \cup {client}
    BY <1>3, <2>1 DEF HeldClients, IndInv
  <2>4. /\ OpenFiles' = OpenFiles
        /\ InRows(file_size)' = InRows(file_size) /\ InRows(ctx)' = InRows(ctx)
    BY <1>3 DEF OpenFiles, FileAllocated, InRows, cells
  <2>. QED
    BY <1>3, <1>0, <2>2, <2>3, <2>4, SameNames DEF Registry!AddClient
<1>. QED
  BY <1>2, <1>3 DEF client_mngr_allocate

(* A client is removed, kept because of its files, or was not held.        *)
LEMMA FreeSeen ==
  ASSUME IndInv, NEW client \in ClientIds, client_mngr_free(client)
  PROVE  Registry!RemoveClient(client)
<1>0. call' = <<"free", client>>
  BY DEF client_mngr_free
<1>1. CASE client \notin Clients /\ Refuse("EINVAL")
  BY <1>1, <1>0, RefusalSeen, SameNames DEF Registry!RemoveClient
<1>. SUFFICES ASSUME client \in Clients PROVE Registry!RemoveClient(client)
  BY <1>1 DEF client_mngr_free
<1>2. /\ PoolOK(clients_id_pool, MaxClients, 0) /\ MaxClients \in Word \ {0}
      /\ PoolOK(files_id_pool[client], MaxFiles, 0) /\ MaxFiles \in Word \ {0}
      /\ 0 \in Word
  BY Config DEF IndInv, PoolsOK
<1>3. CASE ~NoFilesLeft(client) /\ Refuse("EACCES")
  <2>1. OpenFiles[client] # {}
    <3>1. \E k \in Files : files_id_pool[client].in_use[k]
      BY <1>2, <1>3, CountNotZero DEF NoFilesLeft, Files
    <3>. QED
      BY <3>1, SeenType DEF FileAllocated
  <2>2. client \in HeldClients
    BY <2>1, SeenType
  <2>. QED
    BY <1>3, <1>0, <2>1, <2>2, RefusalSeen DEF Registry!RemoveClient
<1>4. CASE /\ live
           /\ NoFilesLeft(client)
           /\ in_use' = InUseCleared(client)
           /\ rc' = FreeResult(clients_id_pool, client)
           /\ out' = NULL
           /\ UNCHANGED <<live, files_id_pool, cells>>
  <2>1. rc' = IF in_use[client] THEN "OK" ELSE "EALREADY"
    BY <1>2, <1>4, Legal DEF Clients, IndInv, InUseExact
  <2>2. OpenFiles[client] = {}
    BY <1>2, <1>4, CountZero, SeenType DEF NoFilesLeft, FileAllocated, Files
  <2>3. HeldClients' = HeldClients \ {client}
    BY <1>4 DEF HeldClients, IndInv, InUseCleared
  <2>4. /\ OpenFiles' = OpenFiles
        /\ InRows(file_size)' = InRows(file_size) /\ InRows(ctx)' = InRows(ctx)
    BY <1>4 DEF OpenFiles, FileAllocated, InRows, cells
  <2>5. client \in HeldClients <=> in_use[client]
    BY SeenType
  <2>6. CASE in_use[client]
    BY <1>4, <1>0, <2>1, <2>2, <2>3, <2>4, <2>5, <2>6 DEF Registry!RemoveClient
  <2>7. CASE ~in_use[client]
    <3>1. HeldClients' = HeldClients
      BY <2>3, <2>5, <2>7
    <3>2. Registry!Answer("EALREADY")
      BY <1>4, <2>1, <2>4, <2>7, <3>1 DEF Registry!Answer, Registry!registry
    <3>. QED
      BY <1>4, <1>0, <2>5, <2>7, <3>2, SameNames DEF Registry!RemoveClient
  <2>. QED
    BY <2>6, <2>7
<1>. QED
  BY <1>1, <1>3, <1>4 DEF client_mngr_free

(* A file id is handed out that the client did not have, or it has all.    *)
LEMMA FileAllocateSeen ==
  ASSUME IndInv, NEW client \in ClientIds, NEW size \in FileSizes, Known(client),
         client_mngr_file_allocate(client, size)
  PROVE  Registry!AddFile(client, size)
<1>0. call' = <<"file_allocate", client, size>>
  BY DEF client_mngr_file_allocate
<1>1. CASE client \notin Clients /\ Refuse("EINVAL")
  BY <1>1, <1>0, RefusalSeen, SameNames DEF Registry!AddFile
<1>. SUFFICES ASSUME client \in Clients PROVE Registry!AddFile(client, size)
  BY <1>1 DEF client_mngr_file_allocate
<1>2. /\ PoolOK(files_id_pool[client], MaxFiles, 0) /\ MaxFiles \in Word \ {0}
      /\ 0 \in Word
  BY Config DEF IndInv, PoolsOK
<1>3. CASE Exhausted(files_id_pool[client]) /\ Refuse("ENOENT")
  <2>1. OpenFiles[client] = Files
    BY <1>2, <1>3, ExhaustedFull, SeenType DEF FileAllocated, Files
  <2>. QED
    BY <1>3, <1>0, <2>1, RefusalSeen, SameNames DEF Registry!AddFile
<1>4. CASE /\ live
           /\ ~Exhausted(files_id_pool[client])
           /\ file_size' = Store(file_size, client, TopId(files_id_pool[client]), size)
           /\ ctx' = Store(ctx, client, TopId(files_id_pool[client]), NULL)
           /\ out' = TopId(files_id_pool[client])
           /\ files_id_pool' = [files_id_pool EXCEPT ![client] = Allocated(@)]
           /\ rc' = "OK"
           /\ UNCHANGED <<live, clients_id_pool, in_use>>
  <2>. DEFINE p    == files_id_pool[client]
              file == TopId(p)
  <2>1. /\ file \in Files /\ ~p.in_use[file]
        /\ \A f \in Files : Allocated(p).in_use[f] <=> p.in_use[f] \/ f = file
    <3>1. PoolOK(p, MaxFiles, 0) /\ ~Exhausted(p)
      BY <1>2, <1>4
    <3>2. /\ TopId(p) \in 0 .. MaxFiles - 1 /\ ~p.in_use[TopId(p)]
          /\ \A k \in 0 .. MaxFiles - 1 :
               Allocated(p).in_use[k] = IF k = TopId(p) THEN TRUE ELSE p.in_use[k]
      BY ONLY <1>2, <3>1, Taken
    <3>. QED
      BY <3>2 DEF Files
  <2>2. files_id_pool' = [c \in Clients |-> IF c = client THEN Allocated(p)
                                            ELSE files_id_pool[c]]
    BY <1>4 DEF IndInv, PoolsOK
  <2>3. \A c \in Clients : files_id_pool'[c] = IF c = client THEN Allocated(p)
                                               ELSE files_id_pool[c]
    BY <2>2
  <2>4. OpenFiles[client] = {f \in Files : p.in_use[f]}
    BY SeenType DEF FileAllocated
  <2>. HIDE DEF p, file
  <2>5. OpenFiles' = [OpenFiles EXCEPT ![client] = @ \cup {file}]
    <3>1. {f \in Files : Allocated(p).in_use[f]} = OpenFiles[client] \cup {file}
      BY <2>1, <2>4
    <3>2. ASSUME NEW c \in Clients
          PROVE  {f \in Files : files_id_pool'[c].in_use[f]}
                   = IF c = client THEN OpenFiles[client] \cup {file} ELSE OpenFiles[c]
      <4>1. CASE c = client
        BY <2>3, <3>1, <4>1
      <4>2. CASE c # client
        BY <2>3, <4>2, SeenType DEF FileAllocated
      <4>. QED
        BY <4>1, <4>2
    <3>3. OpenFiles' = [c \in Clients |-> {f \in Files : files_id_pool'[c].in_use[f]}]
      BY DEF OpenFiles, FileAllocated
    <3>. QED
      BY <3>2, <3>3, SeenType
  <2>6. file \in Files \ OpenFiles[client]
    BY <2>1, <2>4
  <2>7. HeldClients' = HeldClients
    BY <1>4 DEF HeldClients
  <2>8. /\ file_size' = Store(file_size, client, file, size)
        /\ ctx' = Store(ctx, client, file, NULL) /\ out' = file
    BY <1>4 DEF file, p
  <2>9. /\ InRows(file_size)' = InRows(file_size')
        /\ InRows(ctx)' = InRows(ctx')
    BY DEF InRows
  <2>10. /\ InRows(file_size)' = Registry!Put(InRows(file_size), client, file, size)
         /\ InRows(ctx)' = Registry!Put(InRows(ctx), client, file, NULL)
    BY <2>1, <2>8, <2>9, StoreSeen
  <2>. QED
    BY <1>4, <1>0, <2>5, <2>6, <2>7, <2>8, <2>10, SameNames DEF Registry!AddFile
<1>. QED
  BY <1>3, <1>4 DEF client_mngr_file_allocate

(* A file is removed, kept because of a context, or was not there.         *)
LEMMA FileFreeSeen ==
  ASSUME IndInv, NEW client \in ClientIds, NEW file \in FileIds, Known(client),
         client_mngr_file_free(client, file)
  PROVE  Registry!RemoveFile(client, file)
<1>0. call' = <<"file_free", client, file>>
  BY DEF client_mngr_file_free
<1>1. CASE ~InRange(client, file) /\ Refuse("EINVAL")
  BY <1>1, <1>0, RefusalSeen, SameNames DEF Registry!RemoveFile
<1>. SUFFICES ASSUME client \in Clients, file \in Files
              PROVE  Registry!RemoveFile(client, file)
  BY <1>1 DEF client_mngr_file_free, InRange
<1>2. /\ PoolOK(files_id_pool[client], MaxFiles, 0) /\ MaxFiles \in Word \ {0}
      /\ Registry!InRange(client, file)
      /\ CtxSeen(client, file) = Registry!ContextOf(client, file)
  BY Config, SameNames, ReadSeen DEF IndInv, PoolsOK, InRange
<1>3. CASE CtxSeen(client, file) # {NULL} /\ Refuse("EPERM")
  BY <1>2, <1>3, <1>0, RefusalSeen DEF Registry!RemoveFile
<1>4. CASE /\ live
           /\ NULL \in CtxSeen(client, file)
           /\ file_size' = Store(file_size, client, file, 0)
           /\ rc' = FreeResult(files_id_pool[client], file)
           /\ out' = NULL
           /\ files_id_pool' = IF rc' = "OK"
                               THEN [files_id_pool EXCEPT ![client] = Freed(@, file)]
                               ELSE files_id_pool
           /\ UNCHANGED <<live, clients_id_pool, in_use, ctx>>
  <2>. DEFINE p == files_id_pool[client]
  <2>1. rc' = IF p.in_use[file] THEN "OK" ELSE "EALREADY"
    BY <1>2, <1>4, Legal DEF Files
  <2>2. OpenFiles[client] = {f \in Files : p.in_use[f]}
    BY SeenType DEF FileAllocated
  <2>3. HeldClients' = HeldClients /\ InRows(ctx)' = InRows(ctx)
    BY <1>4 DEF HeldClients, InRows
  <2>4. CASE ~p.in_use[file]
    <3>1. rc' = "EALREADY" /\ files_id_pool' = files_id_pool
      BY <1>4, <2>1, <2>4
    <3>2. file_size' = file_size
      <4>1. Cell(client, file) \in Region => file_size[Cell(client, file)] = 0
        BY <2>4 DEF IndInv, NoOrphanSize, FileAllocated
      <4>2. file_size = [n \in Region |-> file_size[n]]
        BY DEF IndInv, CellsType
      <4>. QED
        BY <1>4, <4>1, <4>2 DEF Store
    <3>3. Registry!Answer("EALREADY")
      BY <1>4, <3>1, <3>2, SeenUnchanged DEF Registry!Answer, Registry!registry
    <3>4. file \notin OpenFiles[client]
      BY <2>2, <2>4
    <3>. QED
      BY <1>2, <1>4, <1>0, <3>3, <3>4 DEF Registry!RemoveFile
  <2>5. CASE p.in_use[file]
    <3>1. /\ rc' = "OK"
          /\ files_id_pool' = [files_id_pool EXCEPT ![client] = Freed(p, file)]
      BY <1>4, <2>1, <2>5
    <3>2. \A f \in Files : Freed(p, file).in_use[f] <=> p.in_use[f] /\ f # file
      <4>1. PoolOK(p, MaxFiles, 0) /\ file \in 0 .. MaxFiles - 1 /\ FreeResult(p, file) = "OK"
        BY <1>2, <1>4, <3>1 DEF Files
      <4>. HIDE DEF p
      <4>2. \A f \in 0 .. MaxFiles - 1 :
              Freed(p, file).in_use[f] <=> p.in_use[f] /\ f # file
        BY ONLY <1>2, <4>1, GivenBack
      <4>. QED
        BY <4>2 DEF Files
    <3>3. \A c \in Clients : files_id_pool'[c] = IF c = client THEN Freed(p, file)
                                                 ELSE files_id_pool[c]
      BY <3>1 DEF IndInv, PoolsOK
    <3>. HIDE DEF p
    <3>4. {f \in Files : Freed(p, file).in_use[f]} = OpenFiles[client] \ {file}
      BY <2>2, <3>2
    <3>5. ASSUME NEW c \in Clients
          PROVE  {f \in Files : files_id_pool'[c].in_use[f]}
                   = IF c = client THEN OpenFiles[client] \ {file} ELSE OpenFiles[c]
      <4>1. CASE c = client
        BY <3>3, <3>4, <4>1
      <4>2. CASE c # client
        BY <3>3, <4>2, SeenType DEF FileAllocated
      <4>. QED
        BY <4>1, <4>2
    <3>6. OpenFiles' = [c \in Clients |-> {f \in Files : files_id_pool'[c].in_use[f]}]
      BY DEF OpenFiles, FileAllocated
    <3>7. OpenFiles' = [OpenFiles EXCEPT ![client] = @ \ {file}]
      BY <3>5, <3>6, SeenType
    <3>8. file \in OpenFiles[client]
      BY <2>2, <2>5
    <3>9. InRows(file_size)' = Registry!Put(InRows(file_size), client, file, 0)
      <4>1. InRows(file_size)' = InRows(file_size')
        BY DEF InRows
      <4>. QED
        BY <1>4, <4>1, StoreSeen
    <3>. QED
      BY <1>2, <1>4, <1>0, <2>3, <3>1, <3>7, <3>8, <3>9 DEF Registry!RemoveFile
  <2>. QED
    BY <2>4, <2>5
<1>. QED
  BY <1>3, <1>4 DEF client_mngr_file_free, InRange

(* A context is attached to a file that the client has.                    *)
LEMMA SetCtxSeen ==
  ASSUME IndInv, NEW client \in ClientIds, NEW file \in FileIds,
         NEW value \in Contexts \cup {NULL},
         client_mngr_file_set_ctx(client, file, value)
  PROVE  Registry!SetContext(client, file, value)
<1>1. call' = <<"file_set_ctx", client, file, value>>
  BY DEF client_mngr_file_set_ctx
<1>2. CASE ~InRange(client, file) /\ Refuse("EINVAL")
  BY <1>1, <1>2, RefusalSeen, SameNames DEF Registry!SetContext
<1>3. CASE /\ live
           /\ InRange(client, file)
           /\ FileAllocated(client, file)
           /\ ctx' = Store(ctx, client, file, value)
           /\ rc' = "OK"
           /\ out' = NULL
           /\ UNCHANGED <<live, pools, file_size>>
  <2>1. client \in Clients /\ file \in Files /\ Registry!InRange(client, file)
    BY <1>3, SameNames DEF InRange
  <2>2. file \in OpenFiles[client]
    BY <1>3, <2>1, SeenType
  <2>3. InRows(ctx)' = Registry!Put(InRows(ctx), client, file, value)
    <3>1. InRows(ctx)' = InRows(ctx')
      BY DEF InRows
    <3>. QED
      BY <1>3, <2>1, <3>1, StoreSeen
  <2>4. /\ HeldClients' = HeldClients /\ OpenFiles' = OpenFiles
        /\ InRows(file_size)' = InRows(file_size)
    BY <1>3, SeenUnchanged DEF pools
  <2>. QED
    BY <1>1, <1>3, <2>1, <2>2, <2>3, <2>4 DEF Registry!SetContext
<1>. QED
  BY <1>2, <1>3 DEF client_mngr_file_set_ctx

(* A context or a size that is read is what callers see on the file.       *)
LEMMA GetSeen ==
  ASSUME NEW client \in ClientIds, NEW file \in FileIds
  PROVE  /\ client_mngr_file_get_ctx(client, file)
              => Registry!GetContext(client, file)
         /\ client_mngr_file_get_size(client, file) => Registry!GetSize(client, file)
<1>1. ASSUME InRange(client, file)
      PROVE  /\ CtxSeen(client, file) = Registry!ContextOf(client, file)
             /\ SizeSeen(client, file) = Registry!SizeOf(client, file)
  BY <1>1, ReadSeen DEF InRange
<1>2. UNCHANGED <<live, pools, cells>> => UNCHANGED Registry!registry
  BY SeenUnchanged DEF pools, cells, Registry!registry
<1>3. client_mngr_file_get_ctx(client, file) => Registry!GetContext(client, file)
  BY <1>1, <1>2, SameNames DEF client_mngr_file_get_ctx, Registry!GetContext
<1>4. client_mngr_file_get_size(client, file) => Registry!GetSize(client, file)
  BY <1>1, <1>2, SameNames, RefusalSeen
  DEF client_mngr_file_get_size, Registry!GetSize
<1>. QED
  BY <1>3, <1>4

(* A manager is created empty, refused, or runs out of memory.             *)
LEMMA CreateSeen ==
  ASSUME NEW clients, NEW files, client_mngr_create(clients, files)
  PROVE  Registry!Create(clients, files)
<1>1. /\ HeldClients' = HeldClients /\ OpenFiles' = OpenFiles
      /\ InRows(file_size)' = InRows(file_size) /\ InRows(ctx)' = InRows(ctx)
  BY SeenUnchanged DEF client_mngr_create, pools, cells
<1>. QED
  BY <1>1 DEF client_mngr_create, Registry!Create, Registry!Answer, Registry!registry

(* A new manager looks empty.                                              *)
LEMMA NewSeen ==
  ASSUME New
  PROVE  /\ HeldClients = {} /\ OpenFiles = Registry!NoFiles
         /\ InRows(file_size) = Registry!All(0) /\ InRows(ctx) = Registry!All(NULL)
<1>1. HeldClients = {} /\ OpenFiles = Registry!NoFiles
  BY SameNames DEF New, Registry!NoFiles, HeldClients, OpenFiles, NoClients, NewPools,
     NewPool, FileAllocated, Files
<1>2. \A c \in Kept, f \in Files : Cell(c, f) \in Region
  BY DEF Kept
<1>. QED
  BY <1>1, <1>2, SameNames DEF New, NewSizes, NewCtx, InRows, Registry!All

(* Destruction leaves a manager that looks empty.                          *)
LEMMA DestroySeen ==
  ASSUME client_mngr_destroy
  PROVE  Registry!Destroy
<1>1. New'
  BY DEF client_mngr_destroy, New, NoClients, NewPools, NewSizes, NewCtx, Clients,
     Region
<1>2. (/\ HeldClients = {} /\ OpenFiles = Registry!NoFiles
       /\ InRows(file_size) = Registry!All(0) /\ InRows(ctx) = Registry!All(NULL))'
  BY <1>1, NewSeen, PTL
<1>. QED
  BY <1>2 DEF client_mngr_destroy, Registry!Destroy, Registry!NoFiles, Registry!All

(* Calls of the registry that name a client that is held, or none.         *)
LEMMA Named ==
  ASSUME IndInv, NEW client \in ClientIds, Known(client)
  PROVE  client \in HeldClients \cup {MaxClients}
BY Config, SeenType DEF Known, ClientIds, Clients

(* The client manager implements module ClientRegistry: each call is       *)
(* answered for the client and the file it names.                          *)
THEOREM RegistryImplemented == Spec => ImplementsRegistry
<1>1. Init => Registry!Init
  <2>1. Init => New /\ live = FALSE /\ rc = "OK" /\ call = <<"none">> /\ out = NULL
    BY DEF Init, New
  <2>. QED
    BY <2>1, NewSeen DEF Registry!Init
<1>2. IndInv /\ [Next]_vars => [Registry!Next]_(Registry!vars)
  <2>. SUFFICES ASSUME IndInv, [Next]_vars
                PROVE  Registry!Next \/ UNCHANGED Registry!vars
    OBVIOUS
  <2>1. CASE UNCHANGED vars
    BY <2>1, SeenUnchanged DEF vars, pools, cells, Registry!vars, Registry!registry
  <2>2. ASSUME NEW clients \in {0, MaxClients}, NEW files \in {0, MaxFiles},
               client_mngr_create(clients, files)
        PROVE  Registry!Next
    BY <2>2, CreateSeen DEF Registry!Next
  <2>3. CASE client_mngr_destroy
    BY <2>3, DestroySeen DEF Registry!Next
  <2>4. CASE client_mngr_allocate
    BY <2>4, AllocateSeen DEF Registry!Next
  <2>5. ASSUME NEW client \in ClientIds, client_mngr_free(client)
        PROVE  Registry!Next
    BY <2>5, FreeSeen DEF Registry!Next, ClientIds
  <2>6. ASSUME NEW client \in ClientIds, Known(client), NEW size \in FileSizes,
               client_mngr_file_allocate(client, size)
        PROVE  Registry!Next
    BY <2>6, Named, FileAllocateSeen DEF Registry!Next
  <2>7. ASSUME NEW client \in ClientIds, Known(client), NEW file \in FileIds,
               client_mngr_file_free(client, file)
        PROVE  Registry!Next
    BY <2>7, Named, FileFreeSeen DEF Registry!Next, FileIds
  <2>8. ASSUME NEW client \in ClientIds, Known(client), NEW file \in FileIds,
               NEW value \in Contexts \cup {NULL},
               client_mngr_file_set_ctx(client, file, value)
        PROVE  Registry!Next
    BY <2>8, Named, SetCtxSeen DEF Registry!Next, FileIds
  <2>9. ASSUME NEW client \in ClientIds, Known(client), NEW file \in FileIds,
               client_mngr_file_get_ctx(client, file)
               \/ client_mngr_file_get_size(client, file)
        PROVE  Registry!Next
    BY <2>9, Named, GetSeen DEF Registry!Next, FileIds
  <2>. QED
    BY <2>1, <2>2, <2>3, <2>4, <2>5, <2>6, <2>7, <2>8, <2>9 DEF Next
<1>. QED
  BY <1>1, <1>2, Invariance, PTL DEF Spec, ImplementsRegistry, Registry!Spec

=============================================================================
