---------------------------- MODULE ClientManager ---------------------------
(***************************************************************************)
(* The client manager of CLIENTS_MANAGER/src/client_mngr.c: an id pool for *)
(* the clients and, per client, an id pool for its files and a row of      *)
(* file_data cells.  The pools are those of INFRA/src/id_pool.c.           *)
(*                                                                         *)
(* The cells of client c start at c * max_files in a region that           *)
(* client_mngr_create allocates with files_capacity cells, which is enough *)
(* for one client.  What a cell outside the region holds is up to whatever *)
(* lies there: a read finds any value and a write is not kept.             *)
(***************************************************************************)
EXTENDS IdPoolData, FiniteSets

CONSTANTS
  MaxClients, MaxFiles,  \* the configuration
  FileSizes,             \* the sizes of files
  Contexts,              \* the contexts callers attach to files
  NULL                   \* the null pointer

Clients == 0 .. MaxClients - 1
Files   == 0 .. MaxFiles - 1

ASSUME ConfigAssumption ==
  /\ MaxClients \in Word \ {0}
  /\ MaxFiles \in Word \ {0}
  /\ FileSizes \subseteq Nat
  /\ NULL \notin Contexts

VARIABLES
  live,              \* the manager exists
  clients_id_pool,
  in_use,            \* per client: clients_data[client].in_use
  files_id_pool,     \* per client: clients_data[client].files_id_pool
  file_size, ctx,    \* per cell of the region: the fields of file_data
  call,              \* the last call: its name and its arguments
  rc,                \* the result of the last call
  out                \* what it has handed out: an id, a context, a size, or NULL

vars == <<live, clients_id_pool, in_use, files_id_pool, file_size, ctx,
          call, rc, out>>
pools == <<clients_id_pool, in_use, files_id_pool>>
cells == <<file_size, ctx>>

(* The cells client_mngr_create allocates.                                 *)
Region == 0 .. MaxFiles - 1

(* get_file_data.                                                          *)
Cell(client, file) == client * MaxFiles + file

(* Variant: the context of a file is not looked at.                        *)
CtxIgnored(client, file) == {NULL}

(* The values a read of ctx, or of file_size, can find.                    *)
CtxSeen(client, file) ==
  IF Cell(client, file) \in Region THEN {ctx[Cell(client, file)]}
  ELSE Contexts \cup {NULL}

SizeSeen(client, file) ==
  IF Cell(client, file) \in Region THEN {file_size[Cell(client, file)]}
  ELSE FileSizes \cup {0}

Store(field, client, file, value) ==
  [n \in Region |-> IF n = Cell(client, file) THEN value ELSE field[n]]

FileAllocated(client, file) == files_id_pool[client].in_use[file]

-----------------------------------------------------------------------------
(* Creation and destruction.                                               *)

NoClients == [c \in Clients |-> FALSE]
NewPools  == [c \in Clients |-> NewPool(MaxFiles, 0)]
NewSizes  == [n \in Region |-> 0]
NewCtx    == [n \in Region |-> NULL]

Init ==
  /\ live = FALSE
  /\ clients_id_pool = NewPool(MaxClients, 0)
  /\ in_use = NoClients
  /\ files_id_pool = NewPools
  /\ file_size = NewSizes
  /\ ctx = NewCtx
  /\ call = <<"none">>
  /\ rc = "OK"
  /\ out = NULL

(* A capacity of zero is refused by id_pool_create.  If the manager or one *)
(* of the pools cannot be allocated, whatever was created is released.     *)
client_mngr_create(clients, files) ==
  /\ ~live
  /\ call' = <<"create", clients, files>>
  /\ \/ /\ clients # 0 /\ files # 0
        /\ live' = TRUE
        /\ rc' = "OK"
     \/ /\ rc' \in IF clients = 0 \/ files = 0 THEN {"EINVAL", "ENOMEM"}
                   ELSE {"ENOMEM"}
        /\ UNCHANGED live
  /\ out' = NULL
  /\ UNCHANGED <<pools, cells>>

(* Everything is released, whatever the clients still have.                *)
client_mngr_destroy ==
  /\ live
  /\ call' = <<"destroy">>
  /\ live' = FALSE
  /\ clients_id_pool' = NewPool(MaxClients, 0)
  /\ in_use' = NoClients
  /\ files_id_pool' = NewPools
  /\ file_size' = NewSizes
  /\ ctx' = NewCtx
  /\ rc' = "OK"
  /\ out' = NULL

-----------------------------------------------------------------------------
(* Clients.                                                                *)

(* A call that returns an error before it has changed anything.            *)
Refuse(error) ==
  /\ live
  /\ rc' = error
  /\ out' = NULL
  /\ UNCHANGED <<live, pools, cells>>

client_mngr_allocate ==
  /\ call' = <<"allocate">>
  /\ \/ Exhausted(clients_id_pool) /\ Refuse("ENOENT")
     \/ /\ live
        /\ ~Exhausted(clients_id_pool)
        /\ clients_id_pool' = Allocated(clients_id_pool)
        /\ in_use' = [in_use EXCEPT ![TopId(clients_id_pool)] = TRUE]
        /\ rc' = "OK"
        /\ out' = TopId(clients_id_pool)
        /\ UNCHANGED <<live, files_id_pool, cells>>

(* Variant: the files of the client are not counted.                       *)
FilesNotCounted(client) == TRUE

(* A count that is refused counts as files left.                           *)
NoFilesLeft(client) ==
  /\ CountResult(files_id_pool[client]) = "OK"
  /\ UsedCount(files_id_pool[client]) = 0

(* Variant: the flag of the client is left set.                            *)
InUseKept(client) == in_use

InUseCleared(client) == [in_use EXCEPT ![client] = FALSE]

(* The flag is cleared before the pool has accepted the id.                *)
client_mngr_free(client) ==
  /\ call' = <<"free", client>>
  /\ \/ client \notin Clients /\ Refuse("EINVAL")
     \/ client \in Clients /\ ~NoFilesLeft(client) /\ Refuse("EACCES")
     \/ /\ live
        /\ client \in Clients
        /\ NoFilesLeft(client)
        /\ in_use' = InUseCleared(client)
        /\ rc' = FreeResult(clients_id_pool, client)
        /\ clients_id_pool' = IF rc' = "OK" THEN Freed(clients_id_pool, client)
                              ELSE clients_id_pool
        /\ out' = NULL
        /\ UNCHANGED <<live, files_id_pool, cells>>

-----------------------------------------------------------------------------
(* Files.  Callers name clients they have allocated, or ids out of range.  *)

Known(client) == client \in Clients => in_use[client]

client_mngr_file_allocate(client, size) ==
  /\ call' = <<"file_allocate", client, size>>
  /\ \/ client \notin Clients /\ Refuse("EINVAL")
     \/ client \in Clients /\ Exhausted(files_id_pool[client]) /\ Refuse("ENOENT")
     \/ /\ live
        /\ client \in Clients
        /\ ~Exhausted(files_id_pool[client])
        /\ LET file == TopId(files_id_pool[client]) IN
             /\ file_size' = Store(file_size, client, file, size)
             /\ ctx' = Store(ctx, client, file, NULL)
             /\ out' = file
        /\ files_id_pool' = [files_id_pool EXCEPT ![client] = Allocated(@)]
        /\ rc' = "OK"
        /\ UNCHANGED <<live, clients_id_pool, in_use>>

(* The ids name a file; the checks at the head of the calls below.         *)
InRange(client, file) == client \in Clients /\ file \in Files

(* A file that still has a context is kept.  The size is cleared before    *)
(* the pool has accepted the id.                                           *)
client_mngr_file_free(client, file) ==
  /\ call' = <<"file_free", client, file>>
  /\ \/ ~InRange(client, file) /\ Refuse("EINVAL")
     \/ /\ InRange(client, file)
        /\ CtxSeen(client, file) # {NULL}
        /\ Refuse("EPERM")
     \/ /\ live
        /\ InRange(client, file)
        /\ NULL \in CtxSeen(client, file)
        /\ file_size' = Store(file_size, client, file, 0)
        /\ rc' = FreeResult(files_id_pool[client], file)
        /\ files_id_pool' = IF rc' = "OK"
                            THEN [files_id_pool EXCEPT ![client] = Freed(@, file)]
                            ELSE files_id_pool
        /\ out' = NULL
        /\ UNCHANGED <<live, clients_id_pool, in_use, ctx>>

(* Callers attach a context to a file they have allocated, and detach it.  *)
client_mngr_file_set_ctx(client, file, value) ==
  /\ call' = <<"file_set_ctx", client, file, value>>
  /\ \/ ~InRange(client, file) /\ Refuse("EINVAL")
     \/ /\ live
        /\ InRange(client, file)
        /\ FileAllocated(client, file)
        /\ ctx' = Store(ctx, client, file, value)
        /\ rc' = "OK"
        /\ out' = NULL
        /\ UNCHANGED <<live, pools, file_size>>

client_mngr_file_get_ctx(client, file) ==
  /\ live
  /\ call' = <<"file_get_ctx", client, file>>
  /\ out' \in IF InRange(client, file) THEN CtxSeen(client, file) ELSE {NULL}
  /\ rc' = IF out' = NULL THEN "EINVAL" ELSE "OK"
  /\ UNCHANGED <<live, pools, cells>>

client_mngr_file_get_size(client, file) ==
  /\ call' = <<"file_get_size", client, file>>
  /\ \/ ~InRange(client, file) /\ Refuse("EINVAL")
     \/ /\ live
        /\ InRange(client, file)
        /\ out' \in SizeSeen(client, file)
        /\ rc' = "OK"
        /\ UNCHANGED <<live, pools, cells>>

-----------------------------------------------------------------------------

ClientIds == 0 .. MaxClients   \* one id too many each
FileIds   == 0 .. MaxFiles

Next ==
  \/ \E clients \in {0, MaxClients}, files \in {0, MaxFiles} :
       client_mngr_create(clients, files)
  \/ client_mngr_destroy
  \/ client_mngr_allocate
  \/ \E client \in ClientIds :
       \/ client_mngr_free(client)
       \/ /\ Known(client)
          /\ \/ \E size \in FileSizes : client_mngr_file_allocate(client, size)
             \/ \E file \in FileIds :
                  \/ client_mngr_file_free(client, file)
                  \/ \E value \in Contexts \cup {NULL} :
                       client_mngr_file_set_ctx(client, file, value)
                  \/ client_mngr_file_get_ctx(client, file)
                  \/ client_mngr_file_get_size(client, file)

Spec == Init /\ [][Next]_vars

-----------------------------------------------------------------------------
(* Properties.                                                             *)

PoolType(capacity) ==
  [capacity : {capacity}, id_start_offset : {0}, top : 0 .. capacity,
   free_ids : [0 .. capacity - 1 -> Word], in_use : [0 .. capacity - 1 -> BOOLEAN]]

(* The pools, flags and cells have the shape of the structs of             *)
(* client_mngr.c; an index never leaves its array.                         *)
TypeOK ==
  /\ live \in BOOLEAN
  /\ clients_id_pool \in PoolType(MaxClients)
  /\ in_use \in [Clients -> BOOLEAN]
  /\ \A c \in Clients : files_id_pool[c] \in PoolType(MaxFiles)
  /\ file_size \in [Region -> FileSizes \cup {0}]
  /\ ctx \in [Region -> Contexts \cup {NULL}]
  /\ rc \in {"OK", "EINVAL", "ENOMEM", "ENOENT", "EACCES", "EPERM",
             "ESPIPE", "EALREADY"}

(* The in_use flag of a client, which client_mngr_free clears before the   *)
(* pool has had a chance to refuse the id, agrees with the pool.           *)
InUseExact == \A c \in Clients : in_use[c] <=> clients_id_pool.in_use[c]

(* A client that is handed out starts without files: none is left over     *)
(* from the client that had the id before.                                 *)
NoFilesWithoutClient ==
  \A c \in Clients : ~in_use[c] => \A f \in Files : ~FileAllocated(c, f)

(* A context is never left on a file id that is free: the holder of the    *)
(* file would be gone, and the next client_mngr_file_allocate to take the  *)
(* id would set the pointer to NULL, the last trace of what it points to.  *)
(* Said of the files whose cell lies in the region.                        *)
NoOrphanContext ==
  \A c \in Clients, f \in Files :
    /\ Cell(c, f) \in Region
    /\ ctx[Cell(c, f)] # NULL
    => FileAllocated(c, f)

(* Nothing is said of the size of a file that nobody has allocated: the 0  *)
(* that client_mngr_file_free writes there before the pool refuses the id  *)
(* overwrites nothing.                                                     *)
NoOrphanSize ==
  \A c \in Clients, f \in Files :
    Cell(c, f) \in Region /\ ~FileAllocated(c, f) => file_size[Cell(c, f)] = 0

(* What callers see of the manager.  Kept are the clients whose cells lie  *)
(* in the region, and keep what is written to them.                        *)
HeldClients == {c \in Clients : in_use[c]}
OpenFiles   == [c \in Clients |-> {f \in Files : FileAllocated(c, f)}]
Kept        == {c \in Clients : \A f \in Files : Cell(c, f) \in Region}

InRows(field) == [c \in Kept |-> [f \in Files |-> field[Cell(c, f)]]]

Registry == INSTANCE ClientRegistry WITH
  clients  <- HeldClients,
  files    <- OpenFiles,
  sizes    <- InRows(file_size),
  contexts <- InRows(ctx)

(* Callers cannot tell the client manager from a set of clients with a set *)
(* of files each, although flags, counts and stacks are changed one after  *)
(* the other and a call may be refused in between.  Each call is answered  *)
(* for the client and the file it names: ids are handed out to one caller  *)
(* at a time, -ENOENT means that all are taken, -EACCES that this client   *)
(* has files, -EALREADY that nobody holds this id, and -EPERM that this    *)
(* file has a context, if its cell is kept; a size or context that is read *)
(* is the one last set.                                                    *)
ImplementsRegistry == Registry!Spec

(* The file_data of every file lies in the region allocated for it, as the *)
(* comment "Set files_data pointers to pre-allocated region" says.         *)
CellsInRegion ==
  \A c \in Clients, f \in Files : FileAllocated(c, f) => Cell(c, f) \in Region

=============================================================================
