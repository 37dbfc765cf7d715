--------------------------- MODULE ClientRegistry ---------------------------
(***************************************************************************)
(* What a caller of the client manager is promised, without pools, stacks  *)
(* or flags: a set of clients and, for each of them, a set of files with a *)
(* size and a context.  Each call is here with its arguments, and is       *)
(* answered for the client and the file it names.                          *)
(***************************************************************************)
EXTENDS Integers

CONSTANTS
  MaxClients, MaxFiles,  \* how many there can be
  FileSizes, Contexts,   \* the sizes and contexts of files
  Kept,                  \* the clients whose files' sizes and contexts are kept
  NULL                   \* no context; nothing handed out

Clients == 0 .. MaxClients - 1
Files   == 0 .. MaxFiles - 1

VARIABLES
  live,      \* the manager exists
  clients,   \* the clients that callers hold
  files,     \* per client: the files it has
  sizes,     \* per file of the clients in Kept
  contexts,  \* per file of the clients in Kept
  call,      \* the last call: its name and its arguments
  rc,        \* the result of the last call
  out        \* what it has handed out

registry == <<live, clients, files, sizes, contexts>>
vars == <<registry, call, rc, out>>

NoFiles == [c \in Clients |-> {}]
All(value) == [c \in Kept |-> [f \in Files |-> value]]

Init == /\ live = FALSE /\ clients = {} /\ files = NoFiles
        /\ sizes = All(0) /\ contexts = All(NULL)
        /\ call = <<"none">> /\ rc = "OK" /\ out = NULL

(* A call that changes nothing and hands out nothing.                      *)
Answer(result) == rc' = result /\ out' = NULL /\ UNCHANGED registry

Create(n, m) ==
  /\ ~live
  /\ call' = <<"create", n, m>>
  /\ \/ /\ n # 0 /\ m # 0
        /\ live' = TRUE
        /\ rc' = "OK" /\ out' = NULL
        /\ UNCHANGED <<clients, files, sizes, contexts>>
     \/ (n = 0 \/ m = 0) /\ Answer("EINVAL")
     \/ Answer("ENOMEM")

Destroy == /\ live
           /\ call' = <<"destroy">>
           /\ live' = FALSE
           /\ clients' = {} /\ files' = NoFiles
           /\ sizes' = All(0) /\ contexts' = All(NULL)
           /\ rc' = "OK" /\ out' = NULL

-----------------------------------------------------------------------------

(* A new client has no files.                                              *)
AddClient ==
  /\ live
  /\ call' = <<"allocate">>
  /\ \/ clients = Clients /\ Answer("ENOENT")
     \/ /\ \E c \in Clients \ clients : /\ files[c] = {}
                                        /\ clients' = clients \cup {c}
                                        /\ out' = c
        /\ rc' = "OK"
        /\ UNCHANGED <<live, files, sizes, contexts>>

RemoveClient(c) ==
  /\ live
  /\ call' = <<"free", c>>
  /\ \/ c \notin Clients /\ Answer("EINVAL")
     \/ c \in Clients \ clients /\ Answer("EALREADY")
     \/ c \in clients /\ files[c] # {} /\ Answer("EACCES")
     \/ /\ c \in clients /\ files[c] = {}
        /\ clients' = clients \ {c}
        /\ rc' = "OK" /\ out' = NULL
        /\ UNCHANGED <<live, files, sizes, contexts>>

-----------------------------------------------------------------------------

Put(field, c, f, value) ==
  IF c \in Kept THEN [field EXCEPT ![c] = [@ EXCEPT ![f] = value]] ELSE field

(* The context, and the size, that a call may find on a file.              *)
ContextOf(c, f) == IF c \in Kept THEN {contexts[c][f]} ELSE Contexts \cup {NULL}
SizeOf(c, f)    == IF c \in Kept THEN {sizes[c][f]} ELSE FileSizes \cup {0}

(* A new file has the size asked for and no context.                       *)
AddFile(c, size) ==
  /\ live
  /\ call' = <<"file_allocate", c, size>>
  /\ \/ c \notin Clients /\ Answer("EINVAL")
     \/ c \in Clients /\ files[c] = Files /\ Answer("ENOENT")
     \/ /\ c \in Clients
        /\ \E f \in Files \ files[c] :
             /\ files' = [files EXCEPT ![c] = @ \cup {f}]
             /\ sizes' = Put(sizes, c, f, size)
             /\ contexts' = Put(contexts, c, f, NULL)
             /\ out' = f
        /\ rc' = "OK"
        /\ UNCHANGED <<live, clients>>

InRange(c, f) == c \in Clients /\ f \in Files

RemoveFile(c, f) ==
  /\ live
  /\ call' = <<"file_free", c, f>>
  /\ \/ ~InRange(c, f) /\ Answer("EINVAL")
     \/ InRange(c, f) /\ ContextOf(c, f) # {NULL} /\ Answer("EPERM")
     \/ /\ InRange(c, f) /\ NULL \in ContextOf(c, f)
        /\ f \notin files[c]
        /\ Answer("EALREADY")
     \/ /\ InRange(c, f) /\ NULL \in ContextOf(c, f)
        /\ f \in files[c]
        /\ files' = [files EXCEPT ![c] = @ \ {f}]
        /\ sizes' = Put(sizes, c, f, 0)
        /\ rc' = "OK" /\ out' = NULL
        /\ UNCHANGED <<live, clients, contexts>>

SetContext(c, f, value) ==
  /\ live
  /\ call' = <<"file_set_ctx", c, f, value>>
  /\ \/ ~InRange(c, f) /\ Answer("EINVAL")
     \/ /\ InRange(c, f) /\ f \in files[c]
        /\ contexts' = Put(contexts, c, f, value)
        /\ rc' = "OK" /\ out' = NULL
        /\ UNCHANGED <<live, clients, files, sizes>>

(* No context and no such file are the same answer.                        *)
GetContext(c, f) ==
  /\ live
  /\ call' = <<"file_get_ctx", c, f>>
  /\ out' \in IF InRange(c, f) THEN ContextOf(c, f) ELSE {NULL}
  /\ rc' = IF out' = NULL THEN "EINVAL" ELSE "OK"
  /\ UNCHANGED registry

GetSize(c, f) ==
  /\ live
  /\ call' = <<"file_get_size", c, f>>
  /\ \/ ~InRange(c, f) /\ Answer("EINVAL")
     \/ /\ InRange(c, f)
        /\ out' \in SizeOf(c, f)
        /\ rc' = "OK"
        /\ UNCHANGED registry

-----------------------------------------------------------------------------

(* Only who holds a client asks for its files.                             *)
Next ==
  \/ \E n \in {0, MaxClients}, m \in {0, MaxFiles} : Create(n, m)
  \/ Destroy
  \/ AddClient
  \/ \E c \in 0 .. MaxClients : RemoveClient(c)
  \/ \E c \in clients \cup {MaxClients} :
       \/ \E size \in FileSizes : AddFile(c, size)
       \/ \E f \in 0 .. MaxFiles :
            \/ RemoveFile(c, f)
            \/ \E value \in Contexts \cup {NULL} : SetContext(c, f, value)
            \/ GetContext(c, f)
            \/ GetSize(c, f)

Spec == Init /\ [][Next]_vars

=============================================================================
