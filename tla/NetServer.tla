------------------------------ MODULE NetServer -----------------------------
(***************************************************************************)
(* The UDP server of CLIENT_SERVER/src/net_server.c: the server object on  *)
(* the heap, its socket, the run flag, and the receive thread.  The        *)
(* operations are given as actions on these variables for the module of    *)
(* the thread that calls them (ServerApp).                                 *)
(*                                                                         *)
(* What a datagram holds does not matter here: recvfrom returns bytes,     *)
(* nothing, a time-out or an error, and bytes make the thread call back.   *)
(***************************************************************************)

VARIABLES
  allocated,          \* the server object is on the heap
  sock_open,          \* server->sock_fd is open
  receive_data_flag,
  thread,             \* where the receive thread is
  misuse              \* a freed object was read, written or freed

server_vars == <<allocated, sock_open, receive_data_flag, thread, misuse>>

NoServer ==
  /\ allocated = FALSE
  /\ sock_open = FALSE
  /\ receive_data_flag = FALSE
  /\ thread = "none"
  /\ misuse = FALSE

(* An access to the server object.                                         *)
Access == misuse' = (misuse \/ ~allocated)

-----------------------------------------------------------------------------
(* The receive thread.                                                     *)

(* The condition of the loop.  In freed memory the flag has any value.     *)
TestFlag ==
  /\ thread = "test"
  /\ \E go \in IF allocated THEN {receive_data_flag} ELSE BOOLEAN :
       thread' = IF go THEN "recv" ELSE "done"
  /\ Access
  /\ UNCHANGED <<allocated, sock_open, receive_data_flag>>

(* recvfrom returns: with bytes, with none or after SO_RCVTIMEO, or with   *)
(* an error, which ends the loop.                                          *)
Received ==
  /\ thread = "recv"
  /\ thread' \in {"callback", "test", "done"}
  /\ Access
  /\ UNCHANGED <<allocated, sock_open, receive_data_flag>>

(* A signal handler has run in the thread: recvfrom returns EINTR.         *)
Interrupted ==
  /\ thread' = IF thread = "recv" THEN "done" ELSE thread
  /\ UNCHANGED <<allocated, sock_open, receive_data_flag, misuse>>

(* The callback has returned.                                              *)
CallbackDone ==
  /\ thread = "callback"
  /\ thread' = "test"
  /\ UNCHANGED <<allocated, sock_open, receive_data_flag>>

-----------------------------------------------------------------------------
(* The operations.                                                         *)

(* Variant: the socket is left open.                                       *)
FreedOnly == allocated' = FALSE /\ UNCHANGED sock_open

cleanup_server == allocated' = FALSE /\ sock_open' = FALSE

net_server_create ==
  /\ allocated' = TRUE
  /\ sock_open' = TRUE
  /\ receive_data_flag' = FALSE
  /\ UNCHANGED <<thread, misuse>>

(* malloc, or a system call after it, failed: the object, if there was     *)
(* one, has been freed again.                                              *)
CreateFailed == UNCHANGED server_vars

net_server_start ==
  /\ receive_data_flag' = TRUE
  /\ thread' = "test"
  /\ UNCHANGED <<allocated, sock_open, misuse>>

(* pthread_create failed.                                                  *)
StartFailed ==
  /\ receive_data_flag' = TRUE
  /\ cleanup_server
  /\ UNCHANGED <<thread, misuse>>

(* Variant: the flag stays set.                                            *)
FlagKept(running) ==
  /\ running \in IF allocated THEN {receive_data_flag} ELSE BOOLEAN
  /\ Access
  /\ UNCHANGED <<allocated, sock_open, receive_data_flag, thread>>

(* net_server_stop up to its sleep, or its early return: running tells     *)
(* which.                                                                  *)
StopBegin(running) ==
  /\ running \in IF allocated THEN {receive_data_flag} ELSE BOOLEAN
  /\ receive_data_flag' = FALSE
  /\ Access
  /\ UNCHANGED <<allocated, sock_open, thread>>

(* Variant: the thread is not waited for.                                  *)
NotWaited == TRUE

(* pthread_join returns.  Without a thread server_thread is whatever the   *)
(* freed object holds there, and the call may return.                      *)
Joined == thread \in {"none", "done"}

net_server_destroy ==
  /\ Access
  /\ cleanup_server
  /\ UNCHANGED <<receive_data_flag, thread>>

=============================================================================
