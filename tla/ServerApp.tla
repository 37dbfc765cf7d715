------------------------------ MODULE ServerApp -----------------------------
(***************************************************************************)
(* The receiver application,                                               *)
(* APPS/FILE_SENDER_SERVER_APP/file_sender_server.c: the main thread with  *)
(* its set-up, wait and tear-down, the receive thread of its UDP server    *)
(* (module NetServer), whose callback writes to the application's file,    *)
(* and the handler of SIGINT and SIGTERM.                                  *)
(*                                                                         *)
(* POSIX lets a signal sent to the process be handled by any of its        *)
(* threads, and neither thread blocks them; Linux takes the main thread    *)
(* when it can.                                                            *)
(***************************************************************************)
EXTENDS Naturals, NetServer

CONSTANTS
  Handlers,    \* the threads that may run the signal handler
  MaxSignals   \* how many signals are sent

ASSUME SignalAssumption ==
  /\ Handlers \subseteq {"main", "recv"}
  /\ MaxSignals \in Nat

VARIABLES
  main,            \* where the main thread is
  net_server,      \* file_sender.net_server is not NULL
  file_mngr,       \* file_sender.file_mngr: "NULL", "open" or "freed"
  stop_requested,
  pending,         \* a signal waits for a thread to handle it
  sent,            \* the number of signals sent
  setup_failed     \* a step of app_setup or app_run has failed

app_vars == <<main, net_server, file_mngr, stop_requested, pending, sent,
              setup_failed>>
vars == <<server_vars, app_vars>>

Teardown == {"stop", "sleep", "join", "destroy", "close_file"}
Ended    == {"exited", "aborted"}

Running  == thread \in {"test", "recv", "callback"}

Init ==
  /\ NoServer
  /\ main = "create_file"
  /\ net_server = FALSE
  /\ file_mngr = "NULL"
  /\ stop_requested = FALSE
  /\ pending = FALSE
  /\ sent = 0
  /\ setup_failed = FALSE

-----------------------------------------------------------------------------
(* The main thread.                                                        *)

signals == <<stop_requested, pending, sent>>

(* Variant: app_setup goes on without a file.                              *)
CreateFileGoesOn ==
  /\ main = "create_file"
  /\ main' = "create_server"
  /\ \/ file_mngr' = "open" /\ UNCHANGED setup_failed
     \/ setup_failed' = TRUE /\ UNCHANGED file_mngr
  /\ UNCHANGED <<server_vars, net_server, signals>>

(* app_setup, once the handlers are registered: ram_file_create.           *)
CreateFile ==
  /\ main = "create_file"
  /\ \/ /\ file_mngr' = "open"
        /\ main' = "create_server"
        /\ UNCHANGED setup_failed
     \/ /\ main' = "stop"
        /\ setup_failed' = TRUE
        /\ UNCHANGED file_mngr
  /\ UNCHANGED <<server_vars, net_server, signals>>

(* app_setup: net_server_create.  It stores the result of malloc in the    *)
(* application's pointer before anything else can fail.                    *)
CreateServer ==
  /\ main = "create_server"
  /\ \/ /\ net_server_create
        /\ net_server' = TRUE
        /\ main' = "start"
        /\ UNCHANGED setup_failed
     \/ /\ CreateFailed
        /\ net_server' \in BOOLEAN
        /\ main' = "stop"
        /\ setup_failed' = TRUE
  /\ UNCHANGED <<file_mngr, signals>>

(* app_run.  The result of a failed net_server_start is -errno, which      *)
(* pthread_create does not set: it may be zero.                            *)
StartServer ==
  /\ main = "start"
  /\ \/ /\ net_server_start
        /\ main' = "test"
        /\ UNCHANGED setup_failed
     \/ /\ StartFailed
        /\ main' \in {"stop", "test"}
        /\ setup_failed' = TRUE
  /\ UNCHANGED <<net_server, file_mngr, signals>>

(* while (!stop_requested) pause();                                        *)
TestStop ==
  /\ main = "test"
  /\ main' = IF stop_requested THEN "stop" ELSE "tested"
  /\ UNCHANGED <<server_vars, net_server, file_mngr, signals, setup_failed>>

Pause ==
  /\ main = "tested"
  /\ main' = "paused"
  /\ UNCHANGED <<server_vars, net_server, file_mngr, signals, setup_failed>>

(* Variant: the server is destroyed without being stopped.                 *)
StopSkipped ==
  /\ main = "stop"
  /\ main' = "destroy"
  /\ UNCHANGED <<server_vars, net_server, file_mngr, signals, setup_failed>>

(* app_teardown: net_server_stop.                                          *)
StopServer ==
  /\ main = "stop"
  /\ \/ /\ ~net_server
        /\ main' = "destroy"
        /\ UNCHANGED server_vars
     \/ /\ net_server
        /\ \E running \in BOOLEAN :
             /\ StopBegin(running)
             /\ main' = IF running THEN "sleep" ELSE "destroy"
  /\ UNCHANGED <<net_server, file_mngr, signals, setup_failed>>

Slept ==
  /\ main = "sleep"
  /\ main' = "join"
  /\ UNCHANGED <<server_vars, net_server, file_mngr, signals, setup_failed>>

JoinThread ==
  /\ main = "join"
  /\ Joined
  /\ main' \in {"destroy"} \cup (IF thread = "none" THEN {"aborted"} ELSE {})
  /\ UNCHANGED <<server_vars, net_server, file_mngr, signals, setup_failed>>

(* app_teardown: net_server_destroy.  The C library may notice that an     *)
(* object is freed twice and abort.                                        *)
DestroyServer ==
  /\ main = "destroy"
  /\ IF net_server THEN net_server_destroy ELSE UNCHANGED server_vars
  /\ main' \in {"close_file"} \cup
               (IF net_server /\ ~allocated THEN {"aborted"} ELSE {})
  /\ UNCHANGED <<net_server, file_mngr, signals, setup_failed>>

(* app_teardown: ram_file_destroy, and the end of main.                    *)
CloseFile ==
  /\ main = "close_file"
  /\ file_mngr' = IF file_mngr = "open" THEN "freed" ELSE file_mngr
  /\ main' = "exited"
  /\ UNCHANGED <<server_vars, net_server, signals, setup_failed>>

Main ==
  \/ CreateFile
  \/ CreateServer
  \/ StartServer
  \/ TestStop
  \/ Pause
  \/ StopServer
  \/ Slept
  \/ JoinThread
  \/ DestroyServer
  \/ CloseFile

-----------------------------------------------------------------------------
(* The receive thread, which ends with the process.                        *)

(* server_data_to_file_callback: it drops the datagram, or writes it to    *)
(* the file, which it reaches through its context.                         *)
server_data_to_file_callback ==
  /\ CallbackDone
  /\ misuse' \in {misuse, misuse \/ file_mngr = "freed"}

Receiver ==
  /\ main \notin Ended
  /\ TestFlag \/ Received \/ server_data_to_file_callback
  /\ UNCHANGED app_vars

-----------------------------------------------------------------------------
(* Signals.                                                                *)

(* Somebody sends SIGINT or SIGTERM; one that is pending already absorbs   *)
(* the next.                                                               *)
Kill ==
  /\ main \notin Ended
  /\ sent < MaxSignals
  /\ sent' = sent + 1
  /\ pending' = TRUE
  /\ UNCHANGED <<server_vars, main, net_server, file_mngr, stop_requested,
                 setup_failed>>

(* handle_signal in the main thread: pause and sleep return after it.      *)
HandleInMain ==
  /\ "main" \in Handlers
  /\ main \notin Ended
  /\ pending
  /\ pending' = FALSE
  /\ stop_requested' = TRUE
  /\ main' = CASE main = "paused" -> "test"
               [] main = "sleep"  -> "join"
               [] OTHER           -> main
  /\ UNCHANGED <<server_vars, net_server, file_mngr, sent, setup_failed>>

(* handle_signal in the receive thread.                                    *)
HandleInReceiver ==
  /\ "recv" \in Handlers
  /\ main \notin Ended
  /\ Running
  /\ pending
  /\ pending' = FALSE
  /\ stop_requested' = TRUE
  /\ Interrupted
  /\ UNCHANGED <<main, net_server, file_mngr, sent, setup_failed>>

Handle == HandleInMain \/ HandleInReceiver

-----------------------------------------------------------------------------

Next == Main \/ Receiver \/ Kill \/ Handle

Spec == Init /\ [][Next]_vars

(* The threads are scheduled, recvfrom returns within its time-out, and a  *)
(* pending signal is handled.  Nothing makes anyone send a signal.         *)
FairSpec == Spec /\ WF_vars(Main) /\ WF_vars(Receiver) /\ WF_vars(Handle)

-----------------------------------------------------------------------------
(* Properties.                                                             *)

(* Threads, pointers and flags take the values of the C code; the receive  *)
(* thread exists only once net_server_start has succeeded.                 *)
TypeOK ==
  /\ allocated \in BOOLEAN /\ sock_open \in BOOLEAN
  /\ receive_data_flag \in BOOLEAN /\ misuse \in BOOLEAN
  /\ net_server \in BOOLEAN /\ setup_failed \in BOOLEAN
  /\ stop_requested \in BOOLEAN /\ pending \in BOOLEAN
  /\ thread \in {"none", "test", "recv", "callback", "done"}
  /\ main \in {"create_file", "create_server", "start", "test", "tested",
               "paused"} \cup Teardown \cup Ended
  /\ file_mngr \in {"NULL", "open", "freed"}
  /\ sent \in 0 .. MaxSignals
  /\ thread # "none" => ~setup_failed

(* As long as the receive thread runs, what it uses exists: the server     *)
(* object, the socket and the file its callback writes to.  Tear-down      *)
(* frees them only behind the join, however late a datagram comes.         *)
ReceiverSafe ==
  Running /\ main \notin Ended => allocated /\ sock_open /\ file_mngr = "open"

(* After a start that succeeded no thread ever touches freed memory, and   *)
(* tear-down frees each object once.                                       *)
CleanWhenStarted == misuse => setup_failed

(* When main returns, the server, its socket and the file have been        *)
(* released, whichever step of the set-up had failed.                      *)
NothingLeft ==
  main = "exited" => ~allocated /\ ~sock_open /\ file_mngr # "open"

(* Whatever makes main tear down, the process ends: net_server_stop does   *)
(* not wait for ever, not even for a thread that never stops receiving.    *)
(* And a signal that finds main in pause, with no other thread left that   *)
(* could handle it, makes main tear down.                                  *)
ShutdownCompletes ==
  main \in Teardown \/ (main = "paused" /\ pending /\ ~Running)
    ~> main \in Ended

(* What the comment on the registration of the handlers says: the signals  *)
(* close the process.                                                      *)
SignalCloses == stop_requested ~> main \in Ended

(* The tests for NULL in net_server_stop and cleanup_server ("Server is    *)
(* not initialized") are enough for tear-down after a failed set-up: the   *)
(* application never stops, reads or frees a server that is freed already. *)
NoUseAfterFree == ~misuse

-----------------------------------------------------------------------------
(* The inductive invariant behind the safety properties.                   *)

BeforeStart  == {"create_file", "create_server", "start"}
Waiting      == {"test", "tested", "paused"}

(* A set-up that failed has left no server behind and no thread.           *)
FailedClean == setup_failed => ~allocated /\ ~sock_open /\ thread = "none"

(* Until start has succeeded nothing runs.                                 *)
NotStarted ==
  /\ main \in BeforeStart => thread = "none" /\ ~setup_failed
  /\ main \in {"create_file", "create_server"} => ~allocated /\ ~sock_open
  /\ main = "create_file" => file_mngr = "NULL"

(* After a set-up that succeeded the server stays until it is destroyed    *)
(* and the file even longer, and the flag is set until stop clears it.     *)
Serving ==
  ~setup_failed =>
    /\ main \notin {"create_file"} \cup Ended => file_mngr = "open"
    /\ main \in {"start"} \cup Waiting \cup {"stop", "sleep", "join", "destroy"}
         => allocated /\ sock_open /\ net_server
    /\ main \in Waiting \cup {"stop"} => receive_data_flag

(* Tear-down gets past the join only without the thread, and past the      *)
(* destruction of the server only without the server.                      *)
TornDown ==
  /\ main \in {"destroy", "close_file", "exited"} => ~Running
  /\ main \in {"close_file", "exited"} => ~allocated /\ ~sock_open
  /\ main = "exited" => file_mngr # "open"

IndInv ==
  /\ TypeOK
  /\ FailedClean
  /\ NotStarted
  /\ Serving
  /\ TornDown
  /\ CleanWhenStarted

=============================================================================
