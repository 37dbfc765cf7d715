--------------------------- MODULE ServerAppProofs --------------------------
(***************************************************************************)
(* Safety of the receiver application for any number of signals, handled   *)
(* by either thread: the receive thread only uses what exists, a tear-down *)
(* after a successful start touches no freed memory, and nothing is left   *)
(* when main returns.                                                      *)
(***************************************************************************)
EXTENDS ServerApp, TLAPS

(* The process starts with nothing created.                                *)
LEMMA InitInv == Init => IndInv
<1>. SUFFICES ASSUME Init PROVE IndInv
  OBVIOUS
<1>. USE DEF Init, NoServer
<1>1. TypeOK
  <2>1. sent \in 0 .. MaxSignals
    BY SignalAssumption
  <2>. QED BY <2>1 DEF TypeOK
<1>2. FailedClean
  BY DEF FailedClean
<1>3. NotStarted
  BY DEF NotStarted
<1>4. Serving
  BY DEF Serving, Waiting, Ended
<1>5. TornDown
  BY DEF TornDown
<1>6. CleanWhenStarted
  BY DEF CleanWhenStarted
<1>. QED BY <1>1, <1>2, <1>3, <1>4, <1>5, <1>6 DEF IndInv

(* Each step of the main thread keeps the invariant.                       *)
LEMMA MainInv ==
  ASSUME IndInv, Main
  PROVE  IndInv'
<1>. USE DEF IndInv, TypeOK, FailedClean, NotStarted, Serving, TornDown,
             CleanWhenStarted, BeforeStart, Waiting, Teardown, Ended, Running,
             server_vars, signals, Access
<1>1. CASE CreateFile
  <2>. USE DEF CreateFile
  <2>1. TypeOK'
    BY <1>1
  <2>2. FailedClean' /\ CleanWhenStarted'
    BY <1>1
  <2>3. NotStarted'
    BY <1>1
  <2>4. Serving'
    BY <1>1
  <2>5. TornDown'
    BY <1>1
  <2>. QED BY <2>1, <2>2, <2>3, <2>4, <2>5
<1>2. CASE CreateServer
  <2>. USE DEF CreateServer, net_server_create, CreateFailed
  <2>1. TypeOK'
    BY <1>2
  <2>2. FailedClean' /\ CleanWhenStarted'
    BY <1>2
  <2>3. NotStarted'
    BY <1>2
  <2>4. Serving'
    BY <1>2
  <2>5. TornDown'
    BY <1>2
  <2>. QED BY <2>1, <2>2, <2>3, <2>4, <2>5
<1>3. CASE StartServer
  <2>. USE DEF StartServer, net_server_start, StartFailed, cleanup_server
  <2>1. CASE net_server_start /\ main' = "test" /\ UNCHANGED setup_failed
    <3>1. UNCHANGED <<allocated, sock_open, misuse, net_server, file_mngr, signals>>
      BY <1>3, <2>1
    <3>2. thread' = "test" /\ receive_data_flag' = TRUE
      BY <2>1
    <3>. QED BY <1>3, <2>1, <3>1, <3>2
  <2>2. CASE StartFailed /\ main' \in {"stop", "test"} /\ setup_failed' = TRUE
    <3>1. UNCHANGED <<thread, misuse, net_server, file_mngr, signals>>
      BY <1>3, <2>2
    <3>2. allocated' = FALSE /\ sock_open' = FALSE /\ receive_data_flag' = TRUE
      BY <2>2
    <3>3. TypeOK'
      BY <1>3, <2>2, <3>1, <3>2
    <3>4. FailedClean' /\ CleanWhenStarted'
      BY <1>3, <2>2, <3>1, <3>2
    <3>5. NotStarted' /\ Serving' /\ TornDown'
      BY <1>3, <2>2, <3>1, <3>2
    <3>. QED BY <3>3, <3>4, <3>5
  <2>. QED BY <1>3, <2>1, <2>2
<1>4. CASE TestStop
  BY <1>4 DEF TestStop
<1>5. CASE Pause
  BY <1>5 DEF Pause
<1>6. CASE StopServer
  <2>. USE DEF StopServer, StopBegin
  <2>1. TypeOK'
    BY <1>6
  <2>2. FailedClean' /\ CleanWhenStarted'
    BY <1>6
  <2>3. NotStarted'
    BY <1>6
  <2>4. Serving'
    BY <1>6
  <2>5. TornDown'
    BY <1>6
  <2>. QED BY <2>1, <2>2, <2>3, <2>4, <2>5
<1>7. CASE Slept
  BY <1>7 DEF Slept
<1>8. CASE JoinThread
  BY <1>8 DEF JoinThread, Joined
<1>9. CASE DestroyServer
  BY <1>9 DEF DestroyServer, net_server_destroy, cleanup_server
<1>10. CASE CloseFile
  BY <1>10 DEF CloseFile
<1>. QED
  BY <1>1, <1>2, <1>3, <1>4, <1>5, <1>6, <1>7, <1>8, <1>9, <1>10 DEF Main

(* Each step of the receive thread keeps the invariant.                    *)
LEMMA ReceiverInv ==
  ASSUME IndInv, Receiver
  PROVE  IndInv'
<1>. USE DEF IndInv, TypeOK, FailedClean, NotStarted, Serving, TornDown,
             CleanWhenStarted, BeforeStart, Waiting, Teardown, Ended, Running,
             app_vars, Access, Receiver
<1>1. CASE TestFlag
  BY <1>1 DEF TestFlag
<1>2. CASE Received
  BY <1>2 DEF Received
<1>3. CASE server_data_to_file_callback
  BY <1>3 DEF server_data_to_file_callback, CallbackDone
<1>. QED BY <1>1, <1>2, <1>3

(* Sending and handling a signal keep the invariant.                       *)
LEMMA SignalInv ==
  ASSUME IndInv, Kill \/ Handle
  PROVE  IndInv'
<1>. USE DEF IndInv, TypeOK, FailedClean, NotStarted, Serving, TornDown,
             CleanWhenStarted, BeforeStart, Waiting, Teardown, Ended, Running,
             server_vars
<1>1. CASE Kill
  BY <1>1, SignalAssumption DEF Kill
<1>2. CASE HandleInMain
  BY <1>2 DEF HandleInMain
<1>3. CASE HandleInReceiver
  BY <1>3 DEF HandleInReceiver, Interrupted
<1>. QED BY <1>1, <1>2, <1>3 DEF Handle

(* The invariant holds in every reachable state of the application.        *)
THEOREM Invariance == Spec => []IndInv
<1>1. IndInv /\ UNCHANGED vars => IndInv'
  BY DEF IndInv, TypeOK, FailedClean, NotStarted, Serving, TornDown,
         CleanWhenStarted, BeforeStart, Waiting, Teardown, Ended, Running,
         vars, server_vars, app_vars
<1>2. IndInv /\ [Next]_vars => IndInv'
  BY <1>1, MainInv, ReceiverInv, SignalInv DEF Next
<1>. QED BY <1>2, InitInv, PTL DEF Spec

(* What main, the server and the signals are described by keeps its type.  *)
THEOREM ServerTypeCorrect == Spec => []TypeOK
<1>1. IndInv => TypeOK
  BY DEF IndInv
<1>. QED BY <1>1, Invariance, PTL

(* The receive thread never outlives the server object, the socket or the  *)
(* file its callback writes to: app_teardown joins it first.               *)
THEOREM ReceiverAlwaysSafe == Spec => []ReceiverSafe
<1>1. IndInv => ReceiverSafe
  BY DEF IndInv, TypeOK, FailedClean, NotStarted, Serving, TornDown,
         BeforeStart, Waiting, Teardown, Ended, Running, ReceiverSafe
<1>. QED BY <1>1, Invariance, PTL

(* After net_server_start has succeeded no thread touches freed memory.    *)
THEOREM AlwaysCleanWhenStarted == Spec => []CleanWhenStarted
<1>1. IndInv => CleanWhenStarted
  BY DEF IndInv
<1>. QED BY <1>1, Invariance, PTL

(* When main returns, server, socket and file have been released, after a  *)
(* failed set-up too.                                                      *)
THEOREM NothingEverLeft == Spec => []NothingLeft
<1>1. IndInv => NothingLeft
  BY DEF IndInv, TornDown, NothingLeft
<1>. QED BY <1>1, Invariance, PTL

=============================================================================
