--------------------------- MODULE MCClientManager --------------------------
(***************************************************************************)
(* The client manager with two clients of two files each: enough for a     *)
(* client outside the region of cells, for one client to have files while  *)
(* the other is freed, and, with words of four values, for a count of      *)
(* files that is no int.                                                   *)
(***************************************************************************)
EXTENDS ClientManager

(* No call depends on which call was the last or on what it handed out.    *)
CurrentState == <<live, pools, cells, rc>>

=============================================================================
