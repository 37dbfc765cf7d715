---------------------------- MODULE MCBuddyCreate ---------------------------
(***************************************************************************)
(* Words of six bits.  The configurations are made of zero, every power of *)
(* two, neighbours of powers of two and other sizes; for every legal one   *)
(* all requests are made.                                                  *)
(***************************************************************************)
EXTENDS BuddyCreate

MCCfgValues == {0, 1, 2, 3, 4, 5, 8, 12, 15, 16, 17, 31, 32, 33, 48, 63}

=============================================================================
