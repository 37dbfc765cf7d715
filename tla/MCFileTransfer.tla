--------------------------- MODULE MCFileTransfer ---------------------------
(***************************************************************************)
(* Two senders, chunks of two bytes, a limit of three.  The first sender's *)
(* file is two chunks long, the last of them not full, or one byte too     *)
(* long for the receiver; the second's is one short chunk that overlaps.   *)
(* Other datagrams: one without a header, one that is too long, and one    *)
(* whose end wraps around the size_t.                                      *)
(***************************************************************************)
EXTENDS FileTransfer

CONSTANTS s1, s2

MCSourceSizes == [s \in Senders |-> IF s = s1 THEN {0, 3, 4} ELSE {1}]
MCStrays      == {<<0, 0>>, <<4, 0>>, <<3, 15>>}

=============================================================================
