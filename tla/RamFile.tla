------------------------------- MODULE RamFile ------------------------------
(***************************************************************************)
(* The backing file of CLIENT_SERVER/src/ram_file_ctrl.c, as operators on  *)
(* the file for the modules of its callers (StoreManager, FileTransfer).   *)
(*                                                                         *)
(* A file is a record: there, whether it exists; size; and data, its       *)
(* bytes, which are Zero from size on.  Every write ends with fflush, so   *)
(* what a successful call has written is in the file and not in a buffer.  *)
(***************************************************************************)
EXTENDS Integers

CONSTANTS
  SizeT,   \* how many values a size_t has; a long has as many, half negative
  Zero     \* the byte that fills a hole

ASSUME SizeTAssumption == SizeT \in Nat \ {0}

Files(Offsets, Byte) ==
  [there : BOOLEAN, size : Nat, data : [Offsets -> Byte]]

NoFile(Offsets) ==
  [there |-> FALSE, size |-> 0, data |-> [o \in Offsets |-> Zero]]

check_if_file_exist(f) == f.there

(* Variant: the file is opened with "wb+" whether it exists or not.        *)
CreateTruncates(f) ==
  [there |-> TRUE, size |-> 0, data |-> [o \in DOMAIN f.data |-> Zero]]

(* ram_file_create: fopen with "wb+" makes an empty file where there is    *)
(* none, with "rb+" it leaves the file as it is.                           *)
ram_file_create(f) ==
  IF check_if_file_exist(f) THEN f
  ELSE [there |-> TRUE, size |-> 0, data |-> [o \in DOMAIN f.data |-> Zero]]

(* ram_file_destroy with delete_files set.                                 *)
delete_file_if_exists(f) == NoFile(DOMAIN f.data)

(* offset + data_size, a sum of two size_t.                                *)
AccessEnd(offset, len) == (offset + len) % SizeT

(* Variant: fseek takes any offset.                                        *)
SeeksAnywhere(offset) == TRUE

(* fseek takes a long: the upper half of the size_t is negative there and  *)
(* is refused.                                                             *)
CanSeek(offset) == offset < SizeT \div 2

(* The checks common to read and write, in their order; fseek's failure is *)
(* -EIO in one and -errno in the other.                                    *)
Checked(offset, len, max, seek_error) ==
  IF len = 0 THEN "EINVAL"
  ELSE IF AccessEnd(offset, len) > max THEN "EFBIG"
  ELSE IF ~CanSeek(offset) THEN seek_error
  ELSE "OK"

WriteCheck(offset, len, max) == Checked(offset, len, max, "EINVAL")

(* ram_file_read: a read that meets the end of the file is an error.       *)
ReadCheck(f, offset, len, max) ==
  LET checked == Checked(offset, len, max, "EIO")
  IN  IF checked = "OK" /\ offset + len > f.size THEN "EIO" ELSE checked

BytesAt(f, offset, len) == [i \in 0 .. len - 1 |-> f.data[offset + i]]

(* Variant: the fseek is missing, the bytes are appended.                  *)
Appended(f, offset, bytes, n) ==
  [there |-> f.there,
   size  |-> f.size + n,
   data  |-> [o \in DOMAIN f.data |->
                IF f.size <= o /\ o < f.size + n THEN bytes[o - f.size]
                ELSE f.data[o]]]

(* The file once the first n of the bytes have been written at the offset. *)
(* fwrite or fflush may fail after any of them.                            *)
Written(f, offset, bytes, n) ==
  [there |-> f.there,
   size  |-> IF n > 0 /\ offset + n > f.size THEN offset + n ELSE f.size,
   data  |-> [o \in DOMAIN f.data |->
                IF offset <= o /\ o < offset + n THEN bytes[o - offset]
                ELSE f.data[o]]]

=============================================================================
