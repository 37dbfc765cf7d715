---------------------------- MODULE FileTransfer ----------------------------
(***************************************************************************)
(* The transfer of files over UDP: senders                                 *)
(* (APPS/FILE_SENDER_CLIENT_APP/file_sender_client.c with                  *)
(* CLIENT_SERVER/src/net_client.c), and the callback of the one receiver   *)
(* (APPS/FILE_SENDER_SERVER_APP/file_sender_server.c), which writes what   *)
(* arrives to its file.  Nothing is acknowledged or sent again.            *)
(*                                                                         *)
(* net holds every datagram ever sent.  Any of them may arrive at any      *)
(* time, any number of times or never.  The receiver may stop and be       *)
(* started again; module ServerApp has the details of how it does.         *)
(* A byte is named after where it comes from: <<s, o>> is the byte at      *)
(* offset o of the file of sender s.                                       *)
(***************************************************************************)
EXTENDS RamFile

CONSTANTS
  Senders,               \* processes that each send one file
  SourceSizes,           \* for each of them, the sizes its file may have
  OldSizes,              \* the sizes of what the receiver's file may hold
  Strays,                \* <<size, offset>> of datagrams of other programs
  Old, Junk,             \* the bytes of the last two
  Header,                \* sizeof(data_chunk_protocol)
  MAX_FILE_CHUNK_SIZE,   \* the most a sender puts into a datagram
  MAX_FILE_BUFFER_SIZE,  \* the most the receiver takes out of one
  MAX_FILE_SIZE          \* the receiver's limit for its file

Offsets == 0 .. SizeT - 1
Byte    == {Zero, Old, Junk} \cup (Senders \X Offsets)

ASSUME TransferAssumption ==
  /\ SourceSizes \in [Senders -> SUBSET (0 .. SizeT \div 2)]
  /\ OldSizes \subseteq 0 .. SizeT \div 2
  /\ Strays \subseteq Nat \X Offsets
  /\ Junk \notin Senders
  /\ Header \in Nat \ {0}
  /\ MAX_FILE_CHUNK_SIZE \in Nat \ {0}
  /\ MAX_FILE_CHUNK_SIZE <= MAX_FILE_BUFFER_SIZE
  /\ MAX_FILE_BUFFER_SIZE \in 1 .. SizeT \div 2
  /\ MAX_FILE_SIZE \in 0 .. SizeT - 1

VARIABLES
  sender,   \* per sender: where it is and its local variables
  chunk,    \* per sender: the data of its data_chunk
  source,   \* per sender: its file
  net,      \* the datagrams sent so far
  up,       \* the receiver is running
  file,     \* the receiver's file
  initial,  \* history: that file at the beginning
  written,  \* history: the datagrams the receiver has written
  torn      \* history: the datagrams of which a write has failed

vars == <<sender, chunk, source, net, up, file, initial, written, torn>>

(* A file of n bytes.                                                      *)
FileOf(n, data) ==
  [there |-> TRUE, size |-> n,
   data  |-> [o \in Offsets |-> IF o < n THEN data[o] ELSE Zero]]

Content(s) == [o \in Offsets |-> <<s, o>>]

SourceFiles(s) ==
  {NoFile(Offsets)} \cup {FileOf(n, Content(s)) : n \in SourceSizes[s]}

(* A datagram: who sends it, its size, and the fields of                   *)
(* data_chunk_protocol, of which flags is always zero.                     *)
Datagram(from, offset, len, data) ==
  [from |-> from, size |-> Header + len, offset |-> offset, data |-> data]

Payload(d) == d.size - Header

Stray(x) ==
  [from |-> Junk, size |-> x[1], offset |-> x[2],
   data |-> [i \in 0 .. x[1] - Header - 1 |-> Junk]]

Init ==
  /\ sender = [s \in Senders |->
       [at |-> "stat", rc |-> 0, file_size |-> 0, file_offset |-> 0,
        file_mngr |-> FALSE, net_client |-> FALSE]]
  /\ chunk = [s \in Senders |-> <<>>]
  /\ source \in [Senders -> UNION {SourceFiles(s) : s \in Senders}]
  /\ \A s \in Senders : source[s] \in SourceFiles(s)
  /\ net = {Stray(x) : x \in Strays}
  /\ up = FALSE
  /\ initial \in {NoFile(Offsets)} \cup
       {FileOf(n, [o \in Offsets |-> Old]) : n \in OldSizes}
  /\ file = initial
  /\ written = {}
  /\ torn = {}

-----------------------------------------------------------------------------
(* A sender.                                                               *)

receiver == <<up, file, initial, written, torn>>

(* main returns; what the sender has open is closed.                       *)
Return(s, rc) ==
  sender' = [sender EXCEPT ![s].at = "ended", ![s].rc = rc,
               ![s].file_mngr = FALSE, ![s].net_client = FALSE]

(* ram_file_exist and ram_file_size_in_bytes.                              *)
StatFile(s) ==
  /\ sender[s].at = "stat"
  /\ \/ /\ check_if_file_exist(source[s])
        /\ sender' = [sender EXCEPT ![s].at = "open",
                        ![s].file_size = source[s].size]
     \/ Return(s, -1)
  /\ UNCHANGED <<chunk, source, net, receiver>>

(* ram_file_create, which makes an empty file if it is gone by now.        *)
OpenFile(s) ==
  /\ sender[s].at = "open"
  /\ \/ /\ source' = [source EXCEPT ![s] = ram_file_create(source[s])]
        /\ sender' = [sender EXCEPT ![s].at = "connect",
                        ![s].file_mngr = TRUE]
     \/ Return(s, -1) /\ UNCHANGED source
  /\ UNCHANGED <<chunk, net, receiver>>

net_client_create(s) ==
  /\ sender[s].at = "connect"
  /\ \/ sender' = [sender EXCEPT ![s].at = "loop", ![s].net_client = TRUE]
     \/ Return(s, -1)
  /\ UNCHANGED <<chunk, source, net, receiver>>

(* Variant: a last chunk that is not full is not sent.                     *)
FullChunkLeft(s) ==
  sender[s].file_offset + MAX_FILE_CHUNK_SIZE <= sender[s].file_size

(* The condition of the loop.                                              *)
MoreToSend(s) == sender[s].file_offset < sender[s].file_size

data_chunk_size(s) ==
  LET left == sender[s].file_size - sender[s].file_offset
  IN  IF left < MAX_FILE_CHUNK_SIZE THEN left ELSE MAX_FILE_CHUNK_SIZE

(* ram_file_read.  The limit is the file_size of before.                   *)
ReadChunk(s) ==
  LET offset == sender[s].file_offset
      len    == data_chunk_size(s)
  IN
  /\ sender[s].at = "loop"
  /\ MoreToSend(s)
  /\ \/ /\ ReadCheck(source[s], offset, len, sender[s].file_size) = "OK"
        /\ sender' = [sender EXCEPT ![s].at = "send"]
        /\ chunk' = [chunk EXCEPT ![s] = BytesAt(source[s], offset, len)]
     \/ Return(s, -1) /\ UNCHANGED chunk
  /\ UNCHANGED <<source, net, receiver>>

(* Variant: the offset stays where it is.                                  *)
SameOffset(s) == sender[s].file_offset

NextOffset(s) == sender[s].file_offset + data_chunk_size(s)

(* net_client_send.                                                        *)
SendChunk(s) ==
  /\ sender[s].at = "send"
  /\ \/ /\ net' = net \cup {Datagram(s, sender[s].file_offset,
                              data_chunk_size(s), chunk[s])}
        /\ sender' = [sender EXCEPT ![s].at = "loop",
                        ![s].file_offset = NextOffset(s)]
     \/ Return(s, -1) /\ UNCHANGED net
  /\ UNCHANGED <<chunk, source, receiver>>

Finish(s) ==
  /\ sender[s].at = "loop"
  /\ ~MoreToSend(s)
  /\ Return(s, 0)
  /\ UNCHANGED <<chunk, source, net, receiver>>

Sender(s) ==
  \/ StatFile(s)
  \/ OpenFile(s)
  \/ net_client_create(s)
  \/ ReadChunk(s)
  \/ SendChunk(s)
  \/ Finish(s)

(* Other programs shorten or remove the file.  A removed file that the     *)
(* sender has open stays readable.                                         *)
Shorten(s) ==
  /\ source[s].there
  /\ \/ \E n \in 0 .. source[s].size - 1 :
          source' = [source EXCEPT ![s] = FileOf(n, source[s].data)]
     \/ /\ ~sender[s].file_mngr
        /\ source' = [source EXCEPT ![s] = NoFile(Offsets)]
  /\ UNCHANGED <<sender, chunk, net, receiver>>

-----------------------------------------------------------------------------
(* The receiver.                                                           *)

senders == <<sender, chunk, source, net, initial>>

(* app_setup and app_run: the file keeps what it holds.                    *)
StartReceiver ==
  /\ ~up
  /\ up' = TRUE
  /\ file' = ram_file_create(file)
  /\ UNCHANGED <<senders, written, torn>>

(* app_teardown, which does not remove the file, or the process dies.      *)
StopReceiver ==
  /\ up
  /\ up' = FALSE
  /\ UNCHANGED <<senders, file, written, torn>>

(* The checks of the callback and of ram_file_write.                       *)
Accepts(d) ==
  /\ d.size >= Header
  /\ Payload(d) <= MAX_FILE_BUFFER_SIZE
  /\ WriteCheck(d.offset, Payload(d), MAX_FILE_SIZE) = "OK"

(* server_data_to_file_callback for a datagram that has arrived.  It is    *)
(* dropped, written, or its write fails with some of it written.           *)
server_data_to_file_callback(d) ==
  /\ up
  /\ \/ /\ ~Accepts(d)
        /\ UNCHANGED <<file, written, torn>>
     \/ /\ Accepts(d)
        /\ file' = Written(file, d.offset, d.data, Payload(d))
        /\ written' = written \cup {d}
        /\ UNCHANGED torn
     \/ /\ Accepts(d)
        /\ \E n \in 0 .. Payload(d) :
             file' = Written(file, d.offset, d.data, n)
        /\ torn' = torn \cup {d}
        /\ UNCHANGED written
  /\ UNCHANGED <<senders, up>>

-----------------------------------------------------------------------------

Next ==
  \/ \E s \in Senders : Sender(s) \/ Shorten(s)
  \/ StartReceiver
  \/ StopReceiver
  \/ \E d \in net : server_data_to_file_callback(d)

Spec == Init /\ [][Next]_vars

(* A sender keeps running: none of its calls waits for anybody.            *)
FairSpec == Spec /\ \A s \in Senders : WF_vars(Sender(s))

-----------------------------------------------------------------------------
(* Properties.                                                             *)

End(d)       == d.offset + Payload(d)
Covers(d, o) == d.offset <= o /\ o < End(d)

SenderState ==
  [at : {"stat", "open", "connect", "loop", "send", "ended"}, rc : {0, -1},
   file_size : Nat, file_offset : Nat,
   file_mngr : BOOLEAN, net_client : BOOLEAN]

DatagramOK(d) ==
  /\ d.from \in Senders \cup {Junk}
  /\ d.size \in Nat
  /\ d.offset \in Offsets
  /\ DOMAIN d.data = 0 .. Payload(d) - 1
  /\ \A i \in 0 .. Payload(d) - 1 : d.data[i] \in Byte

(* State and datagrams have their types; a sender that has ended has       *)
(* closed its file and its socket; and the receiver's file stays within    *)
(* MAX_FILE_SIZE, or the size it had, also for offsets at which the sum of *)
(* offset and size wraps.                                                  *)
TypeOK ==
  /\ sender \in [Senders -> SenderState]
  /\ \A s \in Senders : sender[s].at \in {"stat", "open", "ended"} =>
       ~sender[s].file_mngr /\ ~sender[s].net_client
  /\ DOMAIN chunk = Senders
  /\ \A s \in Senders : sender[s].at = "send" =>
       chunk[s] \in [0 .. data_chunk_size(s) - 1 -> Byte]
  /\ source \in [Senders -> Files(Offsets, Byte)]
  /\ \A d \in net : DatagramOK(d)
  /\ up \in BOOLEAN
  /\ file \in Files(Offsets, Byte) /\ initial \in Files(Offsets, Byte)
  /\ up => file.there
  /\ file.size <= MAX_FILE_SIZE \/ file.size = initial.size

(* Whatever the order in which datagrams arrive, however often they do,    *)
(* and wherever a write fails or the receiver restarts: what has been      *)
(* written once and not overwritten is there, at its own offset; a byte    *)
(* that no datagram covers is the one the file had at the beginning; and   *)
(* the file ends where the last of them ends.                              *)
FileExact ==
  /\ \A o \in Offsets :
       \/ \E d \in written \cup torn :
            Covers(d, o) /\ file.data[o] = d.data[o - d.offset]
       \/ /\ file.data[o] = initial.data[o]
          /\ \A d \in written : ~Covers(d, o)
  /\ \A d \in written : End(d) <= file.size
  /\ initial.size <= file.size
  /\ file.size # initial.size =>
       \E d \in written \cup torn : file.size <= End(d)

SentBy(s) == {d \in net : d.from = s}

(* A sender that reports success, with all of its datagrams written in any *)
(* order: the receiver holds its file, except where other datagrams have   *)
(* been written.  A file within the receiver's limit is never refused.     *)
Transferred ==
  \A s \in Senders : sender[s].at = "ended" /\ sender[s].rc = 0 =>
    /\ sender[s].file_size <= MAX_FILE_SIZE =>
         \A d \in SentBy(s) : Accepts(d)
    /\ SentBy(s) \subseteq written =>
         \A o \in 0 .. sender[s].file_size - 1 :
           \/ \E d \in (written \cup torn) \ SentBy(s) : Covers(d, o)
           \/ o < file.size /\ file.data[o] = <<s, o>>

(* Every sender ends, whatever happens to its file, the network and the    *)
(* receiver.                                                               *)
SendersEnd == <>(\A s \in Senders : sender[s].at = "ended")

=============================================================================
