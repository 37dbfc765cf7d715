--------------------------- MODULE TransferProofs ---------------------------
(***************************************************************************)
(* Proofs about module FileTransfer, for any number of senders, sizes of   *)
(* files and chunks, and any datagrams of other programs.                  *)
(*                                                                         *)
(* The receiver's half of the invariant says that it only writes what its  *)
(* checks let through, which then ends within the limit, and that the      *)
(* file is exact.  The senders' half says that the datagrams of a sender   *)
(* so far carry exactly the bytes of its file below its offset.            *)
(***************************************************************************)
EXTENDS FileTransfer, TLAPS

Half == SizeT \div 2

(* What is left of the file is what it was.                                *)
SourceOK(s) ==
  /\ source[s].size <= Half
  /\ \A o \in Offsets : o < source[s].size => source[s].data[o] = <<s, o>>

(* The local variables of a sender.                                        *)
LocalOK(s) ==
  /\ sender[s].file_size <= Half
  /\ sender[s].file_offset <= sender[s].file_size
  /\ sender[s].at \in {"stat", "open", "connect"} => sender[s].file_offset = 0
  /\ sender[s].at = "send" =>
       /\ sender[s].file_offset < sender[s].file_size
       /\ chunk[s] = [i \in 0 .. data_chunk_size(s) - 1 |->
                        <<s, sender[s].file_offset + i>>]
  /\ sender[s].at = "ended" /\ sender[s].rc = 0 =>
       sender[s].file_offset = sender[s].file_size

(* A datagram of sender s is a chunk of its file.                          *)
ChunkOK(s, d) ==
  /\ Payload(d) \in 1 .. MAX_FILE_CHUNK_SIZE
  /\ End(d) <= sender[s].file_offset
  /\ \A i \in 0 .. Payload(d) - 1 : d.data[i] = <<s, d.offset + i>>

(* The datagrams of sender s leave nothing out below its offset.           *)
AllSent(s) ==
  \A o \in 0 .. sender[s].file_offset - 1 : \E d \in SentBy(s) : Covers(d, o)

SenderOK(s) ==
  /\ SourceOK(s)
  /\ LocalOK(s)
  /\ \A d \in SentBy(s) : ChunkOK(s, d)
  /\ AllSent(s)

SendersInv == \A s \in Senders : SenderOK(s)

OnlyAccepted == \A d \in written \cup torn : d \in net /\ Accepts(d)

AbsentEmpty == file.there \/ file = NoFile(Offsets)

TransferInv ==
  TypeOK /\ SendersInv /\ OnlyAccepted /\ AbsentEmpty /\ FileExact

-----------------------------------------------------------------------------
(* Arithmetic of sizes and offsets.                                        *)

(* Half of the size_t is below the whole of it.                            *)
LEMMA HalfFact == Half \in Nat /\ 2 * Half <= SizeT /\ Half < SizeT
BY SizeTAssumption DEF Half

(* What the receiver accepts ends within its limit: an offset that fseek   *)
(* takes is too small for the sum to wrap.                                 *)
LEMMA AcceptedEnd ==
  ASSUME NEW d, DatagramOK(d), Accepts(d)
  PROVE  Payload(d) \in Nat \ {0} /\ End(d) \in Nat /\ End(d) <= MAX_FILE_SIZE
<1>. DEFINE len == d.size - Header
            off == d.offset
<1>1. len \in Nat /\ len <= MAX_FILE_BUFFER_SIZE /\ off \in Nat
  BY TransferAssumption, SizeTAssumption DEF DatagramOK, Accepts, Payload, Offsets
<1>2. len # 0 /\ (off + len) % SizeT <= MAX_FILE_SIZE /\ off < Half
  <2>1. Checked(off, len, MAX_FILE_SIZE, "EINVAL") = "OK"
    BY DEF Accepts, Payload, WriteCheck
  <2>2. len # 0 /\ ~(AccessEnd(off, len) > MAX_FILE_SIZE) /\ CanSeek(off)
    BY <2>1 DEF Checked
  <2>3. (off + len) % SizeT \in Nat /\ MAX_FILE_SIZE \in Nat
    BY <1>1, SizeTAssumption, TransferAssumption
  <2>. QED
    BY <2>2, <2>3 DEF AccessEnd, CanSeek, Half
<1>3. off + len < SizeT
  BY <1>1, <1>2, HalfFact, TransferAssumption, SizeTAssumption DEF Half
<1>4. (off + len) % SizeT = off + len
  BY <1>1, <1>3, SizeTAssumption
<1>. QED
  BY <1>1, <1>2, <1>4, TransferAssumption DEF Payload, End

(* The size of a chunk while there is something to send.                   *)
LEMMA ChunkSize ==
  ASSUME NEW s, sender[s].file_size \in Nat, sender[s].file_offset \in Nat,
         sender[s].file_offset < sender[s].file_size
  PROVE  /\ data_chunk_size(s) \in 1 .. MAX_FILE_CHUNK_SIZE
         /\ NextOffset(s) \in Nat
         /\ NextOffset(s) <= sender[s].file_size
         /\ NextOffset(s) = sender[s].file_offset + data_chunk_size(s)
BY TransferAssumption DEF data_chunk_size, NextOffset

-----------------------------------------------------------------------------
(* The receiver.                                                           *)

(* What Written makes of the file.                                         *)
LEMMA WriteEffect ==
  ASSUME TypeOK, NEW d \in net, Accepts(d), NEW n \in 0 .. Payload(d),
         file' = Written(file, d.offset, d.data, n)
  PROVE  /\ file' \in Files(Offsets, Byte)
         /\ file'.there = file.there
         /\ file'.size \in Nat /\ file.size <= file'.size
         /\ d.offset + n <= file'.size \/ n = 0
         /\ file'.size = file.size \/ file'.size = d.offset + n
         /\ \A o \in Offsets : file'.data[o] =
              IF d.offset <= o /\ o < d.offset + n THEN d.data[o - d.offset]
              ELSE file.data[o]
<1>1. DatagramOK(d)
  BY DEF TypeOK
<1>2. /\ Payload(d) \in Nat \ {0} /\ End(d) \in Nat /\ d.offset \in Nat
      /\ n \in Nat /\ n <= Payload(d)
  BY <1>1, AcceptedEnd, SizeTAssumption DEF DatagramOK, Offsets
<1>3. /\ file.there \in BOOLEAN /\ file.size \in Nat
      /\ file.data \in [Offsets -> Byte] /\ DOMAIN file.data = Offsets
  BY DEF TypeOK, Files
<1>4. /\ file'.there = file.there
      /\ file'.size = IF n > 0 /\ d.offset + n > file.size THEN d.offset + n
                      ELSE file.size
      /\ file'.data = [o \in Offsets |->
           IF d.offset <= o /\ o < d.offset + n THEN d.data[o - d.offset]
           ELSE file.data[o]]
      /\ file' = [there |-> file'.there, size |-> file'.size, data |-> file'.data]
  BY <1>3 DEF Written
<1>5. ASSUME NEW o \in Offsets, d.offset <= o, o < d.offset + n
      PROVE  d.data[o - d.offset] \in Byte
  <2>1. o - d.offset \in 0 .. Payload(d) - 1
    BY <1>2, <1>5, SizeTAssumption DEF Offsets
  <2>. QED
    BY <2>1, <1>1 DEF DatagramOK
<1>6. file'.data \in [Offsets -> Byte]
  BY <1>3, <1>4, <1>5
<1>7. file'.size \in Nat
  BY <1>2, <1>3, <1>4
<1>8. file' \in Files(Offsets, Byte)
  BY <1>3, <1>4, <1>6, <1>7 DEF Files
<1>. QED
  BY <1>2, <1>3, <1>4, <1>7, <1>8

(* The receiver has written a datagram, the whole of it or, if the write   *)
(* has failed, some of it.                                                 *)
LEMMA WrittenInv ==
  ASSUME TransferInv, up, NEW d \in net, Accepts(d), NEW n \in 0 .. Payload(d),
         file' = Written(file, d.offset, d.data, n),
         \/ n = Payload(d) /\ written' = written \cup {d} /\ torn' = torn
         \/ written' = written /\ torn' = torn \cup {d},
         UNCHANGED <<senders, up>>
  PROVE  TransferInv'
<1>1. /\ sender' = sender /\ chunk' = chunk /\ source' = source /\ net' = net
      /\ initial' = initial /\ up' = up
  BY DEF senders
<1>2. TypeOK /\ SendersInv /\ OnlyAccepted /\ AbsentEmpty /\ FileExact
  BY DEF TransferInv
<1>3. DatagramOK(d)
  BY <1>2 DEF TypeOK
<1>4. /\ Payload(d) \in Nat \ {0} /\ d.offset \in Nat /\ n \in Nat
      /\ n <= Payload(d) /\ End(d) = d.offset + Payload(d)
      /\ End(d) <= MAX_FILE_SIZE /\ MAX_FILE_SIZE \in Nat
  BY <1>3, AcceptedEnd, SizeTAssumption, TransferAssumption
     DEF DatagramOK, Offsets, End
<1>5. /\ file' \in Files(Offsets, Byte)
      /\ file'.there = file.there
      /\ file'.size \in Nat /\ file.size <= file'.size
      /\ d.offset + n <= file'.size \/ n = 0
      /\ file'.size = file.size \/ file'.size = d.offset + n
  BY <1>2, WriteEffect
<1>6. ASSUME NEW o \in Offsets
      PROVE  file'.data[o] =
               IF d.offset <= o /\ o < d.offset + n THEN d.data[o - d.offset]
               ELSE file.data[o]
  BY <1>2, WriteEffect
<1>7. file.size \in Nat /\ initial.size \in Nat
  BY <1>2 DEF TypeOK, Files
<1>8. /\ d \in written' \cup torn'
      /\ written \cup torn \subseteq written' \cup torn'
      /\ written' \cup torn' \subseteq written \cup torn \cup {d}
  OBVIOUS
<1>9. TypeOK'
  <2>1. file'.size <= MAX_FILE_SIZE \/ file'.size = initial.size
    BY <1>2, <1>4, <1>5, <1>7 DEF TypeOK
  <2>2. \A s \in Senders : data_chunk_size(s)' = data_chunk_size(s)
    BY <1>1 DEF data_chunk_size
  <2>3. \A e \in net' : DatagramOK(e)
    BY <1>1, <1>2 DEF TypeOK
  <2>. QED
    BY <1>1, <1>2, <1>5, <2>1, <2>2, <2>3 DEF TypeOK
<1>10. SendersInv'
  BY <1>1, <1>2 DEF SendersInv, SenderOK, SourceOK, LocalOK, ChunkOK, AllSent,
                    SentBy, data_chunk_size
<1>11. OnlyAccepted'
  BY <1>1, <1>2, <1>8 DEF OnlyAccepted
<1>12. FileExact'
  <2>1. ASSUME NEW o \in Offsets
        PROVE  \/ \E e \in written' \cup torn' :
                    Covers(e, o) /\ file'.data[o] = e.data[o - e.offset]
               \/ /\ file'.data[o] = initial.data[o]
                  /\ \A e \in written' : ~Covers(e, o)
    <3>1. CASE d.offset <= o /\ o < d.offset + n
      <4>1. Covers(d, o)
        BY <1>4, <3>1, SizeTAssumption DEF Covers, Offsets
      <4>. QED
        BY <4>1, <3>1, <1>6, <1>8
    <3>2. CASE ~(d.offset <= o /\ o < d.offset + n)
      <4>1. file'.data[o] = file.data[o]
        BY <3>2, <1>6
      <4>2. d \in written' => d \in written \/ ~Covers(d, o)
        BY <3>2, <1>4 DEF Covers
      <4>3. CASE \E e \in written \cup torn :
                    Covers(e, o) /\ file.data[o] = e.data[o - e.offset]
        BY <4>1, <4>3, <1>8
      <4>4. CASE /\ file.data[o] = initial.data[o]
                 /\ \A e \in written : ~Covers(e, o)
        BY <4>1, <4>2, <4>4
      <4>. QED
        BY <4>3, <4>4, <1>2 DEF FileExact
    <3>. QED
      BY <3>1, <3>2
  <2>2. ASSUME NEW e \in written' PROVE End(e) <= file'.size
    <3>1. CASE e \in written
      <4>1. End(e) <= file.size /\ DatagramOK(e) /\ Accepts(e)
        BY <3>1, <1>2 DEF FileExact, OnlyAccepted, TypeOK
      <4>2. End(e) \in Nat
        BY <4>1, AcceptedEnd
      <4>. QED
        BY <4>1, <4>2, <1>5, <1>7
    <3>2. CASE e = d /\ n = Payload(d)
      BY <3>2, <1>4, <1>5
    <3>. QED
      BY <3>1, <3>2
  <2>3. initial.size <= file'.size
    BY <1>2, <1>5, <1>7 DEF FileExact
  <2>4. file'.size # initial.size =>
          \E e \in written' \cup torn' : file'.size <= End(e)
    <3>1. CASE file'.size = d.offset + n
      BY <3>1, <1>4, <1>8
    <3>2. CASE file'.size = file.size
      BY <3>2, <1>2, <1>8 DEF FileExact
    <3>. QED
      BY <3>1, <3>2, <1>5
  <2>. QED
    BY <2>1, <2>2, <2>3, <2>4, <1>1 DEF FileExact
<1>13. AbsentEmpty'
  BY <1>2, <1>5 DEF AbsentEmpty, TypeOK
<1>. QED
  BY <1>9, <1>10, <1>11, <1>12, <1>13 DEF TransferInv

(* The receiver starts: opening its file changes nothing it holds.         *)
LEMMA StartInv ==
  ASSUME TransferInv, StartReceiver
  PROVE  TransferInv'
<1>1. /\ sender' = sender /\ chunk' = chunk /\ source' = source /\ net' = net
      /\ initial' = initial /\ written' = written /\ torn' = torn /\ up' = TRUE
      /\ file' = ram_file_create(file)
  BY DEF StartReceiver, senders
<1>2. TypeOK /\ SendersInv /\ OnlyAccepted /\ AbsentEmpty /\ FileExact
  BY DEF TransferInv
<1>3. file' = IF file.there THEN file
              ELSE [there |-> TRUE, size |-> 0, data |-> [o \in Offsets |-> Zero]]
  BY <1>1, <1>2 DEF ram_file_create, check_if_file_exist, TypeOK, Files
<1>4. /\ file'.there /\ file'.size = file.size
      /\ \A o \in Offsets : file'.data[o] = file.data[o]
  BY <1>2, <1>3 DEF AbsentEmpty, NoFile
<1>5. file' \in Files(Offsets, Byte)
  <2>1. CASE file.there
    BY <1>2, <1>3, <2>1 DEF TypeOK
  <2>2. CASE ~file.there
    <3>1. [o \in Offsets |-> Zero] \in [Offsets -> Byte]
      BY DEF Byte
    <3>. QED
      BY <1>3, <2>2, <3>1 DEF Files
  <2>. QED
    BY <2>1, <2>2
<1>6. TypeOK'
  <2>1. \A s \in Senders : data_chunk_size(s)' = data_chunk_size(s)
    BY <1>1 DEF data_chunk_size
  <2>2. \A e \in net' : DatagramOK(e)
    BY <1>1, <1>2 DEF TypeOK
  <2>. QED
    BY <1>1, <1>2, <1>4, <1>5, <2>1, <2>2 DEF TypeOK
<1>7. SendersInv'
  BY <1>1, <1>2 DEF SendersInv, SenderOK, SourceOK, LocalOK, ChunkOK, AllSent,
                    SentBy, data_chunk_size
<1>8. OnlyAccepted'
  BY <1>1, <1>2 DEF OnlyAccepted
<1>9. FileExact'
  BY <1>1, <1>2, <1>4 DEF FileExact
<1>10. AbsentEmpty'
  BY <1>4 DEF AbsentEmpty
<1>. QED
  BY <1>6, <1>7, <1>8, <1>9, <1>10 DEF TransferInv

(* Stopping changes nothing but that the receiver is down.                 *)
LEMMA StopInv ==
  ASSUME TransferInv, StopReceiver
  PROVE  TransferInv'
<1>1. /\ sender' = sender /\ chunk' = chunk /\ source' = source /\ net' = net
      /\ initial' = initial /\ written' = written /\ torn' = torn
      /\ up' = FALSE /\ file' = file
  BY DEF StopReceiver, senders
<1>2. TypeOK /\ SendersInv /\ OnlyAccepted /\ AbsentEmpty /\ FileExact
  BY DEF TransferInv
<1>3. TypeOK'
  BY <1>1, <1>2 DEF TypeOK, data_chunk_size
<1>4. SendersInv'
  BY <1>1, <1>2 DEF SendersInv, SenderOK, SourceOK, LocalOK, ChunkOK, AllSent,
                    SentBy, data_chunk_size
<1>5. OnlyAccepted' /\ AbsentEmpty' /\ FileExact'
  BY <1>1, <1>2 DEF OnlyAccepted, AbsentEmpty, FileExact
<1>. QED
  BY <1>3, <1>4, <1>5 DEF TransferInv

(* A dropped datagram changes nothing at all.                              *)
LEMMA StutterInv ==
  ASSUME TransferInv, UNCHANGED vars
  PROVE  TransferInv'
<1>1. /\ sender' = sender /\ chunk' = chunk /\ source' = source /\ net' = net
      /\ initial' = initial /\ written' = written /\ torn' = torn
      /\ up' = up /\ file' = file
  BY DEF vars
<1>. QED
  BY <1>1 DEF TransferInv, TypeOK, SendersInv, SenderOK, SourceOK, LocalOK,
              ChunkOK, AllSent, SentBy, data_chunk_size, OnlyAccepted,
              AbsentEmpty, FileExact

(* Whatever the callback does with a datagram.                             *)
LEMMA CallbackInv ==
  ASSUME TransferInv, NEW d \in net, server_data_to_file_callback(d)
  PROVE  TransferInv'
<1>1. up /\ UNCHANGED <<senders, up>>
  BY DEF server_data_to_file_callback
<1>2. CASE UNCHANGED <<file, written, torn>>
  BY <1>1, <1>2, StutterInv DEF senders, vars
<1>3. CASE /\ Accepts(d)
           /\ file' = Written(file, d.offset, d.data, Payload(d))
           /\ written' = written \cup {d}
           /\ UNCHANGED torn
  <2>1. Payload(d) \in 0 .. Payload(d)
    BY <1>3, AcceptedEnd DEF TransferInv, TypeOK
  <2>. QED
    BY <2>1, <1>1, <1>3, WrittenInv
<1>4. CASE /\ Accepts(d)
           /\ \E n \in 0 .. Payload(d) :
                file' = Written(file, d.offset, d.data, n)
           /\ torn' = torn \cup {d}
           /\ UNCHANGED written
  <2>1. PICK n \in 0 .. Payload(d) : file' = Written(file, d.offset, d.data, n)
    BY <1>4
  <2>. QED
    BY <2>1, <1>1, <1>4, WrittenInv
<1>. QED
  BY <1>2, <1>3, <1>4 DEF server_data_to_file_callback

-----------------------------------------------------------------------------
(* The senders.                                                            *)

(* A step of sender s, or of somebody at its file, leaves the rest alone:  *)
(* it is enough to look at what it does to s.                              *)
LEMMA SenderFrame ==
  ASSUME TransferInv, NEW s \in Senders,
         UNCHANGED receiver,
         net \subseteq net',
         \A d \in net' \ net : d.from = s /\ DatagramOK(d),
         sender' \in [Senders -> SenderState],
         DOMAIN chunk' = Senders,
         source' \in [Senders -> Files(Offsets, Byte)],
         \A t \in Senders \ {s} :
           /\ sender'[t] = sender[t]
           /\ chunk'[t] = chunk[t]
           /\ source'[t] = source[t],
         sender'[s].at \in {"stat", "open", "ended"} =>
           ~sender'[s].file_mngr /\ ~sender'[s].net_client,
         SenderOK(s)'
  PROVE  TransferInv'
<1>1. /\ up' = up /\ file' = file /\ initial' = initial
      /\ written' = written /\ torn' = torn
  BY DEF receiver
<1>2. TypeOK /\ SendersInv /\ OnlyAccepted /\ AbsentEmpty /\ FileExact
  BY DEF TransferInv
<1>3. ASSUME NEW t \in Senders \ {s} PROVE SenderOK(t)'
  <2>1. SenderOK(t)
    BY <1>2 DEF SendersInv
  <2>2. SentBy(t)' = SentBy(t)
    BY DEF SentBy
  <2>3. /\ sender'[t] = sender[t] /\ chunk'[t] = chunk[t]
        /\ source'[t] = source[t]
    OBVIOUS
  <2>. QED
    BY <2>1, <2>2, <2>3
       DEF SenderOK, SourceOK, LocalOK, ChunkOK, AllSent, data_chunk_size
<1>4. SendersInv'
  BY <1>3 DEF SendersInv
<1>5. ASSUME NEW t \in Senders, sender'[t].at = "send"
      PROVE  chunk'[t] \in [0 .. data_chunk_size(t)' - 1 -> Byte]
  <2>1. LocalOK(t)'
    BY <1>4 DEF SendersInv, SenderOK
  <2>2. /\ sender'[t].file_offset \in Nat /\ sender'[t].file_size \in Nat
    BY DEF SenderState
  <2>3. /\ sender'[t].file_size <= Half
        /\ sender'[t].file_offset < sender'[t].file_size
        /\ chunk'[t] = [i \in 0 .. data_chunk_size(t)' - 1 |->
                          <<t, sender'[t].file_offset + i>>]
    BY <2>1, <1>5 DEF LocalOK, Half
  <2>4. /\ data_chunk_size(t)' \in Nat
        /\ sender'[t].file_offset + data_chunk_size(t)' <= sender'[t].file_size
    BY <2>2, <2>3, TransferAssumption DEF data_chunk_size
  <2>5. \A i \in 0 .. data_chunk_size(t)' - 1 :
          sender'[t].file_offset + i \in Offsets
    BY <2>2, <2>3, <2>4, HalfFact, SizeTAssumption DEF Offsets
  <2>. QED
    BY <2>3, <2>5 DEF Byte
<1>6. TypeOK'
  <2>1. \A t \in Senders : sender'[t].at \in {"stat", "open", "ended"} =>
          ~sender'[t].file_mngr /\ ~sender'[t].net_client
    BY <1>2 DEF TypeOK
  <2>2. \A d \in net' : DatagramOK(d)
    BY <1>2 DEF TypeOK
  <2>. QED
    BY <1>1, <1>2, <1>5, <2>1, <2>2 DEF TypeOK
<1>7. OnlyAccepted'
  BY <1>1, <1>2 DEF OnlyAccepted
<1>8. AbsentEmpty' /\ FileExact'
  BY <1>1, <1>2 DEF AbsentEmpty, FileExact
<1>. QED
  BY <1>4, <1>6, <1>7, <1>8 DEF TransferInv

(* A sender that returns has what it had; reporting success, it has sent   *)
(* its file.                                                               *)
LEMMA ReturnInv ==
  ASSUME TransferInv, NEW s \in Senders, NEW rc \in {0, -1}, Return(s, rc),
         rc = 0 => sender[s].file_offset = sender[s].file_size,
         UNCHANGED <<chunk, source, net, receiver>>
  PROVE  TransferInv'
<1>1. chunk' = chunk /\ source' = source /\ net' = net /\ UNCHANGED receiver
  OBVIOUS
<1>2. TypeOK /\ SenderOK(s)
  BY DEF TransferInv, SendersInv
<1>3. sender \in [Senders -> SenderState]
  BY <1>2 DEF TypeOK
<1>4. /\ sender' \in [Senders -> SenderState]
      /\ \A t \in Senders \ {s} : sender'[t] = sender[t]
      /\ sender'[s].at = "ended" /\ sender'[s].rc = rc
      /\ sender'[s].file_size = sender[s].file_size
      /\ sender'[s].file_offset = sender[s].file_offset
      /\ sender'[s].file_mngr = FALSE /\ sender'[s].net_client = FALSE
  BY <1>3 DEF Return, SenderState
<1>5. SenderOK(s)'
  <2>1. SourceOK(s)'
    BY <1>1, <1>2 DEF SenderOK, SourceOK
  <2>2. LocalOK(s)'
    BY <1>2, <1>4 DEF SenderOK, LocalOK
  <2>3. \A d \in SentBy(s)' : ChunkOK(s, d)'
    BY <1>1, <1>2, <1>4 DEF SenderOK, ChunkOK, SentBy
  <2>4. AllSent(s)'
    BY <1>1, <1>2, <1>4 DEF SenderOK, AllSent, SentBy
  <2>. QED
    BY <2>1, <2>2, <2>3, <2>4 DEF SenderOK
<1>6. DOMAIN chunk' = Senders /\ source' \in [Senders -> Files(Offsets, Byte)]
  BY <1>1, <1>2 DEF TypeOK
<1>. QED
  BY <1>1, <1>4, <1>5, <1>6, SenderFrame

(* The steps before the loop.                                              *)
LEMMA StatInv ==
  ASSUME TransferInv, NEW s \in Senders, StatFile(s)
  PROVE  TransferInv'
<1>1. UNCHANGED <<chunk, source, net, receiver>> /\ sender[s].at = "stat"
  BY DEF StatFile
<1>2. CASE Return(s, -1)
  BY <1>1, <1>2, ReturnInv
<1>3. CASE sender' = [sender EXCEPT ![s].at = "open",
                        ![s].file_size = source[s].size]
  <2>1. chunk' = chunk /\ source' = source /\ net' = net /\ UNCHANGED receiver
    BY <1>1
  <2>2. TypeOK /\ SenderOK(s)
    BY DEF TransferInv, SendersInv
  <2>3. sender \in [Senders -> SenderState] /\ source[s].size \in Nat
    BY <2>2 DEF TypeOK, Files
  <2>4. /\ sender' \in [Senders -> SenderState]
        /\ \A t \in Senders \ {s} : sender'[t] = sender[t]
        /\ sender'[s].at = "open"
        /\ sender'[s].file_size = source[s].size
        /\ sender'[s].file_offset = sender[s].file_offset
        /\ sender'[s].file_mngr = sender[s].file_mngr
        /\ sender'[s].net_client = sender[s].net_client
    BY <1>3, <2>3 DEF SenderState
  <2>5. sender[s].file_offset = 0 /\ source[s].size <= Half
    BY <1>1, <2>2 DEF SenderOK, LocalOK, SourceOK
  <2>6. SenderOK(s)'
    <3>1. SourceOK(s)'
      BY <2>1, <2>2 DEF SenderOK, SourceOK
    <3>2. LocalOK(s)'
      BY <2>3, <2>4, <2>5, <2>1 DEF LocalOK
    <3>3. \A d \in SentBy(s)' : ChunkOK(s, d)'
      BY <2>1, <2>2, <2>4 DEF SenderOK, ChunkOK, SentBy
    <3>4. AllSent(s)'
      BY <2>4, <2>5 DEF AllSent
    <3>. QED
      BY <3>1, <3>2, <3>3, <3>4 DEF SenderOK
  <2>7. ~sender[s].file_mngr /\ ~sender[s].net_client
    BY <1>1, <2>2 DEF TypeOK
  <2>8. DOMAIN chunk' = Senders /\ source' \in [Senders -> Files(Offsets, Byte)]
    BY <2>1, <2>2 DEF TypeOK
  <2>. QED
    BY <2>1, <2>4, <2>6, <2>7, <2>8, SenderFrame
<1>. QED
  BY <1>2, <1>3 DEF StatFile

(* A step that sends nothing and stays at its offset.                      *)
LEMMA QuietStep ==
  ASSUME TransferInv, NEW s \in Senders, UNCHANGED <<net, receiver>>,
         sender' \in [Senders -> SenderState],
         DOMAIN chunk' = Senders,
         source' \in [Senders -> Files(Offsets, Byte)],
         \A t \in Senders \ {s} :
           /\ sender'[t] = sender[t]
           /\ chunk'[t] = chunk[t]
           /\ source'[t] = source[t],
         sender'[s].at \in {"stat", "open", "ended"} =>
           ~sender'[s].file_mngr /\ ~sender'[s].net_client,
         sender'[s].file_offset = sender[s].file_offset,
         SourceOK(s)', LocalOK(s)'
  PROVE  TransferInv'
<1>1. net' = net /\ UNCHANGED receiver
  OBVIOUS
<1>2. SenderOK(s)
  BY DEF TransferInv, SendersInv
<1>3. \A d \in SentBy(s)' : ChunkOK(s, d)'
  BY <1>1, <1>2 DEF SenderOK, ChunkOK, SentBy
<1>4. AllSent(s)'
  BY <1>1, <1>2 DEF SenderOK, AllSent, SentBy
<1>5. SenderOK(s)'
  BY <1>3, <1>4 DEF SenderOK
<1>. QED
  BY <1>1, <1>5, SenderFrame

(* Opening the file leaves its bytes, or makes it empty.                   *)
LEMMA OpenInv ==
  ASSUME TransferInv, NEW s \in Senders, OpenFile(s)
  PROVE  TransferInv'
<1>1. UNCHANGED <<chunk, net, receiver>> /\ sender[s].at = "open"
  BY DEF OpenFile
<1>2. CASE Return(s, -1) /\ UNCHANGED source
  BY <1>1, <1>2, ReturnInv
<1>3. CASE /\ source' = [source EXCEPT ![s] = ram_file_create(source[s])]
           /\ sender' = [sender EXCEPT ![s].at = "connect", ![s].file_mngr = TRUE]
  <2>1. TypeOK /\ SenderOK(s)
    BY DEF TransferInv, SendersInv
  <2>2. /\ sender \in [Senders -> SenderState]
        /\ source \in [Senders -> Files(Offsets, Byte)]
        /\ DOMAIN chunk = Senders
    BY <2>1 DEF TypeOK
  <2>3. /\ sender' \in [Senders -> SenderState]
        /\ \A t \in Senders \ {s} : sender'[t] = sender[t]
        /\ sender'[s].at = "connect"
        /\ sender'[s].file_size = sender[s].file_size
        /\ sender'[s].file_offset = sender[s].file_offset
    BY <1>3, <2>2 DEF SenderState
  <2>4. source'[s] =
          IF source[s].there THEN source[s]
          ELSE [there |-> TRUE, size |-> 0, data |-> [o \in Offsets |-> Zero]]
    BY <1>3, <2>2 DEF ram_file_create, check_if_file_exist, Files
  <2>5. source'[s] \in Files(Offsets, Byte)
    <3>1. [o \in Offsets |-> Zero] \in [Offsets -> Byte]
      BY DEF Byte
    <3>2. [there |-> TRUE, size |-> 0, data |-> [o \in Offsets |-> Zero]]
            \in Files(Offsets, Byte)
      BY <3>1 DEF Files
    <3>. QED
      BY <2>2, <2>4, <3>2
  <2>6. /\ source' \in [Senders -> Files(Offsets, Byte)]
        /\ \A t \in Senders \ {s} : source'[t] = source[t]
    BY <1>3, <2>2, <2>5
  <2>7. SourceOK(s)'
    <3>1. CASE source[s].there
      BY <3>1, <2>1, <2>4 DEF SenderOK, SourceOK
    <3>2. CASE ~source[s].there
      <4>1. source'[s].size = 0
        BY <3>2, <2>4
      <4>. QED
        BY <4>1, HalfFact, SizeTAssumption DEF SourceOK, Offsets
    <3>. QED
      BY <3>1, <3>2
  <2>8. LocalOK(s)'
    BY <1>1, <2>1, <2>3 DEF SenderOK, LocalOK
  <2>. QED
    BY <1>1, <2>2, <2>3, <2>6, <2>7, <2>8, QuietStep
<1>. QED
  BY <1>2, <1>3 DEF OpenFile

(* Creating the client touches neither file nor network.                   *)
LEMMA ConnectInv ==
  ASSUME TransferInv, NEW s \in Senders, net_client_create(s)
  PROVE  TransferInv'
<1>1. UNCHANGED <<chunk, source, net, receiver>> /\ sender[s].at = "connect"
  BY DEF net_client_create
<1>2. CASE Return(s, -1)
  BY <1>1, <1>2, ReturnInv
<1>3. CASE sender' = [sender EXCEPT ![s].at = "loop", ![s].net_client = TRUE]
  <2>1. TypeOK /\ SenderOK(s)
    BY DEF TransferInv, SendersInv
  <2>2. /\ sender \in [Senders -> SenderState]
        /\ source' \in [Senders -> Files(Offsets, Byte)]
        /\ DOMAIN chunk' = Senders
    BY <1>1, <2>1 DEF TypeOK
  <2>3. /\ sender' \in [Senders -> SenderState]
        /\ \A t \in Senders \ {s} : sender'[t] = sender[t]
        /\ sender'[s].at = "loop"
        /\ sender'[s].file_size = sender[s].file_size
        /\ sender'[s].file_offset = sender[s].file_offset
    BY <1>3, <2>2 DEF SenderState
  <2>4. SourceOK(s)'
    BY <1>1, <2>1 DEF SenderOK, SourceOK
  <2>5. LocalOK(s)'
    BY <2>1, <2>3 DEF SenderOK, LocalOK
  <2>. QED
    BY <1>1, <2>2, <2>3, <2>4, <2>5, QuietStep
<1>. QED
  BY <1>2, <1>3 DEF net_client_create

(* What is read is the file's, or nothing is.                              *)
LEMMA ReadInv ==
  ASSUME TransferInv, NEW s \in Senders, ReadChunk(s)
  PROVE  TransferInv'
<1>. DEFINE offset == sender[s].file_offset
            len    == data_chunk_size(s)
<1>1. UNCHANGED <<source, net, receiver>> /\ sender[s].at = "loop" /\ MoreToSend(s)
  BY DEF ReadChunk
<1>2. CASE Return(s, -1) /\ UNCHANGED chunk
  BY <1>1, <1>2, ReturnInv
<1>3. CASE /\ ReadCheck(source[s], offset, len, sender[s].file_size) = "OK"
           /\ sender' = [sender EXCEPT ![s].at = "send"]
           /\ chunk' = [chunk EXCEPT ![s] = BytesAt(source[s], offset, len)]
  <2>1. TypeOK /\ SenderOK(s)
    BY DEF TransferInv, SendersInv
  <2>2. /\ sender \in [Senders -> SenderState]
        /\ source' \in [Senders -> Files(Offsets, Byte)]
        /\ source[s].size \in Nat
        /\ DOMAIN chunk = Senders
    BY <1>1, <2>1 DEF TypeOK, Files
  <2>3. /\ sender' \in [Senders -> SenderState]
        /\ \A t \in Senders \ {s} : sender'[t] = sender[t]
        /\ sender'[s].at = "send"
        /\ sender'[s].file_size = sender[s].file_size
        /\ sender'[s].file_offset = offset
        /\ offset \in Nat /\ sender[s].file_size \in Nat
    BY <1>3, <2>2 DEF SenderState
  <2>4. /\ DOMAIN chunk' = Senders
        /\ \A t \in Senders \ {s} : chunk'[t] = chunk[t]
        /\ chunk'[s] = BytesAt(source[s], offset, len)
    BY <1>3, <2>2
  <2>5. offset < sender[s].file_size
    BY <1>1 DEF MoreToSend
  <2>6. len \in Nat
    BY <2>3, <2>5, ChunkSize, TransferAssumption
  <2>7. offset + len <= source[s].size
    <3>1. ~(offset + len > source[s].size)
      BY <1>3 DEF ReadCheck
    <3>. QED
      BY <3>1, <2>2, <2>3, <2>6
  <2>8. source[s].size <= Half
    BY <2>1 DEF SenderOK, SourceOK
  <2>9. ASSUME NEW i \in 0 .. len - 1
        PROVE  source[s].data[offset + i] = <<s, offset + i>>
    <3>1. offset + i \in Offsets /\ offset + i < source[s].size
      BY <2>2, <2>3, <2>6, <2>7, <2>8, HalfFact, SizeTAssumption DEF Offsets
    <3>. QED
      BY <3>1, <2>1 DEF SenderOK, SourceOK
  <2>10. chunk'[s] = [i \in 0 .. len - 1 |-> <<s, offset + i>>]
    BY <2>4, <2>9 DEF BytesAt
  <2>11. data_chunk_size(s)' = len
    BY <2>3 DEF data_chunk_size
  <2>12. LocalOK(s)'
    BY <2>1, <2>3, <2>5, <2>10, <2>11 DEF SenderOK, LocalOK
  <2>13. SourceOK(s)'
    BY <1>1, <2>1 DEF SenderOK, SourceOK
  <2>. QED
    BY <1>1, <2>2, <2>3, <2>4, <2>12, <2>13, QuietStep
<1>. QED
  BY <1>2, <1>3 DEF ReadChunk

(* The datagram sent carries the bytes from the offset on, and the offset  *)
(* moves past them.                                                        *)
LEMMA SendInv ==
  ASSUME TransferInv, NEW s \in Senders, SendChunk(s)
  PROVE  TransferInv'
<1>. DEFINE offset == sender[s].file_offset
            len    == data_chunk_size(s)
            d      == Datagram(s, offset, len, chunk[s])
<1>1. UNCHANGED <<chunk, source, receiver>> /\ sender[s].at = "send"
  BY DEF SendChunk
<1>2. CASE Return(s, -1) /\ UNCHANGED net
  BY <1>1, <1>2, ReturnInv
<1>3. CASE /\ net' = net \cup {d}
           /\ sender' = [sender EXCEPT ![s].at = "loop",
                           ![s].file_offset = NextOffset(s)]
  <2>1. TypeOK /\ SenderOK(s)
    BY DEF TransferInv, SendersInv
  <2>2. /\ sender \in [Senders -> SenderState]
        /\ source' \in [Senders -> Files(Offsets, Byte)]
        /\ DOMAIN chunk' = Senders
        /\ chunk[s] \in [0 .. len - 1 -> Byte]
    BY <1>1, <2>1 DEF TypeOK
  <2>3. /\ offset \in Nat /\ sender[s].file_size \in Nat
        /\ offset < sender[s].file_size /\ sender[s].file_size <= Half
        /\ chunk[s] = [i \in 0 .. len - 1 |-> <<s, offset + i>>]
    BY <1>1, <2>1, <2>2 DEF SenderOK, LocalOK, SenderState
  <2>4. /\ len \in 1 .. MAX_FILE_CHUNK_SIZE
        /\ NextOffset(s) \in Nat
        /\ NextOffset(s) <= sender[s].file_size
        /\ NextOffset(s) = offset + len
    BY <2>3, ChunkSize
  <2>5. /\ sender' \in [Senders -> SenderState]
        /\ \A t \in Senders \ {s} : sender'[t] = sender[t]
        /\ sender'[s].at = "loop"
        /\ sender'[s].file_size = sender[s].file_size
        /\ sender'[s].file_offset = offset + len
    BY <1>3, <2>2, <2>4 DEF SenderState
  <2>6. /\ d.from = s /\ d.size = Header + len /\ d.offset = offset
        /\ d.data = chunk[s]
    BY DEF Datagram
  <2>7. /\ Payload(d) = len /\ End(d) = offset + len
        /\ len \in Nat /\ Header \in Nat
    BY <2>4, <2>6, TransferAssumption DEF Payload, End
  <2>8. DatagramOK(d)
    <3>1. offset \in Offsets
      BY <2>3, HalfFact, SizeTAssumption DEF Offsets
    <3>2. d.size \in Nat
      BY <2>6, <2>7
    <3>. HIDE DEF len, offset, d
    <3>. QED
      BY <2>2, <2>6, <2>7, <3>1, <3>2 DEF DatagramOK
  <2>. HIDE DEF len, offset, d
  <2>9. SentBy(s)' = SentBy(s) \cup {d}
    BY <1>3, <2>6 DEF SentBy
  <2>10. ASSUME NEW e \in SentBy(s)' PROVE ChunkOK(s, e)'
    <3>1. CASE e \in SentBy(s)
      <4>1. ChunkOK(s, e) /\ DatagramOK(e)
        BY <2>1, <3>1 DEF SenderOK, TypeOK, SentBy
      <4>2. End(e) \in Int
        BY <4>1, TransferAssumption, SizeTAssumption
           DEF DatagramOK, End, Payload, Offsets
      <4>3. End(e) <= offset
        BY <4>1 DEF ChunkOK, offset
      <4>4. End(e) <= sender'[s].file_offset
        BY <4>2, <4>3, <2>3, <2>5, <2>7
      <4>. QED
        BY <4>1, <4>4 DEF ChunkOK
    <3>2. CASE e = d
      <4>1. ASSUME NEW i \in 0 .. len - 1 PROVE d.data[i] = <<s, d.offset + i>>
        BY <2>3, <2>6
      <4>2. End(d) <= sender'[s].file_offset
        BY <2>3, <2>5, <2>7
      <4>. QED
        BY <3>2, <4>1, <4>2, <2>4, <2>7 DEF ChunkOK
    <3>. QED
      BY <3>1, <3>2, <2>9
  <2>11. AllSent(s)'
    <3>1. ASSUME NEW o \in 0 .. offset + len - 1
          PROVE  \E e \in SentBy(s)' : Covers(e, o)
      <4>1. CASE o < offset
        <5>1. o \in 0 .. offset - 1
          BY <4>1, <2>3, <2>7
        <5>2. PICK e \in SentBy(s) : Covers(e, o)
          BY <5>1, <2>1 DEF SenderOK, AllSent, offset
        <5>. QED
          BY <5>2, <2>9
      <4>2. CASE offset <= o
        <5>1. Covers(d, o)
          BY <4>2, <2>3, <2>6, <2>7 DEF Covers
        <5>. QED
          BY <5>1, <2>9
      <4>. QED
        BY <4>1, <4>2, <2>3, <2>7
    <3>2. 0 .. sender'[s].file_offset - 1 = 0 .. offset + len - 1
      BY <2>3, <2>5, <2>7
    <3>. QED
      BY <3>1, <3>2 DEF AllSent, Covers, End, Payload
  <2>12. LocalOK(s)'
    BY <2>3, <2>4, <2>5 DEF LocalOK
  <2>13. SourceOK(s)'
    BY <1>1, <2>1 DEF SenderOK, SourceOK
  <2>14. SenderOK(s)'
    BY <2>10, <2>11, <2>12, <2>13 DEF SenderOK
  <2>15. /\ net \subseteq net'
         /\ \A e \in net' \ net : e.from = s /\ DatagramOK(e)
    BY <1>3, <2>6, <2>8
  <2>16. /\ UNCHANGED receiver
         /\ \A t \in Senders \ {s} : chunk'[t] = chunk[t] /\ source'[t] = source[t]
    BY <1>1
  <2>. QED
    BY <2>2, <2>5, <2>14, <2>15, <2>16, SenderFrame
<1>. QED
  BY <1>2, <1>3 DEF SendChunk

(* The loop ends exactly at the size of the file.                          *)
LEMMA FinishInv ==
  ASSUME TransferInv, NEW s \in Senders, Finish(s)
  PROVE  TransferInv'
<1>1. TypeOK /\ SenderOK(s)
  BY DEF TransferInv, SendersInv
<1>2. /\ sender[s].file_offset \in Nat /\ sender[s].file_size \in Nat
      /\ sender[s].file_offset <= sender[s].file_size
      /\ ~(sender[s].file_offset < sender[s].file_size)
  BY <1>1 DEF Finish, MoreToSend, TypeOK, SenderState, SenderOK, LocalOK
<1>3. sender[s].file_offset = sender[s].file_size
  BY <1>2
<1>. QED
  BY <1>3, ReturnInv DEF Finish

(* Whoever shortens the file leaves the beginning of it as it was.         *)
LEMMA ShortenInv ==
  ASSUME TransferInv, NEW s \in Senders, Shorten(s)
  PROVE  TransferInv'
<1>1. UNCHANGED <<sender, chunk, net, receiver>>
  BY DEF Shorten
<1>2. TypeOK /\ SenderOK(s)
  BY DEF TransferInv, SendersInv
<1>3. /\ sender' \in [Senders -> SenderState] /\ DOMAIN chunk' = Senders
      /\ source \in [Senders -> Files(Offsets, Byte)]
      /\ source[s].size \in Nat /\ source[s].data \in [Offsets -> Byte]
  BY <1>1, <1>2 DEF TypeOK, Files
<1>4. PICK f : /\ source' = [source EXCEPT ![s] = f]
               /\ \/ f = NoFile(Offsets)
                  \/ \E n \in 0 .. source[s].size - 1 :
                       f = FileOf(n, source[s].data)
  BY DEF Shorten
<1>5. f \in Files(Offsets, Byte) /\ f.size \in Nat /\ f.size <= source[s].size
  <2>1. CASE f = NoFile(Offsets)
    <3>1. [o \in Offsets |-> Zero] \in [Offsets -> Byte]
      BY DEF Byte
    <3>. QED
      BY <2>1, <3>1, <1>3 DEF NoFile, Files
  <2>2. CASE \E n \in 0 .. source[s].size - 1 : f = FileOf(n, source[s].data)
    <3>1. PICK n \in 0 .. source[s].size - 1 : f = FileOf(n, source[s].data)
      BY <2>2
    <3>2. [o \in Offsets |-> IF o < n THEN source[s].data[o] ELSE Zero]
            \in [Offsets -> Byte]
      BY <1>3 DEF Byte
    <3>. QED
      BY <3>1, <3>2, <1>3 DEF FileOf, Files
  <2>. QED
    BY <2>1, <2>2, <1>4
<1>6. ASSUME NEW o \in Offsets, o < f.size
      PROVE  f.data[o] = source[s].data[o]
  <2>1. CASE f = NoFile(Offsets)
    BY <2>1, <1>6, SizeTAssumption DEF NoFile, Offsets
  <2>2. CASE \E n \in 0 .. source[s].size - 1 : f = FileOf(n, source[s].data)
    BY <2>2, <1>6 DEF FileOf
  <2>. QED
    BY <2>1, <2>2, <1>4
<1>7. /\ source' \in [Senders -> Files(Offsets, Byte)] /\ source'[s] = f
      /\ \A t \in Senders \ {s} : source'[t] = source[t]
  BY <1>3, <1>4, <1>5
<1>8. SourceOK(s)'
  <2>1. /\ source[s].size <= Half
        /\ \A o \in Offsets : o < source[s].size => source[s].data[o] = <<s, o>>
    BY <1>2 DEF SenderOK, SourceOK
  <2>2. f.size <= Half
    BY <2>1, <1>3, <1>5, HalfFact
  <2>3. \A o \in Offsets : o < f.size => o < source[s].size
    BY <1>3, <1>5, SizeTAssumption DEF Offsets
  <2>. QED
    BY <1>6, <1>7, <2>1, <2>2, <2>3 DEF SourceOK
<1>9. LocalOK(s)'
  BY <1>1, <1>2 DEF SenderOK, LocalOK, data_chunk_size
<1>10. /\ sender'[s].at \in {"stat", "open", "ended"} =>
            ~sender'[s].file_mngr /\ ~sender'[s].net_client
       /\ sender'[s].file_offset = sender[s].file_offset
       /\ \A t \in Senders \ {s} : sender'[t] = sender[t] /\ chunk'[t] = chunk[t]
  BY <1>1, <1>2 DEF TypeOK
<1>. QED
  BY <1>1, <1>3, <1>7, <1>8, <1>9, <1>10, QuietStep

-----------------------------------------------------------------------------
(* The invariant and what follows from it.                                 *)

(* A file of at most half a size_t, of any bytes, is one.                  *)
LEMMA FileOfType ==
  ASSUME NEW n \in 0 .. SizeT \div 2, NEW data \in [Offsets -> Byte]
  PROVE  FileOf(n, data) \in Files(Offsets, Byte)
<1>1. [o \in Offsets |-> IF o < n THEN data[o] ELSE Zero] \in [Offsets -> Byte]
  BY DEF Byte
<1>2. n \in Nat
  BY SizeTAssumption
<1>. QED
  BY <1>1, <1>2 DEF FileOf, Files

(* The absent file is a file.                                              *)
LEMMA NoFileType == NoFile(Offsets) \in Files(Offsets, Byte)
<1>1. [o \in Offsets |-> Zero] \in [Offsets -> Byte]
  BY DEF Byte
<1>. QED
  BY <1>1 DEF NoFile, Files

(* The invariant holds at the start.                                       *)
LEMMA InitInv == Init => TransferInv
<1>. SUFFICES ASSUME Init PROVE TransferInv
  OBVIOUS
<1>1. ASSUME NEW s \in Senders
      PROVE  /\ sender[s] \in SenderState
             /\ sender[s].at = "stat" /\ sender[s].rc = 0
             /\ sender[s].file_size = 0 /\ sender[s].file_offset = 0
             /\ ~sender[s].file_mngr /\ ~sender[s].net_client
  BY DEF Init, SenderState
<1>2. ASSUME NEW s \in Senders
      PROVE  source[s] \in Files(Offsets, Byte) /\ SourceOK(s)
  <2>1. CASE source[s] = NoFile(Offsets)
    BY <2>1, NoFileType, HalfFact, SizeTAssumption DEF NoFile, SourceOK, Offsets
  <2>2. CASE \E n \in SourceSizes[s] : source[s] = FileOf(n, Content(s))
    <3>1. PICK n \in SourceSizes[s] : source[s] = FileOf(n, Content(s))
      BY <2>2
    <3>2. n \in 0 .. SizeT \div 2
      BY TransferAssumption
    <3>3. Content(s) \in [Offsets -> Byte]
      BY DEF Content, Byte
    <3>4. source[s].size = n /\ \A o \in Offsets : o < n =>
            source[s].data[o] = <<s, o>>
      BY <3>1 DEF FileOf, Content
    <3>. QED
      BY <3>1, <3>2, <3>3, <3>4, FileOfType, SizeTAssumption DEF SourceOK, Half
  <2>3. source[s] \in SourceFiles(s)
    BY DEF Init
  <2>. QED
    BY <2>1, <2>2, <2>3 DEF SourceFiles
<1>3. ASSUME NEW d \in net PROVE DatagramOK(d) /\ d.from = Junk
  <2>1. PICK x \in Strays : d = Stray(x)
    BY DEF Init
  <2>2. x[1] \in Nat /\ x[2] \in Offsets
    BY TransferAssumption
  <2>3. /\ d.from = Junk /\ d.size = x[1] /\ d.offset = x[2]
        /\ d.data = [i \in 0 .. x[1] - Header - 1 |-> Junk]
    BY <2>1 DEF Stray
  <2>. QED
    BY <2>2, <2>3 DEF DatagramOK, Payload, Byte
<1>4. ASSUME NEW s \in Senders PROVE SentBy(s) = {}
  BY <1>3, TransferAssumption DEF SentBy
<1>5. file = initial /\ initial \in Files(Offsets, Byte) /\ AbsentEmpty
  <2>1. file = initial
    BY DEF Init
  <2>2. CASE initial = NoFile(Offsets)
    BY <2>1, <2>2, NoFileType DEF AbsentEmpty
  <2>3. CASE \E n \in OldSizes : initial = FileOf(n, [o \in Offsets |-> Old])
    <3>1. PICK n \in OldSizes : initial = FileOf(n, [o \in Offsets |-> Old])
      BY <2>3
    <3>2. n \in 0 .. SizeT \div 2
      BY TransferAssumption
    <3>3. [o \in Offsets |-> Old] \in [Offsets -> Byte]
      BY DEF Byte
    <3>4. initial.there
      BY <3>1 DEF FileOf
    <3>. QED
      BY <2>1, <3>1, <3>2, <3>3, <3>4, FileOfType DEF AbsentEmpty
  <2>. QED
    BY <2>2, <2>3 DEF Init
<1>6. written = {} /\ torn = {} /\ up = FALSE
  BY DEF Init
<1>7. TypeOK
  <2>1. sender \in [Senders -> SenderState]
    BY DEF Init, SenderState
  <2>2. source \in [Senders -> Files(Offsets, Byte)]
    BY <1>2 DEF Init
  <2>3. DOMAIN chunk = Senders
    BY DEF Init
  <2>. QED
    BY <1>1, <1>3, <1>5, <1>6, <2>1, <2>2, <2>3 DEF TypeOK
<1>8. SendersInv
  <2>1. ASSUME NEW s \in Senders PROVE SenderOK(s)
    <3>1. LocalOK(s)
      BY <1>1, HalfFact DEF LocalOK
    <3>2. AllSent(s)
      BY <1>1 DEF AllSent
    <3>. QED
      BY <1>2, <1>4, <3>1, <3>2 DEF SenderOK
  <2>. QED
    BY <2>1 DEF SendersInv
<1>9. OnlyAccepted
  BY <1>6 DEF OnlyAccepted
<1>10. FileExact
  <2>1. initial.size \in Nat
    BY <1>5 DEF Files
  <2>. QED
    BY <1>5, <1>6, <2>1 DEF FileExact
<1>. QED
  BY <1>5, <1>7, <1>8, <1>9, <1>10 DEF TransferInv

(* Every step keeps the invariant.                                         *)
LEMMA NextInv == TransferInv /\ [Next]_vars => TransferInv'
<1>. SUFFICES ASSUME TransferInv, [Next]_vars PROVE TransferInv'
  OBVIOUS
<1>1. CASE UNCHANGED vars
  BY <1>1, StutterInv
<1>2. CASE StartReceiver
  BY <1>2, StartInv
<1>3. CASE StopReceiver
  BY <1>3, StopInv
<1>4. ASSUME NEW d \in net, server_data_to_file_callback(d)
      PROVE  TransferInv'
  BY <1>4, CallbackInv
<1>5. ASSUME NEW s \in Senders, Shorten(s)
      PROVE  TransferInv'
  BY <1>5, ShortenInv
<1>6. ASSUME NEW s \in Senders, Sender(s)
      PROVE  TransferInv'
  BY <1>6, StatInv, OpenInv, ConnectInv, ReadInv, SendInv, FinishInv DEF Sender
<1>. QED
  BY <1>1, <1>2, <1>3, <1>4, <1>5, <1>6 DEF Next

(* So it always holds.                                                     *)
LEMMA TransferInvariance == Spec => []TransferInv
BY InitInv, NextInv, PTL DEF Spec

(* Every state has its types, and the receiver's file keeps its limit      *)
(* whatever offsets arrive: ram_file_write needs no check of the sum.      *)
THEOREM TransferTypeCorrect == Spec => []TypeOK
<1>1. TransferInv => TypeOK
  BY DEF TransferInv
<1>. QED
  BY <1>1, TransferInvariance, PTL

(* The receiver's file is exact, for every order, loss and repetition of   *)
(* the datagrams, every failing write and every restart.                   *)
THEOREM ReceivedFileExact == Spec => []FileExact
<1>1. TransferInv => FileExact
  BY DEF TransferInv
<1>. QED
  BY <1>1, TransferInvariance, PTL

(* Every datagram of a file within the limit is one the receiver accepts.  *)
LEMMA ChunksAccepted ==
  ASSUME TransferInv, NEW s \in Senders, NEW d \in SentBy(s),
         sender[s].file_size <= MAX_FILE_SIZE
  PROVE  Accepts(d)
<1>1. TypeOK /\ SenderOK(s)
  BY DEF TransferInv, SendersInv
<1>2. /\ sender[s].file_size \in Nat /\ sender[s].file_offset \in Nat
      /\ sender[s].file_offset <= sender[s].file_size
      /\ sender[s].file_size <= Half
  BY <1>1 DEF TypeOK, SenderState, SenderOK, LocalOK
<1>3. DatagramOK(d) /\ ChunkOK(s, d)
  BY <1>1 DEF TypeOK, SenderOK, SentBy
<1>4. /\ d.offset \in Nat /\ Payload(d) \in Nat /\ Payload(d) # 0
      /\ Payload(d) <= MAX_FILE_CHUNK_SIZE /\ End(d) = d.offset + Payload(d)
      /\ End(d) <= sender[s].file_offset
  BY <1>3, SizeTAssumption, TransferAssumption
     DEF DatagramOK, ChunkOK, Offsets, End
<1>5. /\ d.offset + Payload(d) <= Half /\ d.offset + Payload(d) <= MAX_FILE_SIZE
      /\ d.offset < Half
  BY <1>2, <1>4, HalfFact, TransferAssumption
<1>6. (d.offset + Payload(d)) % SizeT = d.offset + Payload(d)
  BY <1>4, <1>5, HalfFact, SizeTAssumption
<1>7. WriteCheck(d.offset, Payload(d), MAX_FILE_SIZE) = "OK"
  <2>1. CanSeek(d.offset)
    BY <1>5 DEF CanSeek, Half
  <2>2. ~(AccessEnd(d.offset, Payload(d)) > MAX_FILE_SIZE)
    BY <1>4, <1>5, <1>6, TransferAssumption DEF AccessEnd
  <2>. QED
    BY <1>4, <2>1, <2>2 DEF WriteCheck, Checked
<1>8. d.size >= Header /\ Payload(d) <= MAX_FILE_BUFFER_SIZE
  BY <1>3, <1>4, TransferAssumption DEF DatagramOK, Payload
<1>. QED
  BY <1>7, <1>8 DEF Accepts

(* Once the datagrams of a sender that has reported success are written,   *)
(* the receiver holds its file where nobody else has written.              *)
LEMMA FileArrived ==
  ASSUME TransferInv, NEW s \in Senders,
         sender[s].at = "ended", sender[s].rc = 0, SentBy(s) \subseteq written,
         NEW o \in 0 .. sender[s].file_size - 1,
         ~\E d \in (written \cup torn) \ SentBy(s) : Covers(d, o)
  PROVE  o < file.size /\ file.data[o] = <<s, o>>
<1>1. TypeOK /\ SenderOK(s) /\ OnlyAccepted /\ FileExact
  BY DEF TransferInv, SendersInv
<1>2. /\ sender[s].file_size \in Nat /\ sender[s].file_size <= Half
      /\ sender[s].file_offset = sender[s].file_size
  BY <1>1 DEF TypeOK, SenderState, SenderOK, LocalOK
<1>3. PICK d \in SentBy(s) : Covers(d, o)
  BY <1>1, <1>2 DEF SenderOK, AllSent
<1>4. DatagramOK(d) /\ Accepts(d) /\ d \in written
  BY <1>1, <1>3 DEF TypeOK, OnlyAccepted, SentBy
<1>5. o \in Offsets
  BY <1>2, HalfFact, SizeTAssumption DEF Offsets
<1>6. o < file.size
  <2>1. End(d) <= file.size /\ End(d) \in Nat /\ file.size \in Nat
    BY <1>1, <1>4, AcceptedEnd DEF FileExact, TypeOK, Files
  <2>. QED
    BY <1>2, <1>3, <2>1 DEF Covers
<1>7. PICK e \in written \cup torn :
        Covers(e, o) /\ file.data[o] = e.data[o - e.offset]
  BY <1>1, <1>3, <1>4, <1>5 DEF FileExact
<1>8. e \in SentBy(s)
  BY <1>7
<1>9. DatagramOK(e) /\ ChunkOK(s, e)
  BY <1>1, <1>8 DEF TypeOK, SenderOK, SentBy
<1>10. o - e.offset \in 0 .. Payload(e) - 1 /\ e.offset + (o - e.offset) = o
  BY <1>2, <1>7, <1>9, SizeTAssumption, TransferAssumption
     DEF Covers, End, DatagramOK, ChunkOK, Offsets
<1>11. e.data[o - e.offset] = <<s, e.offset + (o - e.offset)>>
  BY <1>9, <1>10 DEF ChunkOK
<1>. QED
  BY <1>6, <1>7, <1>10, <1>11

(* A reported success and the arrival of every datagram, in whatever order *)
(* and however often, are a transferred file.                              *)
THEOREM FileTransferred == Spec => []Transferred
<1>1. TransferInv => Transferred
  BY ChunksAccepted, FileArrived DEF Transferred
<1>. QED
  BY <1>1, TransferInvariance, PTL

=============================================================================
