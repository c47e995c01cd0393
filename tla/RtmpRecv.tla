------------------------------ MODULE RtmpRecv ------------------------------
(***************************************************************************)
(* The receiving side of rtmp_client: rtmp_start_play opens the connection *)
(* and starts one thread; the thread runs rtmp_recv_data, which reads the  *)
(* socket into m_pBuffer, skips the handshake bytes, cuts the rest into    *)
(* chunks (rtmp_process_chunk), joins the chunks of a message and hands    *)
(* the message to rtmp_process_message.  TCP delivers any non-empty part   *)
(* of what is in flight.  Each action is one pass of the code from one     *)
(* blocking call, check or chunk to the next; pc says which comes next.    *)
(***************************************************************************)
EXTENDS ChunkWire

CONSTANTS
  MAX_BUF_LEN,    (* bytes m_pBuffer holds, 64K in the code                 *)
  MAX_CHUNK_ID,   (* chunk stream ids from here on are refused, 64          *)
  Uninit          (* values an uninitialised time stamp member may hold     *)

ASSUME RecvAssumption ==
  /\ MAX_BUF_LEN \in Nat /\ S0S1Len + S2Len < MAX_BUF_LEN
  /\ MAX_CHUNK_ID \in 0..64
  /\ Uninit \subseteq Nat /\ Uninit # {}

VARIABLES
  pc,                   (* where the client is                             *)
  rtmp_status,          (* its status; wait_connect stands for all above   *)
                        (* rtmp_status_wait_chunk                          *)
  m_pBuffer,            (* the bytes of the buffer that were written and   *)
                        (* not given up, by index from 0                   *)
  size,                 (* how many bytes from pos on are unread           *)
  pos,                  (* index in m_pBuffer where they start             *)
  m_iParsePos,          (* how many of them this pass has cut into chunks  *)
  rtmp_chunk_max_size,
  rtmp_chunk,           (* per chunk stream: the message being joined      *)
  rtmp_last,            (* rtmp_last_{audio,video}_timestamp, _message_type *)
  received,             (* history: how many bytes recv has returned       *)
  parsed,               (* history: how many chunks were cut off           *)
  delivered             (* history: calls of rtmp_process_message          *)

connVars == <<pc, rtmp_status>>
bufVars  == <<m_pBuffer, size, pos, m_iParsePos, received>>
joinVars == <<rtmp_chunk_max_size, rtmp_chunk, parsed, delivered>>
vars     == <<wireVars, connVars, bufVars, joinVars, rtmp_last>>

PCs == {"start", "recv", "s0s1", "s2", "chunks", "done"}
Statuses == {"init", "send_c0c1", "wait_s0s1", "send_c2", "wait_s2", "wait_connect"}

EmptySlot ==
  [last_message_size |-> 0, message_size |-> 0, message_type |-> NoType,
   time_stamp |-> 0, message_buf |-> <<>>]

Init ==
  /\ WireInit
  /\ pc = "start" /\ rtmp_status = "init"
  /\ m_pBuffer = [i \in {} |-> <<0, 0>>]
  /\ size = 0 /\ pos = 0 /\ m_iParsePos = 0 /\ received = 0
  /\ rtmp_chunk_max_size = 0
  /\ rtmp_chunk = [cs \in Csids |-> EmptySlot]
  /\ parsed = 0 /\ delivered = <<>>
  /\ \E a, v \in Uninit : rtmp_last = [audio |-> a, video |-> v, type |-> NoType]

-----------------------------------------------------------------------------
(* rtmp_start_play: without a socket or a connection it returns -1 and no  *)
(* thread exists; a C0 C1 that could not be sent leaves the status at      *)
(* send_c0c1, and the thread is created all the same.                      *)
StartPlay ==
  /\ pc = "start"
  /\ \/ pc' = "done" /\ UNCHANGED <<rtmp_status, rtmp_chunk_max_size>>
     \/ /\ pc' = "recv"
        /\ rtmp_status' \in {"wait_s0s1", "send_c0c1"}
        /\ rtmp_chunk_max_size' = DefaultChunk
  /\ UNCHANGED <<wireVars, bufVars, rtmp_chunk, parsed, delivered, rtmp_last>>

(* recv returns n bytes, stored behind the unread ones. *)
Filled(n) ==
  [i \in 0..(size + n - 1) |->
     IF i < size THEN m_pBuffer[i] ELSE stream[received + (i - size) + 1]]

Receive(n) ==
  /\ pc = "recv"
  /\ n \in 1..(MAX_BUF_LEN - size)
  /\ received + n <= Len(stream)
  /\ m_pBuffer' = Filled(n)
  /\ size' = size + n
  /\ received' = received + n
  /\ pos' = 0 /\ m_iParsePos' = 0
  /\ pc' = "s0s1"
  /\ UNCHANGED <<wireVars, rtmp_status, joinVars, rtmp_last>>

(* recv returns 0 or -1: the server closed or reset the connection, the 20 *)
(* second time out passed, or the buffer is full and recv was asked for 0  *)
(* bytes.  The thread ends.                                                *)
ReceiveEnds ==
  /\ pc = "recv"
  /\ m_iParsePos' = 0
  /\ pc' = "done"
  /\ UNCHANGED <<wireVars, rtmp_status, m_pBuffer, size, pos, received, joinVars, rtmp_last>>

(* The buffer as the next recv finds it when nothing was copied down: its  *)
(* first n cells are kept, whatever pos and size were meanwhile.           *)
KeepFront(n) == [i \in 0..(n - 1) |-> m_pBuffer[i]]

(* Mutant of CopyDown: a memcpy that copies from the last byte to the      *)
(* first, so that bytes are overwritten before they were copied.           *)
CopyDownBackwards(n) ==
  LET by == pos + m_iParsePos
  IN  [i \in 0..(n - 1) |->
         m_pBuffer[IF by = 0 THEN i ELSE i + by * ((n - 1 - i) \div by + 1)]]

(* memcpy(m_pBuffer, pos + m_iParsePos, n), as the run time library of the *)
(* build does it when source and destination overlap: it moves the bytes.  *)
CopyDown(n) == [i \in 0..(n - 1) |-> m_pBuffer[pos + m_iParsePos + i]]

(* Mutant of S0S1Complete: the number of bytes is not checked. *)
S0S1Begun == size > 0

S0S1Complete == size >= S0S1Len

(* S0 S1 are skipped as soon as they are complete and answered with C2; a  *)
(* failed send ends the thread.                                            *)
HandleS0S1 ==
  /\ pc = "s0s1"
  /\ IF rtmp_status = "wait_s0s1" /\ S0S1Complete
       THEN /\ pos' = pos + S0S1Len
            /\ size' = size - S0S1Len
            /\ \/ rtmp_status' = "wait_s2" /\ pc' = "s2"
               \/ rtmp_status' = "send_c2" /\ pc' = "done"
       ELSE pc' = "s2" /\ UNCHANGED <<pos, size, rtmp_status>>
  /\ UNCHANGED <<wireVars, m_pBuffer, m_iParsePos, received, joinVars, rtmp_last>>

(* The same for S2, answered with connect; the status after it decides     *)
(* whether this pass goes on to the chunks or back to recv.                *)
HandleS2 ==
  /\ pc = "s2"
  /\ IF rtmp_status = "wait_s2" /\ size >= S2Len
       THEN /\ pos' = pos + S2Len
            /\ size' = size - S2Len
            /\ \/ rtmp_status' = "wait_connect" /\ pc' = "chunks"
               \/ pc' = "done" /\ UNCHANGED rtmp_status
            /\ UNCHANGED m_pBuffer
       ELSE /\ IF rtmp_status = "wait_connect"
                 THEN pc' = "chunks" /\ UNCHANGED m_pBuffer
                 ELSE pc' = "recv" /\ m_pBuffer' = KeepFront(size)
            /\ UNCHANGED <<pos, size, rtmp_status>>
  /\ UNCHANGED <<wireVars, m_iParsePos, received, joinVars, rtmp_last>>

-----------------------------------------------------------------------------
(* rtmp_process_chunk.  Bytes it can see, and the header it takes the byte *)
(* at its position for: the k-th chunk's if that is byte 0 of the k-th     *)
(* chunk, and anything at all if it is not the first byte of a chunk.      *)
datalen == size - m_iParsePos

AnyHeader ==
  [fmt : 0..3, cs : Csids, ts : {0}, type : MediaTypes, size : Sizes, val : {0}, pay : {0}]

HeadersAt(byte) == IF byte[1] > 0 /\ byte[2] = 0 THEN {wire[byte[1]]} ELSE AnyHeader

Here == m_pBuffer[pos + m_iParsePos]

(* chunk_header_len, which leaves the basic header's first byte out; no    *)
(* extended time stamp is looked for in format 3.                          *)
chunk_header_len(h) ==
  MessageHeaderLen(h.fmt) + (IF h.fmt # 3 /\ h.ts >= TsExt THEN 4 ELSE 0)

(* The first byte, then the message header, then the four bytes of an      *)
(* extended time stamp have to be there before the header is read.         *)
HeaderComplete(h) == datalen >= chunk_header_len(h) + 1

(* chunk_info.message_size: formats 2 and 3 leave it 0. *)
InfoSize(h) == IF h.fmt \in {0, 1} THEN h.size ELSE 0
InfoType(h) == IF h.fmt \in {0, 1} THEN h.type ELSE NoType

(* Mutant of InfoTime: format 0 is taken for a difference too. *)
InfoTimeAdded(h) == IF h.fmt = 3 THEN 0 ELSE h.ts + rtmp_last.audio

(* The time stamp a header yields: absolute in format 0, in 1 and 2 added  *)
(* to the last one of the same kind, audio or video.                       *)
TimeKind(h) == IF h.fmt = 2 THEN rtmp_last.type ELSE h.type

LastOf(kind) ==
  IF kind = AUDIO THEN rtmp_last.audio ELSE IF kind = VIDEO THEN rtmp_last.video ELSE 0

InfoTime(h) ==
  IF h.fmt = 3 THEN 0 ELSE IF h.fmt = 0 THEN h.ts ELSE h.ts + LastOf(TimeKind(h))

(* rtmp_last after the header was read, complete chunk or not. *)
LastAfter(h) ==
  IF h.fmt = 3 THEN rtmp_last
  ELSE [audio |-> IF TimeKind(h) = AUDIO THEN InfoTime(h) ELSE rtmp_last.audio,
        video |-> IF TimeKind(h) = VIDEO THEN InfoTime(h) ELSE rtmp_last.video,
        type  |-> IF h.fmt = 2 THEN rtmp_last.type ELSE h.type]

(* A message starts when none is being joined on this chunk stream. *)
IsNew(h) == rtmp_chunk[h.cs].last_message_size = 0

Missing(h) == IF IsNew(h) THEN InfoSize(h) ELSE rtmp_chunk[h.cs].last_message_size

chunk_len(h) == Least(Missing(h), rtmp_chunk_max_size)

(* Mutant of ChunkComplete: waits for the byte behind the chunk. *)
ChunkFollowed(h) == datalen > chunk_len(h) + chunk_header_len(h) + 1

ChunkComplete(h) == datalen >= chunk_len(h) + chunk_header_len(h) + 1

Body(h) ==
  [i \in 1..chunk_len(h) |-> m_pBuffer[pos + m_iParsePos + chunk_header_len(h) + i]]

(* Mutant of SlotAfter: the buffer of the last message is not given up.    *)
SlotKeepingBuffer(h) ==
  LET slot == rtmp_chunk[h.cs]
  IN  [last_message_size |-> Missing(h) - chunk_len(h),
       message_size      |-> IF IsNew(h) THEN InfoSize(h) ELSE slot.message_size,
       message_type      |-> IF IsNew(h) THEN InfoType(h) ELSE slot.message_type,
       time_stamp        |-> IF IsNew(h) THEN InfoTime(h) ELSE slot.time_stamp,
       message_buf       |-> slot.message_buf \o Body(h)]

(* The slot of the chunk stream after the chunk was taken in. *)
SlotAfter(h) ==
  LET slot == rtmp_chunk[h.cs]
  IN  [last_message_size |-> Missing(h) - chunk_len(h),
       message_size      |-> IF IsNew(h) THEN InfoSize(h) ELSE slot.message_size,
       message_type      |-> IF IsNew(h) THEN InfoType(h) ELSE slot.message_type,
       time_stamp        |-> IF IsNew(h) THEN InfoTime(h) ELSE slot.time_stamp,
       message_buf       |-> IF ~IsNew(h) THEN slot.message_buf \o Body(h)
                             ELSE IF chunk_len(h) = InfoSize(h) THEN slot.message_buf
                             ELSE Body(h)]

(* Mutant of MessageData: only the last chunk of the message. *)
LastChunkData(h) == Body(h)

(* The bytes rtmp_process_message is called with. *)
MessageData(h) == IF IsNew(h) THEN Body(h) ELSE SlotAfter(h).message_buf

MessageComplete(h) == Missing(h) = chunk_len(h)

-----------------------------------------------------------------------------
(* Mutant of ReceiveAgain: m_iParsePos is not taken off size. *)
ReceiveAgainUncounted ==
  /\ m_pBuffer' = [i \in 0..(size - 1) |->
                     IF i < datalen THEN m_pBuffer[pos + m_iParsePos + i] ELSE m_pBuffer[i]]
  /\ pc' = "recv"
  /\ UNCHANGED <<wireVars, rtmp_status, size, pos, m_iParsePos, received, joinVars>>

(* Not all of the chunk is here: the unread bytes go to the front of the   *)
(* buffer and the thread goes back to recv.  A header that was complete    *)
(* has been read, and has moved rtmp_last.                                 *)
ReceiveAgain ==
  /\ size' = datalen
  /\ m_pBuffer' = CopyDown(datalen)
  /\ pc' = "recv"
  /\ UNCHANGED <<wireVars, rtmp_status, pos, m_iParsePos, received, joinVars>>

BufferConsumed ==
  /\ datalen = 0
  /\ ReceiveAgain
  /\ UNCHANGED rtmp_last

HeaderIncomplete(h) ==
  /\ h.cs < MAX_CHUNK_ID
  /\ ~HeaderComplete(h)
  /\ ReceiveAgain
  /\ UNCHANGED rtmp_last

BodyIncomplete(h) ==
  /\ h.cs < MAX_CHUNK_ID
  /\ HeaderComplete(h) /\ ~ChunkComplete(h)
  /\ rtmp_last' = LastAfter(h)
  /\ ReceiveAgain

(* A chunk stream id of two or three bytes, 64 or more, ends the thread. *)
ChunkIdRefused(h) ==
  /\ h.cs >= MAX_CHUNK_ID
  /\ pc' = "done"
  /\ UNCHANGED <<wireVars, rtmp_status, bufVars, joinVars, rtmp_last>>

TakeChunk(h) ==
  /\ h.cs < MAX_CHUNK_ID
  /\ HeaderComplete(h) /\ ChunkComplete(h)
  /\ rtmp_last' = LastAfter(h)
  /\ rtmp_chunk' = [rtmp_chunk EXCEPT ![h.cs] = SlotAfter(h)]
  /\ m_iParsePos' = m_iParsePos + chunk_len(h) + chunk_header_len(h) + 1
  /\ parsed' = parsed + 1
  /\ UNCHANGED <<wireVars, rtmp_status, m_pBuffer, size, pos, received>>

ChunkJoined(h) ==
  /\ TakeChunk(h)
  /\ ~MessageComplete(h)
  /\ UNCHANGED <<pc, rtmp_chunk_max_size, delivered>>

(* rtmp_process_message: Set Chunk Size takes effect at once, reading its  *)
(* value from the body; the audio, video and command handlers may return   *)
(* -1, which ends the thread; all other messages return 0.                 *)
SetChunkSize(data) == wire[data[1][1]].val

MayFail(type) == type \in {AUDIO, VIDEO, COMMAND}

MessageDelivered(h) ==
  LET slot == SlotAfter(h)
  IN  /\ TakeChunk(h)
      /\ MessageComplete(h)
      /\ delivered' = Append(delivered,
           [cs |-> h.cs, type |-> slot.message_type, size |-> slot.message_size,
            ts |-> slot.time_stamp, data |-> MessageData(h)])
      /\ rtmp_chunk_max_size' =
           IF slot.message_type = SET_CHUNK_SIZE
             THEN SetChunkSize(MessageData(h)) ELSE rtmp_chunk_max_size
      /\ \/ UNCHANGED pc
         \/ MayFail(slot.message_type) /\ pc' = "done"

(* One pass of the loop around rtmp_process_chunk. *)
ProcessChunk ==
  /\ pc = "chunks"
  /\ \/ BufferConsumed
     \/ /\ datalen > 0
        /\ \E h \in HeadersAt(Here) :
             \/ HeaderIncomplete(h) \/ BodyIncomplete(h) \/ ChunkIdRefused(h)
             \/ ChunkJoined(h) \/ MessageDelivered(h)

-----------------------------------------------------------------------------
ServerStep ==
  /\ \/ rtmp_status # "init" /\ rtmp_status # "send_c0c1" /\ (ServerS0S1 \/ ServerS2)
     \/ rtmp_status \in {"wait_s2", "wait_connect"} /\ ServerSends
  /\ UNCHANGED <<connVars, bufVars, joinVars, rtmp_last>>

ReceiveSome == \E n \in 1..(MAX_BUF_LEN - size) : Receive(n)

Next ==
  \/ ServerStep
  \/ StartPlay
  \/ ReceiveSome \/ ReceiveEnds
  \/ HandleS0S1 \/ HandleS2 \/ ProcessChunk

Spec == Init /\ [][Next]_vars

(* The thread keeps running, and recv returns when bytes have arrived, and *)
(* at once when it is asked for none.  Nothing is assumed of the server,   *)
(* of the sends or of the time out.                                        *)
RecvOfNothing == size = MAX_BUF_LEN /\ ReceiveEnds

ThreadStep == ReceiveSome \/ RecvOfNothing \/ HandleS0S1 \/ HandleS2 \/ ProcessChunk

FairSpec == Spec /\ WF_vars(ThreadStep)

-----------------------------------------------------------------------------
(* Types, and which cells of the buffer are in use at each point.          *)
TypeOK ==
  /\ WireTypeOK
  /\ pc \in PCs /\ rtmp_status \in Statuses
  /\ size \in Nat /\ pos \in Nat /\ m_iParsePos \in Nat
  /\ received \in Nat /\ parsed \in Nat
  /\ rtmp_chunk_max_size \in Nat
  /\ rtmp_last \in [audio : Nat, video : Nat, type : Nat]
  /\ rtmp_chunk \in [Csids -> [last_message_size : Nat, message_size : Nat,
                                message_type : Nat, time_stamp : Nat,
                                message_buf : Seq(Bytes)]]
  /\ delivered \in Seq([cs : Csids, type : Nat, size : Nat, ts : Nat,
                         data : Seq(Bytes)])
  /\ m_pBuffer \in [DOMAIN m_pBuffer -> Bytes]
  /\ pc \in {"start", "recv"} => DOMAIN m_pBuffer = 0..(size - 1)
  /\ pc \in {"s0s1", "s2", "chunks"} => DOMAIN m_pBuffer = 0..(pos + size - 1)

(* However TCP cut the stream and however often the buffer was moved down, *)
(* the byte rtmp_process_chunk takes for the next basic header is the      *)
(* first byte of the first chunk it has not read yet.                      *)
ParserAligned ==
  pc = "chunks" /\ datalen > 0 => Here = <<parsed + 1, 0>>

(* Every call of rtmp_process_message is for the next message the server   *)
(* finished, with its chunk stream, type and size and exactly its bytes.   *)
MessagesIntact ==
  /\ Len(delivered) <= Len(Mux.done)
  /\ \A i \in 1..Len(delivered) :
       LET d == delivered[i]
           m == Mux.done[i].msg
       IN  /\ d.cs = Mux.done[i].cs
           /\ d.type = m.type /\ d.size = m.size /\ d.data = m.body

(* A message that started with a format 0 header is handed on with exactly *)
(* the time stamp the server gave it, its extended field included, even    *)
(* when its header was read several times.                                 *)
AbsoluteTimestamps ==
  \A i \in 1..Len(delivered) :
    Mux.done[i].msg.fmt = 0 => delivered[i].ts = Mux.done[i].msg.ts

(* recv is asked for 0 bytes, which ends the thread, only when the chunk   *)
(* at the front of the buffer is longer than the whole buffer: processed   *)
(* bytes and handshake bytes never use up its room.                        *)
FullBufferOnlyForOversizedChunk ==
  pc = "recv" /\ size = MAX_BUF_LEN =>
    /\ rtmp_status = "wait_connect"
    /\ m_pBuffer[0][1] > 0 /\ m_pBuffer[0][2] = 0
    /\ LET c == wire[m_pBuffer[0][1]]
       IN  HeaderLen(c) + c.pay > MAX_BUF_LEN

(* The comment at rtmp_lib.cpp:682 says that the time stamp of a format 1  *)
(* header is relative to the previous chunk: audio and video messages get  *)
(* the sum of the steps the server wrote.                                  *)
RelativeTimestamps ==
  \A i \in 1..Len(delivered) :
    delivered[i].type \in {AUDIO, VIDEO} => delivered[i].ts = Mux.done[i].msg.ts

(* Every message the server finished is handed on in the end, unless the   *)
(* thread ended.                                                           *)
EventuallyDelivered ==
  \A n \in 1..MaxMsgs :
    Len(Mux.done) >= n ~> Len(delivered) >= n \/ pc = "done"

-----------------------------------------------------------------------------
(* The abstract channel: what the server finished, and what was delivered. *)
SentMessages ==
  [i \in 1..Len(Mux.done) |->
     [cs |-> Mux.done[i].cs, type |-> Mux.done[i].msg.type, data |-> Mux.done[i].msg.body]]

DeliveredMessages ==
  [i \in 1..Len(delivered) |->
     [cs |-> delivered[i].cs, type |-> delivered[i].type, data |-> delivered[i].data]]

Channel == INSTANCE MessageChannel
  WITH sent <- SentMessages, got <- DeliveredMessages,
       Message <- [cs : Csids, type : Nat, data : Seq(Bytes)]

(* Receiving implements MessageChannel. *)
ImplementsChannel == Channel!Spec
=============================================================================
