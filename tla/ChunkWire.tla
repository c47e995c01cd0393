------------------------------ MODULE ChunkWire ------------------------------
(***************************************************************************)
(* The server's end of the connection: an RTMP chunk multiplexer and the   *)
(* TCP byte stream it writes.  None of it is in the repository; it is      *)
(* modelled from what rtmp_recv_data and rtmp_process_chunk (rtmp_lib.cpp) *)
(* expect to read: S0 S1, S2, and then messages cut into chunks, each with *)
(* a one byte basic header and an 11, 7, 3 or 0 byte message header.       *)
(*                                                                         *)
(* A byte is the pair <<k, i>>: byte i (from 0) of the k-th chunk, k = 0   *)
(* for the handshake.  What a byte says is looked up in wire[k], so a      *)
(* reader that looks at the wrong byte reads the wrong thing.              *)
(***************************************************************************)
EXTENDS Integers, Sequences

CONSTANTS
  S0S1Len,       (* bytes of S0 and S1 together, 1537 in the code          *)
  S2Len,         (* bytes of S2, 1536 in the code                          *)
  DefaultChunk,  (* chunk size before any Set Chunk Size, 128 in the code  *)
  TsExt,         (* time stamps from here on use the extended field,       *)
                 (* 0xffffff in the code                                   *)
  Csids,         (* chunk stream ids the server uses                       *)
  StartFmts,     (* header formats with which it starts a message          *)
  MediaTypes,    (* message types it sends, Set Chunk Size apart           *)
  Sizes,         (* body sizes of those messages                           *)
  ChunkSizes,    (* values its Set Chunk Size messages carry               *)
  Deltas,        (* time stamp steps between messages of a chunk stream    *)
  RepeatExtended, (* TRUE: the server repeats the extended field in the    *)
                 (* chunks of format 3, as some do and others do not       *)
  MaxMsgs        (* how many messages it starts                            *)

ASSUME WireAssumption ==
  /\ S0S1Len \in Nat \ {0} /\ S2Len \in Nat \ {0} /\ DefaultChunk \in Nat \ {0}
  /\ TsExt \in Nat \ {0} /\ MaxMsgs \in Nat
  /\ Csids \subseteq Nat \ {0, 1}
  /\ StartFmts \subseteq 0..2
  /\ MediaTypes \subseteq Nat \ {0, 1}
  /\ Sizes \subseteq Nat /\ ChunkSizes \subseteq Nat \ {0} /\ Deltas \subseteq Nat
  /\ RepeatExtended \in BOOLEAN

VARIABLES
  stream,  (* every byte written to the connection so far, in order       *)
  wire,    (* the chunks written so far                                    *)
  mux      (* mux[k]: the multiplexer before it wrote the k-th chunk, at   *)
           (* byte at of the stream                                        *)

wireVars == <<stream, wire, mux>>

(* Message types rtmp_process_message tells apart. *)
NoType         == 0
SET_CHUNK_SIZE == 1
AUDIO          == 8
VIDEO          == 9
COMMAND        == 20

Least(a, b) == IF a <= b THEN a ELSE b

(* A chunk header has the four byte extended time stamp when the three     *)
(* byte field of its message's header is full; format 3 has no such field  *)
(* of its own, and servers differ in whether they repeat the four bytes.   *)
Extended(c) == c.ts >= TsExt /\ (c.fmt = 3 => RepeatExtended)

(* Bytes of the message header a chunk of format fmt has. *)
MessageHeaderLen(fmt) == <<11, 7, 3, 0>>[fmt + 1]

(* Bytes of the basic header: ids from 64 need one or two bytes more. *)
BasicHeaderLen(cs) == IF cs < 64 THEN 1 ELSE IF cs < 320 THEN 2 ELSE 3

HeaderLen(c) ==
  BasicHeaderLen(c.cs) + MessageHeaderLen(c.fmt) + (IF Extended(c) THEN 4 ELSE 0)

ChunkBytes(k, c) == [i \in 1..(HeaderLen(c) + c.pay) |-> <<k, i - 1>>]
Payload(k, c)    == [i \in 1..c.pay |-> <<k, HeaderLen(c) + i - 1>>]

-----------------------------------------------------------------------------
(* What the multiplexer remembers of the last message of a chunk stream:   *)
(* ts is its time stamp, at the time stamp field its header had; rem bytes *)
(* of it are still to be written, body holds the ones written.             *)
NoMessage ==
  [type |-> NoType, size |-> 0, val |-> 0, fmt |-> 0, at |-> 0, ts |-> 0, rem |-> 0,
   body |-> <<>>]

Bytes    == Nat \X Nat
Messages == [type : Nat, size : Nat, val : Nat, fmt : 0..2, at : Nat, ts : Nat,
             rem : Nat, body : Seq(Bytes)]
Chunks   == [fmt : 0..3, cs : Csids, ts : Nat, type : Nat, size : Nat, val : Nat, pay : Nat]
MuxStates == [at : Nat, max : Nat \ {0}, open : [Csids -> Messages],
              done : Seq([cs : Csids, msg : Messages]), started : Nat]

MessageKinds ==
  [type : {SET_CHUNK_SIZE}, size : {4}, val : ChunkSizes]
    \cup [type : MediaTypes, size : Sizes, val : {0}]

WireInit ==
  /\ stream = <<>>
  /\ wire = <<>>
  /\ mux = << [at |-> S0S1Len + S2Len, max |-> DefaultChunk,
               open |-> [cs \in Csids |-> NoMessage], done |-> <<>>, started |-> 0] >>

Mux == mux[Len(mux)]

(* Every variable of the server has its type. *)
WireTypeOK == stream \in Seq(Bytes) /\ wire \in Seq(Chunks) /\ mux \in Seq(MuxStates)

(* The server answers C0 C1 with S0 S1, and sends S2 at once or later. *)
ServerS0S1 ==
  /\ stream = <<>>
  /\ stream' = [i \in 1..S0S1Len |-> <<0, i - 1>>]
  /\ UNCHANGED <<wire, mux>>

ServerS2 ==
  /\ Len(stream) = S0S1Len
  /\ stream' = stream \o [i \in 1..S2Len |-> <<0, S0S1Len + i - 1>>]
  /\ UNCHANGED <<wire, mux>>

(* The chunk with header format fmt that carries the next bytes of message *)
(* m on stream cs.                                                         *)
ChunkOf(cs, fmt, m) ==
  [fmt |-> fmt, cs |-> cs, ts |-> m.at, type |-> m.type, size |-> m.size,
   val |-> m.val, pay |-> Least(m.rem, Mux.max)]

(* What is known of message m after chunk k, which is c, was written, and  *)
(* the multiplexer whose state was old.                                    *)
Sent(k, c, m) == [m EXCEPT !.rem = @ - c.pay, !.body = @ \o Payload(k, c)]

AfterChunk(k, old, c, m) ==
  LET sent == Sent(k, c, m)
      over == sent.rem = 0
  IN  [at      |-> old.at + HeaderLen(c) + c.pay,
       max     |-> IF over /\ m.type = SET_CHUNK_SIZE THEN m.val ELSE old.max,
       open    |-> [old.open EXCEPT ![c.cs] = sent],
       done    |-> IF over THEN Append(old.done, [cs |-> c.cs, msg |-> sent]) ELSE old.done,
       started |-> old.started + (IF c.fmt = 3 THEN 0 ELSE 1)]

Write(c, m) ==
  /\ wire' = Append(wire, c)
  /\ stream' = stream \o ChunkBytes(Len(wire) + 1, c)
  /\ mux' = Append(mux, AfterChunk(Len(wire) + 1, Mux, c, m))

(* A new message starts with a full header, or with a shorter one that     *)
(* takes the stream id (1), and the size and type too (2), from the last   *)
(* message of the same chunk stream; its time stamp is then a difference.  *)
StartMessage(cs, fmt, kind, delta) ==
  LET last == Mux.open[cs]
      m == [type |-> kind.type, size |-> kind.size, val |-> kind.val, fmt |-> fmt,
            at |-> IF fmt = 0 THEN last.ts + delta ELSE delta,
            ts |-> last.ts + delta, rem |-> kind.size, body |-> <<>>]
  IN  /\ Len(stream) >= S0S1Len + S2Len
      /\ Mux.started < MaxMsgs
      /\ last.rem = 0
      /\ fmt # 0 => last.type # NoType
      /\ fmt = 2 => kind.type = last.type /\ kind.size = last.size
      /\ Write(ChunkOf(cs, fmt, m), m)

(* The rest of a message follows in chunks of format 3, between which the  *)
(* chunks of other streams may come.                                       *)
ContinueMessage(cs) ==
  /\ Mux.open[cs].rem > 0
  /\ Write(ChunkOf(cs, 3, Mux.open[cs]), Mux.open[cs])

ServerSends ==
  \/ \E cs \in Csids, fmt \in StartFmts, kind \in MessageKinds, delta \in Deltas :
       StartMessage(cs, fmt, kind, delta)
  \/ \E cs \in Csids : ContinueMessage(cs)
=============================================================================
