----------------------------- MODULE ClientWire -----------------------------
(***************************************************************************)
(* What the client writes: from the URL over the AMF0 values of each       *)
(* message and their chunks to the bytes on the wire, and what a server    *)
(* that knows the protocol reads there.  The other way round, the client   *)
(* takes the values it needs out of the server's commands.  RtmpSession    *)
(* has the order of the dialogue and its failures; here every Send         *)
(* succeeds.                                                               *)
(***************************************************************************)
EXTENDS Amf0, SplitPack, UrlParse

CONSTANTS
  Urls,          (* [url, app, stream, host, port]: a URL and what it means *)
  MaxUrls,       (* how often rtmp_setupurl is called before the start     *)
  StreamIds,     (* ids the server may give a stream                       *)
  Windows,       (* values of acknowledgement_size                         *)
  InOrder,       (* whether the server answers createStream before the     *)
                 (* requests behind it                                     *)
  Durations,     (* numbers in its answers to those                        *)
  Commands,      (* [body, sound]: commands it may send in between         *)
  MaxCommands    (* how many of those                                      *)

VARIABLES
  pc,                     (* "url", "split", "recv", "done"                *)
  rtmp_url, rtmp_app, rtmp_stream, rtmp_host, rtmp_port,
  rtmp_status, rtmp_now_stream_id, acknowledgement_size,
  meant,                  (* history: the last URL with its meaning        *)
  urls,                   (* how many URLs were set                        *)
  wire,                   (* the bytes sent                                *)
  read,                   (* how many of them the server has read          *)
  chunks,                 (* what the server keeps of each chunk stream    *)
  joined,                 (* the messages the server has joined            *)
  lost_track,             (* the server has come upon what is no header    *)
  answered,               (* 1: it has answered connect, 2: createStream   *)
  others,                 (* the requests behind it has answered           *)
  created,                (* history: the id it gave the stream            *)
  commands,               (* how many other commands it has sent           *)
  reply                   (* the last command it sent, and whether the     *)
                          (* client has still to take it                   *)

urlVars    == <<rtmp_url, rtmp_app, rtmp_stream, rtmp_host, rtmp_port, meant, urls>>
statusVars == <<rtmp_status, rtmp_now_stream_id, acknowledgement_size>>
readVars   == <<read, chunks, joined, lost_track>>
answerVars == <<answered, created, commands, others>>
wireVars   == <<pc, urlVars, statusVars, splitVars, wire, readVars, answerVars, reply>>

NoChunk == [seen |-> FALSE, size |-> 0, type |-> 0, sid |-> 0, body |-> <<>>]

WireInit ==
  /\ pc = "url"
  /\ rtmp_url = <<>> /\ rtmp_app = <<>> /\ rtmp_stream = <<>> /\ rtmp_host = <<>>
  /\ rtmp_port = 0 /\ urls = 0
  /\ meant = [url |-> <<>>, app |-> <<>>, stream |-> <<>>, host |-> <<>>, port |-> 0]
  /\ rtmp_status = "wait_s2" /\ rtmp_now_stream_id = 0 /\ acknowledgement_size \in Windows
  /\ pag_buf = [j \in 0..(BufLen - 1) |-> 0] /\ pushed = pag_buf
  /\ header_len = 0 /\ pag_len = 1 /\ page = 0
  /\ wire = <<>> /\ read = 0 /\ chunks = [cs \in 2..63 |-> NoChunk] /\ joined = <<>>
  /\ lost_track = FALSE /\ answered = 0 /\ created = 0 /\ commands = 0 /\ others = {}
  /\ reply = [body |-> <<>>, sound |-> TRUE, taken |-> TRUE]

-----------------------------------------------------------------------------
SetupUrl(u) ==
  /\ pc = "url" /\ urls < MaxUrls /\ urls' = urls + 1
  /\ meant' = u
  /\ rtmp_url' = u.url
  /\ rtmp_app' = AppOf(u.url, rtmp_app)
  /\ rtmp_stream' = StreamOf(u.url, rtmp_stream)
  /\ rtmp_host' = HostOf(u.url) /\ rtmp_port' = PortOf(u.url)
  /\ UNCHANGED <<pc, statusVars, splitVars, wire, readVars, answerVars, reply>>

-----------------------------------------------------------------------------
(* Messages.  message_len has its four bytes swapped, and the last three   *)
(* of them are copied into the header.                                     *)

Length3(n) == <<n \div 65536>> \o Length2(n % 65536)
Length4(n) == Length2(n \div 65536) \o Length2(n % 65536)

(* Chunk headers of format 0 and 1, with time stamp 0. *)
Header0(csid, len, type, stream_id) ==
  <<csid, 0, 0, 0>> \o Length3(len) \o <<type, stream_id, 0, 0, 0>>

Header1(csid, len, type) == <<64 + csid, 0, 0, 0>> \o Length3(len) \o <<type>>

(* Types of messages. *)
USER_CONTROL == 4
WINDOW_ACK   == 5
COMMAND      == 20

(* The texts of the commands, told apart by a number each. *)
_connect        == Text(1, 7)
_createStream   == Text(2, 12)
_checkbw        == Text(3, 8)
getStreamLength == Text(4, 15)
_play           == Text(5, 4)
_result         == Text(6, 7)

(* A command begins with its name, which fits the 256 bytes it is copied   *)
(* to.                                                                     *)
NamedCommand(body) ==
  \E n \in 0..255 : Len(body) >= n + 3 /\ SubSeq(body, 1, 3) = <<2>> \o Length2(n)

(* BufLen leaves room for connect with the longest URL and application.    *)
(* The server's commands that answer no request are no results, and have a *)
(* name if they are sound.                                                 *)
ASSUME WireAssumption ==
  /\ BufLen >= 786 /\ ct = 195
  /\ \A u \in Urls : IsUrl(u)
  /\ MaxUrls \in Nat /\ MaxCommands \in Nat
  /\ StreamIds \subseteq Nat /\ Windows \subseteq Nat /\ Durations \subseteq Nat
  /\ InOrder \in BOOLEAN
  /\ \A c \in Commands : /\ c.body \in Seq(Nat)
                         /\ Len(c.body) >= 10 => SubSeq(c.body, 4, 10) # _result
                         /\ c.sound => NamedCommand(c.body)

(* What is read of rtmp_app. *)
AppText == CText(rtmp_app)

(* The values of connect; app and tcUrl are what the URL gave. *)
ConnectItems ==
  <<String(_connect), Number(1), ObjectBegin,
    PropName(Text(11, 3)),  String(AppText),
    PropName(Text(12, 8)),  String(Text(13, 13)),
    PropName(Text(14, 5)),  String(rtmp_url),
    PropName(Text(15, 4)),  Bool(FALSE),
    PropName(Text(16, 12)), Number(15),
    PropName(Text(17, 11)), Number(4071),
    PropName(Text(18, 11)), Number(252),
    PropName(Text(19, 13)), Number(1),
    ObjectEnd>>

(* Mutant of Body: a buffer that is too small for connect. *)
BodyCramped(size, header, items) == PushAll(256 - header, items)

(* A body behind a header in a buffer of size bytes. *)
Body(size, header, items) == PushAll(size - header, items)

connect ==
  LET body == Body(BufLen, 12, ConnectItems)
  IN  Header0(3, Len(body), COMMAND, 0) \o body

win_ack_size == Header0(2, 4, WINDOW_ACK, 0) \o Length4(acknowledgement_size)

create_stream ==
  LET body == Body(1008, 8, <<String(_createStream), Number(2), Null>>)
  IN  Header1(3, Len(body), COMMAND) \o body

checkbw ==
  LET body == Body(975, 8, <<String(_checkbw), Number(3), Null>>)
  IN  Header1(3, Len(body), COMMAND) \o body

get_stream_length ==
  LET body == Body(1024, 12, <<String(getStreamLength), Number(4), Null, String(rtmp_stream)>>)
  IN  Header0(8, Len(body), COMMAND, 0) \o body

play(stream_id) ==
  LET body == Body(1024, 12, <<String(_play), Number(5), Null, String(rtmp_stream), Number(-2000)>>)
  IN  Header0(8, Len(body), COMMAND, stream_id % 256) \o body

Set_buffer_length == Header1(2, 10, USER_CONTROL) \o <<0, 3, 0, 0, 0, 1>> \o Length4(3000)

-----------------------------------------------------------------------------
(* rtmp_send_to_server_connect, once the handshake is over: the message is *)
(* built, split and sent.                                                  *)
BuildConnect ==
  /\ pc = "url" /\ urls > 0 /\ pc' = "split"
  /\ \E message \in {connect} :
       Split([j \in 0..(BufLen - 1) |-> IF j < Len(message) THEN message[j + 1] ELSE 0],
             12, Len(message))
  /\ UNCHANGED <<urlVars, statusVars, wire, readVars, answerVars, reply>>

MoveConnect ==
  /\ pc = "split" /\ MovePage
  /\ UNCHANGED <<pc, urlVars, statusVars, wire, readVars, answerVars, reply>>

SendConnect ==
  /\ pc = "split" /\ page = 0
  /\ pc' = "recv"
  /\ wire' = wire \o [i \in 1..SplitLen |-> pag_buf[i - 1]]
  /\ rtmp_status' = "wait_connect"
  /\ UNCHANGED <<urlVars, rtmp_now_stream_id, acknowledgement_size, splitVars, readVars,
                 answerVars, reply>>

(* Mutant of ResultNumbers: the null in between is not popped. *)
ResultNumbersShort(src) ==
  LET trans == PopNumber(src)
  IN  IF trans.ret < 0 THEN Failed ELSE PopNumber(Rest(src, trans.ret))

(* What rtmp_process_cmd_0x14_create_stream_result pops: a number, null,   *)
(* and the id of the stream.                                               *)
ResultNumbers(src) ==
  LET trans == PopNumber(src)
      null  == PopNull(Rest(src, trans.ret))
  IN  IF trans.ret < 0 THEN Failed
      ELSE IF null.ret < 0 THEN Failed
      ELSE PopNumber(Rest(src, trans.ret + null.ret))

(* rtmp_process_cmd_0x14, and the two handlers it calls.                   *)
HandleCommand ==
  LET name    == PopString(reply.body, 256)
      numbers == ResultNumbers(Rest(reply.body, name.ret))
      result  == name.val = _result
  IN  /\ pc = "recv" /\ ~reply.taken
      /\ reply' = [reply EXCEPT !.taken = TRUE]
      /\ \/ /\ \/ name.ret < 0
               \/ result /\ rtmp_status = "wait_create_stream" /\ numbers.ret < 0
            /\ pc' = "done"
            /\ UNCHANGED <<wire, rtmp_status, rtmp_now_stream_id>>
         \/ /\ name.ret > 0
            /\ ~result \/ rtmp_status = "wait_play"
            /\ UNCHANGED <<pc, wire, rtmp_status, rtmp_now_stream_id>>
         \/ /\ result /\ rtmp_status = "wait_connect"
            /\ wire' = wire \o win_ack_size \o create_stream \o checkbw
            /\ rtmp_status' = "wait_create_stream"
            /\ UNCHANGED <<pc, rtmp_now_stream_id>>
         \/ /\ result /\ rtmp_status = "wait_create_stream" /\ numbers.ret > 0
            /\ rtmp_now_stream_id' = DoubleOf(numbers.val)
            /\ wire' = wire \o get_stream_length \o play(rtmp_now_stream_id') \o Set_buffer_length
            /\ rtmp_status' = "wait_play"
            /\ UNCHANGED pc
      /\ UNCHANGED <<urlVars, acknowledgement_size, splitVars, readVars, answerVars>>

-----------------------------------------------------------------------------
(* The server (external) reads chunk after chunk, of at most 128 bytes     *)
(* each: the client never announces another size.                          *)
Format  == wire[read + 1] \div 64
Csid    == wire[read + 1] % 64
Kept    == chunks[Csid]
IsChunk == wire[read + 1] < 256 /\ Csid >= 2 /\ (Format > 0 => Kept.seen)

ChunkHeader == <<12, 8, 4, 1>>[Format + 1]

WireAt(i) == wire[read + i]

MessageSize ==
  IF Format < 2 THEN WireAt(5) * 65536 + WireAt(6) * 256 + WireAt(7) ELSE Kept.size

Begun   == IF Format < 3 THEN <<>> ELSE Kept.body
Payload == IF MessageSize - Len(Begun) < 128 THEN MessageSize - Len(Begun) ELSE 128

CanRead ==
  /\ ~lost_track /\ read < Len(wire)
  /\ IsChunk => /\ read + ChunkHeader <= Len(wire)
                /\ read + ChunkHeader + Payload <= Len(wire)

ServerReads ==
  /\ CanRead
  /\ IF ~IsChunk
       THEN lost_track' = TRUE /\ UNCHANGED <<read, chunks, joined>>
       ELSE LET body == Begun \o SubSeq(wire, read + ChunkHeader + 1, read + ChunkHeader + Payload)
                now  == [seen |-> TRUE, size |-> MessageSize,
                         type |-> IF Format < 2 THEN WireAt(8) ELSE Kept.type,
                         sid  |-> IF Format = 0 THEN WireAt(9) ELSE Kept.sid, body |-> body]
                complete == Len(body) = MessageSize
            IN  /\ read' = read + ChunkHeader + Payload
                /\ chunks' = [chunks EXCEPT ![Csid] = IF complete THEN [now EXCEPT !.body = <<>>]
                                                      ELSE now]
                /\ joined' = IF complete
                               THEN Append(joined, [type |-> now.type, sid |-> now.sid, body |-> body])
                               ELSE joined
                /\ UNCHANGED lost_track
  /\ UNCHANGED <<pc, urlVars, statusVars, splitVars, wire, answerVars, reply>>

Says(body, sound) ==
  /\ reply.taken /\ pc = "recv"
  /\ reply' = [body |-> body, sound |-> sound, taken |-> FALSE]
  /\ UNCHANGED <<pc, urlVars, statusVars, splitVars, wire, readVars>>

Join(items) == PushAll(65536, items)

(* A _result without a number and one with a number. *)
Unnumbered(request)  == Join(<<String(_result), Number(request), Null>>)
Numbered(request, v) == Join(<<String(_result), Number(request), Null, Number(v)>>)

(* One for connect, the first message, once it is there, and for           *)
(* createStream, the third. *)
ServerAnswers ==
  \/ /\ answered = 0 /\ Len(joined) >= 1 /\ answered' = 1
     /\ Says(Join(<<String(_result), Number(1), ObjectBegin, PropName(Text(21, 5)), Number(3),
                    ObjectEnd, Null>>), TRUE)
     /\ UNCHANGED <<created, commands, others>>
  \/ /\ answered = 1 /\ Len(joined) >= 3 /\ answered' = 2
     /\ \E id \in StreamIds :
          /\ Says(Numbered(2, id), TRUE)
          /\ created' = id
     /\ UNCHANGED <<commands, others>>

OtherResults(request) == {Unnumbered(request)} \cup {Numbered(request, v) : v \in Durations}

(* One for _checkbw, the fourth message, or getStreamLength, the fifth,    *)
(* once it is there; if not in order, before that for createStream too.    *)
ServerAnswersOther ==
  /\ answered = 2 \/ (answered = 1 /\ ~InOrder)
  /\ \E n \in {4, 5} \ others :
       /\ Len(joined) >= n /\ others' = others \cup {n}
       /\ \E body \in OtherResults(n - 1) : Says(body, TRUE)
  /\ UNCHANGED <<answered, created, commands>>

ServerCommands ==
  /\ commands < MaxCommands /\ commands' = commands + 1
  /\ \E c \in Commands : Says(c.body, c.sound)
  /\ UNCHANGED <<answered, created, others>>

ThreadRuns   == BuildConnect \/ MoveConnect \/ SendConnect \/ HandleCommand
ServerServes == ServerReads \/ ServerAnswers

WireNext ==
  \/ \E u \in Urls : SetupUrl(u)
  \/ ThreadRuns \/ ServerServes \/ ServerCommands \/ ServerAnswersOther

WireSpec == WireInit /\ [][WireNext]_wireVars

WireFairSpec == WireSpec /\ WF_wireVars(ThreadRuns) /\ WF_wireVars(ServerServes)

-----------------------------------------------------------------------------
(* Types; every message fits the buffer it is built in.  The members the   *)
(* URL is copied to hold it because it is one that fits.                   *)
WireTypeOK ==
  /\ pc \in {"url", "split", "recv", "done"}
  /\ rtmp_status \in {"wait_s2", "wait_connect", "wait_create_stream", "wait_play"}
  /\ page \in Nat /\ pag_len \in 1..BufLen
  /\ pc = "split" => Room(header_len, pag_len)
  /\ read \in 0..Len(wire) /\ rtmp_now_stream_id \in {0} \cup StreamIds \cup Durations
  /\ Len(rtmp_stream) < 128 /\ Len(rtmp_app) < 32 /\ Len(rtmp_url) < 512

(* Host, port, application and stream are what the URL means.              *)
UrlUnderstood ==
  urls > 0 => /\ rtmp_host = meant.host /\ rtmp_port = meant.port
              /\ AppText = meant.app /\ rtmp_stream = meant.stream

(* What a reader finds in the body of a command: its values in order, the  *)
(* names and the end of an object among them.                              *)
Value(kind, val) == [kind |-> kind, val |-> val]

(* A reader of a body: how far it has come, what it expects there, and     *)
(* what it has found.                                                      *)
Reader(at, mode, values) == [at |-> at, mode |-> mode, values |-> values]

Found(r, len, value, mode) == Reader(r.at + len, mode, Append(r.values, value))

(* The length in two bytes, and a text of n bytes. *)
LengthAt(b, i)  == b[i] * 256 + b[i + 1]
TextAt(b, i, n) == SubSeq(b, i, i + n - 1)

ReadOne(b, r) ==
  LET i       == r.at + 1
      next    == IF r.mode = "top" THEN "top" ELSE "name"
      Damaged == Found(r, Len(b) - r.at, Value("damaged", <<>>), "top")
  IN  IF r.at >= Len(b) THEN r
      ELSE IF r.mode = "name" THEN
        IF i + 2 > Len(b) \/ i + 1 + LengthAt(b, i) > Len(b) THEN Damaged
        ELSE IF LengthAt(b, i) > 0
          THEN Found(r, 2 + LengthAt(b, i), Value("name", TextAt(b, i + 2, LengthAt(b, i))), "value")
        ELSE IF b[i + 2] = 9 THEN Found(r, 3, Value("end", <<>>), "top")
        ELSE Damaged
      ELSE IF b[i] = 0 /\ i + 8 <= Len(b)
        THEN Found(r, 9, Value("number", <<DoubleOf(SwapBytes(TextAt(b, i + 1, 8)))>>), next)
      ELSE IF b[i] = 1 /\ i < Len(b) THEN Found(r, 2, Value("bool", <<b[i + 1]>>), next)
      ELSE IF b[i] = 2 /\ i + 2 <= Len(b) /\ i + 2 + LengthAt(b, i + 1) <= Len(b)
        THEN Found(r, 3 + LengthAt(b, i + 1),
                   Value("string", TextAt(b, i + 3, LengthAt(b, i + 1))), next)
      ELSE IF b[i] = 3 THEN Found(r, 1, Value("object", <<>>), "name")
      ELSE IF b[i] = 5 THEN Found(r, 1, Value("null", <<>>), next)
      ELSE Damaged

(* These values, and nothing behind them. *)
Holds(b, values) ==
  LET after[k \in 0..Len(values)] ==
        IF k = 0 THEN Reader(0, "top", <<>>) ELSE ReadOne(b, after[k - 1])
  IN  after[Len(values)] = Reader(Len(b), "top", values)

Str(s)  == Value("string", s)
Num(v)  == Value("number", <<v>>)
Prop(s) == Value("name", s)
Nothing == Value("null", <<>>)

Command(sid, values) == [type |-> COMMAND, sid |-> sid, content |-> values]

(* The messages of the dialogue, with what the URL means in them.          *)
Meant ==
  <<Command(0, <<Str(_connect), Num(1), Value("object", <<>>),
                 Prop(Text(11, 3)), Str(meant.app), Prop(Text(12, 8)), Str(Text(13, 13)),
                 Prop(Text(14, 5)), Str(meant.url), Prop(Text(15, 4)), Value("bool", <<0>>),
                 Prop(Text(16, 12)), Num(15), Prop(Text(17, 11)), Num(4071),
                 Prop(Text(18, 11)), Num(252), Prop(Text(19, 13)), Num(1),
                 Value("end", <<>>)>>),
    [type |-> WINDOW_ACK, sid |-> 0, content |-> Length4(acknowledgement_size)],
    Command(0, <<Str(_createStream), Num(2), Nothing>>),
    Command(0, <<Str(_checkbw), Num(3), Nothing>>),
    Command(0, <<Str(getStreamLength), Num(4), Nothing, Str(meant.stream)>>),
    Command(created, <<Str(_play), Num(5), Nothing, Str(meant.stream), Num(-2000)>>),
    [type |-> USER_CONTROL, sid |-> 0, content |-> <<0, 3, 0, 0, 0, 1, 0, 0, 11, 184>>]>>

(* The server reads the messages of the dialogue, with the application,    *)
(* address and stream of the URL and the id of its own stream in them, and *)
(* never comes upon a byte that is no chunk header where one should be.    *)
(* Only if it does not answer in order, play may name what another answer  *)
(* said instead of the stream.                                             *)
ServerGetsMeant ==
  /\ ~lost_track
  /\ Len(joined) <= Len(Meant)
  /\ \A i \in 1..Len(joined) :
       /\ joined[i].type = Meant[i].type
       /\ joined[i].sid = Meant[i].sid \/ (~InOrder /\ i = 6 /\ joined[i].sid \in Durations)
       /\ IF joined[i].type = COMMAND THEN Holds(joined[i].body, Meant[i].content)
                                      ELSE joined[i].body = Meant[i].content

(* The result in hand is none of createStream's and has no number; to come *)
(* before createStream's it takes a server that does not answer in order.  *)
Misled == ~InOrder /\ reply.body \in {Unnumbered(3), Unnumbered(4)}

(* A damaged command ends the thread, and of the sound ones only a result  *)
(* without a number, taken for that of createStream because it came before *)
(* it (rtmp_lib.cpp:582-599): never one of a server that answers in order. *)
EndsOnlyOnDamage == pc = "done" => ~reply.sound \/ Misled

(* The server gets the whole dialogue, up to the request to play and the   *)
(* buffer length, unless what it sent ended the thread.                    *)
DialogueHeard == pc = "recv" ~> Len(joined) = 7 \/ (pc = "done" /\ (~reply.sound \/ Misled))
=============================================================================
