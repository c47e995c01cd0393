------------------------ MODULE ClientDialogueProofs ------------------------
(***************************************************************************)
(* What a server that answers in order hears, for a URL that is set once,  *)
(* every window and every stream id of one byte: the messages of the       *)
(* dialogue, in order and with what they mean.  The invariant says where   *)
(* each message lies on the wire, where the server stands, what it keeps   *)
(* of connect between two chunks, and that what it has joined is meant.    *)
(***************************************************************************)
EXTENDS ClientWireProofs

-----------------------------------------------------------------------------
(* What the server reads.  The messages lie on the wire one behind the     *)
(* other, connect in chunks; the server stands at the end of one, or       *)
(* between two chunks of connect.                                          *)
ConnectLen  == 166 + Len(rtmp_url) + Len(AppText)

(* Chunks of connect behind the first.                                     *)
More == (ConnectLen - 1) \div 128

(* Where connect ends, and how far behind that message i does.             *)
ConnectEnd == 12 + ConnectLen + More
Behind7 == LET s == Len(rtmp_stream)
           IN  <<0, 16, 49, 78, s + 121, 2 * s + 162, 2 * s + 180>>
EndOf(i) == ConnectEnd + Behind7[i]

(* The message to be split is connect.                                     *)
BuiltInv ==
  pc = "split" => /\ header_len = 12 /\ pag_len = Len(connect)
                  /\ \A j \in 0..(Len(connect) - 1) : pushed[j] = connect[j + 1]

(* connect lies on the wire in chunks.                                     *)
PageLies(k) ==
  \A t \in 1..128 :
    128 * k + t <= ConnectLen => wire[12 + 129 * k + t] = ConnectBody[128 * k + t]

ConnectLies ==
  /\ \E h : IsHeader0(h, 3, ConnectLen, COMMAND, 0) /\ LiesAt(wire, 0, h)
  /\ \A k \in 1..More : wire[12 + 129 * k] = 195
  /\ \A k \in 0..More : PageLies(k)

SentInv ==
  /\ pc \in {"recv", "done"} => ConnectLies /\ Len(wire) >= ConnectEnd
  /\ rtmp_status = "wait_connect" => Len(wire) = EndOf(1)
  /\ rtmp_status \in {"wait_create_stream", "wait_play"} =>
       /\ LiesAt(wire, EndOf(1), win_ack_size)
       /\ LiesAt(wire, EndOf(2), create_stream)
       /\ LiesAt(wire, EndOf(3), checkbw)
  /\ rtmp_status = "wait_create_stream" => Len(wire) = EndOf(4)
  /\ rtmp_status = "wait_play" =>
       /\ LiesAt(wire, EndOf(4), get_stream_length)
       /\ LiesAt(wire, EndOf(5), play(created))
       /\ LiesAt(wire, EndOf(6), Set_buffer_length)
       /\ Len(wire) = EndOf(7)

(* So much of connect the server keeps after p chunks of it.               *)
Partly(p) ==
  [seen |-> TRUE, size |-> ConnectLen, type |-> COMMAND, sid |-> 0,
   body |-> SubSeq(ConnectBody, 1, 128 * p)]

Known(cs) == chunks[cs].seen /\ chunks[cs].sid = 0

StandsInv ==
  \/ joined = <<>> /\ read = 0
  \/ joined = <<>> /\ \E p \in 1..More : read = 11 + 129 * p /\ chunks[3] = Partly(p)
  \/ /\ Len(joined) \in 1..7 /\ read = EndOf(Len(joined))
     /\ Known(3) /\ (Len(joined) > 1 => Known(2))

Message == [type : Nat, sid : Nat, body : Seq(Nat)]

(* Message i of the dialogue is heard as it was meant.                     *)
HeardAs(i, m) ==
  /\ m.type = Meant[i].type /\ m.sid = Meant[i].sid
  /\ IF m.type = COMMAND THEN Holds(m.body, Meant[i].content) ELSE m.body = Meant[i].content

HeardInv ==
  /\ ~lost_track /\ joined \in Seq(Message)
  /\ StandsInv
  /\ \A i \in 1..Len(joined) : HeardAs(i, joined[i])

(* The chunk the server reads next, field by field, and what becomes of    *)
(* it: the message has grown to text.                                      *)
NextChunk(csid, head, size, type, sid, begun, n) ==
  /\ wire[read + 1] < 256 /\ IsChunk
  /\ Csid = csid /\ ChunkHeader = head /\ MessageSize = size
  /\ Begun = begun /\ Payload = n
  /\ (IF Format < 2 THEN WireAt(8) ELSE Kept.type) = type
  /\ (IF Format = 0 THEN WireAt(9) ELSE Kept.sid) = sid

GrownTo(csid, size, type, sid, text) ==
  IF Len(text) = size
    THEN /\ chunks' = [chunks EXCEPT ![csid] =
                         [seen |-> TRUE, size |-> size, type |-> type, sid |-> sid, body |-> <<>>]]
         /\ joined' = Append(joined, [type |-> type, sid |-> sid, body |-> text])
    ELSE /\ chunks' = [chunks EXCEPT ![csid] =
                         [seen |-> TRUE, size |-> size, type |-> type, sid |-> sid, body |-> text]]
         /\ joined' = joined

ReadOn(csid, head, size, type, sid, n, text) ==
  /\ lost_track' = lost_track /\ read' = read + head + n
  /\ GrownTo(csid, size, type, sid, text)

(* The text once the payload of the chunk is behind what there was.        *)
Lengthened(begun, head, n) == begun \o SubSeq(wire, read + head + 1, read + head + n)

LEMMA ReadsChunk ==
  ASSUME ServerReads, NEW csid, NEW head, NEW size, NEW type, NEW sid, NEW begun, NEW n,
         NextChunk(csid, head, size, type, sid, begun, n),
         NEW text, text = Lengthened(begun, head, n)
  PROVE  ReadOn(csid, head, size, type, sid, n, text)
<1>1. IsChunk /\ Csid = csid /\ ChunkHeader = head /\ MessageSize = size /\ Begun = begun /\ Payload = n
  BY DEF NextChunk
<1>2. /\ (IF Format < 2 THEN WireAt(8) ELSE Kept.type) = type
      /\ (IF Format = 0 THEN WireAt(9) ELSE Kept.sid) = sid
  BY DEF NextChunk
<1>3. PICK now : now = [seen |-> TRUE, size |-> size, type |-> type, sid |-> sid, body |-> text]
  OBVIOUS
<1>4. /\ lost_track' = lost_track /\ read' = read + head + n
      /\ chunks' = [chunks EXCEPT ![csid] = IF Len(text) = size THEN [now EXCEPT !.body = <<>>] ELSE now]
      /\ joined' = IF Len(text) = size
                     THEN Append(joined, [type |-> now.type, sid |-> now.sid, body |-> text])
                     ELSE joined
  BY <1>1, <1>2, <1>3 DEF ServerReads, Lengthened
<1>5. now.type = type /\ now.sid = sid
  BY ONLY <1>3
<1>6. PICK done : done = [now EXCEPT !.body = <<>>]
  OBVIOUS
<1>7. done = [seen |-> TRUE, size |-> size, type |-> type, sid |-> sid, body |-> <<>>]
  BY ONLY <1>3, <1>6
<1>8. CASE Len(text) = size
  BY ONLY <1>4, <1>5, <1>6, <1>7, <1>8 DEF ReadOn, GrownTo
<1>9. CASE Len(text) # size
  BY ONLY <1>3, <1>4, <1>9 DEF ReadOn, GrownTo
<1> QED BY <1>8, <1>9

(* Where a header of format 0 or 1 lies.                                   *)
LEMMA HeaderThere ==
  ASSUME BytesInv, NEW h \in Seq(Nat), NEW m \in 8..12, Len(h) = m, LiesAt(wire, read, h),
         NEW b \in Nat, h[1] = b
  PROVE  /\ wire[read + 1] = b
         /\ WireAt(5) = h[5] /\ WireAt(6) = h[6] /\ WireAt(7) = h[7] /\ WireAt(8) = h[8]
         /\ m > 8 => WireAt(9) = h[9]
<1>1. \A k \in 1..m : wire[read + k] = h[k]
  BY DEF LiesAt
<1>2. 1 \in 1..m /\ 5 \in 1..m /\ 6 \in 1..m /\ 7 \in 1..m /\ 8 \in 1..m /\ (m > 8 => 9 \in 1..m)
  OBVIOUS
<1> QED BY ONLY <1>1, <1>2, h[1] = b DEF WireAt

Least(len) == IF len < 128 THEN len ELSE 128

LEMMA Chunk0 ==
  ASSUME BytesInv, NEW h, NEW csid \in 2..63, NEW len \in Nat, NEW type, NEW sid,
         IsHeader0(h, csid, len, type, sid), LiesAt(wire, read, h)
  PROVE  NextChunk(csid, 12, len, type, sid, <<>>, Least(len))
<1>1. h \in Seq(Nat) /\ Len(h) = 12 /\ h[1] = csid
  BY DEF IsHeader0
<1>2. PICK m \in 8..12 : m = 12
  OBVIOUS
<1>3. /\ wire[read + 1] = csid
      /\ WireAt(5) = h[5] /\ WireAt(6) = h[6] /\ WireAt(7) = h[7] /\ WireAt(8) = h[8]
      /\ WireAt(9) = h[9]
  BY <1>1, <1>2, HeaderThere
<1>4. csid < 256 /\ csid >= 2 /\ csid \div 64 = 0 /\ csid % 64 = csid
  OBVIOUS
<1>5. Format = 0 /\ Csid = csid
  BY ONLY <1>3, <1>4 DEF Format, Csid
<1>6. IsChunk /\ wire[read + 1] < 256
  BY ONLY <1>3, <1>4, <1>5 DEF IsChunk
<1>7. ChunkHeader = 12
  BY ONLY <1>5 DEF ChunkHeader
<1>8. MessageSize = len
  BY ONLY <1>3, <1>5, IsHeader0(h, csid, len, type, sid) DEF MessageSize, IsHeader0
<1>9. Begun = <<>>
  BY ONLY <1>5 DEF Begun
<1>10. Payload = Least(len)
  BY ONLY <1>8, <1>9, len \in Nat DEF Payload, Least
<1>11. WireAt(8) = type /\ WireAt(9) = sid
  BY ONLY <1>3, IsHeader0(h, csid, len, type, sid) DEF IsHeader0
<1> QED BY ONLY <1>5, <1>6, <1>7, <1>8, <1>9, <1>10, <1>11 DEF NextChunk

LEMMA Chunk1 ==
  ASSUME BytesInv, NEW h, NEW csid \in 2..63, NEW len \in Nat, NEW type, NEW sid,
         IsHeader1(h, csid, len, type), LiesAt(wire, read, h),
         chunks[csid].seen, chunks[csid].sid = sid
  PROVE  NextChunk(csid, 8, len, type, sid, <<>>, Least(len))
<1>1. h \in Seq(Nat) /\ Len(h) = 8 /\ h[1] = 64 + csid
  BY DEF IsHeader1
<1>2. PICK m \in 8..12, b \in Nat : m = 8 /\ b = 64 + csid
  OBVIOUS
<1>3. /\ wire[read + 1] = b
      /\ WireAt(5) = h[5] /\ WireAt(6) = h[6] /\ WireAt(7) = h[7] /\ WireAt(8) = h[8]
  BY <1>1, <1>2, HeaderThere
<1>4. b < 256 /\ csid >= 2 /\ b \div 64 = 1 /\ b % 64 = csid
  BY <1>2
<1>5. Format = 1 /\ Csid = csid
  BY ONLY <1>3, <1>4 DEF Format, Csid
<1>6. IsChunk /\ wire[read + 1] < 256
  BY ONLY <1>3, <1>4, <1>5, chunks[csid].seen DEF IsChunk, Kept
<1>7. ChunkHeader = 8
  BY ONLY <1>5 DEF ChunkHeader
<1>8. MessageSize = len
  BY ONLY <1>3, <1>5, IsHeader1(h, csid, len, type) DEF MessageSize, IsHeader1
<1>9. Begun = <<>>
  BY ONLY <1>5 DEF Begun
<1>10. Payload = Least(len)
  BY ONLY <1>8, <1>9, len \in Nat DEF Payload, Least
<1>11. WireAt(8) = type /\ Kept.sid = sid
  BY ONLY <1>3, <1>5, chunks[csid].sid = sid, IsHeader1(h, csid, len, type) DEF IsHeader1, Kept
<1> QED BY ONLY <1>5, <1>6, <1>7, <1>8, <1>9, <1>10, <1>11 DEF NextChunk

LEMMA Chunk3 ==
  ASSUME wire[read + 1] = 195, NEW kept, kept = chunks[3], kept.seen,
         NEW n, n = IF kept.size - Len(kept.body) < 128 THEN kept.size - Len(kept.body) ELSE 128
  PROVE  NextChunk(3, 1, kept.size, kept.type, kept.sid, kept.body, n)
<1>1. 195 < 256 /\ 195 \div 64 = 3 /\ 195 % 64 = 3
  OBVIOUS
<1>2. Format = 3 /\ Csid = 3
  BY ONLY <1>1, wire[read + 1] = 195 DEF Format, Csid
<1>3. Kept = kept
  BY ONLY <1>2, kept = chunks[3] DEF Kept
<1>4. IsChunk /\ wire[read + 1] < 256
  BY ONLY <1>1, <1>2, <1>3, wire[read + 1] = 195, kept.seen DEF IsChunk
<1>5. ChunkHeader = 1
  BY ONLY <1>2 DEF ChunkHeader
<1>6. MessageSize = kept.size /\ Begun = kept.body
  BY ONLY <1>2, <1>3 DEF MessageSize, Begun
<1>7. Payload = n
  BY ONLY <1>6, n = IF kept.size - Len(kept.body) < 128 THEN kept.size - Len(kept.body) ELSE 128
     DEF Payload
<1> QED BY ONLY <1>2, <1>3, <1>4, <1>5, <1>6, <1>7 DEF NextChunk

(* A message of one chunk.                                                 *)
Joined(csid, len, type, sid, body, n) ==
  /\ lost_track' = lost_track /\ read' = read + n
  /\ chunks' = [chunks EXCEPT ![csid] =
                  [seen |-> TRUE, size |-> len, type |-> type, sid |-> sid, body |-> <<>>]]
  /\ joined' = Append(joined, [type |-> type, sid |-> sid, body |-> body])

LEMMA BothLie ==
  ASSUME NEW b \in Seq(Nat), NEW p \in Nat, NEW s \in Seq(Nat), NEW t \in Seq(Nat), NEW n \in Nat,
         Len(s) = n, NEW m, m = s \o t, LiesAt(b, p, m)
  PROVE  LiesAt(b, p, s) /\ LiesAt(b, p + n, t)
<1>1. m \in Seq(Nat) /\ LiesAt(m, 0, s) /\ LiesAt(m, n, t)
  BY LiesCat
<1>2. PICK zero \in Nat : zero = 0
  OBVIOUS
<1>3. LiesAt(b, p + zero, s) /\ LiesAt(b, p + n, t)
  <2>1. LiesAt(m, zero, s)
    BY <1>1, <1>2
  <2>2. LiesAt(b, p + zero, s)
    BY ONLY <1>1, <2>1, b \in Seq(Nat), p \in Nat, s \in Seq(Nat), zero \in Nat, LiesAt(b, p, m), LiesIn
  <2>3. LiesAt(b, p + n, t)
    BY ONLY <1>1, b \in Seq(Nat), p \in Nat, t \in Seq(Nat), n \in Nat, LiesAt(b, p, m), LiesIn
  <2> QED BY ONLY <2>2, <2>3
<1>4. p + zero = p
  BY <1>2
<1> QED BY ONLY <1>3, <1>4

LEMMA WholeText ==
  ASSUME BytesInv, NEW head \in Nat, NEW body \in Seq(Nat), NEW len \in Nat, Len(body) = len,
         LiesAt(wire, read + head, body)
  PROVE  body = Lengthened(<<>>, head, len)
<1>1. PICK p \in Nat : p = read + head
  BY DEF BytesInv
<1>2. SubSeq(wire, p + 1, p + len) = body
  BY <1>1, LiesSub DEF BytesInv
<1>3. <<>> \o body = body
  OBVIOUS
<1> QED BY ONLY <1>1, <1>2, <1>3 DEF Lengthened

LEMMA Reads0 ==
  ASSUME BytesInv, ServerReads, NEW csid \in 2..63, NEW len \in Nat, len <= 128, NEW type, NEW sid,
         NEW body, NEW m, Message0(m, csid, len, type, sid, body), LiesAt(wire, read, m)
  PROVE  Joined(csid, len, type, sid, body, 12 + len)
<1>1. PICK h : IsHeader0(h, csid, len, type, sid) /\ m = h \o body /\ body \in Seq(Nat) /\ Len(body) = len
  BY DEF Message0
<1>2. h \in Seq(Nat) /\ Len(h) = 12
  BY <1>1 DEF IsHeader0
<1>3. PICK n \in Nat : n = 12
  OBVIOUS
<1>4. LiesAt(wire, read, h) /\ LiesAt(wire, read + n, body)
  BY ZenonT(30), <1>1, <1>2, <1>3, BothLie DEF BytesInv
<1>5. NextChunk(csid, n, len, type, sid, <<>>, len)
  <2>1. Least(len) = len
    BY DEF Least
  <2> QED BY <1>1, <1>3, <1>4, <2>1, Chunk0
<1>6. body = Lengthened(<<>>, n, len)
  BY <1>1, <1>4, WholeText
<1>7. ReadOn(csid, n, len, type, sid, len, body)
  <2>1. PICK none : none = <<>>
    OBVIOUS
  <2>2. NextChunk(csid, n, len, type, sid, none, len)
    BY ONLY <1>5, <2>1
  <2>3. body = Lengthened(none, n, len)
    BY ONLY <1>6, <2>1
  <2> QED BY ONLY <2>2, <2>3, ServerReads, ReadsChunk
<1>8. read' = read + (12 + len)
  BY <1>3, <1>7 DEF BytesInv, ReadOn
<1> QED BY <1>1, <1>7, <1>8 DEF ReadOn, GrownTo, Joined

LEMMA Reads1 ==
  ASSUME BytesInv, ServerReads, NEW csid \in 2..63, NEW len \in Nat, len <= 128, NEW type,
         NEW body, NEW m, Message1(m, csid, len, type, body), LiesAt(wire, read, m), Known(csid)
  PROVE  Joined(csid, len, type, 0, body, 8 + len)
<1>1. PICK h : IsHeader1(h, csid, len, type) /\ m = h \o body /\ body \in Seq(Nat) /\ Len(body) = len
  BY DEF Message1
<1>2. h \in Seq(Nat) /\ Len(h) = 8
  BY <1>1 DEF IsHeader1
<1>3. PICK n \in Nat, zero \in Nat : n = 8 /\ zero = 0
  OBVIOUS
<1>4. LiesAt(wire, read, h) /\ LiesAt(wire, read + n, body)
  BY ZenonT(30), <1>1, <1>2, <1>3, BothLie DEF BytesInv
<1>5. NextChunk(csid, n, len, type, zero, <<>>, len)
  <2>1. Least(len) = len
    BY DEF Least
  <2>2. chunks[csid].seen /\ chunks[csid].sid = zero
    BY <1>3 DEF Known
  <2> QED BY <1>1, <1>3, <1>4, <2>1, <2>2, Chunk1
<1>6. body = Lengthened(<<>>, n, len)
  BY <1>1, <1>4, WholeText
<1>7. ReadOn(csid, n, len, type, zero, len, body)
  <2>1. PICK none : none = <<>>
    OBVIOUS
  <2>2. NextChunk(csid, n, len, type, zero, none, len)
    BY ONLY <1>5, <2>1
  <2>3. body = Lengthened(none, n, len)
    BY ONLY <1>6, <2>1
  <2> QED BY ONLY <2>2, <2>3, ServerReads, ReadsChunk
<1>8. read' = read + (8 + len)
  BY <1>3, <1>7 DEF BytesInv, ReadOn
<1> QED BY <1>1, <1>3, <1>7, <1>8 DEF ReadOn, GrownTo, Joined

(* Sizes and places.                                                       *)
LEMMA Sizes ==
  ASSUME UrlInv
  PROVE  /\ ConnectLen \in Nat /\ ConnectLen >= 166 /\ More \in Nat /\ More >= 1
         /\ 128 * More < ConnectLen /\ ConnectLen <= 128 * (More + 1)
         /\ ConnectEnd \in Nat /\ ConnectEnd = 12 + ConnectLen + More
<1>1. PICK u \in Nat, a \in Nat : u = Len(rtmp_url) /\ a = Len(AppText)
  BY SMTT(30), AppTextType DEF UrlInv
<1>2. PICK n \in Nat : n = ConnectLen /\ n = 166 + u + a
  BY <1>1 DEF ConnectLen
<1>3. PICK p \in Nat : p = (n - 1) \div 128 /\ p * 128 < n /\ n <= (p + 1) * 128
  BY ONLY <1>2, n \in Nat, u \in Nat, a \in Nat, PageCount
<1>4. More = p
  BY <1>2, <1>3 DEF More
<1>5. p >= 1
  BY ONLY <1>2, <1>3, n \in Nat, u \in Nat, a \in Nat, p \in Nat
<1> QED BY <1>2, <1>3, <1>4, <1>5 DEF ConnectEnd

LEMMA Places ==
  ASSUME UrlInv, NEW s \in Nat, s = Len(rtmp_stream), NEW e \in Nat, e = ConnectEnd
  PROVE  /\ EndOf(1) = e /\ EndOf(2) = e + 16 /\ EndOf(3) = e + 49 /\ EndOf(4) = e + 78
         /\ EndOf(5) = e + s + 121 /\ EndOf(6) = e + 2 * s + 162 /\ EndOf(7) = e + 2 * s + 180
<1>1. PICK b : b = <<0, 16, 49, 78, s + 121, 2 * s + 162, 2 * s + 180>>
  OBVIOUS
<1>2. b = Behind7
  BY <1>1 DEF Behind7
<1>3. /\ b[1] = 0 /\ b[2] = 16 /\ b[3] = 49 /\ b[4] = 78
      /\ b[5] = s + 121 /\ b[6] = 2 * s + 162 /\ b[7] = 2 * s + 180
  BY ONLY <1>1
<1> QED BY <1>2, <1>3 DEF EndOf

LEMMA ConnectIs ==
  ASSUME UrlInv
  PROVE  /\ ConnectBody \in Seq(Nat) /\ Len(ConnectBody) = ConnectLen
         /\ Holds(ConnectBody, ConnectValues)
         /\ \E h : IsHeader0(h, 3, ConnectLen, COMMAND, 0) /\ connect = h \o ConnectBody
<1>1. PICK h, body : \E len \in Nat :
           /\ connect = h \o body /\ body = ConnectBody /\ IsHeader0(h, 3, len, COMMAND, 0)
           /\ len = 166 + Len(rtmp_url) + Len(AppText)
           /\ body \in Seq(Nat) /\ Len(body) = len /\ Holds(body, ConnectValues)
  BY ConnectMessage
<1>2. PICK len \in Nat :
           /\ connect = h \o body /\ body = ConnectBody /\ IsHeader0(h, 3, len, COMMAND, 0)
           /\ len = ConnectLen
           /\ body \in Seq(Nat) /\ Len(body) = len /\ Holds(body, ConnectValues)
  BY <1>1 DEF ConnectLen
<1> QED BY ONLY <1>2

(* The front of a text grows by what lies on the wire.                     *)
Lengthens(b, a, w, q, n) ==
  SubSeq(b, 1, a) \o SubSeq(w, q + 1, q + n) = SubSeq(b, 1, a + n)

LEMMA FrontLengthens ==
  ASSUME NEW b \in Seq(Nat), NEW a \in Nat, NEW n \in Nat, a + n <= Len(b),
         NEW w \in Seq(Nat), NEW q \in Nat, q + n <= Len(w),
         \A t \in 1..n : w[q + t] = b[a + t]
  PROVE  Lengthens(b, a, w, q, n)
<1>1. PICK f, g, c : f = SubSeq(b, 1, a) /\ g = SubSeq(w, q + 1, q + n) /\ c = f \o g
  OBVIOUS
<1>2. f \in Seq(Nat) /\ Len(f) = a /\ \A k \in 1..a : f[k] = b[k]
  <2>1. f = SubSeq(b, 1, a) /\ a <= Len(b)
    BY ONLY <1>1, b \in Seq(Nat), a \in Nat, n \in Nat, a + n <= Len(b)
  <2>2. f \in Seq(Nat) /\ Len(f) = a
    BY ONLY <2>1, b \in Seq(Nat), a \in Nat
  <2>3. ASSUME NEW k \in 1..a PROVE f[k] = b[k]
    BY ONLY <2>1, b \in Seq(Nat), a \in Nat, k \in 1..a
  <2> QED BY ONLY <2>2, <2>3
<1>3. g \in Seq(Nat) /\ Len(g) = n /\ \A t \in 1..n : g[t] = w[q + t]
  <2>1. g = SubSeq(w, q + 1, q + n)
    BY ONLY <1>1
  <2>2. g \in Seq(Nat) /\ Len(g) = n
    BY ONLY <2>1, w \in Seq(Nat), q \in Nat, n \in Nat, q + n <= Len(w)
  <2>3. ASSUME NEW t \in 1..n PROVE g[t] = w[q + t]
    BY ONLY <2>1, w \in Seq(Nat), q \in Nat, n \in Nat, q + n <= Len(w), t \in 1..n
  <2> QED BY ONLY <2>2, <2>3
<1>4. Joins(c, f, a, g, n)
  BY ONLY <1>1, <1>2, <1>3, a \in Nat, n \in Nat, CatAt
<1>5. c \in Seq(Nat) /\ Len(c) = a + n /\ \A k \in 1..(a + n) : b[k] = c[k]
  <2>1. c \in Seq(Nat) /\ Len(c) = a + n
    BY ONLY <1>4 DEF Joins
  <2>2. ASSUME NEW k \in 1..(a + n) PROVE b[k] = c[k]
    <3>1. CASE k <= a
      BY SMTT(30), <1>2, <1>4, <3>1 DEF Joins
    <3>2. CASE k > a
      <4>1. PICK t \in 1..n : k = a + t
        BY <3>2
      <4>2. c[k] = g[t]
        BY ONLY <1>4, <4>1, n \in Nat, k \in 1..(a + n) DEF Joins
      <4> QED BY <1>3, <4>1, <4>2
    <3> QED BY <3>1, <3>2
  <2> QED BY <2>1, <2>2
<1>6. SubSeq(b, 1, Len(c)) = c
  BY ONLY <1>5, b \in Seq(Nat), a + n <= Len(b), FrontIs
<1>7. c = SubSeq(b, 1, a + n)
  BY ONLY <1>5, <1>6
<1> QED BY ONLY <1>1, <1>7 DEF Lengthens

(* The payload of chunk p of connect continues what was there.             *)
Continues(p, n) ==
  SubSeq(ConnectBody, 1, 128 * p) \o SubSeq(wire, 12 + 129 * p + 1, 12 + 129 * p + n)
    = SubSeq(ConnectBody, 1, 128 * p + n)

LEMMA PageContinues ==
  ASSUME UrlInv, BytesInv, ConnectLies, Len(wire) >= ConnectEnd,
         NEW p \in 0..More, NEW n \in 1..128, 128 * p + n <= ConnectLen
  PROVE  Continues(p, n)
<1>1. PICK a \in Nat, q \in Nat : a = 128 * p /\ q = 12 + 129 * p
  BY Sizes
<1>2. PICK b \in Seq(Nat) : b = ConnectBody /\ Len(b) = ConnectLen
  BY ConnectIs
<1>3. wire \in Seq(Nat) /\ Len(wire) \in Nat
  <2>1. wire \in Seq(Nat)
    BY DEF BytesInv
  <2> QED BY ONLY <2>1
<1>4. q + n <= Len(wire)
  <2>1. PICK len \in Nat, more \in Nat, w \in Nat :
          len = ConnectLen /\ more = More /\ w = Len(wire) /\ 12 + len + more <= w
    BY <1>3, Sizes
  <2>2. p <= more /\ p \in Nat /\ 128 * p + n <= len /\ q = 12 + 129 * p
    BY <1>1, <2>1
  <2> QED BY ONLY <2>1, <2>2, n \in 1..128, p \in Nat, len \in Nat, more \in Nat, w \in Nat
<1>5. \A t \in 1..n : wire[q + t] = b[a + t]
  <2>1. \A t \in 1..128 : 128 * p + t <= ConnectLen => wire[12 + 129 * p + t] = ConnectBody[128 * p + t]
    <3>1. PageLies(p)
      BY DEF ConnectLies
    <3> QED BY ONLY <3>1 DEF PageLies
  <2>2. \A t \in 1..n : t \in 1..128 /\ 128 * p + t <= ConnectLen
    <3>1. PICK len \in Nat : len = ConnectLen /\ a + n <= len
      BY <1>1, Sizes
    <3>2. \A t \in 1..n : t \in 1..128 /\ a + t <= len
      BY ONLY <3>1, a \in Nat, n \in 1..128
    <3> QED BY ONLY <1>1, <3>1, <3>2
  <2> QED BY ONLY <1>1, <1>2, <2>1, <2>2
<1>6. a + n <= Len(b) /\ n \in Nat
  BY ONLY <1>1, <1>2, n \in 1..128, 128 * p + n <= ConnectLen
<1>7. Lengthens(b, a, wire, q, n)
  BY ONLY <1>1, <1>2, <1>3, <1>4, <1>5, <1>6, FrontLengthens
<1> QED BY ONLY <1>1, <1>2, <1>7 DEF Lengthens, Continues

LEMMA FirstChunkHeard ==
  ASSUME UrlInv, BytesInv, ServerReads, ConnectLies, Len(wire) >= ConnectEnd, read = 0
  PROVE  /\ lost_track' = lost_track /\ joined' = joined /\ read' = 140
         /\ chunks' = [chunks EXCEPT ![3] = Partly(1)]
<1>1. PICK h : IsHeader0(h, 3, ConnectLen, COMMAND, 0) /\ LiesAt(wire, read, h)
  BY DEF ConnectLies
<1>2. PICK len \in Nat, three \in 2..63, zero \in Nat :
        len = ConnectLen /\ three = 3 /\ zero = 0 /\ len >= 166
  BY Sizes
<1>3. PICK head \in Nat, n \in 1..128 : head = 12 /\ n = 128
  OBVIOUS
<1>4. PICK none : none = <<>>
  OBVIOUS
<1>5. NextChunk(three, head, len, COMMAND, zero, none, n)
  <2>1. Least(len) = n
    BY <1>2, <1>3 DEF Least
  <2>2. IsHeader0(h, three, len, COMMAND, zero)
    BY <1>1, <1>2
  <2> QED BY <1>1, <1>3, <1>4, <2>1, <2>2, Chunk0
<1>6. PICK text : text = SubSeq(ConnectBody, 1, 128)
  OBVIOUS
<1>7. text = Lengthened(none, head, n)
  <2>1. PICK p \in 0..More : p = 0
    BY Sizes
  <2>2. Continues(p, n)
    <3>1. 128 * p + n <= ConnectLen
      BY <1>2, <1>3, <2>1
    <3> QED BY <3>1, PageContinues
  <2>3. 128 * p = 0 /\ 12 + 129 * p + 1 = 13 /\ 12 + 129 * p + n = 140 /\ 128 * p + n = 128
    BY ONLY <1>3, <2>1
  <2>4. SubSeq(ConnectBody, 1, 0) = <<>>
    BY ConnectIs
  <2>5. <<>> \o SubSeq(wire, 13, 140) = SubSeq(ConnectBody, 1, 128)
    BY ONLY <2>2, <2>3, <2>4 DEF Continues
  <2>6. read + head + 1 = 13 /\ read + head + n = 140
    BY <1>3
  <2> QED BY ONLY <1>4, <1>6, <2>5, <2>6 DEF Lengthened
<1>8. ReadOn(three, head, len, COMMAND, zero, n, text)
  BY ONLY <1>5, <1>7, ServerReads, ReadsChunk
<1>9. Len(text) = 128 /\ Len(text) # len
  <2>1. PICK b \in Seq(Nat) : b = ConnectBody /\ Len(b) >= 166
    BY <1>2, ConnectIs
  <2>2. Len(SubSeq(b, 1, 128)) = 128
    BY ONLY <2>1
  <2> QED BY <1>2, <1>6, <2>1, <2>2
<1>10. Partly(1) = [seen |-> TRUE, size |-> len, type |-> COMMAND, sid |-> zero, body |-> text]
  <2>1. SubSeq(ConnectBody, 1, 128 * 1) = text
    BY <1>6
  <2> QED BY <1>2, <2>1 DEF Partly
<1>11. read' = 140
  BY <1>3, <1>8 DEF ReadOn
<1> QED BY ONLY <1>2, <1>8, <1>9, <1>10, <1>11 DEF ReadOn, GrownTo

(* A chunk behind the first: connect is not yet whole, or it is joined.    *)
HearsPage(p) ==
  /\ lost_track' = lost_track
  /\ p < More => /\ joined' = joined /\ read' = 11 + 129 * (p + 1)
                 /\ chunks' = [chunks EXCEPT ![3] = Partly(p + 1)]
  /\ p = More => /\ joined' = Append(joined, [type |-> COMMAND, sid |-> 0, body |-> ConnectBody])
                 /\ read' = ConnectEnd
                 /\ chunks' = [chunks EXCEPT ![3] =
                                 [seen |-> TRUE, size |-> ConnectLen, type |-> COMMAND, sid |-> 0,
                                  body |-> <<>>]]

LEMMA PageHeard ==
  ASSUME UrlInv, BytesInv, ServerReads, ConnectLies, Len(wire) >= ConnectEnd,
         NEW p \in 1..More, read = 11 + 129 * p, chunks[3] = Partly(p)
  PROVE  HearsPage(p)
<1>1. PICK len \in Nat, more \in Nat :
        /\ len = ConnectLen /\ more = More /\ p \in 1..more
        /\ 128 * more < len /\ len <= 128 * (more + 1)
  BY Sizes
<1>2. PICK b \in Seq(Nat) : b = ConnectBody /\ Len(b) = len
  BY <1>1, ConnectIs
<1>3. PICK begun \in Seq(Nat) : begun = SubSeq(ConnectBody, 1, 128 * p) /\ Len(begun) = 128 * p
  <2>1. PICK a \in Nat : a = 128 * p /\ a <= len
    BY ONLY <1>1
  <2>2. PICK begun : begun = SubSeq(b, 1, a)
    OBVIOUS
  <2>3. begun \in Seq(Nat) /\ Len(begun) = a
    BY ONLY <1>2, <2>1, <2>2, len \in Nat
  <2> QED BY ONLY <1>2, <2>1, <2>2, <2>3
<1>4. PICK n \in 1..128 : n = IF len - 128 * p < 128 THEN len - 128 * p ELSE 128
  BY ONLY <1>1, len \in Nat, more \in Nat
<1>5. /\ p < more => n = 128 /\ 128 * p + n < len
      /\ p = more => 128 * p + n = len
      /\ 128 * p + n <= len
  BY ONLY <1>1, <1>4, len \in Nat, more \in Nat
<1>6. PICK three, head \in Nat, zero \in Nat : three = 3 /\ head = 1 /\ zero = 0
  OBVIOUS
<1>7. NextChunk(three, head, len, COMMAND, zero, begun, n)
  <2>1. wire[read + 1] = 195
    <3>1. wire[12 + 129 * p] = 195
      BY DEF ConnectLies
    <3>2. read + 1 = 12 + 129 * p
      <4>1. PICK r \in Nat : r = 129 * p
        BY ONLY <1>1, more \in Nat
      <4> QED BY ONLY <4>1, read = 11 + 129 * p
    <3> QED BY ONLY <3>1, <3>2
  <2>2. PICK kept : kept = Partly(p)
    OBVIOUS
  <2>3. /\ kept.seen /\ kept.size = len /\ kept.type = COMMAND /\ kept.sid = zero
        /\ kept.body = begun
    BY ONLY <1>1, <1>3, <1>6, <2>2 DEF Partly
  <2>4. n = IF kept.size - Len(kept.body) < 128 THEN kept.size - Len(kept.body) ELSE 128
    BY ONLY <1>3, <1>4, <2>3
  <2>5. NextChunk(3, 1, kept.size, kept.type, kept.sid, kept.body, n)
    BY ONLY <2>1, <2>2, <2>3, <2>4, chunks[3] = Partly(p), Chunk3
  <2> QED BY ONLY <1>6, <2>3, <2>5
<1>8. PICK text : text = SubSeq(ConnectBody, 1, 128 * p + n)
  OBVIOUS
<1>9. text = Lengthened(begun, head, n)
  <2>1. Continues(p, n)
    <3>1. p \in 0..More /\ 128 * p + n <= ConnectLen
      BY <1>1, <1>5
    <3> QED BY <3>1, PageContinues
  <2>2. read + head + 1 = 12 + 129 * p + 1 /\ read + head + n = 12 + 129 * p + n
    BY ONLY <1>1, <1>6, read = 11 + 129 * p, n \in 1..128
  <2> QED BY ONLY <1>3, <1>8, <2>1, <2>2 DEF Continues, Lengthened
<1>10. ReadOn(three, head, len, COMMAND, zero, n, text)
  BY ONLY <1>7, <1>9, ServerReads, ReadsChunk
<1>11. Len(text) = 128 * p + n /\ (p = more => text = ConnectBody)
  <2>1. PICK k \in Nat : k = 128 * p + n
    BY ONLY <1>1, more \in Nat, n \in 1..128
  <2>2. k <= Len(b) /\ text = SubSeq(b, 1, k) /\ (p = more => k = Len(b))
    BY ONLY <1>2, <1>5, <1>8, <2>1
  <2>3. Len(text) = k /\ (p = more => text = b)
    BY ONLY <2>2, b \in Seq(Nat), k \in Nat
  <2> QED BY ONLY <1>2, <2>1, <2>3
<1>12. read' = 12 + 129 * p + n
  BY ONLY <1>1, <1>6, <1>10, read = 11 + 129 * p, n \in 1..128 DEF ReadOn
<1>13. lost_track' = lost_track
  BY ONLY <1>10 DEF ReadOn
<1>14. ASSUME p < more
       PROVE  /\ joined' = joined /\ read' = 11 + 129 * (p + 1)
              /\ chunks' = [chunks EXCEPT ![3] = Partly(p + 1)]
  <2>1. Len(text) # len
    BY ONLY <1>1, <1>5, <1>11, <1>14, n \in 1..128
  <2>2. 128 * (p + 1) = 128 * p + n
    BY ONLY <1>1, <1>5, <1>14
  <2>3. Partly(p + 1) = [seen |-> TRUE, size |-> len, type |-> COMMAND, sid |-> zero, body |-> text]
    BY ONLY <1>1, <1>6, <1>8, <2>2 DEF Partly
  <2>4. read' = 11 + 129 * (p + 1)
    BY ONLY <1>1, <1>5, <1>12, <1>14
  <2> QED BY ONLY <1>6, <1>10, <2>1, <2>3, <2>4 DEF ReadOn, GrownTo
<1>15. ASSUME p = more
       PROVE  /\ joined' = Append(joined, [type |-> COMMAND, sid |-> 0, body |-> ConnectBody])
              /\ read' = ConnectEnd
              /\ chunks' = [chunks EXCEPT ![3] =
                              [seen |-> TRUE, size |-> ConnectLen, type |-> COMMAND, sid |-> 0,
                               body |-> <<>>]]
  <2>1. Len(text) = len /\ text = ConnectBody
    BY ONLY <1>5, <1>11, <1>15
  <2>2. read' = ConnectEnd
    <3>1. ConnectEnd = 12 + len + more
      BY <1>1, Sizes
    <3> QED BY ONLY <1>1, <1>5, <1>12, <1>15, <3>1, len \in Nat, more \in Nat, n \in 1..128
  <2> QED BY ONLY <1>1, <1>6, <1>10, <2>1, <2>2 DEF ReadOn, GrownTo
<1> QED BY <1>1, <1>13, <1>14, <1>15 DEF HearsPage

(* What is meant, message by message.                                      *)
UrlMeant == AppText = meant.app /\ rtmp_url = meant.url /\ rtmp_stream = meant.stream

LEMMA MeantAre ==
  ASSUME UrlMeant
  PROVE  /\ Len(Meant) = 7
         /\ Meant[1] = Command(0, ConnectValues)
         /\ Meant[2] = [type |-> WINDOW_ACK, sid |-> 0, content |-> Length4(acknowledgement_size)]
         /\ Meant[3] = Command(0, <<Str(_createStream), Num(2), Nothing>>)
         /\ Meant[4] = Command(0, <<Str(_checkbw), Num(3), Nothing>>)
         /\ Meant[5] = Command(0, <<Str(getStreamLength), Num(4), Nothing, Str(rtmp_stream)>>)
         /\ Meant[6] = Command(created, <<Str(_play), Num(5), Nothing, Str(rtmp_stream), Num(-2000)>>)
         /\ Meant[7] = [type |-> USER_CONTROL, sid |-> 0, content |-> Buffered]
<1>1. Len(Meant) = 7
  BY ONLY SMT DEF Meant
<1>2. Meant[1] = Command(0, ConnectValues)
  BY ONLY SMT, UrlMeant DEF Meant, ConnectValues, UrlMeant
<1>3. Meant[2] = [type |-> WINDOW_ACK, sid |-> 0, content |-> Length4(acknowledgement_size)]
  BY ONLY SMT DEF Meant
<1>4. Meant[3] = Command(0, <<Str(_createStream), Num(2), Nothing>>)
  BY ONLY SMT DEF Meant
<1>5. Meant[4] = Command(0, <<Str(_checkbw), Num(3), Nothing>>)
  BY ONLY SMT DEF Meant
<1>6. Meant[5] = Command(0, <<Str(getStreamLength), Num(4), Nothing, Str(rtmp_stream)>>)
  BY ONLY SMT, UrlMeant DEF Meant, UrlMeant
<1>7. Meant[6] = Command(created, <<Str(_play), Num(5), Nothing, Str(rtmp_stream), Num(-2000)>>)
  BY ONLY SMT, UrlMeant DEF Meant, UrlMeant
<1>8. Meant[7] = [type |-> USER_CONTROL, sid |-> 0, content |-> Buffered]
  BY ONLY SMT DEF Meant, Buffered
<1> QED BY ONLY SMT, <1>1, <1>2, <1>3, <1>4, <1>5, <1>6, <1>7, <1>8

LEMMA CommandHeard ==
  ASSUME NEW i, NEW sid, NEW content, Meant[i] = Command(sid, content),
         NEW body, Holds(body, content)
  PROVE  HeardAs(i, [type |-> COMMAND, sid |-> sid, body |-> body])
<1>1. PICK m : m = [type |-> COMMAND, sid |-> sid, body |-> body]
  OBVIOUS
<1>2. m.type = COMMAND /\ m.sid = sid /\ m.body = body
  BY ONLY <1>1
<1>3. PICK c : c = Meant[i]
  OBVIOUS
<1>4. c.type = COMMAND /\ c.sid = sid /\ c.content = content
  BY ONLY <1>3, Meant[i] = Command(sid, content) DEF Command
<1>5. HeardAs(i, m)
  BY ONLY <1>2, <1>3, <1>4, Holds(body, content) DEF HeardAs
<1> QED BY ONLY <1>1, <1>5

LEMMA OtherHeard ==
  ASSUME NEW i, NEW type, NEW sid, NEW content, type # COMMAND,
         Meant[i] = [type |-> type, sid |-> sid, content |-> content]
  PROVE  HeardAs(i, [type |-> type, sid |-> sid, body |-> content])
<1>1. PICK m : m = [type |-> type, sid |-> sid, body |-> content]
  OBVIOUS
<1>2. m.type = type /\ m.sid = sid /\ m.body = content
  BY ONLY <1>1
<1>3. PICK c : c = Meant[i]
  OBVIOUS
<1>4. c.type = type /\ c.sid = sid /\ c.content = content
  BY ONLY <1>3, Meant[i] = [type |-> type, sid |-> sid, content |-> content]
<1>5. HeardAs(i, m)
  BY ONLY <1>2, <1>3, <1>4, type # COMMAND DEF HeardAs
<1> QED BY ONLY <1>1, <1>5

(* Nothing changes in what is meant but the id of the stream.              *)
LEMMA MeantStays ==
  ASSUME UNCHANGED <<meant, acknowledgement_size>>, NEW i \in 1..7, i # 6 \/ created' = created
  PROVE  Meant'[i] = Meant[i]
<1>1. CASE created' = created
  BY ONLY SMT, <1>1, UNCHANGED <<meant, acknowledgement_size>>, i \in 1..7 DEF Meant
<1>2. CASE i # 6
  BY ONLY SMTT(30), <1>2, UNCHANGED <<meant, acknowledgement_size>>, i \in 1..7 DEF Meant
<1> QED BY <1>1, <1>2

LEMMA HeardIsMeant == ASSUME HeardInv PROVE ServerGetsMeant
<1>1. Len(Meant) = 7
  BY ONLY SMT DEF Meant
<1>2. Len(joined) <= 7
  <2>1. joined = <<>> => Len(joined) = 0
    OBVIOUS
  <2> QED BY <2>1 DEF HeardInv, StandsInv
<1>3. \A i \in 1..Len(joined) : HeardAs(i, joined[i])
  BY DEF HeardInv
<1>4. ~lost_track /\ Len(joined) <= Len(Meant)
  BY ONLY <1>1, <1>2, HeardInv DEF HeardInv
<1> QED BY ONLY <1>3, <1>4 DEF HeardAs, ServerGetsMeant

UrlKept == UNCHANGED <<rtmp_url, rtmp_app, rtmp_stream, meant, acknowledgement_size>>

LEMMA PlacesStay ==
  ASSUME UrlKept
  PROVE  /\ ConnectBody' = ConnectBody /\ ConnectLen' = ConnectLen /\ More' = More
         /\ ConnectEnd' = ConnectEnd /\ UrlMeant' = UrlMeant
         /\ \A i : EndOf(i)' = EndOf(i)
         /\ \A p : Partly(p)' = Partly(p)
<1>1. UNCHANGED <<rtmp_url, rtmp_app, rtmp_stream, meant>>
  BY DEF UrlKept
<1>2. ConnectBody' = ConnectBody
  <2>1. ConnectItems' = ConnectItems
    BY ONLY <1>1 DEF ConnectItems, AppText
  <2> QED BY ONLY <2>1 DEF ConnectBody
<1>3. ConnectLen' = ConnectLen
  BY ONLY <1>1 DEF ConnectLen, AppText
<1>4. More' = More
  BY ONLY <1>3 DEF More
<1>5. ConnectEnd' = ConnectEnd
  BY ONLY <1>3, <1>4 DEF ConnectEnd
<1>6. UrlMeant' = UrlMeant
  BY ONLY <1>1 DEF UrlMeant, AppText
<1>7. \A i : EndOf(i)' = EndOf(i)
  <2>1. Behind7' = Behind7
    BY ONLY <1>1 DEF Behind7
  <2> QED BY ONLY <1>5, <2>1 DEF EndOf
<1>8. \A p : Partly(p)' = Partly(p)
  BY ONLY <1>2, <1>3 DEF Partly
<1> QED BY ONLY <1>2, <1>3, <1>4, <1>5, <1>6, <1>7, <1>8

LEMMA HeardStays ==
  ASSUME UrlKept, NEW i \in 1..7, i # 6 \/ created' = created, NEW m, HeardAs(i, m)
  PROVE  HeardAs(i, m)'
<1>1. Meant'[i] = Meant[i]
  BY MeantStays DEF UrlKept
<1> QED BY ONLY <1>1, HeardAs(i, m) DEF HeardAs

(* The next message of the dialogue is joined.                             *)
LEMMA HearsNext ==
  ASSUME HeardInv, BytesInv, UrlKept, created' = created,
         NEW j \in 1..6, Len(joined) = j,
         NEW csid \in 2..63, NEW len \in Nat, NEW type \in Nat, NEW sid \in Nat, NEW body \in Seq(Nat),
         NEW n \in Nat, Joined(csid, len, type, sid, body, n),
         EndOf(j) + n = EndOf(j + 1), csid \in {2, 3} => sid = 0, j = 1 => csid = 2,
         HeardAs(j + 1, [type |-> type, sid |-> sid, body |-> body])
  PROVE  HeardInv'
<1>1. PICK m : m = [type |-> type, sid |-> sid, body |-> body]
  OBVIOUS
<1>2. m \in Message /\ HeardAs(j + 1, m)
  BY <1>1 DEF Message
<1>3. joined \in Seq(Message) /\ joined' = Append(joined, m)
  BY <1>1 DEF HeardInv, Joined
<1>4. /\ joined' \in Seq(Message) /\ Len(joined') = j + 1
      /\ joined'[j + 1] = m /\ \A i \in 1..j : joined'[i] = joined[i]
  BY ONLY <1>2, <1>3, Len(joined) = j, j \in 1..6
<1>5. Len(joined) \in 1..7 /\ read = EndOf(j) /\ Known(3) /\ (j > 1 => Known(2))
  <2>1. joined # <<>>
    BY ONLY Len(joined) = j, j \in 1..6
  <2> QED BY <2>1 DEF HeardInv, StandsInv
<1>6. read' = EndOf(j + 1)' /\ ~lost_track'
  <2>1. read' = read + n /\ lost_track' = lost_track
    BY DEF Joined
  <2>2. \A i : EndOf(i)' = EndOf(i)
    BY PlacesStay
  <2> QED BY <1>5, <2>1, <2>2 DEF HeardInv
<1>7. Known(3)' /\ Known(2)'
  <2>1. PICK c : c = [seen |-> TRUE, size |-> len, type |-> type, sid |-> sid, body |-> <<>>]
    OBVIOUS
  <2>2. c.seen /\ c.sid = sid
    BY ONLY <2>1
  <2>3. chunks' = [chunks EXCEPT ![csid] = c] /\ chunks \in [2..63 -> Chunk]
    BY <2>1 DEF Joined, BytesInv
  <2>4. \A cs \in 2..63 : chunks'[cs] = IF cs = csid THEN c ELSE chunks[cs]
    BY ONLY <2>3
  <2>5. 2 \in 2..63 /\ 3 \in 2..63
    OBVIOUS
  <2>6. Known(3)'
    BY <1>5, <2>2, <2>4, <2>5 DEF Known
  <2>7. Known(2)'
    <3>1. CASE csid = 2
      BY <2>2, <2>4, <2>5, <3>1 DEF Known
    <3>2. CASE csid # 2
      <4>1. chunks[2].seen /\ chunks[2].sid = 0
        <5>1. j > 1
          BY ONLY <3>2, j = 1 => csid = 2, j \in 1..6
        <5> QED BY ONLY <1>5, <5>1 DEF Known
      <4>2. chunks'[2] = chunks[2]
        BY ONLY <2>4, <2>5, <3>2
      <4> QED BY ONLY <4>1, <4>2 DEF Known
    <3> QED BY <3>1, <3>2
  <2> QED BY <2>6, <2>7
<1>8. StandsInv'
  <2>1. Len(joined') \in 1..7 /\ read' = EndOf(Len(joined))'
    <3>1. Len(joined)' = j + 1 /\ j + 1 \in 1..7
      BY <1>4
    <3> QED BY <1>6, <3>1 DEF EndOf
  <2> QED BY <1>7, <2>1 DEF StandsInv
<1>9. ASSUME NEW i \in 1..(j + 1) PROVE HeardAs(i, joined[i])'
  <2>1. PICK x : x = joined'[i]
    OBVIOUS
  <2>2. HeardAs(i, x)
    <3>1. CASE i = j + 1
      BY ONLY <1>2, <1>4, <2>1, <3>1
    <3>2. CASE i # j + 1
      <4>1. i \in 1..j /\ i \in 1..Len(joined)
        BY ONLY <3>2, Len(joined) = j, j \in 1..6, i \in 1..(j + 1)
      <4>2. HeardAs(i, joined[i])
        BY <4>1 DEF HeardInv
      <4> QED BY ONLY <1>4, <2>1, <4>1, <4>2
    <3> QED BY <3>1, <3>2
  <2>3. i \in 1..7
    BY ONLY j \in 1..6, i \in 1..(j + 1)
  <2>4. HeardAs(i, x)'
    BY ONLY <2>2, <2>3, UrlKept, created' = created, HeardStays
  <2> QED BY ONLY <2>1, <2>4 DEF HeardAs
<1>10. \A i \in 1..Len(joined)' : HeardAs(i, joined[i])'
  BY <1>4, <1>9
<1> QED BY <1>4, <1>6, <1>8, <1>10 DEF HeardInv

(* What has been sent, as far as the server has not read it.               *)
LEMMA SentBeyond ==
  ASSUME UrlInv, ReplyInv, SentInv, BytesInv, read < Len(wire)
  PROVE  /\ ConnectLies /\ Len(wire) >= ConnectEnd
         /\ \A j \in 1..7 : read = EndOf(j) =>
              /\ j < 7
              /\ j < 4 => rtmp_status \in {"wait_create_stream", "wait_play"}
              /\ j >= 4 => rtmp_status = "wait_play"
<1>1. wire # <<>>
  BY DEF BytesInv
<1>2. pc \in {"recv", "done"}
  BY <1>1 DEF ReplyInv
<1>3. rtmp_status \in {"wait_connect", "wait_create_stream", "wait_play"}
  BY <1>2 DEF ReplyInv, Settled
<1>4. ConnectLies /\ Len(wire) >= ConnectEnd
  BY <1>2 DEF SentInv
<1>5. PICK s \in Nat, e \in Nat : s = Len(rtmp_stream) /\ e = ConnectEnd
  BY Sizes DEF UrlInv
<1>6. /\ EndOf(1) = e /\ EndOf(2) = e + 16 /\ EndOf(3) = e + 49 /\ EndOf(4) = e + 78
      /\ EndOf(5) = e + s + 121 /\ EndOf(6) = e + 2 * s + 162 /\ EndOf(7) = e + 2 * s + 180
  BY SMTT(30), <1>5, Places
<1>7. PICK r \in Nat, w \in Nat : r = read /\ w = Len(wire) /\ r < w
  <2>1. wire \in Seq(Nat) /\ read \in Nat
    BY DEF BytesInv
  <2> QED BY ONLY SMTT(30), <2>1, read < Len(wire)
<1>8. /\ rtmp_status = "wait_connect" => w = EndOf(1)
      /\ rtmp_status = "wait_create_stream" => w = EndOf(4)
      /\ rtmp_status = "wait_play" => w = EndOf(7)
  BY <1>7 DEF SentInv
<1>9. ASSUME NEW j \in 1..7, r = EndOf(j)
      PROVE  /\ j < 7
             /\ j < 4 => rtmp_status \in {"wait_create_stream", "wait_play"}
             /\ j >= 4 => rtmp_status = "wait_play"
  <2>1. j = 1 \/ j = 2 \/ j = 3 \/ j = 4 \/ j = 5 \/ j = 6 \/ j = 7
    OBVIOUS
  <2>2. rtmp_status = "wait_connect" \/ rtmp_status = "wait_create_stream" \/ rtmp_status = "wait_play"
    BY <1>3
  <2>3. CASE rtmp_status = "wait_connect"
    <3>1. w = e
      BY ONLY <1>6, <1>8, <2>3
    <3> QED BY ONLY <1>6, <1>7, <1>9, <2>1, <3>1, s \in Nat, e \in Nat, r \in Nat, w \in Nat
  <2>4. CASE rtmp_status = "wait_create_stream"
    <3>1. w = e + 78
      BY ONLY <1>6, <1>8, <2>4
    <3>2. j < 4
      BY ONLY <1>6, <1>7, <1>9, <2>1, <3>1, s \in Nat, e \in Nat, r \in Nat, w \in Nat
    <3> QED BY ONLY <2>4, <3>2, j \in 1..7
  <2>5. CASE rtmp_status = "wait_play"
    <3>1. w = e + 2 * s + 180
      BY ONLY <1>6, <1>8, <2>5
    <3>2. j < 7
      BY ONLY <1>6, <1>7, <1>9, <2>1, <3>1, s \in Nat, e \in Nat, r \in Nat, w \in Nat
    <3> QED BY ONLY <2>5, <3>2, j \in 1..7
  <2> QED BY ONLY <2>2, <2>3, <2>4, <2>5
<1> QED BY <1>4, <1>7, <1>9

LEMMA ReadsKeep ==
  ASSUME ServerReads
  PROVE  /\ CanRead /\ UrlKept /\ created' = created
         /\ UNCHANGED <<pc, wire, rtmp_status, rtmp_now_stream_id, splitVars>>
  BY DEF ServerReads, UrlKept, urlVars, statusVars, answerVars

LEMMA Hears0 ==
  ASSUME HeardInv, BytesInv, ServerReads, NEW j \in 1..6, Len(joined) = j, read = EndOf(j),
         NEW k \in 1..7, k = j + 1,
         NEW csid \in 2..63, NEW len \in Nat, len <= 128, NEW type \in Nat, NEW sid \in Nat,
         NEW body, NEW m, Message0(m, csid, len, type, sid, body), LiesAt(wire, EndOf(j), m),
         NEW n \in Nat, n = 12 + len, EndOf(k) = EndOf(j) + n, csid = 2 \/ csid = 8, csid = 2 => sid = 0,
         j = 1 => csid = 2, HeardAs(k, [type |-> type, sid |-> sid, body |-> body])
  PROVE  HeardInv'
<1>1. UrlKept /\ created' = created
  BY ReadsKeep
<1>2. LiesAt(wire, read, m)
  BY ONLY read = EndOf(j), LiesAt(wire, EndOf(j), m)
<1>3. Joined(csid, len, type, sid, body, 12 + len)
  BY <1>2, Reads0
<1>4. Joined(csid, len, type, sid, body, n)
  BY ONLY <1>3, n = 12 + len
<1>5. body \in Seq(Nat)
  BY DEF Message0
<1>6. csid \in {2, 3} => sid = 0
  OBVIOUS
<1>7. EndOf(j) + n = EndOf(j + 1) /\ HeardAs(j + 1, [type |-> type, sid |-> sid, body |-> body])
  BY ONLY k = j + 1, EndOf(k) = EndOf(j) + n, HeardAs(k, [type |-> type, sid |-> sid, body |-> body])
<1> QED BY <1>1, <1>4, <1>5, <1>6, <1>7, HearsNext

LEMMA Hears1 ==
  ASSUME HeardInv, BytesInv, ServerReads, NEW j \in 1..6, Len(joined) = j, read = EndOf(j),
         NEW k \in 1..7, k = j + 1,
         NEW csid \in 2..63, NEW len \in Nat, len <= 128, NEW type \in Nat,
         NEW body, NEW m, Message1(m, csid, len, type, body), LiesAt(wire, EndOf(j), m),
         NEW n \in Nat, n = 8 + len, EndOf(k) = EndOf(j) + n, csid = 2 \/ csid = 3, j > 1,
         NEW zero \in Nat, zero = 0, HeardAs(k, [type |-> type, sid |-> zero, body |-> body])
  PROVE  HeardInv'
<1>1. UrlKept /\ created' = created
  BY ReadsKeep
<1>2. LiesAt(wire, read, m)
  BY ONLY read = EndOf(j), LiesAt(wire, EndOf(j), m)
<1>3. Known(csid)
  <2>1. joined # <<>>
    BY ONLY Len(joined) = j, j \in 1..6
  <2> QED BY <2>1 DEF HeardInv, StandsInv
<1>4. Joined(csid, len, type, 0, body, 8 + len)
  BY <1>2, <1>3, Reads1
<1>5. Joined(csid, len, type, zero, body, n)
  BY ONLY <1>4, n = 8 + len, zero = 0
<1>6. body \in Seq(Nat)
  BY DEF Message1
<1>7. EndOf(j) + n = EndOf(j + 1) /\ HeardAs(j + 1, [type |-> type, sid |-> zero, body |-> body])
  BY ONLY k = j + 1, EndOf(k) = EndOf(j) + n, HeardAs(k, [type |-> type, sid |-> zero, body |-> body])
<1>8. (csid \in {2, 3} => zero = 0) /\ (j = 1 => csid = 2)
  BY ONLY zero = 0, j > 1, j \in 1..6
<1> QED BY <1>1, <1>5, <1>6, <1>7, <1>8, HearsNext

(* Where the code can do what is asked of it: a stream name that fits into *)
(* one chunk, and an id that fits into one byte.                           *)
Fitting == Len(rtmp_stream) <= 97 /\ created <= 255

LEMMA HearsFirst ==
  ASSUME UrlInv, UrlMeant, ReplyInv, SentInv, BytesInv, HeardInv, ServerReads,
         NEW j \in 1..3, Len(joined) = j, read = EndOf(j)
  PROVE  HeardInv'
<1>1. rtmp_status \in {"wait_create_stream", "wait_play"}
  <2>1. read < Len(wire)
    BY DEF ServerReads, CanRead
  <2> QED BY <2>1, SentBeyond
<1>2. /\ LiesAt(wire, EndOf(1), win_ack_size)
      /\ LiesAt(wire, EndOf(2), create_stream)
      /\ LiesAt(wire, EndOf(3), checkbw)
  BY <1>1 DEF SentInv
<1>3. PICK s \in Nat, e \in Nat : s = Len(rtmp_stream) /\ e = ConnectEnd
  BY Sizes DEF UrlInv
<1>4. /\ EndOf(1) = e /\ EndOf(2) = e + 16 /\ EndOf(3) = e + 49 /\ EndOf(4) = e + 78
  BY <1>3, Places
<1>5. PICK zero \in Nat, two \in 2..63, three \in 2..63 : zero = 0 /\ two = 2 /\ three = 3
  OBVIOUS
<1>6. j \in 1..6
  OBVIOUS
<1>7. CASE j = 1
  <2>1. PICK len \in Nat, n \in Nat, type \in Nat, k \in 1..7 :
          len = 4 /\ n = 16 /\ type = WINDOW_ACK /\ k = 2
    BY DEF WINDOW_ACK
  <2>2. PICK body : body = Length4(acknowledgement_size)
    OBVIOUS
  <2>3. Message0(win_ack_size, two, len, type, zero, body)
    BY <1>5, <2>1, <2>2, WindowMessage DEF BytesInv
  <2>4. HeardAs(k, [type |-> type, sid |-> zero, body |-> body])
    <3>1. Meant[k] = [type |-> type, sid |-> zero, content |-> body]
      BY <1>5, <2>1, <2>2, MeantAre
    <3>2. type # COMMAND
      BY <2>1 DEF WINDOW_ACK, COMMAND
    <3> QED BY ONLY <3>1, <3>2, OtherHeard
  <2>5. LiesAt(wire, EndOf(j), win_ack_size)
    BY ONLY <1>2, <1>7
  <2>6. n = 12 + len /\ EndOf(k) = EndOf(j) + n /\ k = j + 1
    BY ONLY <1>4, <1>7, <2>1
  <2>7. (two = 2 \/ two = 8) /\ (two = 2 => zero = 0) /\ (j = 1 => two = 2) /\ len <= 128
    BY ONLY <1>5, <2>1
  <2> QED BY <1>5, <1>6, <2>3, <2>4, <2>5, <2>6, <2>7, Hears0
<1>8. CASE j = 2
  <2>1. PICK len \in Nat, n \in Nat, type \in Nat, k \in 1..7 :
          len = 25 /\ n = 33 /\ type = COMMAND /\ k = 3
    BY DEF COMMAND
  <2>2. PICK body : Message1(create_stream, 3, 25, COMMAND, body) /\ Short(body, 25, _createStream, 2)
    BY CreateStreamMessage
  <2>3. Message1(create_stream, three, len, type, body)
    BY <1>5, <2>1, <2>2
  <2>4. HeardAs(k, [type |-> type, sid |-> zero, body |-> body])
    <3>1. PICK content : content = <<Str(_createStream), Num(2), Nothing>>
      OBVIOUS
    <3>2. Holds(body, content)
      BY <2>2, <3>1 DEF Short
    <3>3. Meant[k] = Command(zero, content)
      BY <1>5, <2>1, <3>1, MeantAre
    <3>4. HeardAs(k, [type |-> COMMAND, sid |-> zero, body |-> body])
      BY ONLY <3>2, <3>3, CommandHeard
    <3> QED BY ONLY <2>1, <3>4
  <2>5. LiesAt(wire, EndOf(j), create_stream)
    BY ONLY <1>2, <1>8
  <2>6. n = 8 + len /\ EndOf(k) = EndOf(j) + n /\ k = j + 1 /\ j > 1
    BY ONLY <1>4, <1>8, <2>1, e \in Nat
  <2>7. (three = 2 \/ three = 3) /\ len <= 128
    BY ONLY <1>5, <2>1
  <2> QED BY <1>5, <1>6, <2>3, <2>4, <2>5, <2>6, <2>7, Hears1
<1>9. CASE j = 3
  <2>1. PICK len \in Nat, n \in Nat, type \in Nat, k \in 1..7 :
          len = 21 /\ n = 29 /\ type = COMMAND /\ k = 4
    BY DEF COMMAND
  <2>2. PICK body : Message1(checkbw, 3, 21, COMMAND, body) /\ Short(body, 21, _checkbw, 3)
    BY CheckbwMessage
  <2>3. Message1(checkbw, three, len, type, body)
    BY <1>5, <2>1, <2>2
  <2>4. HeardAs(k, [type |-> type, sid |-> zero, body |-> body])
    <3>1. PICK content : content = <<Str(_checkbw), Num(3), Nothing>>
      OBVIOUS
    <3>2. Holds(body, content)
      BY <2>2, <3>1 DEF Short
    <3>3. Meant[k] = Command(zero, content)
      BY <1>5, <2>1, <3>1, MeantAre
    <3>4. HeardAs(k, [type |-> COMMAND, sid |-> zero, body |-> body])
      BY ONLY <3>2, <3>3, CommandHeard
    <3> QED BY ONLY <2>1, <3>4
  <2>5. LiesAt(wire, EndOf(j), checkbw)
    BY ONLY <1>2, <1>9
  <2>6. n = 8 + len /\ EndOf(k) = EndOf(j) + n /\ k = j + 1 /\ j > 1
    BY ONLY <1>4, <1>9, <2>1, e \in Nat
  <2>7. (three = 2 \/ three = 3) /\ len <= 128
    BY ONLY <1>5, <2>1
  <2> QED BY <1>5, <1>6, <2>3, <2>4, <2>5, <2>6, <2>7, Hears1
<1> QED BY <1>7, <1>8, <1>9

LEMMA HearsLast ==
  ASSUME UrlInv, UrlMeant, ReplyInv, SentInv, BytesInv, HeardInv, ServerReads,
         Fitting, created \in Nat,
         NEW j \in 4..6, Len(joined) = j, read = EndOf(j)
  PROVE  HeardInv'
<1>1. rtmp_status = "wait_play"
  <2>1. read < Len(wire)
    BY DEF ServerReads, CanRead
  <2> QED BY <2>1, SentBeyond
<1>2. /\ LiesAt(wire, EndOf(4), get_stream_length)
      /\ LiesAt(wire, EndOf(5), play(created))
      /\ LiesAt(wire, EndOf(6), Set_buffer_length)
  BY <1>1 DEF SentInv
<1>3. PICK s \in Nat, e \in Nat : s = Len(rtmp_stream) /\ e = ConnectEnd
  BY Sizes DEF UrlInv
<1>4. /\ EndOf(4) = e + 78
      /\ EndOf(5) = e + s + 121 /\ EndOf(6) = e + 2 * s + 162 /\ EndOf(7) = e + 2 * s + 180
  BY SMTT(30), <1>3, Places
<1>5. PICK zero \in Nat, two \in 2..63, eight \in 2..63 : zero = 0 /\ two = 2 /\ eight = 8
  OBVIOUS
<1>6. j \in 1..6 /\ j > 1
  OBVIOUS
<1>7. PICK stream \in Seq(Nat) : stream = rtmp_stream /\ Len(stream) = s /\ s <= 97 /\ Len(stream) < 128
  BY <1>3 DEF UrlInv, Fitting
<1>8. CASE j = 4
  <2>1. PICK len \in Nat, n \in Nat, type \in Nat, k \in 1..7 :
          len = s + 31 /\ n = s + 43 /\ type = COMMAND /\ k = 5
    BY DEF COMMAND
  <2>2. PICK body : /\ Message0(get_stream_length, 8, Len(stream) + 31, COMMAND, 0, body)
                    /\ Holds(body, <<Str(getStreamLength), Num(4), Nothing, Str(stream)>>)
    BY ONLY <1>7, stream \in Seq(Nat), StreamLengthMessage
  <2>3. Message0(get_stream_length, eight, len, type, zero, body)
    BY ONLY <1>5, <1>7, <2>1, <2>2
  <2>4. HeardAs(k, [type |-> type, sid |-> zero, body |-> body])
    <3>1. PICK content : content = <<Str(getStreamLength), Num(4), Nothing, Str(stream)>>
      OBVIOUS
    <3>2. Holds(body, content)
      BY ONLY <2>2, <3>1
    <3>3. Meant[k] = Command(zero, content)
      <4>1. Meant[5] = Command(0, <<Str(getStreamLength), Num(4), Nothing, Str(rtmp_stream)>>)
        BY ONLY SMT, UrlMeant, MeantAre
      <4> QED BY ONLY <1>5, <1>7, <2>1, <3>1, <4>1
    <3>4. HeardAs(k, [type |-> COMMAND, sid |-> zero, body |-> body])
      BY ONLY <3>2, <3>3, CommandHeard
    <3> QED BY ONLY <2>1, <3>4
  <2>5. LiesAt(wire, EndOf(j), get_stream_length)
    BY ONLY <1>2, <1>8
  <2>6. n = 12 + len /\ EndOf(k) = EndOf(j) + n /\ k = j + 1
    BY ONLY <1>4, <1>8, <2>1, e \in Nat, s \in Nat
  <2>7. (eight = 2 \/ eight = 8) /\ (eight = 2 => zero = 0) /\ (j = 1 => eight = 2) /\ len <= 128
    BY ONLY <1>5, <1>7, <1>8, <2>1, s \in Nat
  <2> QED BY <1>5, <1>6, <2>3, <2>4, <2>5, <2>6, <2>7, Hears0
<1>9. CASE j = 5
  <2>1. PICK len \in Nat, n \in Nat, type \in Nat, k \in 1..7 :
          len = s + 29 /\ n = s + 41 /\ type = COMMAND /\ k = 6
    BY DEF COMMAND
  <2>2. PICK id \in Nat : id = created /\ id <= 255
    BY DEF Fitting
  <2>3. AsksToPlay(id, stream)
    BY ONLY <1>7, stream \in Seq(Nat), id \in Nat, PlayMessage
  <2>4. PICK body : /\ Message0(play(id), 8, Len(stream) + 29, COMMAND, id % 256, body)
                    /\ Holds(body, <<Str(_play), Num(5), Nothing, Str(stream), Num(-2000)>>)
    BY ONLY SMT, <2>3 DEF AsksToPlay
  <2>5. id % 256 = id
    BY ONLY <2>2, id \in Nat
  <2>6. Message0(play(id), eight, len, type, id, body)
    BY ONLY SMTT(30), <1>5, <1>7, <2>1, <2>4, <2>5
  <2>7. HeardAs(k, [type |-> type, sid |-> id, body |-> body])
    <3>1. PICK w : w = Num(-2000)
      OBVIOUS
    <3>2. PICK content : content = <<Str(_play), Num(5), Nothing, Str(stream), w>>
      OBVIOUS
    <3>3. Holds(body, content)
      BY ONLY SMT, <2>4, <3>1, <3>2
    <3>4. Meant[k] = Command(id, content)
      <4>1. Meant[6] = Command(created, <<Str(_play), Num(5), Nothing, Str(rtmp_stream), Num(-2000)>>)
        BY ONLY SMT, UrlMeant, MeantAre
      <4> QED BY ONLY SMT, <1>7, <2>1, <2>2, <3>1, <3>2, <4>1
    <3>5. HeardAs(k, [type |-> COMMAND, sid |-> id, body |-> body])
      BY ONLY <3>3, <3>4, CommandHeard
    <3> QED BY ONLY <2>1, <3>5
  <2>8. LiesAt(wire, EndOf(j), play(id))
    BY ONLY <1>2, <1>9, <2>2
  <2>9. n = 12 + len /\ EndOf(k) = EndOf(j) + n /\ k = j + 1
    BY ONLY <1>4, <1>9, <2>1, e \in Nat, s \in Nat
  <2>10. (eight = 2 \/ eight = 8) /\ (eight = 2 => id = 0) /\ (j = 1 => eight = 2) /\ len <= 128
    BY ONLY <1>5, <1>7, <1>9, <2>1, s \in Nat
  <2> QED BY <1>6, <2>6, <2>7, <2>8, <2>9, <2>10, Hears0
<1>10. CASE j = 6
  <2>1. PICK len \in Nat, n \in Nat, type \in Nat, k \in 1..7 :
          len = 10 /\ n = 18 /\ type = USER_CONTROL /\ k = 7
    BY DEF USER_CONTROL
  <2>2. PICK body : body = Buffered
    OBVIOUS
  <2>3. Message1(Set_buffer_length, two, len, type, body)
    BY ONLY <1>5, <2>1, <2>2, BufferMessage
  <2>4. HeardAs(k, [type |-> type, sid |-> zero, body |-> body])
    <3>1. Meant[k] = [type |-> type, sid |-> zero, content |-> body]
      <4>1. Meant[7] = [type |-> USER_CONTROL, sid |-> 0, content |-> Buffered]
        BY ONLY SMT, UrlMeant, MeantAre
      <4> QED BY ONLY <1>5, <2>1, <2>2, <4>1
    <3>2. type # COMMAND
      BY ONLY <2>1 DEF USER_CONTROL, COMMAND
    <3> QED BY ONLY <3>1, <3>2, OtherHeard
  <2>5. LiesAt(wire, EndOf(j), Set_buffer_length)
    BY ONLY <1>2, <1>10
  <2>6. n = 8 + len /\ EndOf(k) = EndOf(j) + n /\ k = j + 1
    BY ONLY <1>4, <1>10, <2>1, e \in Nat, s \in Nat
  <2>7. (two = 2 \/ two = 3) /\ len <= 128
    BY ONLY <1>5, <2>1
  <2> QED BY <1>5, <1>6, <2>3, <2>4, <2>5, <2>6, <2>7, Hears1
<1> QED BY <1>8, <1>9, <1>10

LEMMA HearsConnect ==
  ASSUME UrlInv, UrlMeant, ReplyInv, SentInv, BytesInv, HeardInv, ServerReads, joined = <<>>
  PROVE  HeardInv'
<1>1. ConnectLies /\ Len(wire) >= ConnectEnd
  <2>1. read < Len(wire)
    BY DEF ServerReads, CanRead
  <2> QED BY <2>1, SentBeyond
<1>2. PICK more \in Nat : more = More /\ more >= 1
  BY Sizes
<1>3. UrlKept /\ created' = created /\ ~lost_track /\ chunks \in [2..63 -> Chunk]
  BY ReadsKeep DEF HeardInv, BytesInv
<1>4. /\ More' = more /\ ConnectEnd' = ConnectEnd /\ \A p : Partly(p)' = Partly(p)
      /\ \A i : EndOf(i)' = EndOf(i)
  BY <1>2, <1>3, PlacesStay
<1>5. ASSUME NEW p \in 1..more, lost_track' = lost_track, joined' = joined, read' = 11 + 129 * p,
             chunks' = [chunks EXCEPT ![3] = Partly(p)]
      PROVE  HeardInv'
  <2>1. chunks'[3] = Partly(p)'
    <3>1. PICK c : c = Partly(p)
      OBVIOUS
    <3>2. PICK three \in 2..63 : three = 3
      OBVIOUS
    <3>3. chunks'[three] = c
      BY ONLY <1>3, <1>5, <3>1, <3>2
    <3> QED BY ONLY <1>4, <3>1, <3>2, <3>3
  <2>2. \E q \in 1..More' : read' = 11 + 129 * q /\ chunks'[3] = Partly(q)'
    BY <1>4, <1>5, <2>1
  <2>3. joined' = <<>>
    BY <1>5
  <2>4. StandsInv'
    BY ONLY Zenon, <2>2, <2>3 DEF StandsInv
  <2>5. joined' \in Seq(Message) /\ \A i : i \notin 1..Len(joined')
    BY ONLY <2>3
  <2> QED BY <1>3, <1>5, <2>4, <2>5 DEF HeardInv
<1>6. CASE read = 0
  <2>1. /\ lost_track' = lost_track /\ joined' = joined /\ read' = 140
        /\ chunks' = [chunks EXCEPT ![3] = Partly(1)]
    BY <1>1, <1>6, FirstChunkHeard
  <2>2. PICK p \in 1..more : p = 1
    BY <1>2
  <2>3. read' = 11 + 129 * p
    BY ONLY <2>1, <2>2
  <2>4. chunks' = [chunks EXCEPT ![3] = Partly(p)]
    BY ONLY <2>1, <2>2
  <2> QED BY ONLY <1>5, <2>1, <2>3, <2>4
<1>7. ASSUME NEW p \in 1..More, read = 11 + 129 * p, chunks[3] = Partly(p)
      PROVE  HeardInv'
  <2>1. HearsPage(p)
    BY <1>1, <1>7, PageHeard
  <2>2. CASE p < more
    <3>1. PICK q \in 1..more : q = p + 1
      BY <1>2, <2>2
    <3>2. /\ lost_track' = lost_track /\ joined' = joined /\ read' = 11 + 129 * q
          /\ chunks' = [chunks EXCEPT ![3] = Partly(q)]
      BY ONLY <1>2, <2>1, <2>2, <3>1 DEF HearsPage
    <3> QED BY <1>5, <3>2
  <2>3. CASE p = more
    <3>1. PICK m, c : /\ m = [type |-> COMMAND, sid |-> 0, body |-> ConnectBody]
                      /\ c = [seen |-> TRUE, size |-> ConnectLen, type |-> COMMAND, sid |-> 0, body |-> <<>>]
      OBVIOUS
    <3>2. /\ lost_track' = lost_track /\ joined' = Append(joined, m) /\ read' = ConnectEnd
          /\ chunks' = [chunks EXCEPT ![3] = c]
      BY ONLY <1>2, <2>1, <2>3, <3>1 DEF HearsPage
    <3>3. m \in Message
      BY <3>1, ConnectIs DEF Message, COMMAND
    <3>4. /\ joined' \in Seq(Message) /\ Len(joined') = 1 /\ joined'[1] = m
      BY ONLY <3>2, <3>3, joined = <<>>
    <3>5. HeardAs(1, m)'
      <4>1. PICK one \in 1..7, zero \in Nat : one = 1 /\ zero = 0
        OBVIOUS
      <4>2. Meant[one] = Command(zero, ConnectValues)
        BY ONLY SMT, <4>1, UrlMeant, MeantAre
      <4>3. Holds(ConnectBody, ConnectValues)
        BY ConnectIs
      <4>4. HeardAs(one, [type |-> COMMAND, sid |-> zero, body |-> ConnectBody])
        BY ONLY <4>2, <4>3, CommandHeard
      <4>5. HeardAs(one, m)
        BY ONLY <3>1, <4>1, <4>4
      <4>6. HeardAs(one, m)'
        BY ONLY <1>3, <4>5, HeardStays
      <4> QED BY ONLY <4>1, <4>6
    <3>6. Known(3)'
      <4>1. PICK three \in 2..63 : three = 3
        OBVIOUS
      <4>2. chunks'[three] = c
        BY ONLY <1>3, <3>2, <4>1
      <4>3. c.seen /\ c.sid = 0
        BY ONLY <3>1
      <4> QED BY ONLY <4>1, <4>2, <4>3 DEF Known
    <3>7. read' = EndOf(1)'
      <4>1. EndOf(1) = ConnectEnd
        BY SMTT(30), Places, Sizes DEF UrlInv
      <4> QED BY ONLY <1>4, <3>2, <4>1
    <3>8. StandsInv'
      <4>1. Len(joined)' = 1 /\ 1 \in 1..7 /\ ~(1 > 1)
        BY <3>4
      <4>2. read' = EndOf(Len(joined))'
        BY ONLY <3>7, <4>1 DEF EndOf
      <4> QED BY ONLY <3>6, <4>1, <4>2 DEF StandsInv
    <3>9. \A i \in 1..Len(joined)' : HeardAs(i, joined[i])'
      <4>1. \A i \in 1..1 : i = 1
        OBVIOUS
      <4>2. HeardAs(1, joined[1])'
        BY ONLY <3>4, <3>5 DEF HeardAs
      <4> QED BY ONLY <3>4, <4>1, <4>2
    <3> QED BY <1>3, <3>2, <3>4, <3>8, <3>9 DEF HeardInv
  <2> QED BY <1>2, <2>2, <2>3
<1> QED
  <2>1. Len(joined) = 0
    BY ONLY joined = <<>>
  <2>2. read = 0 \/ \E p \in 1..More : read = 11 + 129 * p /\ chunks[3] = Partly(p)
    BY ONLY <2>1, HeardInv DEF HeardInv, StandsInv
  <2> QED BY <1>6, <1>7, <2>2

LEMMA ReadsHeard ==
  ASSUME UrlInv, UrlMeant, ReplyInv, SentInv, BytesInv, HeardInv, ServerReads,
         Fitting, created \in Nat
  PROVE  HeardInv'
<1>1. CASE joined = <<>>
  BY <1>1, HearsConnect
<1>2. CASE joined # <<>>
  <2>1. PICK j \in 1..7 : j = Len(joined) /\ read = EndOf(j)
    BY <1>2 DEF HeardInv, StandsInv
  <2>2. j < 7
    <3>1. read < Len(wire)
      BY DEF ServerReads, CanRead
    <3> QED BY <2>1, <3>1, SentBeyond
  <2>3. j \in 1..3 \/ j \in 4..6
    BY <2>2
  <2> QED BY <2>1, <2>3, HearsFirst, HearsLast
<1> QED BY <1>1, <1>2

(* What lies on the wire stays there when more is sent.                    *)
LEMMA LiesStill ==
  ASSUME NEW b \in Seq(Nat), NEW c \in Seq(Nat), LiesAt(c, 0, b),
         NEW p \in Nat, NEW m \in Seq(Nat), LiesAt(b, p, m)
  PROVE  LiesAt(c, p, m)
<1>1. PICK zero \in Nat : zero = 0
  OBVIOUS
<1>2. LiesAt(c, zero, b)
  BY <1>1
<1>3. LiesAt(c, zero + p, m)
  BY ONLY <1>2, b \in Seq(Nat), c \in Seq(Nat), p \in Nat, m \in Seq(Nat), zero \in Nat,
          LiesAt(b, p, m), LiesIn
<1>4. zero + p = p
  BY <1>1
<1> QED BY ONLY <1>3, <1>4

ThreeLie(b, w, x, y, z, i, j, k, n) ==
  /\ b \in Seq(Nat) /\ Len(b) = n
  /\ LiesAt(b, 0, w) /\ LiesAt(b, i, x) /\ LiesAt(b, j, y) /\ LiesAt(b, k, z)

LEMMA ThreeSent ==
  ASSUME NEW w \in Seq(Nat), NEW x \in Seq(Nat), NEW y \in Seq(Nat), NEW z \in Seq(Nat),
         NEW i \in Nat, NEW j \in Nat, NEW k \in Nat, NEW n \in Nat,
         Len(w) = i, j = i + Len(x), k = j + Len(y), n = k + Len(z),
         NEW b, b = w \o x \o y \o z
  PROVE  ThreeLie(b, w, x, y, z, i, j, k, n)
<1>1. PICK a, c : a = w \o x /\ c = a \o y
  OBVIOUS
<1>2. a \in Seq(Nat) /\ Len(a) = j /\ LiesAt(a, 0, w) /\ LiesAt(a, i, x)
  BY ONLY <1>1, w \in Seq(Nat), x \in Seq(Nat), Len(w) = i, j = i + Len(x), LiesCat
<1>3. c \in Seq(Nat) /\ Len(c) = k /\ LiesAt(c, 0, a) /\ LiesAt(c, j, y)
  BY ONLY <1>1, <1>2, y \in Seq(Nat), k = j + Len(y), LiesCat
<1>4. b = c \o z
  BY <1>1
<1>5. b \in Seq(Nat) /\ Len(b) = n /\ LiesAt(b, 0, c) /\ LiesAt(b, k, z)
  BY ONLY <1>3, <1>4, z \in Seq(Nat), n = k + Len(z), LiesCat
<1>6. PICK zero \in Nat : zero = 0
  OBVIOUS
<1>7. LiesAt(c, zero, w) /\ LiesAt(c, i, x)
  BY ONLY <1>2, <1>3, <1>6, w \in Seq(Nat), x \in Seq(Nat), zero \in Nat, i \in Nat, LiesStill
<1>8. LiesAt(b, zero, w) /\ LiesAt(b, i, x) /\ LiesAt(b, j, y)
  BY ONLY <1>3, <1>5, <1>7, w \in Seq(Nat), x \in Seq(Nat), y \in Seq(Nat), zero \in Nat, i \in Nat,
          j \in Nat, LiesStill
<1> QED BY ONLY <1>5, <1>6, <1>8 DEF ThreeLie

LEMMA ConnectStays ==
  ASSUME UrlInv, UrlKept, ConnectLies, BytesInv, Len(wire) >= ConnectEnd,
         wire' \in Seq(Nat), LiesAt(wire', 0, wire)
  PROVE  ConnectLies' /\ Len(wire') >= ConnectEnd'
<1>1. PICK w \in Seq(Nat), v \in Seq(Nat), zero \in Nat, n \in Nat :
        w = wire /\ v = wire' /\ zero = 0 /\ n = Len(w)
  <2>1. wire \in Seq(Nat)
    BY DEF BytesInv
  <2> QED BY ONLY <2>1, wire' \in Seq(Nat)
<1>2. PICK len \in Nat, more \in Nat :
        /\ len = ConnectLen /\ more = More /\ 128 * more < len /\ 12 + len + more = ConnectEnd
        /\ 12 + len + more <= n
  BY <1>1, Sizes
<1>3. ConnectLen' = len /\ More' = more /\ ConnectEnd' = ConnectEnd /\ ConnectBody' = ConnectBody
  BY <1>2, PlacesStay
<1>4. n <= Len(v) /\ \A i \in 1..n : v[i] = w[i]
  BY <1>1 DEF LiesAt
<1>5. \E h : IsHeader0(h, 3, len, COMMAND, 0) /\ LiesAt(v, 0, h)
  <2>1. PICK h : IsHeader0(h, 3, len, COMMAND, 0) /\ LiesAt(w, zero, h)
    BY <1>1, <1>2 DEF ConnectLies
  <2>2. h \in Seq(Nat)
    BY <2>1 DEF IsHeader0
  <2>3. LiesAt(v, zero, h)
    BY ONLY <1>1, <2>1, <2>2, w \in Seq(Nat), v \in Seq(Nat), zero \in Nat, LiesAt(wire', 0, wire), LiesStill
  <2> QED BY ONLY <1>1, <2>1, <2>3
<1>6. ASSUME NEW k \in 1..more PROVE v[12 + 129 * k] = 195
  <2>1. w[12 + 129 * k] = 195
    BY <1>1, <1>2 DEF ConnectLies
  <2>2. 12 + 129 * k \in 1..n
    BY ONLY <1>2, len \in Nat, more \in Nat, n \in Nat, k \in 1..more
  <2> QED BY ONLY <1>4, <2>1, <2>2
<1>7. ASSUME NEW k \in 0..more PROVE PageLies(k)'
  <2>1. PageLies(k)
    BY <1>2 DEF ConnectLies
  <2>2. ASSUME NEW t \in 1..128, 128 * k + t <= len
        PROVE  v[12 + 129 * k + t] = ConnectBody[128 * k + t]
    <3>1. w[12 + 129 * k + t] = ConnectBody[128 * k + t]
      BY ONLY <1>1, <1>2, <2>1, <2>2 DEF PageLies
    <3>2. 12 + 129 * k + t \in 1..n
      BY ONLY <1>2, <2>2, len \in Nat, more \in Nat, n \in Nat, k \in 0..more, t \in 1..128
    <3> QED BY ONLY <1>4, <3>1, <3>2
  <2> QED BY ONLY <1>1, <1>3, <2>2 DEF PageLies
<1>8. ConnectLies'
  BY ONLY <1>1, <1>3, <1>5, <1>6, <1>7 DEF ConnectLies
<1> QED BY ONLY <1>1, <1>2, <1>3, <1>4, <1>8, n \in Nat

(* Steps that send nothing, and steps that read nothing.                   *)
LEMMA SentStill ==
  ASSUME UrlInv, BytesInv, SentInv, UrlKept, wire' = wire, rtmp_status' = rtmp_status,
         pc' \in {"recv", "done"} => pc \in {"recv", "done"},
         created' = created \/ rtmp_status # "wait_play"
  PROVE  SentInv'
<1>1. ConnectEnd' = ConnectEnd /\ \A i : EndOf(i)' = EndOf(i)
  BY PlacesStay
<1>2. pc' \in {"recv", "done"} => ConnectLies' /\ Len(wire') >= ConnectEnd'
  <2> SUFFICES ASSUME pc' \in {"recv", "done"} PROVE ConnectLies' /\ Len(wire') >= ConnectEnd'
    OBVIOUS
  <2>1. ConnectLies /\ Len(wire) >= ConnectEnd
    BY DEF SentInv
  <2>2. wire' \in Seq(Nat) /\ LiesAt(wire', 0, wire)
    <3>1. wire \in Seq(Nat)
      BY DEF BytesInv
    <3>2. LiesAt(wire, 0, wire)
      BY ONLY <3>1 DEF LiesAt
    <3> QED BY ONLY <3>1, <3>2, wire' = wire
  <2> QED BY <2>1, <2>2, ConnectStays
<1>3. win_ack_size' = win_ack_size /\ create_stream' = create_stream /\ checkbw' = checkbw
  BY DEF UrlKept, win_ack_size, create_stream, checkbw
<1>4. get_stream_length' = get_stream_length /\ Set_buffer_length' = Set_buffer_length
  BY DEF UrlKept, get_stream_length, Set_buffer_length
<1>5. created' = created => play(created)' = play(created)
  BY ONLY SMT, UrlKept DEF UrlKept, play
<1>6. rtmp_status' = "wait_connect" => Len(wire') = EndOf(1)'
  BY <1>1 DEF SentInv
<1>7. rtmp_status' \in {"wait_create_stream", "wait_play"} =>
        /\ LiesAt(wire', EndOf(1)', win_ack_size')
        /\ LiesAt(wire', EndOf(2)', create_stream')
        /\ LiesAt(wire', EndOf(3)', checkbw')
  BY <1>1, <1>3 DEF SentInv
<1>8. rtmp_status' = "wait_create_stream" => Len(wire') = EndOf(4)'
  BY <1>1 DEF SentInv
<1>9. rtmp_status' = "wait_play" =>
        /\ LiesAt(wire', EndOf(4)', get_stream_length')
        /\ LiesAt(wire', EndOf(5)', play(created)')
        /\ LiesAt(wire', EndOf(6)', Set_buffer_length')
        /\ Len(wire') = EndOf(7)'
  BY <1>1, <1>4, <1>5 DEF SentInv
<1> QED BY ONLY <1>2, <1>6, <1>7, <1>8, <1>9 DEF SentInv, LiesAt

LEMMA HeardStill ==
  ASSUME HeardInv, UrlKept, UNCHANGED readVars, created' = created \/ Len(joined) <= 4
  PROVE  HeardInv'
<1>1. read' = read /\ chunks' = chunks /\ joined' = joined /\ lost_track' = lost_track
  BY DEF readVars
<1>2. More' = More /\ (\A i : EndOf(i)' = EndOf(i)) /\ \A p : Partly(p)' = Partly(p)
  BY PlacesStay
<1>3. StandsInv'
  <2>1. CASE joined = <<>> /\ read = 0
    BY ONLY <1>1, <2>1 DEF StandsInv
  <2>2. CASE joined = <<>> /\ \E p \in 1..More : read = 11 + 129 * p /\ chunks[3] = Partly(p)
    BY ONLY <1>1, <1>2, <2>2 DEF StandsInv
  <2>3. CASE /\ Len(joined) \in 1..7 /\ read = EndOf(Len(joined))
             /\ Known(3) /\ (Len(joined) > 1 => Known(2))
    <3>1. read' = EndOf(Len(joined))'
      BY ONLY <1>1, <1>2, <2>3 DEF EndOf
    <3> QED BY ONLY <1>1, <2>3, <3>1 DEF StandsInv, Known
  <2> QED BY <2>1, <2>2, <2>3 DEF HeardInv, StandsInv
<1>4. ASSUME NEW i \in 1..Len(joined) PROVE HeardAs(i, joined[i])'
  <2>1. PICK x : x = joined[i]
    OBVIOUS
  <2>2. HeardAs(i, x)
    BY <2>1 DEF HeardInv
  <2>3. i \in 1..7 /\ (i # 6 \/ created' = created)
    <3>1. PICK n \in 0..7 : n = Len(joined)
      <4>1. joined = <<>> => Len(joined) = 0
        OBVIOUS
      <4> QED BY <4>1 DEF HeardInv, StandsInv
    <3> QED BY ONLY <3>1, i \in 1..Len(joined), created' = created \/ Len(joined) <= 4
  <2>4. HeardAs(i, x)'
    BY ONLY <2>2, <2>3, UrlKept, HeardStays
  <2> QED BY ONLY <1>1, <2>1, <2>4 DEF HeardAs
<1> QED BY <1>1, <1>3, <1>4 DEF HeardInv

(* Before it is asked to play, no more than four messages are heard.       *)
LEMMA HeardSoFar ==
  ASSUME UrlInv, BytesInv, SentInv, HeardInv, rtmp_status = "wait_create_stream"
  PROVE  Len(joined) <= 4
<1>1. PICK s \in Nat, e \in Nat : s = Len(rtmp_stream) /\ e = ConnectEnd
  BY Sizes DEF UrlInv
<1>2. /\ EndOf(1) = e /\ EndOf(2) = e + 16 /\ EndOf(3) = e + 49 /\ EndOf(4) = e + 78
      /\ EndOf(5) = e + s + 121 /\ EndOf(6) = e + 2 * s + 162 /\ EndOf(7) = e + 2 * s + 180
  BY SMTT(30), <1>1, Places
<1>3. read <= e + 78
  BY <1>2 DEF BytesInv, SentInv
<1>4. joined = <<>> \/ \E j \in 1..7 : Len(joined) = j /\ read = EndOf(j)
  BY DEF HeardInv, StandsInv
<1>5. CASE joined = <<>>
  BY <1>5
<1>6. ASSUME NEW j \in 1..7, Len(joined) = j, read = EndOf(j) PROVE j <= 4
  <2>1. j # 5 /\ j # 6 /\ j # 7
    BY ONLY <1>2, <1>3, <1>6, s \in Nat, e \in Nat
  <2> QED BY ONLY <2>1, j \in 1..7
<1> QED BY <1>4, <1>5, <1>6

(* Before anything is sent, nothing is heard.                              *)
LEMMA NothingHeard ==
  ASSUME UrlInv, BytesInv, HeardInv, wire = <<>>
  PROVE  joined = <<>> /\ read = 0
<1>1. read = 0
  <2>1. read \in Nat /\ read <= Len(wire) /\ Len(wire) = 0
    BY ONLY BytesInv, wire = <<>> DEF BytesInv
  <2> QED BY ONLY <2>1
<1>2. PICK s \in Nat, e \in Nat : s = Len(rtmp_stream) /\ e = ConnectEnd
  BY Sizes DEF UrlInv
<1>0. e > 0
  BY <1>2, Sizes DEF ConnectEnd
<1>3. /\ EndOf(1) = e /\ EndOf(2) = e + 16 /\ EndOf(3) = e + 49 /\ EndOf(4) = e + 78
      /\ EndOf(5) = e + s + 121 /\ EndOf(6) = e + 2 * s + 162 /\ EndOf(7) = e + 2 * s + 180
  BY SMTT(30), <1>2, Places
<1>4. \A j \in 1..7 : read # EndOf(j)
  <2>1. \A j \in 1..7 : j = 1 \/ j = 2 \/ j = 3 \/ j = 4 \/ j = 5 \/ j = 6 \/ j = 7
    OBVIOUS
  <2> QED BY ONLY <1>0, <1>1, <1>3, <2>1, s \in Nat, e \in Nat
<1> QED BY <1>1, <1>4 DEF HeardInv, StandsInv

(* connect as it is sent: what the split leaves in the buffer.             *)
Paged(w, m, len, more) ==
  /\ \A i \in 1..12 : w[i] = m[i]
  /\ \A k \in 1..more : w[12 + 129 * k] = 195
  /\ \A j \in 0..(len - 1) : w[13 + j + j \div 128] = m[13 + j]

LEMMA SplitSent ==
  ASSUME SplitInv, page = 0, header_len = 12, NEW len \in Nat, NEW more \in Nat, len > 0,
         pag_len = 12 + len, more = (len - 1) \div 128,
         NEW m \in Seq(Nat), \A j \in 0..(11 + len) : pushed[j] = m[j + 1],
         NEW w, \A i \in 1..(12 + len + more) : w[i] = pag_buf[i - 1]
  PROVE  Paged(w, m, len, more)
<1>1. SplitRight
  BY AllMoved
<1>2. page_count = more
  BY DEF page_count, chunk_max_size
<1>3. /\ \A j \in 0..11 : pag_buf[j] = pushed[j]
      /\ \A j \in 0..(len - 1) : pag_buf[12 + j + j \div 128] = pushed[12 + j]
      /\ \A k \in 1..more : pag_buf[12 + k * 129 - 1] = ct
  <2>1. /\ \A j \in 0..(header_len - 1) : pag_buf[j] = pushed[j]
        /\ \A j \in 0..(pag_len - header_len - 1) :
             pag_buf[header_len + j + j \div 128] = pushed[header_len + j]
        /\ \A k \in 1..page_count : pag_buf[header_len + k * 129 - 1] = ct
    BY ONLY <1>1, page = 0 DEF SplitRight, chunk_max_size
  <2>2. header_len - 1 = 11 /\ pag_len - header_len - 1 = len - 1
    BY ONLY header_len = 12, pag_len = 12 + len, len \in Nat
  <2> QED BY ONLY <1>2, <2>1, <2>2, header_len = 12
<1>4. more * 128 < len
  BY ONLY more = (len - 1) \div 128, len \in Nat, len > 0, PageCount
<1>5. ASSUME NEW i \in 1..12 PROVE w[i] = m[i]
  <2>1. i - 1 \in 0..11 /\ i - 1 \in 0..(11 + len) /\ (i - 1) + 1 = i /\ i \in 1..(12 + len + more)
    BY ONLY i \in 1..12, len \in Nat, more \in Nat
  <2>2. pag_buf[i - 1] = pushed[i - 1] /\ pushed[i - 1] = m[i]
    BY ONLY <1>3, <2>1, \A j \in 0..(11 + len) : pushed[j] = m[j + 1]
  <2> QED BY ONLY <2>1, <2>2, \A n \in 1..(12 + len + more) : w[n] = pag_buf[n - 1]
<1>6. ASSUME NEW k \in 1..more PROVE w[12 + 129 * k] = 195
  <2>1. PICK n \in Nat : n = 12 + 129 * k /\ n \in 1..(12 + len + more) /\ n - 1 = 12 + k * 129 - 1
    BY ONLY <1>4, k \in 1..more, len \in Nat, more \in Nat
  <2>2. pag_buf[n - 1] = ct /\ ct = 195
    BY <1>3, <2>1, WireAssumption
  <2> QED BY ONLY <2>1, <2>2, \A i \in 1..(12 + len + more) : w[i] = pag_buf[i - 1]
<1>7. ASSUME NEW j \in 0..(len - 1) PROVE w[13 + j + j \div 128] = m[13 + j]
  <2>1. PICK q \in Nat : q = j \div 128 /\ q <= more
    BY ONLY j \in 0..(len - 1), len \in Nat, more = (len - 1) \div 128
  <2>2. PICK n \in Nat : n = 13 + j + q /\ n \in 1..(12 + len + more) /\ n - 1 = 12 + j + q
    BY ONLY <2>1, j \in 0..(len - 1), len \in Nat, more \in Nat, q \in Nat
  <2>3. 12 + j \in 0..(11 + len) /\ (12 + j) + 1 = 13 + j
    BY ONLY j \in 0..(len - 1), len \in Nat
  <2>4. w[n] = pag_buf[n - 1]
    BY ONLY <2>2, \A i \in 1..(12 + len + more) : w[i] = pag_buf[i - 1]
  <2>5. pag_buf[12 + j + q] = pushed[12 + j]
    BY ONLY <1>3, <2>1, j \in 0..(len - 1)
  <2>6. pushed[12 + j] = m[13 + j]
    BY ONLY <2>3, \A i \in 0..(11 + len) : pushed[i] = m[i + 1]
  <2> QED BY ONLY <2>1, <2>2, <2>4, <2>5, <2>6
<1> QED BY ONLY <1>5, <1>6, <1>7 DEF Paged

LEMMA SentConnect ==
  ASSUME UrlInv, SplitInv, BuiltInv, ReplyInv, BytesInv, SendConnect
  PROVE  SentInv'
<1>1. /\ pc = "split" /\ page = 0 /\ rtmp_status' = "wait_connect" /\ UrlKept
      /\ wire' = wire \o [i \in 1..SplitLen |-> pag_buf[i - 1]]
  BY DEF SendConnect, urlVars, UrlKept
<1>2. wire = <<>>
  BY <1>1 DEF ReplyInv
<1>3. PICK h, b : /\ IsHeader0(h, 3, ConnectLen, COMMAND, 0) /\ connect = h \o b
                  /\ b = ConnectBody /\ b \in Seq(Nat) /\ Len(b) = ConnectLen
  BY ConnectIs
<1>4. PICK len \in Nat, more \in Nat :
        len = ConnectLen /\ more = More /\ len > 0 /\ more = (len - 1) \div 128 /\ more * 128 < len
  BY Sizes DEF More
<1>5. PICK m : m = h \o b
  OBVIOUS
<1>6. h \in Seq(Nat) /\ Len(h) = 12
  BY <1>3 DEF IsHeader0
<1>7. Joins(m, h, 12, b, len)
  <2>1. PICK twelve \in Nat : twelve = 12
    OBVIOUS
  <2>2. Joins(h \o b, h, twelve, b, len)
    BY ONLY <1>3, <1>4, <1>6, <2>1, len \in Nat, twelve \in Nat, CatAt
  <2> QED BY ONLY <1>5, <2>1, <2>2
<1>8. /\ m \in Seq(Nat) /\ Len(m) = 12 + len /\ (\A k \in 1..12 : m[k] = h[k])
      /\ \A k \in 1..len : m[12 + k] = b[k]
  BY ONLY <1>7, len \in Nat DEF Joins
<1>9. header_len = 12 /\ pag_len = 12 + len /\ \A j \in 0..(11 + len) : pushed[j] = m[j + 1]
  <2>1. header_len = 12 /\ pag_len = Len(m) /\ \A j \in 0..(Len(m) - 1) : pushed[j] = m[j + 1]
    BY <1>1, <1>3, <1>5 DEF BuiltInv
  <2>2. Len(m) - 1 = 11 + len
    BY <1>8
  <2> QED BY ONLY <1>8, <2>1, <2>2
<1>10. PICK n \in Nat : n = 12 + len + more /\ n = SplitLen
  <2>1. page_count = more
    BY ONLY <1>4, <1>9, len \in Nat DEF page_count, chunk_max_size
  <2> QED BY ONLY <1>9, <2>1, len \in Nat, more \in Nat DEF SplitLen
<1>11. PICK w : w = [i \in 1..n |-> pag_buf[i - 1]]
  OBVIOUS
<1>12. wire' = w /\ w \in Seq(Nat) /\ Len(w) = n
  <2>1. w \in Seq(Nat)
    <3>1. wire' \in Seq(Nat)
      BY BytesSent DEF BytesInv
    <3>2. wire' = <<>> \o w
      BY ONLY <1>1, <1>2, <1>10, <1>11
    <3>3. n <= BufLen /\ BufLen \in Nat
      <4>1. /\ page_count \in Nat /\ pag_len \in Nat /\ header_len \in Nat /\ BufLen \in Nat
            /\ pag_len - header_len <= (page_count + 1) * 128
            /\ header_len + (page_count + 1) * 129 <= BufLen
        BY Pages, SplitAssumption DEF SplitInv, SplitTypeOK
      <4> QED BY <1>10, <4>1 DEF SplitLen
    <3>4. \A i \in 1..n : i - 1 \in 0..(BufLen - 1)
      BY ONLY <3>3, n \in Nat
    <3>5. \A i \in 1..n : pag_buf[i - 1] \in Nat
      BY <3>4 DEF BytesInv
    <3> QED BY ONLY <1>11, <3>5, n \in Nat
  <2>2. <<>> \o w = w
    BY ONLY <2>1
  <2>3. Len(w) = n
    BY ONLY <1>11, <2>1, n \in Nat
  <2>4. wire' = <<>> \o w
    BY ONLY <1>1, <1>2, <1>10, <1>11
  <2> QED BY ONLY <2>1, <2>2, <2>3, <2>4
<1>13. Paged(w, m, len, more)
  <2>1. \A i \in 1..(12 + len + more) : w[i] = pag_buf[i - 1]
    BY ONLY <1>10, <1>11
  <2> QED BY ONLY <1>1, <1>4, <1>8, <1>9, <2>1, SplitInv, len \in Nat, more \in Nat, SplitSent
<1>14. LiesAt(w, 0, h)
  <2>0. \A k \in 1..12 : w[k] = m[k]
    BY ONLY <1>13 DEF Paged
  <2>1. ASSUME NEW k \in 1..12 PROVE w[0 + k] = h[k]
    <3>1. 0 + k = k
      OBVIOUS
    <3>2. w[k] = m[k] /\ m[k] = h[k]
      BY <1>8, <2>0
    <3> QED BY ONLY <3>1, <3>2
  <2>2. 0 + 12 <= Len(w)
    BY ONLY <1>10, <1>12, len \in Nat, more \in Nat
  <2> QED BY ONLY <1>6, <2>1, <2>2 DEF LiesAt
<1>15. ASSUME NEW k \in 0..more, NEW t \in 1..128, 128 * k + t <= len
       PROVE  w[12 + 129 * k + t] = b[128 * k + t]
  <2>1. PICK j \in Nat : /\ j = 128 * k + t - 1 /\ j \in 0..(len - 1) /\ j \div 128 = k
                         /\ 13 + j + k = 12 + 129 * k + t /\ 13 + j = 12 + (128 * k + t)
    BY ONLY <1>15, len \in Nat, more \in Nat, k \in 0..more, t \in 1..128
  <2>2. w[13 + j + j \div 128] = m[13 + j]
    BY ONLY <1>13, <2>1 DEF Paged
  <2>3. 128 * k + t \in 1..len
    BY ONLY <1>15, len \in Nat, more \in Nat, k \in 0..more, t \in 1..128
  <2>4. m[12 + (128 * k + t)] = b[128 * k + t]
    BY ONLY <1>8, <2>3
  <2> QED BY ONLY <2>1, <2>2, <2>4
<1>16. ConnectBody' = b /\ ConnectLen' = len /\ More' = more /\ ConnectEnd' = ConnectEnd
  BY <1>1, <1>3, <1>4, PlacesStay
<1>17. ConnectLies'
  <2>1. \E x : IsHeader0(x, 3, ConnectLen', COMMAND, 0) /\ LiesAt(wire', 0, x)
    BY ONLY <1>3, <1>4, <1>12, <1>14, <1>16
  <2>2. \A k \in 1..More' : wire'[12 + 129 * k] = 195
    BY ONLY <1>12, <1>13, <1>16 DEF Paged
  <2>3. ASSUME NEW k \in 0..More' PROVE PageLies(k)'
    <3>1. k \in 0..more
      BY ONLY <1>16, k \in 0..More'
    <3>2. \A t \in 1..128 : 128 * k + t <= len => w[12 + 129 * k + t] = b[128 * k + t]
      BY ONLY <1>15, <3>1
    <3> QED BY ONLY <1>12, <1>16, <3>2 DEF PageLies
  <2> QED BY ONLY <2>1, <2>2, <2>3 DEF ConnectLies
<1>18. Len(wire') = ConnectEnd'
  BY <1>4, <1>10, <1>12, <1>16, Sizes
<1>19. ConnectEnd' \in Nat /\ EndOf(1)' = ConnectEnd'
  <2>1. ConnectEnd \in Nat /\ EndOf(1) = ConnectEnd
    <3>1. PICK s \in Nat, e \in Nat : s = Len(rtmp_stream) /\ e = ConnectEnd
      BY Sizes DEF UrlInv
    <3> QED BY <3>1, Places
  <2> QED BY <1>1, <2>1, PlacesStay
<1>20. Len(wire') >= ConnectEnd' /\ Len(wire') = EndOf(1)'
  BY ONLY <1>18, <1>19
<1>21. rtmp_status' # "wait_create_stream" /\ rtmp_status' # "wait_play"
  BY ONLY <1>1
<1> QED BY ONLY <1>17, <1>20, <1>21 DEF SentInv

(* What is sent with each result.                                          *)
LEMMA SentStatus ==
  ASSUME HandleCommand
  PROVE  \/ wire' = wire /\ rtmp_status' = rtmp_status
         \/ /\ rtmp_status = "wait_connect" /\ rtmp_status' = "wait_create_stream"
            /\ wire' = wire \o win_ack_size \o create_stream \o checkbw
         \/ /\ rtmp_status = "wait_create_stream" /\ rtmp_status' = "wait_play"
            /\ wire' = wire \o get_stream_length \o play(rtmp_now_stream_id') \o Set_buffer_length
  BY ONLY Zenon, HandleCommand DEF HandleCommand

LEMMA FirstLengths ==
  ASSUME BytesInv
  PROVE  /\ win_ack_size \in Seq(Nat) /\ Len(win_ack_size) = 16
         /\ create_stream \in Seq(Nat) /\ Len(create_stream) = 33
         /\ checkbw \in Seq(Nat) /\ Len(checkbw) = 29
<1>1. win_ack_size \in Seq(Nat) /\ Len(win_ack_size) = 16
  <2>1. PICK len \in Nat : len = 4
    OBVIOUS
  <2>2. acknowledgement_size \in Nat
    BY DEF BytesInv
  <2>3. Len(win_ack_size) = 12 + len /\ win_ack_size \in Seq(Nat)
    BY <2>1, <2>2, WindowMessage, MessageType
  <2> QED BY ONLY <2>1, <2>3
<1>2. create_stream \in Seq(Nat) /\ Len(create_stream) = 33
  <2>1. PICK len \in Nat : len = 25
    OBVIOUS
  <2>2. Len(create_stream) = 8 + len /\ create_stream \in Seq(Nat)
    BY <2>1, CreateStreamMessage, MessageType
  <2> QED BY ONLY <2>1, <2>2
<1>3. checkbw \in Seq(Nat) /\ Len(checkbw) = 29
  <2>1. PICK len \in Nat : len = 21
    OBVIOUS
  <2>2. Len(checkbw) = 8 + len /\ checkbw \in Seq(Nat)
    BY <2>1, CheckbwMessage, MessageType
  <2> QED BY ONLY <2>1, <2>2
<1> QED BY ONLY <1>1, <1>2, <1>3

LEMMA LastLengths ==
  ASSUME BytesInv, UrlInv, NEW id \in Nat, NEW s \in Nat, s = Len(rtmp_stream)
  PROVE  /\ get_stream_length \in Seq(Nat) /\ Len(get_stream_length) = s + 43
         /\ play(id) \in Seq(Nat) /\ Len(play(id)) = s + 41
         /\ Set_buffer_length \in Seq(Nat) /\ Len(Set_buffer_length) = 18
<1>1. PICK stream \in Seq(Nat) : stream = rtmp_stream /\ Len(stream) < 128 /\ Len(stream) = s
  BY DEF UrlInv
<1>2. get_stream_length \in Seq(Nat) /\ Len(get_stream_length) = s + 43
  <2>1. PICK len \in Nat : len = Len(stream) + 31 /\ 12 + len = s + 43
    BY <1>1
  <2>2. Len(get_stream_length) = 12 + len /\ get_stream_length \in Seq(Nat)
    BY <1>1, <2>1, StreamLengthMessage, MessageType
  <2> QED BY ONLY <2>1, <2>2
<1>3. play(id) \in Seq(Nat) /\ Len(play(id)) = s + 41
  <2>1. PICK len \in Nat, sid \in Int : len = Len(stream) + 29 /\ sid = id % 256 /\ 12 + len = s + 41
    BY <1>1
  <2>2. \E body : Message0(play(id), 8, Len(stream) + 29, COMMAND, id % 256, body)
    <3>1. AsksToPlay(id, stream)
      BY ONLY <1>1, id \in Nat, PlayMessage
    <3> QED BY ONLY SMT, <3>1 DEF AsksToPlay
  <2>3. PICK body : Message0(play(id), 8, len, COMMAND, sid, body)
    BY ONLY Zenon, <2>1, <2>2
  <2>4. PICK m : m = play(id)
    OBVIOUS
  <2>5. m \in Seq(Nat) /\ Len(m) = 12 + len
    BY ONLY <2>3, <2>4, len \in Nat, MessageType
  <2> QED BY ONLY SMT, <2>1, <2>4, <2>5
<1>4. Set_buffer_length \in Seq(Nat) /\ Len(Set_buffer_length) = 18
  <2>1. PICK len \in Nat : len = 10
    OBVIOUS
  <2>2. Len(Set_buffer_length) = 8 + len /\ Set_buffer_length \in Seq(Nat)
    BY <2>1, BufferMessage, MessageType
  <2> QED BY ONLY <2>1, <2>2
<1> QED BY ONLY Zenon, <1>2, <1>3, <1>4

LEMMA SentHandled ==
  ASSUME InOrder, UrlInv, BytesInv, SentInv, ReplyInv, ReplyInv', HandleCommand
  PROVE  SentInv'
<1>1. /\ UrlKept /\ pc = "recv" /\ created' = created
  BY DEF HandleCommand, UrlKept, urlVars, answerVars
<1>2. PICK s \in Nat, e \in Nat : s = Len(rtmp_stream) /\ e = ConnectEnd
  BY Sizes DEF UrlInv
<1>3. /\ EndOf(1) = e /\ EndOf(2) = e + 16 /\ EndOf(3) = e + 49 /\ EndOf(4) = e + 78
      /\ EndOf(5) = e + s + 121 /\ EndOf(6) = e + 2 * s + 162 /\ EndOf(7) = e + 2 * s + 180
  BY SMTT(30), <1>2, Places
<1>4. ConnectEnd' = ConnectEnd /\ \A i : EndOf(i)' = EndOf(i)
  BY <1>1, PlacesStay
<1>5. win_ack_size' = win_ack_size /\ create_stream' = create_stream /\ checkbw' = checkbw
  BY <1>1 DEF UrlKept, win_ack_size, create_stream, checkbw
<1>6. get_stream_length' = get_stream_length /\ Set_buffer_length' = Set_buffer_length
  BY <1>1 DEF UrlKept, get_stream_length, Set_buffer_length
<1>7. play(created)' = play(created)
  BY ONLY SMT, <1>1 DEF UrlKept, play
<1>8. ConnectLies /\ Len(wire) >= ConnectEnd
  BY <1>1 DEF SentInv
<1>9. PICK w \in Seq(Nat) : w = wire
  BY DEF BytesInv
<1>10. CASE wire' = wire /\ rtmp_status' = rtmp_status
  BY <1>1, <1>10, SentStill
<1>11. CASE /\ rtmp_status = "wait_connect" /\ rtmp_status' = "wait_create_stream"
            /\ wire' = wire \o win_ack_size \o create_stream \o checkbw
  <2>1. Len(w) = e
    BY <1>3, <1>9, <1>11 DEF SentInv
  <2>2. PICK x \in Seq(Nat), y \in Seq(Nat), z \in Seq(Nat) :
          /\ x = win_ack_size /\ y = create_stream /\ z = checkbw
          /\ Len(x) = 16 /\ Len(y) = 33 /\ Len(z) = 29
    BY FirstLengths
  <2>3. PICK j \in Nat, k \in Nat, n \in Nat : j = e + 16 /\ k = j + 33 /\ n = k + 29
    OBVIOUS
  <2>4. PICK b : b = wire'
    OBVIOUS
  <2>5. b = w \o x \o y \o z
    BY ONLY <1>9, <1>11, <2>2, <2>4
  <2>6. ThreeLie(b, w, x, y, z, e, j, k, n)
    BY ONLY <2>1, <2>2, <2>3, <2>5, w \in Seq(Nat), x \in Seq(Nat), y \in Seq(Nat), z \in Seq(Nat),
            e \in Nat, j \in Nat, k \in Nat, n \in Nat, ThreeSent
  <2>7. /\ wire' \in Seq(Nat) /\ LiesAt(wire', 0, wire) /\ Len(wire') = n
        /\ LiesAt(wire', e, win_ack_size) /\ LiesAt(wire', j, create_stream) /\ LiesAt(wire', k, checkbw)
    BY ONLY <1>9, <2>2, <2>4, <2>6 DEF ThreeLie
  <2>8. ConnectLies' /\ Len(wire') >= ConnectEnd'
    BY <1>1, <1>8, <2>7, ConnectStays
  <2>9. EndOf(1)' = e /\ EndOf(2)' = j /\ EndOf(3)' = k /\ EndOf(4)' = n
    BY ONLY <1>3, <1>4, <2>3, e \in Nat
  <2>10. /\ LiesAt(wire', EndOf(1)', win_ack_size') /\ LiesAt(wire', EndOf(2)', create_stream')
         /\ LiesAt(wire', EndOf(3)', checkbw') /\ Len(wire') = EndOf(4)'
    BY ONLY <1>5, <2>7, <2>9
  <2> QED BY ONLY <1>11, <2>8, <2>10 DEF SentInv, LiesAt
<1>12. CASE /\ rtmp_status = "wait_create_stream" /\ rtmp_status' = "wait_play"
            /\ wire' = wire \o get_stream_length \o play(rtmp_now_stream_id') \o Set_buffer_length
  <2>1. PICK i \in Nat : i = e + 78 /\ Len(w) = i
    BY <1>3, <1>9, <1>12 DEF SentInv
  <2>0. PICK id \in Nat : id = created /\ id = rtmp_now_stream_id'
    BY <1>1, <1>12, WireAssumption DEF ReplyInv, StreamKnown
  <2>2. PICK x \in Seq(Nat), y \in Seq(Nat), z \in Seq(Nat) :
          /\ x = get_stream_length /\ y = play(id) /\ z = Set_buffer_length
          /\ Len(x) = s + 43 /\ Len(y) = s + 41 /\ Len(z) = 18
    BY ONLY <1>2, BytesInv, UrlInv, id \in Nat, s \in Nat, LastLengths
  <2>3. PICK j \in Nat, k \in Nat, n \in Nat :
          j = i + (s + 43) /\ k = j + (s + 41) /\ n = k + 18
    OBVIOUS
  <2>4. PICK b : b = wire'
    OBVIOUS
  <2>5. b = w \o x \o y \o z
    BY ONLY Zenon, <1>9, <1>12, <2>0, <2>2, <2>4
  <2>6. ThreeLie(b, w, x, y, z, i, j, k, n)
    BY ONLY ZenonT(30), <2>1, <2>2, <2>3, <2>5, w \in Seq(Nat), x \in Seq(Nat), y \in Seq(Nat), z \in Seq(Nat),
            i \in Nat, j \in Nat, k \in Nat, n \in Nat, ThreeSent
  <2>7. /\ wire' \in Seq(Nat) /\ LiesAt(wire', 0, wire) /\ Len(wire') = n
        /\ LiesAt(wire', i, x) /\ LiesAt(wire', j, y) /\ LiesAt(wire', k, z)
    BY ONLY <1>9, <2>4, <2>6 DEF ThreeLie
  <2>8. ConnectLies' /\ Len(wire') >= ConnectEnd'
    BY <1>1, <1>8, <2>7, ConnectStays
  <2>9. EndOf(4)' = i /\ EndOf(5)' = j /\ EndOf(6)' = k /\ EndOf(7)' = n
    BY ONLY <1>3, <1>4, <2>1, <2>3, e \in Nat, s \in Nat, i \in Nat
  <2>10. LiesAt(wire', EndOf(4)', get_stream_length')
    BY ONLY Zenon, <1>6, <2>2, <2>7, <2>9
  <2>11. LiesAt(wire', EndOf(5)', play(created)')
    BY ONLY Zenon, <1>7, <2>0, <2>2, <2>7, <2>9
  <2>12. LiesAt(wire', EndOf(6)', Set_buffer_length') /\ Len(wire') = EndOf(7)'
    BY ONLY Zenon, <1>6, <2>2, <2>7, <2>9
  <2>13. /\ LiesAt(wire', EndOf(1)', win_ack_size') /\ LiesAt(wire', EndOf(2)', create_stream')
         /\ LiesAt(wire', EndOf(3)', checkbw')
    <3>1. LiesAt(w, EndOf(1), win_ack_size) /\ LiesAt(w, EndOf(2), create_stream) /\ LiesAt(w, EndOf(3), checkbw)
      BY <1>9, <1>12 DEF SentInv
    <3>2. PICK p \in Nat, q \in Nat, r \in Nat : p = EndOf(1) /\ q = EndOf(2) /\ r = EndOf(3)
      BY <1>3
    <3>3. PICK l \in Seq(Nat), m \in Seq(Nat), o \in Seq(Nat) :
            l = win_ack_size /\ m = create_stream /\ o = checkbw
      BY FirstLengths
    <3>4. LiesAt(b, p, l) /\ LiesAt(b, q, m) /\ LiesAt(b, r, o)
      <4>1. b \in Seq(Nat) /\ LiesAt(b, 0, w)
        BY <1>9, <2>4, <2>7
      <4>2. LiesAt(w, p, l) /\ LiesAt(w, q, m) /\ LiesAt(w, r, o)
        BY ONLY <3>1, <3>2, <3>3
      <4> QED BY ONLY <4>1, <4>2, w \in Seq(Nat), p \in Nat, q \in Nat, r \in Nat,
                l \in Seq(Nat), m \in Seq(Nat), o \in Seq(Nat), LiesStill
    <3> QED BY ONLY Zenon, <1>4, <1>5, <2>4, <3>2, <3>3, <3>4
  <2> QED BY ONLY Zenon, <1>12, <2>8, <2>10, <2>11, <2>12, <2>13 DEF SentInv
<1> QED BY <1>10, <1>11, <1>12, SentStatus

(* The steps of the client and the server.  Those that change neither the  *)
(* URL nor the buffer keep the message that is split.                      *)
LEMMA BuiltNext ==
  ASSUME UrlInv, ReplyInv, BuiltInv, [WireNext]_wireVars
  PROVE  BuiltInv'
<1>1. CASE BuildConnect
  <2>1. PICK m \in Seq(Nat) : m = connect /\ Len(m) <= 720
    BY ConnectLength
  <2>2. /\ Split([j \in 0..(BufLen - 1) |-> IF j < Len(m) THEN m[j + 1] ELSE 0], 12, Len(m))
        /\ UNCHANGED urlVars
    BY Zenon, <1>1, <2>1 DEF BuildConnect
  <2>3. /\ header_len' = 12 /\ pag_len' = Len(m)
        /\ pushed' = [j \in 0..(BufLen - 1) |-> IF j < Len(m) THEN m[j + 1] ELSE 0]
    BY ONLY <2>2 DEF Split
  <2>4. connect' = m
    <3>1. ConnectItems' = ConnectItems
      BY ONLY <2>2 DEF ConnectItems, AppText, urlVars
    <3> QED BY ONLY <2>1, <3>1 DEF connect
  <2>5. BufLen \in Nat /\ BufLen >= 786
    BY SplitAssumption, WireAssumption
  <2>6. \A j \in 0..(Len(m) - 1) : pushed'[j] = m[j + 1]
    BY ONLY <2>1, <2>3, <2>5, m \in Seq(Nat)
  <2> QED BY ONLY <2>3, <2>4, <2>6 DEF BuiltInv
<1>2. CASE pc' # "split"
  BY <1>2 DEF BuiltInv
<1>3. ASSUME UNCHANGED <<pc, urlVars, header_len, pag_len, pushed>> PROVE BuiltInv'
  <2>1. connect' = connect
    <3>1. ConnectItems' = ConnectItems
      BY ONLY <1>3 DEF ConnectItems, AppText, urlVars
    <3> QED BY ONLY <3>1 DEF connect
  <2> QED BY ONLY <1>3, <2>1, BuiltInv DEF BuiltInv
<1>4. ASSUME ServerReads \/ ServerAnswers \/ ServerCommands \/ ServerAnswersOther \/ UNCHANGED wireVars
      PROVE  UNCHANGED <<pc, urlVars, header_len, pag_len, pushed>>
  <2>1. UNCHANGED <<pc, urlVars, splitVars>>
    <3>1. ASSUME ServerReads PROVE UNCHANGED <<pc, urlVars, splitVars>>
      BY ONLY Zenon, <3>1 DEF ServerReads
    <3>2. ASSUME ServerAnswers \/ ServerCommands \/ ServerAnswersOther
          PROVE  UNCHANGED <<pc, urlVars, splitVars>>
      BY ONLY Zenon, <3>2 DEF ServerAnswers, ServerCommands, ServerAnswersOther, Says
    <3>3. ASSUME UNCHANGED wireVars PROVE UNCHANGED <<pc, urlVars, splitVars>>
      BY ONLY <3>3 DEF wireVars
    <3> QED BY <1>4, <3>1, <3>2, <3>3
  <2> QED BY <2>1 DEF splitVars
<1>5. ASSUME MoveConnect PROVE UNCHANGED <<pc, urlVars, header_len, pag_len, pushed>>
  BY ONLY Zenon, <1>5 DEF MoveConnect, MovePage
<1>6. ASSUME (\E u \in Urls : SetupUrl(u)) \/ SendConnect \/ HandleCommand PROVE pc' # "split"
  <2>1. ASSUME NEW u \in Urls, SetupUrl(u) PROVE pc' # "split"
    BY ONLY <2>1 DEF SetupUrl
  <2>2. ASSUME SendConnect PROVE pc' # "split"
    BY ONLY <2>2 DEF SendConnect
  <2>3. ASSUME HandleCommand PROVE pc' # "split"
    <3>1. pc = "recv" /\ (pc' = pc \/ pc' = "done")
      BY ONLY Zenon, <2>3 DEF HandleCommand
    <3> QED BY ONLY <3>1
  <2> QED BY <1>6, <2>1, <2>2, <2>3
<1> QED BY <1>1, <1>2, <1>3, <1>4, <1>5, <1>6 DEF WireNext, ThreadRuns, ServerServes

(* The server gives the stream its id before the client asks to play it.   *)
LEMMA CreatedInTime ==
  ASSUME InOrder, UrlInv, BytesInv, SentInv, HeardInv, ReplyInv, ServerAnswers
  PROVE  created' = created \/ (rtmp_status = "wait_create_stream" /\ Len(joined) <= 4)
<1>1. CASE UNCHANGED created
  BY <1>1
<1>2. CASE answered = 1 /\ reply.taken /\ pc = "recv"
  <2>1. Settled
    BY <1>2, ReplyTaken
  <2>2. rtmp_status = "wait_create_stream"
    BY <1>2, <2>1 DEF Settled
  <2> QED BY <2>2, HeardSoFar
<1>3. UNCHANGED created \/ (answered = 1 /\ reply.taken /\ pc = "recv")
  BY ONLY Zenon, ServerAnswers DEF ServerAnswers, Says
<1> QED BY <1>1, <1>2, <1>3

LEMMA AnswersKeep ==
  ASSUME ServerAnswers \/ ServerCommands \/ ServerAnswersOther \/ UNCHANGED wireVars
  PROVE  UrlKept /\ UNCHANGED <<pc, rtmp_status, wire, readVars>>
<1>1. ASSUME ServerAnswers \/ ServerCommands \/ ServerAnswersOther
      PROVE  UNCHANGED <<pc, urlVars, statusVars, wire, readVars>>
  BY ONLY Zenon, <1>1 DEF ServerAnswers, ServerCommands, ServerAnswersOther, Says
<1>2. ASSUME UNCHANGED wireVars PROVE UNCHANGED <<pc, urlVars, statusVars, wire, readVars>>
  BY ONLY <1>2 DEF wireVars
<1>3. UNCHANGED <<pc, urlVars, statusVars, wire, readVars>>
  BY <1>1, <1>2
<1> QED BY ONLY <1>3 DEF UrlKept, urlVars, statusVars

LEMMA ReadsKeepSent ==
  ASSUME ServerReads
  PROVE  UrlKept /\ UNCHANGED <<pc, rtmp_status, wire, created>>
<1>1. UNCHANGED <<pc, urlVars, statusVars, wire, answerVars>>
  BY ONLY Zenon, ServerReads DEF ServerReads
<1> QED BY ONLY <1>1 DEF UrlKept, urlVars, statusVars, answerVars

LEMMA SentNext ==
  ASSUME InOrder, UrlInv, SplitInv, ReplyInv, ReplyInv', BytesInv, BuiltInv, SentInv, HeardInv,
         [WireNext]_wireVars
  PROVE  SentInv'
<1>1. ASSUME pc' \in {"url", "split"} PROVE SentInv'
  <2>1. rtmp_status' = "wait_s2"
    BY <1>1 DEF ReplyInv
  <2> QED BY ONLY <1>1, <2>1 DEF SentInv
<1>2. ASSUME (\E u \in Urls : SetupUrl(u)) \/ BuildConnect \/ MoveConnect
      PROVE  pc' \in {"url", "split"}
  <2>1. ASSUME NEW u \in Urls, SetupUrl(u) PROVE pc' = "url"
    BY ONLY <2>1 DEF SetupUrl
  <2>2. ASSUME BuildConnect PROVE pc' = "split"
    BY ONLY <2>2 DEF BuildConnect
  <2>3. ASSUME MoveConnect PROVE pc' = "split"
    BY ONLY <2>3 DEF MoveConnect
  <2> QED BY <1>2, <2>1, <2>2, <2>3
<1>3. ASSUME ServerAnswers PROVE SentInv'
  <2>1. created' = created \/ rtmp_status # "wait_play"
    BY <1>3, CreatedInTime
  <2> QED BY <1>3, <2>1, AnswersKeep, SentStill
<1>4. ASSUME ServerCommands \/ ServerAnswersOther \/ UNCHANGED wireVars PROVE SentInv'
  <2>1. created' = created
    <3>1. ASSUME ServerCommands \/ ServerAnswersOther PROVE UNCHANGED created
      BY ONLY Zenon, <3>1 DEF ServerCommands, ServerAnswersOther
    <3>2. ASSUME UNCHANGED wireVars PROVE UNCHANGED created
      BY ONLY <3>2 DEF wireVars, answerVars
    <3> QED BY <1>4, <3>1, <3>2
  <2> QED BY <1>4, <2>1, AnswersKeep, SentStill
<1>5. ASSUME ServerReads PROVE SentInv'
  BY <1>5, ReadsKeepSent, SentStill
<1> QED BY <1>1, <1>2, <1>3, <1>4, <1>5, SentConnect, SentHandled
        DEF WireNext, ThreadRuns, ServerServes

LEMMA HeardNext ==
  ASSUME InOrder, UrlInv, UrlMeant, Fitting, SplitInv, ReplyInv, BytesInv, SentInv, HeardInv,
         [WireNext]_wireVars
  PROVE  HeardInv'
<1>1. ASSUME NEW u \in Urls, SetupUrl(u) PROVE HeardInv'
  <2>1. pc = "url" /\ UNCHANGED readVars
    BY ONLY <1>1 DEF SetupUrl
  <2>2. wire = <<>>
    BY <2>1 DEF ReplyInv
  <2>3. joined = <<>> /\ read = 0 /\ ~lost_track
    BY <2>2, NothingHeard DEF HeardInv
  <2>4. joined' = <<>> /\ read' = 0 /\ ~lost_track'
    BY ONLY <2>1, <2>3 DEF readVars
  <2>5. joined' \in Seq(Message) /\ 1..Len(joined') = {}
    BY ONLY <2>4
  <2> QED BY ONLY <2>4, <2>5 DEF HeardInv, StandsInv
<1>2. ASSUME BuildConnect \/ MoveConnect \/ SendConnect \/ HandleCommand PROVE HeardInv'
  <2>1. UNCHANGED <<urlVars, acknowledgement_size, readVars, answerVars>>
    <3>1. ASSUME BuildConnect \/ MoveConnect
          PROVE  UNCHANGED <<urlVars, statusVars, readVars, answerVars>>
      BY ONLY Zenon, <3>1 DEF BuildConnect, MoveConnect
    <3>2. ASSUME SendConnect \/ HandleCommand
          PROVE  UNCHANGED <<urlVars, acknowledgement_size, readVars, answerVars>>
      BY ONLY Zenon, <3>2 DEF SendConnect, HandleCommand
    <3> QED BY <1>2, <3>1, <3>2 DEF statusVars
  <2>2. UrlKept /\ UNCHANGED readVars /\ created' = created
    BY ONLY <2>1 DEF UrlKept, urlVars, answerVars
  <2> QED BY ONLY <2>2, HeardInv, HeardStill
<1>3. ASSUME ServerAnswers PROVE HeardInv'
  BY <1>3, CreatedInTime, AnswersKeep, HeardStill
<1>4. ASSUME ServerCommands \/ ServerAnswersOther \/ UNCHANGED wireVars PROVE HeardInv'
  <2>1. created' = created
    <3>1. ASSUME ServerCommands \/ ServerAnswersOther PROVE UNCHANGED created
      BY ONLY Zenon, <3>1 DEF ServerCommands, ServerAnswersOther
    <3>2. ASSUME UNCHANGED wireVars PROVE UNCHANGED created
      BY ONLY <3>2 DEF wireVars, answerVars
    <3> QED BY <1>4, <3>1, <3>2
  <2> QED BY <1>4, <2>1, AnswersKeep, HeardStill
<1>5. ASSUME ServerReads PROVE HeardInv'
  <2>1. created \in Nat
    BY WireAssumption DEF ReplyInv
  <2> QED BY <1>5, <2>1, ReadsHeard
<1> QED BY <1>1, <1>2, <1>3, <1>4, <1>5 DEF WireNext, ThreadRuns, ServerServes

(* Set once, the URL is understood, before and after.                      *)
LEMMA MeantNext ==
  ASSUME MaxUrls = 1, UrlInv, UrlInv', UrlMeant, [WireNext]_wireVars
  PROVE  UrlMeant'
<1>1. ASSUME NEW u \in Urls, SetupUrl(u) PROVE UrlMeant'
  <2>1. urls' = 1
    <3>1. urls' = urls + 1 /\ urls < 1 /\ urls \in Nat
      BY <1>1 DEF SetupUrl, UrlInv
    <3> QED BY ONLY <3>1
  <2> QED BY <2>1 DEF UrlInv, UrlMeant
<1>2. ASSUME ThreadRuns \/ ServerServes \/ ServerCommands \/ ServerAnswersOther \/ UNCHANGED wireVars
      PROVE  UrlMeant'
  <2>1. UNCHANGED urlVars
    BY <1>2, OthersKeepUrl
  <2> QED BY ONLY <2>1, UrlMeant DEF UrlMeant, AppText, urlVars
<1> QED BY <1>1, <1>2 DEF WireNext

(* What fits a chunk: a stream of up to 97 characters, and a stream id of  *)
(* one byte.                                                               *)
StreamsFit == (\A u \in Urls : Len(u.stream) <= 97) /\ StreamIds \subseteq 0..255

LEMMA FittingHolds ==
  ASSUME MaxUrls = 1, StreamsFit, UrlInv, ReplyInv
  PROVE  Fitting
<1>1. Len(rtmp_stream) <= 97
  <2>1. urls \in Nat /\ urls <= 1
    BY DEF UrlInv
  <2>2. CASE urls = 0
    <3>1. rtmp_stream = <<>>
      BY <2>2 DEF UrlInv
    <3> QED BY ONLY <3>1
  <2>3. CASE urls = 1
    <3>1. meant \in Urls /\ rtmp_stream = meant.stream
      BY <2>3 DEF UrlInv
    <3> QED BY <3>1 DEF StreamsFit
  <2> QED BY ONLY <2>1, <2>2, <2>3
<1>2. created <= 255
  <2>1. created = 0 \/ created \in 0..255
    BY DEF ReplyInv, StreamsFit
  <2> QED BY ONLY <2>1
<1> QED BY <1>1, <1>2 DEF Fitting

LEMMA HeardFirst == ASSUME WireInit PROVE BuiltInv /\ SentInv /\ HeardInv /\ UrlMeant
<1>1. /\ pc = "url" /\ rtmp_status = "wait_s2" /\ read = 0 /\ joined = <<>> /\ lost_track = FALSE
      /\ rtmp_url = <<>> /\ rtmp_app = <<>> /\ rtmp_stream = <<>>
      /\ meant = [url |-> <<>>, app |-> <<>>, stream |-> <<>>, host |-> <<>>, port |-> 0]
  BY DEF WireInit
<1>2. BuiltInv /\ SentInv
  BY ONLY <1>1 DEF BuiltInv, SentInv
<1>3. HeardInv
  <2>1. joined \in Seq(Message) /\ 1..Len(joined) = {}
    BY ONLY <1>1
  <2> QED BY ONLY <1>1, <2>1 DEF HeardInv, StandsInv
<1>4. UrlMeant
  <2>1. <<>> \in Seq(Nat) /\ Lacks(<<>>, 0)
    BY DEF Lacks
  <2>2. CText(<<>>) = <<>>
    BY <2>1, CTextWhole
  <2> QED BY ONLY <1>1, <2>2 DEF UrlMeant, AppText
<1> QED BY <1>2, <1>3, <1>4

DialogueInv ==
  UrlInv /\ SplitInv /\ ReplyInv /\ BytesInv /\ UrlMeant /\ BuiltInv /\ SentInv /\ HeardInv

(* Whatever the URL, the id of the stream, the window size and the other   *)
(* commands: the server joins the messages of the dialogue in order, each  *)
(* with the values that the URL and its own answers give it, and finds a   *)
(* chunk header wherever one should be.  The URL is set once, what is sent *)
(* behind connect fits a chunk each, as nothing splits it, and the server  *)
(* answers in order: otherwise the client may ask to play another stream.  *)
THEOREM ServerHearsWhatIsMeant ==
  ASSUME InOrder, MaxUrls = 1, StreamsFit
  PROVE  WireSpec => []ServerGetsMeant
<1>1. WireInit => DialogueInv
  BY UrlInit, SplitFirst, ReplyInit, BytesInit, HeardFirst DEF DialogueInv
<1>2. DialogueInv /\ [WireNext]_wireVars => DialogueInv'
  <2> SUFFICES ASSUME DialogueInv, [WireNext]_wireVars PROVE DialogueInv'
    OBVIOUS
  <2>1. /\ UrlInv /\ SplitInv /\ ReplyInv /\ BytesInv
        /\ UrlMeant /\ BuiltInv /\ SentInv /\ HeardInv
    BY DEF DialogueInv
  <2>2. UrlInv' /\ SplitInv' /\ ReplyInv'
    BY <2>1, UrlNext, SplitNext, ReplyNext
  <2>3. BytesInv'
    BY <2>1, <2>2, BytesNext
  <2>4. UrlMeant' /\ Fitting
    BY <2>1, <2>2, MeantNext, FittingHolds
  <2>5. BuiltInv'
    BY <2>1, BuiltNext
  <2>6. SentInv'
    BY <2>1, <2>2, SentNext
  <2>7. HeardInv'
    BY <2>1, <2>4, HeardNext
  <2> QED BY <2>2, <2>3, <2>4, <2>5, <2>6, <2>7 DEF DialogueInv
<1>3. DialogueInv => ServerGetsMeant
  BY HeardIsMeant DEF DialogueInv
<1> QED BY <1>1, <1>2, <1>3, PTL DEF WireSpec
=============================================================================
