--------------------------- MODULE RtmpRecvProofs ---------------------------
(***************************************************************************)
(* Proofs about RtmpRecv, for every value of its constants, for a server   *)
(* that starts messages with headers of format 0 or 1 only and repeats no  *)
(* extended time stamp in chunks of format 3 (otherwise the properties are *)
(* false: see the runs RtmpRecvFmt2 and RtmpRecvExt).                      *)
(***************************************************************************)
EXTENDS RtmpRecv, ChunkWireProofs

-----------------------------------------------------------------------------
(* The client.                                                             *)

Running == pc \in {"recv", "s0s1", "s2", "chunks"}

(* Bytes at the front of the buffer that will be skipped unseen.           *)
Skipped ==
  IF rtmp_status = "wait_connect" THEN 0
  ELSE IF rtmp_status = "wait_s2" THEN S2Len ELSE HandshakeLen

(* Where the unread bytes start in the buffer, and in the stream. *)
Base  == IF pc = "recv" THEN 0 ELSE pos
Front == received - size + (IF pc = "recv" THEN 0 ELSE m_iParsePos)

BufferInv ==
  /\ pc = "start" => rtmp_status = "init" /\ size = 0 /\ received = 0
  /\ size <= received /\ received <= Len(stream)
  /\ Running /\ rtmp_status # "send_c0c1" =>
       /\ rtmp_status \in {"wait_s0s1", "wait_s2", "wait_connect"}
       /\ \A i \in Skipped..(size - 1) : m_pBuffer[Base + i] = stream[received - size + 1 + i]
  /\ pc \in {"s0s1", "s2"} => m_iParsePos = 0
  /\ pc = "s2" => rtmp_status # "wait_s0s1" \/ size < S0S1Len
  /\ pc = "chunks" => rtmp_status = "wait_connect" /\ m_iParsePos <= size
  /\ pc = "recv" /\ rtmp_status \in {"wait_s0s1", "wait_s2"} => size < Skipped
  /\ Running /\ rtmp_status = "wait_s0s1" => received = size
  /\ Running /\ rtmp_status = "wait_s2" => received - size = S0S1Len
  /\ Running /\ rtmp_status = "wait_connect" => Front = mux[parsed + 1].at
  /\ rtmp_status # "wait_connect" => parsed = 0

(* What the client knows of a message being joined is what the server had  *)
(* sent of it before chunk parsed + 1.                                     *)
SlotOK(slot, m) ==
  /\ slot.last_message_size = m.rem
  /\ m.rem > 0 => /\ slot.message_type = m.type /\ slot.message_size = m.size
                  /\ slot.message_buf = m.body
                  /\ m.fmt = 0 => slot.time_stamp = m.ts

DeliveredOK(d, e) ==
  /\ d.cs = e.cs /\ d.type = e.msg.type /\ d.size = e.msg.size /\ d.data = e.msg.body
  /\ e.msg.fmt = 0 => d.ts = e.msg.ts

JoinInv ==
  /\ parsed + 1 \in 1..Len(mux)
  /\ Running => rtmp_chunk_max_size = mux[parsed + 1].max
  /\ \A cs \in Csids : SlotOK(rtmp_chunk[cs], mux[parsed + 1].open[cs])
  /\ Len(delivered) = Len(mux[parsed + 1].done)
  /\ \A i \in 1..Len(delivered) : DeliveredOK(delivered[i], mux[parsed + 1].done[i])

(* What the client relies on of the server: no message starts with a       *)
(* format 2 header, and no format 3 chunk repeats the extended time stamp. *)
HeadersUnderstood == StartFmts \subseteq {0, 1} /\ ~RepeatExtended

Inv == TypeOK /\ HeadersUnderstood /\ WireInv /\ BufferInv /\ JoinInv

-----------------------------------------------------------------------------
LEMMA ConstantFacts ==
  /\ S0S1Len \in Nat \ {0} /\ S2Len \in Nat \ {0} /\ DefaultChunk \in Nat \ {0}
  /\ HandshakeLen = S0S1Len + S2Len /\ MAX_BUF_LEN \in Nat /\ MAX_CHUNK_ID \in 0..64
  /\ \A a \in Uninit : a \in Nat
BY WireAssumption, RecvAssumption DEF HandshakeLen

(* The first state. *)
LEMMA InitOK == HeadersUnderstood /\ Init => Inv
<1> SUFFICES ASSUME HeadersUnderstood, Init
             PROVE  Inv
  OBVIOUS
<1>1. WireTypeOK /\ WireInv
  BY WireInitOK DEF Init
<1>2. Len(mux) = 1 /\ Len(stream) = 0
  BY DEF Init, WireInit
<1>3. TypeOK
  <2>1. rtmp_last \in [audio : Nat, video : Nat, type : Nat]
    BY ConstantFacts DEF Init, NoType
  <2>2. EmptySlot \in [last_message_size : Nat, message_size : Nat, message_type : Nat,
                       time_stamp : Nat, message_buf : Seq(Bytes)]
    BY DEF EmptySlot, NoType
  <2>3. m_pBuffer \in [DOMAIN m_pBuffer -> Bytes] /\ DOMAIN m_pBuffer = 0..(size - 1)
    BY DEF Init
  <2> QED
    BY <1>1, <2>1, <2>2, <2>3 DEF Init, TypeOK, PCs, Statuses
<1>4. BufferInv
  BY <1>2 DEF Init, BufferInv, Running
<1>5. JoinInv
  <2>1. ASSUME NEW cs \in Csids
        PROVE  SlotOK(rtmp_chunk[cs], mux[1].open[cs])
    BY <1>1 DEF Init, EmptySlot, SlotOK, WireInv
  <2>2. Len(mux[1].done) = 0
    BY <1>1 DEF WireInv
  <2> QED
    BY <1>2, <2>1, <2>2 DEF Init, JoinInv, Running
<1> QED
  BY <1>1, <1>3, <1>4, <1>5 DEF Inv

(* What a step that leaves the server, or what was joined, alone keeps.    *)
LEMMA WireKept ==
  ASSUME WireTypeOK, WireInv, UNCHANGED wireVars
  PROVE  WireTypeOK' /\ WireInv'
<1>1. stream' = stream /\ wire' = wire /\ mux' = mux
  BY DEF wireVars
<1>2. WireTypeOK'
  BY <1>1 DEF WireTypeOK
<1>3. Mux' = Mux
  BY <1>1 DEF Mux
<1>4. /\ \A k \in 1..Len(mux) : DoneSoFar(k)' = DoneSoFar(k)
      /\ \A k \in 1..Len(wire) : Laid(k)' = Laid(k) /\ Written(k)' = Written(k)
  BY <1>1, <1>3 DEF DoneSoFar, Laid, Written, Carried
<1>5. WireInv'
  BY <1>1, <1>3, <1>4 DEF WireInv
<1> QED
  BY <1>2, <1>5

LEMMA JoinKept ==
  ASSUME JoinInv, UNCHANGED <<mux, joinVars>>, Running' => Running
  PROVE  JoinInv'
BY DEF JoinInv, joinVars, SlotOK, DeliveredOK

-----------------------------------------------------------------------------
(* A step of the server. *)
LEMMA ServerStepOK ==
  ASSUME Inv, ServerStep
  PROVE  Inv'
<1>1. TypeOK /\ HeadersUnderstood /\ WireInv /\ BufferInv /\ JoinInv
  BY DEF Inv
<1>2. WireTypeOK' /\ WireInv' /\ Grown
  BY <1>1, ServerOK DEF ServerStep, TypeOK, HeadersUnderstood
<1>3. UNCHANGED <<connVars, bufVars, joinVars, rtmp_last>>
  BY DEF ServerStep
<1>4. TypeOK'
  BY <1>1, <1>2, <1>3 DEF TypeOK, connVars, bufVars, joinVars
<1>5. parsed + 1 \in 1..Len(mux) /\ mux'[parsed + 1] = mux[parsed + 1]
  BY <1>1, <1>2 DEF JoinInv, Grown
<1>6. BufferInv'
  <2>1. /\ size \in Nat /\ received \in Nat /\ Len(stream) \in Nat /\ Len(stream') \in Nat
        /\ Skipped \in Nat
    <3>1. Skipped \in Nat
      BY ConstantFacts DEF Skipped
    <3> QED
      BY SMTT(20), <1>1, <1>2, <3>1 DEF TypeOK, WireTypeOK
  <2>2. received <= Len(stream')
    BY <1>1, <1>2, <2>1 DEF BufferInv, Grown
  <2>3. Skipped' = Skipped /\ Base' = Base /\ Front' = Front /\ Running' = Running
    BY <1>3 DEF Skipped, Base, Front, Running, connVars, bufVars
  <2>4. ASSUME Running, rtmp_status # "send_c0c1", NEW i \in Skipped..(size - 1)
        PROVE  m_pBuffer[Base + i] = stream'[received - size + 1 + i]
    <3>1. m_pBuffer[Base + i] = stream[received - size + 1 + i]
      BY <1>1, <2>4 DEF BufferInv
    <3>2. received - size + 1 + i \in 1..Len(stream)
      BY <1>1, <2>1 DEF BufferInv
    <3> QED
      BY <1>2, <3>1, <3>2 DEF Grown
  <2> QED
    BY <1>1, <1>3, <1>5, <2>2, <2>3, <2>4 DEF BufferInv, connVars, bufVars, joinVars
<1>7. JoinInv'
  <2>1. Len(mux) <= Len(mux') /\ Len(mux) \in Nat /\ Len(mux') \in Nat
    BY SMTT(30), <1>1, <1>2 DEF Grown, TypeOK, WireTypeOK
  <2>2. Running' = Running
    BY <1>3 DEF Running, connVars
  <2> QED
    BY <1>1, <1>3, <1>5, <2>1, <2>2 DEF JoinInv, joinVars, SlotOK, DeliveredOK
<1> QED
  BY <1>1, <1>2, <1>4, <1>6, <1>7 DEF Inv, HeadersUnderstood

(* The thread is created, or the connection fails. *)
LEMMA StartPlayOK ==
  ASSUME Inv, StartPlay
  PROVE  Inv'
<1>1. TypeOK /\ HeadersUnderstood /\ WireInv /\ BufferInv /\ JoinInv
  BY DEF Inv
<1>2. WireTypeOK' /\ WireInv'
  BY <1>1, WireKept DEF StartPlay, TypeOK
<1>3. /\ pc = "start" /\ UNCHANGED <<wireVars, bufVars, rtmp_chunk, parsed, delivered, rtmp_last>>
      /\ rtmp_status = "init" /\ size = 0 /\ received = 0 /\ parsed = 0
  BY <1>1 DEF StartPlay, BufferInv
<1>4. \/ pc' = "done" /\ UNCHANGED <<rtmp_status, rtmp_chunk_max_size>>
      \/ pc' = "recv" /\ rtmp_status' \in {"wait_s0s1", "send_c0c1"}
           /\ rtmp_chunk_max_size' = DefaultChunk
  BY DEF StartPlay
<1>5. TypeOK'
  BY <1>1, <1>2, <1>3, <1>4, ConstantFacts DEF TypeOK, bufVars, PCs, Statuses
<1>6. BufferInv'
  BY <1>1, <1>2, <1>3, <1>4, ConstantFacts
     DEF BufferInv, bufVars, wireVars, Running, Skipped, Base, Front
<1>7. JoinInv'
  <2>1. parsed + 1 = 1 /\ mux' = mux /\ mux[1].max = DefaultChunk
    BY <1>1, <1>3 DEF wireVars, WireInv
  <2> QED
    BY <1>1, <1>3, <1>4, <2>1 DEF JoinInv, Running, SlotOK, DeliveredOK
<1> QED
  BY <1>1, <1>2, <1>5, <1>6, <1>7 DEF Inv, HeadersUnderstood

(* Bytes arrive. *)
LEMMA ReceiveOK ==
  ASSUME Inv, NEW n \in 1..(MAX_BUF_LEN - size), Receive(n)
  PROVE  Inv'
<1>1. TypeOK /\ HeadersUnderstood /\ WireInv /\ BufferInv /\ JoinInv
  BY DEF Inv
<1>2. WireTypeOK' /\ WireInv'
  BY <1>1, WireKept DEF Receive, TypeOK
<1>3. /\ pc = "recv" /\ pc' = "s0s1" /\ m_pBuffer' = Filled(n)
      /\ size' = size + n /\ received' = received + n /\ received + n <= Len(stream)
      /\ pos' = 0 /\ m_iParsePos' = 0
      /\ UNCHANGED <<wireVars, rtmp_status, joinVars, rtmp_last>>
  BY DEF Receive
<1>4. /\ size \in Nat /\ received \in Nat /\ n \in Nat /\ n > 0 /\ Len(stream) \in Nat
      /\ size <= received /\ stream \in Seq(Bytes)
  <2>1. size \in Nat /\ received \in Nat /\ stream \in Seq(Bytes)
    BY <1>1 DEF TypeOK, WireTypeOK
  <2>2. size <= received
    BY <1>1 DEF BufferInv
  <2>3. n \in Nat /\ n > 0
    BY <2>1, ConstantFacts
  <2> QED
    BY <2>1, <2>2, <2>3
<1>5. TypeOK'
  <2>1. DOMAIN m_pBuffer = 0..(size - 1) /\ m_pBuffer \in [DOMAIN m_pBuffer -> Bytes]
    BY <1>1, <1>3 DEF TypeOK
  <2>2. ASSUME NEW i \in 0..(size + n - 1)
        PROVE  (IF i < size THEN m_pBuffer[i] ELSE stream[received + (i - size) + 1]) \in Bytes
    <3>1. CASE i < size
      BY <1>4, <2>1, <3>1
    <3>2. CASE ~(i < size)
      <4>1. received + (i - size) + 1 \in 1..Len(stream)
        BY <1>3, <1>4, <3>2
      <4> QED
        BY <1>4, <3>2, <4>1
    <3> QED
      BY <3>1, <3>2
  <2>3. m_pBuffer' \in [0..(size + n - 1) -> Bytes]
    BY <1>3, <2>2 DEF Filled
  <2>4. DOMAIN m_pBuffer' = 0..(pos' + size' - 1)
    BY <1>3, <1>4, <2>3
  <2>5. size' \in Nat /\ received' \in Nat
    BY <1>3, <1>4
  <2> QED
    BY <1>1, <1>2, <1>3, <2>3, <2>4, <2>5 DEF TypeOK, PCs, joinVars
<1>6. BufferInv'
  <2>1. received' - size' = received - size /\ Base = 0 /\ Base' = 0
    BY <1>3, <1>4 DEF Base
  <2>2. Skipped' = Skipped /\ Skipped \in Nat /\ Running /\ Running'
    BY <1>3, ConstantFacts DEF Skipped, Running
  <2>3. Front' = Front
    BY <1>3, <1>4, <2>1 DEF Front
  <2>4. ASSUME rtmp_status # "send_c0c1", NEW i \in Skipped..(size' - 1)
        PROVE  m_pBuffer'[i] = stream[received - size + 1 + i]
    <3>1. i \in 0..(size + n - 1)
      BY <1>3, <1>4, <2>2
    <3>2. CASE i < size
      <4>1. m_pBuffer[Base + i] = stream[received - size + 1 + i]
        BY <1>1, <1>4, <2>2, <2>4, <3>1, <3>2 DEF BufferInv
      <4>2. m_pBuffer'[i] = m_pBuffer[i]
        BY <1>3, <3>1, <3>2 DEF Filled
      <4> QED
        BY <2>1, <3>1, <4>1, <4>2
    <3>3. CASE ~(i < size)
      <4>1. m_pBuffer'[i] = stream[received + (i - size) + 1]
        BY <1>3, <3>1, <3>3 DEF Filled
      <4>2. received + (i - size) + 1 = received - size + 1 + i
        BY <1>4, <3>1
      <4> QED
        BY <4>1, <4>2
    <3> QED
      BY <3>2, <3>3
  <2>5. rtmp_status # "send_c0c1" =>
          \A i \in Skipped..(size' - 1) :
             m_pBuffer'[Base' + i] = stream'[received' - size' + 1 + i]
    <3>1. \A i \in Skipped..(size' - 1) : Base' + i = i
      BY <1>3, <1>4, <2>1, <2>2
    <3>2. stream' = stream
      BY <1>3 DEF wireVars
    <3> QED
      BY <2>1, <2>4, <3>1, <3>2
  <2>6. size' <= received' /\ received' <= Len(stream')
    BY <1>3, <1>4 DEF wireVars
  <2>7. /\ rtmp_status = "wait_s0s1" => received' = size'
        /\ rtmp_status = "wait_s2" => received' - size' = S0S1Len
        /\ rtmp_status = "wait_connect" => Front' = mux'[parsed' + 1].at
        /\ rtmp_status # "wait_connect" => parsed' = 0
        /\ rtmp_status # "send_c0c1" => rtmp_status \in {"wait_s0s1", "wait_s2", "wait_connect"}
    BY <1>1, <1>3, <1>4, <2>1, <2>2, <2>3 DEF BufferInv, joinVars, wireVars
  <2> QED
    BY <1>3, <2>2, <2>5, <2>6, <2>7 DEF BufferInv
<1>7. JoinInv'
  BY <1>1, <1>3, JoinKept DEF wireVars, Running
<1> QED
  BY <1>1, <1>2, <1>5, <1>6, <1>7 DEF Inv, HeadersUnderstood

(* recv returns 0 or -1. *)
LEMMA ReceiveEndsOK ==
  ASSUME Inv, ReceiveEnds
  PROVE  Inv'
<1>1. TypeOK /\ HeadersUnderstood /\ WireInv /\ BufferInv /\ JoinInv
  BY DEF Inv
<1>2. WireTypeOK' /\ WireInv'
  BY <1>1, WireKept DEF ReceiveEnds, TypeOK
<1>3. /\ pc = "recv" /\ pc' = "done" /\ m_iParsePos' = 0
      /\ UNCHANGED <<wireVars, rtmp_status, m_pBuffer, size, pos, received, joinVars, rtmp_last>>
  BY DEF ReceiveEnds
<1>4. TypeOK'
  BY <1>1, <1>2, <1>3 DEF TypeOK, PCs, joinVars
<1>5. BufferInv'
  BY <1>1, <1>3 DEF BufferInv, Running, wireVars, joinVars
<1>6. JoinInv'
  BY <1>1, <1>3, JoinKept DEF wireVars, Running
<1> QED
  BY <1>1, <1>2, <1>4, <1>5, <1>6 DEF Inv, HeadersUnderstood

(* S0 S1 are skipped, if they are there. *)
LEMMA HandleS0S1OK ==
  ASSUME Inv, HandleS0S1
  PROVE  Inv'
<1>1. TypeOK /\ HeadersUnderstood /\ WireInv /\ BufferInv /\ JoinInv
  BY DEF Inv
<1>2. WireTypeOK' /\ WireInv'
  BY <1>1, WireKept DEF HandleS0S1, TypeOK
<1>3. /\ pc = "s0s1" /\ m_iParsePos = 0
      /\ UNCHANGED <<wireVars, m_pBuffer, m_iParsePos, received, joinVars, rtmp_last>>
  BY <1>1 DEF HandleS0S1, BufferInv
<1>4. /\ size \in Nat /\ pos \in Nat /\ received \in Nat /\ size <= received
      /\ S0S1Len \in Nat /\ S2Len \in Nat /\ HandshakeLen = S0S1Len + S2Len
  BY <1>1, ConstantFacts DEF TypeOK, BufferInv
<1>5. CASE rtmp_status = "wait_s0s1" /\ S0S1Complete
  <2>1. /\ pos' = pos + S0S1Len /\ size' = size - S0S1Len /\ size >= S0S1Len
        /\ \/ rtmp_status' = "wait_s2" /\ pc' = "s2"
           \/ rtmp_status' = "send_c2" /\ pc' = "done"
    BY <1>5 DEF HandleS0S1, S0S1Complete
  <2>2. pos' \in Nat /\ size' \in Nat /\ pos' + size' = pos + size
    BY <1>4, <2>1
  <2>3. TypeOK'
    <3>1. DOMAIN m_pBuffer = 0..(pos + size - 1) /\ m_pBuffer \in [DOMAIN m_pBuffer -> Bytes]
      BY <1>1, <1>3 DEF TypeOK
    <3>2. m_pBuffer' = m_pBuffer
      BY <1>3
    <3>3. DOMAIN m_pBuffer' = 0..(pos' + size' - 1) /\ m_pBuffer' \in [DOMAIN m_pBuffer' -> Bytes]
      BY SMTT(20), <1>4, <2>2, <3>1, <3>2
    <3> QED
      BY <1>1, <1>2, <1>3, <2>1, <2>2, <3>3 DEF TypeOK, PCs, Statuses, joinVars
  <2>4. received = size
    BY <1>1, <1>3, <1>5 DEF BufferInv, Running
  <2>5. ASSUME NEW i \in S2Len..(size' - 1)
        PROVE  m_pBuffer[pos' + i] = stream[received - size' + 1 + i]
    <3>1. S0S1Len + i \in Skipped..(size - 1)
      BY <1>4, <1>5, <2>1 DEF Skipped
    <3>2. m_pBuffer[Base + (S0S1Len + i)] = stream[received - size + 1 + (S0S1Len + i)]
      BY <1>1, <1>3, <1>5, <3>1 DEF BufferInv, Running
    <3>3. /\ Base + (S0S1Len + i) = pos' + i
          /\ received - size + 1 + (S0S1Len + i) = received - size' + 1 + i
      BY <1>3, <1>4, <2>1 DEF Base
    <3> QED
      BY <3>2, <3>3
  <2>6. received - size' = S0S1Len /\ size' <= received
    BY <1>4, <2>1, <2>4
  <2>7. parsed' = 0 /\ stream' = stream /\ received' = received /\ received <= Len(stream)
    BY <1>1, <1>3, <1>5 DEF BufferInv, joinVars, wireVars
  <2>8. BufferInv'
    <3>1. CASE pc' = "s2" /\ rtmp_status' = "wait_s2"
      BY <1>3, <2>5, <2>6, <2>7, <3>1 DEF BufferInv, Running, Skipped, Base
    <3>2. CASE pc' = "done" /\ rtmp_status' = "send_c2"
      BY <1>3, <2>6, <2>7, <3>2 DEF BufferInv, Running
    <3> QED
      BY <2>1, <3>1, <3>2
  <2>9. JoinInv'
    BY <1>1, <1>3, JoinKept DEF wireVars, Running
  <2> QED
    BY <1>1, <1>2, <2>3, <2>8, <2>9 DEF Inv, HeadersUnderstood
<1>6. CASE ~(rtmp_status = "wait_s0s1" /\ S0S1Complete)
  <2>1. pc' = "s2" /\ UNCHANGED <<pos, size, rtmp_status>>
    BY <1>6 DEF HandleS0S1
  <2>2. TypeOK'
    BY <1>1, <1>2, <1>3, <2>1 DEF TypeOK, PCs, joinVars
  <2>3. rtmp_status # "wait_s0s1" \/ size < S0S1Len
    BY <1>4, <1>6 DEF S0S1Complete
  <2>4. Base' = Base /\ Skipped' = Skipped /\ Front' = Front /\ Running /\ Running'
    BY <1>3, <2>1 DEF Base, Skipped, Front, Running
  <2>5. BufferInv'
    BY <1>1, <1>3, <2>1, <2>3, <2>4 DEF BufferInv, joinVars, wireVars
  <2>6. JoinInv'
    BY <1>1, <1>3, <2>4, JoinKept DEF wireVars
  <2> QED
    BY <1>1, <1>2, <2>2, <2>5, <2>6 DEF Inv, HeadersUnderstood
<1> QED
  BY <1>5, <1>6

(* The same for S2: the chunks start where the handshake ends. *)
LEMMA HandleS2OK ==
  ASSUME Inv, HandleS2
  PROVE  Inv'
<1>1. TypeOK /\ HeadersUnderstood /\ WireInv /\ BufferInv /\ JoinInv
  BY DEF Inv
<1>2. WireTypeOK' /\ WireInv'
  BY <1>1, WireKept DEF HandleS2, TypeOK
<1>3. /\ pc = "s2" /\ m_iParsePos = 0 /\ Running
      /\ UNCHANGED <<wireVars, m_iParsePos, received, joinVars, rtmp_last>>
      /\ rtmp_status # "wait_s0s1" \/ size < S0S1Len
  BY <1>1 DEF HandleS2, BufferInv, Running
<1>4. /\ size \in Nat /\ pos \in Nat /\ received \in Nat /\ size <= received
      /\ S0S1Len \in Nat /\ S2Len \in Nat \ {0} /\ HandshakeLen = S0S1Len + S2Len
      /\ DOMAIN m_pBuffer = 0..(pos + size - 1) /\ m_pBuffer \in [DOMAIN m_pBuffer -> Bytes]
  BY <1>1, <1>3, ConstantFacts DEF TypeOK, BufferInv
<1>5. received' = received /\ stream' = stream /\ mux' = mux /\ parsed' = parsed
      /\ received <= Len(stream)
  BY <1>1, <1>3 DEF BufferInv, joinVars, wireVars
<1>6. CASE rtmp_status = "wait_s2" /\ size >= S2Len
  <2>1. /\ pos' = pos + S2Len /\ size' = size - S2Len /\ m_pBuffer' = m_pBuffer
        /\ \/ rtmp_status' = "wait_connect" /\ pc' = "chunks"
           \/ pc' = "done" /\ rtmp_status' = "wait_s2"
    BY <1>6 DEF HandleS2
  <2>2. pos' \in Nat /\ size' \in Nat /\ pos' + size' = pos + size
    BY <1>4, <1>6, <2>1
  <2>3. TypeOK'
    <3>1. DOMAIN m_pBuffer' = 0..(pos' + size' - 1) /\ m_pBuffer' \in [DOMAIN m_pBuffer' -> Bytes]
      BY <1>4, <2>1, <2>2
    <3> QED
      BY <1>1, <1>2, <1>3, <2>1, <2>2, <3>1 DEF TypeOK, PCs, Statuses, joinVars
  <2>4. received - size = S0S1Len /\ parsed = 0
    BY <1>1, <1>3, <1>6 DEF BufferInv
  <2>5. ASSUME NEW i \in 0..(size' - 1)
        PROVE  m_pBuffer[pos' + i] = stream[received - size' + 1 + i]
    <3>1. S2Len + i \in Skipped..(size - 1)
      BY <1>4, <1>6, <2>1 DEF Skipped
    <3>2. m_pBuffer[Base + (S2Len + i)] = stream[received - size + 1 + (S2Len + i)]
      BY <1>1, <1>3, <1>6, <3>1 DEF BufferInv
    <3>3. /\ Base + (S2Len + i) = pos' + i
          /\ received - size + 1 + (S2Len + i) = received - size' + 1 + i
      BY <1>3, <1>4, <2>1 DEF Base
    <3> QED
      BY <3>2, <3>3
  <2>6. received - size' + 0 = mux[1].at /\ size' <= received
    BY <1>1, <1>4, <2>1, <2>4 DEF WireInv
  <2>7. BufferInv'
    <3>1. CASE pc' = "chunks" /\ rtmp_status' = "wait_connect"
      <4>1. Front' = mux'[parsed' + 1].at
        BY <1>3, <1>5, <2>4, <2>6, <3>1 DEF Front
      <4> QED
        BY <1>3, <1>5, <2>1, <2>2, <2>5, <2>6, <3>1, <4>1 DEF BufferInv, Running, Skipped, Base
    <3>2. CASE pc' = "done" /\ rtmp_status' = "wait_s2"
      BY <1>5, <2>4, <2>6, <3>2 DEF BufferInv, Running
    <3> QED
      BY <2>1, <3>1, <3>2
  <2>8. JoinInv'
    BY <1>1, <1>3, JoinKept DEF wireVars
  <2> QED
    BY <1>1, <1>2, <2>3, <2>7, <2>8 DEF Inv, HeadersUnderstood
<1>7. CASE ~(rtmp_status = "wait_s2" /\ size >= S2Len)
  <2>1. UNCHANGED <<pos, size, rtmp_status>>
    BY <1>7 DEF HandleS2
  <2>2. JoinInv'
    BY <1>1, <1>3, JoinKept DEF wireVars
  <2>3. CASE rtmp_status = "wait_connect"
    <3>1. pc' = "chunks" /\ m_pBuffer' = m_pBuffer
      BY <1>7, <2>3 DEF HandleS2
    <3>2. TypeOK'
      BY <1>1, <1>2, <1>3, <2>1, <3>1 DEF TypeOK, PCs, joinVars
    <3>3. Base' = Base /\ Skipped' = Skipped /\ Front' = Front /\ Running'
      BY <1>3, <2>1, <3>1 DEF Base, Skipped, Front, Running
    <3>4. BufferInv'
      BY <1>1, <1>3, <1>4, <1>5, <2>1, <2>3, <3>1, <3>3 DEF BufferInv
    <3> QED
      BY <1>1, <1>2, <2>2, <3>2, <3>4 DEF Inv, HeadersUnderstood
  <2>4. CASE rtmp_status # "wait_connect"
    <3>1. pc' = "recv" /\ m_pBuffer' = KeepFront(size)
      BY <1>7, <2>4 DEF HandleS2
    <3>2. m_pBuffer' \in [0..(size - 1) -> Bytes]
      <4>1. \A i \in 0..(size - 1) : m_pBuffer[i] \in Bytes
        BY <1>4
      <4> QED
        BY <3>1, <4>1 DEF KeepFront
    <3>3. TypeOK'
      BY <1>1, <1>2, <1>3, <1>4, <2>1, <3>1, <3>2 DEF TypeOK, PCs, joinVars
    <3>4. rtmp_status # "send_c0c1" => size < Skipped
      BY <1>1, <1>3, <1>4, <1>7, <2>4 DEF BufferInv, Skipped
    <3>5. Skipped' = Skipped /\ Running' /\ Skipped \in Nat
      BY <1>4, <2>1, <3>1 DEF Skipped, Running
    <3>6. \A i \in Skipped..(size - 1) : rtmp_status # "send_c0c1" => FALSE
      BY <1>4, <3>4, <3>5
    <3>7. BufferInv'
      BY <1>1, <1>3, <1>5, <2>1, <2>4, <3>1, <3>4, <3>5, <3>6 DEF BufferInv
    <3> QED
      BY <1>1, <1>2, <2>2, <3>3, <3>7 DEF Inv, HeadersUnderstood
  <2> QED
    BY <2>3, <2>4
<1> QED
  BY <1>6, <1>7

-----------------------------------------------------------------------------
(* rtmp_process_chunk looks at the first byte of the next chunk. *)
LEMMA Aligned ==
  ASSUME Inv, pc = "chunks", datalen > 0
  PROVE  parsed + 1 \in 1..Len(wire) /\ Here = <<parsed + 1, 0>>
         /\ HeadersAt(Here) = {wire[parsed + 1]}
<1>1. TypeOK /\ WireInv /\ BufferInv /\ JoinInv
  BY DEF Inv
<1>2. /\ wire \in Seq(Chunks) /\ mux \in Seq(MuxStates) /\ Len(stream) \in Nat
      /\ Len(mux) = Len(wire) + 1 /\ Len(wire) \in Nat
  BY SMTT(20), <1>1 DEF TypeOK, WireTypeOK, WireInv
<1>3. /\ size \in Nat /\ pos \in Nat /\ received \in Nat /\ m_iParsePos \in Nat
      /\ parsed \in Nat /\ m_iParsePos < size
  BY <1>1 DEF TypeOK, datalen
<1>4. /\ rtmp_status = "wait_connect" /\ received <= Len(stream)
      /\ received - size + m_iParsePos = mux[parsed + 1].at
      /\ \A i \in 0..(size - 1) : m_pBuffer[pos + i] = stream[received - size + 1 + i]
  BY <1>1 DEF BufferInv, Running, Front, Skipped, Base
<1>5. parsed + 1 \in 1..Len(mux) /\ Len(stream) <= Mux.at
  BY <1>1 DEF JoinInv, WireInv
<1>6. parsed + 1 \in 1..Len(wire)
  <2>1. mux[parsed + 1].at < Len(stream)
    BY <1>2, <1>3, <1>4
  <2>2. mux[parsed + 1] \in MuxStates /\ Mux \in MuxStates
    BY <1>2, <1>5 DEF Mux
  <2>3. mux[parsed + 1].at \in Nat /\ Mux.at \in Nat
    BY <2>2 DEF MuxStates
  <2>4. parsed + 1 # Len(mux)
    BY <1>2, <1>5, <2>1, <2>3 DEF Mux
  <2> QED
    BY <1>2, <1>3, <1>5, <2>4
<1>7. Here = <<parsed + 1, 0>>
  <2>1. Here = stream[received - size + 1 + m_iParsePos]
    <3>1. m_iParsePos \in 0..(size - 1)
      BY <1>3
    <3> QED
      BY <1>4, <3>1 DEF Here
  <2>2. received - size + 1 + m_iParsePos = mux[parsed + 1].at + 1 + 0
    BY <1>3, <1>4
  <2>3. ChunkLen(wire[parsed + 1]) \in Nat \ {0}
    <3>1. wire[parsed + 1] \in Chunks
      BY <1>2, <1>6
    <3>2. HeaderLen(wire[parsed + 1]) \in Nat \ {0} /\ wire[parsed + 1].pay \in Nat
      BY <3>1, HeaderLenType DEF Chunks
    <3> QED
      BY <3>2 DEF ChunkLen
  <2>4. stream[mux[parsed + 1].at + 1 + 0] = <<parsed + 1, 0>>
    <3>1. Laid(parsed + 1)
      BY <1>1, <1>6 DEF WireInv
    <3>2. 0 \in 0..(ChunkLen(wire[parsed + 1]) - 1)
      BY <2>3
    <3> QED
      BY <3>1, <3>2 DEF Laid
  <2> QED
    BY <2>1, <2>2, <2>4
<1>8. HeadersAt(Here) = {wire[parsed + 1]}
  BY <1>3, <1>7 DEF HeadersAt
<1> QED
  BY <1>6, <1>7, <1>8

(* The rest of the buffer is moved to its front. *)
LEMMA ReceiveAgainOK ==
  ASSUME Inv, pc = "chunks", ReceiveAgain,
         rtmp_last' \in [audio : Nat, video : Nat, type : Nat]
  PROVE  Inv'
<1>1. TypeOK /\ HeadersUnderstood /\ WireInv /\ BufferInv /\ JoinInv
  BY DEF Inv
<1>2. WireTypeOK' /\ WireInv'
  BY <1>1, WireKept DEF ReceiveAgain, TypeOK
<1>3. /\ size' = size - m_iParsePos /\ m_pBuffer' = CopyDown(size - m_iParsePos)
      /\ pc' = "recv"
      /\ UNCHANGED <<wireVars, rtmp_status, pos, m_iParsePos, received, joinVars>>
  BY DEF ReceiveAgain, datalen
<1>4. /\ size \in Nat /\ pos \in Nat /\ received \in Nat /\ m_iParsePos \in Nat
      /\ m_iParsePos <= size /\ size <= received /\ received <= Len(stream)
      /\ rtmp_status = "wait_connect"
      /\ DOMAIN m_pBuffer = 0..(pos + size - 1) /\ m_pBuffer \in [DOMAIN m_pBuffer -> Bytes]
  BY <1>1 DEF TypeOK, BufferInv
<1>5. size' \in Nat /\ received - size' = received - size + m_iParsePos /\ size' <= received
  BY <1>3, <1>4
<1>6. TypeOK'
  <2>1. \A i \in 0..(size' - 1) : m_pBuffer[pos + m_iParsePos + i] \in Bytes
    BY <1>3, <1>4
  <2>2. m_pBuffer' \in [0..(size' - 1) -> Bytes]
    BY <1>3, <2>1 DEF CopyDown
  <2> QED
    BY <1>1, <1>2, <1>3, <1>5, <2>2 DEF TypeOK, PCs, joinVars
<1>7. ASSUME NEW i \in 0..(size' - 1)
      PROVE  m_pBuffer'[i] = stream[received - size' + 1 + i]
  <2>1. m_pBuffer'[i] = m_pBuffer[pos + m_iParsePos + i]
    BY <1>3 DEF CopyDown
  <2>2. m_iParsePos + i \in 0..(size - 1)
    BY <1>3, <1>4
  <2>3. m_pBuffer[pos + (m_iParsePos + i)] = stream[received - size + 1 + (m_iParsePos + i)]
    BY <1>1, <1>4, <2>2 DEF BufferInv, Running, Skipped, Base
  <2>4. /\ pos + (m_iParsePos + i) = pos + m_iParsePos + i
        /\ received - size + 1 + (m_iParsePos + i) = received - size' + 1 + i
    BY <1>4, <1>5
  <2> QED
    BY <2>1, <2>3, <2>4
<1>8. received - size' = mux[parsed + 1].at
  BY <1>1, <1>4, <1>5 DEF BufferInv, Running, Front
<1>9. BufferInv'
  <2>1. \A i \in 0..(size' - 1) : 0 + i = i
    BY <1>5
  <2>2. Base' = 0 /\ Skipped' = 0 /\ Front' = received - size' + 0
    BY <1>3, <1>4 DEF Base, Skipped, Front
  <2>3. received' = received /\ stream' = stream /\ mux' = mux /\ parsed' = parsed
    BY <1>3 DEF wireVars, joinVars
  <2>4. received - size' + 0 = received - size'
    BY <1>4, <1>5
  <2> QED
    BY <1>3, <1>4, <1>5, <1>7, <1>8, <2>1, <2>2, <2>3, <2>4 DEF BufferInv
<1>10. JoinInv'
  BY <1>1, <1>3, JoinKept DEF wireVars, Running
<1> QED
  BY <1>1, <1>2, <1>6, <1>9, <1>10 DEF Inv, HeadersUnderstood

(* A chunk stream id that is refused ends the thread. *)
LEMMA ChunkIdRefusedOK ==
  ASSUME Inv, pc = "chunks", NEW h, ChunkIdRefused(h)
  PROVE  Inv'
<1>1. TypeOK /\ HeadersUnderstood /\ WireInv /\ BufferInv /\ JoinInv
  BY DEF Inv
<1>2. pc' = "done" /\ UNCHANGED <<wireVars, rtmp_status, bufVars, joinVars, rtmp_last>>
  BY DEF ChunkIdRefused
<1>3. WireTypeOK' /\ WireInv'
  BY <1>1, <1>2, WireKept DEF TypeOK
<1>4. TypeOK'
  BY <1>1, <1>2, <1>3 DEF TypeOK, PCs, joinVars, bufVars
<1>5. BufferInv'
  BY <1>1, <1>2 DEF BufferInv, Running, wireVars, joinVars, bufVars
<1>6. JoinInv'
  BY <1>1, <1>2, JoinKept DEF wireVars, Running
<1> QED
  BY <1>1, <1>3, <1>4, <1>5, <1>6 DEF Inv, HeadersUnderstood

-----------------------------------------------------------------------------
(* How long a chunk is taken for is how long the server made it.           *)
LEMMA ChunkMeasured ==
  ASSUME Inv, pc = "chunks", NEW k \in Nat, k = parsed + 1, k \in 1..Len(wire),
         NEW c, c = wire[k], NEW m, m = Carried(k),
         c.cs < MAX_CHUNK_ID
  PROVE  /\ c \in Chunks /\ m \in Messages /\ mux[k] \in MuxStates /\ c.pay <= m.rem
         /\ IsNew(c) <=> c.fmt # 3
         /\ Missing(c) = m.rem
         /\ chunk_len(c) = c.pay
         /\ chunk_header_len(c) + 1 = HeaderLen(c) /\ chunk_header_len(c) \in Nat
<1>1. TypeOK /\ WireInv /\ BufferInv /\ JoinInv
  BY DEF Inv
<1>2. /\ wire \in Seq(Chunks) /\ mux \in Seq(MuxStates) /\ k \in 1..Len(mux)
  BY SMTT(20), <1>1 DEF TypeOK, WireTypeOK, WireInv
<1>3. c \in Chunks /\ mux[k] \in MuxStates
  BY <1>2
<1>4. Written(k) /\ Laid(k)
  BY <1>1 DEF WireInv
<1>5. mux[k].open[c.cs] \in Messages
  BY <1>3 DEF MuxStates, Chunks
<1>6. m \in Messages
  BY <1>3, <1>4, CarriedType DEF Written
<1>7. /\ c.pay = Least(m.rem, mux[k].max) /\ c.fmt # 2 /\ MessageOK(wire, m)
      /\ c.fmt = 3 <=> mux[k].open[c.cs].rem > 0
  BY <1>4 DEF Written
<1>8. m.rem \in Nat /\ mux[k].max \in Nat /\ mux[k].open[c.cs].rem \in Nat /\ c.pay \in Nat
  BY <1>3, <1>5, <1>6 DEF Messages, MuxStates, Chunks
<1>9. c.pay <= m.rem
  <2>1. Least(m.rem, mux[k].max) <= m.rem
    BY <1>8, LeastType
  <2> QED
    BY <1>7, <2>1
<1>10. /\ rtmp_chunk[c.cs].last_message_size = mux[k].open[c.cs].rem
       /\ rtmp_chunk_max_size = mux[k].max
  <2>1. c.cs \in Csids
    BY <1>3 DEF Chunks
  <2> QED
    BY <1>1, <2>1 DEF JoinInv, SlotOK, Running
<1>11. IsNew(c) <=> c.fmt # 3
  BY <1>7, <1>8, <1>10 DEF IsNew
<1>12. Missing(c) = m.rem
  <2>1. CASE c.fmt = 3
    BY <1>10, <1>11, <2>1 DEF Missing, Carried
  <2>2. CASE c.fmt # 3
    <3>1. c.fmt \in {0, 1}
      BY <1>3, <1>7, <2>2 DEF Chunks
    <3>2. m.rem = c.size
      BY <2>2 DEF Carried
    <3> QED
      BY <1>11, <2>2, <3>1, <3>2 DEF Missing, InfoSize
  <2> QED
    BY <2>1, <2>2
<1>13. chunk_len(c) = c.pay
  BY <1>7, <1>10, <1>12 DEF chunk_len
<1>14. chunk_header_len(c) + 1 = HeaderLen(c) /\ chunk_header_len(c) \in Nat
  <2>1. MessageHeaderLen(c.fmt) \in Nat /\ BasicHeaderLen(c.cs) = 1
    <3>1. c.cs < 64
      <4>1. c.cs \in Csids
        BY <1>3 DEF Chunks
      <4>2. c.cs \in Nat
        BY <4>1, WireAssumption
      <4> QED
        BY <4>2, ConstantFacts
    <3> QED
      BY <1>3, <3>1, HeaderLenType DEF BasicHeaderLen
  <2>2. ~RepeatExtended
    BY DEF Inv, HeadersUnderstood
  <2> QED
    BY <2>1, <2>2 DEF chunk_header_len, HeaderLen, Extended
<1> QED
  BY <1>3, <1>6, <1>9, <1>11, <1>12, <1>13, <1>14

(* What was computed of a complete chunk is what the server put into it.   *)
LEMMA ChunkRead ==
  ASSUME Inv, pc = "chunks", NEW k \in Nat, k = parsed + 1, k \in 1..Len(wire),
         NEW c, c = wire[k], NEW m, m = Carried(k),
         c.cs < MAX_CHUNK_ID, HeaderComplete(c), ChunkComplete(c)
  PROVE  /\ c \in Chunks /\ m \in Messages /\ mux[k] \in MuxStates /\ c.pay <= m.rem
         /\ IsNew(c) <=> c.fmt # 3
         /\ Missing(c) = m.rem
         /\ chunk_len(c) = c.pay
         /\ chunk_header_len(c) + 1 = HeaderLen(c) /\ chunk_header_len(c) \in Nat
         /\ Body(c) = Payload(k, c)
<1>1. TypeOK /\ WireInv /\ BufferInv /\ JoinInv
  BY DEF Inv
<1>2. /\ c \in Chunks /\ m \in Messages /\ mux[k] \in MuxStates /\ c.pay <= m.rem
      /\ IsNew(c) <=> c.fmt # 3
      /\ Missing(c) = m.rem
      /\ chunk_len(c) = c.pay
      /\ chunk_header_len(c) + 1 = HeaderLen(c) /\ chunk_header_len(c) \in Nat
  BY ChunkMeasured
<1>3. Laid(k) /\ c.pay \in Nat
  BY <1>1, <1>2 DEF WireInv, Chunks
<1>4. /\ size \in Nat /\ pos \in Nat /\ received \in Nat /\ m_iParsePos \in Nat
      /\ m_iParsePos <= size /\ size <= received
      /\ received - size + m_iParsePos = mux[k].at
  BY <1>1 DEF TypeOK, BufferInv, Running, Front, Skipped, Base
<1>6. \A i \in 0..(size - 1) : m_pBuffer[pos + i] = stream[received - size + 1 + i]
  BY <1>1 DEF BufferInv, Running, Skipped, Base
<1>5. Body(c) = Payload(k, c)
  <2> DEFINE chl == chunk_header_len(c)
  <2>1. chl \in Nat /\ HeaderLen(c) = chl + 1
    BY <1>2
  <2>2. size - m_iParsePos >= c.pay + chl + 1
    BY <1>2 DEF ChunkComplete, datalen
  <2> HIDE DEF chl
  <2>3. ASSUME NEW i \in 1..c.pay
        PROVE  m_pBuffer[pos + m_iParsePos + chl + i] = <<k, HeaderLen(c) + i - 1>>
    <3>1. m_iParsePos + chl + i \in 0..(size - 1)
      <4>1. /\ chl \in Nat /\ m_iParsePos \in Nat /\ size \in Nat /\ c.pay \in Nat
            /\ i \in Nat /\ 1 <= i /\ i <= c.pay
        BY <1>3, <1>4, <2>1
      <4> QED
        BY SMTT(30), <2>2, <4>1
    <3>2. m_pBuffer[pos + (m_iParsePos + chl + i)]
            = stream[received - size + 1 + (m_iParsePos + chl + i)]
      BY <1>6, <3>1
    <3>3. /\ pos + (m_iParsePos + chl + i) = pos + m_iParsePos + chl + i
          /\ received - size + 1 + (m_iParsePos + chl + i) = mux[k].at + 1 + (chl + i)
          /\ chl + i = HeaderLen(c) + i - 1
      BY <1>3, <1>4, <2>1
    <3>4. chl + i \in 0..(ChunkLen(c) - 1)
      BY <1>3, <2>1 DEF ChunkLen
    <3>5. stream[mux[k].at + 1 + (chl + i)] = <<k, chl + i>>
      BY <1>3, <3>4 DEF Laid
    <3> QED
      BY <3>2, <3>3, <3>5
  <2>4. Body(c) = [i \in 1..c.pay |-> m_pBuffer[pos + m_iParsePos + chl + i]]
    BY <1>2 DEF Body, chl
  <2> QED
    BY <2>3, <2>4 DEF Payload
<1> QED
  BY <1>2, <1>5

LEMMA TimeTypes ==
  ASSUME TypeOK, NEW h \in Chunks
  PROVE  InfoTime(h) \in Nat /\ LastAfter(h) \in [audio : Nat, video : Nat, type : Nat]
<1>1. /\ rtmp_last.audio \in Nat /\ rtmp_last.video \in Nat /\ rtmp_last.type \in Nat
      /\ rtmp_last \in [audio : Nat, video : Nat, type : Nat]
  BY DEF TypeOK
<1>2. h.ts \in Nat /\ h.type \in Nat
  BY DEF Chunks
<1>3. LastOf(TimeKind(h)) \in Nat
  BY <1>1 DEF LastOf
<1>4. InfoTime(h) \in Nat
  BY <1>2, <1>3 DEF InfoTime
<1>5. /\ (IF TimeKind(h) = AUDIO THEN InfoTime(h) ELSE rtmp_last.audio) \in Nat
      /\ (IF TimeKind(h) = VIDEO THEN InfoTime(h) ELSE rtmp_last.video) \in Nat
      /\ (IF h.fmt = 2 THEN rtmp_last.type ELSE h.type) \in Nat
  BY <1>1, <1>2, <1>4
<1> QED
  BY <1>1, <1>4, <1>5 DEF LastAfter

(* The slot of the chunk stream, and the message if it is complete, are    *)
(* what the server has sent of the message.                                *)
LEMMA ChunkJoins ==
  ASSUME Inv, pc = "chunks", NEW k \in Nat, k = parsed + 1, k \in 1..Len(wire),
         NEW c, c = wire[k], NEW m, m = Carried(k), NEW sent, sent = Sent(k, c, m),
         c.cs < MAX_CHUNK_ID, HeaderComplete(c), ChunkComplete(c)
  PROVE  /\ sent \in Messages
         /\ SlotAfter(c) \in [last_message_size : Nat, message_size : Nat, message_type : Nat,
                               time_stamp : Nat, message_buf : Seq(Bytes)]
         /\ SlotAfter(c).message_type = sent.type /\ SlotAfter(c).message_size = sent.size
         /\ sent.fmt = 0 => SlotAfter(c).time_stamp = sent.ts
         /\ SlotOK(SlotAfter(c), sent)
         /\ MessageComplete(c) <=> sent.rem = 0
         /\ MessageData(c) = sent.body
<1>1. TypeOK /\ WireInv /\ BufferInv /\ JoinInv
  BY DEF Inv
<1>2. /\ c \in Chunks /\ m \in Messages /\ mux[k] \in MuxStates /\ c.pay <= m.rem
      /\ IsNew(c) <=> c.fmt # 3
      /\ Missing(c) = m.rem /\ chunk_len(c) = c.pay /\ Body(c) = Payload(k, c)
  BY ChunkRead
<1>3. Written(k)
  BY <1>1 DEF WireInv
<1>4. c.fmt # 2 /\ MessageOK(wire, m) /\ (c.fmt = 3 <=> mux[k].open[c.cs].rem > 0)
  BY <1>3 DEF Written
<1>5. /\ c.cs \in Csids /\ c.pay \in Nat /\ c.fmt \in {0, 1, 3}
      /\ c.type \in Nat /\ c.size \in Nat
  BY <1>2, <1>4 DEF Chunks
<1>6. /\ m.rem \in Nat /\ m.body \in Seq(Bytes) /\ m.type \in Nat /\ m.size \in Nat
  BY <1>2 DEF Messages
<1>7. Payload(k, c) \in Seq(Bytes) /\ Len(Payload(k, c)) = c.pay
  BY <1>2, PayloadType
<1>8. m.body \o Payload(k, c) \in Seq(Bytes)
  BY <1>6, <1>7, ConcatProps
<1>9. /\ sent.rem = m.rem - c.pay /\ sent.body = m.body \o Payload(k, c)
      /\ sent.type = m.type /\ sent.size = m.size /\ sent.fmt = m.fmt /\ sent.ts = m.ts
  BY <1>2 DEF Sent, Messages
<1>10. sent \in Messages
  <2>1. m.type = SET_CHUNK_SIZE => m.val # 0
    BY <1>4 DEF MessageOK
  <2> QED
    BY <1>2, <2>1, AfterChunkType
<1> DEFINE slot == rtmp_chunk[c.cs]
           buf  == IF ~IsNew(c) THEN slot.message_buf \o Body(c)
                   ELSE IF chunk_len(c) = InfoSize(c) THEN slot.message_buf ELSE Body(c)
           tp   == IF IsNew(c) THEN InfoType(c) ELSE slot.message_type
           sz   == IF IsNew(c) THEN InfoSize(c) ELSE slot.message_size
           ts   == IF IsNew(c) THEN InfoTime(c) ELSE slot.time_stamp
<1>11. SlotAfter(c) = [last_message_size |-> m.rem - c.pay, message_size |-> sz,
                       message_type |-> tp, time_stamp |-> ts, message_buf |-> buf]
  BY <1>2 DEF SlotAfter
<1>12. /\ SlotAfter(c).last_message_size = m.rem - c.pay
       /\ SlotAfter(c).message_size = sz /\ SlotAfter(c).message_type = tp
       /\ SlotAfter(c).message_buf = buf /\ SlotAfter(c).time_stamp = ts
  <2> HIDE DEF tp, sz, ts, buf
  <2> QED
    BY <1>11
<1>13. slot \in [last_message_size : Nat, message_size : Nat, message_type : Nat,
                 time_stamp : Nat, message_buf : Seq(Bytes)]
  BY <1>1, <1>5 DEF TypeOK
<1>14. SlotOK(slot, mux[k].open[c.cs])
  BY <1>1, <1>5 DEF JoinInv
<1>15. CASE c.fmt = 3
  <2>1. /\ slot.message_type = m.type /\ slot.message_size = m.size
        /\ slot.message_buf = m.body
        /\ m.fmt = 0 => slot.time_stamp = m.ts
    BY <1>4, <1>14, <1>15 DEF SlotOK, Carried
  <2>2. /\ tp = sent.type /\ sz = sent.size /\ ts \in Nat /\ buf = sent.body
        /\ sent.fmt = 0 => ts = sent.ts
    BY <1>2, <1>9, <1>13, <1>15, <2>1
  <2>3. MessageData(c) = sent.body
    <3>1. MessageData(c) = SlotAfter(c).message_buf
      BY <1>2, <1>15 DEF MessageData
    <3> HIDE DEF buf
    <3> QED
      BY <1>12, <2>2, <3>1
  <2>4. MessageComplete(c) <=> sent.rem = 0
    BY <1>2, <1>5, <1>6, <1>9 DEF MessageComplete
  <2> HIDE DEF tp, sz, ts, buf
  <2>5. SlotOK(SlotAfter(c), sent)
    BY <1>9, <1>12, <2>2 DEF SlotOK
  <2>6. SlotAfter(c) \in [last_message_size : Nat, message_size : Nat, message_type : Nat,
                          time_stamp : Nat, message_buf : Seq(Bytes)]
    BY <1>2, <1>5, <1>6, <1>8, <1>9, <1>11, <2>2
  <2> QED
    BY <1>10, <1>12, <2>2, <2>3, <2>4, <2>5, <2>6
<1>16. CASE c.fmt # 3
  <2>1. m.body = <<>> /\ m.rem = c.size /\ m.type = c.type /\ m.size = c.size
    BY <1>16 DEF Carried
  <2>2. InfoType(c) = c.type /\ InfoSize(c) = c.size
    BY <1>5, <1>16 DEF InfoType, InfoSize
  <2>3. sent.body = Payload(k, c)
    <3>1. \A t \in Seq(Bytes) : <<>> \o t = t
      OBVIOUS
    <3> QED
      BY <1>7, <1>9, <2>1, <3>1
  <2>4. MessageData(c) = sent.body
    BY <1>2, <1>16, <2>3 DEF MessageData
  <2>5. MessageComplete(c) <=> sent.rem = 0
    BY <1>2, <1>5, <1>6, <1>9 DEF MessageComplete
  <2>6. InfoTime(c) \in Nat
    BY <1>1, <1>2, TimeTypes
  <2>7. /\ tp = sent.type /\ sz = sent.size /\ ts \in Nat
        /\ sent.fmt = 0 => ts = sent.ts
    <3>1. tp = sent.type /\ sz = sent.size /\ ts = InfoTime(c)
      BY <1>2, <1>9, <1>16, <2>1, <2>2
    <3>2. m.fmt = 0 => InfoTime(c) = m.ts
      BY <1>16 DEF Carried, InfoTime
    <3> QED
      BY <1>9, <2>6, <3>1, <3>2
  <2>8. buf \in Seq(Bytes) /\ (sent.rem > 0 => buf = sent.body)
    <3>1. sent.rem > 0 => c.pay # c.size
      BY <1>5, <1>6, <1>9, <2>1
    <3> QED
      BY <1>2, <1>7, <1>13, <1>16, <2>2, <2>3, <3>1
  <2> HIDE DEF tp, sz, ts, buf
  <2>9. SlotOK(SlotAfter(c), sent)
    BY <1>9, <1>12, <2>7, <2>8 DEF SlotOK
  <2>10. SlotAfter(c) \in [last_message_size : Nat, message_size : Nat, message_type : Nat,
                           time_stamp : Nat, message_buf : Seq(Bytes)]
    BY <1>2, <1>5, <1>6, <1>9, <1>11, <2>7, <2>8
  <2> QED
    BY <1>10, <1>12, <2>4, <2>5, <2>7, <2>9, <2>10
<1> QED
  BY <1>15, <1>16

(* A complete chunk is taken in, and its message handed on if that is      *)
(* complete too.                                                           *)
LEMMA ChunkTakenOK ==
  ASSUME Inv, pc = "chunks", NEW k \in Nat, k = parsed + 1, k \in 1..Len(wire),
         NEW c, c = wire[k], ChunkJoined(c) \/ MessageDelivered(c)
  PROVE  Inv'
<1>0. SUFFICES ASSUME NEW m, m = Carried(k), NEW sent, sent = Sent(k, c, m),
                      NEW old, old = mux[k], NEW next, next = mux[k + 1]
               PROVE  Inv'
  OBVIOUS
<1>1. TypeOK /\ HeadersUnderstood /\ WireInv /\ BufferInv /\ JoinInv
  BY DEF Inv
<1>2. /\ TakeChunk(c) /\ c.cs < MAX_CHUNK_ID /\ HeaderComplete(c) /\ ChunkComplete(c)
      /\ rtmp_last' = LastAfter(c)
      /\ rtmp_chunk' = [rtmp_chunk EXCEPT ![c.cs] = SlotAfter(c)]
      /\ m_iParsePos' = m_iParsePos + chunk_len(c) + chunk_header_len(c) + 1
      /\ parsed' = parsed + 1
      /\ UNCHANGED <<wireVars, rtmp_status, m_pBuffer, size, pos, received>>
  BY DEF ChunkJoined, MessageDelivered, TakeChunk
<1>3. /\ c \in Chunks /\ m \in Messages /\ old \in MuxStates
      /\ chunk_len(c) = c.pay
      /\ chunk_header_len(c) + 1 = HeaderLen(c) /\ chunk_header_len(c) \in Nat
  BY <1>0, <1>2, ChunkRead
<1>4. /\ sent \in Messages
      /\ SlotAfter(c) \in [last_message_size : Nat, message_size : Nat, message_type : Nat,
                            time_stamp : Nat, message_buf : Seq(Bytes)]
      /\ SlotAfter(c).message_type = sent.type /\ SlotAfter(c).message_size = sent.size
      /\ sent.fmt = 0 => SlotAfter(c).time_stamp = sent.ts
      /\ SlotOK(SlotAfter(c), sent)
      /\ MessageComplete(c) <=> sent.rem = 0
      /\ MessageData(c) = sent.body
  BY <1>0, <1>2, ChunkJoins
<1>5. next = AfterChunk(k, old, c, m)
  <2>1. Written(k)
    BY <1>1 DEF WireInv
  <2> QED
    BY <1>0, <2>1 DEF Written
<1>6. /\ next.at = old.at + HeaderLen(c) + c.pay
      /\ next.max = IF sent.rem = 0 /\ m.type = SET_CHUNK_SIZE THEN m.val ELSE old.max
      /\ next.open = [old.open EXCEPT ![c.cs] = sent]
      /\ next.done = IF sent.rem = 0 THEN Append(old.done, [cs |-> c.cs, msg |-> sent])
                     ELSE old.done
  BY <1>0, <1>5 DEF AfterChunk
<1>7. /\ c.cs \in Csids /\ c.pay \in Nat /\ HeaderLen(c) \in Nat
      /\ sent.type = m.type /\ sent.val = m.val /\ sent.type \in Nat /\ sent.size \in Nat
  <2>1. sent.type = m.type /\ sent.val = m.val
    BY <1>0, <1>3 DEF Sent, Messages
  <2>2. HeaderLen(c) \in Nat
    BY <1>3, HeaderLenType
  <2> QED
    BY <1>3, <1>4, <2>1, <2>2 DEF Chunks, Messages
<1>8. WireTypeOK' /\ WireInv'
  BY <1>1, <1>2, WireKept DEF TypeOK
<1>9. /\ wire \in Seq(Chunks) /\ mux \in Seq(MuxStates) /\ Len(mux) = Len(wire) + 1
      /\ k \in 1..Len(mux) /\ k + 1 \in 1..Len(mux) /\ next \in MuxStates
  <2>1. wire \in Seq(Chunks) /\ mux \in Seq(MuxStates) /\ Len(mux) = Len(wire) + 1
    BY <1>1 DEF TypeOK, WireTypeOK, WireInv
  <2>2. k \in 1..Len(mux) /\ k + 1 \in 1..Len(mux)
    BY <2>1
  <2> QED
    BY <1>0, <2>1, <2>2
<1>10. /\ m_iParsePos \in Nat /\ size \in Nat /\ received \in Nat /\ old.at \in Nat
       /\ m_iParsePos <= size /\ rtmp_status = "wait_connect"
       /\ received - size + m_iParsePos = old.at
       /\ rtmp_chunk_max_size = old.max /\ old.max \in Nat /\ next.max \in Nat
  BY <1>0, <1>1, <1>3, <1>9 DEF TypeOK, BufferInv, JoinInv, Running, Front, MuxStates
<1>11. /\ m_iParsePos' \in Nat /\ m_iParsePos' <= size
       /\ received - size + m_iParsePos' = next.at
  <2>1. SUFFICES ASSUME NEW p \in Nat, p = m_iParsePos, NEW pay \in Nat, pay = c.pay,
                        NEW chl \in Nat, chl = chunk_header_len(c), HeaderLen(c) = chl + 1
                 PROVE  /\ m_iParsePos' \in Nat /\ m_iParsePos' <= size
                        /\ received - size + m_iParsePos' = next.at
    BY <1>3, <1>7, <1>10
  <2>2. m_iParsePos' = p + pay + chl + 1
    BY <1>2, <1>3, <2>1
  <2>3. size - p >= pay + chl + 1
    BY <1>2, <1>3, <2>1 DEF ChunkComplete, datalen
  <2>4. next.at = old.at + (chl + 1) + pay /\ received - size + p = old.at
    BY <1>6, <1>10, <2>1
  <2>5. size \in Nat /\ received \in Nat /\ old.at \in Nat
    BY <1>10
  <2>6. m_iParsePos' \in Nat /\ m_iParsePos' <= size
    BY <2>2, <2>3, <2>5
  <2>7. received - size + m_iParsePos' = next.at
    BY <2>2, <2>4, <2>5
  <2> QED
    BY <2>6, <2>7
(* A complete message is handed on and an incomplete one is not. *)
<1>12. \/ sent.rem # 0 /\ UNCHANGED <<pc, rtmp_chunk_max_size, delivered>>
       \/ /\ sent.rem = 0
          /\ delivered' = Append(delivered,
               [cs |-> c.cs, type |-> sent.type, size |-> sent.size,
                ts |-> SlotAfter(c).time_stamp, data |-> sent.body])
          /\ rtmp_chunk_max_size' =
               IF sent.type = SET_CHUNK_SIZE THEN SetChunkSize(sent.body)
               ELSE rtmp_chunk_max_size
          /\ pc' \in {"chunks", "done"}
  BY <1>4 DEF ChunkJoined, MessageDelivered
<1>13. rtmp_chunk_max_size' = next.max
  <2>1. CASE sent.rem = 0 /\ sent.type = SET_CHUNK_SIZE
    <3>1. MessageOK(wire, sent)
      <4>1. MessageOK(wire, next.open[c.cs])
        BY <1>0, <1>1, <1>7, <1>9 DEF WireInv
      <4>2. next.open[c.cs] = sent
        BY <1>3, <1>6, <1>7 DEF MuxStates
      <4> QED
        BY <4>1, <4>2
    <3>2. sent.body \in Seq(Bytes) /\ Len(sent.body) \in Nat
      BY <1>4 DEF Messages
    <3>3. Len(sent.body) = 4
      <4>1. Len(sent.body) + 0 = sent.size /\ sent.size = 4
        BY <2>1, <3>1 DEF MessageOK
      <4> QED
        BY <3>2, <4>1
    <3>4. wire[sent.body[1][1]].val = sent.val
      BY <3>1, <3>3 DEF MessageOK
    <3> QED
      BY <1>6, <1>7, <1>12, <2>1, <3>4 DEF SetChunkSize
  <2>2. CASE ~(sent.rem = 0 /\ sent.type = SET_CHUNK_SIZE)
    BY <1>6, <1>7, <1>10, <1>12, <2>2
  <2> QED
    BY <2>1, <2>2
<1>14. pc' \in {"chunks", "done"}
  BY <1>12
<1>15. /\ SlotAfter(c).time_stamp \in Nat
       /\ sent.body \in Seq(Bytes) /\ sent.rem \in Nat
  BY <1>4 DEF Messages
<1>16. delivered' \in Seq([cs : Csids, type : Nat, size : Nat, ts : Nat, data : Seq(Bytes)])
  <2>1. delivered \in Seq([cs : Csids, type : Nat, size : Nat, ts : Nat, data : Seq(Bytes)])
    BY <1>1 DEF TypeOK
  <2>2. [cs |-> c.cs, type |-> sent.type, size |-> sent.size,
         ts |-> SlotAfter(c).time_stamp, data |-> sent.body]
          \in [cs : Csids, type : Nat, size : Nat, ts : Nat, data : Seq(Bytes)]
    BY <1>7, <1>15
  <2>3. CASE sent.rem # 0
    <3>1. delivered' = delivered
      BY <1>12, <2>3
    <3> QED
      BY <2>1, <3>1
  <2>4. CASE sent.rem = 0
    <3>1. delivered' = Append(delivered,
            [cs |-> c.cs, type |-> sent.type, size |-> sent.size,
             ts |-> SlotAfter(c).time_stamp, data |-> sent.body])
      BY <1>12, <2>4
    <3> QED
      BY <2>1, <2>2, <3>1, AppendProps
  <2> QED
    BY <2>3, <2>4
<1>17. TypeOK'
  <2>1. rtmp_last' \in [audio : Nat, video : Nat, type : Nat]
    BY <1>1, <1>2, <1>3, TimeTypes
  <2>2. rtmp_chunk' \in [Csids -> [last_message_size : Nat, message_size : Nat,
                                    message_type : Nat, time_stamp : Nat,
                                    message_buf : Seq(Bytes)]]
    BY <1>1, <1>2, <1>4, <1>7 DEF TypeOK
  <2>3. parsed' \in Nat /\ rtmp_chunk_max_size' \in Nat
    BY <1>1, <1>2, <1>10, <1>13 DEF TypeOK
  <2> QED
    BY <1>1, <1>2, <1>8, <1>11, <1>14, <1>16, <2>1, <2>2, <2>3 DEF TypeOK, PCs
<1>18. BufferInv'
  <2>1. parsed' + 1 = k + 1
    BY <1>2
  <2>2. CASE pc' = "chunks"
    <3>1. Base' = Base /\ Skipped' = Skipped /\ Running /\ Running'
      BY <1>2, <2>2 DEF Base, Skipped, Running
    <3>2. Front' = received - size + m_iParsePos'
      BY <1>2, <2>2 DEF Front
    <3>3. Front' = mux'[parsed' + 1].at
      BY <1>0, <1>2, <1>11, <2>1, <3>2 DEF wireVars
    <3> QED
      BY <1>1, <1>2, <1>10, <1>11, <2>2, <3>1, <3>3 DEF BufferInv, wireVars
  <2>3. CASE pc' = "done"
    BY <1>1, <1>2, <1>10, <2>3 DEF BufferInv, Running, wireVars
  <2> QED
    BY <1>14, <2>2, <2>3
<1>19. JoinInv'
  <2>1. parsed' + 1 = k + 1 /\ mux' = mux /\ mux'[parsed' + 1] = next
    BY <1>0, <1>2 DEF wireVars
  <2>2. ASSUME NEW cs \in Csids
        PROVE  SlotOK(rtmp_chunk'[cs], next.open[cs])
    <3>1. CASE cs = c.cs
      BY <1>1, <1>2, <1>3, <1>4, <1>6, <1>7, <3>1 DEF TypeOK, MuxStates
    <3>2. CASE cs # c.cs
      <4>1. rtmp_chunk'[cs] = rtmp_chunk[cs] /\ next.open[cs] = old.open[cs]
        BY <1>1, <1>2, <1>3, <1>6, <1>7, <3>2 DEF TypeOK, MuxStates
      <4>2. SlotOK(rtmp_chunk[cs], old.open[cs])
        BY <1>0, <1>1 DEF JoinInv
      <4> QED
        BY <4>1, <4>2
    <3> QED
      BY <3>1, <3>2
  <2>3. /\ Len(delivered') = Len(next.done)
        /\ \A i \in 1..Len(delivered') : DeliveredOK(delivered'[i], next.done[i])
    <3>1. /\ delivered \in Seq([cs : Csids, type : Nat, size : Nat, ts : Nat, data : Seq(Bytes)])
          /\ old.done \in Seq([cs : Csids, msg : Messages])
      BY <1>1, <1>3 DEF TypeOK, MuxStates
    <3>2. /\ Len(delivered) = Len(old.done) /\ Len(delivered) \in Nat
          /\ \A i \in 1..Len(delivered) : DeliveredOK(delivered[i], old.done[i])
      <4>1. old = mux[parsed + 1]
        BY <1>0
      <4>2. /\ Len(delivered) = Len(old.done)
            /\ \A i \in 1..Len(delivered) : DeliveredOK(delivered[i], old.done[i])
        BY <1>1, <4>1 DEF JoinInv
      <4>3. Len(delivered) \in Nat
        BY <3>1
      <4> QED
        BY <4>2, <4>3
    <3>3. CASE sent.rem # 0
      <4>1. delivered' = delivered /\ next.done = old.done
        BY <1>6, <1>12, <3>3
      <4> QED
        BY <3>2, <4>1
    <3>4. CASE sent.rem = 0
      <4> DEFINE d == [cs |-> c.cs, type |-> sent.type, size |-> sent.size,
                       ts |-> SlotAfter(c).time_stamp, data |-> sent.body]
                 e == [cs |-> c.cs, msg |-> sent]
      <4>1. delivered' = Append(delivered, d) /\ next.done = Append(old.done, e)
        BY <1>6, <1>12, <3>4
      <4>2. /\ d \in [cs : Csids, type : Nat, size : Nat, ts : Nat, data : Seq(Bytes)]
            /\ e \in [cs : Csids, msg : Messages]
        <5>1. d \in [cs : Csids, type : Nat, size : Nat, ts : Nat, data : Seq(Bytes)]
          BY <1>7, <1>15
        <5>2. e \in [cs : Csids, msg : Messages]
          BY <1>4, <1>7
        <5> QED
          BY <5>1, <5>2
      <4>3. DeliveredOK(d, e)
        BY <1>4 DEF DeliveredOK
      <4> HIDE DEF d, e
      <4>4. /\ Len(delivered') = Len(delivered) + 1
            /\ delivered'[Len(delivered) + 1] = d
            /\ \A i \in 1..Len(delivered) : delivered'[i] = delivered[i]
        BY <3>1, <4>1, <4>2, AppendProps
      <4>5. /\ Len(next.done) = Len(old.done) + 1
            /\ next.done[Len(old.done) + 1] = e
            /\ \A i \in 1..Len(old.done) : next.done[i] = old.done[i]
        BY <3>1, <4>1, <4>2, AppendProps
      <4>6. ASSUME NEW i \in 1..Len(delivered')
            PROVE  DeliveredOK(delivered'[i], next.done[i])
        <5>1. CASE i = Len(delivered) + 1
          BY <3>2, <4>3, <4>4, <4>5, <5>1
        <5>2. CASE i \in 1..Len(delivered)
          BY <3>2, <4>4, <4>5, <5>2
        <5> QED
          BY <3>2, <4>4, <4>6, <5>1, <5>2
      <4> QED
        BY <3>2, <4>4, <4>5, <4>6
    <3> QED
      BY <3>3, <3>4
  <2> QED
    BY <1>9, <1>13, <2>1, <2>2, <2>3 DEF JoinInv, SlotOK, DeliveredOK
<1> QED
  BY <1>1, <1>8, <1>17, <1>18, <1>19 DEF Inv, HeadersUnderstood

(* One pass of the loop around rtmp_process_chunk. *)
LEMMA ProcessChunkOK ==
  ASSUME Inv, ProcessChunk
  PROVE  Inv'
<1>1. TypeOK /\ WireInv
  BY DEF Inv
<1>2. pc = "chunks"
  BY DEF ProcessChunk
<1>3. CASE BufferConsumed
  <2>1. rtmp_last' \in [audio : Nat, video : Nat, type : Nat]
    BY <1>1, <1>3 DEF BufferConsumed, TypeOK
  <2> QED
    BY <1>2, <1>3, <2>1, ReceiveAgainOK DEF BufferConsumed
<1>4. CASE ~BufferConsumed
  <2>1. datalen > 0 /\ \E h \in HeadersAt(Here) :
          HeaderIncomplete(h) \/ BodyIncomplete(h) \/ ChunkIdRefused(h)
            \/ ChunkJoined(h) \/ MessageDelivered(h)
    BY <1>4 DEF ProcessChunk
  <2>2. parsed + 1 \in 1..Len(wire) /\ HeadersAt(Here) = {wire[parsed + 1]}
    BY <1>2, <2>1, Aligned
  <2>3. SUFFICES ASSUME NEW k \in Nat, k = parsed + 1, k \in 1..Len(wire),
                        NEW c, c = wire[k],
                        HeaderIncomplete(c) \/ BodyIncomplete(c) \/ ChunkIdRefused(c)
                          \/ ChunkJoined(c) \/ MessageDelivered(c)
                 PROVE  Inv'
    <3>1. parsed + 1 \in Nat
      BY <1>1 DEF TypeOK
    <3> QED
      BY <2>1, <2>2, <3>1
  <2>4. c \in Chunks
    BY <1>1, <2>3 DEF TypeOK, WireTypeOK
  <2>5. CASE HeaderIncomplete(c)
    <3>1. rtmp_last' \in [audio : Nat, video : Nat, type : Nat]
      BY <1>1, <2>5 DEF HeaderIncomplete, TypeOK
    <3> QED
      BY <1>2, <2>5, <3>1, ReceiveAgainOK DEF HeaderIncomplete
  <2>6. CASE BodyIncomplete(c)
    <3>1. rtmp_last' \in [audio : Nat, video : Nat, type : Nat]
      BY <1>1, <2>4, <2>6, TimeTypes DEF BodyIncomplete
    <3> QED
      BY <1>2, <2>6, <3>1, ReceiveAgainOK DEF BodyIncomplete
  <2>7. CASE ChunkIdRefused(c)
    BY <1>2, <2>7, ChunkIdRefusedOK
  <2>8. CASE ChunkJoined(c) \/ MessageDelivered(c)
    BY <1>2, <2>3, <2>8, ChunkTakenOK
  <2> QED
    BY <2>3, <2>5, <2>6, <2>7, <2>8
<1> QED
  BY <1>3, <1>4

(* Every step of the system keeps the invariant. *)
LEMMA NextOK == Inv /\ [Next]_vars => Inv'
<1> SUFFICES ASSUME Inv, [Next]_vars
             PROVE  Inv'
  OBVIOUS
<1>1. CASE ServerStep
  BY <1>1, ServerStepOK
<1>2. CASE StartPlay
  BY <1>2, StartPlayOK
<1>3. CASE ReceiveSome
  BY <1>3, ReceiveOK DEF ReceiveSome
<1>4. CASE ReceiveEnds
  BY <1>4, ReceiveEndsOK
<1>5. CASE HandleS0S1
  BY <1>5, HandleS0S1OK
<1>6. CASE HandleS2
  BY <1>6, HandleS2OK
<1>7. CASE ProcessChunk
  BY <1>7, ProcessChunkOK
<1>8. CASE UNCHANGED vars
  <2>1. TypeOK /\ HeadersUnderstood /\ WireInv /\ BufferInv /\ JoinInv
    BY DEF Inv
  <2>2. UNCHANGED <<wireVars, pc, rtmp_status, bufVars, joinVars, rtmp_last>>
    BY <1>8 DEF vars, connVars
  <2>3. WireTypeOK' /\ WireInv'
    BY <2>1, <2>2, WireKept DEF TypeOK
  <2>4. TypeOK'
    BY <2>1, <2>2, <2>3 DEF TypeOK, bufVars, joinVars
  <2>5. BufferInv'
    BY <2>1, <2>2 DEF BufferInv, Running, Skipped, Base, Front, wireVars, bufVars, joinVars
  <2>6. JoinInv'
    BY <2>1, <2>2, JoinKept DEF Running, wireVars
  <2> QED
    BY <2>1, <2>3, <2>4, <2>5, <2>6 DEF Inv, HeadersUnderstood
<1> QED
  BY <1>1, <1>2, <1>3, <1>4, <1>5, <1>6, <1>7, <1>8 DEF Next

-----------------------------------------------------------------------------
(* The inductive invariant holds in every behaviour with a server that     *)
(* does not use format 2 and does not repeat extended time stamps.         *)
THEOREM InvHolds == HeadersUnderstood /\ Spec => []Inv
<1>1. HeadersUnderstood /\ Init => Inv
  BY InitOK
<1>2. Inv /\ [Next]_vars => Inv'
  BY NextOK
<1> QED
  BY <1>1, <1>2, PTL DEF Spec

(* Types, and the cells of m_pBuffer in use: rtmp_recv_data never reads a  *)
(* cell it did not fill.                                                   *)
THEOREM Typing == HeadersUnderstood /\ Spec => []TypeOK
<1>1. Inv => TypeOK
  BY DEF Inv
<1> QED
  BY <1>1, InvHolds, PTL

(* However TCP cuts the stream, whatever the buffer size and whatever the  *)
(* chunk sizes: rtmp_process_chunk always starts at the first byte of the  *)
(* next chunk.                                                             *)
THEOREM AlwaysAligned == HeadersUnderstood /\ Spec => []ParserAligned
<1>1. Inv => ParserAligned
  BY Aligned DEF ParserAligned
<1> QED
  BY <1>1, InvHolds, PTL

(* rtmp_process_message is called once for each message, in the order in   *)
(* which the server finished them, with the bytes the server sent.         *)
THEOREM AlwaysIntact == HeadersUnderstood /\ Spec => []MessagesIntact
<1>1. Inv => MessagesIntact
  <2> SUFFICES ASSUME Inv
               PROVE  MessagesIntact
    OBVIOUS
  <2>1. TypeOK /\ WireInv /\ JoinInv
    BY DEF Inv
  <2>2. DoneSoFar(parsed + 1)
    BY <2>1 DEF WireInv, JoinInv
  <2>3. /\ Len(delivered) <= Len(Mux.done)
        /\ \A i \in 1..Len(delivered) : DeliveredOK(delivered[i], Mux.done[i])
    BY <2>1, <2>2 DEF JoinInv, DoneSoFar
  <2> QED
    BY <2>3 DEF MessagesIntact, DeliveredOK
<1> QED
  BY <1>1, InvHolds, PTL

(* An absolute time stamp arrives as the server gave it, however often its *)
(* header was read before the body was there.                              *)
THEOREM AlwaysAbsolute == HeadersUnderstood /\ Spec => []AbsoluteTimestamps
<1>1. Inv => AbsoluteTimestamps
  <2> SUFFICES ASSUME Inv
               PROVE  AbsoluteTimestamps
    OBVIOUS
  <2>1. WireInv /\ JoinInv
    BY DEF Inv
  <2>2. DoneSoFar(parsed + 1)
    BY <2>1 DEF WireInv, JoinInv
  <2>3. \A i \in 1..Len(delivered) : DeliveredOK(delivered[i], Mux.done[i])
    BY <2>1, <2>2 DEF JoinInv, DoneSoFar
  <2> QED
    BY <2>3 DEF AbsoluteTimestamps, DeliveredOK
<1> QED
  BY <1>1, InvHolds, PTL

-----------------------------------------------------------------------------
(* Receiving implements MessageChannel: the server's history maps to what  *)
(* was sent, the calls of rtmp_process_message to what was got.            *)
SentMessage == [cs : Csids, msg : Messages]
Message     == [cs : Csids, type : Nat, data : Seq(Bytes)]
Entry(e)    == [cs |-> e.cs, type |-> e.msg.type, data |-> e.msg.body]
Handed(d)   == [cs |-> d.cs, type |-> d.type, data |-> d.data]

LEMMA SameSeq ==
  ASSUME NEW S, NEW s \in Seq(S), NEW t \in Seq(S), Len(s) = Len(t),
         \A i \in 1..Len(s) : s[i] = t[i]
  PROVE  s = t
OBVIOUS

LEMMA MuxType ==
  ASSUME TypeOK, WireInv
  PROVE  Mux \in MuxStates /\ Mux.done \in Seq(SentMessage)
<1>1. mux \in Seq(MuxStates) /\ Len(mux) \in 1..Len(mux)
  BY DEF TypeOK, WireTypeOK, WireInv
<1>2. Mux \in MuxStates
  BY <1>1 DEF Mux
<1> QED BY <1>2 DEF MuxStates, SentMessage

LEMMA SentType ==
  ASSUME Mux.done \in Seq(SentMessage)
  PROVE  /\ SentMessages \in Seq(Message) /\ Len(SentMessages) = Len(Mux.done)
         /\ \A i \in 1..Len(Mux.done) : SentMessages[i] = Entry(Mux.done[i])
<1>1. Len(Mux.done) \in Nat /\ \A i \in 1..Len(Mux.done) : Mux.done[i] \in SentMessage
  OBVIOUS
<1>2. \A i \in 1..Len(Mux.done) : Entry(Mux.done[i]) \in Message
  BY <1>1 DEF Entry, Message, SentMessage, Messages
<1>3. SentMessages = [i \in 1..Len(Mux.done) |-> Entry(Mux.done[i])]
  BY DEF SentMessages, Entry
<1> QED BY <1>1, <1>2, <1>3

LEMMA GotType ==
  ASSUME TypeOK
  PROVE  /\ DeliveredMessages \in Seq(Message) /\ Len(DeliveredMessages) = Len(delivered)
         /\ Len(delivered) \in Nat
         /\ \A i \in 1..Len(delivered) : DeliveredMessages[i] = Handed(delivered[i])
<1> DEFINE R == [cs : Csids, type : Nat, size : Nat, ts : Nat, data : Seq(Bytes)]
<1>1. delivered \in Seq(R)
  BY DEF TypeOK
<1>2. \A d \in R : Handed(d) \in Message
  BY DEF Handed, Message
<1> HIDE DEF R
<1>3. Len(delivered) \in Nat /\ \A i \in 1..Len(delivered) : delivered[i] \in R
  BY <1>1
<1>4. \A i \in 1..Len(delivered) : Handed(delivered[i]) \in Message
  BY <1>2, <1>3
<1>5. DeliveredMessages = [i \in 1..Len(delivered) |-> Handed(delivered[i])]
  BY DEF DeliveredMessages, Handed
<1> QED BY <1>3, <1>4, <1>5

(* A message is finished by a chunk, or none is. *)
LEMMA ServerFinishes ==
  ASSUME Inv, ServerStep
  PROVE  \/ Mux' = Mux
         \/ \E e \in SentMessage : Mux'.done = Append(Mux.done, e)
         \/ Mux'.done = Mux.done
<1>1. TypeOK /\ HeadersUnderstood /\ WireInv
  BY DEF Inv
<1>2. CASE ServerS0S1 \/ ServerS2
  BY <1>2 DEF ServerS0S1, ServerS2, Mux
<1>3. CASE ServerSends
  <2>1. PICK c \in Chunks, m \in Messages : MayWrite(Mux, c, m) /\ Write(c, m)
    BY <1>1, <1>3, SendsOK DEF TypeOK, HeadersUnderstood
  <2>2. mux \in Seq(MuxStates) /\ Len(mux) \in Nat /\ Len(wire) + 1 \in Nat /\ Mux \in MuxStates
    BY SMTT(30), <1>1, MuxType DEF TypeOK, WireTypeOK
  <2>3. PICK k \in Nat : k = Len(wire) + 1
    BY <2>2
  <2>4. PICK new : new = AfterChunk(k, Mux, c, m)
    OBVIOUS
  <2>5. c.pay <= m.rem /\ (m.type = SET_CHUNK_SIZE => m.val # 0)
    <3>1. m.rem \in Nat /\ Mux.max \in Nat
      BY <2>2 DEF Messages, MuxStates
    <3> QED BY <2>1, <3>1, LeastType DEF MayWrite, MessageOK
  <2>6. Sent(k, c, m) \in Messages /\ new \in MuxStates
    BY <2>2, <2>4, <2>5, AfterChunkType
  <2>7. mux' = Append(mux, new)
    BY <2>1, <2>3, <2>4 DEF Write
  <2>8. Mux' = new
    BY <2>2, <2>6, <2>7 DEF Mux
  <2>9. [cs |-> c.cs, msg |-> Sent(k, c, m)] \in SentMessage
    BY <2>6 DEF SentMessage, Chunks
  <2>10. new.done = Mux.done \/ new.done = Append(Mux.done, [cs |-> c.cs, msg |-> Sent(k, c, m)])
    BY <2>4 DEF AfterChunk
  <2> QED BY <2>8, <2>9, <2>10
<1> QED BY <1>2, <1>3 DEF ServerStep

LEMMA ServerSendsMessage ==
  ASSUME Inv, Inv', ServerStep
  PROVE  Channel!Send \/ UNCHANGED Channel!vars
<1>1. Mux.done \in Seq(SentMessage) /\ Mux'.done \in Seq(SentMessage)
  <2>1. Mux.done \in Seq(SentMessage)
    BY MuxType DEF Inv
  <2>2. CASE Mux' = Mux \/ Mux'.done = Mux.done
    BY <2>1, <2>2
  <2>3. CASE \E e \in SentMessage : Mux'.done = Append(Mux.done, e)
    BY <2>1, <2>3
  <2> QED BY <2>1, <2>2, <2>3, ServerFinishes
<1>2. DeliveredMessages' = DeliveredMessages
  BY DEF ServerStep, joinVars, DeliveredMessages
<1>3. /\ SentMessages \in Seq(Message) /\ Len(SentMessages) = Len(Mux.done)
      /\ \A i \in 1..Len(Mux.done) : SentMessages[i] = Entry(Mux.done[i])
  BY <1>1, SentType
<1>4. /\ SentMessages' \in Seq(Message) /\ Len(SentMessages') = Len(Mux'.done)
      /\ \A i \in 1..Len(Mux'.done) : SentMessages'[i] = Entry(Mux'.done[i])
  <2>1. Len(Mux'.done) \in Nat /\ \A i \in 1..Len(Mux'.done) : Mux'.done[i] \in SentMessage
    BY <1>1
  <2>2. \A i \in 1..Len(Mux'.done) : Entry(Mux'.done[i]) \in Message
    BY <2>1 DEF Entry, Message, SentMessage, Messages
  <2>3. SentMessages' = [i \in 1..Len(Mux'.done) |-> Entry(Mux'.done[i])]
    BY DEF SentMessages, Entry
  <2> QED BY <2>1, <2>2, <2>3
<1>5. CASE Mux' = Mux \/ Mux'.done = Mux.done
  <2>1. SentMessages' = SentMessages
    BY <1>5 DEF SentMessages
  <2> QED BY <1>2, <2>1 DEF Channel!vars
<1>6. ASSUME NEW e \in SentMessage, Mux'.done = Append(Mux.done, e)
      PROVE  Channel!Send
  <2>1. PICK last \in Nat : last = Len(SentMessages) + 1
    BY <1>3
  <2>2. Len(SentMessages') = last
    BY <1>1, <1>3, <1>4, <1>6, <2>1
  <2>3. SentMessages'[last] \in Message
    BY <1>4, <2>1, <2>2, <1>3
  <2>4. \A i \in 1..Len(SentMessages) : SentMessages'[i] = SentMessages[i]
    <3>1. \A i \in 1..Len(Mux.done) : Mux'.done[i] = Mux.done[i] /\ i \in 1..Len(Mux'.done)
      BY <1>1, <1>6
    <3> QED BY <1>3, <1>4, <3>1
  <2>5. SentMessages' = Append(SentMessages, SentMessages'[last])
    <3> DEFINE s == Append(SentMessages, SentMessages'[last])
    <3>1. /\ s \in Seq(Message) /\ Len(s) = last
          /\ \A i \in 1..Len(SentMessages) : s[i] = SentMessages[i]
          /\ s[last] = SentMessages'[last]
      BY <1>3, <2>1, <2>3, AppendProps
    <3> HIDE DEF s
    <3>2. \A i \in 1..last : i \in 1..Len(SentMessages) \/ i = last
      BY <1>3, <2>1
    <3>3. \A i \in 1..Len(SentMessages') : SentMessages'[i] = s[i]
      BY <2>2, <2>4, <3>1, <3>2
    <3>4. s = SentMessages'
      BY <1>4, <2>2, <3>1, <3>3, SameSeq
    <3> QED BY <3>4 DEF s
  <2> QED BY <1>2, <2>1, <2>2, <2>3, <2>5 DEF Channel!Send, Message
<1> QED BY <1>5, <1>6, ServerFinishes

(* A step of the client hands on the next message, or none. *)
LEMMA ClientDelivers ==
  ASSUME Inv, Inv', MessagesIntact', UNCHANGED wireVars,
         \/ UNCHANGED delivered
         \/ Len(delivered') = Len(delivered) + 1 /\ \A i \in 1..Len(delivered) : delivered'[i] = delivered[i]
  PROVE  Channel!Deliver \/ UNCHANGED Channel!vars
<1>1. Mux' = Mux /\ SentMessages' = SentMessages
  BY DEF wireVars, Mux, SentMessages
<1>2. CASE UNCHANGED delivered
  <2>1. DeliveredMessages' = DeliveredMessages
    BY <1>2 DEF DeliveredMessages
  <2> QED BY <1>1, <2>1 DEF Channel!vars
<1>3. CASE /\ Len(delivered') = Len(delivered) + 1
           /\ \A i \in 1..Len(delivered) : delivered'[i] = delivered[i]
  <2>1. /\ SentMessages \in Seq(Message) /\ Len(SentMessages) = Len(Mux.done)
        /\ \A i \in 1..Len(Mux.done) : SentMessages[i] = Entry(Mux.done[i])
    BY MuxType, SentType DEF Inv
  <2>2. /\ DeliveredMessages \in Seq(Message) /\ Len(DeliveredMessages) = Len(delivered)
        /\ Len(delivered) \in Nat
        /\ \A i \in 1..Len(delivered) :
             DeliveredMessages[i] = Handed(delivered[i])
    BY GotType DEF Inv
  <2>3. /\ Len(delivered') <= Len(Mux.done)
        /\ \A i \in 1..Len(delivered') :
             Handed(delivered'[i]) = Entry(Mux.done[i])
    BY <1>1 DEF MessagesIntact, Entry, Handed
  <2>4. PICK n \in Nat : n = Len(delivered) + 1
    BY <2>2
  <2>5. n \in 1..Len(delivered') /\ Len(delivered') = n /\ n \in 1..Len(Mux.done)
        /\ Len(Mux.done) \in Nat
    <3>1. Len(Mux.done) \in Nat
      BY MuxType DEF Inv
    <3> QED BY <1>3, <2>2, <2>3, <2>4, <3>1
  <2>6. DeliveredMessages' =
          [i \in 1..n |-> Handed(delivered'[i])]
    BY <2>5 DEF DeliveredMessages, Handed
  <2>7. \A i \in 1..n : DeliveredMessages'[i] = SentMessages[i]
    <3>1. \A i \in 1..n : i \in 1..Len(delivered') /\ i \in 1..Len(Mux.done)
      BY <2>5
    <3> QED BY <2>1, <2>3, <2>6, <3>1
  <2>8. \A i \in 1..Len(delivered) : DeliveredMessages'[i] = DeliveredMessages[i]
    <3>1. \A i \in 1..Len(delivered) : i \in 1..n
      BY <2>2, <2>4
    <3> QED BY <1>3, <2>2, <2>6, <3>1
  <2>9. SentMessages[n] \in Message /\ \A i \in 1..n : SentMessages[i] \in Message
    BY <2>1, <2>5
  <2>10. DeliveredMessages' \in Seq(Message) /\ Len(DeliveredMessages') = n
    BY <2>6, <2>7, <2>9
  <2>11. DeliveredMessages' = Append(DeliveredMessages, SentMessages[n])
    <3> DEFINE s == Append(DeliveredMessages, SentMessages[n])
    <3>1. /\ s \in Seq(Message) /\ Len(s) = n
          /\ \A i \in 1..Len(delivered) : s[i] = DeliveredMessages[i]
          /\ s[n] = SentMessages[n]
      BY <2>2, <2>4, <2>9, AppendProps
    <3> HIDE DEF s
    <3>2. \A i \in 1..n : i \in 1..Len(delivered) \/ i = n
      BY <2>2, <2>4
    <3>3. n \in 1..n
      BY <2>5
    <3>4. \A i \in 1..n : DeliveredMessages'[i] = s[i]
      BY <2>7, <2>8, <3>1, <3>2, <3>3
    <3>5. DeliveredMessages' = s
      BY <2>10, <3>1, <3>4, SameSeq
    <3> QED BY <3>5 DEF s
  <2>12. Len(DeliveredMessages) < Len(SentMessages) /\ n = Len(DeliveredMessages) + 1
    BY <2>1, <2>2, <2>4, <2>5
  <2> QED BY <1>1, <2>11, <2>12 DEF Channel!Deliver
<1> QED BY <1>2, <1>3

LEMMA StepImplements ==
  Inv /\ Inv' /\ MessagesIntact' /\ [Next]_vars => [Channel!Next]_(Channel!vars)
<1> SUFFICES ASSUME Inv, Inv', MessagesIntact', [Next]_vars
             PROVE  Channel!Send \/ Channel!Deliver \/ UNCHANGED Channel!vars
  BY DEF Channel!Next
<1>1. CASE ServerStep
  BY <1>1, ServerSendsMessage
<1>2. CASE ~ServerStep
  <2>1. UNCHANGED wireVars
    BY <1>2 DEF Next, vars, StartPlay, ReceiveSome, Receive, ReceiveEnds, HandleS0S1, HandleS2,
       ProcessChunk, BufferConsumed, HeaderIncomplete, BodyIncomplete, ChunkIdRefused, ReceiveAgain,
       ChunkJoined, MessageDelivered, TakeChunk
  <2>2. \/ UNCHANGED delivered
        \/ \E d : delivered' = Append(delivered, d)
    BY <1>2 DEF Next, vars, joinVars, StartPlay, ReceiveSome, Receive, ReceiveEnds, HandleS0S1, HandleS2,
       ProcessChunk, BufferConsumed, HeaderIncomplete, BodyIncomplete, ChunkIdRefused, ReceiveAgain,
       ChunkJoined, MessageDelivered, TakeChunk
  <2>3. ASSUME NEW d, delivered' = Append(delivered, d)
        PROVE  /\ Len(delivered') = Len(delivered) + 1
               /\ \A i \in 1..Len(delivered) : delivered'[i] = delivered[i]
    <3>1. delivered \in Seq([cs : Csids, type : Nat, size : Nat, ts : Nat, data : Seq(Bytes)])
      BY DEF Inv, TypeOK
    <3> QED BY <2>3, <3>1
  <2> QED BY <2>1, <2>2, <2>3, ClientDelivers
<1> QED BY <1>1, <1>2

(* Receiving implements the abstract channel, for every way TCP cuts the   *)
(* stream and chunks of several messages are mixed: each step is a message *)
(* sent, a message delivered next and whole, or nothing the code behind    *)
(* rtmp_process_message could notice.                                      *)
THEOREM Implements == HeadersUnderstood /\ Spec => ImplementsChannel
<1>1. Init => Channel!Init
  BY DEF Init, WireInit, Mux, Channel!Init, SentMessages, DeliveredMessages
<1>2. Inv /\ Inv' /\ MessagesIntact' /\ [Next]_vars => [Channel!Next]_(Channel!vars)
  BY StepImplements
<1> QED
  BY <1>1, <1>2, InvHolds, AlwaysIntact, PTL DEF Spec, ImplementsChannel, Channel!Spec

-----------------------------------------------------------------------------
(***************************************************************************)
(* That m_pBuffer fills up only in front of a chunk that is longer than    *)
(* all of it, for every value of the constants.  On top of the invariant   *)
(* above this needs to be known when the thread goes back to recv: the     *)
(* chunk it could not take is longer than what is left.                    *)
(***************************************************************************)
RoomInv ==
  /\ rtmp_status \in {"init", "send_c0c1"} => stream = <<>>
  /\ pc = "recv" /\ rtmp_status = "wait_connect" /\ size > 0 =>
       /\ parsed + 2 \in 1..Len(mux)
       /\ mux[parsed + 2].at - mux[parsed + 1].at > size

-----------------------------------------------------------------------------
(* The next chunk lies between two states of the multiplexer.              *)
LEMMA NextChunk ==
  ASSUME Inv, NEW k \in Nat, k = parsed + 1, k \in 1..Len(wire)
  PROVE  /\ wire[k] \in Chunks /\ wire[k].pay \in Nat /\ HeaderLen(wire[k]) \in Nat
         /\ parsed + 2 \in 1..Len(mux)
         /\ mux[parsed + 1].at \in Nat /\ mux[parsed + 2].at \in Nat
         /\ mux[parsed + 2].at - mux[parsed + 1].at = HeaderLen(wire[k]) + wire[k].pay
         /\ Laid(k)
<1>1. WireInv /\ TypeOK
  BY DEF Inv
<1>2. /\ wire \in Seq(Chunks) /\ mux \in Seq(MuxStates)
      /\ Len(mux) = Len(wire) + 1 /\ Len(wire) \in Nat
  BY <1>1 DEF TypeOK, WireTypeOK, WireInv
<1>3. parsed \in Nat /\ parsed + 1 = k /\ parsed + 2 = k + 1
  BY <1>1 DEF TypeOK
<1>4. k \in 1..Len(mux) /\ k + 1 \in 1..Len(mux)
  <2>1. k <= Len(wire)
    OBVIOUS
  <2> QED
    BY <1>2, <2>1
<1>5. mux[k].at \in Nat /\ mux[k + 1].at \in Nat
  <2>1. mux[k] \in MuxStates /\ mux[k + 1] \in MuxStates
    BY <1>2, <1>4
  <2> QED
    BY <2>1 DEF MuxStates
<1>6. wire[k] \in Chunks
  BY <1>2
<1>7. wire[k].pay \in Nat /\ HeaderLen(wire[k]) \in Nat
  BY <1>6, HeaderLenType DEF Chunks
<1>8. Laid(k) /\ mux[k + 1] = AfterChunk(k, mux[k], wire[k], Carried(k))
  BY <1>1 DEF WireInv, Written
<1>9. mux[k + 1].at = mux[k].at + HeaderLen(wire[k]) + wire[k].pay
  BY <1>8 DEF AfterChunk
<1> QED
  BY SMTT(30), <1>3, <1>4, <1>5, <1>6, <1>7, <1>8, <1>9

(* A chunk the parser waits for is longer than the bytes it has. *)
LEMMA WaitedFor ==
  ASSUME Inv, pc = "chunks", datalen > 0, NEW k \in Nat, k = parsed + 1, k \in 1..Len(wire),
         HeaderIncomplete(wire[k]) \/ BodyIncomplete(wire[k])
  PROVE  RoomInv'
<1> DEFINE c == wire[k]
<1>1. c.cs < MAX_CHUNK_ID /\ ReceiveAgain
  BY DEF HeaderIncomplete, BodyIncomplete
<1>2. /\ size' = datalen /\ datalen \in Nat
      /\ UNCHANGED <<wireVars, rtmp_status, joinVars>> /\ rtmp_status = "wait_connect"
  BY SMTT(30), <1>1 DEF ReceiveAgain, Inv, TypeOK, BufferInv, datalen
<1>3. /\ chunk_len(c) = c.pay
      /\ chunk_header_len(c) + 1 = HeaderLen(c) /\ chunk_header_len(c) \in Nat
  BY <1>1, ChunkMeasured
<1>4. /\ c.pay \in Nat /\ HeaderLen(c) \in Nat /\ parsed + 2 \in 1..Len(mux)
      /\ mux[parsed + 2].at - mux[parsed + 1].at = HeaderLen(c) + c.pay
  BY NextChunk
<1> HIDE DEF c
<1>5. datalen < HeaderLen(c) + c.pay
  <2>1. CASE HeaderIncomplete(c)
    BY <1>2, <1>3, <1>4, <2>1 DEF HeaderIncomplete, HeaderComplete
  <2>2. CASE BodyIncomplete(c)
    BY <1>2, <1>3, <1>4, <2>2 DEF BodyIncomplete, ChunkComplete
  <2> QED
    BY <2>1, <2>2 DEF c
<1>6. size' = datalen /\ mux' = mux /\ parsed' = parsed /\ rtmp_status' = "wait_connect"
  BY <1>2 DEF wireVars, joinVars
<1> QED
  BY <1>2, <1>4, <1>5, <1>6 DEF RoomInv

LEMMA ProcessChunkRoom ==
  ASSUME Inv, RoomInv, ProcessChunk
  PROVE  RoomInv'
<1>1. pc = "chunks" /\ rtmp_status = "wait_connect"
  BY DEF ProcessChunk, Inv, BufferInv
<1>2. CASE BufferConsumed
  BY <1>1, <1>2 DEF BufferConsumed, ReceiveAgain, RoomInv
<1>3. CASE ~BufferConsumed
  <2>1. datalen > 0 /\ \E h \in HeadersAt(Here) :
          HeaderIncomplete(h) \/ BodyIncomplete(h) \/ ChunkIdRefused(h)
            \/ ChunkJoined(h) \/ MessageDelivered(h)
    BY <1>3 DEF ProcessChunk
  <2>2. parsed + 1 \in 1..Len(wire) /\ HeadersAt(Here) = {wire[parsed + 1]}
    BY <1>1, <2>1, Aligned
  <2>3. parsed + 1 \in Nat
    BY DEF Inv, TypeOK
  <2>4. SUFFICES ASSUME NEW k \in Nat, k = parsed + 1, k \in 1..Len(wire),
                        HeaderIncomplete(wire[k]) \/ BodyIncomplete(wire[k])
                          \/ ChunkIdRefused(wire[k])
                          \/ ChunkJoined(wire[k]) \/ MessageDelivered(wire[k])
                 PROVE  RoomInv'
    BY <2>1, <2>2, <2>3
  <2>5. CASE HeaderIncomplete(wire[k]) \/ BodyIncomplete(wire[k])
    BY <1>1, <2>1, <2>4, <2>5, WaitedFor
  <2>6. CASE ChunkIdRefused(wire[k])
    BY <1>1, <2>6 DEF ChunkIdRefused, RoomInv
  <2>7. CASE ChunkJoined(wire[k]) \/ MessageDelivered(wire[k])
    <3>1. rtmp_status' = rtmp_status
      BY <2>7 DEF ChunkJoined, MessageDelivered, TakeChunk
    <3>2. pc' # "recv"
      BY <1>1, <2>7 DEF ChunkJoined, MessageDelivered
    <3> QED
      BY <1>1, <3>1, <3>2 DEF RoomInv
  <2> QED
    BY <2>4, <2>5, <2>6, <2>7
<1> QED
  BY <1>2, <1>3

LEMMA ServerStepRoom ==
  ASSUME Inv, RoomInv, ServerStep
  PROVE  RoomInv'
<1>1. Grown /\ parsed \in Nat /\ mux \in Seq(MuxStates) /\ mux' \in Seq(MuxStates)
  BY ServerOK DEF Inv, ServerStep, TypeOK, HeadersUnderstood, WireTypeOK
<1>2. UNCHANGED <<pc, rtmp_status, size, parsed>>
  BY DEF ServerStep, connVars, bufVars, joinVars
<1>3. rtmp_status \notin {"init", "send_c0c1"}
  BY DEF ServerStep
<1>4. Len(mux) \in Nat /\ Len(mux') \in Nat /\ Len(mux) <= Len(mux')
  BY <1>1 DEF Grown
<1>5. ASSUME pc = "recv", rtmp_status = "wait_connect", size > 0
      PROVE  /\ parsed + 2 \in 1..Len(mux')
             /\ mux'[parsed + 2].at - mux'[parsed + 1].at > size
  <2>1. parsed + 2 \in 1..Len(mux) /\ mux[parsed + 2].at - mux[parsed + 1].at > size
    BY <1>5 DEF RoomInv
  <2>2. parsed + 1 \in 1..Len(mux) /\ parsed + 2 \in 1..Len(mux')
    BY <1>1, <1>4, <2>1
  <2>3. mux'[parsed + 2] = mux[parsed + 2] /\ mux'[parsed + 1] = mux[parsed + 1]
    BY <1>1, <2>1, <2>2 DEF Grown
  <2> QED
    BY <2>1, <2>2, <2>3
<1> QED
  BY <1>2, <1>3, <1>5 DEF RoomInv

(* Every step keeps the buffer from filling up with what is done with.     *)
LEMMA NextRoom == Inv /\ RoomInv /\ [Next]_vars => RoomInv'
<1> SUFFICES ASSUME Inv, RoomInv, [Next]_vars
             PROVE  RoomInv'
  OBVIOUS
<1>1. CASE ServerStep
  BY <1>1, ServerStepRoom
<1>2. CASE StartPlay
  <2>1. rtmp_status = "init" /\ stream' = stream
    BY <1>2 DEF StartPlay, wireVars, Inv, BufferInv
  <2>2. rtmp_status' # "wait_connect"
    BY <1>2, <2>1 DEF StartPlay
  <2> QED
    BY <2>1, <2>2 DEF RoomInv
<1>3. CASE ReceiveSome
  BY <1>3 DEF ReceiveSome, Receive, RoomInv, wireVars
<1>4. CASE ReceiveEnds
  BY <1>4 DEF ReceiveEnds, RoomInv, wireVars
<1>5. CASE HandleS0S1
  BY <1>5 DEF HandleS0S1, RoomInv, wireVars
<1>6. CASE HandleS2
  BY <1>6 DEF HandleS2, RoomInv, wireVars
<1>7. CASE ProcessChunk
  BY <1>7, ProcessChunkRoom
<1>8. CASE UNCHANGED vars
  BY <1>8 DEF RoomInv, vars, wireVars, connVars, bufVars, joinVars
<1> QED
  BY <1>1, <1>2, <1>3, <1>4, <1>5, <1>6, <1>7, <1>8 DEF Next

LEMMA RoomEnough == Inv /\ RoomInv => FullBufferOnlyForOversizedChunk
<1> SUFFICES ASSUME Inv, RoomInv, pc = "recv", size = MAX_BUF_LEN
             PROVE  /\ rtmp_status = "wait_connect"
                    /\ m_pBuffer[0][1] > 0 /\ m_pBuffer[0][2] = 0
                    /\ HeaderLen(wire[m_pBuffer[0][1]]) + wire[m_pBuffer[0][1]].pay > MAX_BUF_LEN
  BY DEF FullBufferOnlyForOversizedChunk
<1>1. TypeOK /\ WireInv /\ BufferInv /\ JoinInv
  BY DEF Inv
<1>2. /\ size \in Nat /\ received \in Nat /\ parsed \in Nat /\ Len(stream) \in Nat
      /\ size <= received /\ received <= Len(stream)
  BY <1>1 DEF TypeOK, WireTypeOK, BufferInv
<1>3. HandshakeLen \in Nat /\ HandshakeLen < size /\ S2Len \in Nat /\ S2Len <= HandshakeLen
  BY ConstantFacts, RecvAssumption DEF HandshakeLen
<1>4. rtmp_status = "wait_connect"
  <2>1. rtmp_status # "send_c0c1"
    <3>1. Len(stream) # 0
      BY <1>2, <1>3
    <3> QED
      BY <3>1 DEF RoomInv
  <2>2. rtmp_status \in {"wait_s0s1", "wait_s2", "wait_connect"}
    BY <1>1, <2>1 DEF BufferInv, Running
  <2>3. rtmp_status \in {"wait_s0s1", "wait_s2"} => size < Skipped /\ Skipped <= HandshakeLen
    BY <1>1, <1>3 DEF BufferInv, Skipped
  <2>4. ~(size < Skipped /\ Skipped <= HandshakeLen)
    BY <1>2, <1>3, ConstantFacts DEF Skipped
  <2> QED
    BY <2>2, <2>3, <2>4
<1>5. /\ parsed + 2 \in 1..Len(mux)
      /\ mux[parsed + 2].at - mux[parsed + 1].at > size
  BY <1>2, <1>3, <1>4 DEF RoomInv
<1>6. parsed + 1 \in 1..Len(wire)
  <2>1. Len(mux) = Len(wire) + 1 /\ Len(wire) \in Nat
    BY <1>1 DEF WireInv, TypeOK, WireTypeOK
  <2> QED
    BY <1>2, <1>5, <2>1
<1>7. SUFFICES ASSUME NEW k \in Nat, k = parsed + 1, k \in 1..Len(wire)
               PROVE  /\ m_pBuffer[0][1] > 0 /\ m_pBuffer[0][2] = 0
                      /\ HeaderLen(wire[m_pBuffer[0][1]]) + wire[m_pBuffer[0][1]].pay > MAX_BUF_LEN
  BY <1>2, <1>4, <1>6
<1>8. /\ wire[k] \in Chunks /\ wire[k].pay \in Nat /\ HeaderLen(wire[k]) \in Nat
      /\ HeaderLen(wire[k]) + wire[k].pay > size
      /\ Laid(k) /\ mux[k].at \in Nat
  BY <1>5, <1>7, NextChunk
<1>9. m_pBuffer[0] = <<k, 0>>
  <2>1. \A i \in 0..(size - 1) : m_pBuffer[0 + i] = stream[received - size + 1 + i]
    BY <1>1, <1>4 DEF BufferInv, Running, Skipped, Base
  <2>2. m_pBuffer[0 + 0] = stream[received - size + 1 + 0]
    BY <1>2, <1>3, <2>1
  <2>3. received - size + 0 = mux[k].at
    BY <1>1, <1>4, <1>7 DEF BufferInv, Running, Front
  <2>4. received - size + 1 + 0 = mux[k].at + 1 + 0
    BY <1>2, <2>3
  <2>5. 0 \in 0..(ChunkLen(wire[k]) - 1)
    BY <1>2, <1>8 DEF ChunkLen
  <2>6. stream[mux[k].at + 1 + 0] = <<k, 0>>
    BY <1>8, <2>5 DEF Laid
  <2> QED
    BY <2>2, <2>4, <2>6
<1> QED
  BY <1>7, <1>8, <1>9

(* Bytes of the handshake and of chunks that were taken never use up the   *)
(* room in m_pBuffer: recv is asked for 0 bytes, which ends the thread as  *)
(* a closed connection does, only in front of a chunk longer than it.      *)
THEOREM AlwaysRoom == HeadersUnderstood /\ Spec => []FullBufferOnlyForOversizedChunk
<1>1. Init => RoomInv
  BY DEF Init, WireInit, RoomInv
<1>2. Inv /\ RoomInv /\ [Next]_vars => RoomInv'
  BY NextRoom
<1>3. Inv /\ RoomInv => FullBufferOnlyForOversizedChunk
  BY RoomEnough
<1> QED
  BY <1>1, <1>2, <1>3, InvHolds, PTL DEF Spec
=============================================================================
