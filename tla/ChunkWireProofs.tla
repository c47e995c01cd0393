-------------------------- MODULE ChunkWireProofs --------------------------
(***************************************************************************)
(* What the server's history says of the bytes it wrote, proved for every  *)
(* value of the constants: an invariant of every step of ChunkWire.        *)
(***************************************************************************)
EXTENDS ChunkWire, TLAPS

HandshakeLen == S0S1Len + S2Len

ChunkLen(c) == HeaderLen(c) + c.pay

(* The message chunk k carries bytes of, as it was before: a new one, or   *)
(* the one that was open on the chunk stream.                              *)
Carried(k) ==
  LET c    == wire[k]
      last == mux[k].open[c.cs]
  IN  IF c.fmt = 3 THEN last
      ELSE [type |-> c.type, size |-> c.size, val |-> c.val, fmt |-> c.fmt, at |-> c.ts,
            ts |-> IF c.fmt = 0 THEN c.ts ELSE last.ts + c.ts,
            rem |-> c.size, body |-> <<>>]

(* What holds of an open message: what was sent and what is left of it     *)
(* make up its size, and its bytes are from chunks that carry its val.     *)
MessageOK(chunks, m) ==
  /\ Len(m.body) + m.rem = m.size
  /\ \A i \in 1..Len(m.body) :
       m.body[i][1] \in 1..Len(chunks) /\ chunks[m.body[i][1]].val = m.val
  /\ m.type = SET_CHUNK_SIZE => m.size = 4 /\ m.val \in Nat \ {0}

(* Chunk k holds as much of its message as fits, and starts a new message  *)
(* only on a chunk stream that has none open.                              *)
Written(k) ==
  LET c == wire[k]
      m == Carried(k)
  IN  /\ mux[k + 1] = AfterChunk(k, mux[k], c, m)
      /\ c.pay = Least(m.rem, mux[k].max)
      /\ c.fmt # 2
      /\ c.fmt = 3 <=> mux[k].open[c.cs].rem > 0
      /\ MessageOK(wire, m)

(* The bytes of every chunk are in the stream where mux says. *)
Laid(k) ==
  /\ mux[k].at + ChunkLen(wire[k]) <= Len(stream)
  /\ \A i \in 0..(ChunkLen(wire[k]) - 1) : stream[mux[k].at + 1 + i] = <<k, i>>

(* mux[k].done is a prefix of what is done now. *)
DoneSoFar(k) ==
  /\ Len(mux[k].done) <= Len(Mux.done)
  /\ \A i \in 1..Len(mux[k].done) : mux[k].done[i] = Mux.done[i]

WireInv ==
  /\ Len(mux) = Len(wire) + 1
  /\ mux[1].at = HandshakeLen /\ mux[1].max = DefaultChunk /\ mux[1].done = <<>>
  /\ \A cs \in Csids : mux[1].open[cs].rem = 0
  /\ Len(stream) <= Mux.at
  /\ wire # <<>> => Len(stream) = Mux.at
  /\ \A k \in 1..Len(mux) : /\ mux[k].at >= HandshakeLen
                            /\ DoneSoFar(k)
                            /\ \A cs \in Csids : MessageOK(wire, mux[k].open[cs])
  /\ \A k \in 1..Len(wire) :
       Laid(k) /\ Written(k)

-----------------------------------------------------------------------------
LEMMA ConcatProps ==
  ASSUME NEW s \in Seq(Bytes), NEW t \in Seq(Bytes)
  PROVE  /\ s \o t \in Seq(Bytes)
         /\ Len(s) \in Nat /\ Len(s \o t) = Len(s) + Len(t)
         /\ \A p \in 1..Len(s) : (s \o t)[p] = s[p]
         /\ \A i \in 1..Len(t) : (s \o t)[Len(s) + i] = t[i]
OBVIOUS

LEMMA AppendProps ==
  ASSUME NEW S, NEW s \in Seq(S), NEW e \in S
  PROVE  /\ Append(s, e) \in Seq(S)
         /\ Len(s) \in Nat /\ Len(Append(s, e)) = Len(s) + 1
         /\ \A p \in 1..Len(s) : Append(s, e)[p] = s[p]
         /\ Append(s, e)[Len(s) + 1] = e
OBVIOUS

LEMMA LeastType ==
  ASSUME NEW a \in Nat, NEW b \in Nat
  PROVE  Least(a, b) \in Nat /\ Least(a, b) <= a /\ Least(a, b) <= b
BY DEF Least

LEMMA HeaderLenType ==
  ASSUME NEW c \in Chunks
  PROVE  /\ BasicHeaderLen(c.cs) \in Nat \ {0}
         /\ MessageHeaderLen(c.fmt) \in Nat
         /\ HeaderLen(c) \in Nat \ {0}
<1>1. BasicHeaderLen(c.cs) \in Nat \ {0}
  BY DEF BasicHeaderLen
<1>2. MessageHeaderLen(c.fmt) \in Nat
  <2>1. c.fmt \in 0..3
    BY DEF Chunks
  <2>2. c.fmt = 0 \/ c.fmt = 1 \/ c.fmt = 2 \/ c.fmt = 3
    BY <2>1
  <2> QED
    BY <2>2 DEF MessageHeaderLen
<1> QED
  BY <1>1, <1>2 DEF HeaderLen

LEMMA PayloadType ==
  ASSUME NEW k \in Nat, NEW c \in Chunks
  PROVE  /\ Payload(k, c) \in Seq(Bytes)
         /\ Len(Payload(k, c)) = c.pay
         /\ \A i \in 1..c.pay : Payload(k, c)[i] = <<k, HeaderLen(c) + i - 1>>
<1>1. c.pay \in Nat
  BY DEF Chunks
<1>2. \A i \in 1..c.pay : <<k, HeaderLen(c) + i - 1>> \in Bytes
  BY <1>1, HeaderLenType DEF Bytes
<1> QED
  BY <1>1, <1>2 DEF Payload

LEMMA ChunkBytesType ==
  ASSUME NEW k \in Nat, NEW c \in Chunks
  PROVE  /\ ChunkBytes(k, c) \in Seq(Bytes)
         /\ Len(ChunkBytes(k, c)) = ChunkLen(c)
         /\ \A i \in 1..ChunkLen(c) : ChunkBytes(k, c)[i] = <<k, i - 1>>
<1>1. c.pay \in Nat /\ ChunkLen(c) \in Nat
  BY HeaderLenType DEF Chunks, ChunkLen
<1>2. \A i \in 1..ChunkLen(c) : <<k, i - 1>> \in Bytes
  BY <1>1 DEF Bytes
<1> QED
  BY <1>1, <1>2 DEF ChunkBytes, ChunkLen

LEMMA AfterChunkType ==
  ASSUME NEW k \in Nat, NEW old \in MuxStates, NEW c \in Chunks, NEW m \in Messages,
         c.pay <= m.rem, m.type = SET_CHUNK_SIZE => m.val # 0
  PROVE  Sent(k, c, m) \in Messages /\ AfterChunk(k, old, c, m) \in MuxStates
<1>1. Sent(k, c, m) \in Messages
  <2>1. m.body \o Payload(k, c) \in Seq(Bytes)
    BY PayloadType DEF Messages
  <2>2. m.rem - c.pay \in Nat
    BY DEF Messages, Chunks
  <2> QED
    BY <2>1, <2>2 DEF Sent, Messages
<1>2. old.at + HeaderLen(c) + c.pay \in Nat
  BY HeaderLenType DEF MuxStates, Chunks
<1>3. [old.open EXCEPT ![c.cs] = Sent(k, c, m)] \in [Csids -> Messages]
  BY <1>1 DEF MuxStates, Chunks
<1>4. /\ old.done \in Seq([cs : Csids, msg : Messages])
      /\ Append(old.done, [cs |-> c.cs, msg |-> Sent(k, c, m)])
           \in Seq([cs : Csids, msg : Messages])
  BY <1>1 DEF MuxStates, Chunks
<1>5. /\ m.type = SET_CHUNK_SIZE => m.val \in Nat \ {0}
      /\ old.max \in Nat \ {0} /\ old.started \in Nat
  BY DEF Messages, MuxStates
<1>6. AfterChunk(k, old, c, m) \in MuxStates
  <2> DEFINE over == Sent(k, c, m).rem = 0
             max  == IF over /\ m.type = SET_CHUNK_SIZE THEN m.val ELSE old.max
             done == IF over THEN Append(old.done, [cs |-> c.cs, msg |-> Sent(k, c, m)])
                     ELSE old.done
             n    == old.started + (IF c.fmt = 3 THEN 0 ELSE 1)
  <2>1. max \in Nat \ {0}
    BY <1>5
  <2>2. done \in Seq([cs : Csids, msg : Messages])
    BY <1>4
  <2>3. n \in Nat
    BY <1>5
  <2>4. AfterChunk(k, old, c, m) =
          [at |-> old.at + HeaderLen(c) + c.pay, max |-> max,
           open |-> [old.open EXCEPT ![c.cs] = Sent(k, c, m)], done |-> done, started |-> n]
    BY DEF AfterChunk
  <2> HIDE DEF max, done, n
  <2> QED
    BY <1>2, <1>3, <2>1, <2>2, <2>3, <2>4 DEF MuxStates
<1> QED
  BY <1>1, <1>6

-----------------------------------------------------------------------------
(* The first states of the server. *)
LEMMA WireInitOK ==
  ASSUME WireInit
  PROVE  WireTypeOK /\ WireInv
<1> USE WireAssumption
<1>1. NoMessage \in Messages /\ MessageOK(wire, NoMessage)
  BY DEF NoMessage, Messages, MessageOK, NoType, SET_CHUNK_SIZE, Bytes
<1>2. mux[1] \in MuxStates
  BY <1>1 DEF WireInit, MuxStates
<1>3. WireTypeOK
  BY <1>2 DEF WireInit, WireTypeOK
<1>4. Len(mux) = 1 /\ Len(wire) = 0 /\ Len(stream) = 0 /\ Mux = mux[1]
  BY DEF WireInit, Mux
<1>5. \A cs \in Csids : mux[1].open[cs] = NoMessage
  BY DEF WireInit
<1>6. mux[1].at = HandshakeLen /\ mux[1].max = DefaultChunk /\ mux[1].done = <<>>
  BY DEF WireInit, HandshakeLen
<1>7. NoMessage.rem = 0
  BY DEF NoMessage
<1>8. DoneSoFar(1)
  BY <1>4, <1>6 DEF DoneSoFar
<1>9. HandshakeLen \in Nat
  BY DEF HandshakeLen
<1> QED
  BY <1>1, <1>3, <1>4, <1>5, <1>6, <1>7, <1>8, <1>9 DEF WireInv, WireInit

LEMMA CarriedType ==
  ASSUME NEW k, wire[k] \in Chunks, mux[k] \in MuxStates, wire[k].fmt # 2
  PROVE  Carried(k) \in Messages
<1>1. mux[k].open[wire[k].cs] \in Messages
  BY DEF MuxStates, Chunks
<1>2. CASE wire[k].fmt = 3
  BY <1>1, <1>2 DEF Carried
<1>3. CASE wire[k].fmt # 3
  <2>1. wire[k].fmt \in 0..2
    BY <1>3 DEF Chunks
  <2>2. /\ wire[k].type \in Nat /\ wire[k].size \in Nat /\ wire[k].val \in Nat
        /\ wire[k].ts \in Nat /\ mux[k].open[wire[k].cs].ts \in Nat
    BY <1>1 DEF Chunks, Messages
  <2> DEFINE ts == IF wire[k].fmt = 0 THEN wire[k].ts
                   ELSE mux[k].open[wire[k].cs].ts + wire[k].ts
  <2>3. <<>> \in Seq(Bytes) /\ ts \in Nat
    BY <2>2
  <2>4. Carried(k) = [type |-> wire[k].type, size |-> wire[k].size, val |-> wire[k].val,
                      fmt |-> wire[k].fmt, at |-> wire[k].ts, ts |-> ts, rem |-> wire[k].size,
                      body |-> <<>>]
    BY <1>3 DEF Carried
  <2> HIDE DEF ts
  <2> QED
    BY <2>1, <2>2, <2>3, <2>4 DEF Messages
<1> QED
  BY <1>2, <1>3

(* A well formed message stays so when a chunk is written ... *)
LEMMA MessageKept ==
  ASSUME NEW w \in Seq(Chunks), NEW c \in Chunks, NEW m \in Messages, MessageOK(w, m)
  PROVE  MessageOK(Append(w, c), m)
<1>1. /\ Len(w) \in Nat /\ Len(Append(w, c)) = Len(w) + 1
      /\ \A j \in 1..Len(w) : Append(w, c)[j] = w[j]
  OBVIOUS
<1>2. ASSUME NEW i \in 1..Len(m.body)
      PROVE  /\ m.body[i][1] \in 1..Len(Append(w, c))
             /\ Append(w, c)[m.body[i][1]].val = m.val
  <2>1. m.body[i][1] \in 1..Len(w) /\ w[m.body[i][1]].val = m.val
    BY DEF MessageOK
  <2> QED
    BY <1>1, <2>1
<1> QED
  BY <1>2 DEF MessageOK

(* ... and so does the message the chunk is part of. *)
LEMMA SentOK ==
  ASSUME NEW w \in Seq(Chunks), NEW c \in Chunks, NEW m \in Messages, MessageOK(w, m),
         NEW k \in Nat, k = Len(w) + 1, c.pay <= m.rem, c.val = m.val
  PROVE  /\ MessageOK(Append(w, c), Sent(k, c, m))
         /\ Sent(k, c, m).body = m.body \o Payload(k, c)
         /\ Sent(k, c, m).rem = m.rem - c.pay
<1>1. /\ Sent(k, c, m).body = m.body \o Payload(k, c)
      /\ Sent(k, c, m).rem = m.rem - c.pay
      /\ Sent(k, c, m).type = m.type /\ Sent(k, c, m).size = m.size
      /\ Sent(k, c, m).val = m.val
  BY DEF Sent, Messages
<1>2. m.body \in Seq(Bytes) /\ m.rem \in Nat /\ m.size \in Nat /\ c.pay \in Nat
  BY DEF Messages, Chunks
<1>3. /\ Payload(k, c) \in Seq(Bytes) /\ Len(Payload(k, c)) = c.pay
      /\ \A i \in 1..c.pay : Payload(k, c)[i] = <<k, HeaderLen(c) + i - 1>>
  BY PayloadType
<1> DEFINE body == m.body \o Payload(k, c)
<1>4. /\ Len(body) = Len(m.body) + c.pay
      /\ \A i \in 1..Len(m.body) : body[i] = m.body[i]
      /\ \A i \in 1..c.pay : body[Len(m.body) + i] = <<k, HeaderLen(c) + i - 1>>
  <2>1. /\ Len(body) = Len(m.body) + Len(Payload(k, c))
        /\ \A i \in 1..Len(m.body) : body[i] = m.body[i]
        /\ \A i \in 1..Len(Payload(k, c)) : body[Len(m.body) + i] = Payload(k, c)[i]
    BY <1>2, <1>3, ConcatProps
  <2> QED
    BY <1>3, <2>1
<1>5. Len(m.body) + m.rem = m.size /\ Len(m.body) \in Nat
  BY <1>2 DEF MessageOK
<1>6. /\ Len(Append(w, c)) = k /\ Append(w, c)[k] = c
      /\ \A j \in 1..Len(w) : Append(w, c)[j] = w[j]
  OBVIOUS
<1> HIDE DEF body
<1>7. ASSUME NEW i \in 1..Len(body)
      PROVE  body[i][1] \in 1..k /\ Append(w, c)[body[i][1]].val = m.val
  <2>1. CASE i <= Len(m.body)
    <3>1. body[i] = m.body[i] /\ i \in 1..Len(m.body)
      BY <1>4, <1>5, <2>1
    <3>2. m.body[i][1] \in 1..Len(w) /\ w[m.body[i][1]].val = m.val
      BY <3>1 DEF MessageOK
    <3> QED
      BY <1>6, <3>1, <3>2
  <2>2. CASE i > Len(m.body)
    <3>1. i - Len(m.body) \in 1..c.pay /\ i = Len(m.body) + (i - Len(m.body))
      BY <1>2, <1>4, <1>5, <2>2
    <3>2. body[i][1] = k
      BY <1>4, <3>1
    <3> QED
      BY <1>6, <3>2
  <2> QED
    BY <1>4, <1>5, <2>1, <2>2
<1>8. Len(body) + (m.rem - c.pay) = m.size
  BY <1>2, <1>4, <1>5
<1> QED
  BY <1>1, <1>6, <1>7, <1>8 DEF MessageOK, body

(* A step of the server adds to the stream and to its history. *)
Grown ==
  /\ Len(stream) <= Len(stream') /\ \A p \in 1..Len(stream) : stream'[p] = stream[p]
  /\ Len(mux) <= Len(mux') /\ \A k \in 1..Len(mux) : mux'[k] = mux[k]

(* What a server in state old may write next: chunk c of message m. *)
MayWrite(old, c, m) ==
  /\ MessageOK(wire, m) /\ c.val = m.val
  /\ c.pay = Least(m.rem, old.max) /\ c.fmt # 2
  /\ c.fmt = 3 <=> old.open[c.cs].rem > 0
  /\ m = IF c.fmt = 3 THEN old.open[c.cs]
         ELSE [type |-> c.type, size |-> c.size, val |-> c.val, fmt |-> c.fmt, at |-> c.ts,
               ts |-> IF c.fmt = 0 THEN c.ts ELSE old.open[c.cs].ts + c.ts,
               rem |-> c.size, body |-> <<>>]

(* Writing it keeps the invariant. *)
LEMMA WriteOK ==
  ASSUME WireTypeOK, WireInv, HandshakeLen <= Len(stream),
         NEW c \in Chunks, NEW m \in Messages, MayWrite(Mux, c, m), Write(c, m)
  PROVE  WireTypeOK' /\ WireInv' /\ Grown
<1>0. SUFFICES ASSUME NEW k \in Nat, k = Len(wire) + 1,
                      NEW old, old = Mux, MayWrite(old, c, m),
                      NEW new, new = AfterChunk(k, old, c, m),
                      wire' = Append(wire, c), mux' = Append(mux, new),
                      stream' = stream \o ChunkBytes(k, c)
               PROVE  WireTypeOK' /\ WireInv' /\ Grown
  <2>1. Len(wire) + 1 \in Nat
    BY DEF WireTypeOK
  <2> QED
    BY <2>1 DEF Write
<1>1. /\ stream \in Seq(Bytes) /\ wire \in Seq(Chunks) /\ mux \in Seq(MuxStates)
      /\ Len(wire) = k - 1 /\ Len(mux) = k /\ k \in Nat \ {0} /\ old \in MuxStates
      /\ old = mux[k] /\ Len(stream) \in Nat
  BY <1>0 DEF WireTypeOK, WireInv, Mux
<1>2. c.pay <= m.rem /\ (m.type = SET_CHUNK_SIZE => m.val # 0) /\ c.pay \in Nat
  <2>1. m.rem \in Nat /\ old.max \in Nat
    BY <1>1 DEF Messages, MuxStates
  <2>2. m.type = SET_CHUNK_SIZE => m.val # 0
    BY <1>0 DEF MayWrite, MessageOK
  <2>3. Least(m.rem, old.max) \in Nat /\ Least(m.rem, old.max) <= m.rem
    BY <2>1, LeastType
  <2> QED
    BY <1>0, <2>2, <2>3 DEF MayWrite
<1>3. Sent(k, c, m) \in Messages /\ new \in MuxStates
  BY <1>0, <1>1, <1>2, AfterChunkType
<1>5. WireTypeOK'
  <2>1. stream' \in Seq(Bytes)
    BY <1>0, <1>1, ChunkBytesType, ConcatProps
  <2>2. wire' \in Seq(Chunks) /\ mux' \in Seq(MuxStates)
    BY <1>1, <1>3, <1>0, AppendProps
  <2> QED
    BY <2>1, <2>2 DEF WireTypeOK
<1>6. /\ Len(wire') = k /\ Len(mux') = k + 1 /\ wire'[k] = c /\ mux'[k + 1] = new
      /\ \A j \in 1..(k - 1) : wire'[j] = wire[j]
      /\ \A j \in 1..k : mux'[j] = mux[j]
      /\ Mux' = new
  <2>1. /\ Len(wire') = k /\ wire'[k] = c
        /\ \A j \in 1..(k - 1) : wire'[j] = wire[j]
    BY <1>1, <1>0, AppendProps
  <2>2. /\ Len(mux') = k + 1 /\ mux'[k + 1] = new
        /\ \A j \in 1..k : mux'[j] = mux[j]
    BY <1>1, <1>3, <1>0, AppendProps
  <2> QED
    BY <2>1, <2>2 DEF Mux
<1>7. /\ Len(stream') = Len(stream) + ChunkLen(c)
      /\ \A p \in 1..Len(stream) : stream'[p] = stream[p]
      /\ \A i \in 1..ChunkLen(c) : stream'[Len(stream) + i] = <<k, i - 1>>
      /\ ChunkLen(c) \in Nat
  <2>1. ChunkLen(c) \in Nat
    BY HeaderLenType DEF ChunkLen, Chunks
  <2>2. /\ ChunkBytes(k, c) \in Seq(Bytes)
        /\ Len(ChunkBytes(k, c)) = ChunkLen(c)
        /\ \A i \in 1..ChunkLen(c) : ChunkBytes(k, c)[i] = <<k, i - 1>>
    BY <1>1, ChunkBytesType
  <2>3. stream \in Seq(Bytes)
    BY <1>1
  <2>4. /\ Len(stream \o ChunkBytes(k, c)) = Len(stream) + Len(ChunkBytes(k, c))
        /\ \A p \in 1..Len(stream) : (stream \o ChunkBytes(k, c))[p] = stream[p]
        /\ \A i \in 1..Len(ChunkBytes(k, c)) :
             (stream \o ChunkBytes(k, c))[Len(stream) + i] = ChunkBytes(k, c)[i]
    BY <2>2, <2>3, ConcatProps
  <2> QED
    BY <1>0, <2>1, <2>2, <2>4
<1>8. Len(stream) = old.at
  <2>1. CASE wire # <<>>
    BY <1>0, <2>1 DEF WireInv
  <2>2. CASE wire = <<>>
    <3>1. k = 1 /\ old.at = HandshakeLen
      BY <1>0, <1>1, <2>2 DEF WireInv
    <3>2. Len(stream) <= old.at
      BY <1>0 DEF WireInv
    <3> QED
      BY <1>1, <3>1, <3>2, WireAssumption DEF HandshakeLen
  <2> QED
    BY <2>1, <2>2
<1>9. HandshakeLen \in Nat /\ old.at \in Nat /\ HandshakeLen <= old.at
  BY <1>1, <1>8, WireAssumption DEF HandshakeLen, MuxStates
<1>10. /\ new.at = old.at + ChunkLen(c)
       /\ new.open = [old.open EXCEPT ![c.cs] = Sent(k, c, m)]
       /\ new.done = IF Sent(k, c, m).rem = 0
                       THEN Append(old.done, [cs |-> c.cs, msg |-> Sent(k, c, m)])
                       ELSE old.done
  <2>1. old.at \in Nat /\ HeaderLen(c) \in Nat /\ c.pay \in Nat
    BY <1>1, <1>2, HeaderLenType DEF MuxStates
  <2>2. new.at = old.at + HeaderLen(c) + c.pay
    BY <1>0 DEF AfterChunk
  <2> QED
    BY <1>0, <2>1, <2>2 DEF AfterChunk, ChunkLen
<1>11. ASSUME NEW q \in Messages, MessageOK(wire, q)
       PROVE  MessageOK(wire', q)
  BY <1>1, <1>0, <1>11, MessageKept
<1>12. MessageOK(wire', Sent(k, c, m))
  <2>1. MessageOK(wire, m) /\ c.val = m.val
    BY DEF MayWrite
  <2> QED
    BY <1>0, <1>1, <1>2, <2>1, SentOK
<1>13. ASSUME NEW cs \in Csids
       PROVE  MessageOK(wire', new.open[cs])
  <2>1. CASE cs = c.cs
    BY <1>1, <1>10, <1>12, <2>1 DEF MuxStates
  <2>2. CASE cs # c.cs
    <3>1. new.open[cs] = old.open[cs] /\ old.open[cs] \in Messages
      BY <1>1, <1>10, <2>2 DEF MuxStates
    <3>2. MessageOK(wire, old.open[cs])
      BY <1>1 DEF WireInv
    <3> QED
      BY <1>11, <3>1, <3>2
  <2> QED
    BY <2>1, <2>2
<1>14. Len(old.done) <= Len(new.done) /\ \A i \in 1..Len(old.done) : new.done[i] = old.done[i]
  <2>1. old.done \in Seq([cs : Csids, msg : Messages])
    BY <1>1 DEF MuxStates
  <2>2. Len(old.done) \in Nat
    BY <2>1
  <2>3. CASE new.done = old.done
    BY <2>2, <2>3
  <2>4. CASE new.done = Append(old.done, [cs |-> c.cs, msg |-> Sent(k, c, m)])
    <3>1. [cs |-> c.cs, msg |-> Sent(k, c, m)] \in [cs : Csids, msg : Messages]
      BY <1>3 DEF Chunks
    <3> QED
      BY <2>1, <2>4, <3>1, AppendProps
  <2> QED
    BY <1>10, <2>3, <2>4
<1>15. ASSUME NEW j \in 1..(k + 1)
       PROVE  DoneSoFar(j)'
  <2>1. CASE j = k + 1
    <3>1. Len(new.done) \in Nat
      BY <1>3 DEF MuxStates
    <3> QED
      BY <1>6, <2>1, <3>1 DEF DoneSoFar
  <2>2. CASE j \in 1..k
    <3>1. /\ Len(mux[j].done) <= Len(old.done)
          /\ \A i \in 1..Len(mux[j].done) : mux[j].done[i] = old.done[i]
      BY <1>0, <1>1, <2>2 DEF WireInv, DoneSoFar
    <3>2. Len(mux[j].done) \in Nat /\ Len(old.done) \in Nat /\ Len(new.done) \in Nat
      <4>1. mux[j] \in MuxStates /\ old \in MuxStates /\ new \in MuxStates
        BY <1>1, <1>3, <2>2
      <4>2. \A x \in MuxStates : Len(x.done) \in Nat
        BY DEF MuxStates
      <4> QED
        BY <4>1, <4>2
    <3>3. mux'[j] = mux[j] /\ Mux' = new
      BY <1>6, <2>2
    <3> QED
      BY <1>14, <3>1, <3>2, <3>3 DEF DoneSoFar
  <2> QED
    BY <1>1, <2>1, <2>2
<1>16. ASSUME NEW j \in 1..(k - 1)
       PROVE  Laid(j)' /\ Written(j)'
  <2>1. Laid(j) /\ Written(j)
    BY <1>1 DEF WireInv
  <2>2. /\ wire'[j] = wire[j] /\ mux'[j] = mux[j] /\ mux'[j + 1] = mux[j + 1]
        /\ wire[j] \in Chunks /\ mux[j] \in MuxStates
    <3>1. j \in 1..Len(wire) /\ j \in 1..Len(mux) /\ j \in 1..k /\ j + 1 \in 1..k
      BY <1>1
    <3>2. wire[j] \in Chunks /\ mux[j] \in MuxStates
      BY <1>1, <3>1
    <3> QED
      BY <1>6, <3>1, <3>2
  <2>3. Laid(j)'
    <3>1. mux[j].at \in Nat /\ ChunkLen(wire[j]) \in Nat
      <4>1. HeaderLen(wire[j]) \in Nat /\ wire[j].pay \in Nat
        BY <2>2, HeaderLenType DEF Chunks
      <4> QED
        BY SMTT(20), <2>2, <4>1 DEF MuxStates, ChunkLen
    <3>2. /\ mux[j].at + ChunkLen(wire[j]) <= Len(stream)
          /\ \A i \in 0..(ChunkLen(wire[j]) - 1) : stream[mux[j].at + 1 + i] = <<j, i>>
      BY <2>1 DEF Laid
    <3>3. \A i \in 0..(ChunkLen(wire[j]) - 1) : mux[j].at + 1 + i \in 1..Len(stream)
      BY <1>1, <3>1, <3>2
    <3>4. \A i \in 0..(ChunkLen(wire[j]) - 1) : stream'[mux[j].at + 1 + i] = <<j, i>>
      BY <1>7, <3>2, <3>3
    <3>5. mux[j].at + ChunkLen(wire[j]) <= Len(stream')
      BY <1>1, <1>7, <3>1, <3>2
    <3> QED
      BY <2>2, <3>4, <3>5 DEF Laid
  <2>4. Carried(j)' = Carried(j)
    BY <2>2 DEF Carried
  <2>5. Carried(j) \in Messages
    BY <2>1, <2>2, CarriedType DEF Written
  <2>6. MessageOK(wire', Carried(j))
    BY <1>11, <2>1, <2>5 DEF Written
  <2> QED
    BY <2>1, <2>2, <2>3, <2>4, <2>6 DEF Written
<1>17. Laid(k)'
  <2>1. ASSUME NEW i \in 0..(ChunkLen(c) - 1)
        PROVE  stream'[old.at + 1 + i] = <<k, i>>
    <3>1. i + 1 \in 1..ChunkLen(c) /\ old.at + 1 + i = Len(stream) + (i + 1) /\ (i + 1) - 1 = i
      BY <1>7, <1>8, <1>9
    <3> QED
      BY <1>7, <3>1
  <2>2. mux'[k] = old /\ wire'[k] = c
    BY <1>1, <1>6
  <2>3. old.at + ChunkLen(c) <= Len(stream')
    BY <1>7, <1>8, <1>9
  <2> QED
    BY <2>1, <2>2, <2>3 DEF Laid
<1>18. Written(k)'
  <2>1. mux'[k] = old /\ mux'[k + 1] = new /\ wire'[k] = c
    BY <1>1, <1>6
  <2>2. Carried(k)' = m
    BY <1>0, <2>1 DEF Carried, MayWrite
  <2>3. MessageOK(wire', m)
    BY <1>0, <1>11 DEF MayWrite
  <2> QED
    BY <1>0, <2>1, <2>2, <2>3 DEF Written, MayWrite
<1>19. Len(wire') = k /\ Len(mux') = k + 1 /\ wire' # <<>> /\ Len(stream') = Mux'.at
  <2>1. Len(stream') = Mux'.at
    BY <1>6, <1>7, <1>8, <1>10
  <2> QED
    BY <1>0, <1>1, <1>6, <2>1
<1>20. /\ mux'[1].at = HandshakeLen /\ mux'[1].max = DefaultChunk /\ mux'[1].done = <<>>
       /\ \A cs \in Csids : mux'[1].open[cs].rem = 0
  <2>1. mux'[1] = mux[1]
    BY <1>1, <1>6
  <2> QED
    BY <2>1 DEF WireInv
<1>21. ASSUME NEW j \in 1..(k + 1)
       PROVE  /\ mux'[j].at >= HandshakeLen
              /\ \A cs \in Csids : MessageOK(wire', mux'[j].open[cs])
  <2>1. CASE j = k + 1
    <3>1. new.at >= HandshakeLen
      BY <1>7, <1>9, <1>10
    <3> QED
      BY <1>6, <1>13, <2>1, <3>1
  <2>2. CASE j \in 1..k
    <3>1. mux'[j] = mux[j] /\ mux[j] \in MuxStates
      BY <1>1, <1>6, <2>2
    <3>2. mux[j].at >= HandshakeLen /\ \A cs \in Csids : MessageOK(wire, mux[j].open[cs])
      BY <1>0, <1>1, <2>2 DEF WireInv
    <3>3. \A cs \in Csids : mux[j].open[cs] \in Messages
      BY <3>1 DEF MuxStates
    <3> QED
      BY <1>11, <3>1, <3>2, <3>3
  <2> QED
    BY <1>1, <2>1, <2>2
<1>22. WireInv'
  <2>1. \A j \in 1..Len(mux') : /\ mux'[j].at >= HandshakeLen /\ DoneSoFar(j)'
                                /\ \A cs \in Csids : MessageOK(wire', mux'[j].open[cs])
    BY <1>15, <1>19, <1>21
  <2>2. \A j \in 1..Len(wire') : Laid(j)' /\ Written(j)'
    <3>1. \A j \in 1..k : j = k \/ j \in 1..(k - 1)
      BY <1>1
    <3> QED
      BY <1>16, <1>17, <1>18, <1>19, <3>1
  <2>3. Len(stream') <= Mux'.at
    BY <1>1, <1>7, <1>19
  <2> QED
    BY <1>19, <1>20, <2>1, <2>2, <2>3 DEF WireInv
<1>23. Grown
  BY <1>1, <1>6, <1>7 DEF Grown
<1> QED
  BY <1>5, <1>22, <1>23

-----------------------------------------------------------------------------
(* A handshake message is longer bytes of the stream and nothing else.      *)
LEMMA HandshakeOK ==
  ASSUME WireTypeOK, WireInv, ServerS0S1 \/ ServerS2
  PROVE  WireTypeOK' /\ WireInv' /\ Grown
<1> USE WireAssumption
<1>1. /\ stream \in Seq(Bytes) /\ wire \in Seq(Chunks) /\ mux \in Seq(MuxStates)
      /\ Len(stream) \in Nat
  BY DEF WireTypeOK
<1>2. HandshakeLen \in Nat /\ S0S1Len \in Nat /\ S0S1Len <= HandshakeLen
      /\ S0S1Len < HandshakeLen
  BY DEF HandshakeLen
<1>3. wire' = wire /\ mux' = mux /\ Mux' = Mux
  BY DEF ServerS0S1, ServerS2, Mux
<1>4. Len(stream) < HandshakeLen
  BY <1>1, <1>2 DEF ServerS0S1, ServerS2
<1>5. wire = <<>>
  <2>1. Len(mux) = Len(wire) + 1 /\ Len(wire) \in Nat
    BY <1>1 DEF WireInv
  <2>2. Mux.at >= HandshakeLen
    BY <1>1, <2>1 DEF WireInv, Mux
  <2>3. Mux.at \in Nat
    <3>1. Mux \in MuxStates
      BY <1>1, <2>1 DEF Mux
    <3> QED
      BY <3>1 DEF MuxStates
  <2> QED
    BY <1>1, <1>2, <1>4, <2>2, <2>3 DEF WireInv
<1>6. /\ stream' \in Seq(Bytes) /\ Len(stream') <= HandshakeLen
      /\ Len(stream) <= Len(stream')
      /\ \A p \in 1..Len(stream) : stream'[p] = stream[p]
  <2>1. CASE ServerS0S1
    <3>1. \A i \in 1..S0S1Len : <<0, i - 1>> \in Bytes
      BY DEF Bytes
    <3>2. stream' = [i \in 1..S0S1Len |-> <<0, i - 1>>] /\ Len(stream) = 0
      BY <2>1 DEF ServerS0S1
    <3> QED
      BY <1>2, <3>1, <3>2
  <2>2. CASE ServerS2
    <3> DEFINE s2 == [i \in 1..S2Len |-> <<0, S0S1Len + i - 1>>]
    <3>1. \A i \in 1..S2Len : <<0, S0S1Len + i - 1>> \in Bytes
      BY DEF Bytes
    <3>2. s2 \in Seq(Bytes) /\ Len(s2) = S2Len
      <4>1. \A n \in Nat : \A f \in [1..n -> Bytes] : f \in Seq(Bytes) /\ Len(f) = n
        OBVIOUS
      <4>2. s2 \in [1..S2Len -> Bytes]
        BY <3>1
      <4> HIDE DEF s2
      <4> QED
        BY <4>1, <4>2
    <3>3. stream' = stream \o s2 /\ Len(stream) = S0S1Len
      BY <2>2 DEF ServerS2
    <3> HIDE DEF s2
    <3>4. /\ stream \o s2 \in Seq(Bytes) /\ Len(stream \o s2) = Len(stream) + Len(s2)
          /\ \A p \in 1..Len(stream) : (stream \o s2)[p] = stream[p]
      BY <1>1, <3>2, ConcatProps
    <3> QED
      BY <1>2, <3>2, <3>3, <3>4 DEF HandshakeLen
  <2> QED
    BY <2>1, <2>2
<1>7. WireTypeOK'
  BY <1>1, <1>3, <1>6 DEF WireTypeOK
<1>8. WireInv'
  <2>1. Len(wire) = 0 /\ Len(mux) = 1 /\ Mux = mux[1]
    BY <1>1, <1>5 DEF WireInv, Mux
  <2>2. Len(stream') <= Mux'.at
    BY <1>3, <1>6, <2>1 DEF WireInv
  <2>3. \A k \in 1..Len(mux) : DoneSoFar(k)'
    BY <1>3 DEF WireInv, DoneSoFar
  <2>4. \A k \in 1..Len(wire) : FALSE
    BY <2>1
  <2>5. \A k \in 1..Len(mux') : /\ mux'[k].at >= HandshakeLen /\ DoneSoFar(k)'
                                /\ \A cs \in Csids : MessageOK(wire', mux'[k].open[cs])
    BY <1>3, <2>3 DEF WireInv
  <2>6. Len(mux') = Len(wire') + 1 /\ wire' = <<>>
    BY <1>3, <1>5, <2>1
  <2>7. /\ mux'[1].at = HandshakeLen /\ mux'[1].max = DefaultChunk /\ mux'[1].done = <<>>
        /\ \A cs \in Csids : mux'[1].open[cs].rem = 0
    BY <1>3 DEF WireInv
  <2> QED
    BY <1>3, <2>2, <2>4, <2>5, <2>6, <2>7 DEF WireInv
<1>9. Grown
  <2>1. Len(mux) \in Nat
    BY <1>1
  <2> QED
    BY <1>3, <1>6, <2>1 DEF Grown
<1> QED
  BY <1>7, <1>8, <1>9

LEMMA KindType ==
  ASSUME NEW kind \in MessageKinds
  PROVE  /\ kind.type \in Nat /\ kind.size \in Nat /\ kind.val \in Nat
         /\ kind.type = SET_CHUNK_SIZE => kind.size = 4 /\ kind.val \in Nat \ {0}
<1>1. /\ \A t \in MediaTypes : t \in Nat /\ t # 1
      /\ \A n \in Sizes : n \in Nat
      /\ \A n \in ChunkSizes : n \in Nat \ {0}
  BY WireAssumption
<1>2. CASE kind \in [type : {SET_CHUNK_SIZE}, size : {4}, val : ChunkSizes]
  <2>1. kind.type = 1 /\ kind.size = 4 /\ kind.val \in ChunkSizes
    BY <1>2 DEF SET_CHUNK_SIZE
  <2>2. kind.val \in Nat \ {0}
    BY <1>1, <2>1
  <2> QED
    BY <2>1, <2>2
<1>3. CASE kind \in [type : MediaTypes, size : Sizes, val : {0}]
  <2>1. kind.type \in MediaTypes /\ kind.size \in Sizes /\ kind.val = 0
    BY <1>3
  <2>2. kind.type \in Nat /\ kind.type # 1 /\ kind.size \in Nat
    BY <1>1, <2>1
  <2> QED
    BY <2>1, <2>2 DEF SET_CHUNK_SIZE
<1> QED
  BY <1>2, <1>3 DEF MessageKinds

(* The same of the chunks it sends. *)
LEMMA SendsOK ==
  ASSUME WireTypeOK, WireInv, ServerSends, StartFmts \subseteq {0, 1}
  PROVE  \E c \in Chunks, m \in Messages :
           MayWrite(Mux, c, m) /\ Write(c, m) /\ HandshakeLen <= Len(stream)
<1> USE WireAssumption
<1>1. /\ stream \in Seq(Bytes) /\ wire \in Seq(Chunks) /\ mux \in Seq(MuxStates)
      /\ Len(stream) \in Nat /\ Mux \in MuxStates
  BY DEF WireTypeOK, WireInv, Mux
<1>2. \A cs \in Csids : Mux.open[cs] \in Messages /\ MessageOK(wire, Mux.open[cs])
  BY <1>1 DEF MuxStates, WireInv, Mux, WireTypeOK
<1>3. Mux.max \in Nat
  BY <1>1 DEF MuxStates
<1>4. ASSUME NEW cs \in Csids, NEW fmt \in StartFmts, NEW kind \in MessageKinds,
             NEW delta \in Deltas, StartMessage(cs, fmt, kind, delta)
      PROVE  \E c \in Chunks, m \in Messages :
               MayWrite(Mux, c, m) /\ Write(c, m) /\ HandshakeLen <= Len(stream)
  <2> DEFINE last == Mux.open[cs]
             ts   == last.ts + delta
             at   == IF fmt = 0 THEN ts ELSE delta
             m    == [type |-> kind.type, size |-> kind.size, val |-> kind.val, fmt |-> fmt,
                      at |-> at, ts |-> ts, rem |-> kind.size, body |-> <<>>]
             c    == ChunkOf(cs, fmt, m)
  <2>1. HandshakeLen <= Len(stream) /\ last.rem = 0 /\ Write(c, m)
    BY <1>4 DEF StartMessage, HandshakeLen
  <2>2. fmt \in 0..1 /\ delta \in Nat /\ last \in Messages
    <3>1. fmt \in {0, 1}
      OBVIOUS
    <3>2. delta \in Nat
      OBVIOUS
    <3>3. last \in Messages
      BY <1>2
    <3> QED
      BY <3>1, <3>2, <3>3
  <2>3. /\ kind.type \in Nat /\ kind.size \in Nat /\ kind.val \in Nat
        /\ kind.type = SET_CHUNK_SIZE => kind.size = 4 /\ kind.val \in Nat \ {0}
    BY KindType
  <2>4. ts \in Nat /\ at \in Nat
    BY SMTT(30), <2>2 DEF Messages
  <2>5. Least(kind.size, Mux.max) \in Nat
    BY <1>3, <2>3, LeastType
  <2>6. c = [fmt |-> fmt, cs |-> cs, ts |-> at, type |-> kind.type, size |-> kind.size,
             val |-> kind.val, pay |-> Least(kind.size, Mux.max)]
    BY DEF ChunkOf
  <2>7. at = IF fmt = 0 THEN last.ts + delta ELSE delta
    OBVIOUS
  <2> HIDE DEF at
  <2>8. m \in Messages /\ c \in Chunks
    <3>1. <<>> \in Seq(Bytes) /\ fmt \in 0..2 /\ fmt \in 0..3
      BY <2>2
    <3> HIDE WireAssumption
    <3> HIDE DEF ts
    <3>2. m \in Messages
      BY <2>3, <2>4, <3>1 DEF Messages
    <3>3. c \in Chunks
      BY <2>3, <2>4, <2>5, <2>6, <3>1 DEF Chunks
    <3> QED
      BY <3>2, <3>3
  <2>9. MessageOK(wire, m)
    BY <2>3 DEF MessageOK
  <2>10. MayWrite(Mux, c, m)
    <3>1. m = [type |-> c.type, size |-> c.size, val |-> c.val, fmt |-> c.fmt, at |-> c.ts,
               ts |-> IF c.fmt = 0 THEN c.ts ELSE Mux.open[c.cs].ts + c.ts,
               rem |-> c.size, body |-> <<>>]
      BY <2>6, <2>7
    <3>2. /\ c.val = m.val /\ c.pay = Least(m.rem, Mux.max) /\ c.fmt = fmt
          /\ Mux.open[c.cs].rem = 0 /\ fmt # 2 /\ fmt # 3
      BY <2>1, <2>2, <2>6
    <3> HIDE DEF m, c
    <3> QED
      BY <2>9, <3>1, <3>2 DEF MayWrite
  <2> QED
    BY <2>1, <2>8, <2>10
<1>5. ASSUME NEW cs \in Csids, ContinueMessage(cs)
      PROVE  \E c \in Chunks, m \in Messages :
               MayWrite(Mux, c, m) /\ Write(c, m) /\ HandshakeLen <= Len(stream)
  <2> DEFINE m == Mux.open[cs]
             c == ChunkOf(cs, 3, m)
  <2>1. m.rem > 0 /\ Write(c, m)
    BY <1>5 DEF ContinueMessage
  <2>2. m \in Messages /\ MessageOK(wire, m)
    BY <1>2
  <2>3. Least(m.rem, Mux.max) \in Nat
    BY <1>3, <2>2, LeastType DEF Messages
  <2>4. c = [fmt |-> 3, cs |-> cs, ts |-> m.at, type |-> m.type, size |-> m.size,
             val |-> m.val, pay |-> Least(m.rem, Mux.max)]
    BY DEF ChunkOf
  <2>5. c \in Chunks
    BY <2>2, <2>3, <2>4 DEF Chunks, Messages
  <2>6. MayWrite(Mux, c, m)
    BY <2>1, <2>2, <2>4 DEF MayWrite
  <2>7. wire # <<>>
    <3>1. ASSUME wire = <<>>
          PROVE  Mux = mux[1]
      BY <3>1 DEF WireInv, Mux
    <3>2. mux[1].open[cs].rem = 0
      BY DEF WireInv
    <3> QED
      BY <2>1, <3>1, <3>2
  <2>8. HandshakeLen <= Len(stream)
    <3>1. Len(mux) \in 1..Len(mux) /\ Len(stream) = Mux.at
      BY <1>1, <2>7 DEF WireInv
    <3> QED
      BY <3>1 DEF WireInv, Mux
  <2> QED
    BY <2>1, <2>2, <2>5, <2>6, <2>8
<1> QED
  BY <1>4, <1>5 DEF ServerSends

(* Every step of the server keeps the invariant. *)
LEMMA ServerOK ==
  ASSUME WireTypeOK, WireInv, StartFmts \subseteq {0, 1},
         ServerS0S1 \/ ServerS2 \/ ServerSends
  PROVE  WireTypeOK' /\ WireInv' /\ Grown
<1>1. CASE ServerSends
  <2>1. PICK c \in Chunks, m \in Messages :
          MayWrite(Mux, c, m) /\ Write(c, m) /\ HandshakeLen <= Len(stream)
    BY <1>1, SendsOK
  <2> QED
    BY <2>1, WriteOK
<1> QED
  BY <1>1, HandshakeOK
=============================================================================
