--------------------------- MODULE AvToTsProofs ---------------------------
(***************************************************************************)
(* What AvDemux does to the bytes of pictures and to ADTS headers is right *)
(* for messages of any number, length and content; no sound message ends   *)
(* the thread; and what TsMux makes of the frames has the kind, the length *)
(* and the time their messages ask for.  Proved by induction over the      *)
(* steps; within a picture the facts about FlattenSeq say where its NAL    *)
(* units lie.                                                              *)
(***************************************************************************)
EXTENDS AvToTs, SequenceLemmas

(* The NAL units of a picture as they come and as they are to go. *)
WithLengths(nals)    == [i \in 1..Len(nals) |-> InFour(Len(nals[i])) \o nals[i]]
WithStartCodes(nals) == [i \in 1..Len(nals) |-> StartCode \o nals[i]]

(* The loop over the NAL units stands between two of them: before it is    *)
(* what is to be written, behind it what came.                             *)
NalInv ==
  pc = "nal" =>
    /\ msg \in Messages /\ VideoMessage(msg) /\ msg.codec_id = 7 /\ ~IsSequenceHeader(msg)
    /\ Len(taken) > 0 /\ msg = taken[Len(taken)]
    /\ Len(data) >= Len(msg.body)
    /\ msg.nals # <<>> =>
         \E j \in 0..Len(msg.nals) :
           /\ messsge_data = Ends(WithLengths(msg.nals))[j]
           /\ \A p \in 1..messsge_data : data[p] = AnnexB(msg.nals)[p]
           /\ \A p \in (messsge_data + 1)..Len(msg.body) : data[p] = msg.body[p]

(* What is kept of a sequence header that came, while the thread runs. *)
HeadOf(m) ==
  /\ video_head_data_len = Len(video_head_data) /\ video_head_data_len > 4
  /\ video_head_data_len <= 2 * MaxParameterSet + 8
  /\ SubSeq(video_head_data, 1, 4) = StartCode
  /\ OneSps(m) => video_head_data = AnnexB(FirstSets(m))

LatestHeader == LastBefore(Len(taken) + 1, SequenceHeaders)

HeadInv == pc # "done" /\ LatestHeader > 0 => HeadOf(taken[LatestHeader])

(* What is kept of an audio header that came; between two frames no bit of *)
(* a frame's length is in byte 3.                                          *)
AdtsOf(m) ==
  /\ audio_head_data_len = 7
  /\ audio_head_data.b2 = ((m.object - 1) % 4) * 64 + m.frequency * 4 + ((m.channels \div 4) % 2)
  /\ audio_head_data.b3 = (m.channels % 4) * 64

LatestConfig == LastBefore(Len(taken) + 1, AudioConfigs)

AudioInv ==
  /\ audio_head_data.b3 % 4 = 0
  /\ LatestConfig > 0 => AdtsOf(taken[LatestConfig])

(* What is true of each pack handed over. *)
Adts == [b2 : AdtsBytes, b3 : AdtsBytes, b4 : AdtsBytes, b5 : AdtsBytes]

Handed ==
  [type : {"h264", "aac", "other"}, of : Nat, picture_ms : Nat, key : BOOLEAN,
   head_len : Nat, head : Seq(Byte) \cup Adts, data_len : Nat, data : Seq(Byte)]

FromMessage(f) ==
  LET m == taken[f.of]
  IN  /\ f.type = "h264" =>
           /\ m.type = "video" /\ ~IsSequenceHeader(m) /\ f.key = m.key
           /\ f.data_len = Len(m.body) /\ f.data_len <= Len(f.data)
           /\ f.picture_ms = (m.ts + Offset(m)) % TimeMod
      /\ f.type # "h264" => m.type = "audio" /\ ~f.key /\ f.picture_ms = m.ts
      /\ f.type = "aac" => f.data_len = m.len - 1

NalsOf(f) ==
  f.type = "h264" /\ taken[f.of].nals # <<>> =>
    SubSeq(f.data, 1, f.data_len) = AnnexB(taken[f.of].nals)

HeadIn(f) ==
  LET h == LastBefore(f.of, SequenceHeaders)
  IN  /\ f.type = "h264" /\ ~f.key => f.head_len = 0
      /\ f.type = "h264" /\ f.key /\ h > 0 =>
           /\ f.head \in Seq(Byte) /\ f.head_len = Len(f.head)
           /\ f.head_len > 4 /\ f.head_len <= 2 * MaxParameterSet + 8
           /\ OneSps(taken[h]) => f.head = AnnexB(FirstSets(taken[h]))

AdtsIn(f) ==
  LET c == LastBefore(f.of, AudioConfigs)
  IN  f.type = "aac" =>
        /\ f.head_len > 0
        /\ c > 0 => /\ f.head_len = 7
                    /\ AdtsRead(f.head) =
                         [profile   |-> (taken[c].object - 1) % 4,
                          frequency |-> taken[c].frequency,
                          channels  |-> taken[c].channels % 8,
                          frame_len |-> (f.data_len + 7) % 8192]

CodeInFront(f) ==
  /\ f.type = "h264" /\ taken[f.of].nals # <<>>
  /\ f.key => LastBefore(f.of, SequenceHeaders) > 0
  => StartsWith(UnitBytes(f), StartCode)

FrameRight(f) ==
  /\ f.of \in 1..Len(taken) /\ FromMessage(f)
  /\ NalsOf(f) /\ HeadIn(f) /\ AdtsIn(f) /\ CodeInFront(f)

FramesInv == frames \in Seq(Handed) /\ \A f \in Range(frames) : FrameRight(f)

DemuxInv == TypeOK /\ NalInv /\ HeadInv /\ AudioInv /\ FramesInv

(* The times of the PES that were made. *)
Made == [pid : Mux!MediaPids, len : Nat, ms : Nat, own_ms : Nat, key : BOOLEAN, clock : Clocks]

TimesInv == last_video_picture_ms \in Nat /\ made \in Seq(Made)

(* What the muxer makes of a pack it takes.                                *)
PesOf(p, f) ==
  /\ p.pid = IF f.type = "aac" THEN Mux!AUDIO_PID ELSE Mux!VIDEO_PID
  /\ f.type = "h264" => p.key = f.key /\ p.ms = f.picture_ms
  /\ f.type = "aac" => p.key = FALSE
  /\ p.own_ms = f.picture_ms
  /\ p.len = Pack(f).es_len + Mux!PesHeaderLen(Pack(f))

Cuttable(n) == ts_fp /\ frames[n].type # "other" /\ Fits(frames[n])

CutAt(k) ==
  cut[k] \in 1..Len(frames) /\ Cuttable(cut[k]) /\ PesOf(made[k], frames[cut[k]])

(* Every pack the muxer takes is made into one PES, in their order.        *)
CutInv ==
  /\ cut \in Seq(Nat) /\ Len(cut) = Len(made)
  /\ \A k \in 1..Len(cut) : CutAt(k)
  /\ \A k \in 1..(Len(cut) - 1) : cut[k] < cut[k + 1]
  /\ \A n \in 1..Len(frames) : Cuttable(n) => \E k \in 1..Len(cut) : cut[k] = n

(* The time kept is that of the last video frame, while the thread runs,   *)
(* and audio was given a time near it.                                     *)
LastVideo(n, upto) ==
  frames[n].type = "h264" /\ \A l \in (n + 1)..upto : frames[l].type # "h264"

NearTo(a, b) == a - b < Near /\ b - a < Near

NearAt(k) ==
  made[k].pid = Mux!AUDIO_PID =>
    \A n \in 1..cut[k] :
      LastVideo(n, cut[k]) /\ frames[n].picture_ms # 0 =>
        NearTo(made[k].ms, frames[n].picture_ms)

NearInv ==
  /\ pc # "done" => \A n \in 1..Len(frames) :
       LastVideo(n, Len(frames)) => last_video_picture_ms = frames[n].picture_ms
  /\ \A k \in 1..Len(made) : NearAt(k)

-----------------------------------------------------------------------------
(* Bytes, and the numbers two and four of them hold. *)
LEMMA ByteFacts ==
  /\ ByteValues \in Nat /\ ByteValues > 1
  /\ Words \in Nat /\ Words > 3 /\ UintMod \in Nat /\ UintMod > 0
  /\ Byte \subseteq Nat /\ StartCode \in Seq(Byte) /\ Len(StartCode) = 4
  /\ \A b \in Byte : b <= ByteValues - 1
<1>1. ByteValues \in Nat /\ ByteValues > 1
  BY AvAssumption
<1>2. ByteValues * ByteValues \in Nat /\ ByteValues * ByteValues >= 2 * ByteValues
  BY <1>1
<1>3. Words \in Nat /\ Words > 3
  BY <1>1, <1>2 DEF Words
<1>4. Words * Words \in Nat /\ Words * Words >= 3 * Words
  BY <1>3
<1>5. UintMod \in Nat /\ UintMod > 0
  BY <1>3, <1>4 DEF UintMod
<1>6. 0 \in Byte /\ 1 \in Byte
  BY <1>1 DEF Byte
<1>7. StartCode \in Seq(Byte) /\ Len(StartCode) = 4
  BY <1>6 DEF StartCode
<1> QED BY <1>1, <1>3, <1>5, <1>7 DEF Byte

LEMMA TwoBytesTyped ==
  ASSUME NEW s \in Seq(Byte), NEW i \in 1..Len(s), i + 1 <= Len(s)
  PROVE  TwoBytes(s, i) \in 0..(Words - 1)
<1>1. s[i] \in Byte /\ s[i + 1] \in Byte
  OBVIOUS
<1>2. PICK x, y : x = s[i] /\ y = s[i + 1]
  OBVIOUS
<1>3. x \in Nat /\ y \in Nat /\ x <= ByteValues - 1 /\ y <= ByteValues - 1
  BY <1>1, <1>2, ByteFacts DEF Byte
<1>4. ByteValues \in Nat /\ ByteValues > 1
  BY ByteFacts
<1>5. x * ByteValues \in Nat /\ x * ByteValues <= (ByteValues - 1) * ByteValues
  BY <1>3, <1>4
<1>6. (ByteValues - 1) * ByteValues = ByteValues * ByteValues - ByteValues
  BY <1>4
<1>7. x * ByteValues + y \in 0..(ByteValues * ByteValues - 1)
  BY <1>3, <1>4, <1>5, <1>6
<1> QED BY <1>2, <1>7 DEF TwoBytes, Words

LEMMA FourBytesTyped ==
  ASSUME NEW s \in Seq(Byte), NEW i \in 1..Len(s), i + 3 <= Len(s)
  PROVE  FourBytes(s, i) \in Nat
<1>1. i + 1 <= Len(s) /\ i + 2 \in 1..Len(s) /\ (i + 2) + 1 <= Len(s)
  OBVIOUS
<1>2. TwoBytes(s, i) \in Nat /\ TwoBytes(s, i + 2) \in Nat
  BY <1>1, TwoBytesTyped
<1> QED BY SMTT(30), <1>2, ByteFacts DEF FourBytes

(* A length is read back from the bytes it is written in. *)
LEMMA InTwoRead ==
  ASSUME NEW n \in 0..(Words - 1)
  PROVE  /\ InTwo(n) \in Seq(Byte) /\ Len(InTwo(n)) = 2
         /\ InTwo(n)[1] * ByteValues + InTwo(n)[2] = n
<1>1. n \in Nat /\ n < ByteValues * ByteValues /\ ByteValues \in Nat \ {0}
  BY ByteFacts DEF Words
<1>2. /\ n \div ByteValues \in Nat /\ n % ByteValues \in 0..(ByteValues - 1)
      /\ n = ByteValues * (n \div ByteValues) + (n % ByteValues)
  BY <1>1, Division
<1>3. PICK q, r : q = n \div ByteValues /\ r = n % ByteValues
  OBVIOUS
<1>4. q \in Nat /\ r \in 0..(ByteValues - 1) /\ n = ByteValues * q + r
  BY <1>2, <1>3
<1>5. q < ByteValues
  <2>1. SUFFICES ASSUME q >= ByteValues PROVE FALSE
    BY <1>1, <1>4
  <2>2. ByteValues * q >= ByteValues * ByteValues
    BY <1>1, <1>4, <2>1
  <2> QED BY <1>1, <1>4, <2>2
<1>6. q \in Byte /\ r \in Byte
  BY <1>1, <1>4, <1>5 DEF Byte
<1>7. InTwo(n) = <<q, r>>
  BY <1>3 DEF InTwo
<1>8. ByteValues * q = q * ByteValues
  BY <1>1, <1>4
<1>9. <<q, r>> \in Seq(Byte) /\ Len(<<q, r>>) = 2 /\ <<q, r>>[1] = q /\ <<q, r>>[2] = r
  BY <1>6
<1>10. q * ByteValues + r = n
  BY <1>1, <1>4, <1>8
<1>11. InTwo(n)[1] = q /\ InTwo(n)[2] = r /\ InTwo(n) \in Seq(Byte) /\ Len(InTwo(n)) = 2
  BY <1>7, <1>9
<1> QED BY <1>10, <1>11

LEMMA InFourRead ==
  ASSUME NEW n \in 0..(UintMod - 1)
  PROVE  /\ InFour(n) \in Seq(Byte) /\ Len(InFour(n)) = 4
         /\ FourBytes(InFour(n), 1) = n
<1>1. n \in Nat /\ n < Words * Words /\ Words \in Nat \ {0}
  BY ByteFacts DEF UintMod
<1>2. /\ n \div Words \in Nat /\ n % Words \in 0..(Words - 1)
      /\ n = Words * (n \div Words) + (n % Words)
  BY <1>1, Division
<1>3. PICK q, r : q = n \div Words /\ r = n % Words
  OBVIOUS
<1>4. q \in Nat /\ r \in 0..(Words - 1) /\ n = Words * q + r
  BY <1>2, <1>3
<1>5. q \in 0..(Words - 1)
  <2>1. SUFFICES ASSUME q >= Words PROVE FALSE
    BY <1>1, <1>4
  <2>2. Words * q >= Words * Words
    BY <1>1, <1>4, <2>1
  <2> QED BY <1>1, <1>4, <2>2
<1>6. PICK a, b : a = InTwo(q) /\ b = InTwo(r)
  OBVIOUS
<1>7. /\ a \in Seq(Byte) /\ Len(a) = 2 /\ a[1] * ByteValues + a[2] = q
      /\ b \in Seq(Byte) /\ Len(b) = 2 /\ b[1] * ByteValues + b[2] = r
  BY <1>4, <1>5, <1>6, InTwoRead
<1>8. InFour(n) = a \o b
  BY <1>3, <1>6 DEF InFour
<1>9. /\ a \o b \in Seq(Byte) /\ Len(a \o b) = 4
      /\ (a \o b)[1] = a[1] /\ (a \o b)[2] = a[2] /\ (a \o b)[3] = b[1] /\ (a \o b)[4] = b[2]
  <2>1. /\ a \o b \in Seq(Byte) /\ Len(a \o b) = Len(a) + Len(b)
        /\ \A k \in 1..Len(a) : (a \o b)[k] = a[k]
        /\ \A k \in (Len(a) + 1)..(Len(a) + Len(b)) : (a \o b)[k] = b[k - Len(a)]
    BY <1>7, CatParts
  <2>2. (a \o b)[1] = a[1] /\ (a \o b)[2] = a[2]
    BY <1>7, <2>1
  <2>3. (a \o b)[3] = b[3 - Len(a)] /\ (a \o b)[4] = b[4 - Len(a)]
    BY <1>7, <2>1
  <2> QED BY <1>7, <2>1, <2>2, <2>3
<1>10. FourBytes(a \o b, 1) = q * Words + r
  BY <1>7, <1>9 DEF FourBytes, TwoBytes
<1>11. q * Words = Words * q
  BY <1>1, <1>4
<1> QED BY <1>4, <1>8, <1>9, <1>10, <1>11

-----------------------------------------------------------------------------
(* The last message of a kind. *)
LEMMA LastBeforeIs ==
  ASSUME NEW n \in Nat \ {0}, NEW kind
  PROVE  LET k == LastBefore(n, kind)
         IN  /\ k \in 0..(n - 1)
             /\ k > 0 => taken[k] \in kind
             /\ \A l \in 1..(n - 1) : taken[l] \in kind => l <= k
<1>1. PICK all : all = {k \in 1..(n - 1) : taken[k] \in kind}
  OBVIOUS
<1>2. CASE all = {}
  BY <1>1, <1>2 DEF LastBefore
<1>3. CASE all # {}
  <2>1. all \in SUBSET (1..(n - 1)) /\ n - 1 \in Nat
    BY <1>1
  <2>2. \E k \in all : \A l \in all : l <= k
    BY <2>1, <1>3, Greatest
  <2>3. LastBefore(n, kind) = CHOOSE k \in all : \A l \in all : l <= k
    BY <1>1, <1>3 DEF LastBefore
  <2>4. LastBefore(n, kind) \in all /\ \A l \in all : l <= LastBefore(n, kind)
    BY <2>2, <2>3
  <2> QED BY <1>1, <2>4
<1> QED BY <1>2, <1>3

(* It is the same as long as the messages up to there are. *)
LEMMA LastBeforeKept ==
  ASSUME NEW n \in Nat \ {0}, NEW kind, \A k \in 1..(n - 1) : taken'[k] = taken[k]
  PROVE  LastBefore(n, kind)' = LastBefore(n, kind)
<1>1. PICK all : all = {k \in 1..(n - 1) : taken[k] \in kind}
  OBVIOUS
<1>2. all = {k \in 1..(n - 1) : taken'[k] \in kind}
  BY <1>1
<1>3. LastBefore(n, kind) = IF all = {} THEN 0 ELSE CHOOSE k \in all : \A l \in all : l <= k
  BY <1>1 DEF LastBefore
<1>4. LastBefore(n, kind)' = IF all = {} THEN 0 ELSE CHOOSE k \in all : \A l \in all : l <= k
  BY <1>2 DEF LastBefore
<1> QED BY <1>3, <1>4

(* One more message is the last one of its kind. *)
LEMMA LastBeforeAppended ==
  ASSUME taken \in Seq(Messages), NEW m \in Messages, taken' = Append(taken, m), NEW kind
  PROVE  LastBefore(Len(taken) + 1, kind)' =
           IF m \in kind THEN Len(taken) + 1 ELSE LastBefore(Len(taken) + 1, kind)
<1>1. PICK n, old, new : /\ n = Len(taken) + 1
                        /\ old = {k \in 1..((Len(taken) + 1) - 1) : taken[k] \in kind}
                        /\ new = {k \in 1..((Len(taken') + 1) - 1) : taken'[k] \in kind}
  OBVIOUS
<1>2. /\ n \in Nat /\ n > 0 /\ taken'[n] = m
      /\ \A k \in 1..(n - 1) : taken'[k] = taken[k]
      /\ \A k : k \in old <=> k \in 1..(n - 1) /\ taken[k] \in kind
      /\ \A k : k \in new <=> k \in 1..n /\ taken'[k] \in kind
  BY <1>1
<1>3. LastBefore(Len(taken) + 1, kind)' =
        IF new = {} THEN 0 ELSE CHOOSE k \in new : \A l \in new : l <= k
  BY <1>1 DEF LastBefore
<1>4. LastBefore(Len(taken) + 1, kind) =
        IF old = {} THEN 0 ELSE CHOOSE k \in old : \A l \in old : l <= k
  BY <1>1 DEF LastBefore
<1>5. CASE m \in kind
  <2>1. n \in new /\ \A l \in new : l \in Int /\ l <= n
    <3>1. n \in 1..n /\ \A l \in 1..n : l \in Int /\ l <= n
      BY <1>2
    <3> QED BY <1>2, <1>5, <3>1
  <2>2. \A k \in new : (\A l \in new : l <= k) => k = n
    BY <1>2, <2>1
  <2>3. (CHOOSE k \in new : \A l \in new : l <= k) = n
    BY <2>1, <2>2
  <2> QED BY <1>1, <1>3, <1>5, <2>1, <2>3
<1>6. CASE m \notin kind
  <2>1. \A k : k \in 1..n <=> k \in 1..(n - 1) \/ k = n
    BY <1>2
  <2>2. \A k : k \in new <=> k \in old
    BY <1>2, <1>6, <2>1
  <2>3. new = old
    BY <2>2
  <2> QED BY <1>3, <1>4, <1>6, <2>3
<1> QED BY <1>5, <1>6

-----------------------------------------------------------------------------
(* What the server may send, and the kinds of it. *)
LEMMA MessageKinds ==
  ASSUME NEW m \in Messages
  PROVE  /\ m.type = "video" => VideoMessage(m)
         /\ m.type = "audio" => AudioMessage(m)
         /\ m \in SequenceHeaders <=> IsSequenceHeader(m)
         /\ m \in AudioConfigs <=> IsAudioConfig(m)
<1>1. VideoMessage(m) \/ AudioMessage(m)
  BY AvAssumption
<1> QED BY <1>1 DEF VideoMessage, AudioMessage, SequenceHeaders, AudioConfigs

-----------------------------------------------------------------------------
(* Where the NAL units of a picture lie. *)
LEMMA PartsTyped ==
  ASSUME NEW nals \in Seq(Seq(Byte))
  PROVE  /\ Len(nals) \in Nat
         /\ \A i \in 1..Len(nals) : nals[i] \in Seq(Byte)
         /\ \A i \in 1..Len(nals) : Len(nals[i]) \in Nat
         /\ WithLengths(nals) \in Seq(Seq(Nat)) /\ Len(WithLengths(nals)) = Len(nals)
         /\ WithStartCodes(nals) \in Seq(Seq(Byte)) /\ Len(WithStartCodes(nals)) = Len(nals)
         /\ \A i \in 1..Len(nals) : WithLengths(nals)[i] = InFour(Len(nals[i])) \o nals[i]
         /\ \A i \in 1..Len(nals) : WithStartCodes(nals)[i] = StartCode \o nals[i]
         /\ \A i \in 1..Len(nals) : Len(WithLengths(nals)[i]) = 4 + Len(nals[i])
         /\ \A i \in 1..Len(nals) : Len(WithStartCodes(nals)[i]) = 4 + Len(nals[i])
<1>1. ASSUME NEW n \in Nat PROVE InTwo(n) \in Seq(Nat) /\ Len(InTwo(n)) = 2
  <2>1. ByteValues \in Nat \ {0}
    BY ByteFacts
  <2>2. n \div ByteValues \in Nat /\ n % ByteValues \in 0..(ByteValues - 1)
    BY <2>1, Division
  <2>3. PICK q, r : q = n \div ByteValues /\ r = n % ByteValues
    OBVIOUS
  <2>4. q \in Nat /\ r \in Nat
    BY <2>1, <2>2, <2>3
  <2>5. <<q, r>> \in Seq(Nat) /\ Len(<<q, r>>) = 2
    BY <2>4
  <2>6. InTwo(n) = <<q, r>>
    BY <2>3 DEF InTwo
  <2> QED BY <2>5, <2>6
<1>2. ASSUME NEW n \in Nat PROVE InFour(n) \in Seq(Nat) /\ Len(InFour(n)) = 4
  <2>1. Words \in Nat \ {0}
    BY ByteFacts
  <2>2. n \div Words \in Nat /\ n % Words \in 0..(Words - 1)
    BY <2>1, Division
  <2>3. n % Words \in Nat
    BY <2>1, <2>2
  <2>4. PICK a, b : a = InTwo(n \div Words) /\ b = InTwo(n % Words)
    OBVIOUS
  <2>5. InFour(n) = a \o b
    BY <2>4 DEF InFour
  <2>6. a \in Seq(Nat) /\ Len(a) = 2 /\ b \in Seq(Nat) /\ Len(b) = 2
    BY <1>1, <2>2, <2>3, <2>4
  <2>7. a \o b \in Seq(Nat) /\ Len(a \o b) = Len(a) + Len(b)
    BY <2>6, CatParts
  <2>8. Len(a \o b) = 4
    BY <2>6, <2>7
  <2> QED BY <2>5, <2>7, <2>8
<1>3. Len(nals) \in Nat /\ \A i \in 1..Len(nals) : nals[i] \in Seq(Byte)
  OBVIOUS
<1>4. Byte \subseteq Nat /\ StartCode \in Seq(Byte) /\ Len(StartCode) = 4
  BY ByteFacts
<1>5. ASSUME NEW n \in Seq(Byte)
      PROVE  /\ n \in Seq(Nat) /\ Len(n) \in Nat
             /\ InFour(Len(n)) \o n \in Seq(Nat) /\ Len(InFour(Len(n)) \o n) = 4 + Len(n)
             /\ StartCode \o n \in Seq(Byte) /\ Len(StartCode \o n) = 4 + Len(n)
  <2>1. n \in Seq(Nat) /\ Len(n) \in Nat
    BY <1>4, SequenceOf
  <2>2. PICK f : f = InFour(Len(n))
    OBVIOUS
  <2>3. f \in Seq(Nat) /\ Len(f) = 4
    BY <1>2, <2>1, <2>2
  <2>4. f \o n \in Seq(Nat) /\ Len(f \o n) = Len(f) + Len(n)
    BY <2>1, <2>3, CatParts
  <2>5. StartCode \o n \in Seq(Byte) /\ Len(StartCode \o n) = Len(StartCode) + Len(n)
    BY <1>4, CatParts
  <2> QED BY <1>4, <2>1, <2>2, <2>3, <2>4, <2>5
<1>6. \A i \in 1..Len(nals) : Len(nals[i]) \in Nat
  BY <1>3, <1>5
<1>7. WithLengths(nals) = [i \in 1..Len(nals) |-> InFour(Len(nals[i])) \o nals[i]]
  BY DEF WithLengths
<1>8. WithStartCodes(nals) = [i \in 1..Len(nals) |-> StartCode \o nals[i]]
  BY DEF WithStartCodes
<1>9. /\ \A i \in 1..Len(nals) : WithLengths(nals)[i] = InFour(Len(nals[i])) \o nals[i]
      /\ \A i \in 1..Len(nals) : WithStartCodes(nals)[i] = StartCode \o nals[i]
  BY <1>7, <1>8
<1>10. /\ \A i \in 1..Len(nals) : WithLengths(nals)[i] \in Seq(Nat)
       /\ \A i \in 1..Len(nals) : Len(WithLengths(nals)[i]) = 4 + Len(nals[i])
       /\ \A i \in 1..Len(nals) : WithStartCodes(nals)[i] \in Seq(Byte)
       /\ \A i \in 1..Len(nals) : Len(WithStartCodes(nals)[i]) = 4 + Len(nals[i])
  BY <1>3, <1>5, <1>9
<1>11. WithLengths(nals) \in Seq(Seq(Nat)) /\ Len(WithLengths(nals)) = Len(nals)
  BY <1>3, <1>7, <1>10, SequenceFrom
<1>12. WithStartCodes(nals) \in Seq(Seq(Byte)) /\ Len(WithStartCodes(nals)) = Len(nals)
  BY <1>3, <1>8, <1>10, SequenceFrom
<1> QED BY <1>3, <1>6, <1>9, <1>10, <1>11, <1>12

(* Four bytes, and what is behind them. *)
LEMMA BehindFour ==
  ASSUME NEW s \in Seq(Byte), NEW t \in Seq(Byte), Len(s) = 4
  PROVE  /\ \A k \in 1..4 : (s \o t)[k] = s[k]
         /\ \A k \in 5..(4 + Len(t)) : (s \o t)[k] = t[k - 4]
<1>1. /\ \A k \in 1..Len(s) : (s \o t)[k] = s[k]
      /\ \A k \in (Len(s) + 1)..(Len(s) + Len(t)) : (s \o t)[k] = t[k - Len(s)]
  BY CatParts
<1>2. ASSUME NEW k \in 5..(4 + Len(t)) PROVE (s \o t)[k] = t[k - 4]
  <2>1. k \in (Len(s) + 1)..(Len(s) + Len(t)) /\ k - Len(s) = k - 4
    OBVIOUS
  <2>2. (s \o t)[k] = t[k - Len(s)]
    BY <1>1, <2>1
  <2> QED BY <2>1, <2>2
<1> QED BY <1>1, <1>2

(* A byte of a picture whose NAL unit starts behind byte x, as it is to go. *)
Converted(body, x, p) == IF p - x \in 1..4 THEN StartCode[p - x] ELSE body[p]

(* Both forms have the units in the same places, and differ only in the    *)
(* four bytes in front of each, which hold its length as long as the whole *)
(* is less than an unsigned int counts to.                                 *)
LEMMA PictureParts ==
  ASSUME NEW nals \in Seq(Seq(Byte)), nals # <<>>,
         NEW body \in Seq(Byte), body = Avcc(nals), Len(body) < UintMod,
         NEW e, e = Ends(WithLengths(nals))
  PROVE  /\ Len(nals) \in Nat \ {0}
         /\ e[0] = 0
         /\ \A i \in 0..Len(nals) : e[i] \in Nat /\ e[i] <= Len(body)
         /\ e[Len(nals)] = Len(body)
         /\ AnnexB(nals) \in Seq(Byte) /\ Len(AnnexB(nals)) = Len(body)
         /\ \A i \in 1..Len(nals) : Len(nals[i]) \in Nat /\ e[i] = e[i - 1] + 4 + Len(nals[i])
         /\ \A i \in 1..Len(nals) : FourBytes(body, e[i - 1] + 1) = Len(nals[i])
         /\ \A i \in 1..Len(nals) : \A p \in (e[i - 1] + 1)..e[i] :
              AnnexB(nals)[p] = Converted(body, e[i - 1], p)
<1>1. PICK s, t, b : s = WithLengths(nals) /\ t = WithStartCodes(nals) /\ b = AnnexB(nals)
  OBVIOUS
<1>2. Byte \subseteq Nat /\ StartCode \in Seq(Byte) /\ Len(StartCode) = 4 /\ UintMod \in Nat
  BY ByteFacts
<1>3. PICK n : n = Len(nals)
  OBVIOUS
<1>4. n \in Nat \ {0}
  BY <1>3
<1>5. /\ \A i \in 1..n : nals[i] \in Seq(Byte)
      /\ \A i \in 1..n : Len(nals[i]) \in Nat
      /\ s \in Seq(Seq(Nat)) /\ Len(s) = n
      /\ t \in Seq(Seq(Byte)) /\ Len(t) = n
  BY <1>1, <1>3, PartsTyped
<1>6. /\ \A i \in 1..n : s[i] = InFour(Len(nals[i])) \o nals[i]
      /\ \A i \in 1..n : t[i] = StartCode \o nals[i]
      /\ \A i \in 1..n : Len(s[i]) = 4 + Len(nals[i])
      /\ \A i \in 1..n : Len(t[i]) = 4 + Len(nals[i])
  BY <1>1, <1>3, PartsTyped
<1>7. body = FlattenSeq(s) /\ b = FlattenSeq(t)
  BY <1>1 DEF Avcc, AnnexB, WithLengths, WithStartCodes
<1>8. Len(s) # 0 /\ Len(t) # 0
  BY <1>4, <1>5
<1>9. /\ \A i \in 0..n : e[i] \in Nat
      /\ e[0] = 0
      /\ \A i \in 1..n : e[i] = e[i - 1] + Len(s[i])
  <2>1. /\ \A i \in 0..Len(s) : Ends(s)[i] \in Nat
        /\ Ends(s)[0] = 0
        /\ \A i \in 1..Len(s) : Ends(s)[i] = Ends(s)[i - 1] + Len(s[i])
    BY <1>5, <1>8, EndsStep
  <2> QED BY <1>1, <1>5, <2>1
<1>10. \A i \in 0..n : e[i] <= e[n]
  <2>1. \A j \in 0..Len(s) : \A i \in 0..j : Ends(s)[i] <= Ends(s)[j]
    BY <1>5, <1>8, EndsGrow
  <2>2. n \in 0..n
    BY <1>4
  <2> QED BY <1>1, <1>5, <2>1, <2>2
<1>11. /\ Len(body) = e[n]
       /\ \A i \in 1..n : \A p \in (e[i - 1] + 1)..e[i] : body[p] = s[i][p - e[i - 1]]
  <2>1. /\ Len(FlattenSeq(s)) = Ends(s)[Len(s)]
        /\ \A i \in 1..Len(s) : \A p \in (Ends(s)[i - 1] + 1)..Ends(s)[i] :
             FlattenSeq(s)[p] = s[i][p - Ends(s)[i - 1]]
    BY <1>5, <1>8, FlattenParts
  <2> QED BY <1>1, <1>5, <1>7, <2>1
<1>12. \A i \in 0..n : Ends(t)[i] = e[i]
  <2>1. /\ \A i \in 0..n : Ends(t)[i] \in Nat
        /\ Ends(t)[0] = 0
        /\ \A i \in 1..n : Ends(t)[i] = Ends(t)[i - 1] + Len(t[i])
    <3>1. /\ \A i \in 0..Len(t) : Ends(t)[i] \in Nat
          /\ Ends(t)[0] = 0
          /\ \A i \in 1..Len(t) : Ends(t)[i] = Ends(t)[i - 1] + Len(t[i])
      BY <1>5, <1>8, EndsStep
    <3> QED BY <1>5, <3>1
  <2> DEFINE S == {i \in Nat : i <= n => Ends(t)[i] = e[i]}
  <2>2. 0 \in S
    BY <1>9, <2>1
  <2>3. ASSUME NEW i \in Nat, i \in S PROVE i + 1 \in S
    <3> SUFFICES ASSUME i + 1 <= n PROVE Ends(t)[i + 1] = e[i + 1]
      OBVIOUS
    <3>1. i + 1 \in 1..n /\ (i + 1) - 1 = i /\ Ends(t)[i] = e[i]
      BY <1>4, <2>3
    <3>2. Ends(t)[i + 1] = Ends(t)[i] + Len(t[i + 1])
      BY <2>1, <3>1
    <3>3. e[i + 1] = e[i] + Len(s[i + 1])
      BY <1>9, <3>1
    <3>4. Len(s[i + 1]) = Len(t[i + 1])
      BY <1>6, <3>1
    <3> QED BY <3>1, <3>2, <3>3, <3>4
  <2>4. Nat \subseteq S
    <3> HIDE DEF S
    <3> QED BY <2>2, <2>3, SetInduction
  <2> QED BY <1>4, <2>4
<1>13. /\ b \in Seq(Byte) /\ Len(b) = e[n]
       /\ \A i \in 1..n : \A p \in (e[i - 1] + 1)..e[i] : b[p] = t[i][p - e[i - 1]]
  <2>1. /\ FlattenSeq(t) \in Seq(Byte)
        /\ Len(FlattenSeq(t)) = Ends(t)[Len(t)]
        /\ \A i \in 1..Len(t) : \A p \in (Ends(t)[i - 1] + 1)..Ends(t)[i] :
             FlattenSeq(t)[p] = t[i][p - Ends(t)[i - 1]]
    BY <1>5, <1>8, FlattenParts
  <2>2. b \in Seq(Byte) /\ Len(b) = Ends(t)[n]
    BY <1>5, <1>7, <2>1
  <2>3. \A i \in 1..n : \A p \in (Ends(t)[i - 1] + 1)..Ends(t)[i] : b[p] = t[i][p - Ends(t)[i - 1]]
    BY <1>5, <1>7, <2>1
  <2>4. n \in 0..n /\ \A i \in 1..n : i \in 0..n /\ i - 1 \in 0..n
    BY <1>4
  <2>5. Ends(t)[n] = e[n] /\ \A i \in 1..n : Ends(t)[i] = e[i] /\ Ends(t)[i - 1] = e[i - 1]
    BY <1>12, <2>4
  <2>6. ASSUME NEW i \in 1..n
        PROVE  \A p \in (e[i - 1] + 1)..e[i] : b[p] = t[i][p - e[i - 1]]
    BY <2>3, <2>5
  <2> QED BY <2>2, <2>5, <2>6
<1>14. ASSUME NEW i \in 1..n
       PROVE  /\ Len(nals[i]) \in Nat /\ e[i] = e[i - 1] + 4 + Len(nals[i])
              /\ FourBytes(body, e[i - 1] + 1) = Len(nals[i])
              /\ \A p \in (e[i - 1] + 1)..e[i] : b[p] = Converted(body, e[i - 1], p)
  <2>1. i \in 0..n /\ i - 1 \in 0..n
    BY <1>4
  <2>2. PICK nal, f, x, y : nal = nals[i] /\ f = InFour(Len(nal)) /\ x = e[i - 1] /\ y = e[i]
    OBVIOUS
  <2>3. nal \in Seq(Byte) /\ Len(nal) \in Nat
    BY <1>5, <2>2
  <2>4. s[i] = f \o nal /\ t[i] = StartCode \o nal /\ Len(s[i]) = 4 + Len(nal)
    BY <1>6, <2>2
  <2>5. x \in Nat /\ y \in Nat
    BY <1>9, <2>1, <2>2
  <2>6. y = x + 4 + Len(nal)
    <3>1. y = x + Len(s[i])
      BY <1>9, <2>2
    <3> QED BY <2>3, <2>4, <2>5, <3>1
  <2>7. y <= Len(body)
    BY <1>10, <1>11, <2>1, <2>2
  <2>8. Len(nal) \in 0..(UintMod - 1)
    <3>1. Len(body) \in Nat
      OBVIOUS
    <3> QED BY <1>2, <2>3, <2>5, <2>6, <2>7, <3>1
  <2>9. f \in Seq(Byte) /\ Len(f) = 4 /\ FourBytes(f, 1) = Len(nal)
    BY <2>2, <2>8, InFourRead
  <2>11. /\ \A k \in 1..4 : (f \o nal)[k] = f[k]
         /\ \A k \in 5..(4 + Len(nal)) : (f \o nal)[k] = nal[k - 4]
    BY <2>3, <2>9, BehindFour
  <2>13. /\ \A k \in 1..4 : (StartCode \o nal)[k] = StartCode[k]
         /\ \A k \in 5..(4 + Len(nal)) : (StartCode \o nal)[k] = nal[k - 4]
    BY <1>2, <2>3, BehindFour
  <2>14. \A p \in (x + 1)..y : body[p] = (f \o nal)[p - x]
    BY <1>11, <2>2, <2>4
  <2>15. \A p \in (x + 1)..y : b[p] = (StartCode \o nal)[p - x]
    BY <1>13, <2>2, <2>4
  <2>16. FourBytes(body, x + 1) = Len(nal)
    <3>1. \A k \in 1..4 : x + k \in (x + 1)..y /\ (x + k) - x = k
      BY <2>3, <2>5, <2>6
    <3>2. \A k \in 1..4 : body[x + k] = f[k]
      BY <2>11, <2>14, <3>1
    <3>3. body[x + 1] = f[1] /\ body[x + 2] = f[2] /\ body[x + 3] = f[3] /\ body[x + 4] = f[4]
      BY <3>2
    <3>4. /\ (x + 1) + 1 = x + 2 /\ (x + 1) + 2 = x + 3 /\ (x + 3) + 1 = x + 4
          /\ 1 + 1 = 2 /\ 1 + 2 = 3 /\ 3 + 1 = 4
      BY <2>5
    <3>5. FourBytes(body, x + 1) = FourBytes(f, 1)
      BY <3>3, <3>4 DEF FourBytes, TwoBytes
    <3> QED BY <2>9, <3>5
  <2>17. ASSUME NEW p \in (x + 1)..y
         PROVE  b[p] = Converted(body, x, p)
    <3>1. p \in Int /\ p - x \in 1..(4 + Len(nal))
      BY <2>3, <2>5, <2>6
    <3>2. CASE p - x \in 1..4
      BY <2>13, <2>15, <3>2 DEF Converted
    <3>3. CASE p - x \notin 1..4
      <4>1. p - x \in 5..(4 + Len(nal))
        BY <2>3, <3>1, <3>3
      <4>2. body[p] = nal[(p - x) - 4] /\ b[p] = nal[(p - x) - 4]
        BY <2>11, <2>13, <2>14, <2>15, <4>1
      <4> QED BY <3>3, <4>2 DEF Converted
    <3> QED BY <3>2, <3>3
  <2>18. e[i] = e[i - 1] + 4 + Len(nals[i])
    BY <2>2, <2>6
  <2> QED BY <2>2, <2>3, <2>16, <2>17, <2>18
<1>15. \A i \in 0..n : e[i] \in Nat /\ e[i] <= Len(body)
  BY <1>9, <1>10, <1>11
<1> HIDE DEF FourBytes
<1> QED BY <1>1, <1>3, <1>4, <1>9, <1>11, <1>13, <1>14, <1>15

-----------------------------------------------------------------------------
(* One more message leaves what is known of those before it as it is.      *)
LEMMA LatestIs ==
  ASSUME taken \in Seq(Messages)
  PROVE  /\ LatestHeader \in 0..Len(taken)
         /\ LatestHeader > 0 => IsSequenceHeader(taken[LatestHeader])
         /\ LatestConfig \in 0..Len(taken)
         /\ LatestConfig > 0 => IsAudioConfig(taken[LatestConfig])
<1>1. PICK n : n = Len(taken) + 1
  OBVIOUS
<1>2. n \in Nat \ {0} /\ n - 1 = Len(taken)
  BY <1>1
<1>3. /\ LastBefore(n, SequenceHeaders) \in 0..(n - 1)
      /\ LastBefore(n, SequenceHeaders) > 0 =>
           taken[LastBefore(n, SequenceHeaders)] \in SequenceHeaders
  BY <1>2, LastBeforeIs
<1>4. /\ LastBefore(n, AudioConfigs) \in 0..(n - 1)
      /\ LastBefore(n, AudioConfigs) > 0 =>
           taken[LastBefore(n, AudioConfigs)] \in AudioConfigs
  BY <1>2, LastBeforeIs
<1>5. LatestHeader = LastBefore(n, SequenceHeaders) /\ LatestConfig = LastBefore(n, AudioConfigs)
  BY <1>1 DEF LatestHeader, LatestConfig
<1> QED BY <1>2, <1>3, <1>4, <1>5 DEF SequenceHeaders, AudioConfigs

LEMMA LatestAppended ==
  ASSUME taken \in Seq(Messages), NEW m \in Messages, taken' = Append(taken, m)
  PROVE  /\ LatestHeader' = IF IsSequenceHeader(m) THEN Len(taken) + 1 ELSE LatestHeader
         /\ LatestConfig' = IF IsAudioConfig(m) THEN Len(taken) + 1 ELSE LatestConfig
<1>1. LatestHeader' = IF m \in SequenceHeaders THEN Len(taken) + 1 ELSE LatestHeader
  BY LastBeforeAppended DEF LatestHeader
<1>2. LatestConfig' = IF m \in AudioConfigs THEN Len(taken) + 1 ELSE LatestConfig
  BY LastBeforeAppended DEF LatestConfig
<1> QED BY <1>1, <1>2, MessageKinds

LEMMA FrameKept ==
  ASSUME NEW f, FrameRight(f), Len(taken) \in Nat,
         Len(taken) <= Len(taken'), Len(taken') \in Nat,
         \A k \in 1..Len(taken) : taken'[k] = taken[k]
  PROVE  FrameRight(f)'
<1>1. f.of \in 1..Len(taken) /\ f.of \in 1..Len(taken') /\ f.of \in Nat \ {0}
  BY DEF FrameRight
<1>2. taken'[f.of] = taken[f.of]
  BY <1>1
<1>3. PICK n : n = f.of
  OBVIOUS
<1>4. n \in Nat \ {0} /\ \A k \in 1..(n - 1) : k \in 1..Len(taken) /\ taken'[k] = taken[k]
  BY <1>1, <1>3
<1>5. /\ LastBefore(n, SequenceHeaders)' = LastBefore(n, SequenceHeaders)
      /\ LastBefore(n, AudioConfigs)' = LastBefore(n, AudioConfigs)
  BY <1>4, LastBeforeKept
<1>6. /\ LastBefore(n, SequenceHeaders) > 0 =>
           taken'[LastBefore(n, SequenceHeaders)] = taken[LastBefore(n, SequenceHeaders)]
      /\ LastBefore(n, AudioConfigs) > 0 =>
           taken'[LastBefore(n, AudioConfigs)] = taken[LastBefore(n, AudioConfigs)]
  <2>1. /\ LastBefore(n, SequenceHeaders) \in 0..(n - 1)
        /\ LastBefore(n, AudioConfigs) \in 0..(n - 1)
    BY <1>4, LastBeforeIs
  <2> QED BY <1>4, <2>1
<1>7. PICK h, c : h = LastBefore(n, SequenceHeaders) /\ c = LastBefore(n, AudioConfigs)
  OBVIOUS
<1>8. NalsOf(f)'
  BY <1>2 DEF FrameRight, NalsOf
<1>9. HeadIn(f)'
  BY <1>3, <1>5, <1>6 DEF FrameRight, HeadIn
<1>10. AdtsIn(f)'
  BY <1>3, <1>5, <1>6 DEF FrameRight, AdtsIn
<1>11. CodeInFront(f)'
  BY <1>2, <1>3, <1>5 DEF FrameRight, CodeInFront
<1>12. FromMessage(f)'
  BY <1>2 DEF FrameRight, FromMessage
<1> QED BY <1>1, <1>8, <1>9, <1>10, <1>11, <1>12 DEF FrameRight

(* What a step keeps that takes a message and hands nothing over.          *)
LEMMA TakeFacts ==
  ASSUME TypeOK, NEW m \in Messages, Take(m)
  PROVE  /\ pc = "idle"
         /\ taken' = Append(taken, m) /\ taken' \in Seq(Messages)
         /\ Len(taken) \in Nat /\ Len(taken') = Len(taken) + 1 /\ Len(taken') <= MaxMessages
         /\ taken'[Len(taken) + 1] = m
         /\ \A k \in 1..Len(taken) : taken'[k] = taken[k]
<1>1. taken \in Seq(Messages) /\ MaxMessages \in Nat
  BY AvAssumption DEF TypeOK
<1> QED BY <1>1 DEF Take

LEMMA TakeKeeps ==
  ASSUME DemuxInv, NEW m \in Messages, Take(m)
  PROVE  /\ \A f \in Range(frames) : FrameRight(f)'
         /\ ~IsSequenceHeader(m) /\ UNCHANGED <<video_head_data, video_head_data_len>> => HeadInv'
         /\ ~IsAudioConfig(m) /\ UNCHANGED <<audio_head_data, audio_head_data_len>> => AudioInv'
<1>1. TypeOK /\ HeadInv /\ AudioInv /\ \A f \in Range(frames) : FrameRight(f)
  BY DEF DemuxInv, FramesInv
<1>2. /\ pc = "idle" /\ taken' = Append(taken, m)
      /\ Len(taken) \in Nat /\ Len(taken') = Len(taken) + 1
      /\ \A k \in 1..Len(taken) : taken'[k] = taken[k]
  BY <1>1, TakeFacts
<1>3. taken \in Seq(Messages)
  BY <1>1 DEF TypeOK
<1>4. /\ LatestHeader \in 0..Len(taken) /\ LatestConfig \in 0..Len(taken)
      /\ LatestHeader' = IF IsSequenceHeader(m) THEN Len(taken) + 1 ELSE LatestHeader
      /\ LatestConfig' = IF IsAudioConfig(m) THEN Len(taken) + 1 ELSE LatestConfig
  BY <1>2, <1>3, LatestIs, LatestAppended
<1>5. \A f \in Range(frames) : FrameRight(f)'
  BY <1>1, <1>2, FrameKept
<1>6. ASSUME ~IsSequenceHeader(m), UNCHANGED <<video_head_data, video_head_data_len>>
      PROVE  HeadInv'
  <2>1. LatestHeader > 0 => HeadOf(taken[LatestHeader])
    BY <1>1, <1>2 DEF HeadInv
  <2>2. LatestHeader > 0 => taken'[LatestHeader] = taken[LatestHeader]
    BY <1>2, <1>4
  <2>3. LatestHeader' = LatestHeader
    BY <1>4, <1>6
  <2> QED BY <1>6, <2>1, <2>2, <2>3 DEF HeadInv, HeadOf, OneSps, FirstSets
<1>7. ASSUME ~IsAudioConfig(m), UNCHANGED <<audio_head_data, audio_head_data_len>>
      PROVE  AudioInv'
  <2>1. LatestConfig > 0 => AdtsOf(taken[LatestConfig])
    BY <1>1 DEF AudioInv
  <2>2. LatestConfig > 0 => taken'[LatestConfig] = taken[LatestConfig]
    BY <1>2, <1>4
  <2>3. LatestConfig' = LatestConfig
    BY <1>4, <1>7
  <2>4. audio_head_data.b3 % 4 = 0
    BY <1>1 DEF AudioInv
  <2> QED BY <1>7, <2>1, <2>2, <2>3, <2>4 DEF AudioInv, AdtsOf
<1> QED BY <1>5, <1>6, <1>7

-----------------------------------------------------------------------------
(* The steps that take a message and neither convert it nor hand it over.  *)
LEMMA VideoRefusedKeeps ==
  ASSUME DemuxInv, NEW m \in Messages, VideoRefused(m)
  PROVE  DemuxInv'
<1>1. TypeOK /\ frames \in Seq(Handed) /\ Take(m) /\ pc' = "done" /\ m.type = "video"
  BY DEF DemuxInv, FramesInv, VideoRefused
<1>2. UNCHANGED <<pictureVars, headVars, frames>>
  BY DEF VideoRefused
<1>3. /\ taken' \in Seq(Messages) /\ Len(taken) \in Nat /\ Len(taken') = Len(taken) + 1
      /\ Len(taken') <= MaxMessages
  BY <1>1, TakeFacts
<1>4. ~IsAudioConfig(m)
  BY <1>1 DEF IsAudioConfig
<1>5. AudioInv' /\ \A f \in Range(frames) : FrameRight(f)'
  BY <1>1, <1>2, <1>4, TakeKeeps DEF headVars
<1>6. TypeOK'
  BY <1>1, <1>2, <1>3 DEF TypeOK, pictureVars, headVars
<1>7. NalInv' /\ HeadInv'
  BY <1>1 DEF NalInv, HeadInv
<1> QED BY <1>1, <1>2, <1>5, <1>6, <1>7 DEF DemuxInv, FramesInv

LEMMA AudioSkippedKeeps ==
  ASSUME DemuxInv, NEW m \in Messages, AudioSkipped(m)
  PROVE  DemuxInv'
<1>1. TypeOK /\ frames \in Seq(Handed) /\ Take(m) /\ m.type = "audio" /\ ~m.config
  BY DEF DemuxInv, FramesInv, AudioSkipped
<1>2. UNCHANGED <<pc, pictureVars, headVars, frames>>
  BY DEF AudioSkipped
<1>3. /\ taken' \in Seq(Messages) /\ Len(taken) \in Nat /\ Len(taken') = Len(taken) + 1
      /\ Len(taken') <= MaxMessages /\ pc = "idle"
  BY <1>1, TakeFacts
<1>4. ~IsAudioConfig(m) /\ ~IsSequenceHeader(m)
  BY <1>1 DEF IsAudioConfig, IsSequenceHeader
<1>5. HeadInv' /\ AudioInv' /\ \A f \in Range(frames) : FrameRight(f)'
  BY <1>1, <1>2, <1>4, TakeKeeps DEF headVars
<1>6. TypeOK'
  BY <1>1, <1>2, <1>3 DEF TypeOK, pictureVars, headVars
<1>7. NalInv'
  BY <1>2, <1>3 DEF NalInv
<1> QED BY <1>1, <1>2, <1>5, <1>6, <1>7 DEF DemuxInv, FramesInv

LEMMA AudioConfigKeeps ==
  ASSUME DemuxInv, NEW m \in Messages, AudioConfig(m)
  PROVE  DemuxInv'
<1>1. TypeOK /\ frames \in Seq(Handed) /\ Take(m) /\ IsAudioConfig(m)
  BY DEF DemuxInv, FramesInv, AudioConfig, IsAudioConfig
<1>2. UNCHANGED <<pc, pictureVars, video_head_data, video_head_data_len, frames>>
  BY DEF AudioConfig
<1>3. /\ taken' = Append(taken, m) /\ taken' \in Seq(Messages)
      /\ Len(taken) \in Nat /\ Len(taken') = Len(taken) + 1
      /\ Len(taken') <= MaxMessages /\ pc = "idle" /\ taken'[Len(taken) + 1] = m
  BY <1>1, TakeFacts
<1>4. ~IsSequenceHeader(m)
  BY <1>1 DEF IsAudioConfig, IsSequenceHeader
<1>5. HeadInv' /\ \A f \in Range(frames) : FrameRight(f)'
  BY <1>1, <1>2, <1>4, TakeKeeps
<1>6. m.object \in Nat /\ m.frequency \in 0..15 /\ m.channels \in 0..15
  BY <1>1, MessageKinds DEF AudioMessage, IsAudioConfig
<1>7. audio_head_data_len' = 7 /\ audio_head_data' =
        [b2 |-> ((m.object - 1) % 4) * 64 + m.frequency * 4 + ((m.channels \div 4) % 2),
         b3 |-> (m.channels % 4) * 64, b4 |-> 0, b5 |-> 0]
  BY DEF AudioConfig
<1>8. PICK x, y : /\ x = ((m.object - 1) % 4) * 64 + m.frequency * 4 + ((m.channels \div 4) % 2)
                  /\ y = (m.channels % 4) * 64
  OBVIOUS
<1>9. x \in 0..255 /\ y \in 0..255 /\ y % 4 = 0
  <2>1. (m.object - 1) % 4 \in 0..3 /\ (m.channels \div 4) % 2 \in 0..1 /\ m.channels % 4 \in 0..3
    BY <1>6
  <2>2. PICK a, b, c : a = (m.object - 1) % 4 /\ b = (m.channels \div 4) % 2 /\ c = m.channels % 4
    OBVIOUS
  <2>3. a \in 0..3 /\ b \in 0..1 /\ c \in 0..3 /\ m.frequency \in 0..15
    BY <1>6, <2>1, <2>2
  <2>4. a * 64 + m.frequency * 4 + b \in 0..255 /\ c * 64 \in 0..255 /\ (c * 64) % 4 = 0
    BY <2>3
  <2> QED BY <1>8, <2>2, <2>4
<1>10. audio_head_data' = [b2 |-> x, b3 |-> y, b4 |-> 0, b5 |-> 0]
  BY <1>7, <1>8
<1>11. audio_head_data' \in Adts /\ audio_head_data'.b2 = x /\ audio_head_data'.b3 = y
  BY <1>9, <1>10 DEF Adts, AdtsBytes
<1>12. TypeOK'
  BY <1>1, <1>2, <1>3, <1>7, <1>11 DEF TypeOK, pictureVars, Adts
<1>13. NalInv'
  BY <1>2, <1>3 DEF NalInv
<1>14. AudioInv'
  <2>1. LatestConfig' = Len(taken) + 1
    BY <1>1, <1>3, LatestAppended DEF TypeOK
  <2> QED BY <1>3, <1>7, <1>8, <1>9, <1>11, <2>1 DEF AudioInv, AdtsOf
<1> QED BY <1>1, <1>2, <1>5, <1>12, <1>13, <1>14 DEF DemuxInv, FramesInv

-----------------------------------------------------------------------------
(* A message with what lies behind it, a part of that, and a parameter set *)
(* with its length.                                                        *)
Memory(body, tail) == body \o tail
Part(s, a, b)      == SubSeq(s, a, b)
Sized(set)         == InTwo(Len(set)) \o set

(* From place a on, the message holds the set, and the thread reads it.    *)
Holds(body, a, set) ==
  /\ a \in Nat \ {0} /\ Len(set) < Words /\ a + 1 + Len(set) <= Len(body)
  /\ Part(body, a, a + 1 + Len(set)) = Sized(set)
Found(mem, a, set) ==
  TwoBytes(mem, a) = Len(set) /\ Part(mem, a + 2, a + 1 + Len(set)) = set

(* A parameter set is found behind its length, whatever comes behind the   *)
(* message.                                                                *)
LEMMA SetRead ==
  ASSUME NEW body \in Seq(Byte), NEW tail \in Seq(Byte), NEW set \in Seq(Byte), NEW a,
         Holds(body, a, set)
  PROVE  Found(Memory(body, tail), a, set)
<1>1. PICK n, b, mem, w, c : /\ n = Len(set) /\ b = a + 1 + n /\ mem = Memory(body, tail)
                             /\ w = InTwo(n) /\ c = Sized(set)
  OBVIOUS
<1>2. /\ n \in Nat /\ b \in Int /\ a \in Nat /\ a > 0 /\ b = a + 1 + n /\ b <= Len(body)
      /\ n = Len(set) /\ n < Words /\ Part(body, a, b) = c
  BY <1>1 DEF Holds
<1>3. w \in Seq(Byte) /\ Len(w) = 2 /\ w[1] * ByteValues + w[2] = n
  <2>1. n \in 0..(Words - 1)
    BY <1>2, ByteFacts
  <2> QED BY <1>1, <2>1, InTwoRead
<1>4. c = w \o set
  BY <1>1, <1>2 DEF Sized
<1>16. c \in Seq(Byte) /\ Len(c) = Len(w) + Len(set)
  BY <1>3, <1>4, CatParts
<1>5. /\ \A k \in 1..Len(w) : c[k] = w[k]
      /\ \A k \in (Len(w) + 1)..(Len(w) + Len(set)) : c[k] = set[k - Len(w)]
  BY <1>3, <1>4, CatParts
<1>6. Len(c) = 2 + n
  BY <1>2, <1>3, <1>16
<1>7. SubSeq(body, a, b) = c /\ a - 1 <= b
  BY <1>1, <1>2 DEF Part
<1>8. \A k \in 1..Len(c) : body[a + k - 1] = c[k]
  <2>1. a \in Nat \ {0} /\ b \in Int /\ a - 1 <= b /\ b <= Len(body)
    BY <1>2, <1>7
  <2>2. c \in Seq(Byte) /\ SubSeq(body, a, b) = c
    BY <1>7, <1>16
  <2> QED BY ONLY <2>1, <2>2, body \in Seq(Byte), PartOf
<1>9. mem \in Seq(Byte) /\ Len(mem) = Len(body) + Len(tail) /\ \A k \in 1..Len(body) : mem[k] = body[k]
  BY <1>1, CatParts DEF Memory
<1>10. Len(body) \in Nat /\ Len(tail) \in Nat
  OBVIOUS
<1>11. mem[a] = w[1] /\ mem[a + 1] = w[2]
  <2>1. 1 \in 1..Len(c) /\ 2 \in 1..Len(c) /\ 1 \in 1..Len(w) /\ 2 \in 1..Len(w)
    BY <1>2, <1>3, <1>6
  <2>2. body[a + 1 - 1] = w[1] /\ body[a + 2 - 1] = w[2]
    BY <1>5, <1>8, <2>1
  <2>3. a + 1 - 1 = a /\ a + 2 - 1 = a + 1 /\ a \in 1..Len(body) /\ a + 1 \in 1..Len(body)
    BY <1>2, <1>10
  <2> QED BY <1>9, <2>2, <2>3
<1>12. TwoBytes(mem, a) = n
  BY <1>3, <1>11 DEF TwoBytes
<1>13. ASSUME NEW k \in 1..Len(set) PROVE mem[(a + 2) + k - 1] = set[k]
  <2>1. k + 2 \in 1..Len(c) /\ k + 2 \in (Len(w) + 1)..(Len(w) + Len(set)) /\ (k + 2) - Len(w) = k
    BY <1>2, <1>3, <1>6
  <2>2. body[a + (k + 2) - 1] = set[k]
    BY <1>5, <1>8, <2>1
  <2>3. a + (k + 2) - 1 = (a + 2) + k - 1 /\ a + (k + 2) - 1 \in 1..Len(body)
    BY <1>2, <1>10
  <2> QED BY <1>9, <2>2, <2>3
<1>14. a + 2 \in Nat \ {0} /\ b = (a + 2) + Len(set) - 1 /\ b <= Len(mem)
  BY <1>2, <1>9, <1>10
<1>15. SubSeq(mem, a + 2, b) = set
  BY <1>2, <1>9, <1>13, <1>14, PartIs
<1> QED BY <1>1, <1>12, <1>15 DEF Part, Found

(* Two parameter sets in start code form. *)
LEMMA AnnexBOfTwo ==
  ASSUME NEW nals \in Seq(Seq(Byte)), Len(nals) = 2
  PROVE  AnnexB(nals) = HeadStored(nals[1], nals[2])
<1>1. PICK t, x, y, z : /\ t = WithStartCodes(nals) /\ x = nals[1] /\ y = nals[2]
                        /\ z = StartCode
  OBVIOUS
<1>2. x \in Seq(Byte) /\ y \in Seq(Byte) /\ z \in Seq(Byte)
  <2>1. nals[1] \in Seq(Byte) /\ nals[2] \in Seq(Byte)
    OBVIOUS
  <2>2. StartCode \in Seq(Byte)
    BY ByteFacts
  <2> QED BY <1>1, <2>1, <2>2
<1>3. t \in Seq(Seq(Byte)) /\ Len(t) = 2
  BY <1>1, PartsTyped
<1>4. t[1] = z \o x /\ t[2] = z \o y
  <2>1. 1 \in 1..Len(nals) /\ 2 \in 1..Len(nals)
    OBVIOUS
  <2> QED BY <1>1, <2>1, PartsTyped
<1>5. /\ FlattenSeq(t) = Flattening(t)[Len(t)]
      /\ Flattening(t)[1] = t[1]
      /\ \A i \in 2..Len(t) : Flattening(t)[i] = Flattening(t)[i - 1] \o t[i]
  <2>1. Len(t) # 0
    BY <1>3
  <2> QED BY <1>3, <2>1, FlatteningStep
<1>6. FlattenSeq(t) = (z \o x) \o (z \o y)
  <2>1. 2 \in 2..Len(t) /\ 2 - 1 = 1
    BY <1>3
  <2>2. Flattening(t)[2] = Flattening(t)[1] \o t[2]
    BY <1>5, <2>1
  <2> QED BY <1>3, <1>4, <1>5, <2>2
<1>7. PICK a : a = z \o x
  OBVIOUS
<1>8. a \in Seq(Byte)
  BY <1>2, <1>7, CatParts
<1>10. (a \o z) \o y = a \o (z \o y)
  BY <1>2, <1>8, CatAssociative
<1>9. AnnexB(nals) = FlattenSeq(t)
  BY <1>1 DEF AnnexB, WithStartCodes
<1> QED BY <1>1, <1>6, <1>7, <1>9, <1>10 DEF HeadStored

(* What is kept of a sequence header: start codes in front, and the sets   *)
(* behind them.                                                            *)
LEMMA HeadStoredIs ==
  ASSUME NEW sps \in Seq(Byte), NEW pps \in Seq(Byte)
  PROVE  /\ HeadStored(sps, pps) \in Seq(Byte)
         /\ Len(HeadStored(sps, pps)) = 8 + Len(sps) + Len(pps)
         /\ SubSeq(HeadStored(sps, pps), 1, 4) = StartCode
         /\ StartCode \o sps \o StartCode \in Seq(Byte)
<1>1. PICK z : z = StartCode
  OBVIOUS
<1>2. z \in Seq(Byte) /\ Len(z) = 4
  BY <1>1, ByteFacts
<1>3. PICK a, b, c : a = z \o sps /\ b = a \o z /\ c = b \o pps
  OBVIOUS
<1>4. /\ a \in Seq(Byte) /\ Len(a) = Len(z) + Len(sps)
      /\ \A k \in 1..Len(z) : a[k] = z[k]
  BY <1>2, <1>3, CatParts
<1>5. /\ b \in Seq(Byte) /\ Len(b) = Len(a) + Len(z)
      /\ \A k \in 1..Len(a) : b[k] = a[k]
  BY <1>2, <1>3, <1>4, CatParts
<1>6. /\ c \in Seq(Byte) /\ Len(c) = Len(b) + Len(pps)
      /\ \A k \in 1..Len(b) : c[k] = b[k]
  BY <1>3, <1>5, CatParts
<1>7. Len(sps) \in Nat /\ Len(pps) \in Nat
  OBVIOUS
<1>8. \A k \in 1..Len(z) : c[k] = z[k]
  <2>1. \A k \in 1..Len(z) : k \in 1..Len(a) /\ k \in 1..Len(b)
    BY <1>2, <1>4, <1>5, <1>7
  <2> QED BY <1>4, <1>5, <1>6, <2>1
<1>9. Len(z) <= Len(c) /\ Len(c) = 8 + Len(sps) + Len(pps)
  BY <1>2, <1>4, <1>5, <1>6, <1>7
<1>10. SubSeq(c, 1, Len(z)) = z
  BY <1>2, <1>6, <1>8, <1>9, FrontIs
<1>11. HeadStored(sps, pps) = c /\ StartCode \o sps \o StartCode = b
  BY <1>1, <1>3 DEF HeadStored
<1> QED BY <1>1, <1>2, <1>5, <1>6, <1>9, <1>10, <1>11

(* The first of some parameter sets with their lengths. *)
LEMMA SizedTyped ==
  ASSUME NEW set \in Seq(Byte)
  PROVE  /\ Len(set) \in Nat /\ Sized(set) \in Seq(Nat) /\ Len(Sized(set)) = 2 + Len(set)
         /\ Len(set) < Words => Sized(set) \in Seq(Byte)
<1>1. PICK n, w : n = Len(set) /\ w = InTwo(n)
  OBVIOUS
<1>2. n \in Nat /\ set \in Seq(Nat)
  BY <1>1, ByteFacts, SequenceOf
<1>3. w \in Seq(Nat) /\ Len(w) = 2
  <2>1. ByteValues \in Nat \ {0}
    BY ByteFacts
  <2>2. n \div ByteValues \in Nat /\ n % ByteValues \in 0..(ByteValues - 1)
    BY <1>2, <2>1, Division
  <2>3. PICK q, r : q = n \div ByteValues /\ r = n % ByteValues
    OBVIOUS
  <2>4. q \in Nat /\ r \in Nat
    BY <2>1, <2>2, <2>3
  <2> QED BY <1>1, <2>3, <2>4 DEF InTwo
<1>4. w \o set \in Seq(Nat) /\ Len(w \o set) = Len(w) + Len(set)
  BY <1>2, <1>3, CatParts
<1>5. Sized(set) = w \o set
  BY <1>1 DEF Sized
<1>6. ASSUME n < Words PROVE w \o set \in Seq(Byte)
  <2>1. n \in 0..(Words - 1)
    BY <1>2, <1>6, ByteFacts
  <2>2. w \in Seq(Byte)
    BY <1>1, <2>1, InTwoRead
  <2> QED BY <2>2, CatParts
<1> QED BY <1>1, <1>2, <1>3, <1>4, <1>5, <1>6

LEMMA SetBytesFirst ==
  ASSUME NEW sets \in Seq(Seq(Byte)), Len(sets) # 0
  PROVE  /\ sets[1] \in Seq(Byte) /\ SetBytes(sets) \in Seq(Nat)
         /\ Len(SetBytes(sets)) >= 2 + Len(sets[1])
         /\ Len(sets) = 1 => Len(SetBytes(sets)) = 2 + Len(sets[1])
         /\ \A p \in 1..(2 + Len(sets[1])) : SetBytes(sets)[p] = Sized(sets[1])[p]
<1>1. PICK s : s = [i \in 1..Len(sets) |-> Sized(sets[i])]
  OBVIOUS
<1>2. Len(sets) \in Nat \ {0} /\ \A i \in 1..Len(sets) : sets[i] \in Seq(Byte)
  OBVIOUS
<1>3. \A i \in 1..Len(sets) : s[i] = Sized(sets[i]) /\ s[i] \in Seq(Nat)
  BY <1>1, <1>2, SizedTyped
<1>4. s \in Seq(Seq(Nat)) /\ Len(s) = Len(sets)
  BY <1>1, <1>2, <1>3, SequenceFrom
<1>5. SetBytes(sets) = FlattenSeq(s)
  BY <1>1 DEF SetBytes, Sized
<1>6. PICK e, b, n : e = Ends(s) /\ b = FlattenSeq(s) /\ n = Len(sets)
  OBVIOUS
<1>7. Len(s) # 0
  BY <1>2, <1>4
<1>8. b \in Seq(Nat) /\ Len(b) = e[n] /\ \A i \in 1..n : \A p \in (e[i - 1] + 1)..e[i] : b[p] = s[i][p - e[i - 1]]
  BY <1>4, <1>6, <1>7, FlattenParts
<1>9. /\ \A i \in 0..n : e[i] \in Nat
      /\ e[0] = 0 /\ \A i \in 1..n : e[i] = e[i - 1] + Len(s[i])
  BY <1>4, <1>6, <1>7, EndsStep
<1>10. \A j \in 0..n : \A i \in 0..j : e[i] <= e[j]
  BY <1>4, <1>6, <1>7, EndsGrow
<1>11. 1 \in 1..n /\ 1 - 1 = 0 /\ n \in 0..n /\ 1 \in 0..n
  BY <1>2, <1>6
<1>12. PICK x : x = 2 + Len(sets[1])
  OBVIOUS
<1>13. sets[1] \in Seq(Byte) /\ x \in Nat /\ Len(s[1]) = x /\ s[1] = Sized(sets[1])
  BY <1>2, <1>3, <1>6, <1>11, <1>12, SizedTyped
<1>14. e[1] = x /\ e[1] <= e[n]
  BY <1>9, <1>10, <1>11, <1>13
<1>15. ASSUME NEW p \in 1..x PROVE b[p] = Sized(sets[1])[p]
  <2>1. p \in (e[0] + 1)..e[1] /\ p - e[0] = p
    BY <1>9, <1>13, <1>14
  <2> QED BY <1>8, <1>11, <1>13, <2>1
<1> QED BY <1>5, <1>6, <1>8, <1>12, <1>13, <1>14, <1>15

(* SPS and first PPS of a sequence header that is not damaged and has one  *)
(* SPS lie where the thread looks for them.                                *)
LEMMA HeaderHolds ==
  ASSUME NEW body \in Seq(Byte), NEW nals \in Seq(Seq(Byte)), Len(nals) > 1,
         \A i \in 1..Len(nals) : Len(nals[i]) < Words,
         SubSeq(body, 7, Len(body)) =
           SetBytes(SubSeq(nals, 1, 1)) \o <<Len(nals) - 1>> \o SetBytes(SubSeq(nals, 2, Len(nals)))
  PROVE  /\ nals[1] \in Seq(Byte) /\ nals[2] \in Seq(Byte) /\ Len(body) >= 8
         /\ Holds(body, 7, nals[1]) /\ Holds(body, 10 + Len(nals[1]), nals[2])
<1>1. PICK first, rest, sps, pps :
        /\ first = SubSeq(nals, 1, 1) /\ rest = SubSeq(nals, 2, Len(nals))
        /\ sps = nals[1] /\ pps = nals[2]
  OBVIOUS
<1>2. Len(nals) \in Nat /\ Len(nals) > 1 /\ 1 \in 1..Len(nals) /\ 2 \in 1..Len(nals)
  OBVIOUS
<1>3. sps \in Seq(Byte) /\ pps \in Seq(Byte) /\ Len(sps) < Words /\ Len(pps) < Words
  BY <1>1, <1>2
<1>4. /\ first \in Seq(Seq(Byte)) /\ Len(first) = 1 /\ first[1] = sps
      /\ rest \in Seq(Seq(Byte)) /\ Len(rest) = Len(nals) - 1 /\ rest[1] = pps
  BY <1>1, <1>2
<1>5. PICK a, c, b : a = SetBytes(first) /\ c = <<Len(nals) - 1>> /\ b = SetBytes(rest)
  OBVIOUS
<1>6. PICK x, y : x = Len(sps) /\ y = Len(pps)
  OBVIOUS
<1>7. x \in Nat /\ y \in Nat
  BY <1>3, <1>6
<1>8. a \in Seq(Nat) /\ Len(a) = 2 + x /\ \A k \in 1..(2 + x) : a[k] = Sized(sps)[k]
  <2>1. first \in Seq(Seq(Byte)) /\ Len(first) # 0 /\ Len(first) = 1 /\ first[1] = sps
    BY <1>4
  <2>2. /\ SetBytes(first) \in Seq(Nat) /\ Len(SetBytes(first)) = 2 + Len(first[1])
        /\ \A k \in 1..(2 + Len(first[1])) : SetBytes(first)[k] = Sized(first[1])[k]
    BY ONLY <2>1, SetBytesFirst
  <2> QED BY ONLY <1>5, <1>6, <2>1, <2>2
<1>9. b \in Seq(Nat) /\ Len(b) >= 2 + y /\ \A k \in 1..(2 + y) : b[k] = Sized(pps)[k]
  <2>1. Len(rest) # 0
    <3>1. Len(rest) = Len(nals) - 1
      BY ONLY <1>4, Zenon
    <3>2. Len(nals) \in Nat /\ Len(nals) > 1
      BY ONLY <1>2, Zenon
    <3>3. PICK n : n = Len(nals)
      OBVIOUS
    <3> QED BY ONLY <3>1, <3>2, <3>3
  <2>2. rest \in Seq(Seq(Byte)) /\ rest[1] = pps
    BY <1>4
  <2>3. /\ SetBytes(rest) \in Seq(Nat) /\ Len(SetBytes(rest)) >= 2 + Len(rest[1])
        /\ \A k \in 1..(2 + Len(rest[1])) : SetBytes(rest)[k] = Sized(rest[1])[k]
    BY ONLY <2>1, <2>2, SetBytesFirst
  <2> QED BY ONLY <1>5, <1>6, <2>2, <2>3
<1>10. c \in Seq(Nat) /\ Len(c) = 1
  BY <1>2, <1>5
<1>11. PICK ac, w : ac = a \o c /\ w = ac \o b
  OBVIOUS
<1>12. /\ ac \in Seq(Nat) /\ Len(ac) = Len(a) + Len(c)
       /\ \A k \in 1..Len(a) : ac[k] = a[k]
  BY <1>8, <1>10, <1>11, CatParts
<1>13. /\ w \in Seq(Nat) /\ Len(w) = Len(ac) + Len(b)
       /\ \A k \in 1..Len(ac) : w[k] = ac[k]
       /\ \A k \in (Len(ac) + 1)..(Len(ac) + Len(b)) : w[k] = b[k - Len(ac)]
  <2>1. ac \in Seq(Nat) /\ b \in Seq(Nat) /\ w = ac \o b
    BY ONLY <1>9, <1>11, <1>12
  <2> QED BY ONLY <2>1, CatParts
<1>14. Len(ac) = 3 + x /\ Len(b) \in Nat /\ Len(w) >= 5 + x + y
  <2>1. Len(a) = 2 + x /\ Len(c) = 1 /\ Len(ac) = Len(a) + Len(c)
    BY ONLY <1>8, <1>10, <1>12
  <2>2. Len(b) >= 2 + y /\ Len(b) \in Nat /\ Len(w) = Len(ac) + Len(b)
    BY ONLY <1>9, <1>13
  <2> QED BY ONLY <1>7, <2>1, <2>2
<1>15. SubSeq(body, 7, Len(body)) = w
  BY <1>1, <1>5, <1>11
<1>16. Len(body) \in Nat /\ Len(body) >= 7
  <2>1. Len(SubSeq(body, 7, Len(body))) = IF 7 <= Len(body) THEN Len(body) - 6 ELSE 0
    OBVIOUS
  <2> QED BY <1>7, <1>14, <1>15, <2>1
<1>17. Len(w) = Len(body) - 6 /\ \A k \in 1..Len(w) : body[7 + k - 1] = w[k]
  <2>1. body \in Seq(Nat)
    BY ByteFacts, SequenceOf
  <2>3. /\ 7 \in Nat \ {0} /\ Len(body) \in Int /\ 7 - 1 <= Len(body) /\ Len(body) <= Len(body)
        /\ w \in Seq(Nat) /\ SubSeq(body, 7, Len(body)) = w
    BY ONLY <1>13, <1>15, <1>16
  <2>2. Len(w) = Len(body) - 7 + 1 /\ \A k \in 1..Len(w) : body[7 + k - 1] = w[k]
    BY ONLY <2>1, <2>3, PartOf
  <2> QED BY <1>16, <2>2
<1>18. Len(body) >= 11 + x + y
  BY <1>7, <1>14, <1>16, <1>17
<1>19. /\ Sized(sps) \in Seq(Byte) /\ Len(Sized(sps)) = 2 + x
       /\ Sized(pps) \in Seq(Byte) /\ Len(Sized(pps)) = 2 + y
  BY <1>3, <1>6, SizedTyped
<1>20. Holds(body, 7, sps)
  <2>1. ASSUME NEW k \in 1..(2 + x) PROVE body[7 + k - 1] = Sized(sps)[k]
    <3>1. k \in 1..Len(w) /\ k \in 1..Len(ac) /\ k \in 1..Len(a)
      BY <1>7, <1>8, <1>14
    <3> QED BY <1>8, <1>12, <1>13, <1>17, <3>1
  <2>2. /\ 7 \in Nat \ {0} /\ 8 + x \in Int /\ 8 + x = 7 + (2 + x) - 1
        /\ 8 + x <= Len(body) /\ 7 + 1 + x = 8 + x
    BY <1>7, <1>16, <1>18
  <2>3. SubSeq(body, 7, 8 + x) = Sized(sps)
    BY <1>19, <2>1, <2>2, PartIs
  <2> QED BY <1>3, <1>6, <2>2, <2>3 DEF Holds, Part
<1>21. Holds(body, 10 + x, pps)
  <2>1. ASSUME NEW k \in 1..(2 + y) PROVE body[(10 + x) + k - 1] = Sized(pps)[k]
    <3>1. /\ k + 3 + x \in 1..Len(w) /\ k + 3 + x \in (Len(ac) + 1)..(Len(ac) + Len(b))
          /\ (k + 3 + x) - Len(ac) = k
      BY <1>7, <1>9, <1>13, <1>14
    <3>2. 7 + (k + 3 + x) - 1 = (10 + x) + k - 1
      BY <1>7
    <3>3. body[7 + (k + 3 + x) - 1] = b[k]
      BY <1>13, <1>17, <3>1
    <3> QED BY <1>9, <3>2, <3>3
  <2>2. PICK p : p = 10 + x
    OBVIOUS
  <2>3. /\ p \in Nat \ {0} /\ p + 1 + y \in Int /\ p + 1 + y = p + (2 + y) - 1
        /\ p + 1 + y <= Len(body)
    BY <1>7, <1>16, <1>18, <2>2
  <2>5. PICK t, q : t = Sized(pps) /\ q = p + 1 + y
    OBVIOUS
  <2>6. /\ t \in Seq(Byte) /\ p \in Nat \ {0} /\ q \in Int /\ q = p + Len(t) - 1 /\ q <= Len(body)
        /\ \A k \in 1..Len(t) : body[p + k - 1] = t[k]
    BY ONLY <1>19, <2>1, <2>2, <2>3, <2>5
  <2>4. SubSeq(body, p, p + 1 + y) = Sized(pps)
    BY ONLY <2>5, <2>6, body \in Seq(Byte), PartIs
  <2> QED BY <1>3, <1>6, <2>2, <2>3, <2>4 DEF Holds, Part
<1>22. Len(body) >= 8
  BY ONLY <1>7, <1>16, <1>18
<1> QED BY ONLY <1>1, <1>3, <1>6, <1>20, <1>21, <1>22

(* The sets of such a header are found. *)
LEMMA HeaderRead ==
  ASSUME NEW m \in Messages, IsSequenceHeader(m), OneSps(m),
         NEW tail \in Seq(Byte), NEW mem, mem = Memory(m.body, tail)
  PROVE  /\ m.nals \in Seq(Seq(Byte)) /\ Len(m.nals) > 1
         /\ m.nals[1] \in Seq(Byte) /\ m.nals[2] \in Seq(Byte) /\ Len(m.body) >= 8
         /\ TwoBytes(mem, 7) = Len(m.nals[1])
         /\ Part(mem, 9, 8 + Len(m.nals[1])) = m.nals[1]
         /\ TwoBytes(mem, 10 + Len(m.nals[1])) = Len(m.nals[2])
         /\ Part(mem, 12 + Len(m.nals[1]), 11 + Len(m.nals[1]) + Len(m.nals[2])) = m.nals[2]
<1>1. VideoMessage(m)
  BY MessageKinds DEF IsSequenceHeader
<1>2. m.body \in Seq(Byte) /\ m.nals \in Seq(Seq(Byte)) /\ MadeOfSets(m) /\ m.sps_num = 1
  BY <1>1 DEF VideoMessage, MadeOfNals, OneSps
<1>3. PICK body, nals, sps, pps : body = m.body /\ nals = m.nals /\ sps = nals[1] /\ pps = nals[2]
  OBVIOUS
<1>4. /\ Len(nals) \in Nat /\ Len(nals) > 1 /\ \A i \in 1..Len(nals) : Len(nals[i]) < Words
      /\ SubSeq(body, 7, Len(body)) =
           SetBytes(SubSeq(nals, 1, 1)) \o <<Len(nals) - 1>> \o SetBytes(SubSeq(nals, 1 + 1, Len(nals)))
  <2>1. nals \in Seq(Seq(Byte)) /\ Len(nals) \in Nat
    BY <1>2, <1>3
  <2>2. /\ 1 \in 1..(Len(nals) - 1) /\ \A i \in 1..Len(nals) : Len(nals[i]) < Words
        /\ SubSeq(body, 7, Len(body)) =
             SetBytes(SubSeq(nals, 1, 1)) \o <<Len(nals) - 1>>
               \o SetBytes(SubSeq(nals, 1 + 1, Len(nals)))
    BY ONLY Zenon, <1>2, <1>3 DEF MadeOfSets
  <2>3. Len(nals) > 1
    BY ONLY <2>1, <2>2
  <2> QED BY <2>1, <2>2, <2>3
<1>5. /\ sps \in Seq(Byte) /\ pps \in Seq(Byte) /\ Len(body) >= 8
      /\ Holds(body, 7, sps) /\ Holds(body, 10 + Len(sps), pps)
  <2>1. 1 + 1 = 2
    OBVIOUS
  <2> QED BY <1>2, <1>3, <1>4, <2>1, HeaderHolds
<1>6. PICK x, y : x = Len(sps) /\ y = Len(pps)
  OBVIOUS
<1>7. x \in Nat /\ y \in Nat
  BY <1>5, <1>6
<1>8. body \in Seq(Byte) /\ mem = Memory(body, tail)
  BY <1>2, <1>3
<1>9. TwoBytes(mem, 7) = x /\ Part(mem, 9, 8 + x) = sps
  <2>1. 7 + 1 + x = 8 + x /\ 7 + 2 = 9
    BY <1>7
  <2>2. Found(mem, 7, sps)
    BY <1>5, <1>8, SetRead
  <2> QED BY <1>6, <2>1, <2>2 DEF Found
<1>10. TwoBytes(mem, 10 + x) = y /\ Part(mem, 12 + x, 11 + x + y) = pps
  <2>1. PICK a : a = 10 + x
    OBVIOUS
  <2>2. a + 1 + y = 11 + x + y /\ a + 2 = 12 + x
    BY <1>7, <2>1
  <2>3. Found(mem, a, pps)
    BY <1>5, <1>6, <1>8, <2>1, SetRead
  <2> QED BY <1>6, <2>1, <2>2, <2>3 DEF Found
<1> QED BY <1>2, <1>3, <1>4, <1>5, <1>6, <1>9, <1>10

LEMMA SequenceHeaderKeeps ==
  ASSUME DemuxInv, NEW m \in Messages, NEW tail \in Tails, SequenceHeader(m, tail)
  PROVE  DemuxInv'
<1>1. TypeOK /\ frames \in Seq(Handed) /\ Take(m) /\ IsSequenceHeader(m)
  BY DEF DemuxInv, FramesInv, SequenceHeader, IsSequenceHeader
<1>2. UNCHANGED <<pictureVars, audio_head_data, audio_head_data_len, frames>>
  BY DEF SequenceHeader
<1>3. /\ taken' = Append(taken, m) /\ taken' \in Seq(Messages)
      /\ Len(taken) \in Nat /\ Len(taken') = Len(taken) + 1
      /\ Len(taken') <= MaxMessages /\ pc = "idle" /\ taken'[Len(taken) + 1] = m
  BY <1>1, TakeFacts
<1>4. ~IsAudioConfig(m)
  BY <1>1 DEF IsAudioConfig, IsSequenceHeader
<1>5. AudioInv' /\ \A f \in Range(frames) : FrameRight(f)'
  BY <1>1, <1>2, <1>4, TakeKeeps
<1>6. VideoMessage(m) /\ m.body \in Seq(Byte)
  BY <1>1, MessageKinds DEF IsSequenceHeader, VideoMessage
<1>7. /\ tail \in Seq(Byte) /\ Len(tail) \in Nat /\ Len(tail) >= 2 * MaxParameterSet + 3
      /\ MaxParameterSet \in Nat
  BY AvAssumption
<1>8. PICK mem, sl, sps, pl, pps :
        /\ mem = m.body \o tail
        /\ sl = TwoBytes(mem, 7) /\ sps = SubSeq(mem, 9, 8 + sl)
        /\ pl = TwoBytes(mem, 9 + sl + 1)
        /\ pps = SubSeq(mem, 9 + sl + 3, 9 + sl + 2 + pl)
  OBVIOUS
<1>9. /\ pc' = IF (Len(m.body) < 8 \/ sl > MaxParameterSet) \/ pl > MaxParameterSet
                 THEN "done" ELSE pc
      /\ video_head_data' = IF Len(m.body) < 8 \/ sl > MaxParameterSet THEN StartCode
                            ELSE IF (Len(m.body) < 8 \/ sl > MaxParameterSet) \/ pl > MaxParameterSet
                                   THEN StartCode \o sps \o StartCode
                            ELSE HeadStored(sps, pps)
      /\ video_head_data_len' = Len(video_head_data')
  BY <1>8 DEF SequenceHeader
<1>10. Len(m.body) \in Nat /\ mem \in Seq(Byte) /\ Len(mem) = Len(m.body) + Len(tail)
  BY <1>6, <1>7, <1>8, CatParts
<1>11. Len(m.body) >= 8 /\ ~(sl > MaxParameterSet) => sl \in Nat /\ sps \in Seq(Byte)
  <2> SUFFICES ASSUME Len(m.body) >= 8, ~(sl > MaxParameterSet) PROVE sl \in Nat /\ sps \in Seq(Byte)
    OBVIOUS
  <2>1. 7 \in 1..Len(mem) /\ 7 + 1 <= Len(mem)
    BY <1>7, <1>10
  <2>2. sl \in Nat
    <3>1. TwoBytes(mem, 7) \in 0..(Words - 1)
      BY <1>10, <2>1, TwoBytesTyped
    <3> QED BY <1>8, <3>1, ByteFacts
  <2>3. 9 \in Nat \ {0} /\ 8 + sl \in Int /\ 9 - 1 <= 8 + sl /\ 8 + sl <= Len(mem)
    BY <1>7, <1>10, <2>2
  <2> QED BY <1>8, <1>10, <2>2, <2>3, PartTyped
<1>12. Len(m.body) >= 8 /\ ~(sl > MaxParameterSet) /\ ~(pl > MaxParameterSet) =>
         pl \in Nat /\ pps \in Seq(Byte)
  <2> SUFFICES ASSUME Len(m.body) >= 8, ~(sl > MaxParameterSet), ~(pl > MaxParameterSet)
               PROVE  pl \in Nat /\ pps \in Seq(Byte)
    OBVIOUS
  <2>1. sl \in Nat /\ sl <= MaxParameterSet
    BY <1>7, <1>11
  <2>2. PICK a : a = 9 + sl
    OBVIOUS
  <2>3. a + 1 \in 1..Len(mem) /\ (a + 1) + 1 <= Len(mem)
    BY <1>7, <1>10, <2>1, <2>2
  <2>4. pl \in Nat
    <3>1. TwoBytes(mem, a + 1) \in 0..(Words - 1)
      BY <1>10, <2>3, TwoBytesTyped
    <3> QED BY <1>8, <2>2, <3>1, ByteFacts
  <2>5. /\ a + 3 \in Nat \ {0} /\ a + 2 + pl \in Int /\ (a + 3) - 1 <= a + 2 + pl
        /\ a + 2 + pl <= Len(mem)
    BY <1>7, <1>10, <2>1, <2>2, <2>4
  <2>6. SubSeq(mem, a + 3, a + 2 + pl) \in Seq(Byte)
    BY <1>10, <2>5, PartTyped
  <2> QED BY <1>8, <2>2, <2>4, <2>6
<1>13. video_head_data' \in Seq(Byte) /\ video_head_data_len' \in Nat /\ pc' \in {"idle", "done"}
  <2>1. CASE Len(m.body) < 8 \/ sl > MaxParameterSet
    <3>1. video_head_data' = StartCode /\ pc' = "done"
      BY <1>9, <2>1
    <3>2. StartCode \in Seq(Byte) /\ Len(StartCode) = 4
      BY ByteFacts
    <3>3. video_head_data_len' = 4
      BY <1>9, <3>1, <3>2
    <3> QED BY <3>1, <3>2, <3>3
  <2>2. CASE ~(Len(m.body) < 8 \/ sl > MaxParameterSet) /\ pl > MaxParameterSet
    <3>1. video_head_data' = StartCode \o sps \o StartCode /\ pc' = "done"
      BY <1>9, <2>2
    <3>2. sps \in Seq(Byte)
      BY <1>10, <1>11, <2>2
    <3>3. video_head_data' \in Seq(Byte)
      BY <3>1, <3>2, HeadStoredIs
    <3> QED BY <1>9, <3>1, <3>3
  <2>3. CASE ~(Len(m.body) < 8 \/ sl > MaxParameterSet) /\ ~(pl > MaxParameterSet)
    <3>1. video_head_data' = HeadStored(sps, pps) /\ pc' = "idle"
      BY <1>3, <1>9, <2>3
    <3>2. sps \in Seq(Byte) /\ pps \in Seq(Byte)
      BY <1>10, <1>11, <1>12, <2>3
    <3>3. video_head_data' \in Seq(Byte)
      BY <3>1, <3>2, HeadStoredIs
    <3> QED BY <1>9, <3>1, <3>3
  <2> QED BY <2>1, <2>2, <2>3
<1>14. TypeOK'
  BY <1>1, <1>2, <1>3, <1>13 DEF TypeOK, pictureVars
<1>15. NalInv'
  BY <1>13 DEF NalInv
<1>16. HeadInv'
  <2> SUFFICES ASSUME pc' # "done" PROVE HeadOf(m)'
    <3>1. LatestHeader' = Len(taken) + 1
      BY <1>1, <1>3, LatestAppended DEF TypeOK
    <3> QED BY <1>3, <3>1 DEF HeadInv, HeadOf, OneSps, FirstSets
  <2>1. Len(m.body) >= 8 /\ ~(sl > MaxParameterSet) /\ ~(pl > MaxParameterSet)
    BY <1>9, <1>10
  <2>2. video_head_data' = HeadStored(sps, pps) /\ video_head_data_len' = Len(video_head_data')
    BY <1>9, <1>10, <2>1
  <2>3. sps \in Seq(Byte) /\ pps \in Seq(Byte)
    BY <1>11, <1>12, <2>1
  <2>4. /\ SubSeq(video_head_data', 1, 4) = StartCode
        /\ Len(video_head_data') = 8 + Len(sps) + Len(pps)
    BY <2>2, <2>3, HeadStoredIs
  <2>5. /\ Len(sps) \in Nat /\ Len(pps) \in Nat
        /\ Len(sps) <= MaxParameterSet /\ Len(pps) <= MaxParameterSet
    <3>1. Len(sps) = sl
      <4>1. /\ 9 \in Nat \ {0} /\ 8 + sl \in Int /\ 9 - 1 <= 8 + sl /\ 8 + sl <= Len(mem)
            /\ (8 + sl) - 9 + 1 = sl
        BY <1>7, <1>10, <1>11, <2>1
      <4>2. Len(SubSeq(mem, 9, 8 + sl)) = (8 + sl) - 9 + 1
        BY ONLY <1>10, <4>1, PartTyped
      <4> QED BY <1>8, <4>1, <4>2
    <3>2. Len(pps) = pl
      <4>1. PICK a : a = 9 + sl
        OBVIOUS
      <4>2. /\ a + 3 \in Nat \ {0} /\ a + 2 + pl \in Int /\ (a + 3) - 1 <= a + 2 + pl
            /\ a + 2 + pl <= Len(mem) /\ (a + 2 + pl) - (a + 3) + 1 = pl
        <5>1. PICK lb, lt, ln, mps :
                lb = Len(m.body) /\ lt = Len(tail) /\ ln = Len(mem) /\ mps = MaxParameterSet
          OBVIOUS
        <5>2. /\ lb \in Nat /\ lt \in Nat /\ ln = lb + lt /\ mps \in Nat
              /\ 2 * mps + 3 <= lt /\ 8 <= lb
          BY <1>7, <1>10, <2>1, <5>1
        <5>3. sl \in Nat /\ pl \in Nat /\ sl <= mps /\ pl <= mps
          BY <1>7, <1>11, <1>12, <2>1, <5>1
        <5>4. /\ a + 3 \in Nat \ {0} /\ a + 2 + pl \in Int /\ (a + 3) - 1 <= a + 2 + pl
              /\ a + 2 + pl <= ln /\ (a + 2 + pl) - (a + 3) + 1 = pl
          BY ONLY <4>1, <5>2, <5>3
        <5> QED BY ONLY <5>1, <5>4
      <4>3. Len(SubSeq(mem, a + 3, a + 2 + pl)) = (a + 2 + pl) - (a + 3) + 1
        BY ONLY <1>10, <4>2, PartTyped
      <4> QED BY <1>8, <4>1, <4>2, <4>3
    <3> QED BY <1>7, <1>11, <1>12, <2>1, <3>1, <3>2
  <2>6. video_head_data_len' > 4 /\ video_head_data_len' <= 2 * MaxParameterSet + 8
    BY <1>7, <2>2, <2>4, <2>5
  <2>7. OneSps(m) => video_head_data' = AnnexB(FirstSets(m))
    <3> SUFFICES ASSUME OneSps(m) PROVE video_head_data' = AnnexB(FirstSets(m))
      OBVIOUS
    <3>1. /\ m.nals \in Seq(Seq(Byte)) /\ Len(m.nals) > 1
          /\ m.nals[1] \in Seq(Byte) /\ m.nals[2] \in Seq(Byte)
          /\ sl = Len(m.nals[1]) /\ SubSeq(mem, 9, 8 + Len(m.nals[1])) = m.nals[1]
          /\ TwoBytes(mem, 10 + Len(m.nals[1])) = Len(m.nals[2])
          /\ SubSeq(mem, 12 + Len(m.nals[1]), 11 + Len(m.nals[1]) + Len(m.nals[2])) = m.nals[2]
      BY <1>1, <1>7, <1>8, HeaderRead DEF Memory, Part
    <3>2. sl \in Nat
      BY <1>11, <2>1
    <3>3. 9 + sl + 1 = 10 + sl /\ 9 + sl + 3 = 12 + sl
      BY <3>2
    <3>4. sps = m.nals[1] /\ pl = Len(m.nals[2])
      BY <1>8, <3>1, <3>3
    <3>5. pl \in Nat
      BY <1>12, <2>1
    <3>6. 9 + sl + 2 + pl = 11 + sl + pl
      BY <3>2, <3>5
    <3>7. pps = m.nals[2]
      BY <1>8, <3>1, <3>3, <3>4, <3>6
    <3>8. /\ FirstSets(m) \in Seq(Seq(Byte)) /\ Len(FirstSets(m)) = 2
          /\ FirstSets(m)[1] = m.nals[1] /\ FirstSets(m)[2] = m.nals[2]
      BY <3>1 DEF FirstSets
    <3> QED BY <2>2, <3>4, <3>7, <3>8, AnnexBOfTwo
  <2> QED BY <2>2, <2>4, <2>6, <2>7 DEF HeadOf, OneSps, FirstSets
<1> QED BY <1>1, <1>2, <1>5, <1>14, <1>15, <1>16 DEF DemuxInv, FramesInv

(* A header with one SPS whose sets fit does not end the thread. *)
LEMMA HeaderAccepted ==
  ASSUME NEW m \in Messages, NEW tail \in Tails, SequenceHeader(m, tail),
         OneSps(m), SetsFit(m), pc # "done"
  PROVE  pc' # "done"
<1>1. IsSequenceHeader(m)
  BY DEF SequenceHeader, IsSequenceHeader
<1>2. tail \in Seq(Byte) /\ MaxParameterSet \in Nat
  BY AvAssumption
<1>3. PICK mem, x, y : mem = m.body \o tail /\ x = Len(m.nals[1]) /\ y = Len(m.nals[2])
  OBVIOUS
<1>4. /\ m.nals \in Seq(Seq(Byte)) /\ Len(m.nals) > 1
      /\ m.nals[1] \in Seq(Byte) /\ m.nals[2] \in Seq(Byte) /\ Len(m.body) >= 8
      /\ TwoBytes(mem, 7) = x /\ TwoBytes(mem, 10 + x) = y
  BY <1>1, <1>2, <1>3, HeaderRead DEF Memory
<1>5. x \in Nat /\ y \in Nat /\ x <= MaxParameterSet /\ y <= MaxParameterSet
  <2>1. 1 \in 1..Len(m.nals) /\ 2 \in 1..Len(m.nals)
    BY <1>4
  <2> QED BY <1>3, <1>4, <2>1 DEF SetsFit
<1>6. pc' = IF (Len(m.body) < 8 \/ TwoBytes(mem, 7) > MaxParameterSet)
                 \/ TwoBytes(mem, 9 + TwoBytes(mem, 7) + 1) > MaxParameterSet
              THEN "done" ELSE pc
  BY <1>3 DEF SequenceHeader
<1>7. TwoBytes(mem, 9 + TwoBytes(mem, 7) + 1) = y
  <2>1. 9 + x + 1 = 10 + x
    BY <1>5
  <2> QED BY <1>4, <2>1
<1>8. ~(Len(m.body) < 8) /\ ~(x > MaxParameterSet) /\ ~(y > MaxParameterSet)
  <2>1. Len(m.body) \in Nat
    <3>1. m.body \in Seq(Byte)
      BY <1>1, MessageKinds DEF IsSequenceHeader, VideoMessage
    <3> QED BY <3>1
  <2> QED BY <1>2, <1>4, <1>5, <2>1
<1> QED BY <1>4, <1>6, <1>7, <1>8

-----------------------------------------------------------------------------
(* Pictures. *)
LEMMA PictureIs ==
  ASSUME NEW m, VideoMessage(m), ~IsSequenceHeader(m), m.nals # <<>>
  PROVE  /\ m.nals \in Seq(Seq(Byte)) /\ m.body \in Seq(Byte) /\ Len(m.body) \in Nat
         /\ m.body = Avcc(m.nals) /\ Len(m.body) < UintMod
         /\ \A i \in 1..Len(m.nals) : m.nals[i] # <<>>
<1>1. Len(m.body) \in Nat /\ m.body \in Seq(Byte) /\ Len(m.body) + 2 * MaxParameterSet + 8 < UintMod
  BY DEF VideoMessage
<1>2. Len(m.body) < UintMod
  <2>1. PICK l : l = Len(m.body)
    OBVIOUS
  <2>2. PICK u, mps : u = UintMod /\ mps = MaxParameterSet
    OBVIOUS
  <2>3. l \in Nat /\ l + 2 * mps + 8 < u /\ mps \in Nat /\ u \in Nat
    BY <1>1, <2>1, <2>2, AvAssumption, ByteFacts
  <2>4. l < u
    BY ONLY <2>3
  <2> QED BY ONLY <2>1, <2>2, <2>4
<1> QED BY <1>1, <1>2 DEF VideoMessage, MadeOfNals

LEMMA PictureKeeps ==
  ASSUME DemuxInv, NEW m \in Messages, NEW tail \in Tails, Picture(m, tail)
  PROVE  DemuxInv'
<1>1. /\ TypeOK /\ frames \in Seq(Handed) /\ Take(m)
      /\ m.type = "video" /\ m.codec_id = 7 /\ ~IsSequenceHeader(m)
  BY DEF DemuxInv, FramesInv, Picture, IsSequenceHeader
<1>2. UNCHANGED <<headVars, frames>>
  BY DEF Picture
<1>3. /\ taken' = Append(taken, m) /\ taken' \in Seq(Messages)
      /\ Len(taken) \in Nat /\ Len(taken') = Len(taken) + 1
      /\ Len(taken') <= MaxMessages /\ taken'[Len(taken) + 1] = m
  BY <1>1, TakeFacts
<1>4. ~IsAudioConfig(m)
  BY <1>1 DEF IsAudioConfig
<1>5. HeadInv' /\ AudioInv' /\ \A f \in Range(frames) : FrameRight(f)'
  BY <1>1, <1>2, <1>4, TakeKeeps DEF headVars
<1>6. VideoMessage(m) /\ m.body \in Seq(Byte) /\ Len(m.body) \in Nat
  <2>1. VideoMessage(m)
    BY <1>1, MessageKinds
  <2> QED BY <2>1 DEF VideoMessage
<1>7. tail \in Seq(Byte) /\ Len(tail) \in Nat
  BY AvAssumption
<1>8. /\ pc' = "nal" /\ msg' = m /\ data' = m.body \o tail
      /\ messsge_data' = 0 /\ data_len' = Len(m.body)
  BY DEF Picture
<1>9. /\ data' \in Seq(Byte) /\ Len(data') >= Len(m.body)
      /\ \A p \in 1..Len(m.body) : data'[p] = m.body[p]
  <2>1. PICK d : d = m.body \o tail
    OBVIOUS
  <2>2. /\ d \in Seq(Byte) /\ Len(d) = Len(m.body) + Len(tail)
        /\ \A p \in 1..Len(m.body) : d[p] = m.body[p]
    BY <1>6, <1>7, <2>1, CatParts
  <2> QED BY <1>6, <1>7, <1>8, <2>1, <2>2
<1>10. TypeOK'
  <2>1. m # NoMessage
    BY <1>1 DEF NoMessage
  <2> QED BY <1>1, <1>2, <1>3, <1>6, <1>8, <1>9, <2>1 DEF TypeOK, headVars
<1>11. m.nals # <<>> =>
         \E j \in 0..Len(m.nals) :
           /\ 0 = Ends(WithLengths(m.nals))[j]
           /\ \A p \in 1..0 : data'[p] = AnnexB(m.nals)[p]
           /\ \A p \in (0 + 1)..Len(m.body) : data'[p] = m.body[p]
  <2> SUFFICES ASSUME m.nals # <<>>
               PROVE  \E j \in 0..Len(m.nals) :
                        /\ 0 = Ends(WithLengths(m.nals))[j]
                        /\ \A p \in 1..0 : data'[p] = AnnexB(m.nals)[p]
                        /\ \A p \in (0 + 1)..Len(m.body) : data'[p] = m.body[p]
    OBVIOUS
  <2>1. PICK e : e = Ends(WithLengths(m.nals))
    OBVIOUS
  <2>2. Len(m.nals) \in Nat \ {0} /\ e[0] = 0
    BY <1>1, <1>6, <2>1, PictureIs, PictureParts
  <2>3. 0 \in 0..Len(m.nals) /\ \A p : p \notin 1..0
    BY <2>2
  <2>4. \A p \in (0 + 1)..Len(m.body) : data'[p] = m.body[p]
    BY <1>6, <1>9
  <2> QED BY <2>1, <2>2, <2>3, <2>4
<1>12. NalInv'
  BY <1>1, <1>3, <1>6, <1>8, <1>9, <1>11 DEF NalInv
<1> QED BY <1>1, <1>2, <1>5, <1>10, <1>12 DEF DemuxInv, FramesInv

(* The loop reads no byte that is not there. *)
LEMMA LoopTyped ==
  ASSUME TypeOK, NalInv, pc = "nal", ~LoopOver
  PROVE  /\ AfterNal \in Nat
         /\ FourBytes(data, messsge_data + 1) \in Nat
         /\ messsge_data + 4 <= Len(msg.body)
<1>1. /\ data \in Seq(Byte) /\ messsge_data \in Nat /\ data_len \in Nat
      /\ messsge_data + data_len = Len(msg.body) /\ Len(data) >= Len(msg.body)
  BY DEF TypeOK, NalInv
<1>2. data_len > 4 /\ Len(data) \in Nat
  BY <1>1 DEF LoopOver
<1>3. messsge_data + 4 <= Len(msg.body)
  BY <1>1, <1>2
<1>4. PICK i : i = messsge_data + 1
  OBVIOUS
<1>5. i \in 1..Len(data) /\ i + 3 <= Len(data)
  BY <1>1, <1>2, <1>4
<1>6. FourBytes(data, i) \in Nat
  BY <1>1, <1>5, FourBytesTyped
<1>7. PICK l : l = FourBytes(data, i) + 4
  OBVIOUS
<1>8. l \in Nat /\ UintMod \in Nat \ {0}
  BY <1>6, <1>7, ByteFacts
<1>9. l % UintMod \in 0..(UintMod - 1)
  BY <1>8, Division
<1>10. AfterNal = l % UintMod
  BY <1>4, <1>7 DEF AfterNal
<1>11. AfterNal \in Nat
  BY <1>8, <1>9, <1>10
<1> QED BY <1>3, <1>4, <1>6, <1>11

(* The four bytes are bytes, and nothing else changes. *)
LEMMA MarkedIs ==
  ASSUME data \in Seq(Byte), messsge_data \in Nat
  PROVE  /\ Marked \in Seq(Byte) /\ Len(Marked) = Len(data)
         /\ \A p \in 1..Len(data) :
              Marked[p] = IF p - messsge_data \in 1..4 THEN StartCode[p - messsge_data] ELSE data[p]
<1>1. PICK n, x, s, d : n = Len(data) /\ x = messsge_data /\ s = StartCode /\ d = data
  OBVIOUS
<1>2. n \in Nat /\ x \in Nat /\ DOMAIN d = 1..n /\ \A p \in 1..n : d[p] \in Byte
  BY <1>1
<1>3. \A k \in 1..4 : s[k] \in Byte
  <2>1. s = <<0, 0, 0, 1>> /\ s \in Seq(Byte) /\ Len(s) = 4
    BY <1>1, ByteFacts DEF StartCode
  <2>2. 0 \in Byte /\ 1 \in Byte
    BY ByteFacts DEF Byte
  <2>3. s[1] = 0 /\ s[2] = 0 /\ s[3] = 0 /\ s[4] = 1
    BY <2>1
  <2> QED BY <2>2, <2>3
<1>4. PICK f : f = [p \in 1..n |-> IF p - x \in 1..4 THEN s[p - x] ELSE d[p]]
  OBVIOUS
<1>5. \A p \in 1..n : f[p] = IF p - x \in 1..4 THEN s[p - x] ELSE d[p]
  BY <1>4
<1>6. DOMAIN f = 1..n /\ f = [p \in DOMAIN f |-> f[p]]
  BY <1>4
<1>7. \A p \in 1..n : f[p] \in Byte
  BY <1>2, <1>3, <1>5
<1>8. f \in Seq(Byte) /\ Len(f) = n
  BY <1>2, <1>6, <1>7, SequenceFrom
<1>9. Marked = f
  BY <1>1, <1>2, <1>4 DEF Marked
<1> QED BY <1>1, <1>5, <1>8, <1>9

(* The loop goes from the end of one NAL unit to the end of the next. *)
LEMMA LoopStands ==
  ASSUME TypeOK, NalInv, pc = "nal", msg.nals # <<>>,
         NEW e, e = Ends(WithLengths(msg.nals)),
         NEW j \in 0..Len(msg.nals), messsge_data = e[j],
         \A p \in 1..messsge_data : data[p] = AnnexB(msg.nals)[p],
         \A p \in (messsge_data + 1)..Len(msg.body) : data[p] = msg.body[p]
  PROVE  /\ LoopOver => messsge_data = Len(msg.body)
         /\ ~LoopOver =>
              /\ j + 1 \in 0..Len(msg.nals) /\ ~TooLong
              /\ messsge_data + AfterNal = e[j + 1]
              /\ \A p \in 1..e[j + 1] : Marked[p] = AnnexB(msg.nals)[p]
              /\ \A p \in (e[j + 1] + 1)..Len(msg.body) : Marked[p] = msg.body[p]
<1>1. PICK nals, body, n, x, b :
        /\ nals = msg.nals /\ body = msg.body /\ n = Len(nals) /\ x = messsge_data
        /\ b = AnnexB(nals)
  OBVIOUS
<1>2. /\ data \in Seq(Byte) /\ x \in Nat /\ data_len \in Nat
      /\ x + data_len = Len(body) /\ Len(data) >= Len(body)
  BY <1>1 DEF TypeOK, NalInv
<1>3. VideoMessage(msg) /\ ~IsSequenceHeader(msg)
  BY DEF NalInv
<1>4. /\ nals \in Seq(Seq(Byte)) /\ nals # <<>> /\ body \in Seq(Byte) /\ Len(body) \in Nat
      /\ body = Avcc(nals) /\ Len(body) < UintMod
      /\ \A i \in 1..n : nals[i] # <<>>
  BY <1>1, <1>3, PictureIs
<1>5. e = Ends(WithLengths(nals)) /\ j \in 0..n /\ x = e[j]
  BY <1>1
<1>6. /\ n \in Nat \ {0}
      /\ \A i \in 0..n : e[i] \in Nat /\ e[i] <= Len(body)
      /\ e[n] = Len(body)
      /\ \A i \in 1..n : Len(nals[i]) \in Nat /\ e[i] = e[i - 1] + 4 + Len(nals[i])
  BY <1>1, <1>4, <1>5, PictureParts
<1>7. /\ \A i \in 1..n : FourBytes(body, e[i - 1] + 1) = Len(nals[i])
      /\ \A i \in 1..n : \A p \in (e[i - 1] + 1)..e[i] : b[p] = Converted(body, e[i - 1], p)
  BY SMTT(30), <1>1, <1>4, <1>5, PictureParts
<1>8. /\ \A p \in 1..x : data[p] = b[p]
      /\ \A p \in (x + 1)..Len(body) : data[p] = body[p]
  BY <1>1
<1>9. ASSUME j # n
      PROVE  /\ j + 1 \in 1..n /\ j + 1 \in 0..n /\ (j + 1) - 1 = j
             /\ Len(nals[j + 1]) \in Nat \ {0}
             /\ e[j + 1] = x + 4 + Len(nals[j + 1]) /\ e[j + 1] <= Len(body) /\ e[j + 1] \in Nat
  <2>1. j + 1 \in 1..n /\ j + 1 \in 0..n /\ (j + 1) - 1 = j
    BY <1>5, <1>6, <1>9
  <2>2. nals[j + 1] # <<>> /\ nals[j + 1] \in Seq(Byte)
    BY <1>1, <1>4, <2>1
  <2>3. Len(nals[j + 1]) # 0
    BY <2>2
  <2> QED BY <1>5, <1>6, <2>1, <2>3
<1>10. ASSUME LoopOver PROVE x = Len(body)
  <2>1. data_len <= 4
    BY <1>10 DEF LoopOver
  <2>2. CASE j = n
    BY <1>5, <1>6, <2>2
  <2>3. CASE j # n
    <3>1. PICK y, l : y = e[j + 1] /\ l = Len(nals[j + 1])
      OBVIOUS
    <3>2. l \in Nat \ {0} /\ y = x + 4 + l /\ y <= Len(body)
      BY <1>9, <2>3, <3>1
    <3> QED BY <1>2, <1>4, <2>1, <3>2
  <2> QED BY <2>2, <2>3
<1>11. ASSUME ~LoopOver
       PROVE  /\ j + 1 \in 0..n /\ ~TooLong /\ x + AfterNal = e[j + 1]
              /\ \A p \in 1..e[j + 1] : Marked[p] = b[p]
              /\ \A p \in (e[j + 1] + 1)..Len(body) : Marked[p] = body[p]
  <2>1. j # n
    BY <1>2, <1>5, <1>6, <1>11 DEF LoopOver
  <2>2. PICK y, l : y = e[j + 1] /\ l = Len(nals[j + 1])
    OBVIOUS
  <2>3. /\ j + 1 \in 1..n /\ j + 1 \in 0..n /\ (j + 1) - 1 = j
        /\ l \in Nat \ {0} /\ y = x + 4 + l /\ y <= Len(body) /\ y \in Nat
    BY <1>9, <2>1, <2>2
  <2>4. FourBytes(body, x + 1) = l
    BY <1>5, <1>7, <2>2, <2>3
  <2>5. FourBytes(data, x + 1) = l
    <3>4. \A k \in 1..4 : x + k \in (x + 1)..Len(body)
      BY SMTT(30), <1>2, <1>4, <2>3
    <3>1. \A k \in 1..4 : data[x + k] = body[x + k]
      BY <1>8, <3>4
    <3>2. /\ data[x + 1] = body[x + 1] /\ data[x + 2] = body[x + 2]
          /\ data[x + 3] = body[x + 3] /\ data[x + 4] = body[x + 4]
      BY <3>1
    <3>3. (x + 1) + 1 = x + 2 /\ (x + 1) + 2 = x + 3 /\ (x + 3) + 1 = x + 4
      BY <1>2
    <3> QED BY <2>4, <3>2, <3>3 DEF FourBytes, TwoBytes
  <2>6. AfterNal = l + 4
    <3>1. UintMod \in Nat \ {0} /\ l + 4 \in 0..(UintMod - 1)
      BY <1>2, <1>4, <2>3, ByteFacts
    <3>2. (UintMod * 0 + (l + 4)) % UintMod = l + 4
      BY <3>1, DivisionUnique
    <3>3. UintMod * 0 + (l + 4) = l + 4
      BY <2>3, <3>1
    <3> QED BY <1>1, <2>5, <3>2, <3>3 DEF AfterNal
  <2>7. ~TooLong /\ x + AfterNal = y
    BY <1>2, <1>4, <2>3, <2>6 DEF TooLong
  <2>8. \A p \in 1..Len(data) : Marked[p] = IF p - x \in 1..4 THEN StartCode[p - x] ELSE data[p]
    BY <1>1, <1>2, MarkedIs
  <2>9. \A p \in (x + 1)..y : b[p] = Converted(body, x, p)
    BY <1>5, <1>7, <2>2, <2>3
  <2>10. ASSUME NEW p \in 1..y PROVE Marked[p] = b[p]
    <3>1. p \in 1..Len(data) /\ p \in 1..Len(body) /\ p \in Int
      BY <1>2, <1>4, <2>3
    <3>2. CASE p <= x
      <4>1. p \in 1..x /\ p - x \notin 1..4
        BY <1>2, <3>1, <3>2
      <4> QED BY <1>8, <2>8, <3>1, <4>1
    <3>3. CASE p > x
      <4>1. p \in (x + 1)..y /\ p \in (x + 1)..Len(body)
        BY <1>2, <1>4, <2>3, <3>1, <3>3
      <4>2. data[p] = body[p]
        BY <1>8, <4>1
      <4> QED BY <2>8, <2>9, <3>1, <4>1, <4>2 DEF Converted
    <3> QED BY <1>2, <3>1, <3>2, <3>3
  <2>11. ASSUME NEW p \in (y + 1)..Len(body) PROVE Marked[p] = body[p]
    <3>1. Len(data) \in Nat /\ Len(body) \in Nat /\ Len(body) <= Len(data)
      BY <1>2, <1>4
    <3>2. p \in Int /\ y + 1 <= p /\ p <= Len(body) /\ y = x + 4 + l /\ x \in Nat /\ l \in Nat
      BY <1>2, <1>4, <2>3
    <3>3. p \in 1..Len(data) /\ p \in (x + 1)..Len(body) /\ p - x \notin 1..4
      BY <3>1, <3>2
    <3>4. data[p] = body[p]
      BY <1>8, <3>3
    <3> QED BY <2>8, <3>3, <3>4
  <2> QED BY <2>2, <2>3, <2>7, <2>10, <2>11
<1> QED BY <1>1, <1>10, <1>11

LEMMA ConvertNalKeeps ==
  ASSUME DemuxInv, ConvertNal
  PROVE  DemuxInv'
<1>1. /\ TypeOK /\ NalInv /\ HeadInv /\ AudioInv /\ FramesInv
      /\ pc = "nal" /\ ~LoopOver /\ UNCHANGED <<msg, headVars, taken, frames>>
  BY DEF DemuxInv, ConvertNal
<1>2. UNCHANGED <<msg, taken, frames>> /\ UNCHANGED <<video_head_data, video_head_data_len>>
      /\ UNCHANGED <<audio_head_data, audio_head_data_len>>
  BY <1>1 DEF headVars
<1>3. AudioInv'
  BY <1>1, <1>2 DEF AudioInv, AdtsOf, LatestConfig, LastBefore
<1>4. FramesInv'
  <2>1. taken' = taken /\ Len(taken) \in Nat
    BY <1>1, <1>2 DEF TypeOK
  <2>2. \A f \in Range(frames) : FrameRight(f)'
    BY <1>1, <2>1, FrameKept DEF FramesInv
  <2> QED BY <1>1, <1>2, <2>2 DEF FramesInv
<1>5. HeadInv'
  BY <1>1, <1>2 DEF HeadInv, HeadOf, OneSps, FirstSets, LatestHeader, LastBefore
<1>6. /\ AfterNal \in Nat /\ messsge_data \in Nat /\ data_len \in Nat /\ data \in Seq(Byte)
      /\ messsge_data + data_len = Len(msg.body) /\ msg # NoMessage
  BY <1>1, LoopTyped DEF TypeOK
<1>7. CASE TooLong
  <2>1. pc' = "done" /\ UNCHANGED <<data, messsge_data, data_len>>
    BY <1>7 DEF ConvertNal
  <2>2. TypeOK'
    BY <1>1, <1>2, <2>1 DEF TypeOK
  <2>3. NalInv'
    BY <2>1 DEF NalInv
  <2> QED BY <1>3, <1>4, <1>5, <2>2, <2>3 DEF DemuxInv
<1>8. CASE ~TooLong
  <2>1. /\ data' = Marked /\ messsge_data' = messsge_data + AfterNal
        /\ data_len' = data_len - AfterNal /\ pc' = pc
    BY <1>8 DEF ConvertNal
  <2>2. Marked \in Seq(Byte) /\ Len(Marked) = Len(data)
    BY <1>6, MarkedIs
  <2>3. /\ messsge_data' \in Nat /\ data_len' \in Nat
        /\ messsge_data' + data_len' = Len(msg.body)
    <3>1. PICK a, x, d, n : a = AfterNal /\ x = messsge_data /\ d = data_len /\ n = Len(msg.body)
      OBVIOUS
    <3>2. a \in Nat /\ x \in Nat /\ d \in Nat /\ x + d = n /\ a <= d
      BY <1>6, <1>8, <3>1 DEF TooLong
    <3>3. x + a \in Nat /\ d - a \in Nat /\ (x + a) + (d - a) = n
      BY <3>2
    <3> QED BY <2>1, <3>1, <3>3
  <2>4. TypeOK'
    <3>1. data' \in Seq(Byte)
      BY <2>1, <2>2
    <3> QED BY <1>1, <1>2, <1>6, <2>1, <2>3, <3>1 DEF TypeOK
  <2>5. NalInv'
    <3>1. /\ msg \in Messages /\ VideoMessage(msg) /\ msg.codec_id = 7 /\ ~IsSequenceHeader(msg)
          /\ Len(taken) > 0 /\ msg = taken[Len(taken)] /\ Len(data) >= Len(msg.body)
      BY <1>1 DEF NalInv
    <3>2. Len(data') >= Len(msg.body)
      BY <2>1, <2>2, <3>1
    <3>3. ASSUME msg.nals # <<>>
          PROVE  \E j \in 0..Len(msg.nals) :
                   /\ messsge_data' = Ends(WithLengths(msg.nals))[j]
                   /\ \A p \in 1..messsge_data' : data'[p] = AnnexB(msg.nals)[p]
                   /\ \A p \in (messsge_data' + 1)..Len(msg.body) : data'[p] = msg.body[p]
      <4>1. PICK e : e = Ends(WithLengths(msg.nals))
        OBVIOUS
      <4>2. PICK j \in 0..Len(msg.nals) :
              /\ messsge_data = e[j]
              /\ \A p \in 1..messsge_data : data[p] = AnnexB(msg.nals)[p]
              /\ \A p \in (messsge_data + 1)..Len(msg.body) : data[p] = msg.body[p]
        BY <1>1, <3>3, <4>1 DEF NalInv
      <4>3. /\ j + 1 \in 0..Len(msg.nals)
            /\ messsge_data + AfterNal = e[j + 1]
            /\ \A p \in 1..e[j + 1] : Marked[p] = AnnexB(msg.nals)[p]
            /\ \A p \in (e[j + 1] + 1)..Len(msg.body) : Marked[p] = msg.body[p]
        BY <1>1, <3>3, <4>1, <4>2, LoopStands
      <4>4. messsge_data' = e[j + 1] /\ data' = Marked
        BY <2>1, <4>3
      <4> QED BY <4>1, <4>3, <4>4
    <3> QED BY <1>2, <3>1, <3>2, <3>3 DEF NalInv
  <2> QED BY <1>3, <1>4, <1>5, <2>4, <2>5 DEF DemuxInv
<1> QED BY <1>7, <1>8

(* A message that is not of the kind does not change which one is last. *)
LEMMA LastBeforeSkips ==
  ASSUME NEW n \in Nat \ {0}, NEW kind, taken[n] \notin kind
  PROVE  LastBefore(n + 1, kind) = LastBefore(n, kind)
<1>1. PICK m, old, new : /\ m = n + 1
                         /\ old = {k \in 1..(n - 1) : taken[k] \in kind}
                         /\ new = {k \in 1..((n + 1) - 1) : taken[k] \in kind}
  OBVIOUS
<1>2. \A k : k \in 1..((n + 1) - 1) <=> k \in 1..(n - 1) \/ k = n
  OBVIOUS
<1>3. \A k : k \in new <=> k \in old
  BY <1>1, <1>2
<1>4. new = old
  BY <1>3
<1>5. LastBefore(n, kind) = IF old = {} THEN 0 ELSE CHOOSE k \in old : \A l \in old : l <= k
  BY <1>1 DEF LastBefore
<1>6. LastBefore(n + 1, kind) = IF new = {} THEN 0 ELSE CHOOSE k \in new : \A l \in new : l <= k
  BY <1>1 DEF LastBefore
<1> QED BY <1>4, <1>5, <1>6

(* One more pack is handed over. *)
LEMMA FramesAppended ==
  ASSUME frames \in Seq(Handed), NEW f \in Handed, frames' = Append(frames, f),
         \A g \in Range(frames) : FrameRight(g)', FrameRight(f)'
  PROVE  FramesInv' /\ \A k \in 1..Len(frames') : frames'[k].of \in 1..Len(taken')
<1>1. frames' \in Seq(Handed) /\ Len(frames') = Len(frames) + 1 /\ Len(frames) \in Nat
  OBVIOUS
<1>2. /\ \A k \in 1..Len(frames) : frames'[k] = frames[k] /\ frames[k] \in Range(frames)
      /\ frames'[Len(frames) + 1] = f
  BY DEF Range
<1>3. ASSUME NEW k \in 1..Len(frames') PROVE frames'[k].of \in 1..Len(taken')
  <2>1. PICK g : g = frames'[k]
    OBVIOUS
  <2>2. k \in 1..Len(frames) \/ k = Len(frames) + 1
    BY <1>1
  <2>3. g \in Range(frames) \/ g = f
    BY <1>2, <2>1, <2>2
  <2>4. FrameRight(g)'
    BY <2>3
  <2>5. g.of \in 1..Len(taken')
    BY <2>4 DEF FrameRight
  <2> QED BY <2>1, <2>5
<1>5. ASSUME NEW g \in Range(frames') PROVE FrameRight(g)'
  <2>1. PICK k \in 1..Len(frames') : g = frames'[k]
    BY <1>1 DEF Range
  <2>2. k \in 1..Len(frames) \/ k = Len(frames) + 1
    BY <1>1
  <2>3. g \in Range(frames) \/ g = f
    BY <1>2, <2>1, <2>2
  <2> QED BY <2>3
<1> QED BY <1>1, <1>3, <1>5 DEF FramesInv

(* When the loop is over the picture is converted, up to its last byte.    *)
LEMMA PictureDone ==
  ASSUME TypeOK, NalInv, pc = "nal", LoopOver, msg.nals # <<>>
  PROVE  /\ SubSeq(data, 1, Len(msg.body)) = AnnexB(msg.nals)
         /\ StartsWith(data, StartCode)
<1>1. PICK nals, body, n, e, b :
        /\ nals = msg.nals /\ body = msg.body /\ n = Len(nals)
        /\ e = Ends(WithLengths(nals)) /\ b = AnnexB(nals)
  OBVIOUS
<1>2. VideoMessage(msg) /\ ~IsSequenceHeader(msg) /\ Len(data) >= Len(body)
  BY <1>1 DEF NalInv
<1>3. data \in Seq(Byte) /\ Len(data) \in Nat
  BY DEF TypeOK
<1>4. /\ nals \in Seq(Seq(Byte)) /\ nals # <<>> /\ body \in Seq(Byte) /\ Len(body) \in Nat
      /\ body = Avcc(nals) /\ Len(body) < UintMod
      /\ \A i \in 1..n : nals[i] # <<>>
  BY <1>1, <1>2, PictureIs
<1>5. PICK j \in 0..Len(msg.nals) :
        /\ messsge_data = Ends(WithLengths(msg.nals))[j]
        /\ \A p \in 1..messsge_data : data[p] = AnnexB(msg.nals)[p]
        /\ \A p \in (messsge_data + 1)..Len(msg.body) : data[p] = msg.body[p]
  BY DEF NalInv
<1>6. messsge_data = Len(msg.body)
  BY <1>1, <1>5, LoopStands
<1>7. \A p \in 1..Len(body) : data[p] = b[p]
  BY <1>1, <1>5, <1>6
<1>8. b \in Seq(Byte) /\ Len(b) = Len(body)
  BY <1>1, <1>4, PictureParts
<1>9. SubSeq(data, 1, Len(b)) = b
  BY <1>2, <1>3, <1>7, <1>8, FrontIs
<1>10. /\ n \in Nat \ {0} /\ e[0] = 0
       /\ \A i \in 0..n : e[i] \in Nat /\ e[i] <= Len(body)
       /\ \A i \in 1..n : Len(nals[i]) \in Nat /\ e[i] = e[i - 1] + 4 + Len(nals[i])
       /\ \A i \in 1..n : \A p \in (e[i - 1] + 1)..e[i] : b[p] = Converted(body, e[i - 1], p)
  BY SMTT(30), <1>1, <1>4, PictureParts
<1>11. PICK l : l = Len(nals[1])
  OBVIOUS
<1>12. l \in Nat \ {0} /\ e[1] = 4 + l /\ e[1] <= Len(body)
  <2>1. 1 \in 1..n /\ 1 \in 0..n /\ 1 - 1 = 0
    BY <1>10
  <2>2. l \in Nat /\ e[1] = e[0] + 4 + l /\ e[1] <= Len(body)
    BY <1>10, <1>11, <2>1
  <2>3. nals[1] # <<>> /\ nals[1] \in Seq(Byte)
    BY <1>1, <1>4, <2>1
  <2>4. l # 0
    BY <1>11, <2>3
  <2> QED BY <1>10, <2>2, <2>4
<1>13. \A p \in 1..4 : data[p] = StartCode[p]
  <2> SUFFICES ASSUME NEW p \in 1..4 PROVE data[p] = StartCode[p]
    OBVIOUS
  <2>1. p \in (0 + 1)..(4 + l) /\ p \in 1..Len(body) /\ p - 0 = p /\ p - 0 \in 1..4
    BY <1>4, <1>12
  <2>2. 1 \in 1..n /\ 1 - 1 = 0
    BY <1>10
  <2>3. \A q \in (e[0] + 1)..e[1] : b[q] = Converted(body, e[0], q)
    BY <1>10, <2>2
  <2>4. b[p] = Converted(body, 0, p)
    BY <1>10, <1>12, <2>1, <2>3
  <2>5. Converted(body, 0, p) = StartCode[p]
    BY <2>1 DEF Converted
  <2> QED BY <1>7, <2>1, <2>4, <2>5
<1>14. StartCode \in Seq(Byte) /\ Len(StartCode) = 4
  BY ByteFacts
<1>15. Len(data) > Len(StartCode)
  BY <1>2, <1>3, <1>4, <1>12, <1>14
<1>16. SubSeq(data, 1, Len(StartCode)) = StartCode
  <2>1. Len(StartCode) <= Len(data)
    BY <1>3, <1>14, <1>15
  <2>2. \A p \in 1..Len(StartCode) : data[p] = StartCode[p]
    BY <1>13, <1>14
  <2> QED BY <1>3, <1>14, <2>1, <2>2, FrontIs
<1> QED BY <1>1, <1>8, <1>9, <1>15, <1>16 DEF StartsWith

LEMMA HandPictureKeeps ==
  ASSUME DemuxInv, HandPicture
  PROVE  DemuxInv'
<1>1. /\ TypeOK /\ NalInv /\ HeadInv /\ AudioInv /\ frames \in Seq(Handed)
      /\ \A g \in Range(frames) : FrameRight(g)
      /\ pc = "nal" /\ LoopOver /\ pc' \in {"idle", "done"}
  BY DEF DemuxInv, FramesInv, HandPicture, Survives
<1>2. UNCHANGED <<msg, data, messsge_data, data_len>> /\ UNCHANGED taken
      /\ UNCHANGED <<video_head_data, video_head_data_len>>
      /\ UNCHANGED <<audio_head_data, audio_head_data_len>>
  BY DEF HandPicture, pictureVars, headVars
<1>3. PICK n : n = Len(taken)
  OBVIOUS
<1>4. /\ msg \in Messages /\ VideoMessage(msg) /\ msg.codec_id = 7 /\ ~IsSequenceHeader(msg)
      /\ n \in Nat \ {0} /\ msg = taken[n] /\ taken \in Seq(Messages)
  BY <1>1, <1>3 DEF NalInv, TypeOK
<1>5. PICK f : f = [type       |-> "h264",
                    of         |-> n,
                    picture_ms |-> (msg.ts + Offset(msg)) % TimeMod,
                    key        |-> msg.key,
                    head_len   |-> IF msg.key THEN video_head_data_len ELSE 0,
                    head       |-> IF msg.key THEN video_head_data ELSE <<>>,
                    data_len   |-> Len(msg.body),
                    data       |-> data]
  OBVIOUS
<1>6. frames' = Append(frames, f)
  BY <1>3, <1>5 DEF HandPicture
<1>7. f \in Handed
  <2>1. msg.ts \in Nat /\ msg.composition_time \in Nat /\ msg.key \in BOOLEAN /\ msg.body \in Seq(Byte)
    BY <1>4 DEF VideoMessage
  <2>2. Offset(msg) \in Nat /\ TimeMod \in Nat \ {0}
    BY <2>1, AvAssumption DEF Offset
  <2>3. (msg.ts + Offset(msg)) % TimeMod \in Nat
    <3>1. PICK t : t = msg.ts + Offset(msg)
      OBVIOUS
    <3>2. t \in Nat
      BY <2>1, <2>2, <3>1
    <3>3. t % TimeMod \in 0..(TimeMod - 1)
      BY <2>2, <3>2, Division
    <3> QED BY <2>2, <3>1, <3>3
  <2>4. video_head_data \in Seq(Byte) /\ video_head_data_len \in Nat /\ data \in Seq(Byte)
    BY <1>1 DEF TypeOK
  <2>5. PICK ms, hl, h, dl :
          /\ ms = f.picture_ms /\ hl = f.head_len /\ h = f.head /\ dl = f.data_len
    OBVIOUS
  <2>6. ms \in Nat /\ hl \in Nat /\ h \in Seq(Byte) /\ dl \in Nat
    <3>1. ms \in Nat
      BY <1>5, <2>3, <2>5
    <3>2. hl \in Nat
      BY <1>5, <2>4, <2>5
    <3>3. h \in Seq(Byte)
      BY <1>5, <2>4, <2>5
    <3>4. dl \in Nat
      BY <1>5, <2>1, <2>5
    <3> QED BY <3>1, <3>2, <3>3, <3>4
  <2>7. f = [type |-> "h264", of |-> n, picture_ms |-> ms, key |-> msg.key, head_len |-> hl,
             head |-> h, data_len |-> dl, data |-> data]
    BY <1>5, <2>5
  <2> QED BY <1>4, <2>1, <2>4, <2>6, <2>7 DEF Handed
<1>8. FrameRight(f)
  <2>1. f.of \in 1..Len(taken) /\ taken[f.of] = msg /\ f.of = n
    BY <1>3, <1>4, <1>5
  <2>2. NalsOf(f)
    <3>1. f.data = data /\ f.data_len = Len(msg.body)
      BY <1>5
    <3> QED BY <1>1, <2>1, <3>1, PictureDone DEF NalsOf
  <2>3. LastBefore(n, SequenceHeaders) = LatestHeader
    <3>1. taken[n] \notin SequenceHeaders
      BY <1>4, MessageKinds
    <3> QED BY <1>3, <1>4, <3>1, LastBeforeSkips DEF LatestHeader
  <2>4. PICK h : h = LatestHeader
    OBVIOUS
  <2>5. h > 0 => HeadOf(taken[h])
    BY <1>1, <2>4 DEF HeadInv
  <2>6. HeadIn(f)
    <3>1. ~f.key => f.head_len = 0
      BY <1>5
    <3>2. ASSUME f.key, h > 0
          PROVE  /\ f.head \in Seq(Byte) /\ f.head_len = Len(f.head)
                 /\ f.head_len > 4 /\ f.head_len <= 2 * MaxParameterSet + 8
                 /\ OneSps(taken[h]) => f.head = AnnexB(FirstSets(taken[h]))
      <4>1. f.head = video_head_data /\ f.head_len = video_head_data_len
        BY <1>5, <3>2
      <4>2. video_head_data \in Seq(Byte)
        BY <1>1 DEF TypeOK
      <4> QED BY <2>5, <3>2, <4>1, <4>2 DEF HeadOf
    <3> QED BY <2>1, <2>3, <2>4, <3>1, <3>2 DEF HeadIn
  <2>7. AdtsIn(f)
    BY <1>5 DEF AdtsIn
  <2>8. CodeInFront(f)
    <3>1. CASE f.key
      <4> SUFFICES ASSUME h > 0 PROVE StartsWith(UnitBytes(f), StartCode)
        BY <2>1, <2>3, <2>4, <3>1 DEF CodeInFront
      <4>1. UnitBytes(f) = video_head_data
        BY <1>5, <3>1 DEF UnitBytes
      <4>2. /\ video_head_data_len = Len(video_head_data) /\ video_head_data_len > 4
            /\ SubSeq(video_head_data, 1, 4) = StartCode /\ Len(StartCode) = 4
        BY <2>5, ByteFacts DEF HeadOf
      <4> QED BY <4>1, <4>2 DEF StartsWith
    <3>2. CASE ~f.key
      <4>1. UnitBytes(f) = data
        BY <1>5, <3>2 DEF UnitBytes
      <4>2. msg.nals # <<>> => StartsWith(data, StartCode)
        BY <1>1, PictureDone
      <4> QED BY <2>1, <4>1, <4>2 DEF CodeInFront
    <3> QED BY <3>1, <3>2
  <2>9. FromMessage(f)
    <3>1. msg.type = "video" /\ Len(msg.body) <= Len(data)
      <4>1. Len(msg.body) \in Nat /\ Len(data) \in Nat /\ Len(data) >= Len(msg.body)
        BY <1>1 DEF NalInv, VideoMessage, TypeOK
      <4> QED BY <1>4, <4>1 DEF VideoMessage
    <3>2. /\ f.type = "h264" /\ f.key = msg.key /\ f.data_len = Len(msg.body)
          /\ f.data = data /\ f.picture_ms = (msg.ts + Offset(msg)) % TimeMod
      BY <1>5
    <3>3. ~IsSequenceHeader(msg)
      BY <1>4
    <3> QED BY <2>1, <3>1, <3>2, <3>3 DEF FromMessage
  <2> QED BY <2>1, <2>2, <2>6, <2>7, <2>8, <2>9 DEF FrameRight
<1>9. Len(taken) \in Nat /\ taken' = taken
  BY <1>2, <1>4
<1>10. FrameRight(f)' /\ \A g \in Range(frames) : FrameRight(g)'
  BY <1>1, <1>8, <1>9, FrameKept
<1>11. FramesInv' /\ \A k \in 1..Len(frames') : frames'[k].of \in 1..Len(taken')
  BY <1>1, <1>6, <1>7, <1>10, FramesAppended
<1>12. TypeOK'
  BY <1>1, <1>2, <1>11 DEF TypeOK
<1>13. NalInv'
  BY <1>1 DEF NalInv
<1>14. HeadInv' /\ AudioInv'
  <2>1. HeadInv'
    BY <1>1, <1>2 DEF HeadInv, HeadOf, OneSps, FirstSets, LatestHeader, LastBefore
  <2>2. AudioInv'
    BY <1>1, <1>2 DEF AudioInv, AdtsOf, LatestConfig, LastBefore
  <2> QED BY <2>1, <2>2
<1> QED BY <1>11, <1>12, <1>13, <1>14 DEF DemuxInv

-----------------------------------------------------------------------------
(* Audio frames.  The bits of the length go into two bits of byte 3 that   *)
(* are 0, and are read back, up to 13 of them.                             *)
TopBits(len)   == (len \div 2048) % 4
LengthIn(adts) == (adts.b3 % 4) * 2048 + adts.b4 * 8 + adts.b5 \div 32

LEMMA AdtsLength ==
  ASSUME NEW a \in Adts, a.b3 % 4 = 0, NEW len \in Nat, NEW adts, adts = WithLength(a, len)
  PROVE  /\ adts \in Adts /\ adts.b2 = a.b2
         /\ TopBits(len) \in 0..3 /\ adts.b3 = a.b3 + TopBits(len)
         /\ LengthIn(adts) = len % 8192
<1>1. PICK b3, x, y, z : /\ b3 = a.b3 /\ x = (len \div 2048) % 4
                         /\ y = (len \div 8) % 256 /\ z = len % 8
  OBVIOUS
<1>2. b3 \in 0..255 /\ b3 % 4 = 0 /\ a.b2 \in 0..255
  BY <1>1 DEF Adts, AdtsBytes
<1>3. x \in 0..3 /\ y \in 0..255 /\ z \in 0..7
  BY <1>1
<1>4. OrTwoBits(0, x) = x
  BY <1>3 DEF OrTwoBits
<1>5. (b3 \div 4) * 4 = b3 /\ b3 + x \in 0..255 /\ (b3 + x) % 4 = x
  BY <1>2, <1>3
<1>6. /\ a = [b2 |-> a.b2, b3 |-> a.b3, b4 |-> a.b4, b5 |-> a.b5]
  BY DEF Adts
<1>7. adts = [a EXCEPT !.b3 = (b3 \div 4) * 4 + OrTwoBits(b3 % 4, x), !.b4 = y, !.b5 = z * 32]
  BY <1>1 DEF WithLength
<1>8. adts = [b2 |-> a.b2, b3 |-> b3 + x, b4 |-> y, b5 |-> z * 32]
  <2>1. (b3 \div 4) * 4 + OrTwoBits(b3 % 4, x) = b3 + x
    BY <1>2, <1>4, <1>5
  <2>2. adts = [a EXCEPT !.b3 = b3 + x, !.b4 = y, !.b5 = z * 32]
    BY <1>7, <2>1
  <2> QED BY <1>6, <2>2
<1>9. z * 32 \in 0..255 /\ (z * 32) \div 32 = z
  BY <1>3
<1>10. adts \in Adts
  BY <1>2, <1>3, <1>5, <1>8, <1>9 DEF Adts, AdtsBytes
<1>11. x * 2048 + y * 8 + z = len % 8192
  <2>1. len \div 2048 = (len \div 8) \div 256
    OBVIOUS
  <2>2. PICK k : k = len \div 8
    OBVIOUS
  <2>3. k \in Nat /\ len = 8 * k + z /\ x = (k \div 256) % 4 /\ y = k % 256
    BY <1>1, <2>1, <2>2
  <2>4. PICK l : l = k \div 256
    OBVIOUS
  <2>5. l \in Nat /\ k = 256 * l + y /\ x = l % 4
    BY <2>3, <2>4
  <2>6. PICK i : i = l \div 4
    OBVIOUS
  <2>7. i \in Nat /\ l = 4 * i + x
    BY <2>5, <2>6
  <2>8. PICK r : r = x * 2048 + y * 8 + z
    OBVIOUS
  <2>9. r \in 0..(8192 - 1)
    BY SMTT(30), <1>3, <2>8
  <2>10. x \in Int /\ y \in Int /\ z \in Int /\ k \in Int /\ l \in Int /\ i \in Int
    BY <1>3, <2>3, <2>5, <2>7
  <2>11. len = 8 * k + z /\ k = 256 * l + y /\ l = 4 * i + x
    BY <2>3, <2>5, <2>7
  <2>12. len = 8192 * i + r
    BY <2>8, <2>10, <2>11
  <2>13. (8192 * i + r) % 8192 = r
    BY SMTT(30), <2>7, <2>9, DivisionUnique
  <2> QED BY <2>8, <2>12, <2>13
<1>12. /\ adts.b2 = a.b2 /\ adts.b3 = b3 + x
       /\ (adts.b3 % 4) * 2048 + adts.b4 * 8 + adts.b5 \div 32 = len % 8192
  BY <1>5, <1>8, <1>9, <1>11
<1>13. TopBits(len) = x /\ LengthIn(adts) = len % 8192
  BY <1>1, <1>12 DEF TopBits, LengthIn
<1>14. adts.b3 = a.b3 + TopBits(len)
  BY <1>1, <1>12, <1>13
<1> QED BY <1>3, <1>10, <1>12, <1>13, <1>14

(* What is read from the bytes of an audio header. *)
SecondByte(m) == ((m.object - 1) % 4) * 64 + m.frequency * 4 + ((m.channels \div 4) % 2)
ThirdByte(m)  == (m.channels % 4) * 64

LEMMA AdtsHeadRead ==
  ASSUME NEW m, m.object \in Nat, m.frequency \in 0..15, m.channels \in 0..15,
         NEW adts, adts.b2 = SecondByte(m),
         NEW x \in 0..3, adts.b3 = ThirdByte(m) + x
  PROVE  AdtsRead(adts) = [profile   |-> (m.object - 1) % 4, frequency |-> m.frequency,
                           channels  |-> m.channels % 8, frame_len |-> LengthIn(adts)]
<1>1. PICK p, h, q, frequency, channels, b2, b3 :
        /\ p = (m.object - 1) % 4 /\ h = (m.channels \div 4) % 2 /\ q = m.channels % 4
        /\ frequency = m.frequency /\ channels = m.channels /\ b2 = adts.b2 /\ b3 = adts.b3
  OBVIOUS
<1>2. p \in 0..3 /\ h \in 0..1 /\ q \in 0..3 /\ frequency \in 0..15 /\ channels \in 0..15
  BY <1>1
<1>3. b2 = p * 64 + frequency * 4 + h /\ b3 = q * 64 + x
  BY <1>1 DEF SecondByte, ThirdByte
<1>4. b2 \div 64 = p /\ (b2 \div 4) % 16 = frequency /\ b2 % 2 = h
  BY <1>2, <1>3
<1>5. b3 \div 64 = q
  BY <1>2, <1>3
<1>6. h * 4 + q = channels % 8
  <2>1. h = (channels \div 4) % 2 /\ q = channels % 4
    BY <1>1
  <2>2. \A c \in 0..15 : ((c \div 4) % 2) * 4 + (c % 4) = c % 8
    OBVIOUS
  <2> QED BY <1>2, <2>1, <2>2
<1>7. AdtsRead(adts) = [profile |-> p, frequency |-> frequency, channels |-> h * 4 + q,
                        frame_len |-> LengthIn(adts)]
  BY <1>1, <1>4, <1>5 DEF AdtsRead, LengthIn
<1> QED BY <1>1, <1>6, <1>7

LEMMA AudioFrameKeeps ==
  ASSUME DemuxInv, NEW m \in Messages, AudioFrame(m)
  PROVE  DemuxInv'
<1>1. /\ TypeOK /\ AudioInv /\ frames \in Seq(Handed)
      /\ m.type = "audio" /\ Take(m) /\ (m.sound_format = 10 => ~m.config)
      /\ m.sound_format = 10 => audio_head_data_len # 0
  BY DEF DemuxInv, FramesInv, AudioFrame
<1>2. /\ UNCHANGED <<pictureVars, video_head_data, video_head_data_len, audio_head_data_len>>
      /\ pc' \in {"idle", "done"}
  BY DEF AudioFrame, Survives
<1>3. /\ taken' = Append(taken, m) /\ taken' \in Seq(Messages)
      /\ Len(taken) \in Nat /\ Len(taken') = Len(taken) + 1
      /\ Len(taken') <= MaxMessages /\ pc = "idle" /\ taken'[Len(taken) + 1] = m
      /\ \A k \in 1..Len(taken) : taken'[k] = taken[k]
  BY <1>1, TakeFacts
<1>4. ~IsSequenceHeader(m) /\ ~IsAudioConfig(m)
  BY <1>1 DEF IsAudioConfig, IsSequenceHeader
<1>5. HeadInv' /\ \A g \in Range(frames) : FrameRight(g)'
  BY <1>1, <1>2, <1>4, TakeKeeps
<1>6. /\ audio_head_data \in Adts /\ audio_head_data.b3 % 4 = 0 /\ audio_head_data_len \in Nat
  BY <1>1 DEF TypeOK, AudioInv, Adts
<1>7. m.ts \in Nat /\ m.len \in Nat \ {0}
  BY <1>1, MessageKinds DEF AudioMessage
<1>8. PICK n, len, all, adts :
        /\ n = Len(taken) + 1
        /\ len = IF m.sound_format = 10 THEN m.len - 1 ELSE m.len
        /\ all = len + audio_head_data_len
        /\ adts = WithLength(audio_head_data, all)
  OBVIOUS
<1>9. n \in Nat \ {0} /\ len \in Nat /\ all \in Nat
  BY SMTT(30), <1>3, <1>6, <1>7, <1>8
<1>10. /\ adts \in Adts /\ adts.b2 = audio_head_data.b2
       /\ TopBits(all) \in 0..3 /\ adts.b3 = audio_head_data.b3 + TopBits(all)
       /\ LengthIn(adts) = all % 8192
  <2>1. PICK a : a = audio_head_data
    OBVIOUS
  <2>2. a \in Adts /\ a.b3 % 4 = 0 /\ all \in Nat /\ adts = WithLength(a, all)
    BY <1>6, <1>8, <1>9, <2>1
  <2>3. /\ adts \in Adts /\ adts.b2 = a.b2
        /\ TopBits(all) \in 0..3 /\ adts.b3 = a.b3 + TopBits(all)
        /\ LengthIn(adts) = all % 8192
    BY <2>2, AdtsLength
  <2> QED BY <2>1, <2>3
<1>11. PICK f : f = [type       |-> IF m.sound_format = 10 THEN "aac" ELSE "other",
                     of         |-> n,
                     picture_ms |-> m.ts,
                     key        |-> FALSE,
                     head_len   |-> IF m.sound_format = 10 THEN audio_head_data_len ELSE 0,
                     head       |-> adts,
                     data_len   |-> len,
                     data       |-> <<>>]
  OBVIOUS
<1>12. frames' = Append(frames, f) /\ audio_head_data' = AfterFrame(adts)
  BY <1>3, <1>8, <1>11 DEF AudioFrame
<1>13. f \in Handed
  <2>1. PICK t, hl : t = f.type /\ hl = f.head_len
    OBVIOUS
  <2>2. t \in {"h264", "aac", "other"} /\ hl \in Nat
    BY <1>6, <1>11, <2>1
  <2>3. f = [type |-> t, of |-> n, picture_ms |-> m.ts, key |-> FALSE, head_len |-> hl,
             head |-> adts, data_len |-> len, data |-> <<>>]
    BY <1>11, <2>1
  <2> QED BY <1>7, <1>9, <1>10, <2>2, <2>3 DEF Handed
<1>14. PICK c : c = LatestConfig
  OBVIOUS
<1>15. /\ LastBefore(n, AudioConfigs)' = c /\ c \in 0..Len(taken)
       /\ c > 0 => IsAudioConfig(taken[c]) /\ AdtsOf(taken[c])
       /\ c > 0 => taken'[c] = taken[c] /\ taken[c] \in Messages
  <2>1. n \in Nat \ {0} /\ \A k \in 1..(n - 1) : taken'[k] = taken[k]
    BY <1>3, <1>8, <1>9
  <2>2. LastBefore(n, AudioConfigs)' = LastBefore(n, AudioConfigs)
    BY <2>1, LastBeforeKept
  <2>3. taken \in Seq(Messages)
    BY <1>1 DEF TypeOK
  <2>4. c \in 0..Len(taken) /\ (c > 0 => IsAudioConfig(taken[c]))
    BY <1>14, <2>3, LatestIs
  <2>5. c > 0 => AdtsOf(taken[c])
    BY <1>1, <1>14 DEF AudioInv
  <2>6. c > 0 => c \in 1..Len(taken)
    BY <1>3, <2>4
  <2> QED BY <1>3, <1>8, <1>14, <2>2, <2>3, <2>4, <2>5, <2>6 DEF LatestConfig
<1>16. AdtsIn(f)'
  <2> SUFFICES ASSUME m.sound_format = 10
               PROVE  /\ f.head_len > 0
                      /\ c > 0 => /\ f.head_len = 7
                                  /\ AdtsRead(f.head) =
                                       [profile   |-> (taken'[c].object - 1) % 4,
                                        frequency |-> taken'[c].frequency,
                                        channels  |-> taken'[c].channels % 8,
                                        frame_len |-> (f.data_len + 7) % 8192]
    BY <1>11, <1>15 DEF AdtsIn
  <2>1. f.head_len = audio_head_data_len /\ f.head = adts /\ f.data_len = len
    BY <1>11
  <2>2. f.head_len > 0
    BY <1>1, <1>6, <2>1
  <2>3. ASSUME c > 0
        PROVE  /\ f.head_len = 7
               /\ AdtsRead(f.head) =
                    [profile   |-> (taken'[c].object - 1) % 4,
                     frequency |-> taken'[c].frequency,
                     channels  |-> taken'[c].channels % 8,
                     frame_len |-> (f.data_len + 7) % 8192]
    <3>1. PICK a : a = taken[c]
      OBVIOUS
    <3>2. a \in Messages /\ IsAudioConfig(a) /\ AdtsOf(a) /\ taken'[c] = a
      BY <1>15, <2>3, <3>1
    <3>3. a.object \in Nat /\ a.frequency \in 0..15 /\ a.channels \in 0..15
      BY <3>2, MessageKinds DEF AudioMessage, IsAudioConfig
    <3>4. /\ audio_head_data_len = 7 /\ audio_head_data.b2 = SecondByte(a)
          /\ audio_head_data.b3 = ThirdByte(a)
      BY <3>2 DEF AdtsOf, SecondByte, ThirdByte
    <3>5. adts.b2 = SecondByte(a) /\ adts.b3 = ThirdByte(a) + TopBits(all)
      BY <1>10, <3>4
    <3>6. AdtsRead(adts) =
            [profile   |-> (a.object - 1) % 4, frequency |-> a.frequency,
             channels  |-> a.channels % 8, frame_len |-> LengthIn(adts)]
      BY <1>10, <3>3, <3>5, AdtsHeadRead
    <3>7. all = len + 7
      BY <1>8, <3>4
    <3> QED BY <1>10, <2>1, <3>2, <3>4, <3>6, <3>7
  <2> QED BY <2>2, <2>3
<1>17. FrameRight(f)'
  <2>1. f.of \in 1..Len(taken') /\ f.type # "h264"
    BY <1>3, <1>8, <1>11
  <2>2. FromMessage(f)'
    <3>1. taken'[f.of] = m
      BY <1>3, <1>8, <1>11
    <3> QED BY <1>1, <1>8, <1>11, <3>1 DEF FromMessage
  <2> QED BY <1>16, <2>1, <2>2 DEF FrameRight, NalsOf, HeadIn, CodeInFront
<1>18. FramesInv' /\ \A k \in 1..Len(frames') : frames'[k].of \in 1..Len(taken')
  BY <1>1, <1>5, <1>12, <1>13, <1>17, FramesAppended
<1>19. /\ audio_head_data' \in Adts /\ audio_head_data'.b2 = audio_head_data.b2
       /\ audio_head_data'.b3 = audio_head_data.b3
  BY <1>6, <1>10, <1>12 DEF AfterFrame, Adts
<1>20. TypeOK'
  BY <1>1, <1>2, <1>3, <1>18, <1>19 DEF TypeOK, pictureVars, Adts
<1>21. NalInv'
  BY <1>2, <1>3 DEF NalInv
<1>22. AudioInv'
  <2>1. LatestConfig' = c
    BY <1>1, <1>3, <1>4, <1>14, LatestAppended DEF TypeOK
  <2> QED BY <1>2, <1>6, <1>15, <1>19, <2>1 DEF AudioInv, AdtsOf
<1> QED BY <1>5, <1>18, <1>20, <1>21, <1>22 DEF DemuxInv

-----------------------------------------------------------------------------
(* Every step keeps the invariant. *)
LEMMA InitDemux == Init => DemuxInv
<1> SUFFICES ASSUME Init PROVE DemuxInv
  OBVIOUS
<1>1. /\ pc = "idle" /\ msg = NoMessage /\ data = <<>> /\ messsge_data = 0 /\ data_len = 0
      /\ video_head_data = Garbage /\ video_head_data_len \in Uninit
      /\ audio_head_data = NoAdts /\ audio_head_data_len \in Uninit
      /\ taken = <<>> /\ frames = <<>>
  BY DEF Init
<1>2. Garbage \in Seq(Byte) /\ Uninit \subseteq Nat /\ MaxMessages \in Nat
  BY AvAssumption, ByteFacts
<1>3. audio_head_data \in Adts /\ audio_head_data.b3 = 0
  BY <1>1 DEF NoAdts, Adts, AdtsBytes
<1>4. taken \in Seq(Messages) /\ Len(taken) = 0
  BY <1>1
<1>5. LatestHeader = 0 /\ LatestConfig = 0
  <2>1. LatestHeader \in 0..Len(taken) /\ LatestConfig \in 0..Len(taken)
    BY <1>4, LatestIs
  <2> QED BY <1>4, <2>1
<1>6. TypeOK
  BY <1>1, <1>2, <1>3, <1>4 DEF TypeOK, Adts
<1>7. NalInv /\ HeadInv
  BY <1>1, <1>5 DEF NalInv, HeadInv
<1>8. AudioInv
  BY <1>3, <1>5 DEF AudioInv
<1>9. FramesInv
  BY <1>1 DEF FramesInv, Range
<1> QED BY <1>6, <1>7, <1>8, <1>9 DEF DemuxInv

LEMMA StutterKeeps ==
  ASSUME DemuxInv, UNCHANGED demuxVars
  PROVE  DemuxInv'
<1>1. /\ UNCHANGED <<pc, msg, data, messsge_data, data_len, taken, frames>>
      /\ UNCHANGED <<video_head_data, video_head_data_len, audio_head_data, audio_head_data_len>>
  BY DEF demuxVars, pictureVars, headVars
<1>2. TypeOK /\ NalInv /\ HeadInv /\ AudioInv /\ FramesInv
  BY DEF DemuxInv
<1>3. TypeOK'
  BY <1>1, <1>2 DEF TypeOK
<1>4. NalInv'
  BY <1>1, <1>2 DEF NalInv
<1>5. HeadInv' /\ AudioInv'
  <2>1. taken' = taken /\ pc' = pc /\ UNCHANGED <<video_head_data, video_head_data_len>>
        /\ UNCHANGED <<audio_head_data, audio_head_data_len>>
    BY <1>1
  <2>2. HeadInv'
    BY <1>2, <2>1 DEF HeadInv, HeadOf, OneSps, FirstSets, LatestHeader, LastBefore
  <2>3. AudioInv'
    BY <1>2, <2>1 DEF AudioInv, AdtsOf, LatestConfig, LastBefore
  <2> QED BY <2>2, <2>3
<1>6. FramesInv'
  <2>1. taken' = taken /\ Len(taken) \in Nat
    BY <1>1, <1>2 DEF TypeOK
  <2>2. \A f \in Range(frames) : FrameRight(f)'
    BY <1>2, <2>1, FrameKept DEF FramesInv
  <2> QED BY <1>1, <1>2, <2>2 DEF FramesInv
<1> QED BY <1>3, <1>4, <1>5, <1>6 DEF DemuxInv

LEMMA NextDemux == DemuxInv /\ [Next]_demuxVars => DemuxInv'
<1> SUFFICES ASSUME DemuxInv, [Next]_demuxVars PROVE DemuxInv'
  OBVIOUS
<1>1. CASE UNCHANGED demuxVars
  BY <1>1, StutterKeeps
<1>2. ASSUME NEW m \in Messages, VideoRefused(m) PROVE DemuxInv'
  BY <1>2, VideoRefusedKeeps
<1>3. ASSUME NEW m \in Messages, NEW tail \in Tails, SequenceHeader(m, tail) PROVE DemuxInv'
  BY <1>3, SequenceHeaderKeeps
<1>4. ASSUME NEW m \in Messages, NEW tail \in Tails, Picture(m, tail) PROVE DemuxInv'
  BY <1>4, PictureKeeps
<1>5. ASSUME NEW m \in Messages, AudioConfig(m) PROVE DemuxInv'
  BY <1>5, AudioConfigKeeps
<1>6. ASSUME NEW m \in Messages, AudioSkipped(m) PROVE DemuxInv'
  BY <1>6, AudioSkippedKeeps
<1>7. CASE ConvertNal
  BY <1>7, ConvertNalKeeps
<1>8. CASE HandPicture
  BY <1>8, HandPictureKeeps
<1>9. ASSUME NEW m \in Messages, AudioFrame(m) PROVE DemuxInv'
  BY <1>9, AudioFrameKeeps
<1> QED BY <1>1, <1>2, <1>3, <1>4, <1>5, <1>6, <1>7, <1>8, <1>9 DEF Next, Inner, Handing

(* The invariant of rtmp_process_video and rtmp_process_audio, whatever    *)
(* messages the server sends.                                              *)
THEOREM DemuxInvariant == Spec => []DemuxInv
<1>1. Init => DemuxInv
  BY InitDemux
<1>2. DemuxInv /\ [Next]_demuxVars => DemuxInv'
  BY NextDemux
<1> QED BY <1>1, <1>2, PTL DEF Spec

(* The loop over the NAL units stays inside the message, and every member  *)
(* has a value of its kind.                                                *)
THEOREM DemuxTyped == Spec => []TypeOK
<1>1. DemuxInv => TypeOK
  BY DEF DemuxInv
<1> QED BY <1>1, DemuxInvariant, PTL

LEMMA EachFrame ==
  ASSUME DemuxInv, NEW k \in 1..Len(frames)
  PROVE  FrameRight(frames[k]) /\ frames[k] \in Handed
<1>1. frames \in Seq(Handed) /\ \A f \in Range(frames) : FrameRight(f)
  BY DEF DemuxInv, FramesInv
<1>2. frames[k] \in Range(frames)
  BY <1>1 DEF Range
<1> QED BY <1>1, <1>2

(* A picture of any number of NAL units of any length is handed over with  *)
(* a start code in front of each and every other byte as it came.          *)
THEOREM PicturesConverted == Spec => []NalsConverted
<1>1. DemuxInv => NalsConverted
  <2> SUFFICES ASSUME DemuxInv, NEW k \in 1..Len(frames),
                      frames[k].type = "h264", taken[frames[k].of].nals # <<>>
               PROVE  SubSeq(frames[k].data, 1, frames[k].data_len) = AnnexB(taken[frames[k].of].nals)
    BY DEF NalsConverted
  <2> QED BY EachFrame DEF FrameRight, NalsOf
<1> QED BY <1>1, DemuxInvariant, PTL

(* A key frame carries the SPS and the first PPS of the last sequence      *)
(* header before it, if that has one SPS, however many headers of whatever *)
(* lengths came.                                                           *)
THEOREM KeyFramesHaveHead == Spec => []HeadOfLatest
<1>1. DemuxInv => HeadOfLatest
  <2> SUFFICES ASSUME DemuxInv, NEW k \in 1..Len(frames), NEW f, f = frames[k],
                      NEW h, h = LastBefore(f.of, SequenceHeaders),
                      f.type = "h264", f.key, h > 0, OneSps(taken[h])
               PROVE  SubSeq(f.head, 1, f.head_len) = AnnexB(FirstSets(taken[h]))
    BY DEF HeadOfLatest
  <2>1. f.head \in Seq(Byte) /\ f.head_len = Len(f.head) /\ f.head = AnnexB(FirstSets(taken[h]))
    BY EachFrame DEF FrameRight, HeadIn
  <2> QED BY <2>1, FrontEnds
<1> QED BY <1>1, DemuxInvariant, PTL

(* The ADTS header in front of an AAC frame is that of the last audio      *)
(* header and of this frame's length, with no bit of an earlier one.       *)
THEOREM AudioFramesHaveAdts == Spec => []AdtsRight
<1>1. DemuxInv => AdtsRight
  <2> SUFFICES ASSUME DemuxInv PROVE AdtsRight
    OBVIOUS
  <2>1. \A k \in 1..Len(frames) : AdtsIn(frames[k])
    BY EachFrame DEF FrameRight
  <2> QED BY <2>1 DEF AdtsRight, AdtsIn
<1> QED BY <1>1, DemuxInvariant, PTL

-----------------------------------------------------------------------------
(* What ends the thread.  A message that was taken just now is the last.   *)
LEMMA TakenLast ==
  ASSUME DemuxInv, NEW m \in Messages, Take(m)
  PROVE  /\ pc = "idle" /\ taken' # <<>> /\ taken'[Len(taken')] = m
         /\ Unsound(Len(taken))' <=>
              IF m.type = "audio"
                THEN m.sound_format = 10 /\ ~m.config /\ LatestConfig = 0
              ELSE \/ m.codec_id # 7 \/ m.nals = <<>>
                   \/ IsSequenceHeader(m) /\ ~(OneSps(m) /\ SetsFit(m))
                   \/ m.key /\ ~IsSequenceHeader(m) /\ LatestHeader = 0
<1>1. TypeOK
  BY DEF DemuxInv
<1>2. /\ pc = "idle" /\ taken' = Append(taken, m) /\ taken' \in Seq(Messages)
      /\ Len(taken) \in Nat /\ Len(taken') = Len(taken) + 1 /\ taken'[Len(taken) + 1] = m
      /\ \A k \in 1..Len(taken) : taken'[k] = taken[k]
  BY <1>1, TakeFacts
<1>3. PICK n : n = Len(taken) + 1
  OBVIOUS
<1>4. n \in Nat \ {0} /\ n = Len(taken') /\ \A k \in 1..(n - 1) : taken'[k] = taken[k]
  BY <1>2, <1>3
<1>5. /\ LastBefore(n, SequenceHeaders)' = LatestHeader
      /\ LastBefore(n, AudioConfigs)' = LatestConfig
  BY <1>3, <1>4, LastBeforeKept DEF LatestHeader, LatestConfig
<1>6. taken'[n] = m /\ taken' # <<>>
  BY <1>2, <1>3
<1>7. Unsound(n)' <=>
        IF m.type = "audio"
          THEN m.sound_format = 10 /\ ~m.config /\ LatestConfig = 0
        ELSE \/ m.codec_id # 7 \/ m.nals = <<>>
             \/ IsSequenceHeader(m) /\ ~(OneSps(m) /\ SetsFit(m))
             \/ m.key /\ ~IsSequenceHeader(m) /\ LatestHeader = 0
  BY <1>5, <1>6 DEF Unsound
<1>8. Unsound(Len(taken))' <=> Unsound(n)'
  BY <1>4 DEF Unsound, LastBefore
<1> QED BY <1>2, <1>4, <1>6, <1>7, <1>8

LEMMA HeaderEnds ==
  ASSUME DemuxInv, NEW m \in Messages, NEW tail \in Tails, SequenceHeader(m, tail), pc' = "done"
  PROVE  taken' # <<>> /\ Unsound(Len(taken))'
<1>1. Take(m) /\ m.type = "video" /\ IsSequenceHeader(m)
  BY DEF SequenceHeader, IsSequenceHeader
<1>2. pc = "idle" /\ ~(OneSps(m) /\ SetsFit(m))
  BY <1>1, TakenLast, HeaderAccepted
<1> QED BY <1>1, <1>2, TakenLast

LEMMA NalEnds ==
  ASSUME DemuxInv, ConvertNal, pc' = "done"
  PROVE  taken' # <<>> /\ Unsound(Len(taken))'
<1>1. TypeOK /\ NalInv /\ pc = "nal" /\ ~LoopOver /\ taken' = taken
  BY DEF DemuxInv, ConvertNal
<1>2. TooLong
  BY <1>1 DEF ConvertNal
<1>3. VideoMessage(msg) /\ Len(taken) > 0 /\ msg = taken[Len(taken)] /\ taken \in Seq(Messages)
  BY <1>1 DEF NalInv, TypeOK
<1>4. msg.nals = <<>>
  <2> SUFFICES ASSUME msg.nals # <<>> PROVE FALSE
    OBVIOUS
  <2>1. PICK e : e = Ends(WithLengths(msg.nals))
    OBVIOUS
  <2>2. PICK j \in 0..Len(msg.nals) :
          /\ messsge_data = e[j]
          /\ \A p \in 1..messsge_data : data[p] = AnnexB(msg.nals)[p]
          /\ \A p \in (messsge_data + 1)..Len(msg.body) : data[p] = msg.body[p]
    BY <1>1, <2>1 DEF NalInv
  <2>3. ~TooLong
    BY <1>1, <2>1, <2>2, LoopStands
  <2> QED BY <1>2, <2>3
<1>5. Unsound(Len(taken))
  BY <1>3, <1>4 DEF Unsound, VideoMessage
<1>6. Unsound(Len(taken))' <=> Unsound(Len(taken))
  BY <1>1 DEF Unsound, LastBefore
<1> QED BY <1>1, <1>3, <1>5, <1>6

(* A picture's lengths wrap only where its key frame has no header.        *)
LEMMA PictureEnds ==
  ASSUME DemuxInv, HandPicture, pc' = "done"
  PROVE  taken' # <<>> /\ Unsound(Len(taken))'
<1>1. TypeOK /\ NalInv /\ HeadInv /\ pc = "nal" /\ taken' = taken /\ frames \in Seq(Handed)
  BY DEF DemuxInv, FramesInv, HandPicture
<1>2. PICK n : n = Len(taken)
  OBVIOUS
<1>3. /\ msg \in Messages /\ VideoMessage(msg) /\ msg.codec_id = 7 /\ ~IsSequenceHeader(msg)
      /\ n \in Nat \ {0} /\ msg = taken[n] /\ taken \in Seq(Messages)
  BY <1>1, <1>2 DEF NalInv, TypeOK
<1>4. PICK f : /\ frames' = Append(frames, f) /\ Survives(f)
               /\ f.head_len = (IF msg.key THEN video_head_data_len ELSE 0)
               /\ f.data_len = Len(msg.body)
  <2>1. PICK f : /\ frames' = Append(frames, f)
                 /\ f = [type       |-> "h264",
                         of         |-> Len(taken),
                         picture_ms |-> (msg.ts + Offset(msg)) % TimeMod,
                         key        |-> msg.key,
                         head_len   |-> IF msg.key THEN video_head_data_len ELSE 0,
                         head       |-> IF msg.key THEN video_head_data ELSE <<>>,
                         data_len   |-> Len(msg.body),
                         data       |-> data]
    BY DEF HandPicture
  <2>2. frames'[Len(frames')] = f
    BY <1>1, <2>1
  <2>3. Survives(frames'[Len(frames')])
    BY DEF HandPicture
  <2> QED BY <2>1, <2>2, <2>3
<1>5. Wraps(f)
  BY <1>4 DEF Survives
<1>6. Len(msg.body) \in Nat /\ Len(msg.body) + 2 * MaxParameterSet + 8 < UintMod
  BY <1>3 DEF VideoMessage
<1>7. MaxParameterSet \in Nat /\ UintMod \in Nat
  BY AvAssumption, ByteFacts
<1>14. PICK l, h, u, mps : l = Len(msg.body) /\ h = f.head_len /\ u = UintMod /\ mps = MaxParameterSet
  OBVIOUS
<1>15. /\ l \in Nat /\ u \in Nat /\ mps \in Nat /\ l + 2 * mps + 8 < u /\ h + l >= u
       /\ h = IF msg.key THEN video_head_data_len ELSE 0
  BY <1>4, <1>5, <1>6, <1>7, <1>14 DEF Wraps
<1>8. msg.key
  BY ONLY <1>15
<1>9. LatestHeader = 0
  <2> SUFFICES ASSUME LatestHeader # 0 PROVE FALSE
    OBVIOUS
  <2>1. LatestHeader > 0
    BY <1>3, LatestIs
  <2>2. video_head_data_len <= 2 * MaxParameterSet + 8 /\ video_head_data_len \in Nat
    BY <1>1, <2>1 DEF HeadInv, HeadOf, TypeOK
  <2>3. h \in Nat /\ h <= 2 * mps + 8
    BY <1>8, <1>14, <1>15, <2>2
  <2> QED BY ONLY <1>15, <2>3
<1>10. LastBefore(n, SequenceHeaders) = 0
  <2>1. taken[n] \notin SequenceHeaders
    BY <1>3, MessageKinds
  <2> QED BY <1>2, <1>3, <1>9, <2>1, LastBeforeSkips DEF LatestHeader
<1>11. Unsound(n)
  BY <1>3, <1>8, <1>10 DEF Unsound, VideoMessage
<1>12. Unsound(Len(taken))' <=> Unsound(n)
  BY <1>1, <1>2 DEF Unsound, LastBefore
<1>13. taken' # <<>>
  BY <1>1, <1>2, <1>3
<1> QED BY <1>11, <1>12, <1>13

LEMMA AudioEnds ==
  ASSUME DemuxInv, NEW m \in Messages, AudioFrame(m), pc' = "done"
  PROVE  taken' # <<>> /\ Unsound(Len(taken))'
<1>1. /\ TypeOK /\ AudioInv /\ frames \in Seq(Handed) /\ Take(m) /\ m.type = "audio"
      /\ m.sound_format = 10 => ~m.config
  BY DEF DemuxInv, FramesInv, AudioFrame
<1>2. PICK f : /\ frames' = Append(frames, f) /\ Survives(f)
               /\ f.head_len = (IF m.sound_format = 10 THEN audio_head_data_len ELSE 0)
               /\ f.data_len = (IF m.sound_format = 10 THEN m.len - 1 ELSE m.len)
  <2>1. PICK adts : frames' = Append(frames,
                      [type       |-> IF m.sound_format = 10 THEN "aac" ELSE "other",
                       of         |-> Len(taken'),
                       picture_ms |-> m.ts,
                       key        |-> FALSE,
                       head_len   |-> IF m.sound_format = 10 THEN audio_head_data_len ELSE 0,
                       head       |-> adts,
                       data_len   |-> IF m.sound_format = 10 THEN m.len - 1 ELSE m.len,
                       data       |-> <<>>])
    BY DEF AudioFrame
  <2>2. PICK f : f = [type       |-> IF m.sound_format = 10 THEN "aac" ELSE "other",
                      of         |-> Len(taken'),
                      picture_ms |-> m.ts,
                      key        |-> FALSE,
                      head_len   |-> IF m.sound_format = 10 THEN audio_head_data_len ELSE 0,
                      head       |-> adts,
                      data_len   |-> IF m.sound_format = 10 THEN m.len - 1 ELSE m.len,
                      data       |-> <<>>]
    OBVIOUS
  <2>3. frames' = Append(frames, f) /\ frames'[Len(frames')] = f
    BY <1>1, <2>1, <2>2
  <2>4. Survives(frames'[Len(frames')])
    BY DEF AudioFrame
  <2> QED BY <2>2, <2>3, <2>4
<1>3. f.head_len + f.data_len >= UintMod
  BY <1>2 DEF Survives, Wraps
<1>4. m.len \in Nat \ {0} /\ m.len + 7 < UintMod /\ UintMod \in Nat
  BY <1>1, MessageKinds, ByteFacts DEF AudioMessage
<1>5. m.sound_format = 10
  BY <1>2, <1>3, <1>4
<1>6. LatestConfig = 0
  <2> SUFFICES ASSUME LatestConfig # 0 PROVE FALSE
    OBVIOUS
  <2>1. taken \in Seq(Messages)
    BY <1>1 DEF TypeOK
  <2>2. LatestConfig > 0
    BY <2>1, LatestIs
  <2>3. audio_head_data_len = 7
    BY <1>1, <2>2 DEF AudioInv, AdtsOf
  <2> QED BY <1>2, <1>3, <1>4, <1>5, <2>3
<1> QED BY <1>1, <1>5, <1>6, TakenLast

LEMMA EndsKept == DemuxInv /\ EndsOnUnsound /\ [Next]_demuxVars => EndsOnUnsound'
<1> SUFFICES ASSUME DemuxInv, EndsOnUnsound, [Next]_demuxVars, pc' = "done"
             PROVE  taken' # <<>> /\ Unsound(Len(taken))'
  BY DEF EndsOnUnsound
<1>1. CASE UNCHANGED demuxVars
  <2>1. pc' = pc /\ taken' = taken
    BY <1>1 DEF demuxVars
  <2>2. Unsound(Len(taken))' <=> Unsound(Len(taken))
    BY <2>1 DEF Unsound, LastBefore
  <2> QED BY <2>1, <2>2 DEF EndsOnUnsound
<1>2. ASSUME NEW m \in Messages, VideoRefused(m) PROVE taken' # <<>> /\ Unsound(Len(taken))'
  <2>1. Take(m) /\ m.type = "video" /\ m.codec_id # 7
    BY <1>2 DEF VideoRefused
  <2> QED BY <2>1, TakenLast
<1>3. ASSUME NEW m \in Messages, NEW tail \in Tails, SequenceHeader(m, tail)
      PROVE  taken' # <<>> /\ Unsound(Len(taken))'
  BY <1>3, HeaderEnds
<1>4. ASSUME NEW m \in Messages, NEW tail \in Tails, Picture(m, tail) PROVE FALSE
  BY <1>4 DEF Picture
<1>5. ASSUME NEW m \in Messages, AudioConfig(m) \/ AudioSkipped(m) PROVE FALSE
  BY <1>5 DEF AudioConfig, AudioSkipped, Take
<1>6. CASE ConvertNal
  BY <1>6, NalEnds
<1>7. CASE HandPicture
  BY <1>7, PictureEnds
<1>8. ASSUME NEW m \in Messages, AudioFrame(m) PROVE taken' # <<>> /\ Unsound(Len(taken))'
  BY <1>8, AudioEnds
<1> QED BY <1>1, <1>2, <1>3, <1>4, <1>5, <1>6, <1>7, <1>8 DEF Next, Inner, Handing

(* Whatever the server sends, only another codec, a damaged message, a     *)
(* header with several SPS or one too long, or a frame before its header   *)
(* ends the thread (rtmp_lib.cpp:1075-1226).                               *)
THEOREM OnlyUnsoundEnds == Spec => []EndsOnUnsound
<1>1. Init => EndsOnUnsound
  BY DEF Init, EndsOnUnsound
<1>2. DemuxInv /\ EndsOnUnsound /\ [Next]_demuxVars => EndsOnUnsound'
  BY EndsKept
<1> QED BY <1>1, <1>2, DemuxInvariant, PTL DEF Spec

-----------------------------------------------------------------------------
(* Demuxer and muxer together take no step that the demuxer alone does not. *)
THEOREM AvToTsDemuxes == AvSpec => Spec
<1>1. AvInit => Init
  BY DEF AvInit
<1>2. [AvNext]_avVars => [Next]_demuxVars
  BY DEF AvNext, Demux, HandOn, Packets, Next, avVars
<1> QED BY <1>1, <1>2, PTL DEF AvSpec, Spec

(* Between the pictures there is a delimiter: each brings one or gets one, *)
(* once there has been a sequence header (rtmp_tots.cpp:224).              *)
THEOREM DelimitersBetween == AvSpec => []PicturesDelimited
<1>1. DemuxInv => PicturesDelimited
  <2> SUFFICES ASSUME DemuxInv, NEW k \in 1..Len(frames), NEW f, f = frames[k],
                      f.type = "h264", taken[f.of].nals # <<>>,
                      f.key => LastBefore(f.of, SequenceHeaders) > 0
               PROVE  Pack(f).unit = "startcode"
    BY DEF PicturesDelimited
  <2>1. CodeInFront(f)
    BY EachFrame DEF FrameRight
  <2>2. StartsWith(UnitBytes(f), StartCode)
    BY <2>1 DEF CodeInFront
  <2> QED BY <2>2 DEF Pack
<1> QED BY <1>1, AvToTsDemuxes, DemuxInvariant, PTL

-----------------------------------------------------------------------------
(* Time stamps: each byte holds the next 7 or 8 bits, so that reading them *)
(* is putting the digits of a number together again.                       *)
LEMMA PowersOfP ==
  /\ P \in Nat \ {0} /\ P > 1 /\ 2 * P \in Nat \ {0}
  /\ P2 \in Nat \ {0} /\ P3 \in Nat \ {0} /\ P4 \in Nat \ {0}
  /\ P * (2 * P) = 2 * P2 /\ (2 * P2) * P = 2 * P3 /\ (2 * P3) * (2 * P) = 4 * P4
  /\ (4 * P4) * 8 = TimeRange
  /\ 2 * (2 * P) = 4 * P /\ (4 * P) * (2 * P) = 8 * P2 /\ (8 * P2) * (2 * P) = 16 * P3
  /\ (16 * P3) * (2 * P) = TimeRange
<1>1. P \in Nat \ {0} /\ P > 1 /\ 2 * P \in Nat \ {0}
  BY PAssumption
<1>2. P2 \in Nat \ {0} /\ P2 = P * P
  BY <1>1 DEF P2
<1>3. P3 \in Nat \ {0} /\ P3 = P * P2
  BY <1>1, <1>2 DEF P3
<1>4. P4 \in Nat \ {0} /\ P4 = P * P3 /\ TimeRange = 32 * P4
  BY <1>1, <1>3 DEF P4, TimeRange
<1>5. P * (2 * P) = 2 * P2 /\ (4 * P) * (2 * P) = 8 * P2 /\ 2 * (2 * P) = 4 * P
  BY <1>1, <1>2
<1>6. (2 * P2) * P = 2 * P3 /\ (8 * P2) * (2 * P) = 16 * P3
  BY <1>1, <1>2, <1>3
<1>7. (2 * P3) * (2 * P) = 4 * P4 /\ (16 * P3) * (2 * P) = 32 * P4 /\ (4 * P4) * 8 = 32 * P4
  BY <1>1, <1>3, <1>4
<1> QED BY <1>1, <1>2, <1>3, <1>4, <1>5, <1>6, <1>7

(* One more digit of a number. *)
Digit(t, a, b) == (t \div a) % b
Rest(t, a)     == t % a

LEMMA OneDigit ==
  ASSUME NEW t \in Nat, NEW a \in Nat, NEW b \in Nat, a > 0, b > 0
  PROVE  /\ Digit(t, a, b) \in 0..(b - 1) /\ Rest(t, a) \in Nat
         /\ Rest(t, a * b) = a * Digit(t, a, b) + Rest(t, a)
<1>1. t \div a \in Nat /\ t % a \in 0..(a - 1)
  BY Division
<1>2. PICK q : q = t \div a
  OBVIOUS
<1>3. q % b \in 0..(b - 1)
  BY <1>1, <1>2, Division
<1>4. t % (a * b) = a * ((t \div a) % b) + (t % a)
  <2>1. a \in Nat \ {0} /\ b \in Nat \ {0}
    OBVIOUS
  <2> QED BY <2>1, Digits, Zenon
<1>5. Rest(t, a * b) = a * Digit(t, a, b) + Rest(t, a)
  BY <1>4 DEF Rest, Digit
<1>6. Digit(t, a, b) \in 0..(b - 1)
  BY <1>2, <1>3 DEF Digit
<1>7. Rest(t, a) \in Nat
  BY <1>1 DEF Rest
<1> QED BY <1>5, <1>6, <1>7

LEMMA TimeIsRead ==
  ASSUME NEW t \in Nat, NEW prefix \in 1..3
  PROVE  /\ TimeRead(TimeBytes(prefix, t)) = t % TimeRange
         /\ TimeBytes(prefix, t)[1] \div 16 = prefix
<1>1. PICK p, q, p2, p3, p4, p5 :
        p = P /\ q = 2 * P /\ p2 = 2 * P2 /\ p3 = 2 * P3 /\ p4 = 4 * P4 /\ p5 = TimeRange
  OBVIOUS
<1>2. PICK a, b, c, d, e, r1, r2, r3, r4 :
        /\ a = Digit(t, p4, 8) /\ b = Digit(t, p3, q) /\ c = Digit(t, p2, p)
        /\ d = Digit(t, p, q) /\ e = Rest(t, p)
        /\ r1 = Rest(t, p2) /\ r2 = Rest(t, p3) /\ r3 = Rest(t, p4) /\ r4 = Rest(t, p5)
  OBVIOUS
<1>3. /\ p \in Nat /\ p > 0 /\ q \in Nat /\ q > 0 /\ p2 \in Nat /\ p2 > 0
      /\ p3 \in Nat /\ p3 > 0 /\ p4 \in Nat /\ p4 > 0 /\ p5 \in Nat /\ 8 \in Nat /\ 8 > 0
      /\ p * q = p2 /\ p2 * p = p3 /\ p3 * q = p4 /\ p4 * 8 = p5
  <2>1. q = 2 * p
    BY <1>1
  <2> QED BY <1>1, <2>1, PowersOfP
<1>4. e \in Nat /\ d \in Nat /\ r1 = p * d + e
  <2>0. p \in Nat /\ q \in Nat /\ p > 0 /\ q > 0 /\ p * q = p2
    BY <1>3
  <2>1. /\ Digit(t, p, q) \in 0..(q - 1) /\ Rest(t, p) \in Nat
        /\ Rest(t, p2) = p * Digit(t, p, q) + Rest(t, p)
    BY <2>0, OneDigit
  <2> QED BY <1>2, <1>3, <2>1
<1>5. c \in Nat /\ r1 \in Nat /\ r2 = p2 * c + r1
  <2>0. p2 \in Nat /\ p \in Nat /\ p2 > 0 /\ p > 0 /\ p2 * p = p3
    BY <1>3
  <2>1. /\ Digit(t, p2, p) \in 0..(p - 1) /\ Rest(t, p2) \in Nat
        /\ Rest(t, p3) = p2 * Digit(t, p2, p) + Rest(t, p2)
    BY <2>0, OneDigit
  <2> QED BY <1>2, <1>3, <2>1
<1>6. b \in Nat /\ r2 \in Nat /\ r3 = p3 * b + r2
  <2>0. p3 \in Nat /\ q \in Nat /\ p3 > 0 /\ q > 0 /\ p3 * q = p4
    BY <1>3
  <2>1. /\ Digit(t, p3, q) \in 0..(q - 1) /\ Rest(t, p3) \in Nat
        /\ Rest(t, p4) = p3 * Digit(t, p3, q) + Rest(t, p3)
    BY <2>0, OneDigit
  <2> QED BY <1>2, <1>3, <2>1
<1>7. a \in 0..7 /\ r3 \in Nat /\ r4 = p4 * a + r3
  <2>0. p4 \in Nat /\ 8 \in Nat /\ p4 > 0 /\ 8 > 0 /\ p4 * 8 = p5
    BY <1>3
  <2>1. /\ Digit(t, p4, 8) \in 0..(8 - 1) /\ Rest(t, p4) \in Nat
        /\ Rest(t, p5) = p4 * Digit(t, p4, 8) + Rest(t, p4)
    BY <2>0, OneDigit
  <2> QED BY <1>2, <1>3, <2>1
<1>8. PICK s : s = TimeBytes(prefix, t)
  OBVIOUS
<1>9. /\ s[1] = prefix * 16 + 2 * a + 1 /\ s[2] = b /\ s[3] = 2 * c + 1 /\ s[4] = d
      /\ s[5] = 2 * e + 1
  <2>1. /\ a = (t \div (4 * P4)) % 8 /\ b = (t \div (2 * P3)) % (2 * P)
        /\ c = (t \div (2 * P2)) % P /\ d = (t \div P) % (2 * P) /\ e = t % P
    BY <1>1, <1>2 DEF Digit, Rest
  <2> QED BY <1>8, <2>1 DEF TimeBytes
<1>10. (s[1] \div 2) % 8 = a /\ s[1] \div 16 = prefix
  BY <1>7, <1>9
<1>11. s[3] \div 2 = c /\ s[5] \div 2 = e
  BY <1>4, <1>5, <1>9
<1>12. TimeRead(s) = a * p4 + b * p3 + c * p2 + d * p + e
  BY <1>1, <1>9, <1>10, <1>11 DEF TimeRead
<1>13. a * p4 = p4 * a /\ b * p3 = p3 * b /\ c * p2 = p2 * c /\ d * p = p * d
  BY <1>3, <1>4, <1>5, <1>6, <1>7
<1>14. p4 * a \in Nat /\ p3 * b \in Nat /\ p2 * c \in Nat /\ p * d \in Nat
  BY <1>3, <1>4, <1>5, <1>6, <1>7
<1>15. TimeRead(s) = r4
  BY <1>4, <1>5, <1>6, <1>7, <1>12, <1>13, <1>14
<1>16. r4 = t % TimeRange
  BY <1>1, <1>2 DEF Rest
<1> QED BY <1>8, <1>10, <1>15, <1>16

LEMMA ClockIsRead ==
  ASSUME NEW t \in Nat
  PROVE  ClockRead(ClockBytes(t)) = t % TimeRange
<1>1. PICK q, p1, p2, p3, p4 :
        q = 2 * P /\ p1 = 4 * P /\ p2 = 8 * P2 /\ p3 = 16 * P3 /\ p4 = TimeRange
  OBVIOUS
<1>2. PICK a, b, c, d, e, r1, r2, r3, r4 :
        /\ a = Digit(t, p3, q) /\ b = Digit(t, p2, q) /\ c = Digit(t, p1, q)
        /\ d = Digit(t, 2, q) /\ e = Rest(t, 2)
        /\ r1 = Rest(t, p1) /\ r2 = Rest(t, p2) /\ r3 = Rest(t, p3) /\ r4 = Rest(t, p4)
  OBVIOUS
<1>3. /\ q \in Nat /\ q > 0 /\ p1 \in Nat /\ p1 > 0 /\ p2 \in Nat /\ p2 > 0
      /\ p3 \in Nat /\ p3 > 0 /\ p4 \in Nat /\ 2 \in Nat /\ 2 > 0
      /\ 2 * q = p1 /\ p1 * q = p2 /\ p2 * q = p3 /\ p3 * q = p4
  BY <1>1, PowersOfP
<1>4. e \in 0..1 /\ d \in Nat /\ r1 = 2 * d + e
  <2>0. 2 \in Nat /\ q \in Nat /\ 2 > 0 /\ q > 0 /\ 2 * q = p1
    BY <1>3
  <2>1. /\ Digit(t, 2, q) \in 0..(q - 1) /\ Rest(t, 2) \in Nat
        /\ Rest(t, p1) = 2 * Digit(t, 2, q) + Rest(t, 2)
    BY <2>0, OneDigit
  <2>2. e \in 0..1
    BY <1>2 DEF Rest
  <2> QED BY <1>2, <1>3, <2>1, <2>2
<1>5. c \in Nat /\ r1 \in Nat /\ r2 = p1 * c + r1
  <2>0. p1 \in Nat /\ q \in Nat /\ p1 > 0 /\ q > 0 /\ p1 * q = p2
    BY <1>3
  <2>1. /\ Digit(t, p1, q) \in 0..(q - 1) /\ Rest(t, p1) \in Nat
        /\ Rest(t, p2) = p1 * Digit(t, p1, q) + Rest(t, p1)
    BY <2>0, OneDigit
  <2> QED BY <1>2, <1>3, <2>1
<1>6. b \in Nat /\ r2 \in Nat /\ r3 = p2 * b + r2
  <2>0. p2 \in Nat /\ q \in Nat /\ p2 > 0 /\ q > 0 /\ p2 * q = p3
    BY <1>3
  <2>1. /\ Digit(t, p2, q) \in 0..(q - 1) /\ Rest(t, p2) \in Nat
        /\ Rest(t, p3) = p2 * Digit(t, p2, q) + Rest(t, p2)
    BY <2>0, OneDigit
  <2> QED BY <1>2, <1>3, <2>1
<1>7. a \in Nat /\ r3 \in Nat /\ r4 = p3 * a + r3
  <2>0. p3 \in Nat /\ q \in Nat /\ p3 > 0 /\ q > 0 /\ p3 * q = p4
    BY <1>3
  <2>1. /\ Digit(t, p3, q) \in 0..(q - 1) /\ Rest(t, p3) \in Nat
        /\ Rest(t, p4) = p3 * Digit(t, p3, q) + Rest(t, p3)
    BY <2>0, OneDigit
  <2> QED BY <1>2, <1>3, <2>1
<1>8. PICK s : s = ClockBytes(t)
  OBVIOUS
<1>9. s[1] = a /\ s[2] = b /\ s[3] = c /\ s[4] = d /\ s[5] = P * e + P - 2
  <2>1. /\ a = (t \div (16 * P3)) % (2 * P) /\ b = (t \div (8 * P2)) % (2 * P)
        /\ c = (t \div (4 * P)) % (2 * P) /\ d = (t \div 2) % (2 * P) /\ e = t % 2
    BY <1>1, <1>2 DEF Digit, Rest
  <2> QED BY <1>8, <2>1 DEF ClockBytes
<1>10. s[5] \div P = e
  <2>1. P \in Nat \ {0} /\ P - 2 \in 0..(P - 1) /\ e \in Nat
    BY <1>4, PowersOfP
  <2>2. (P * e + (P - 2)) \div P = e
    BY <2>1, DivisionUnique
  <2>3. P * e \in Nat /\ P * e + (P - 2) = P * e + P - 2
    BY <2>1
  <2> QED BY <1>9, <2>2, <2>3
<1>11. ClockRead(s) = a * p3 + b * p2 + c * p1 + d * 2 + e
  BY <1>1, <1>9, <1>10 DEF ClockRead
<1>12. a * p3 = p3 * a /\ b * p2 = p2 * b /\ c * p1 = p1 * c /\ d * 2 = 2 * d
  BY <1>3, <1>4, <1>5, <1>6, <1>7
<1>13. p3 * a \in Nat /\ p2 * b \in Nat /\ p1 * c \in Nat /\ 2 * d \in Nat
  BY <1>3, <1>4, <1>5, <1>6, <1>7
<1>14. ClockRead(s) = r4
  BY <1>4, <1>5, <1>6, <1>7, <1>11, <1>12, <1>13
<1>15. r4 = t % TimeRange
  BY <1>1, <1>2 DEF Rest
<1> QED BY <1>8, <1>14, <1>15

-----------------------------------------------------------------------------
(* What is handed over is a pack for the muxer. *)
LEMMA HandedOver ==
  ASSUME DemuxInv, Handing
  PROVE  frames'[Len(frames')] \in Handed
<1>1. [Next]_demuxVars
  BY DEF Next
<1>2. DemuxInv'
  BY <1>1, NextDemux
<1>3. frames \in Seq(Handed) /\ frames' \in Seq(Handed)
  BY <1>2 DEF DemuxInv, FramesInv
<1>4. \E f : frames' = Append(frames, f)
  BY DEF Handing, HandPicture, AudioFrame
<1>5. Len(frames') \in 1..Len(frames')
  BY <1>3, <1>4
<1> QED BY <1>3, <1>5

(* A sum that does not wrap is the length of the pack; one that fits       *)
(* pes_buf does not.                                                       *)
LEMMA PackTyped ==
  ASSUME NEW f \in Handed, f.type # "other"
  PROVE  /\ Pack(f).type = f.type /\ f.type \in {"h264", "aac"}
         /\ Pack(f).picture_ms = f.picture_ms /\ f.picture_ms \in Nat
         /\ Pack(f).es_len = (f.head_len + f.data_len) % UintMod /\ Pack(f).es_len \in Nat
         /\ f.head_len + f.data_len \in Nat
         /\ ~Wraps(f) => Pack(f).es_len = f.head_len + f.data_len
         /\ Pack(f).is_keyframe \in BOOLEAN
         /\ f.type = "h264" => Pack(f).is_keyframe = f.key
         /\ f.type = "aac" => Pack(f).is_keyframe = FALSE
<1>1. /\ f.type \in {"h264", "aac"} /\ f.picture_ms \in Nat /\ f.key \in BOOLEAN
      /\ f.head_len \in Nat /\ f.data_len \in Nat
  BY DEF Handed
<1>2. PICK u, x, r : u = UintMod /\ x = f.head_len + f.data_len /\ r = x % u
  OBVIOUS
<1>3. u \in Nat \ {0} /\ x \in Nat
  BY <1>1, <1>2, ByteFacts
<1>4. r \in Nat
  BY <1>2, <1>3, Division
<1>5. ASSUME ~Wraps(f) PROVE r = x
  <2>1. x \in 0..(u - 1)
    BY <1>2, <1>3, <1>5 DEF Wraps
  <2>2. (u * 0 + x) % u = x
    BY <1>3, <2>1, DivisionUnique
  <2>3. u * 0 + x = x
    BY <1>3
  <2> QED BY <1>2, <2>2, <2>3
<1>6. CASE f.type = "aac"
  <2>1. Pack(f) = [type |-> "aac", picture_ms |-> f.picture_ms, es_len |-> r,
                   is_keyframe |-> FALSE, unit |-> "aac", aud |-> FALSE]
    BY <1>2, <1>6 DEF Pack
  <2> QED BY <1>1, <1>2, <1>3, <1>4, <1>5, <1>6, <2>1
<1>7. CASE f.type = "h264"
  <2>1. \E unit, aud : Pack(f) = [type |-> "h264", picture_ms |-> f.picture_ms, es_len |-> r,
                                  is_keyframe |-> f.key, unit |-> unit, aud |-> aud]
    BY <1>2, <1>7 DEF Pack
  <2>2. PICK unit, aud : Pack(f) = [type |-> "h264", picture_ms |-> f.picture_ms, es_len |-> r,
                                    is_keyframe |-> f.key, unit |-> unit, aud |-> aud]
    BY <2>1
  <2> QED BY <1>1, <1>2, <1>3, <1>4, <1>5, <1>7, <2>2
<1> QED BY <1>1, <1>6, <1>7

LEMMA FitsIs ==
  ASSUME NEW f \in Handed, f.type # "other"
  PROVE  /\ Fits(f) => ~Wraps(f)
         /\ Overrun(f) => ~Fits(f)
         /\ ~Overrun(f) => (Fits(f) <=> ~Mux!TooLong(Pack(f)))
<1>1. PICK x, e, u, b, room :
        /\ x = f.head_len + f.data_len /\ e = Pack(f).es_len /\ u = UintMod /\ b = PesBuf
        /\ room = IF f.type = "aac" THEN 14 ELSE 25
  OBVIOUS
<1>2. x \in Nat /\ e \in Nat /\ u \in Nat /\ b \in Nat /\ b < u /\ room \in Nat
  BY <1>1, PackTyped, ByteFacts, PesAssumption
<1>3. /\ Fits(f) <=> x <= b - room
      /\ Mux!TooLong(Pack(f)) <=> e > b - room
      /\ Wraps(f) <=> x >= u
  BY <1>1, PackTyped DEF Fits, Wraps, Mux!TooLong
<1>4. ~Wraps(f) => e = x
  BY <1>1, PackTyped
<1>5. Overrun(f) <=> Wraps(f) /\ ~Mux!TooLong(Pack(f))
  BY DEF Overrun
<1>6. Fits(f) => ~Wraps(f)
  BY ONLY <1>2, <1>3
<1>7. ~Wraps(f) => (Fits(f) <=> ~Mux!TooLong(Pack(f)))
  BY ONLY <1>2, <1>3, <1>4
<1> QED BY ONLY Zenon, <1>5, <1>6, <1>7

(* A frame that fits is made into its PES, one that does not is dropped.   *)
LEMMA FrameMakes ==
  ASSUME TimesInv, NEW f \in Handed, f.type # "other", ~Overrun(f),
         NEW now \in Clocks, Mux!Frame(Pack(f), now)
  PROVE  /\ last_video_picture_ms' =
              IF f.type = "h264" THEN f.picture_ms ELSE last_video_picture_ms
         /\ last_video_picture_ms' \in Nat
         /\ ts_fp' = ts_fp
         /\ ts_fp /\ Fits(f) =>
              \E p \in Made :
                /\ made' = Append(made, p) /\ PesOf(p, f)
                /\ f.type = "aac" => p.ms = Mux!AudioTime(Pack(f))
         /\ ~(ts_fp /\ Fits(f)) => made' = made
<1>1. PICK pack : pack = Pack(f)
  OBVIOUS
<1>2. /\ pack.type = f.type /\ f.type \in {"h264", "aac"} /\ pack.picture_ms = f.picture_ms
      /\ f.picture_ms \in Nat /\ pack.es_len \in Nat /\ pack.is_keyframe \in BOOLEAN
      /\ f.type = "h264" => pack.is_keyframe = f.key
      /\ f.type = "aac" => pack.is_keyframe = FALSE
  BY <1>1, PackTyped
<1>3. last_video_picture_ms \in Nat /\ made \in Seq(Made)
  BY DEF TimesInv
<1>4. /\ last_video_picture_ms' =
           IF pack.type = "h264" THEN pack.picture_ms ELSE last_video_picture_ms
      /\ ts_fp' = ts_fp
  BY <1>1 DEF Mux!Frame
<1>5. Mux!AudioTime(pack) \in Nat /\ Mux!PesHeaderLen(pack) \in Nat
  BY <1>2, <1>3 DEF Mux!AudioTime, Mux!PesHeaderLen
<1>6. PICK p : p = [pid    |-> IF pack.type = "aac" THEN Mux!AUDIO_PID ELSE Mux!VIDEO_PID,
                    len    |-> pack.es_len + Mux!PesHeaderLen(pack),
                    ms     |-> IF pack.type = "aac" THEN Mux!AudioTime(pack)
                               ELSE pack.picture_ms,
                    own_ms |-> pack.picture_ms,
                    key    |-> pack.is_keyframe,
                    clock  |-> now]
  OBVIOUS
<1>7. p \in Made
  <2>1. PICK pid, len, ms : pid = p.pid /\ len = p.len /\ ms = p.ms
    OBVIOUS
  <2>2. pid \in Mux!MediaPids /\ len \in Nat /\ ms \in Nat
    BY <1>2, <1>5, <1>6, <2>1 DEF Mux!MediaPids
  <2>3. p = [pid |-> pid, len |-> len, ms |-> ms, own_ms |-> pack.picture_ms,
             key |-> pack.is_keyframe, clock |-> now]
    BY <1>6, <2>1
  <2> QED BY <1>2, <2>2, <2>3 DEF Made
<1>8. PesOf(p, f)
  BY <1>1, <1>2, <1>6 DEF PesOf
<1>9. f.type = "aac" => p.ms = Mux!AudioTime(Pack(f))
  BY <1>1, <1>2, <1>6
<1>10. ASSUME ts_fp, Fits(f) PROVE made' = Append(made, p)
  <2>1. ~(Mux!TooLong(pack) \/ ~ts_fp)
    BY <1>1, <1>10, FitsIs
  <2>2. made' = Append(made, pes') /\ pes' = p
    BY <1>1, <1>6, <2>1 DEF Mux!Frame
  <2> QED BY <2>2
<1>11. ASSUME ~(ts_fp /\ Fits(f)) PROVE made' = made
  <2>1. Mux!TooLong(pack) \/ ~ts_fp
    BY <1>1, <1>11, FitsIs
  <2> QED BY <1>1, <2>1 DEF Mux!Frame
<1> QED BY <1>2, <1>3, <1>4, <1>7, <1>8, <1>9, <1>10, <1>11

(* What a step does that hands a frame on.                                 *)
LEMMA HandOnDoes ==
  ASSUME DemuxInv, TimesInv, HandOn
  PROVE  \E f \in Handed :
           /\ frames' = Append(frames, f) /\ FrameRight(f)' /\ pc # "done" /\ ts_fp' = ts_fp
           /\ last_video_picture_ms' \in Nat
           /\ f.type # "h264" => last_video_picture_ms' = last_video_picture_ms
           /\ f.type = "h264" /\ pc' # "done" => last_video_picture_ms' = f.picture_ms
           /\ ts_fp /\ f.type # "other" /\ Fits(f) =>
                \E p \in Made :
                  /\ made' = Append(made, p) /\ cut' = Append(cut, Len(frames) + 1)
                  /\ PesOf(p, f)
                  /\ f.type = "aac" => p.ms = Mux!AudioTime(Pack(f))
           /\ ~(ts_fp /\ f.type # "other" /\ Fits(f)) => made' = made /\ cut' = cut
<1>1. PICK f : f = frames'[Len(frames')]
  OBVIOUS
<1>2. /\ Handing /\ PacketFromCache(f) /\ f \in Handed
      /\ pc' = IF Overrun(f) THEN "done" ELSE "idle"
      /\ cut' = IF made' = made THEN cut ELSE Append(cut, Len(frames'))
  BY <1>1, HandedOver DEF HandOn
<1>3. DemuxInv'
  <2>1. [Next]_demuxVars
    BY <1>2 DEF Next
  <2> QED BY <2>1, NextDemux
<1>4. frames \in Seq(Handed) /\ frames' \in Seq(Handed) /\ \A g \in Range(frames') : FrameRight(g)'
  BY <1>3 DEF DemuxInv, FramesInv
<1>5. pc # "done" /\ \E g : frames' = Append(frames, g)
  BY <1>2 DEF Handing, HandPicture, AudioFrame, Take
<1>6. frames' = Append(frames, f) /\ Len(frames') = Len(frames) + 1 /\ f \in Range(frames')
  <2>1. PICK g : frames' = Append(frames, g)
    BY <1>5
  <2>2. Len(frames') = Len(frames) + 1 /\ frames'[Len(frames) + 1] = g /\ Len(frames) \in Nat
    BY <1>4, <2>1
  <2>3. Len(frames') \in 1..Len(frames') /\ DOMAIN frames' = 1..Len(frames')
    BY <1>4, <2>2
  <2> QED BY <1>1, <2>1, <2>2, <2>3 DEF Range
<1>7. FrameRight(f)'
  BY <1>4, <1>6
<1>8. made \in Seq(Made) /\ last_video_picture_ms \in Nat
  BY DEF TimesInv
<1>9. \A p : Append(made, p) # made
  BY <1>8
<1>10. CASE f.type = "other" \/ Overrun(f)
  <2>1. UNCHANGED <<made, ts_fp, last_video_picture_ms>>
    BY <1>2, <1>10 DEF PacketFromCache, muxVars
  <2>2. cut' = cut
    BY <1>2, <2>1
  <2>3. ~(ts_fp /\ f.type # "other" /\ Fits(f))
    BY <1>2, <1>10, FitsIs
  <2>4. f.type = "h264" => pc' = "done"
    BY <1>2, <1>10
  <2> QED BY <1>2, <1>5, <1>6, <1>7, <1>8, <2>1, <2>2, <2>3, <2>4
<1>11. CASE f.type # "other" /\ ~Overrun(f)
  <2>1. PICK now \in Clocks : Mux!Frame(Pack(f), now)
    BY <1>2, <1>11 DEF PacketFromCache
  <2>2. /\ last_video_picture_ms' =
             IF f.type = "h264" THEN f.picture_ms ELSE last_video_picture_ms
        /\ last_video_picture_ms' \in Nat
        /\ ts_fp' = ts_fp
        /\ ts_fp /\ Fits(f) =>
             \E p \in Made :
               /\ made' = Append(made, p) /\ PesOf(p, f)
               /\ f.type = "aac" => p.ms = Mux!AudioTime(Pack(f))
        /\ ~(ts_fp /\ Fits(f)) => made' = made
    BY <1>2, <1>11, <2>1, FrameMakes
  <2>3. \A p : made' = Append(made, p) => cut' = Append(cut, Len(frames) + 1)
    BY <1>2, <1>6, <1>9
  <2>4. made' = made => cut' = cut
    BY <1>2
  <2> QED BY <1>2, <1>5, <1>6, <1>7, <1>11, <2>2, <2>3, <2>4
<1> QED BY <1>10, <1>11

(* All other steps leave frames and PES alone.                             *)
LEMMA OthersKeep ==
  ASSUME [AvNext]_avVars, ~HandOn, TypeOK
  PROVE  /\ UNCHANGED <<made, cut, ts_fp, last_video_picture_ms, frames>>
         /\ pc' # "done" => pc # "done"
<1>1. CASE UNCHANGED avVars
  BY <1>1 DEF avVars, demuxVars, muxVars
<1>2. CASE Inner /\ UNCHANGED <<muxVars, cut>>
  <2>1. UNCHANGED <<made, cut, ts_fp, last_video_picture_ms>>
    BY <1>2 DEF muxVars
  <2>2. UNCHANGED frames /\ pc # "done"
    BY <1>2 DEF Inner, VideoRefused, SequenceHeader, Picture, AudioConfig, AudioSkipped,
                ConvertNal, Take
  <2> QED BY <2>1, <2>2
<1>3. CASE Packets
  <2>1. UNCHANGED <<cut, frames, pc>>
    BY <1>3 DEF Packets, demuxVars
  <2>2. UNCHANGED <<made, ts_fp, last_video_picture_ms>>
    BY <1>3 DEF Packets, Mux!PutPat, Mux!PutPmt, Mux!PutTs
  <2> QED BY <2>1, <2>2
<1> QED BY <1>1, <1>2, <1>3 DEF AvNext, Demux

LEMMA TimesKept == DemuxInv /\ TimesInv /\ [AvNext]_avVars => TimesInv'
<1> SUFFICES ASSUME DemuxInv, TimesInv, [AvNext]_avVars PROVE TimesInv'
  OBVIOUS
<1>1. CASE HandOn
  <2>1. last_video_picture_ms' \in Nat /\ (made' = made \/ \E p \in Made : made' = Append(made, p))
    BY <1>1, HandOnDoes
  <2>2. made' \in Seq(Made)
    BY <2>1 DEF TimesInv
  <2> QED BY <2>1, <2>2 DEF TimesInv
<1>2. CASE ~HandOn
  <2>1. UNCHANGED <<made, last_video_picture_ms>>
    BY <1>2, OthersKeep DEF DemuxInv
  <2> QED BY <2>1 DEF TimesInv
<1> QED BY <1>1, <1>2

THEOREM TimesInvariant == AvSpec => []TimesInv
<1>1. AvInit => TimesInv
  BY DEF AvInit, Mux!Init, TimesInv
<1>2. DemuxInv /\ TimesInv /\ [AvNext]_avVars => TimesInv'
  BY TimesKept
<1> QED BY <1>1, <1>2, AvToTsDemuxes, DemuxInvariant, PTL DEF AvSpec

(* The times a player finds in PES header and clock reference are the 33   *)
(* low bits of the picture's time, for every time.                         *)
THEOREM TimesAreReadBack == AvSpec => []TimesReadBack
<1>1. TimesInv => TimesReadBack
  <2> SUFFICES ASSUME TimesInv, NEW k \in 1..Len(made), NEW t, t = 90 * made[k].ms
               PROVE  /\ \A prefix \in 1..3 :
                           /\ TimeRead(TimeBytes(prefix, t)) = t % TimeRange
                           /\ TimeBytes(prefix, t)[1] \div 16 = prefix
                      /\ ClockRead(ClockBytes(t)) = t % TimeRange
    BY DEF TimesReadBack
  <2>1. made[k] \in Made
    BY DEF TimesInv
  <2>2. made[k].ms \in Nat
    BY <2>1 DEF Made
  <2>3. t \in Nat
    BY <2>2
  <2> QED BY <2>3, TimeIsRead, ClockIsRead
<1> QED BY <1>1, TimesInvariant, PTL

-----------------------------------------------------------------------------
(* Which frames become PES. *)

(* A frame that was handed over stays what it is. *)
LEMMA FramesStay ==
  ASSUME frames \in Seq(Handed), NEW f \in Handed, frames' = Append(frames, f), ts_fp' = ts_fp,
         NEW l, l = Len(frames)
  PROVE  /\ l \in Nat /\ Len(frames') = l + 1 /\ frames'[l + 1] = f
         /\ \A n \in 1..l : frames'[n] = frames[n] /\ (Cuttable(n)' <=> Cuttable(n))
         /\ Cuttable(l + 1)' <=> (ts_fp /\ f.type # "other" /\ Fits(f))
<1>1. /\ l \in Nat /\ Len(frames') = l + 1
      /\ frames'[l + 1] = f /\ \A n \in 1..l : frames'[n] = frames[n]
  OBVIOUS
<1>2. ASSUME NEW n \in 1..l PROVE Cuttable(n)' <=> Cuttable(n)
  <2>1. frames'[n] = frames[n]
    BY <1>1
  <2> QED BY <2>1, Zenon DEF Cuttable, Fits
<1>3. Cuttable(l + 1)' <=> (ts_fp /\ f.type # "other" /\ Fits(f))
  BY <1>1, Zenon DEF Cuttable, Fits
<1> QED BY <1>1, <1>2, <1>3

LEMMA CutKept == DemuxInv /\ TimesInv /\ CutInv /\ [AvNext]_avVars => CutInv'
<1> SUFFICES ASSUME DemuxInv, TimesInv, CutInv, [AvNext]_avVars PROVE CutInv'
  OBVIOUS
<1>1. frames \in Seq(Handed) /\ made \in Seq(Made)
  BY DEF DemuxInv, FramesInv, TimesInv
<1>2. CASE ~HandOn
  <2>1. UNCHANGED <<made, cut, ts_fp, frames>>
    BY <1>2, OthersKeep DEF DemuxInv
  <2> QED BY <2>1 DEF CutInv, CutAt, Cuttable
<1>3. ASSUME HandOn PROVE CutInv'
  <2>1. PICK f \in Handed :
          /\ frames' = Append(frames, f) /\ ts_fp' = ts_fp
          /\ ts_fp /\ f.type # "other" /\ Fits(f) =>
               \E p \in Made :
                 made' = Append(made, p) /\ cut' = Append(cut, Len(frames) + 1) /\ PesOf(p, f)
          /\ ~(ts_fp /\ f.type # "other" /\ Fits(f)) => made' = made /\ cut' = cut
    BY <1>3, HandOnDoes
  <2>2. PICK l : l = Len(frames)
    OBVIOUS
  <2>3. /\ l \in Nat /\ Len(frames') = l + 1 /\ frames'[l + 1] = f
        /\ \A n \in 1..l : frames'[n] = frames[n] /\ (Cuttable(n)' <=> Cuttable(n))
        /\ Cuttable(l + 1)' <=> (ts_fp /\ f.type # "other" /\ Fits(f))
    <3>1. frames' = Append(frames, f) /\ ts_fp' = ts_fp
      BY <2>1
    <3> QED BY <1>1, <2>2, <3>1, FramesStay
  <2>4. /\ cut \in Seq(Nat) /\ Len(cut) = Len(made) /\ Len(cut) \in Nat
        /\ \A k \in 1..Len(cut) : /\ cut[k] \in 1..l /\ Cuttable(cut[k])
                                  /\ PesOf(made[k], frames[cut[k]])
        /\ \A k \in 1..(Len(cut) - 1) : cut[k] < cut[k + 1]
        /\ \A n \in 1..l : Cuttable(n) => \E k \in 1..Len(cut) : cut[k] = n
    BY <2>2 DEF CutInv, CutAt
  <2>5. CASE ~Cuttable(l + 1)'
    <3>1. made' = made /\ cut' = cut
      BY <2>1, <2>3, <2>5
    <3>2. \A k \in 1..Len(cut) : CutAt(k)'
      <4> SUFFICES ASSUME NEW k \in 1..Len(cut) PROVE CutAt(k)'
        OBVIOUS
      <4>1. PICK x \in 1..l : x = cut[k] /\ Cuttable(x) /\ PesOf(made[k], frames[x])
        BY <2>4
      <4>2. x \in 1..(l + 1) /\ Cuttable(x)' /\ PesOf(made[k], frames'[x])
        <5>1. x \in 1..(l + 1)
          BY <2>3
        <5>2. frames'[x] = frames[x]
          BY <2>3
        <5> QED BY <2>3, <4>1, <5>1, <5>2, Zenon
      <4> QED BY <2>3, <3>1, <4>1, <4>2, Zenon DEF CutAt, PesOf
    <3>3. \A n \in 1..(l + 1) : Cuttable(n)' => \E k \in 1..Len(cut) : cut[k] = n
      BY <2>3, <2>4, <2>5
    <3> QED BY <2>3, <2>4, <3>1, <3>2, <3>3 DEF CutInv
  <2>6. CASE Cuttable(l + 1)'
    <3>1. PICK p \in Made :
            made' = Append(made, p) /\ cut' = Append(cut, l + 1) /\ PesOf(p, f)
      BY <2>1, <2>2, <2>3, <2>6
    <3>2. PICK c : c = Len(cut)
      OBVIOUS
    <3>3. /\ c \in Nat /\ Len(cut') = c + 1 /\ cut'[c + 1] = l + 1 /\ cut' \in Seq(Nat)
          /\ \A k \in 1..c : cut'[k] = cut[k]
      BY <2>3, <2>4, <3>1, <3>2
    <3>4. Len(made') = c + 1 /\ made'[c + 1] = p /\ \A k \in 1..c : made'[k] = made[k]
      BY <1>1, <2>4, <3>1, <3>2
    <3>5. ASSUME NEW k \in 1..(c + 1)
          PROVE  CutAt(k)'
      <4>1. CASE k \in 1..c
        <5>1. PICK x \in 1..l : x = cut[k] /\ Cuttable(x) /\ PesOf(made[k], frames[x])
          BY <2>4, <3>2, <4>1
        <5>2. x \in 1..(l + 1)
          BY <2>3
        <5>3. cut'[k] = x /\ made'[k] = made[k] /\ frames'[x] = frames[x] /\ Cuttable(x)'
          BY <2>3, <3>3, <3>4, <4>1, <5>1, Zenon
        <5> QED BY <2>3, <5>1, <5>2, <5>3, Zenon DEF CutAt, PesOf
      <4>2. CASE k = c + 1
        <5>1. l + 1 \in 1..(l + 1)
          BY <2>3
        <5> QED BY <2>3, <2>6, <3>1, <3>3, <3>4, <4>2, <5>1, Zenon DEF CutAt, PesOf
      <4> QED BY <3>3, <4>1, <4>2
    <3>6. ASSUME NEW k \in 1..c PROVE cut'[k] < cut'[k + 1]
      <4>1. k + 1 \in 1..c => cut'[k] < cut'[k + 1]
        <5>1. k + 1 \in 1..c => k \in 1..(c - 1)
          BY <3>3
        <5> QED BY <2>4, <3>2, <3>3, <5>1
      <4>2. k = c => cut'[k] < cut'[k + 1]
        <5>1. cut'[k] \in 1..l
          BY <2>4, <3>2, <3>3
        <5> QED BY <2>3, <3>3, <5>1
      <4>3. k = c \/ k + 1 \in 1..c
        BY <3>3
      <4> QED BY <4>1, <4>2, <4>3
    <3>7. ASSUME NEW n \in 1..(l + 1), Cuttable(n)'
          PROVE  \E k \in 1..(c + 1) : cut'[k] = n
      <4>1. CASE n = l + 1
        BY <3>3, <4>1
      <4>2. CASE n \in 1..l
        <5>1. PICK k \in 1..c : cut[k] = n
          BY <2>3, <2>4, <3>2, <3>7, <4>2
        <5>2. k \in 1..(c + 1)
          BY <3>3
        <5> QED BY <3>3, <5>1, <5>2
      <4> QED BY <2>3, <4>1, <4>2
    <3>8. Len(cut') - 1 = c
      BY <3>3
    <3>9. \A k \in 1..Len(cut') : CutAt(k)'
      BY <3>3, <3>5, Zenon
    <3>10. \A k \in 1..(Len(cut') - 1) : cut'[k] < cut'[k + 1]
      BY <3>6, <3>8, Zenon
    <3>11. \A n \in 1..Len(frames') : Cuttable(n)' => \E k \in 1..Len(cut') : cut'[k] = n
      BY <2>3, <3>3, <3>7, Zenon
    <3>12. cut' \in Seq(Nat) /\ Len(cut') = Len(made')
      BY <3>3, <3>4
    <3> QED BY <3>9, <3>10, <3>11, <3>12, Zenon DEF CutInv
  <2> QED BY <2>5, <2>6
<1> QED BY <1>2, <1>3

THEOREM CutInvariant == AvSpec => [](DemuxInv /\ TimesInv /\ CutInv)
<1>1. AvInit => CutInv
  BY DEF AvInit, Init, Mux!Init, CutInv
<1>2. DemuxInv /\ TimesInv /\ CutInv /\ [AvNext]_avVars => CutInv'
  BY CutKept
<1> QED BY <1>1, <1>2, AvToTsDemuxes, DemuxInvariant, TimesInvariant, PTL DEF AvSpec

(* As long as there is a file, every audio or video frame that fits into   *)
(* pes_buf is made into one PES, in the order of the messages, and no      *)
(* other frame is (rtmp_tots.cpp:200-262): whatever the lengths, no frame  *)
(* is taken for one that fits because the sum of its lengths wrapped.      *)
THEOREM EveryFrameCut == AvSpec => []OnePesPerFrame
<1>1. CutInv => OnePesPerFrame
  <2> SUFFICES ASSUME CutInv PROVE OnePesPerFrame
    OBVIOUS
  <2>1. ASSUME NEW x \in {cut[k] : k \in 1..Len(cut)}
        PROVE  x \in {n \in 1..Len(frames) : ts_fp /\ frames[n].type # "other" /\ Fits(frames[n])}
    BY DEF CutInv, CutAt, Cuttable
  <2>2. ASSUME NEW x \in {n \in 1..Len(frames) :
                            ts_fp /\ frames[n].type # "other" /\ Fits(frames[n])}
        PROVE  x \in {cut[k] : k \in 1..Len(cut)}
    BY DEF CutInv, Cuttable
  <2> QED BY <2>1, <2>2 DEF CutInv, OnePesPerFrame
<1> QED BY <1>1, CutInvariant, PTL

-----------------------------------------------------------------------------
(* What a PES is made of. *)

(* The NAL units of a picture have more bytes than one start code. *)
LEMMA UnitsLong ==
  ASSUME NEW m, VideoMessage(m), ~IsSequenceHeader(m), m.nals # <<>>
  PROVE  /\ AnnexB(m.nals) \in Seq(Byte) /\ Len(AnnexB(m.nals)) = Len(m.body)
         /\ Len(m.body) \in Nat /\ Len(m.body) >= 5
<1>1. PICK nals, body, e : nals = m.nals /\ body = m.body /\ e = Ends(WithLengths(nals))
  OBVIOUS
<1>2. /\ nals \in Seq(Seq(Byte)) /\ nals # <<>> /\ body \in Seq(Byte) /\ Len(body) \in Nat
      /\ body = Avcc(nals) /\ Len(body) < UintMod /\ \A i \in 1..Len(nals) : nals[i] # <<>>
  BY <1>1, PictureIs
<1>3. PICK n, l : n = Len(nals) /\ l = Len(body)
  OBVIOUS
<1>4. /\ n \in Nat \ {0} /\ e[0] = 0 /\ \A i \in 0..n : e[i] \in Nat /\ e[i] <= l
      /\ AnnexB(nals) \in Seq(Byte) /\ Len(AnnexB(nals)) = l
      /\ \A i \in 1..n : Len(nals[i]) \in Nat /\ e[i] = e[i - 1] + 4 + Len(nals[i])
  <2>1. /\ nals \in Seq(Seq(Byte)) /\ nals # <<>> /\ body \in Seq(Byte)
        /\ body = Avcc(nals) /\ Len(body) < UintMod
    BY <1>2
  <2> QED BY ONLY <1>1, <1>3, <2>1, PictureParts
<1>5. PICK x : x = Len(nals[1])
  OBVIOUS
<1>6. x \in Nat /\ x > 0
  <2>1. 1 \in 1..Len(nals) /\ nals[1] # <<>> /\ nals[1] \in Seq(Byte)
    BY <1>2, <1>3, <1>4
  <2> QED BY <1>5, <2>1
<1>7. e[1] = 4 + x /\ e[1] <= l
  <2>1. 1 \in 1..n /\ 1 \in 0..n /\ 1 - 1 = 0
    BY <1>4
  <2> QED BY <1>4, <1>5, <1>6, <2>1
<1>8. l \in Nat /\ l >= 5
  BY <1>2, <1>3, <1>6, <1>7
<1> QED BY <1>1, <1>3, <1>4, <1>8

(* The PES of a picture: of the units meant the fifth byte says whether a  *)
(* delimiter is needed, and their length is that of head and data.         *)
LEMMA UnitsCut ==
  ASSUME DemuxInv, NEW f \in Handed, FrameRight(f), f.type = "h264", IsMeant(f)
  PROVE  /\ Pack(f).unit = "startcode"
         /\ Pack(f).aud = (UnitsMeant(f)[5] = Delimiter)
         /\ Len(UnitsMeant(f)) = f.head_len + f.data_len
<1>1. PICK m, h : m = taken[f.of] /\ h = LastBefore(f.of, SequenceHeaders)
  OBVIOUS
<1>2. /\ m.nals # <<>> /\ (f.key => h > 0 /\ OneSps(taken[h]))
      /\ m.type = "video" /\ ~IsSequenceHeader(m)
      /\ f.data_len = Len(m.body) /\ f.data_len <= Len(f.data)
  BY <1>1 DEF IsMeant, FrameRight, FromMessage
<1>3. VideoMessage(m)
  <2>1. taken \in Seq(Messages) /\ f.of \in 1..Len(taken)
    BY DEF DemuxInv, TypeOK, FrameRight
  <2> QED BY <1>1, <1>2, <2>1, MessageKinds
<1>4. PICK units, d, came : units = AnnexB(m.nals) /\ d = f.data_len /\ came = f.data
  OBVIOUS
<1>5. units \in Seq(Byte) /\ Len(units) = d /\ d \in Nat /\ d >= 5
  BY <1>2, <1>3, <1>4, UnitsLong
<1>6. came \in Seq(Byte) /\ f.key \in BOOLEAN
  BY <1>4 DEF Handed
<1>7. SubSeq(came, 1, d) = units
  BY <1>1, <1>2, <1>4 DEF FrameRight, NalsOf
<1>8. StartsWith(UnitBytes(f), StartCode)
  BY <1>1, <1>2 DEF FrameRight, CodeInFront
<1>9. /\ Pack(f).unit = "startcode" /\ Pack(f).aud = (FirstBytes(f)[5] = Delimiter)
  BY <1>8 DEF Pack
<1>10. CASE ~f.key
  <2>1. f.head_len = 0 /\ FirstBytes(f) = came
    BY <1>4, <1>10 DEF FrameRight, HeadIn, FirstBytes
  <2>2. UnitsMeant(f) = <<>> \o units
    BY <1>1, <1>4, <1>10 DEF UnitsMeant
  <2>3. UnitsMeant(f) = units
    BY <1>5, <2>2
  <2>4. units[5] = came[5]
    <3>1. /\ 1 \in Nat \ {0} /\ d \in Int /\ 1 - 1 <= d /\ d <= Len(came) /\ 5 \in 1..Len(units)
      BY <1>2, <1>4, <1>5
    <3>2. \A k \in 1..Len(units) : came[1 + k - 1] = units[k]
      BY ONLY <1>5, <1>6, <1>7, <3>1, PartOf
    <3> QED BY <3>1, <3>2
  <2> QED BY <1>4, <1>5, <1>9, <2>1, <2>3, <2>4
<1>11. CASE f.key
  <2>1. PICK head, a : head = f.head /\ a = f.head_len
    OBVIOUS
  <2>2. /\ head \in Seq(Byte) /\ a = Len(head) /\ a > 4 /\ head = AnnexB(FirstSets(taken[h]))
    BY <1>1, <1>2, <1>11, <2>1 DEF FrameRight, HeadIn
  <2>3. FirstBytes(f) = head
    BY <1>11, <2>1, <2>2 DEF FirstBytes
  <2>4. UnitsMeant(f) = head \o units
    BY <1>1, <1>4, <1>11, <2>2 DEF UnitsMeant
  <2>5. /\ Len(head \o units) = a + d /\ (head \o units)[5] = head[5]
    <3>1. Len(head \o units) = Len(head) + Len(units)
          /\ \A k \in 1..Len(head) : (head \o units)[k] = head[k]
      BY ONLY <1>5, <2>2, CatParts
    <3>2. 5 \in 1..Len(head)
      BY <2>2
    <3> QED BY <1>5, <2>2, <3>1, <3>2
  <2> QED BY <1>4, <1>9, <2>1, <2>3, <2>4, <2>5
<1> QED BY <1>6, <1>10, <1>11

(* A PES has the kind, the key mark, the time and the length that the      *)
(* message asks for (rtmp_tots.cpp:149-262): a picture is as long as the   *)
(* SPS and PPS in front of it, its NAL units and the delimiter it lacks,   *)
(* an audio frame as long as its ADTS header and what came after one byte, *)
(* for every number and length of NAL units and sets.                      *)
THEOREM PesOfMessages == AvSpec => []PesAsMeant
<1>1. DemuxInv /\ CutInv => PesAsMeant
  <2> SUFFICES ASSUME DemuxInv, CutInv, NEW k \in 1..Len(made)
               PROVE  LET f == frames[cut[k]]
                          m == taken[f.of]
                      IN  /\ made[k].pid = IF m.type = "audio" THEN Mux!AUDIO_PID
                                                              ELSE Mux!VIDEO_PID
                          /\ made[k].key = (m.type = "video" /\ m.key)
                          /\ m.type = "audio" => made[k].own_ms = m.ts
                          /\ m.type = "video" => made[k].ms = (m.ts + Offset(m)) % TimeMod
                          /\ IsMeant(f) =>
                               made[k].len = 19 + (IF UnitsMeant(f)[5] = Delimiter THEN 0 ELSE 6)
                                               + Len(UnitsMeant(f))
                          /\ m.type = "audio" /\ LastBefore(f.of, AudioConfigs) > 0 =>
                               made[k].len = 14 + 7 + (m.len - 1)
    BY DEF PesAsMeant
  <2>0. PICK f, m : f = frames[cut[k]] /\ m = taken[f.of]
    OBVIOUS
  <2>1. PICK p : p = made[k]
    OBVIOUS
  <2>2. cut[k] \in 1..Len(frames) /\ Cuttable(cut[k]) /\ PesOf(p, f)
    BY <2>0, <2>1 DEF CutInv, CutAt
  <2>3. FrameRight(f) /\ f \in Handed
    BY <2>0, <2>2, EachFrame
  <2>4. f.type \in {"h264", "aac"} /\ Fits(f)
    BY <2>0, <2>2, <2>3 DEF Cuttable, Handed
  <2>5. Pack(f).es_len = f.head_len + f.data_len /\ Pack(f).type = f.type
    BY <2>3, <2>4, PackTyped, FitsIs
  <2>6. FromMessage(f)
    BY <2>3 DEF FrameRight
  <2>7. CASE f.type = "aac"
    <3>1. /\ m.type = "audio" /\ ~f.key /\ f.picture_ms = m.ts /\ f.data_len = m.len - 1
      BY <2>0, <2>6, <2>7 DEF FromMessage
    <3>2. p.pid = Mux!AUDIO_PID /\ p.key = FALSE /\ p.own_ms = f.picture_ms
      BY <2>2, <2>7 DEF PesOf
    <3>3. LastBefore(f.of, AudioConfigs) > 0 => p.len = 14 + 7 + (m.len - 1)
      <4> SUFFICES ASSUME LastBefore(f.of, AudioConfigs) > 0 PROVE p.len = 14 + 7 + (m.len - 1)
        OBVIOUS
      <4>1. f.head_len = 7
        BY <2>3, <2>7 DEF FrameRight, AdtsIn
      <4>2. p.len = Pack(f).es_len + Mux!PesHeaderLen(Pack(f)) /\ Mux!PesHeaderLen(Pack(f)) = 14
        BY <2>2, <2>5, <2>7 DEF PesOf, Mux!PesHeaderLen
      <4>3. PICK x : x = m.len - 1 /\ p.len = (7 + x) + 14
        BY <2>5, <3>1, <4>1, <4>2
      <4>4. x \in Nat
        BY <2>3, <2>7, <3>1, <4>3 DEF Handed
      <4>5. (7 + x) + 14 = 14 + 7 + x
        BY ONLY <4>4
      <4> QED BY <4>3, <4>5
    <3>4. ~IsMeant(f)
      BY <2>7 DEF IsMeant
    <3> QED BY <2>0, <2>1, <3>1, <3>2, <3>3, <3>4
  <2>8. CASE f.type = "h264"
    <3>1. /\ m.type = "video" /\ f.key = m.key /\ f.picture_ms = (m.ts + Offset(m)) % TimeMod
      BY <2>0, <2>6, <2>8 DEF FromMessage
    <3>2. p.pid = Mux!VIDEO_PID /\ p.key = f.key /\ p.ms = f.picture_ms
      BY <2>2, <2>8 DEF PesOf
    <3>3. f.key \in BOOLEAN
      BY <2>3 DEF Handed
    <3>4. p.key = (m.type = "video" /\ m.key)
      BY <3>1, <3>2, <3>3
    <3>5. IsMeant(f) => p.len = 19 + (IF UnitsMeant(f)[5] = Delimiter THEN 0 ELSE 6)
                                  + Len(UnitsMeant(f))
      <4> SUFFICES ASSUME IsMeant(f)
                   PROVE  p.len = 19 + (IF UnitsMeant(f)[5] = Delimiter THEN 0 ELSE 6)
                                    + Len(UnitsMeant(f))
        OBVIOUS
      <4>1. /\ Pack(f).unit = "startcode" /\ Pack(f).aud = (UnitsMeant(f)[5] = Delimiter)
            /\ Len(UnitsMeant(f)) = f.head_len + f.data_len
        BY <2>3, <2>8, UnitsCut
      <4>2. PICK x, a : x = f.head_len + f.data_len /\ a = UnitsMeant(f)[5]
        OBVIOUS
      <4>3. x \in Nat
        BY <2>3, <4>2 DEF Handed
      <4>4. p.len = x + (IF a # Delimiter THEN 25 ELSE 19)
        BY <2>2, <2>5, <2>8, <4>1, <4>2 DEF PesOf, Mux!PesHeaderLen
      <4>5. p.len = 19 + (IF a = Delimiter THEN 0 ELSE 6) + x
        BY ONLY <4>3, <4>4
      <4> QED BY <4>1, <4>2, <4>5
    <3> QED BY <2>0, <2>1, <3>1, <3>2, <3>4, <3>5
  <2> QED BY <2>4, <2>7, <2>8
<1> QED BY <1>1, CutInvariant, PTL

-----------------------------------------------------------------------------
(* The time of audio. *)

(* Times that can be added to without a carry are compared as meant.       *)
LEMMA TimeChosen ==
  ASSUME NEW own \in Nat, NEW video \in Nat, NEW near \in Nat \ {0}, NEW wrap \in Nat \ {0},
         own < wrap,
         NEW t, t = own \/ t = video,
         t = own => (own - near) % wrap < video /\ video < (own + near) % wrap
  PROVE  t - video < near /\ video - t < near
<1>1. CASE t = video
  BY <1>1
<1>2. CASE t = own
  <2>1. video - own < near
    <3>1. PICK s, m : s = own + near /\ m = s % wrap
      OBVIOUS
    <3>2. m <= s
      <4>1. PICK q : q = s \div wrap
        OBVIOUS
      <4>2. s \in Nat /\ q \in Nat /\ m \in 0..(wrap - 1) /\ s = wrap * q + m
        <5>1. s \in Nat
          BY <3>1
        <5>2. s \div wrap \in Nat /\ s % wrap \in 0..(wrap - 1) /\ s = wrap * (s \div wrap) + (s % wrap)
          BY ONLY <5>1, wrap \in Nat \ {0}, Division
        <5> QED BY <3>1, <4>1, <5>1, <5>2
      <4>3. wrap * q \in Nat
        BY <4>2
      <4> QED BY <4>2, <4>3
    <3>3. video < m /\ m \in Int
      BY <1>2, <3>1
    <3> QED BY <3>1, <3>2, <3>3
  <2>2. own - video < near
    <3>1. CASE own < near
      BY <3>1
    <3>2. CASE own >= near
      <4>1. PICK r : r = own - near
        OBVIOUS
      <4>2. r \in 0..(wrap - 1)
        BY <3>2, <4>1
      <4>3. (wrap * 0 + r) % wrap = r
        BY <4>2, DivisionUnique
      <4>4. wrap * 0 + r = r
        BY <4>2
      <4>5. r < video
        BY <1>2, <4>1, <4>3, <4>4
      <4> QED BY <4>1, <4>5
    <3> QED BY <3>1, <3>2
  <2> QED BY <1>2, <2>1, <2>2
<1> QED BY <1>1, <1>2

(* No audio comes later than the clock of 64 bits can say.                 *)
TimesShort == Near \in Nat \ {0} /\ Wrap \in Nat \ {0} /\ \A m \in Messages : m.ts < Wrap

LEMMA AudioTimeNear ==
  ASSUME TimesShort, NEW f \in Handed, f.type = "aac", f.picture_ms < Wrap,
         last_video_picture_ms \in Nat, last_video_picture_ms # 0
  PROVE  NearTo(Mux!AudioTime(Pack(f)), last_video_picture_ms)
<1>1. PICK own, video, t :
        own = f.picture_ms /\ video = last_video_picture_ms /\ t = Mux!AudioTime(Pack(f))
  OBVIOUS
<1>2. Pack(f).picture_ms = own /\ own \in Nat
  BY <1>1, PackTyped
<1>3. t = IF \/ video = 0
             \/ (own - Near) % Wrap < video /\ video < (own + Near) % Wrap
          THEN own ELSE video
  BY <1>1, <1>2 DEF Mux!AudioTime
<1>4. /\ own < Wrap /\ video \in Nat /\ (t = own \/ t = video)
      /\ Near \in Nat \ {0} /\ Wrap \in Nat \ {0}
  BY <1>1, <1>3 DEF TimesShort
<1>5. CASE t = own /\ own # video
  <2>1. (own - Near) % Wrap < video /\ video < (own + Near) % Wrap
    BY <1>1, <1>3, <1>5
  <2>2. t - video < Near /\ video - t < Near
    BY ONLY <1>2, <1>4, <2>1, TimeChosen
  <2> QED BY <1>1, <2>2 DEF NearTo
<1>6. CASE t = video
  BY <1>1, <1>4, <1>6 DEF NearTo
<1> QED BY <1>4, <1>5, <1>6

LEMMA NearKept ==
  ASSUME TimesShort, DemuxInv, TimesInv, CutInv, NearInv, [AvNext]_avVars
  PROVE  NearInv'
<1>1. /\ frames \in Seq(Handed) /\ made \in Seq(Made) /\ cut \in Seq(Nat) /\ Len(cut) = Len(made)
      /\ last_video_picture_ms \in Nat
  BY DEF DemuxInv, FramesInv, TimesInv, CutInv
<1>2. CASE ~HandOn
  <2>1. UNCHANGED <<made, cut, frames, last_video_picture_ms>> /\ (pc' # "done" => pc # "done")
    BY <1>2, OthersKeep DEF DemuxInv
  <2> QED BY <2>1 DEF NearInv, NearAt, LastVideo
<1>3. ASSUME HandOn PROVE NearInv'
  <2>1. PICK f \in Handed :
          /\ frames' = Append(frames, f) /\ FrameRight(f)' /\ pc # "done" /\ ts_fp' = ts_fp
          /\ f.type # "h264" => last_video_picture_ms' = last_video_picture_ms
          /\ f.type = "h264" /\ pc' # "done" => last_video_picture_ms' = f.picture_ms
          /\ ts_fp /\ f.type # "other" /\ Fits(f) =>
               \E p \in Made :
                 /\ made' = Append(made, p) /\ cut' = Append(cut, Len(frames) + 1)
                 /\ PesOf(p, f)
                 /\ f.type = "aac" => p.ms = Mux!AudioTime(Pack(f))
          /\ ~(ts_fp /\ f.type # "other" /\ Fits(f)) => made' = made /\ cut' = cut
    BY <1>3, HandOnDoes
  <2>2. PICK l, c : l = Len(frames) /\ c = Len(cut)
    OBVIOUS
  <2>3. /\ l \in Nat /\ Len(frames') = l + 1 /\ frames'[l + 1] = f
        /\ \A n \in 1..l : frames'[n] = frames[n]
    BY <1>1, <2>1, <2>2, FramesStay
  <2>4. c \in Nat /\ \A k \in 1..c : cut[k] \in 1..l /\ NearAt(k)
    BY <1>1, <2>2 DEF CutInv, CutAt, NearInv
  <2>5. \A n \in 1..l : LastVideo(n, l) => last_video_picture_ms = frames[n].picture_ms
    BY <2>1, <2>2 DEF NearInv
  <2>6. ASSUME NEW n \in 1..l, NEW u \in 0..l PROVE LastVideo(n, u)' <=> LastVideo(n, u)
    <3>1. \A i \in (n + 1)..u : i \in 1..l
      BY <2>3
    <3> QED BY <2>3, <3>1 DEF LastVideo
  <2>7. ASSUME NEW n \in 1..(l + 1), LastVideo(n, l + 1)', f.type # "h264"
        PROVE  n \in 1..l /\ LastVideo(n, l)
    <3>1. n # l + 1
      BY <2>3, <2>7 DEF LastVideo
    <3>2. n \in 1..l
      BY <2>3, <3>1
    <3>3. LastVideo(n, l)'
      <4>1. \A i \in (n + 1)..l : i \in (n + 1)..(l + 1)
        BY <2>3, <3>2
      <4> QED BY <2>7, <4>1 DEF LastVideo
    <3>4. l \in 0..l
      BY <2>3
    <3> QED BY <2>6, <3>2, <3>3, <3>4
  <2>8. ASSUME pc' # "done", NEW n \in 1..(l + 1), LastVideo(n, l + 1)'
        PROVE  last_video_picture_ms' = frames'[n].picture_ms
    <3>1. CASE f.type # "h264"
      <4>1. n \in 1..l /\ LastVideo(n, l)
        BY <2>7, <2>8, <3>1
      <4>2. last_video_picture_ms = frames[n].picture_ms
        BY <2>5, <4>1
      <4> QED BY <2>1, <2>3, <3>1, <4>1, <4>2
    <3>2. CASE f.type = "h264"
      <4>1. ~(n \in 1..l)
        <5>1. n \in 1..l => l + 1 \in (n + 1)..(l + 1)
          BY <2>3
        <5> QED BY <2>3, <2>8, <3>2, <5>1 DEF LastVideo
      <4>2. n = l + 1
        BY <2>3, <4>1
      <4> QED BY <2>1, <2>3, <2>8, <3>2, <4>2
    <3> QED BY <3>1, <3>2
  <2>9. ASSUME NEW k \in 1..c, cut'[k] = cut[k], made'[k] = made[k] PROVE NearAt(k)'
    <3>1. PICK x \in 1..l : x = cut[k]
      BY <2>4
    <3>2. NearAt(k)
      BY <2>4
    <3>3. \A n \in 1..x : n \in 1..l /\ frames'[n] = frames[n] /\ (LastVideo(n, x)' <=> LastVideo(n, x))
      <4> SUFFICES ASSUME NEW n \in 1..x
                   PROVE  /\ n \in 1..l /\ frames'[n] = frames[n]
                          /\ LastVideo(n, x)' <=> LastVideo(n, x)
        OBVIOUS
      <4>1. n \in 1..l /\ x \in 0..l
        BY <2>3
      <4> QED BY <2>3, <2>6, <4>1
    <3> QED BY <2>9, <3>1, <3>2, <3>3, Zenon DEF NearAt
  <2>10. CASE ~(ts_fp /\ f.type # "other" /\ Fits(f))
    <3>1. made' = made /\ cut' = cut
      BY <2>1, <2>10
    <3>2. \A k \in 1..Len(made') : NearAt(k)'
      BY <1>1, <2>2, <2>9, <3>1
    <3> QED BY <2>3, <2>8, <3>2 DEF NearInv
  <2>11. CASE ts_fp /\ f.type # "other" /\ Fits(f)
    <3>1. PICK p \in Made :
            /\ made' = Append(made, p) /\ cut' = Append(cut, l + 1) /\ PesOf(p, f)
            /\ f.type = "aac" => p.ms = Mux!AudioTime(Pack(f))
      BY <2>1, <2>2, <2>11
    <3>2. /\ Len(cut') = c + 1 /\ cut'[c + 1] = l + 1 /\ \A k \in 1..c : cut'[k] = cut[k]
      BY <1>1, <2>2, <3>1
    <3>3. Len(made') = c + 1 /\ made'[c + 1] = p /\ \A k \in 1..c : made'[k] = made[k]
      BY <1>1, <2>2, <3>1
    <3>4. NearAt(c + 1)'
      <4> SUFFICES ASSUME p.pid = Mux!AUDIO_PID, NEW n \in 1..(l + 1),
                          LastVideo(n, l + 1)', frames'[n].picture_ms # 0
                   PROVE  NearTo(p.ms, frames'[n].picture_ms)
        BY <3>2, <3>3 DEF NearAt
      <4>1. f.type = "aac"
        BY <3>1 DEF PesOf, Mux!AUDIO_PID, Mux!VIDEO_PID
      <4>2. n \in 1..l /\ LastVideo(n, l)
        BY <2>7, <4>1
      <4>3. last_video_picture_ms = frames[n].picture_ms /\ frames'[n] = frames[n]
        BY <2>3, <2>5, <4>2
      <4>4. f.picture_ms < Wrap
        <5>1. DemuxInv'
          <6>1. [Next]_demuxVars
            BY <1>3 DEF HandOn, Next
          <6> QED BY <6>1, NextDemux
        <5>2. taken' \in Seq(Messages)
          BY <5>1 DEF DemuxInv, TypeOK
        <5>3. f.of \in 1..Len(taken') /\ f.picture_ms = taken'[f.of].ts
          BY <2>1, <4>1 DEF FrameRight, FromMessage
        <5>4. taken'[f.of] \in Messages
          BY <5>2, <5>3
        <5> QED BY <5>3, <5>4 DEF TimesShort
      <4>5. NearTo(Mux!AudioTime(Pack(f)), last_video_picture_ms)
        BY <1>1, <4>1, <4>3, <4>4, AudioTimeNear
      <4> QED BY <3>1, <4>1, <4>3, <4>5
    <3>5. \A k \in 1..Len(made') : NearAt(k)'
      <4> SUFFICES ASSUME NEW k \in 1..(c + 1) PROVE NearAt(k)'
        BY <3>3
      <4>1. k \in 1..c \/ k = c + 1
        BY <2>4
      <4> QED BY <2>9, <3>2, <3>3, <3>4, <4>1
    <3> QED BY <2>3, <2>8, <3>5 DEF NearInv
  <2> QED BY <2>10, <2>11
<1> QED BY <1>2, <1>3

(* Audio gets a time near that of the last video frame before it           *)
(* (rtmp_tots.cpp:169-180), for every threshold, width of the clock and    *)
(* order of messages, if no time stamp needs more bits than the clock has. *)
THEOREM AudioIsNearVideo == ASSUME TimesShort PROVE AvSpec => []AudioNearVideo
<1>1. AvInit => NearInv
  BY DEF AvInit, Init, Mux!Init, NearInv
<1>2. DemuxInv /\ TimesInv /\ CutInv /\ NearInv /\ [AvNext]_avVars => NearInv'
  BY NearKept
<1>3. CutInv /\ NearInv => AudioNearVideo
  <2> SUFFICES ASSUME CutInv, NearInv, NEW k \in 1..Len(made), made[k].pid = Mux!AUDIO_PID,
                      NEW n \in {i \in 1..cut[k] : frames[i].type = "h264"},
                      \A i \in {j \in 1..cut[k] : frames[j].type = "h264"} : i <= n,
                      frames[n].picture_ms # 0
               PROVE  /\ made[k].ms - frames[n].picture_ms < Near
                      /\ frames[n].picture_ms - made[k].ms < Near
    BY Zenon DEF AudioNearVideo
  <2>1. cut[k] \in Nat
    BY DEF CutInv
  <2>2. LastVideo(n, cut[k])
    <3> SUFFICES ASSUME NEW i \in (n + 1)..cut[k], frames[i].type = "h264" PROVE FALSE
      BY DEF LastVideo
    <3>1. i \in 1..cut[k]
      BY <2>1
    <3>2. i <= n
      BY <3>1
    <3> QED BY <2>1, <3>2
  <2> QED BY <2>2 DEF NearInv, NearAt, NearTo
<1> QED BY <1>1, <1>2, <1>3, CutInvariant, PTL DEF AvSpec

=============================================================================
