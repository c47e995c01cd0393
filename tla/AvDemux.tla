------------------------------ MODULE AvDemux ------------------------------
(***************************************************************************)
(* rtmp_process_video and rtmp_process_audio: what becomes of an audio or  *)
(* video message before it goes to the transport stream.  The lengths in   *)
(* front of the NAL units of a picture are overwritten with start codes,   *)
(* in place; SPS and PPS of the last sequence header go in front of every  *)
(* key frame, and an ADTS header made from the last audio header in front  *)
(* of every AAC frame.                                                     *)
(*                                                                         *)
(* A video message is its tag header and its bytes; an audio message only  *)
(* its tag header and how many bytes follow.  The handlers are entered     *)
(* with messages that hold at least their tag header.                      *)
(***************************************************************************)
EXTENDS Integers, SequencesExt

CONSTANTS
  ByteValues,    (* values of a byte, 256                                  *)
  MaxParameterSet, (* longest SPS or PPS taken, 256                        *)
  MaxOffset,     (* longest composition time believed, 1000 ms             *)
  TimeMod,       (* time stamps are 32 bits                                *)
  Messages,      (* what the server may send                               *)
  Tails,         (* what memory may hold behind a message                  *)
  Uninit,        (* lengths members may hold before they are set, as they  *)
                 (* are read: an int, but only ever used as unsigned       *)
  Garbage,       (* bytes video_head_data may hold before it is set        *)
  MaxMessages    (* how many messages come                                 *)

VARIABLES
  pc,                     (* "idle", "nal" in the loop, "done": thread over *)
  msg,                    (* the message in hand                           *)
  data,                   (* its bytes, as converted so far                *)
  messsge_data, data_len, (* how far the loop is, and what is left of them *)
  video_head_data, video_head_data_len,
  audio_head_data, audio_head_data_len,
  taken,                  (* history: the messages that came               *)
  frames                  (* history: the packs handed to the muxer        *)

pictureVars == <<msg, data, messsge_data, data_len>>
headVars    == <<video_head_data, video_head_data_len, audio_head_data, audio_head_data_len>>
demuxVars   == <<pc, pictureVars, headVars, taken, frames>>

NoMessage == [type |-> "none"]
NoAdts == [b2 |-> 0, b3 |-> 0, b4 |-> 0, b5 |-> 0]

-----------------------------------------------------------------------------
(* Bytes.                                                                  *)

Byte == 0..(ByteValues - 1)

StartCode == <<0, 0, 0, 1>>

(* Two bytes hold one of so many numbers. *)
Words == ByteValues * ByteValues

TwoBytes(s, i)  == s[i] * ByteValues + s[i + 1]
FourBytes(s, i) == TwoBytes(s, i) * Words + TwoBytes(s, i + 2)

(* An unsigned int wraps here. *)
UintMod == Words * Words

(* The other way round: a length in two bytes and in four. *)
InTwo(n)  == <<n \div ByteValues, n % ByteValues>>
InFour(n) == InTwo(n \div Words) \o InTwo(n % Words)

(* NAL units with their lengths in front, as the server sends them, and    *)
(* with start codes, as they are to be written.                            *)
Avcc(nals)   == FlattenSeq([i \in 1..Len(nals) |-> InFour(Len(nals[i])) \o nals[i]])
AnnexB(nals) == FlattenSeq([i \in 1..Len(nals) |-> StartCode \o nals[i]])

-----------------------------------------------------------------------------
(* What the server may send.                                               *)

IsSequenceHeader(m) == m.type = "video" /\ m.codec_id = 7 /\ m.key /\ m.avc_packet_type = 0
IsAudioConfig(m)    == m.type = "audio" /\ m.sound_format = 10 /\ m.config

(* The parameter sets of a sequence header, each with its length in front. *)
SetBytes(sets) == FlattenSeq([i \in 1..Len(sets) |-> InTwo(Len(sets[i])) \o sets[i]])

(* A sequence header has 6 bytes, the last of which counts the SPS, then   *)
(* the SPS, a byte that counts the PPS, and the PPS; m.nals is all of them *)
(* and m.sps_num says how many are SPS.                                    *)
MadeOfSets(m) ==
  /\ m.sps_num \in 1..(Len(m.nals) - 1)
  /\ \A i \in 1..Len(m.nals) : Len(m.nals[i]) < Words
  /\ SubSeq(m.body, 7, Len(m.body)) =
       SetBytes(SubSeq(m.nals, 1, m.sps_num)) \o <<Len(m.nals) - m.sps_num>>
         \o SetBytes(SubSeq(m.nals, m.sps_num + 1, Len(m.nals)))

(* A video message that is not damaged says what NAL units it is made of.  *)
MadeOfNals(m) ==
  /\ \A i \in 1..Len(m.nals) : m.nals[i] # <<>>
  /\ IF IsSequenceHeader(m) THEN MadeOfSets(m) ELSE m.body = Avcc(m.nals)

(* The length of a message has three bytes, so no sum of it and of what    *)
(* goes in front of a frame comes near the end of an unsigned int.         *)
VideoMessage(m) ==
  /\ m.type = "video" /\ m.codec_id \in Nat /\ m.key \in BOOLEAN /\ m.avc_packet_type \in Nat
  /\ m.composition_time \in Nat /\ m.ts \in Nat
  /\ m.body \in Seq(Byte) /\ Len(m.body) + 2 * MaxParameterSet + 8 < UintMod
  /\ m.nals \in Seq(Seq(Byte)) /\ (m.nals # <<>> => MadeOfNals(m))

AudioMessage(m) ==
  /\ m.type = "audio" /\ m.sound_format \in Nat /\ m.config \in BOOLEAN
  /\ m.ts \in Nat /\ m.len \in Nat \ {0} /\ m.len + 7 < UintMod
  /\ m.config => m.object \in Nat /\ m.frequency \in 0..15 /\ m.channels \in 0..15

(* As much lies behind a message as a damaged header can make the thread   *)
(* read.                                                                   *)
ASSUME AvAssumption ==
  /\ ByteValues \in Nat /\ ByteValues > 1
  /\ MaxParameterSet \in Nat /\ MaxOffset \in Nat /\ TimeMod \in Nat \ {0}
  /\ MaxMessages \in Nat
  /\ \A m \in Messages : VideoMessage(m) \/ AudioMessage(m)
  /\ Tails \subseteq Seq(Byte) /\ \A tail \in Tails : Len(tail) >= 2 * MaxParameterSet + 3
  /\ Uninit \subseteq 0..(UintMod - 1) /\ Garbage \in Seq(Byte)

-----------------------------------------------------------------------------
(* rtmp_client sets none of the four members it keeps headers in.          *)
Init ==
  /\ pc = "idle" /\ msg = NoMessage /\ data = <<>> /\ messsge_data = 0 /\ data_len = 0
  /\ video_head_data = Garbage /\ video_head_data_len \in Uninit
  /\ audio_head_data = NoAdts /\ audio_head_data_len \in Uninit
  /\ taken = <<>> /\ frames = <<>>

-----------------------------------------------------------------------------
Take(m) ==
  /\ pc = "idle" /\ Len(taken) < MaxMessages
  /\ taken' = Append(taken, m)

(* Mutant of Offset: any composition time is added. *)
OffsetUnchecked(m) == m.composition_time

Offset(m) == IF m.composition_time > MaxOffset THEN 0 ELSE m.composition_time

(* A message of another codec ends the thread. *)
VideoRefused(m) ==
  /\ m.type = "video" /\ m.codec_id # 7
  /\ Take(m)
  /\ pc' = "done"
  /\ UNCHANGED <<pictureVars, headVars, frames>>

(* Mutant of HeadStored: behind what is there. *)
HeadAppended(sps, pps) == video_head_data \o StartCode \o sps \o StartCode \o pps

(* Mutant of HeadStored: without the first start code. *)
HeadBare(sps, pps) == sps \o StartCode \o pps

(* SPS and PPS as they are kept, in start code form. *)
HeadStored(sps, pps) == StartCode \o sps \o StartCode \o pps

(* The AVC sequence header: 6 bytes, then the first SPS with its length,   *)
(* one byte that counts the PPS, the first PPS with its length.  Where it  *)
(* is too short or a length too long, the thread ends.                     *)
SequenceHeader(m, tail) ==
  LET mem     == m.body \o tail
      sps_len == TwoBytes(mem, 7)
      sps     == SubSeq(mem, 9, 8 + sps_len)
      no_sps  == Len(m.body) < 8 \/ sps_len > MaxParameterSet
      pps_at  == 9 + sps_len
      pps_len == TwoBytes(mem, pps_at + 1)
      pps     == SubSeq(mem, pps_at + 3, pps_at + 2 + pps_len)
      no_pps  == no_sps \/ pps_len > MaxParameterSet
  IN  /\ m.type = "video" /\ m.codec_id = 7 /\ m.key /\ m.avc_packet_type = 0
      /\ Take(m)
      /\ pc' = IF no_pps THEN "done" ELSE pc
      /\ video_head_data' = IF no_sps THEN StartCode
                            ELSE IF no_pps THEN StartCode \o sps \o StartCode
                            ELSE HeadStored(sps, pps)
      /\ video_head_data_len' = Len(video_head_data')
      /\ UNCHANGED <<pictureVars, audio_head_data, audio_head_data_len, frames>>

(* Any other video message is a picture, or the end of the sequence, which *)
(* has no bytes.                                                           *)
Picture(m, tail) ==
  /\ m.type = "video" /\ m.codec_id = 7 /\ ~(m.key /\ m.avc_packet_type = 0)
  /\ Take(m)
  /\ pc' = "nal"
  /\ msg' = m /\ data' = m.body \o tail
  /\ messsge_data' = 0 /\ data_len' = Len(m.body)
  /\ UNCHANGED <<headVars, frames>>

LoopOver == data_len <= 4

(* len + 4, an unsigned int. *)
AfterNal == (FourBytes(data, messsge_data + 1) + 4) % UintMod

(* Mutant of Marked: only the first three bytes are written. *)
MarkedThree == [i \in DOMAIN data |-> IF i - messsge_data \in 1..3 THEN 0 ELSE data[i]]

(* Mutant of Marked: the message is left as it came. *)
Unmarked == data

(* The bytes, with a start code in place of the length. *)
Marked ==
  [i \in DOMAIN data |-> IF i - messsge_data \in 1..4 THEN StartCode[i - messsge_data] ELSE data[i]]

(* Mutant of TooLong: the four bytes of the length are not counted. *)
TooLongWithoutLength == AfterNal - 4 > data_len

(* Mutant of TooLong: a unit that ends with the message is refused. *)
TooLongAtEnd == AfterNal >= data_len

TooLong == AfterNal > data_len

ConvertNal ==
  /\ pc = "nal" /\ ~LoopOver
  /\ IF TooLong
       THEN pc' = "done" /\ UNCHANGED <<data, messsge_data, data_len>>
       ELSE /\ data' = Marked
            /\ messsge_data' = messsge_data + AfterNal
            /\ data_len' = data_len - AfterNal
            /\ UNCHANGED pc
  /\ UNCHANGED <<msg, headVars, taken, frames>>

(* head_data_len + data_len wraps as an unsigned int does: only where the  *)
(* length of the header was never set.  The muxer then may copy as much as *)
(* head_data_len says, and that is the end of the program.                 *)
Wraps(f) == f.head_len + f.data_len >= UintMod

(* What becomes of the thread when frame f is handed on. *)
Survives(f) == pc' = "idle" \/ (Wraps(f) /\ pc' = "done")

(* A pack as rtmp_tots_packet_from_cache gets it: head_data and data with  *)
(* their lengths.  What lies behind data is kept because it is looked at.  *)
HandPicture ==
  /\ pc = "nal" /\ LoopOver
  /\ frames' = Append(frames,
       [type       |-> "h264",
        of         |-> Len(taken),
        picture_ms |-> (msg.ts + Offset(msg)) % TimeMod,
        key        |-> msg.key,
        head_len   |-> IF msg.key THEN video_head_data_len ELSE 0,
        head       |-> IF msg.key THEN video_head_data ELSE <<>>,
        data_len   |-> Len(msg.body),
        data       |-> data])
  /\ Survives(frames'[Len(frames')])
  /\ UNCHANGED <<pictureVars, headVars, taken>>

-----------------------------------------------------------------------------
(* AAC.  The second byte of the message is 0 in front of the two bytes of  *)
(* AudioSpecificConfig: 5 bits of object type, 4 of sampling frequency, 4  *)
(* of channels.                                                            *)
AudioConfig(m) ==
  /\ m.type = "audio" /\ m.sound_format = 10 /\ m.config
  /\ Take(m)
  /\ audio_head_data' =
       [b2 |-> ((m.object - 1) % 4) * 64 + m.frequency * 4 + ((m.channels \div 4) % 2),
        b3 |-> (m.channels % 4) * 64, b4 |-> 0, b5 |-> 0]
  /\ audio_head_data_len' = 7
  /\ UNCHANGED <<pc, pictureVars, video_head_data, video_head_data_len, frames>>

(* A frame that comes before the header is left out, if the length of the  *)
(* header happens to be 0.                                                 *)
AudioSkipped(m) ==
  /\ m.type = "audio" /\ m.sound_format = 10 /\ ~m.config /\ audio_head_data_len = 0
  /\ Take(m)
  /\ UNCHANGED <<pc, pictureVars, headVars, frames>>

(* a | b for two bits each.                                                *)
OrTwoBits(a, b) ==
  (IF a >= 2 \/ b >= 2 THEN 2 ELSE 0) + (IF a % 2 = 1 \/ b % 2 = 1 THEN 1 ELSE 0)

(* The length of the frame, 13 bits of it, in bytes 3, 4 and 5.            *)
WithLength(adts, len) ==
  [adts EXCEPT
     !.b3 = (@ \div 4) * 4 + OrTwoBits(@ % 4, (len \div 2048) % 4),
     !.b4 = (len \div 8) % 256,
     !.b5 = (len % 8) * 32]

(* Mutant of AfterFrame: b3 is not put back. *)
AfterFrameKept(adts) == adts

(* Byte 3 gets its value of before the length back.                        *)
AfterFrame(adts) == [adts EXCEPT !.b3 = audio_head_data.b3]

(* Other formats are handed on with type 0, as they are.  The ADTS bytes   *)
(* are written in their case too.                                          *)
AudioFrame(m) ==
  LET aac  == m.sound_format = 10
      len  == IF aac THEN m.len - 1 ELSE m.len
      adts == WithLength(audio_head_data, len + audio_head_data_len)
  IN  /\ m.type = "audio"
      /\ aac => ~m.config /\ audio_head_data_len # 0
      /\ Take(m)
      /\ frames' = Append(frames,
           [type       |-> IF aac THEN "aac" ELSE "other",
            of         |-> Len(taken'),
            picture_ms |-> m.ts,
            key        |-> FALSE,
            head_len   |-> IF aac THEN audio_head_data_len ELSE 0,
            head       |-> adts,
            data_len   |-> len,
            data       |-> <<>>])
      /\ Survives(frames'[Len(frames')])
      /\ audio_head_data' = AfterFrame(adts)
      /\ UNCHANGED <<pictureVars, video_head_data, video_head_data_len, audio_head_data_len>>

-----------------------------------------------------------------------------
(* The steps that hand nothing to the muxer, and those that do. *)
Inner ==
  \/ \E m \in Messages :
       \/ VideoRefused(m)
       \/ \E tail \in Tails : SequenceHeader(m, tail) \/ Picture(m, tail)
       \/ AudioConfig(m) \/ AudioSkipped(m)
  \/ ConvertNal

Handing == HandPicture \/ \E m \in Messages : AudioFrame(m)
Next == Inner \/ Handing

Spec == Init /\ [][Next]_demuxVars

-----------------------------------------------------------------------------
(* What a reader of an ADTS header finds in it. *)
AdtsRead(adts) ==
  [profile   |-> adts.b2 \div 64, frequency |-> (adts.b2 \div 4) % 16,
   channels  |-> (adts.b2 % 2) * 4 + adts.b3 \div 64,
   frame_len |-> (adts.b3 % 4) * 2048 + adts.b4 * 8 + adts.b5 \div 32]

AdtsBytes == 0..255

(* Types; the loop stays inside the message.                               *)
TypeOK ==
  /\ pc \in {"idle", "nal", "done"} /\ msg \in Messages \cup {NoMessage}
  /\ data \in Seq(Byte)
  /\ messsge_data \in Nat /\ data_len \in Nat
  /\ pc = "nal" => msg # NoMessage /\ messsge_data + data_len = Len(msg.body)
  /\ video_head_data \in Seq(Byte) /\ video_head_data_len \in Nat
  /\ audio_head_data \in [b2 : AdtsBytes, b3 : AdtsBytes, b4 : AdtsBytes, b5 : AdtsBytes]
  /\ audio_head_data_len \in Nat
  /\ taken \in Seq(Messages) /\ Len(taken) <= MaxMessages
  /\ \A k \in 1..Len(frames) : frames[k].of \in 1..Len(taken)

SequenceHeaders == {m \in Messages : IsSequenceHeader(m)}
AudioConfigs    == {m \in Messages : IsAudioConfig(m)}

(* The last message before message n that is in kind, 0 if there is none.  *)
LastBefore(n, kind) ==
  LET all == {k \in 1..(n - 1) : taken[k] \in kind}
  IN  IF all = {} THEN 0 ELSE CHOOSE k \in all : \A l \in all : l <= k

(* A picture is handed on with a start code in front of each of its NAL    *)
(* units and every other byte as it came, however the lengths lie and      *)
(* whatever start codes are written on the way.                            *)
NalsConverted ==
  \A k \in 1..Len(frames) :
    LET f == frames[k]
        m == taken[f.of]
    IN  f.type = "h264" /\ m.nals # <<>> =>
          SubSeq(f.data, 1, f.data_len) = AnnexB(m.nals)

(* A header with one SPS, as the code takes every header for; further PPS  *)
(* may be there and are left out.                                          *)
OneSps(m) == m.nals # <<>> /\ m.sps_num = 1

FirstSets(m) == SubSeq(m.nals, 1, 2)

(* A key frame carries the SPS and the first PPS of the last sequence      *)
(* header that came before it, and nothing of an earlier one, unless that  *)
(* header was damaged or had several SPS.                                  *)
HeadOfLatest ==
  \A k \in 1..Len(frames) :
    LET f == frames[k]
        h == LastBefore(f.of, SequenceHeaders)
    IN  f.type = "h264" /\ f.key /\ h > 0 /\ OneSps(taken[h]) =>
          SubSeq(f.head, 1, f.head_len) = AnnexB(FirstSets(taken[h]))

(* An AAC frame is preceded by an ADTS header of the last audio header and *)
(* of its own length, as far as 13 bits hold it.  Before the first audio   *)
(* header none is handed on, unless the length that was never set happens  *)
(* not to be 0.                                                            *)
AdtsRight ==
  \A k \in 1..Len(frames) :
    LET f == frames[k]
        c == LastBefore(f.of, AudioConfigs)
    IN  f.type = "aac" =>
          /\ f.head_len > 0
          /\ c > 0 => /\ f.head_len = 7
                      /\ AdtsRead(f.head) =
                           [profile   |-> (taken[c].object - 1) % 4,
                            frequency |-> taken[c].frequency,
                            channels  |-> taken[c].channels % 8,
                            frame_len |-> (f.data_len + 7) % 8192]

(* A header whose sets fit the member they are kept in. *)
SetsFit(m) == \A i \in 1..Len(m.nals) : Len(m.nals[i]) <= MaxParameterSet

(* What may end the thread: another codec, a message that is damaged, a    *)
(* header with several SPS or one that is too long, and a frame before its *)
(* header, which brings a length that was never set.                       *)
Unsound(n) ==
  LET m == taken[n]
  IN  IF m.type = "audio"
        THEN m.sound_format = 10 /\ ~m.config /\ LastBefore(n, AudioConfigs) = 0
      ELSE \/ m.codec_id # 7 \/ m.nals = <<>>
           \/ IsSequenceHeader(m) /\ ~(OneSps(m) /\ SetsFit(m))
           \/ m.key /\ ~IsSequenceHeader(m) /\ LastBefore(n, SequenceHeaders) = 0

(* No sound message ends the thread: not a picture whose last NAL unit     *)
(* ends where the message ends, not a header with sets as long as there is *)
(* room for, and no frame behind a header, however long.                   *)
EndsOnUnsound == pc = "done" => taken # <<>> /\ Unsound(Len(taken))

(* The loop over the NAL units ends, also where a length wraps around and  *)
(* the next unit is not behind this one.                                   *)
LoopEnds == pc = "nal" ~> pc # "nal"
=============================================================================
