------------------------------ MODULE MCAvToTs ------------------------------
(***************************************************************************)
(* AvToTs for TLC.  Bytes are below 16, so that two of them count up to    *)
(* 255 and the lengths wrap at 2^16; a parameter set is at most 16 long.   *)
(***************************************************************************)
EXTENDS AvToTs

Video(key, packet_type, composition_time, ts, nals, body) ==
  [type |-> "video", codec_id |-> 7, key |-> key, avc_packet_type |-> packet_type,
   composition_time |-> composition_time, ts |-> ts, nals |-> nals, sps_num |-> 0,
   body |-> body]

(* A sequence header: version, profile, compatibility, level, size of the  *)
(* lengths, number of SPS; the SPS; number of PPS; the PPS.                *)
Header(sps, pps) ==
  [Video(TRUE, 0, 0, 0, sps \o pps,
         <<1, 4, 0, 1, 15, Len(sps)>> \o SetBytes(sps) \o <<Len(pps)>> \o SetBytes(pps))
     EXCEPT !.sps_num = Len(sps)]

Nals(key, composition_time, ts, nals) == Video(key, 1, composition_time, ts, nals, Avcc(nals))

Damaged(body) == Video(FALSE, 1, 0, 40, <<>>, body)

Config(object, frequency, channels) ==
  [type |-> "audio", sound_format |-> 10, config |-> TRUE, ts |-> 0, len |-> 3,
   object |-> object, frequency |-> frequency, channels |-> channels]

Audio(format, ts, len) ==
  [type |-> "audio", sound_format |-> format, config |-> FALSE, ts |-> ts, len |-> len]

VideoMessages ==
  { Header(<<<<7, 1>>>>, <<<<8>>>>),
    Header(<<<<7, 2, 2>>>>, <<<<8, 3>>, <<8>>>>),
    Video(TRUE, 0, 0, 0, <<>>, <<1, 4, 0, 1>>),
    (* two SPS: the length of the second is read for the number of PPS *)
    Header(<<<<7, 1>>, <<7, 3>>>>, <<<<8>>>>),
    Nals(TRUE, 8, 250, <<<<5, 1>>>>),
    Nals(TRUE, 0, 40, <<<<9, 1>>, <<5>>>>),
    Nals(FALSE, 11, 40, <<<<1>>, <<1, 4, 4>>>>),
    Nals(FALSE, 8, 250, <<<<9, 1>>, <<1>>>>),
    (* end of the sequence *)
    Video(TRUE, 2, 0, 40, <<>>, <<>>),
    [Video(FALSE, 1, 0, 40, <<>>, <<>>) EXCEPT !.codec_id = 4],
    (* a length too long, and lengths that wrap to 0 and 1 *)
    Damaged(<<0, 0, 0, 3, 1, 1>>),
    Damaged(<<15, 15, 15, 12, 1, 0, 0>>),
    Damaged(<<15, 15, 15, 13, 1, 0, 0>>),
    (* too short for the loop *)
    Damaged(<<0, 0, 1>>) }

AudioMessages ==
  { Config(2, 4, 2), Config(5, 3, 6),
    Audio(10, 40, 3), Audio(10, 40, 2042), Audio(10, 40, 8188), Audio(2, 40, 3000) }

MCMessages == VideoMessages \cup AudioMessages

(* As long as two parameter sets and the bytes in between. *)
MCTails == {<<9, 1, 9, 9, 1>> \o [i \in 1..30 |-> 9]}
MCGarbage == <<0, 0, 1, 9, 1, 9>>
=============================================================================
