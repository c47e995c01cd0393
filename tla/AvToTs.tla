------------------------------- MODULE AvToTs -------------------------------
(***************************************************************************)
(* From messages to packets: AvDemux and TsMux together.  Both run in the  *)
(* receiving thread, and rtmp_tots_packet_from_cache is a call: a frame    *)
(* that is handed over is cut into packets before the demuxer goes on.     *)
(***************************************************************************)
EXTENDS AvDemux, TsTime

CONSTANTS CacheLen, CounterMod, PesBuf, PsiGap, Near, Wrap, EsLens, Times, Clocks,
  WriteLens, MaxFrames

(* Nothing that fits pes_buf comes near the end of an unsigned int. *)
ASSUME PesAssumption == PesBuf \in Nat /\ PesBuf < UintMod

VARIABLES
  cut,                    (* history: the frame each PES was made of       *)
  step, pes, i_size, new_pes, ts_fp, pat_num, frame_num, count, last_psi_time,
  last_video_picture_ms, ts_cache, ts_cache_len, packet, file, lost, torn,
  out, made, calls

Mux == INSTANCE TsMux

muxVars ==
  <<step, pes, i_size, new_pes, ts_fp, pat_num, frame_num, count, last_psi_time,
    last_video_picture_ms, ts_cache, ts_cache_len, packet, file, lost, torn, out,
    made, calls>>

AvInit == Init /\ Mux!Init /\ cut = <<>>

-----------------------------------------------------------------------------
(* What the muxer looks at in a pack.  Its first bytes are those of        *)
(* head_data, if there is one, even if its length is 0; but whether a      *)
(* delimiter is there is looked for in data then.                          *)
UnitBytes(f) == IF f.key THEN f.head ELSE f.data

(* Mutant of FirstBytes: those of data always. *)
FirstBytesOfData(f) == f.data

FirstBytes(f) == IF f.key /\ f.head_len > 0 THEN f.head ELSE f.data

StartsWith(bytes, prefix) ==
  Len(bytes) > Len(prefix) /\ SubSeq(bytes, 1, Len(prefix)) = prefix

(* nal_unit_type of an access unit delimiter. *)
Delimiter == 9

Pack(f) ==
  IF f.type = "aac"
    THEN [type |-> "aac", picture_ms |-> f.picture_ms,
          es_len |-> (f.head_len + f.data_len) % UintMod,
          is_keyframe |-> FALSE, unit |-> "aac", aud |-> FALSE]
    ELSE LET code == IF StartsWith(UnitBytes(f), StartCode) THEN 4
                     ELSE IF StartsWith(UnitBytes(f), <<0, 0, 1>>) THEN 3 ELSE 0
         IN  [type |-> "h264", picture_ms |-> f.picture_ms,
              es_len |-> (f.head_len + f.data_len) % UintMod,
              is_keyframe |-> f.key,
              unit |-> IF code > 0 THEN "startcode" ELSE "init",
              aud |-> code > 0 /\ FirstBytes(f)[code + 1] = Delimiter]

(* A sum of lengths that wrapped is short enough for pes_buf, the length   *)
(* it is the sum of is not: copying that much ends the program.            *)
Overrun(f) == f.type # "other" /\ Wraps(f) /\ ~Mux!TooLong(Pack(f))

(* The call; a pack of type 0 is given back at once. *)
PacketFromCache(f) ==
  IF f.type = "other" \/ Overrun(f) THEN UNCHANGED muxVars
  ELSE \E now \in Clocks : Mux!Frame(Pack(f), now)

HandOn ==
  LET f == frames'[Len(frames')]
  IN  /\ Handing
      /\ pc' = IF Overrun(f) THEN "done" ELSE "idle"
      /\ PacketFromCache(f)
      /\ cut' = IF made' = made THEN cut ELSE Append(cut, Len(frames'))

Demux == step = "idle" /\ (HandOn \/ (Inner /\ UNCHANGED <<muxVars, cut>>))

Packets == (Mux!PutPat \/ Mux!PutPmt \/ Mux!PutTs) /\ UNCHANGED <<demuxVars, cut>>

AvNext == Demux \/ Packets

avVars == <<demuxVars, muxVars, cut>>

AvSpec == AvInit /\ [][AvNext]_avVars

(* A picture in hand is worked on: each turn of the loop, and what is      *)
(* behind it.  None of these steps waits for anything.                     *)
Working ==
  /\ pc = "nal" /\ step = "idle"
  /\ HandOn \/ (ConvertNal /\ UNCHANGED <<muxVars, cut>>)

AvFairSpec == AvSpec /\ WF_avVars(Working)

-----------------------------------------------------------------------------
(* The room of pes_buf behind the PES header. *)
Fits(f) == f.head_len + f.data_len <= PesBuf - (IF f.type = "aac" THEN 14 ELSE 25)

(* As long as there is a file, every audio or video frame that fits is     *)
(* made into one PES, in the order of the messages, and no other is:       *)
(* neither one whose length wrapped nor one of another format.             *)
OnePesPerFrame ==
  /\ Len(cut) = Len(made)
  /\ \A k \in 1..(Len(cut) - 1) : cut[k] < cut[k + 1]
  /\ {cut[k] : k \in 1..Len(cut)} =
       {n \in 1..Len(frames) : ts_fp /\ frames[n].type # "other" /\ Fits(frames[n])}

(* What the message a frame was made of is to become: SPS and PPS of the   *)
(* last sequence header if it is a key frame, and its own NAL units.       *)
UnitsMeant(f) ==
  (IF f.key THEN AnnexB(FirstSets(taken[LastBefore(f.of, SequenceHeaders)])) ELSE <<>>)
    \o AnnexB(taken[f.of].nals)

(* It is known for pictures that are not damaged, and key frames need a    *)
(* header before them.                                                     *)
IsMeant(f) ==
  LET h == LastBefore(f.of, SequenceHeaders)
  IN  f.type = "h264" /\ taken[f.of].nals # <<>> /\ (f.key => h > 0 /\ OneSps(taken[h]))

(* A PES has the kind, the time and the length its message asks for: the   *)
(* header of 19 bytes, a delimiter of 6 unless the first NAL unit is one,  *)
(* and the NAL units meant; or 14 bytes, the ADTS header, and a byte less  *)
(* than came.                                                              *)
PesAsMeant ==
  \A k \in 1..Len(made) :
    LET f == frames[cut[k]]
        m == taken[f.of]
    IN  /\ made[k].pid = IF m.type = "audio" THEN Mux!AUDIO_PID ELSE Mux!VIDEO_PID
        /\ made[k].key = (m.type = "video" /\ m.key)
        /\ m.type = "audio" => made[k].own_ms = m.ts
        /\ m.type = "video" => made[k].ms = (m.ts + Offset(m)) % TimeMod
        /\ IsMeant(f) =>
             made[k].len = 19 + (IF UnitsMeant(f)[5] = Delimiter THEN 0 ELSE 6)
                             + Len(UnitsMeant(f))
        /\ m.type = "audio" /\ LastBefore(f.of, AudioConfigs) > 0 =>
             made[k].len = 14 + 7 + (m.len - 1)

(* The comment at rtmp_tots.cpp:169: audio takes the time of the video     *)
(* when the two are far apart.  The time of an audio PES is near that of   *)
(* the last video frame before it, of one that was dropped too, unless     *)
(* there was none or its time is 0.                                        *)
AudioNearVideo ==
  \A k \in 1..Len(made) :
    LET videos == {n \in 1..cut[k] : frames[n].type = "h264"}
    IN  made[k].pid = Mux!AUDIO_PID =>
          \A n \in videos :
            (\A l \in videos : l <= n) /\ frames[n].picture_ms # 0 =>
               /\ made[k].ms - frames[n].picture_ms < Near
               /\ frames[n].picture_ms - made[k].ms < Near

(* The comment at rtmp_tots.cpp:193: between the pictures there has to be  *)
(* a delimiter.  Every picture made of NAL units brings one or gets one,   *)
(* once there has been a sequence header.                                  *)
PicturesDelimited ==
  \A k \in 1..Len(frames) :
    LET f == frames[k]
        m == taken[f.of]
    IN  /\ f.type = "h264" /\ m.nals # <<>>
        /\ f.key => LastBefore(f.of, SequenceHeaders) > 0
        => \/ m.nals[1][1] = Delimiter
           \/ Pack(f).unit = "startcode"

(* The times a player finds in the PES header and in the clock reference   *)
(* are the 33 low bits of the picture's time, in units of 1/90 ms, and the *)
(* bits in front of them say which time it is.                             *)
TimesReadBack ==
  \A k \in 1..Len(made) :
    LET t == 90 * made[k].ms
    IN  /\ \A prefix \in 1..3 :
             /\ TimeRead(TimeBytes(prefix, t)) = t % TimeRange
             /\ TimeBytes(prefix, t)[1] \div 16 = prefix
        /\ ClockRead(ClockBytes(t)) = t % TimeRange
=============================================================================
