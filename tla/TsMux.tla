------------------------------- MODULE TsMux -------------------------------
(***************************************************************************)
(* rtmp_tots: one call of rtmp_tots_packet_from_cache makes a PES out of   *)
(* an audio or video frame, puts PAT and PMT in front of it when they are  *)
(* due, cuts it into packets of 188 bytes and collects these in ts_cache,  *)
(* which goes to the file whenever it holds seven of them.  A packet is    *)
(* modelled by its header fields and by which bytes of which PES it holds. *)
(* Each action is the call up to its first packet, or one more packet.     *)
(***************************************************************************)
EXTENDS Integers, Sequences

CONSTANTS
  CacheLen,      (* packets ts_cache holds, 7 in the code                  *)
  CounterMod,    (* continuity counters count modulo this, 16 in the code  *)
  PesBuf,        (* bytes of pes_buf, PACKET_PES_BUF in the code           *)
  PsiGap,        (* PAT and PMT are repeated after this time, 300 ms       *)
  Near,          (* audio and video times this near are left alone, 100 ms *)
  Wrap,          (* unsigned times wrap here, 2^64 in the code             *)
  EsLens,        (* bytes of a frame: head_data_len + data_len             *)
  Times,         (* picture_ms of the frames                               *)
  Clocks,        (* what the wall clock may show: it can be set back       *)
  WriteLens,     (* packets a write may get into the file: CacheLen, 0 if  *)
                 (* it fails, fewer than CacheLen if it is short           *)
  MaxFrames      (* how many frames come                                   *)

ASSUME TsAssumption ==
  /\ CacheLen \in Nat \ {0} /\ CounterMod \in Nat \ {0}
  /\ PesBuf \in Nat /\ PsiGap \in Nat /\ Near \in Nat /\ Wrap \in Nat \ {0}
  /\ EsLens \subseteq Nat /\ Times \subseteq Nat /\ Clocks \subseteq Nat
  /\ WriteLens \subseteq 0..CacheLen /\ MaxFrames \in Nat

VARIABLES
  step,                   (* what rtmp_tots_packet_ts_header does next     *)
  pes,                    (* the PES in pes_buf                            *)
  i_size,                 (* its bytes that are not in a packet yet        *)
  new_pes,                (* none of them is                               *)
  ts_fp,                  (* whether the file could be opened              *)
  pat_num, frame_num, count, last_psi_time, last_video_picture_ms,
  ts_cache, ts_cache_len, (* the length in packets                         *)
  packet,                 (* index in ts_cache of the next packet          *)
  file,                   (* the packets written to the file               *)
  lost,                   (* history: a write failed or was short          *)
  torn,                   (* history: one was short                        *)
  out,                    (* history: every packet put into ts_cache       *)
  made,                   (* history: every PES that was cut into packets  *)
  calls                   (* how many frames came                          *)

pesVars   == <<pes, i_size, new_pes>>
cacheVars == <<ts_cache, ts_cache_len, packet, file, lost, torn, out>>
vars      == <<step, pesVars, ts_fp, pat_num, frame_num, count, last_psi_time,
               last_video_picture_ms, cacheVars, made, calls>>

PAT_PID   == 0
PMT_PID   == 256
VIDEO_PID == 4352
AUDIO_PID == 4353
MediaPids == {VIDEO_PID, AUDIO_PID}

TS_PACKET_SIZE == 188

(* A frame as rtmp_process_video and rtmp_process_audio pass it on.  unit  *)
(* says whether its first bytes are a start code, aud whether an access    *)
(* unit delimiter follows that.                                            *)
Packs ==
  [type : {"h264"}, picture_ms : Times, es_len : EsLens, is_keyframe : BOOLEAN,
   unit : {"startcode", "init"}, aud : BOOLEAN]
    \cup [type : {"aac"}, picture_ms : Times, es_len : EsLens, is_keyframe : {FALSE},
          unit : {"aac"}, aud : {FALSE}]

NoPes == [pid |-> PAT_PID, len |-> 0, ms |-> 0, own_ms |-> 0, key |-> FALSE, clock |-> 0]

NoPacket ==
  [pid |-> PAT_PID, start |-> FALSE, counter |-> 0, field |-> 0, off |-> 0, n |-> 0, frame |-> 0]

Init ==
  /\ step = "idle" /\ pes = NoPes /\ i_size = 0 /\ new_pes = FALSE
  /\ ts_fp \in BOOLEAN
  /\ pat_num = 0 /\ frame_num = 0 /\ count = [pid \in MediaPids |-> 0]
  /\ last_psi_time \in Clocks
  /\ last_video_picture_ms = 0
  /\ ts_cache = [i \in 0..(CacheLen - 1) |-> NoPacket]
  /\ ts_cache_len = 0 /\ packet = 0
  /\ file = <<>> /\ lost = FALSE /\ torn = FALSE /\ out = <<>> /\ made = <<>> /\ calls = 0

Smaller(a, b) == IF a >= b THEN b ELSE a

-----------------------------------------------------------------------------
(* Mutant of AudioTime: only audio that is ahead is looked for. *)
AudioTimeAhead(pack) ==
  IF last_video_picture_ms = 0 \/ last_video_picture_ms < (pack.picture_ms + Near) % Wrap
    THEN pack.picture_ms ELSE last_video_picture_ms

(* The time an audio frame gets, in milliseconds: its own, or that of the  *)
(* last video frame when there was one and the two are far apart.          *)
AudioTime(pack) ==
  IF \/ last_video_picture_ms = 0
     \/ /\ (pack.picture_ms - Near) % Wrap < last_video_picture_ms
        /\ last_video_picture_ms < (pack.picture_ms + Near) % Wrap
    THEN pack.picture_ms ELSE last_video_picture_ms

(* Bytes of the PES header: an access unit delimiter is added behind it to *)
(* video that starts with a start code and not with a delimiter.           *)
PesHeaderLen(pack) ==
  IF pack.type = "aac" THEN 14
  ELSE IF pack.unit = "startcode" /\ ~pack.aud THEN 25 ELSE 19

(* Mutant of TooLong: no room for a delimiter. *)
TooLongUndelimited(pack) == pack.es_len > PesBuf - (IF pack.type = "aac" THEN 14 ELSE 19)

TooLong(pack) == pack.es_len > PesBuf - (IF pack.type = "aac" THEN 14 ELSE 25)

(* Mutant of PsiDue: not before key frames. *)
PsiOnTime(pack, now) ==
  frame_num = 0 \/ (now - PsiGap) % Wrap > last_psi_time

(* PAT and PMT come before a key frame, before the first frame, and when   *)
(* they are PsiGap old.                                                    *)
PsiDue(pack, now) ==
  \/ pack.is_keyframe
  \/ frame_num = 0
  \/ (now - PsiGap) % Wrap > last_psi_time

(* Mutant of CacheEnd: packets left from the last frame are forgotten. *)
CacheStart == 0

(* Packets go behind those left from the last frame. *)
CacheEnd == ts_cache_len

(* rtmp_tots_packet_from_cache up to the first packet.  A frame too long   *)
(* for pes_buf, or one that comes when there is no file, is dropped.       *)
Frame(pack, now) ==
  /\ step = "idle"
  /\ calls < MaxFrames /\ calls' = calls + 1
  /\ last_video_picture_ms' =
       IF pack.type = "h264" THEN pack.picture_ms ELSE last_video_picture_ms
  /\ IF TooLong(pack) \/ ~ts_fp
       THEN UNCHANGED <<step, pesVars, packet, frame_num, last_psi_time, made>>
       ELSE /\ pes' = [pid    |-> IF pack.type = "aac" THEN AUDIO_PID ELSE VIDEO_PID,
                       len    |-> pack.es_len + PesHeaderLen(pack),
                       ms     |-> IF pack.type = "aac" THEN AudioTime(pack)
                                  ELSE pack.picture_ms,
                       own_ms |-> pack.picture_ms,
                       key    |-> pack.is_keyframe,
                       clock  |-> now]
            /\ i_size' = pes'.len /\ new_pes' = TRUE
            /\ made' = Append(made, pes')
            /\ packet' = CacheEnd
            /\ frame_num' = frame_num + 1
            /\ IF PsiDue(pack, now)
                 THEN step' = "pat" /\ last_psi_time' = now
                 ELSE step' = "ts" /\ UNCHANGED last_psi_time
  /\ UNCHANGED <<ts_fp, pat_num, count, ts_cache, ts_cache_len, file, lost, torn, out>>

-----------------------------------------------------------------------------
(* Mutant of CacheFull: the cache is taken for full one packet too late.   *)
CacheOverfull == packet + 1 > CacheLen

CacheFull == packet + 1 = CacheLen

(* file_write gets the cache and writes n packets of it: all, none if it   *)
(* fails, or some.  Where in a packet a short write ends is left out.      *)
(* Its result is not looked at.                                            *)
FileWrite(n) ==
  /\ file' = file \o [i \in 1..n |-> ts_cache'[i - 1]]
  /\ lost' = (lost \/ n < CacheLen)
  /\ torn' = (torn \/ n \in 1..(CacheLen - 1))

(* A packet is put into the cache; the packet that fills it sends it to    *)
(* the file.                                                               *)
Put(p) ==
  /\ ts_cache' = [ts_cache EXCEPT ![packet] = p]
  /\ out' = Append(out, p)
  /\ IF CacheFull
       THEN /\ packet' = 0 /\ ts_cache_len' = 0
            /\ \E n \in WriteLens : FileWrite(n)
       ELSE /\ packet' = packet + 1 /\ ts_cache_len' = ts_cache_len + 1
            /\ UNCHANGED <<file, lost, torn>>

(* Mutant of NextCount: the counter skips its last value. *)
NextCountShort(c) == IF c + 1 >= CounterMod - 1 THEN 0 ELSE c + 1

(* pat_num and the two counts of media packets are only used modulo       *)
(* CounterMod, of which the range of an unsigned int is a multiple.        *)
NextCount(c) == (c + 1) % CounterMod

PsiPacket(pid) ==
  [pid |-> pid, start |-> TRUE, counter |-> pat_num, field |-> -1,
   off |-> 0, n |-> TS_PACKET_SIZE - 4, frame |-> Len(made)]

PutPat ==
  /\ step = "pat"
  /\ Put(PsiPacket(PAT_PID))
  /\ step' = "pmt"
  /\ UNCHANGED <<pesVars, ts_fp, pat_num, frame_num, count, last_psi_time,
                 last_video_picture_ms, made, calls>>

PutPmt ==
  /\ step = "pmt"
  /\ Put(PsiPacket(PMT_PID))
  /\ pat_num' = NextCount(pat_num)
  /\ step' = "ts"
  /\ UNCHANGED <<pesVars, ts_fp, frame_num, count, last_psi_time,
                 last_video_picture_ms, made, calls>>

(* Mutant of TsLayout: a full first audio packet keeps 184 bytes.          *)
TsLayoutFull ==
  LET copy == Smaller(i_size, 184)
  IN  IF new_pes /\ pes.pid = VIDEO_PID
        THEN [field |-> 7 + (176 - Smaller(i_size, 176)), n |-> Smaller(i_size, 176)]
      ELSE IF ~(new_pes \/ i_size < 184) THEN [field |-> -1, n |-> copy]
      ELSE IF 184 - copy > 1 THEN [field |-> 184 - copy - 1, n |-> copy]
      ELSE [field |-> 1, n |-> copy]

(* How the next packet is filled: field is the length of its adaptation    *)
(* field, -1 if it has none, and n what it takes of the PES.  The first    *)
(* video packet holds the clock reference; where one byte or none would be *)
(* left for an adaptation field it is made two bytes.                      *)
TsLayout ==
  LET copy == Smaller(i_size, 184)
      stuffing == 184 - copy
  IN  IF new_pes /\ pes.pid = VIDEO_PID
        THEN [field |-> 7 + (176 - Smaller(i_size, 176)), n |-> Smaller(i_size, 176)]
      ELSE IF ~(new_pes \/ i_size < 184) THEN [field |-> -1, n |-> copy]
      ELSE IF stuffing > 1 THEN [field |-> stuffing - 1, n |-> copy]
      ELSE [field |-> 1, n |-> 182]

TsPacket ==
  [pid |-> pes.pid, start |-> new_pes, counter |-> count[pes.pid],
   field |-> TsLayout.field, off |-> pes.len - i_size, n |-> TsLayout.n, frame |-> Len(made)]

(* Mutant of Taken: what would have fitted without an adaptation field.    *)
TakenWithoutField == Smaller(i_size, 184)

Taken == TsLayout.n

PutTs ==
  /\ step = "ts"
  /\ Put(TsPacket)
  /\ count' = [count EXCEPT ![pes.pid] = NextCount(@)]
  /\ i_size' = i_size - Taken
  /\ new_pes' = FALSE
  /\ step' = IF i_size' > 0 THEN "ts" ELSE "idle"
  /\ UNCHANGED <<pes, ts_fp, pat_num, frame_num, last_psi_time,
                 last_video_picture_ms, made, calls>>

Next ==
  \/ \E pack \in Packs, now \in Clocks : Frame(pack, now)
  \/ PutPat \/ PutPmt \/ PutTs

Spec == Init /\ [][Next]_vars

-----------------------------------------------------------------------------
Pids == {PAT_PID, PMT_PID} \cup MediaPids

Pes == [pid : Pids, len : Nat, ms : Nat, own_ms : Nat, key : BOOLEAN, clock : Nat]

Packets ==
  [pid : Pids, start : BOOLEAN, counter : 0..(CounterMod - 1), field : -1..183,
   off : Nat, n : 0..184, frame : Nat]

(* Types; a packet is only ever put into one of the CacheLen places of     *)
(* ts_cache, and a PES being cut is not used up.                           *)
TypeOK ==
  /\ step \in {"idle", "pat", "pmt", "ts"}
  /\ pes \in Pes /\ i_size \in Nat /\ new_pes \in BOOLEAN /\ ts_fp \in BOOLEAN
  /\ pat_num \in 0..(CounterMod - 1) /\ frame_num \in Nat /\ calls \in Nat
  /\ count \in [MediaPids -> 0..(CounterMod - 1)]
  /\ last_psi_time \in Nat /\ last_video_picture_ms \in Nat
  /\ ts_cache \in [0..(CacheLen - 1) -> Packets]
  /\ ts_cache_len \in 0..(CacheLen - 1) /\ packet \in 0..(CacheLen - 1)
  /\ file \in Seq(Packets) /\ out \in Seq(Packets)
  /\ lost \in BOOLEAN /\ torn \in BOOLEAN
  /\ made \in Seq(Pes)
  /\ step # "idle" => pes.pid \in MediaPids /\ i_size \in 1..pes.len

(* The asserts in rtmp_tots_packet_ts_header, and what they are for: until *)
(* a write fails, the file and the cache together hold every packet made,  *)
(* in order and once, and until one is short the file holds only whole     *)
(* groups of CacheLen packets.                                             *)
FileWhole ==
  /\ step # "idle" => packet = ts_cache_len
  /\ ~torn => Len(file) % CacheLen = 0
  /\ ~lost => file \o [i \in 1..ts_cache_len |-> ts_cache[i - 1]] = out

(* Every audio or video packet is 188 bytes: header, adaptation field and  *)
(* PES bytes leave no gap, and the adaptation field holds its flags, and   *)
(* the clock reference where there is one.                                 *)
PacketsFull ==
  \A i \in 1..Len(out) :
    LET p == out[i]
    IN  p.pid \in MediaPids =>
          /\ 4 + (p.field + 1) + p.n = TS_PACKET_SIZE
          /\ p.n > 0 /\ p.field # 0
          /\ p.start /\ p.pid = VIDEO_PID => p.field >= 7

(* Packet j is the next one with the PID of packet i. *)
NextOfPid(i, j) ==
  /\ i < j /\ out[i].pid = out[j].pid
  /\ \A k \in (i + 1)..(j - 1) : out[k].pid # out[i].pid

(* The continuity counters of each PID count every packet, whatever PIDs   *)
(* come in between and however often the cache was written.                *)
CountersContinue ==
  \A i, j \in 1..Len(out) :
    NextOfPid(i, j) => out[j].counter = (out[i].counter + 1) % CounterMod

(* A receiver that joins the packets of one PID gets every PES back, byte  *)
(* for byte: a packet goes on where the last one of its PID stopped, or it *)
(* starts the next PES of that PID when the last one is complete.          *)
PesReassembled ==
  \A i, j \in 1..Len(out) :
    NextOfPid(i, j) /\ out[i].pid \in MediaPids =>
      IF out[j].start
        THEN /\ out[i].off + out[i].n = made[out[i].frame].len /\ out[j].off = 0
             /\ \A f \in (out[i].frame + 1)..(out[j].frame - 1) : made[f].pid # out[i].pid
        ELSE out[j].frame = out[i].frame /\ out[j].off = out[i].off + out[i].n

(* A player can start at every key frame: PAT and PMT are right before it, *)
(* with the same counter.                                                  *)
KeyframeEntry ==
  \A j \in 1..Len(out) :
    out[j].pid = VIDEO_PID /\ out[j].start /\ made[out[j].frame].key =>
      /\ j > 2 /\ out[j - 2].pid = PAT_PID /\ out[j - 1].pid = PMT_PID
      /\ out[j - 2].counter = out[j - 1].counter

(* The last video PES before PES k, 0 if there is none. *)
VideoBefore(k) ==
  LET before == {f \in 1..(k - 1) : made[f].pid = VIDEO_PID}
  IN  IF before = {} THEN 0 ELSE CHOOSE f \in before : \A g \in before : g <= f

(* The comment at rtmp_tots.cpp:169: audio takes the time of the video     *)
(* when the two are far apart, and so keeps its own when they are not.     *)
AudioTimes ==
  \A k \in 1..Len(made) :
    made[k].pid = AUDIO_PID /\ VideoBefore(k) > 0 =>
      LET own   == made[k].own_ms
          video == made[VideoBefore(k)].own_ms
      IN  own - video < Near /\ video - own < Near => made[k].ms = own

=============================================================================
