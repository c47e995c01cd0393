---------------------------- MODULE TsMuxProofs ----------------------------
(***************************************************************************)
(* Proofs about TsMux, and about the file it writes to (TsRecord), for     *)
(* every value of their constants.  The properties of the muxer speak of   *)
(* pairs of packets of one PID; the invariant speaks of the last packet of *)
(* each PID and of what the muxer holds for the next one.                  *)
(***************************************************************************)
EXTENDS TsRecord, SequenceTheorems, TLAPS

(* Packet i is the last one of its PID so far. *)
LastOfPid(i) == \A k \in (i + 1)..Len(out) : out[k].pid # out[i].pid

(* The counters the next packets get go on from the last ones. *)
CounterInv ==
  \A i \in 1..Len(out) : LastOfPid(i) =>
    /\ out[i].pid \in MediaPids => count[out[i].pid] = NextCount(out[i].counter)
    /\ out[i].pid = PMT_PID => pat_num = NextCount(out[i].counter)
    /\ out[i].pid = PAT_PID =>
         pat_num = IF step = "pmt" THEN out[i].counter ELSE NextCount(out[i].counter)

(* PES that were cut into packets already. *)
Cut == IF step = "idle" THEN Len(made) ELSE Len(made) - 1

(* The PES being cut is the last one made; its packets so far reach to the *)
(* byte i_size counts from, and all earlier PES are complete.              *)
PesInv ==
  /\ step # "idle" => Len(made) > 0 /\ made[Len(made)] = pes
  /\ step \in {"pat", "pmt"} => new_pes
  /\ step # "idle" /\ new_pes => i_size = pes.len
  /\ \A i \in 1..Len(out) : out[i].frame \in 1..Len(made)
  /\ \A i \in 1..Len(out) : LastOfPid(i) /\ out[i].pid \in MediaPids =>
       IF step = "ts" /\ ~new_pes /\ pes.pid = out[i].pid
         THEN out[i].frame = Len(made) /\ out[i].off + out[i].n = pes.len - i_size
         ELSE /\ out[i].off + out[i].n = made[out[i].frame].len
              /\ \A f \in (out[i].frame + 1)..Cut : made[f].pid # out[i].pid

(* PAT, then PMT with the same counter, come right before the first packet *)
(* of a key frame.                                                         *)
PsiInv ==
  /\ step = "pmt" => /\ Len(out) > 0 /\ out[Len(out)].pid = PAT_PID
                     /\ out[Len(out)].counter = pat_num
  /\ step = "ts" /\ new_pes /\ pes.key =>
       /\ Len(out) > 1
       /\ out[Len(out) - 1].pid = PAT_PID /\ out[Len(out)].pid = PMT_PID
       /\ out[Len(out) - 1].counter = out[Len(out)].counter

Inv ==
  /\ TypeOK /\ FileWhole /\ PacketsFull
  /\ CountersContinue /\ CounterInv
  /\ PesReassembled /\ PesInv
  /\ KeyframeEntry /\ PsiInv

-----------------------------------------------------------------------------
(* A whole group added to whole groups. *)
LEMMA GroupAdded ==
  \A a, b, c \in Nat : b > 0 /\ a % b = 0 /\ c = a + b => c % b = 0
<1> SUFFICES ASSUME NEW a \in Nat, NEW b \in Nat, b > 0, a % b = 0
             PROVE  (a + b) % b = 0
  OBVIOUS
<1> DEFINE q == a \div b
<1>1. q \in Int /\ a = b * q
  OBVIOUS
<1>2. a + b = b * (q + 1)
  BY <1>1
<1> HIDE DEF q
<1>3. \A c \in Int : (b * c) % b = 0
  OBVIOUS
<1> QED
  BY <1>1, <1>2, <1>3

LEMMA NextCountOK ==
  \A c \in 0..(CounterMod - 1) : NextCount(c) \in 0..(CounterMod - 1)
BY TsAssumption DEF NextCount

(* What a packet takes is there, and fills the packet. *)
LEMMA LayoutOK ==
  ASSUME i_size \in Nat, i_size > 0, new_pes \in BOOLEAN
  PROVE  /\ TsLayout.n \in 1..184 /\ TsLayout.n <= i_size
         /\ TsLayout.field \in -1..183 /\ TsLayout.field # 0
         /\ 4 + (TsLayout.field + 1) + TsLayout.n = TS_PACKET_SIZE
         /\ new_pes /\ pes.pid = VIDEO_PID => TsLayout.field >= 7
BY DEF TsLayout, Smaller, TS_PACKET_SIZE

(* What a packet appended to out changes in who is last and who is next. *)
LEMMA OutAppended ==
  ASSUME out \in Seq(Packets), NEW p \in Packets, out' = Append(out, p)
  PROVE  /\ Len(out') = Len(out) + 1 /\ Len(out) \in Nat
         /\ out' \in Seq(Packets)
         /\ \A i \in 1..Len(out) : out'[i] = out[i]
         /\ out'[Len(out) + 1] = p
         /\ \A i \in 1..Len(out) : LastOfPid(i)' => LastOfPid(i) /\ out[i].pid # p.pid
         /\ \A i, j \in 1..Len(out) : NextOfPid(i, j)' => NextOfPid(i, j)
         /\ \A i, j \in 1..(Len(out) + 1) : NextOfPid(i, j)' => i \in 1..Len(out)
         /\ \A i, j \in 1..(Len(out) + 1) : NextOfPid(i, j)' /\ j = Len(out) + 1 =>
              LastOfPid(i) /\ out[i].pid = p.pid
<1>1. /\ Len(out') = Len(out) + 1 /\ Len(out) \in Nat /\ out' \in Seq(Packets)
      /\ \A i \in 1..Len(out) : out'[i] = out[i]
      /\ out'[Len(out) + 1] = p
  OBVIOUS
<1>2. ASSUME NEW i \in 1..Len(out), LastOfPid(i)'
      PROVE  LastOfPid(i) /\ out[i].pid # p.pid
  <2>1. \A k \in (i + 1)..(Len(out) + 1) : out'[k].pid # out[i].pid
    BY <1>1, <1>2 DEF LastOfPid
  <2>2. \A k \in (i + 1)..Len(out) : k \in 1..Len(out) /\ k \in (i + 1)..(Len(out) + 1)
    BY <1>1
  <2>3. LastOfPid(i)
    BY <1>1, <2>1, <2>2 DEF LastOfPid
  <2>4. Len(out) + 1 \in (i + 1)..(Len(out) + 1)
    BY <1>1
  <2> QED
    BY <1>1, <2>1, <2>3, <2>4
<1>3. ASSUME NEW i \in 1..Len(out), NEW j \in 1..Len(out), NextOfPid(i, j)'
      PROVE  NextOfPid(i, j)
  <2>1. \A k \in (i + 1)..(j - 1) : k \in 1..Len(out)
    BY <1>1
  <2> QED
    BY <1>1, <1>3, <2>1 DEF NextOfPid
<1>4. ASSUME NEW i \in 1..(Len(out) + 1), NEW j \in 1..(Len(out) + 1), NextOfPid(i, j)'
      PROVE  /\ i \in 1..Len(out)
             /\ j = Len(out) + 1 => LastOfPid(i) /\ out[i].pid = p.pid
  <2>1. i \in 1..Len(out)
    BY <1>1, <1>4 DEF NextOfPid
  <2>2. ASSUME j = Len(out) + 1
        PROVE  LastOfPid(i) /\ out[i].pid = p.pid
    <3>1. (i + 1)..(j - 1) = (i + 1)..Len(out) /\ \A k \in (i + 1)..Len(out) : k \in 1..Len(out)
      BY <1>1, <2>1, <2>2
    <3>2. out'[i].pid = out'[j].pid /\ \A k \in (i + 1)..(j - 1) : out'[k].pid # out'[i].pid
      BY <1>4 DEF NextOfPid
    <3> QED
      BY <1>1, <2>1, <2>2, <3>1, <3>2 DEF LastOfPid
  <2> QED
    BY <2>1, <2>2
<1> QED
  BY <1>1, <1>2, <1>3, <1>4

(* A packet put into the cache, whether or not that fills it. *)
LEMMA PutOK ==
  ASSUME TypeOK, FileWhole, step # "idle", NEW p \in Packets, Put(p)
  PROVE  /\ out' = Append(out, p) /\ out' \in Seq(Packets)
         /\ ts_cache' \in [0..(CacheLen - 1) -> Packets]
         /\ ts_cache_len' \in 0..(CacheLen - 1) /\ packet' \in 0..(CacheLen - 1)
         /\ file' \in Seq(Packets) /\ lost' \in BOOLEAN /\ torn' \in BOOLEAN
         /\ packet' = ts_cache_len' /\ (~torn' => Len(file') % CacheLen = 0)
         /\ ~lost' => file' \o [i \in 1..ts_cache_len' |-> ts_cache'[i - 1]] = out'
<1> DEFINE L == ts_cache_len
<1>1. /\ packet = L /\ CacheLen \in Nat \ {0} /\ L \in 0..(CacheLen - 1)
      /\ ts_cache \in [0..(CacheLen - 1) -> Packets] /\ file \in Seq(Packets)
      /\ out \in Seq(Packets) /\ lost \in BOOLEAN /\ torn \in BOOLEAN
      /\ ~torn => Len(file) % CacheLen = 0
  BY TsAssumption DEF TypeOK, FileWhole
<1>2. ~lost => file \o [i \in 1..L |-> ts_cache[i - 1]] = out
  BY DEF FileWhole
<1>3. /\ out' = Append(out, p) /\ ts_cache' = [ts_cache EXCEPT ![L] = p]
      /\ out' \in Seq(Packets) /\ ts_cache' \in [0..(CacheLen - 1) -> Packets]
  BY <1>1 DEF Put
<1>4. \A i \in 1..L : i - 1 \in 0..(CacheLen - 1) /\ i - 1 # L
  BY <1>1
<1> DEFINE new == [i \in 1..(L + 1) |-> ts_cache'[i - 1]]
           old == [i \in 1..L |-> ts_cache[i - 1]]
<1>5. new \in Seq(Packets) /\ Len(new) = L + 1 /\ old \in Seq(Packets) /\ Len(old) = L
  <2>1. \A i \in 1..(L + 1) : ts_cache'[i - 1] \in Packets
    BY <1>1, <1>3
  <2>2. \A i \in 1..L : ts_cache[i - 1] \in Packets
    BY <1>1, <1>4
  <2> QED
    BY <1>1, <2>1, <2>2
<1>6. ~lost => file \o new = out'
  <2> SUFFICES ASSUME ~lost
               PROVE  file \o new = Append(out, p)
    BY <1>3
  <2>1. out = file \o old
    BY <1>2
  <2>2. new = Append(old, p)
    <3>1. \A i \in 1..L : new[i] = old[i]
      BY <1>1, <1>3, <1>4
    <3>2. new[L + 1] = p
      BY <1>1, <1>3
    <3> HIDE DEF new, old
    <3> QED
      BY <1>1, <1>5, <3>1, <3>2
  <2> HIDE DEF new, old
  <2>3. file \o Append(old, p) = Append(file \o old, p)
    BY <1>1, <1>5
  <2> QED
    BY <2>1, <2>2, <2>3
<1>7. CASE CacheFull
  <2>1. L + 1 = CacheLen /\ packet' = 0 /\ ts_cache_len' = 0
    BY <1>1, <1>7 DEF Put, CacheFull
  <2>2. PICK n \in WriteLens : FileWrite(n)
    BY <1>7 DEF Put
  <2> DEFINE written == [i \in 1..n |-> ts_cache'[i - 1]]
  <2>3. n \in 0..CacheLen /\ n \in Nat
    BY <1>1, TsAssumption
  <2>4. written \in Seq(Packets) /\ Len(written) = n
    <3>1. \A i \in 1..n : ts_cache'[i - 1] \in Packets
      BY <1>1, <1>3, <2>3
    <3> QED
      BY <2>3, <3>1
  <2>5. /\ file' = file \o written
        /\ ~lost' => ~lost /\ ~(n < CacheLen)
        /\ ~torn' => ~torn /\ n \notin 1..(CacheLen - 1)
    BY <2>2, Zenon DEF FileWrite
  <2>6. n = CacheLen => written = new
    BY <2>1
  <2>7. file' \in Seq(Packets) /\ Len(file') = Len(file) + n
    <3> HIDE DEF written
    <3>1. \A s, t \in Seq(Packets) :
            s \o t \in Seq(Packets) /\ Len(s \o t) = Len(s) + Len(t)
      OBVIOUS
    <3>2. file' = file \o written /\ file \in Seq(Packets)
      BY <1>1, <2>5
    <3> QED
      BY <2>4, <3>1, <3>2
  <2>8. ~torn' => Len(file') % CacheLen = 0
    <3> SUFFICES ASSUME ~torn'
                 PROVE  Len(file') % CacheLen = 0
      OBVIOUS
    <3>1. Len(file) % CacheLen = 0
      BY <1>1, <2>5, Zenon
    <3>2. n = 0 \/ n = CacheLen
      BY <1>1, <2>3, <2>5
    <3>3. Len(file) \in Nat /\ Len(file') \in Nat /\ CacheLen \in Nat /\ CacheLen > 0
      BY <1>1, <2>7
    <3>4. CASE n = 0
      <4>1. Len(file') = Len(file)
        BY <2>7, <3>3, <3>4
      <4> QED
        BY <3>1, <4>1
    <3>5. CASE n = CacheLen
      <4>1. Len(file') = Len(file) + CacheLen
        BY <2>7, <3>5
      <4> QED
        BY <3>1, <3>3, <4>1, GroupAdded
    <3> QED
      BY <3>2, <3>4, <3>5
  <2>9. ~lost' => file' \o [i \in 1..ts_cache_len' |-> ts_cache'[i - 1]] = out'
    <3> SUFFICES ASSUME ~lost'
                 PROVE  file' \o [i \in 1..ts_cache_len' |-> ts_cache'[i - 1]] = out'
      OBVIOUS
    <3>1. n = CacheLen
      BY <1>1, <2>3, <2>5
    <3>5. ~lost
      BY <2>5, Zenon
    <3>2. file' = out'
      <4> HIDE DEF new, written
      <4> QED
        BY <1>6, <2>5, <2>6, <3>1, <3>5, Zenon
    <3> DEFINE none == [i \in 1..ts_cache_len' |-> ts_cache'[i - 1]]
    <3>3. none \in Seq(Packets) /\ Len(none) = 0
      BY <2>1
    <3>4. file' \o none = file'
      <4> HIDE DEF none
      <4> QED
        BY <2>7, <3>3, EmptySeq, ConcatEmptySeq
    <3> QED
      BY <3>2, <3>4
  <2>10. lost' \in BOOLEAN /\ torn' \in BOOLEAN
    BY <2>2 DEF FileWrite
  <2> QED
    BY <1>1, <1>3, <2>1, <2>7, <2>8, <2>9, <2>10
<1>8. CASE ~CacheFull
  <2>1. L + 1 # CacheLen /\ packet' = L + 1 /\ ts_cache_len' = L + 1
        /\ file' = file /\ lost' = lost /\ torn' = torn
    BY <1>1, <1>8 DEF Put, CacheFull
  <2>2. L + 1 \in 0..(CacheLen - 1)
    BY <1>1, <2>1
  <2>3. [i \in 1..ts_cache_len' |-> ts_cache'[i - 1]] = new
    BY <2>1
  <2> HIDE DEF new
  <2> QED
    BY <1>1, <1>3, <1>6, <2>1, <2>2, <2>3
<1> QED
  BY <1>7, <1>8

-----------------------------------------------------------------------------
(* Types, and the packets in the file.                                     *)

LEMMA Typed ==
  TypeOK => /\ made \in Seq(Pes) /\ Len(made) \in Nat /\ out \in Seq(Packets) /\ Len(out) \in Nat
            /\ pat_num \in 0..(CounterMod - 1) /\ count \in [MediaPids -> 0..(CounterMod - 1)]
            /\ pes \in Pes /\ pes.pid \in Pids /\ pes.len \in Nat
            /\ \A i \in 1..Len(out) : out[i] \in Packets
            /\ \A f \in 1..Len(made) : made[f] \in Pes
<1> SUFFICES ASSUME TypeOK
             PROVE  /\ made \in Seq(Pes) /\ out \in Seq(Packets)
                    /\ pat_num \in 0..(CounterMod - 1)
                    /\ count \in [MediaPids -> 0..(CounterMod - 1)]
                    /\ pes \in Pes /\ pes.pid \in Pids /\ pes.len \in Nat
  OBVIOUS
<1>1. pes \in Pes
  BY DEF TypeOK
<1>2. pes.pid \in Pids /\ pes.len \in Nat
  BY <1>1 DEF Pes
<1> QED
  BY <1>2 DEF TypeOK

LEMMA PidsDiffer ==
  /\ PAT_PID # PMT_PID /\ PAT_PID \notin MediaPids /\ PMT_PID \notin MediaPids
  /\ PAT_PID # VIDEO_PID /\ PMT_PID # VIDEO_PID /\ VIDEO_PID # AUDIO_PID
  /\ \A p \in Packets : p.pid \in MediaPids \cup {PAT_PID, PMT_PID}
BY DEF PAT_PID, PMT_PID, MediaPids, VIDEO_PID, AUDIO_PID, Packets, Pids

LEMMA PsiPacketOK ==
  ASSUME TypeOK, NEW pid \in {PAT_PID, PMT_PID}
  PROVE  /\ PsiPacket(pid) \in Packets /\ PsiPacket(pid).pid = pid
         /\ PsiPacket(pid).counter = pat_num /\ PsiPacket(pid).frame = Len(made)
BY Typed DEF PsiPacket, Packets, Pids, TS_PACKET_SIZE

LEMMA TsPacketOK ==
  ASSUME TypeOK, step = "ts"
  PROVE  /\ TsPacket \in Packets /\ TsPacket.pid = pes.pid /\ pes.pid \in MediaPids
         /\ TsPacket.counter = count[pes.pid] /\ TsPacket.start = new_pes
         /\ TsPacket.frame = Len(made) /\ TsPacket.off = pes.len - i_size
         /\ TsPacket.n = TsLayout.n /\ TsPacket.field = TsLayout.field
<1>1. /\ pes.pid \in MediaPids /\ i_size \in 1..pes.len /\ new_pes \in BOOLEAN
      /\ i_size \in Nat /\ pes.len \in Nat /\ Len(made) \in Nat
      /\ count[pes.pid] \in 0..(CounterMod - 1)
  BY Typed DEF TypeOK
<1>2. TsLayout.n \in 1..184 /\ TsLayout.field \in -1..183
  BY <1>1, LayoutOK
<1>3. pes.pid \in Pids /\ pes.len - i_size \in Nat /\ TsLayout.n \in 0..184
  BY <1>1, <1>2 DEF Pids
<1>4. TsPacket \in Packets
  BY <1>1, <1>2, <1>3 DEF TsPacket, Packets
<1> QED
  BY <1>1, <1>4 DEF TsPacket

LEMMA FrameTyped ==
  ASSUME TypeOK, FileWhole, NEW pack \in Packs, NEW now \in Clocks, Frame(pack, now)
  PROVE  TypeOK' /\ FileWhole'
<1>1. pack.picture_ms \in Nat /\ pack.es_len \in Nat /\ pack.is_keyframe \in BOOLEAN /\ now \in Nat
  BY TsAssumption DEF Packs
<1>2. last_video_picture_ms' \in Nat /\ calls' \in Nat
  BY <1>1 DEF TypeOK, Frame
<1>3. FileWhole'
  <2>1. step' # "idle" => packet' = ts_cache_len
    BY DEF FileWhole, Frame, CacheEnd
  <2> QED
    BY <2>1 DEF FileWhole, Frame
<1>4. CASE TooLong(pack) \/ ~ts_fp
  BY <1>2, <1>3, <1>4 DEF TypeOK, Frame, pesVars
<1>5. CASE ~(TooLong(pack) \/ ~ts_fp)
  <2>1. AudioTime(pack) \in Nat /\ PesHeaderLen(pack) \in Nat \ {0}
    BY <1>1 DEF AudioTime, PesHeaderLen, TypeOK
  <2> DEFINE pid == IF pack.type = "aac" THEN AUDIO_PID ELSE VIDEO_PID
             ms  == IF pack.type = "aac" THEN AudioTime(pack) ELSE pack.picture_ms
  <2>2. pes' = [pid |-> pid, len |-> pack.es_len + PesHeaderLen(pack), ms |-> ms,
                own_ms |-> pack.picture_ms, key |-> pack.is_keyframe, clock |-> now]
    BY <1>5 DEF Frame
  <2>3. pid \in MediaPids /\ pid \in Pids /\ ms \in Nat
    BY <1>1, <2>1 DEF MediaPids, Pids
  <2> HIDE DEF pid, ms
  <2>4. pes' \in Pes /\ pes'.pid \in MediaPids /\ pes'.len \in Nat \ {0}
    BY <1>1, <2>1, <2>2, <2>3 DEF Pes
  <2>5. i_size' = pes'.len /\ new_pes' = TRUE /\ made' = Append(made, pes')
        /\ packet' = ts_cache_len /\ frame_num' = frame_num + 1
        /\ step' \in {"pat", "ts"} /\ last_psi_time' \in {now, last_psi_time}
    BY <1>5 DEF Frame, CacheEnd
  <2>6. made' \in Seq(Pes) /\ i_size' \in 1..pes'.len /\ i_size' \in Nat
        /\ frame_num' \in Nat /\ last_psi_time' \in Nat
    BY SMTT(20), <1>1, <2>4, <2>5, Typed DEF TypeOK
  <2>7. UNCHANGED <<ts_fp, pat_num, count, ts_cache, ts_cache_len, file, lost, torn, out>>
    BY DEF Frame
  <2> QED
    BY <1>2, <1>3, <2>4, <2>5, <2>6, <2>7 DEF TypeOK
<1> QED
  BY <1>4, <1>5

LEMMA PutPatTyped ==
  ASSUME TypeOK, FileWhole, PutPat
  PROVE  TypeOK' /\ FileWhole' /\ out' = Append(out, PsiPacket(PAT_PID))
<1> DEFINE p == PsiPacket(PAT_PID)
<1>1. p \in Packets /\ Put(p) /\ step = "pat" /\ step' = "pmt"
  BY PsiPacketOK DEF PutPat
<1>2. UNCHANGED <<pesVars, ts_fp, pat_num, frame_num, count, last_psi_time,
                  last_video_picture_ms, made, calls>>
  BY DEF PutPat
<1> HIDE DEF p
<1>3. /\ out' = Append(out, p) /\ out' \in Seq(Packets)
      /\ ts_cache' \in [0..(CacheLen - 1) -> Packets]
      /\ ts_cache_len' \in 0..(CacheLen - 1) /\ packet' \in 0..(CacheLen - 1)
      /\ file' \in Seq(Packets) /\ lost' \in BOOLEAN /\ torn' \in BOOLEAN
      /\ packet' = ts_cache_len' /\ (~torn' => Len(file') % CacheLen = 0)
      /\ ~lost' => file' \o [i \in 1..ts_cache_len' |-> ts_cache'[i - 1]] = out'
  BY <1>1, PutOK
<1>4. TypeOK'
  BY <1>1, <1>2, <1>3 DEF TypeOK, pesVars
<1>5. FileWhole'
  BY <1>3 DEF FileWhole
<1> QED
  BY <1>3, <1>4, <1>5 DEF p

LEMMA PutPmtTyped ==
  ASSUME TypeOK, FileWhole, PutPmt
  PROVE  TypeOK' /\ FileWhole' /\ out' = Append(out, PsiPacket(PMT_PID))
<1> DEFINE p == PsiPacket(PMT_PID)
<1>1. p \in Packets /\ Put(p) /\ step = "pmt" /\ step' = "ts" /\ pat_num' = NextCount(pat_num)
  BY PsiPacketOK DEF PutPmt
<1>2. UNCHANGED <<pesVars, ts_fp, frame_num, count, last_psi_time,
                  last_video_picture_ms, made, calls>>
  BY DEF PutPmt
<1> HIDE DEF p
<1>3. /\ out' = Append(out, p) /\ out' \in Seq(Packets)
      /\ ts_cache' \in [0..(CacheLen - 1) -> Packets]
      /\ ts_cache_len' \in 0..(CacheLen - 1) /\ packet' \in 0..(CacheLen - 1)
      /\ file' \in Seq(Packets) /\ lost' \in BOOLEAN /\ torn' \in BOOLEAN
      /\ packet' = ts_cache_len' /\ (~torn' => Len(file') % CacheLen = 0)
      /\ ~lost' => file' \o [i \in 1..ts_cache_len' |-> ts_cache'[i - 1]] = out'
  BY <1>1, PutOK
<1>4. pat_num' \in 0..(CounterMod - 1)
  BY <1>1, NextCountOK, Typed
<1>5. TypeOK'
  BY <1>1, <1>2, <1>3, <1>4 DEF TypeOK, pesVars
<1>6. FileWhole'
  BY <1>3 DEF FileWhole
<1> QED
  BY <1>3, <1>5, <1>6 DEF p

LEMMA PutTsTyped ==
  ASSUME TypeOK, FileWhole, PutTs
  PROVE  TypeOK' /\ FileWhole' /\ out' = Append(out, TsPacket)
<1> DEFINE p == TsPacket
<1>1. p \in Packets /\ Put(p) /\ step = "ts" /\ pes.pid \in MediaPids
  BY TsPacketOK DEF PutTs
<1>2. UNCHANGED <<pes, ts_fp, pat_num, frame_num, last_psi_time,
                  last_video_picture_ms, made, calls>>
  BY DEF PutTs
<1> HIDE DEF p
<1>3. /\ out' = Append(out, p) /\ out' \in Seq(Packets)
      /\ ts_cache' \in [0..(CacheLen - 1) -> Packets]
      /\ ts_cache_len' \in 0..(CacheLen - 1) /\ packet' \in 0..(CacheLen - 1)
      /\ file' \in Seq(Packets) /\ lost' \in BOOLEAN /\ torn' \in BOOLEAN
      /\ packet' = ts_cache_len' /\ (~torn' => Len(file') % CacheLen = 0)
      /\ ~lost' => file' \o [i \in 1..ts_cache_len' |-> ts_cache'[i - 1]] = out'
  BY <1>1, PutOK
<1>4. i_size \in 1..pes.len /\ i_size \in Nat /\ pes.len \in Nat /\ new_pes \in BOOLEAN
  BY <1>1, Typed DEF TypeOK
<1>5. /\ i_size' \in Nat /\ i_size' <= pes.len /\ new_pes' = FALSE
      /\ step' = IF i_size' > 0 THEN "ts" ELSE "idle"
  <2>1. Taken \in 1..184 /\ Taken <= i_size
    BY <1>4, LayoutOK DEF Taken
  <2>2. i_size' = i_size - Taken /\ new_pes' = FALSE
        /\ step' = IF i_size' > 0 THEN "ts" ELSE "idle"
    BY DEF PutTs
  <2> HIDE DEF Taken
  <2> QED
    BY <1>4, <2>1, <2>2
<1>6. count' \in [MediaPids -> 0..(CounterMod - 1)]
  <2>1. count' = [count EXCEPT ![pes.pid] = NextCount(count[pes.pid])]
    BY DEF PutTs
  <2>2. count \in [MediaPids -> 0..(CounterMod - 1)]
    BY Typed
  <2>3. NextCount(count[pes.pid]) \in 0..(CounterMod - 1)
    BY <1>1, <2>2, NextCountOK
  <2> QED
    BY <2>1, <2>2, <2>3
<1>7. step' # "idle" => pes'.pid \in MediaPids /\ i_size' \in 1..pes'.len
  BY <1>1, <1>2, <1>4, <1>5
<1>8. TypeOK'
  BY <1>2, <1>3, <1>5, <1>6, <1>7 DEF TypeOK
<1>9. FileWhole'
  BY <1>3 DEF FileWhole
<1> QED
  BY <1>3, <1>8, <1>9 DEF p

-----------------------------------------------------------------------------
(* The properties of the packets, one more packet at a time.               *)

LEMMA PacketsFullStep ==
  ASSUME TypeOK, PacketsFull, NEW p \in Packets, out' = Append(out, p),
         p.pid \in MediaPids =>
           /\ 4 + (p.field + 1) + p.n = TS_PACKET_SIZE
           /\ p.n > 0 /\ p.field # 0
           /\ p.start /\ p.pid = VIDEO_PID => p.field >= 7
  PROVE  PacketsFull'
<1>1. /\ Len(out') = Len(out) + 1 /\ Len(out) \in Nat
      /\ \A i \in 1..Len(out) : out'[i] = out[i]
      /\ out'[Len(out) + 1] = p
  BY Typed, OutAppended
<1> SUFFICES ASSUME NEW i \in 1..(Len(out) + 1), out'[i].pid \in MediaPids
             PROVE  /\ 4 + (out'[i].field + 1) + out'[i].n = TS_PACKET_SIZE
                    /\ out'[i].n > 0 /\ out'[i].field # 0
                    /\ out'[i].start /\ out'[i].pid = VIDEO_PID => out'[i].field >= 7
  BY <1>1 DEF PacketsFull
<1>2. CASE i \in 1..Len(out)
  BY <1>1, <1>2 DEF PacketsFull
<1>3. CASE i = Len(out) + 1
  BY <1>1, <1>3
<1> QED
  BY <1>1, <1>2, <1>3

LEMMA CountersStep ==
  ASSUME TypeOK, CountersContinue, NEW p \in Packets, out' = Append(out, p),
         \A i \in 1..Len(out) :
           LastOfPid(i) /\ out[i].pid = p.pid => p.counter = NextCount(out[i].counter)
  PROVE  CountersContinue'
<1>1. /\ Len(out') = Len(out) + 1 /\ Len(out) \in Nat
      /\ \A i \in 1..Len(out) : out'[i] = out[i]
      /\ out'[Len(out) + 1] = p
      /\ \A i, j \in 1..Len(out) : NextOfPid(i, j)' => NextOfPid(i, j)
      /\ \A i, j \in 1..(Len(out) + 1) : NextOfPid(i, j)' => i \in 1..Len(out)
      /\ \A i, j \in 1..(Len(out) + 1) : NextOfPid(i, j)' /\ j = Len(out) + 1 =>
           LastOfPid(i) /\ out[i].pid = p.pid
  BY Typed, OutAppended
<1> SUFFICES ASSUME NEW i \in 1..(Len(out) + 1), NEW j \in 1..(Len(out) + 1), NextOfPid(i, j)'
             PROVE  out'[j].counter = (out'[i].counter + 1) % CounterMod
  BY <1>1 DEF CountersContinue
<1>2. i \in 1..Len(out)
  BY <1>1
<1>3. CASE j \in 1..Len(out)
  BY <1>1, <1>2, <1>3 DEF CountersContinue
<1>4. CASE j = Len(out) + 1
  BY <1>1, <1>2, <1>4 DEF NextCount
<1> QED
  BY <1>1, <1>3, <1>4

(* made does not change while packets are put out. *)
LEMMA PesStep ==
  ASSUME TypeOK, PesReassembled, NEW p \in Packets, out' = Append(out, p), made' = made,
         \A i \in 1..Len(out) : LastOfPid(i) /\ out[i].pid = p.pid /\ p.pid \in MediaPids =>
           IF p.start
             THEN /\ out[i].off + out[i].n = made[out[i].frame].len /\ p.off = 0
                  /\ \A f \in (out[i].frame + 1)..(p.frame - 1) : made[f].pid # p.pid
             ELSE p.frame = out[i].frame /\ p.off = out[i].off + out[i].n
  PROVE  PesReassembled'
<1>1. /\ Len(out') = Len(out) + 1 /\ Len(out) \in Nat
      /\ \A i \in 1..Len(out) : out'[i] = out[i]
      /\ out'[Len(out) + 1] = p
      /\ \A i, j \in 1..Len(out) : NextOfPid(i, j)' => NextOfPid(i, j)
      /\ \A i, j \in 1..(Len(out) + 1) : NextOfPid(i, j)' => i \in 1..Len(out)
      /\ \A i, j \in 1..(Len(out) + 1) : NextOfPid(i, j)' /\ j = Len(out) + 1 =>
           LastOfPid(i) /\ out[i].pid = p.pid
  BY Typed, OutAppended
<1> SUFFICES ASSUME NEW i \in 1..(Len(out) + 1), NEW j \in 1..(Len(out) + 1), NextOfPid(i, j)',
                    out'[i].pid \in MediaPids
             PROVE  IF out'[j].start
                      THEN /\ out'[i].off + out'[i].n = made[out'[i].frame].len /\ out'[j].off = 0
                           /\ \A f \in (out'[i].frame + 1)..(out'[j].frame - 1) :
                                made[f].pid # out'[i].pid
                      ELSE out'[j].frame = out'[i].frame /\ out'[j].off = out'[i].off + out'[i].n
  BY <1>1 DEF PesReassembled
<1>2. i \in 1..Len(out)
  BY <1>1
<1>3. CASE j \in 1..Len(out)
  BY <1>1, <1>2, <1>3 DEF PesReassembled
<1>4. CASE j = Len(out) + 1
  BY <1>1, <1>2, <1>4
<1> QED
  BY <1>1, <1>3, <1>4

LEMMA KeyframeStep ==
  ASSUME TypeOK, KeyframeEntry, NEW p \in Packets, out' = Append(out, p), made' = made,
         p.pid = VIDEO_PID /\ p.start /\ made[p.frame].key =>
           /\ Len(out) > 1
           /\ out[Len(out) - 1].pid = PAT_PID /\ out[Len(out)].pid = PMT_PID
           /\ out[Len(out) - 1].counter = out[Len(out)].counter
  PROVE  KeyframeEntry'
<1>1. /\ Len(out') = Len(out) + 1 /\ Len(out) \in Nat
      /\ \A i \in 1..Len(out) : out'[i] = out[i]
      /\ out'[Len(out) + 1] = p
  BY Typed, OutAppended
<1> SUFFICES ASSUME NEW j \in 1..(Len(out) + 1),
                    out'[j].pid = VIDEO_PID, out'[j].start, made[out'[j].frame].key
             PROVE  /\ j > 2 /\ out'[j - 2].pid = PAT_PID /\ out'[j - 1].pid = PMT_PID
                    /\ out'[j - 2].counter = out'[j - 1].counter
  BY <1>1 DEF KeyframeEntry
<1>2. CASE j \in 1..Len(out)
  <2>1. /\ j > 2 /\ out[j - 2].pid = PAT_PID /\ out[j - 1].pid = PMT_PID
        /\ out[j - 2].counter = out[j - 1].counter
    BY <1>1, <1>2 DEF KeyframeEntry
  <2>2. j - 2 \in 1..Len(out) /\ j - 1 \in 1..Len(out)
    BY <1>1, <1>2, <2>1
  <2> QED
    BY <1>1, <2>1, <2>2
<1>3. CASE j = Len(out) + 1
  <2>1. /\ Len(out) > 1
        /\ out[Len(out) - 1].pid = PAT_PID /\ out[Len(out)].pid = PMT_PID
        /\ out[Len(out) - 1].counter = out[Len(out)].counter
    BY <1>1, <1>3
  <2>2. j - 2 = Len(out) - 1 /\ j - 1 = Len(out) /\ Len(out) - 1 \in 1..Len(out)
        /\ Len(out) \in 1..Len(out)
    BY <1>1, <1>3, <2>1
  <2> QED
    BY <1>1, <1>3, <2>1, <2>2
<1> QED
  BY <1>1, <1>2, <1>3

-----------------------------------------------------------------------------
(* The actions.                                                            *)

LEMMA InitOK == Init => Inv
<1> SUFFICES ASSUME Init
             PROVE  Inv
  OBVIOUS
<1>1. out = <<>> /\ file = <<>> /\ made = <<>> /\ step = "idle" /\ ts_cache_len = 0
  BY DEF Init
<1>2. TypeOK
  <2>1. NoPacket \in Packets /\ NoPes \in Pes
    BY TsAssumption DEF NoPacket, NoPes, Packets, Pes, Pids
  <2>2. ts_cache \in [0..(CacheLen - 1) -> Packets] /\ pes \in Pes
    BY <2>1 DEF Init
  <2>3. count \in [MediaPids -> 0..(CounterMod - 1)] /\ last_psi_time \in Nat
    BY TsAssumption DEF Init
  <2>4. lost \in BOOLEAN /\ torn \in BOOLEAN /\ ts_fp \in BOOLEAN /\ new_pes \in BOOLEAN
    BY DEF Init
  <2>5. file \in Seq(Packets) /\ out \in Seq(Packets) /\ made \in Seq(Pes)
    BY <1>1
  <2>6. /\ pat_num \in 0..(CounterMod - 1) /\ ts_cache_len \in 0..(CacheLen - 1)
        /\ packet \in 0..(CacheLen - 1) /\ i_size \in Nat /\ frame_num \in Nat
        /\ calls \in Nat /\ last_video_picture_ms \in Nat
    BY TsAssumption DEF Init
  <2> QED
    BY <1>1, <2>2, <2>3, <2>4, <2>5, <2>6 DEF TypeOK
<1>3. FileWhole
  <2> DEFINE none == [i \in 1..ts_cache_len |-> ts_cache[i - 1]]
  <2>1. none \in Seq(Packets) /\ Len(none) = 0
    BY <1>1
  <2>2. file \o none = out
    <3> HIDE DEF none
    <3> QED
      BY <1>1, <2>1, EmptySeq, ConcatEmptySeq
  <2>3. Len(file) % CacheLen = 0
    BY <1>1, TsAssumption
  <2> QED
    BY <1>1, <2>2, <2>3 DEF FileWhole
<1>4. Len(out) = 0 /\ Len(made) = 0
  BY <1>1
<1>5. PacketsFull /\ CountersContinue /\ CounterInv /\ PesReassembled /\ KeyframeEntry
  BY <1>4 DEF PacketsFull, CountersContinue, CounterInv, PesReassembled, KeyframeEntry
<1>6. PesInv /\ PsiInv
  BY <1>1, <1>4 DEF PesInv, PsiInv
<1> QED
  BY <1>2, <1>3, <1>5, <1>6 DEF Inv

LEMMA FrameOK ==
  ASSUME Inv, NEW pack \in Packs, NEW now \in Clocks, Frame(pack, now)
  PROVE  Inv'
<1>1. TypeOK' /\ FileWhole'
  BY FrameTyped DEF Inv
<1>2. out' = out /\ count' = count /\ pat_num' = pat_num /\ step = "idle"
  BY DEF Frame
<1>3. PacketsFull' /\ CountersContinue'
  BY <1>2 DEF Inv, PacketsFull, CountersContinue, NextOfPid
<1>4. CASE TooLong(pack) \/ ~ts_fp
  <2>1. step' = step /\ pes' = pes /\ i_size' = i_size /\ new_pes' = new_pes /\ made' = made
    BY <1>4 DEF Frame, pesVars
  <2>2. CounterInv' /\ PesInv' /\ PsiInv'
    BY <1>2, <2>1 DEF Inv, CounterInv, PesInv, PsiInv, LastOfPid, Cut
  <2>3. PesReassembled' /\ KeyframeEntry'
    BY <1>2, <2>1 DEF Inv, PesReassembled, KeyframeEntry, NextOfPid
  <2> QED
    BY <1>1, <1>3, <2>2, <2>3 DEF Inv
<1>5. CASE ~(TooLong(pack) \/ ~ts_fp)
  <2>1. /\ i_size' = pes'.len /\ new_pes' = TRUE /\ made' = Append(made, pes')
        /\ step' \in {"pat", "ts"} /\ pes'.key = pack.is_keyframe
        /\ step' = "ts" => ~PsiDue(pack, now)
    BY <1>5 DEF Frame
  <2>2. pes' \in Pes /\ made \in Seq(Pes) /\ Len(made) \in Nat
    BY <1>1, Typed DEF Inv, TypeOK
  <2>3. /\ Len(made') = Len(made) + 1 /\ made'[Len(made) + 1] = pes'
        /\ \A f \in 1..Len(made) : made'[f] = made[f]
    BY <2>1, <2>2
  <2>4. \A i \in 1..Len(out) : out[i].frame \in 1..Len(made) /\ out[i].frame \in Nat
    BY <2>2 DEF Inv, PesInv
  <2>5. \A i, j \in 1..Len(out) :
          \A f \in (out[i].frame + 1)..(out[j].frame - 1) : made'[f] = made[f]
    BY SMTT(20), <2>2, <2>3, <2>4
  <2>6. \A i \in 1..Len(out) :
          \A f \in (out[i].frame + 1)..Len(made) : made'[f] = made[f]
    BY <2>2, <2>3, <2>4
  <2>7. PesReassembled'
    <3> SUFFICES ASSUME NEW i \in 1..Len(out), NEW j \in 1..Len(out), NextOfPid(i, j),
                        out[i].pid \in MediaPids
                 PROVE  IF out[j].start
                          THEN /\ out[i].off + out[i].n = made'[out[i].frame].len /\ out[j].off = 0
                               /\ \A f \in (out[i].frame + 1)..(out[j].frame - 1) :
                                    made'[f].pid # out[i].pid
                          ELSE out[j].frame = out[i].frame /\ out[j].off = out[i].off + out[i].n
      BY <1>2 DEF PesReassembled, NextOfPid
    <3>1. IF out[j].start
            THEN /\ out[i].off + out[i].n = made[out[i].frame].len /\ out[j].off = 0
                 /\ \A f \in (out[i].frame + 1)..(out[j].frame - 1) : made[f].pid # out[i].pid
            ELSE out[j].frame = out[i].frame /\ out[j].off = out[i].off + out[i].n
      BY DEF Inv, PesReassembled
    <3>2. /\ made'[out[i].frame] = made[out[i].frame]
          /\ \A f \in (out[i].frame + 1)..(out[j].frame - 1) : made'[f] = made[f]
      BY <2>3, <2>4, <2>5
    <3> QED
      BY <3>1, <3>2
  <2>8. KeyframeEntry'
    BY <1>2, <2>3, <2>4 DEF Inv, KeyframeEntry
  <2>9. CounterInv'
    BY <1>2, <2>1 DEF Inv, CounterInv, LastOfPid
  <2>10. PsiInv'
    BY <2>1 DEF PsiInv, PsiDue
  <2>11. PesInv'
    <3>1. /\ step' # "idle" => Len(made') > 0 /\ made'[Len(made')] = pes'
          /\ step' \in {"pat", "pmt"} => new_pes'
          /\ step' # "idle" /\ new_pes' => i_size' = pes'.len
      BY <2>1, <2>2, <2>3
    <3>2. \A i \in 1..Len(out) : out[i].frame \in 1..Len(made')
      BY <2>2, <2>3, <2>4
    <3>3. ASSUME NEW i \in 1..Len(out), LastOfPid(i), out[i].pid \in MediaPids
          PROVE  /\ out[i].off + out[i].n = made'[out[i].frame].len
                 /\ \A f \in (out[i].frame + 1)..Len(made) : made'[f].pid # out[i].pid
      <4>1. /\ out[i].off + out[i].n = made[out[i].frame].len
            /\ \A f \in (out[i].frame + 1)..Len(made) : made[f].pid # out[i].pid
        BY <1>2, <3>3 DEF Inv, PesInv, Cut
      <4> QED
        BY <2>3, <2>4, <2>6, <4>1
    <3>4. Cut' = Len(made)
      BY <2>1, <2>2, <2>3 DEF Cut
    <3>5. \A i \in 1..Len(out) : LastOfPid(i)' => LastOfPid(i)
      BY <1>2 DEF LastOfPid
    <3> QED
      BY <1>2, <2>1, <3>1, <3>2, <3>3, <3>4, <3>5 DEF PesInv
  <2> QED
    BY <1>1, <1>3, <2>7, <2>8, <2>9, <2>10, <2>11 DEF Inv
<1> QED
  BY <1>4, <1>5

LEMMA PutPatOK ==
  ASSUME Inv, PutPat
  PROVE  Inv'
<1> DEFINE p == PsiPacket(PAT_PID)
<1>1. TypeOK' /\ FileWhole' /\ out' = Append(out, p)
  BY PutPatTyped DEF Inv
<1>2. p \in Packets /\ p.pid = PAT_PID /\ p.counter = pat_num /\ p.frame = Len(made)
  BY PsiPacketOK DEF Inv
<1>3. /\ step = "pat" /\ step' = "pmt" /\ made' = made /\ count' = count /\ pat_num' = pat_num
      /\ pes' = pes /\ i_size' = i_size /\ new_pes' = new_pes
  BY DEF PutPat, pesVars
<1> HIDE DEF p
<1>4. /\ Len(out') = Len(out) + 1 /\ Len(out) \in Nat /\ Len(made) \in Nat
      /\ \A i \in 1..Len(out) : out'[i] = out[i]
      /\ out'[Len(out) + 1] = p
      /\ \A i \in 1..Len(out) : LastOfPid(i)' => LastOfPid(i) /\ out[i].pid # PAT_PID
  BY <1>1, <1>2, Typed, OutAppended DEF Inv
<1>5. PacketsFull'
  BY <1>1, <1>2, PidsDiffer, PacketsFullStep DEF Inv
<1>6. CountersContinue'
  <2>1. \A i \in 1..Len(out) : LastOfPid(i) /\ out[i].pid = p.pid =>
          p.counter = NextCount(out[i].counter)
    BY <1>2, <1>3 DEF Inv, CounterInv
  <2> QED
    BY <1>1, <1>2, <2>1, CountersStep DEF Inv
<1>7. CounterInv'
  <2> SUFFICES ASSUME NEW i \in 1..(Len(out) + 1), LastOfPid(i)'
               PROVE  /\ out'[i].pid \in MediaPids => count[out'[i].pid] = NextCount(out'[i].counter)
                      /\ out'[i].pid = PMT_PID => pat_num = NextCount(out'[i].counter)
                      /\ out'[i].pid = PAT_PID => pat_num = out'[i].counter
    BY <1>3, <1>4 DEF CounterInv, NextCount
  <2>1. CASE i \in 1..Len(out)
    BY <1>4, <2>1 DEF Inv, CounterInv
  <2>2. CASE i = Len(out) + 1
    BY <1>2, <1>4, <2>2, PidsDiffer
  <2> QED
    BY <1>4, <2>1, <2>2
<1>8. PesReassembled'
  BY <1>1, <1>2, <1>3, PidsDiffer, PesStep DEF Inv
<1>9. KeyframeEntry'
  BY <1>1, <1>2, <1>3, PidsDiffer, KeyframeStep DEF Inv
<1>10. PesInv'
  <2>1. /\ Len(made) > 0 /\ made[Len(made)] = pes /\ new_pes /\ i_size = pes.len
        /\ \A i \in 1..Len(out) : out[i].frame \in 1..Len(made)
    BY <1>3 DEF Inv, PesInv
  <2>2. ASSUME NEW i \in 1..(Len(out) + 1)
        PROVE  out'[i].frame \in 1..Len(made)
    BY <1>2, <1>4, <2>1
  <2>3. ASSUME NEW i \in 1..(Len(out) + 1), LastOfPid(i)', out'[i].pid \in MediaPids
        PROVE  /\ out'[i].off + out'[i].n = made[out'[i].frame].len
               /\ \A f \in (out'[i].frame + 1)..(Len(made) - 1) : made[f].pid # out'[i].pid
    <3>1. i \in 1..Len(out)
      BY <1>2, <1>4, <2>3, PidsDiffer
    <3> QED
      BY <1>3, <1>4, <2>3, <3>1 DEF Inv, PesInv, Cut
  <2>4. Cut' = Len(made) - 1
    BY <1>3 DEF Cut
  <2> QED
    BY <1>3, <1>4, <2>1, <2>2, <2>3, <2>4 DEF PesInv
<1>11. PsiInv'
  <2>1. Len(out') > 0 /\ out'[Len(out')] = p
    BY <1>4
  <2> QED
    BY <1>2, <1>3, <2>1 DEF PsiInv
<1> QED
  BY <1>1, <1>5, <1>6, <1>7, <1>8, <1>9, <1>10, <1>11 DEF Inv

LEMMA PutPmtOK ==
  ASSUME Inv, PutPmt
  PROVE  Inv'
<1> DEFINE p == PsiPacket(PMT_PID)
<1>1. TypeOK' /\ FileWhole' /\ out' = Append(out, p)
  BY PutPmtTyped DEF Inv
<1>2. p \in Packets /\ p.pid = PMT_PID /\ p.counter = pat_num /\ p.frame = Len(made)
  BY PsiPacketOK DEF Inv
<1>3. /\ step = "pmt" /\ step' = "ts" /\ made' = made /\ count' = count
      /\ pat_num' = NextCount(pat_num)
      /\ pes' = pes /\ i_size' = i_size /\ new_pes' = new_pes
  BY DEF PutPmt, pesVars
<1> HIDE DEF p
<1>4. /\ Len(out') = Len(out) + 1 /\ Len(out) \in Nat /\ Len(made) \in Nat
      /\ \A i \in 1..Len(out) : out'[i] = out[i]
      /\ out'[Len(out) + 1] = p
      /\ \A i \in 1..Len(out) : LastOfPid(i)' => LastOfPid(i) /\ out[i].pid # PMT_PID
  BY <1>1, <1>2, Typed, OutAppended DEF Inv
<1>5. PacketsFull'
  BY <1>1, <1>2, PidsDiffer, PacketsFullStep DEF Inv
<1>6. CountersContinue'
  <2>1. \A i \in 1..Len(out) : LastOfPid(i) /\ out[i].pid = p.pid =>
          p.counter = NextCount(out[i].counter)
    BY <1>2 DEF Inv, CounterInv
  <2> QED
    BY <1>1, <1>2, <2>1, CountersStep DEF Inv
<1>7. CounterInv'
  <2> SUFFICES ASSUME NEW i \in 1..(Len(out) + 1), LastOfPid(i)'
               PROVE  /\ out'[i].pid \in MediaPids => count[out'[i].pid] = NextCount(out'[i].counter)
                      /\ out'[i].pid = PMT_PID => NextCount(pat_num) = NextCount(out'[i].counter)
                      /\ out'[i].pid = PAT_PID => NextCount(pat_num) = NextCount(out'[i].counter)
    BY <1>3, <1>4 DEF CounterInv, NextCount
  <2>1. CASE i \in 1..Len(out)
    BY <1>3, <1>4, <2>1 DEF Inv, CounterInv
  <2>2. CASE i = Len(out) + 1
    BY <1>2, <1>4, <2>2, PidsDiffer
  <2> QED
    BY <1>4, <2>1, <2>2
<1>8. PesReassembled'
  BY <1>1, <1>2, <1>3, PidsDiffer, PesStep DEF Inv
<1>9. KeyframeEntry'
  BY <1>1, <1>2, <1>3, PidsDiffer, KeyframeStep DEF Inv
<1>10. PesInv'
  <2>1. /\ Len(made) > 0 /\ made[Len(made)] = pes /\ new_pes /\ i_size = pes.len
        /\ \A i \in 1..Len(out) : out[i].frame \in 1..Len(made)
    BY <1>3 DEF Inv, PesInv
  <2>2. ASSUME NEW i \in 1..(Len(out) + 1)
        PROVE  out'[i].frame \in 1..Len(made)
    BY <1>2, <1>4, <2>1
  <2>3. ASSUME NEW i \in 1..(Len(out) + 1), LastOfPid(i)', out'[i].pid \in MediaPids
        PROVE  /\ out'[i].off + out'[i].n = made[out'[i].frame].len
               /\ \A f \in (out'[i].frame + 1)..(Len(made) - 1) : made[f].pid # out'[i].pid
    <3>1. i \in 1..Len(out)
      BY <1>2, <1>4, <2>3, PidsDiffer
    <3> QED
      BY <1>3, <1>4, <2>3, <3>1 DEF Inv, PesInv, Cut
  <2>4. Cut' = Len(made) - 1
    BY <1>3 DEF Cut
  <2> QED
    BY <1>3, <1>4, <2>1, <2>2, <2>3, <2>4 DEF PesInv
<1>11. PsiInv'
  <2>1. Len(out) > 0 /\ out[Len(out)].pid = PAT_PID /\ out[Len(out)].counter = pat_num
    BY <1>3 DEF Inv, PsiInv
  <2>2. Len(out') > 1 /\ out'[Len(out')] = p /\ out'[Len(out') - 1] = out[Len(out)]
    BY <1>4, <2>1
  <2> QED
    BY <1>2, <1>3, <2>1, <2>2 DEF PsiInv
<1> QED
  BY <1>1, <1>5, <1>6, <1>7, <1>8, <1>9, <1>10, <1>11 DEF Inv

LEMMA PutTsOK ==
  ASSUME Inv, PutTs
  PROVE  Inv'
<1> DEFINE p == TsPacket
<1>1. TypeOK' /\ FileWhole' /\ out' = Append(out, p)
  BY PutTsTyped DEF Inv
<1>2. /\ step = "ts" /\ made' = made /\ pat_num' = pat_num /\ pes' = pes
      /\ count' = [count EXCEPT ![pes.pid] = NextCount(count[pes.pid])]
      /\ i_size' = i_size - TsLayout.n /\ new_pes' = FALSE
      /\ step' = IF i_size' > 0 THEN "ts" ELSE "idle"
  BY DEF PutTs, Taken
<1>3. /\ p \in Packets /\ p.pid = pes.pid /\ pes.pid \in MediaPids
      /\ p.counter = count[pes.pid] /\ p.start = new_pes
      /\ p.frame = Len(made) /\ p.off = pes.len - i_size
      /\ p.n = TsLayout.n /\ p.field = TsLayout.field
  BY <1>2, TsPacketOK DEF Inv
<1>4. i_size \in Nat /\ i_size > 0 /\ new_pes \in BOOLEAN /\ pes.len \in Nat
      /\ pes \in Pes /\ count \in [MediaPids -> 0..(CounterMod - 1)]
  BY <1>2, Typed DEF Inv, TypeOK
<1> HIDE DEF p
<1>5. /\ TsLayout.n \in 1..184 /\ TsLayout.n <= i_size
      /\ TsLayout.field \in -1..183 /\ TsLayout.field # 0
      /\ 4 + (TsLayout.field + 1) + TsLayout.n = TS_PACKET_SIZE
      /\ new_pes /\ pes.pid = VIDEO_PID => TsLayout.field >= 7
  BY <1>4, LayoutOK
<1>6. /\ Len(out') = Len(out) + 1 /\ Len(out) \in Nat /\ Len(made) \in Nat
      /\ \A i \in 1..Len(out) : out'[i] = out[i]
      /\ out'[Len(out) + 1] = p
      /\ \A i \in 1..Len(out) : LastOfPid(i)' => LastOfPid(i) /\ out[i].pid # pes.pid
  BY <1>1, <1>3, Typed, OutAppended DEF Inv
<1>7. /\ Len(made) > 0 /\ made[Len(made)] = pes
      /\ new_pes => i_size = pes.len
      /\ \A i \in 1..Len(out) : out[i].frame \in 1..Len(made)
  BY <1>2 DEF Inv, PesInv
<1>8. PacketsFull'
  <2>1. p.n > 0
    <3>1. TsLayout.n > 0
      BY <1>5
    <3>2. p.n = TsLayout.n
      BY <1>3
    <3> QED
      BY <3>1, <3>2
  <2> QED
    BY <1>1, <1>3, <1>5, <2>1, PacketsFullStep DEF Inv
<1>9. CountersContinue'
  <2>1. \A i \in 1..Len(out) : LastOfPid(i) /\ out[i].pid = p.pid =>
          p.counter = NextCount(out[i].counter)
    BY <1>3 DEF Inv, CounterInv
  <2> QED
    BY <1>1, <1>3, <2>1, CountersStep DEF Inv
<1>10. CounterInv'
  <2> SUFFICES ASSUME NEW i \in 1..(Len(out) + 1), LastOfPid(i)'
               PROVE  /\ out'[i].pid \in MediaPids => count'[out'[i].pid] = NextCount(out'[i].counter)
                      /\ out'[i].pid = PMT_PID => pat_num = NextCount(out'[i].counter)
                      /\ out'[i].pid = PAT_PID => pat_num = NextCount(out'[i].counter)
    BY <1>2, <1>6 DEF CounterInv, NextCount
  <2>1. CASE i \in 1..Len(out)
    <3>1. LastOfPid(i) /\ out[i].pid # pes.pid /\ out'[i] = out[i]
      BY <1>6, <2>1
    <3>2. out[i].pid \in MediaPids => count'[out[i].pid] = count[out[i].pid]
      BY <1>2, <1>4, <3>1
    <3> QED
      BY <1>2, <2>1, <3>1, <3>2 DEF Inv, CounterInv
  <2>2. CASE i = Len(out) + 1
    <3>1. count'[pes.pid] = NextCount(count[pes.pid])
      BY <1>2, <1>3, <1>4
    <3> QED
      BY <1>3, <1>6, <2>2, <3>1, PidsDiffer
  <2> QED
    BY <1>6, <2>1, <2>2
<1>11. PesReassembled'
  <2> SUFFICES ASSUME NEW i \in 1..Len(out), LastOfPid(i), out[i].pid = pes.pid
               PROVE  IF new_pes
                        THEN /\ out[i].off + out[i].n = made[out[i].frame].len
                             /\ pes.len - i_size = 0
                             /\ \A f \in (out[i].frame + 1)..(Len(made) - 1) :
                                  made[f].pid # pes.pid
                        ELSE /\ Len(made) = out[i].frame
                             /\ pes.len - i_size = out[i].off + out[i].n
    BY <1>1, <1>2, <1>3, PesStep DEF Inv
  <2>1. CASE new_pes
    BY <1>2, <1>3, <1>4, <1>7, <2>1 DEF Inv, PesInv, Cut
  <2>2. CASE ~new_pes
    BY <1>2, <1>3, <2>2 DEF Inv, PesInv
  <2> QED
    BY <2>1, <2>2
<1>12. KeyframeEntry'
  <2>1. p.start /\ made[p.frame].key => new_pes /\ pes.key
    BY <1>3, <1>7
  <2>2. p.start /\ made[p.frame].key =>
          /\ Len(out) > 1
          /\ out[Len(out) - 1].pid = PAT_PID /\ out[Len(out)].pid = PMT_PID
          /\ out[Len(out) - 1].counter = out[Len(out)].counter
    BY <1>2, <2>1 DEF Inv, PsiInv
  <2> QED
    BY <1>1, <1>2, <1>3, <2>2, KeyframeStep DEF Inv
<1>13. PesInv'
  <2>1. ASSUME NEW i \in 1..(Len(out) + 1)
        PROVE  out'[i].frame \in 1..Len(made)
    BY <1>3, <1>6, <1>7
  <2>2. i_size' \in Nat /\ i_size' <= i_size
    BY <1>2, <1>4, <1>5
  <2>3. ASSUME NEW i \in 1..(Len(out) + 1), LastOfPid(i)', out'[i].pid \in MediaPids
        PROVE  IF step' = "ts" /\ pes.pid = out'[i].pid
                 THEN out'[i].frame = Len(made) /\ out'[i].off + out'[i].n = pes.len - i_size'
                 ELSE /\ out'[i].off + out'[i].n = made[out'[i].frame].len
                      /\ \A f \in (out'[i].frame + 1)..Cut' : made[f].pid # out'[i].pid
    <3>1. CASE i \in 1..Len(out)
      <4>1. LastOfPid(i) /\ out[i].pid # pes.pid /\ out'[i] = out[i] /\ out[i].pid \in MediaPids
        BY <1>6, <2>3, <3>1
      <4>2. /\ out[i].off + out[i].n = made[out[i].frame].len
            /\ \A f \in (out[i].frame + 1)..(Len(made) - 1) : made[f].pid # out[i].pid
        BY <1>2, <3>1, <4>1 DEF Inv, PesInv, Cut
      <4>3. \A f \in (out[i].frame + 1)..Len(made) : made[f].pid # out[i].pid
        <5> SUFFICES ASSUME NEW f \in (out[i].frame + 1)..Len(made)
                     PROVE  made[f].pid # out[i].pid
          OBVIOUS
        <5>1. CASE f = Len(made)
          BY <1>7, <4>1, <5>1
        <5>2. CASE f # Len(made)
          <6>1. f \in (out[i].frame + 1)..(Len(made) - 1)
            BY <1>6, <5>2
          <6> QED
            BY <4>2, <6>1
        <5> QED
          BY <5>1, <5>2
      <4>4. Cut' \in {Len(made), Len(made) - 1}
        BY <1>2 DEF Cut
      <4> QED
        BY <4>1, <4>2, <4>3, <4>4
    <3>2. CASE i = Len(out) + 1
      <4>1. /\ out'[i].pid = pes.pid /\ out'[i].frame = Len(made)
            /\ out'[i].off + out'[i].n = pes.len - i_size'
        <5>1. out'[i] = p
          BY <1>6, <3>2
        <5>2. p.off = pes.len - i_size /\ p.n = TsLayout.n /\ i_size' = i_size - TsLayout.n
              /\ p.pid = pes.pid /\ p.frame = Len(made)
          BY <1>2, <1>3
        <5>3. \A a, b, c \in Int : (a - b) + c = a - (b - c)
          BY ONLY SMTT(30)
        <5>4. pes.len \in Int /\ i_size \in Int /\ TsLayout.n \in Int
          BY ONLY SMTT(30), <1>4, <1>5
        <5>5. p.off + p.n = pes.len - i_size'
          BY <5>2, <5>3, <5>4
        <5> QED
          BY <5>1, <5>2, <5>5
      <4>2. step' # "ts" => i_size' = 0 /\ Cut' = Len(made)
        BY <1>2, <2>2 DEF Cut
      <4>3. step' # "ts" => /\ pes.len - i_size' = made[Len(made)].len
                            /\ (Len(made) + 1)..Cut' = {}
        BY <1>4, <1>6, <1>7, <4>2
      <4> QED
        BY <4>1, <4>3
    <3> QED
      BY <1>6, <3>1, <3>2
  <2>4. /\ step' # "idle" => Len(made) > 0 /\ made[Len(made)] = pes
        /\ step' \notin {"pat", "pmt"} /\ new_pes' = FALSE
    BY <1>2, <1>7
  <2> QED
    BY <1>2, <1>6, <2>1, <2>3, <2>4 DEF PesInv
<1>14. PsiInv'
  BY <1>2 DEF PsiInv
<1> QED
  BY <1>1, <1>8, <1>9, <1>10, <1>11, <1>12, <1>13, <1>14 DEF Inv

-----------------------------------------------------------------------------
(* The inductive invariant: TypeOK, the properties below, and what the     *)
(* muxer's variables say about the last packet of each PID.                *)
THEOREM InvHolds == Spec => []Inv
<1>1. Init => Inv
  BY InitOK
<1>2. Inv /\ [Next]_vars => Inv'
  <2> SUFFICES ASSUME Inv, [Next]_vars
               PROVE  Inv'
    OBVIOUS
  <2>1. CASE \E pack \in Packs, now \in Clocks : Frame(pack, now)
    BY <2>1, FrameOK
  <2>2. CASE PutPat
    BY <2>2, PutPatOK
  <2>3. CASE PutPmt
    BY <2>3, PutPmtOK
  <2>4. CASE PutTs
    BY <2>4, PutTsOK
  <2>5. CASE UNCHANGED vars
    <3>1. UNCHANGED <<step, pes, i_size, new_pes, ts_fp, pat_num, frame_num, count,
                      last_psi_time, last_video_picture_ms, ts_cache, ts_cache_len,
                      packet, file, lost, torn, out, made, calls>>
      BY <2>5 DEF vars, pesVars, cacheVars
    <3>2. TypeOK' /\ FileWhole' /\ PacketsFull'
      BY <3>1 DEF Inv, TypeOK, FileWhole, PacketsFull
    <3>3. CountersContinue' /\ CounterInv' /\ PesReassembled'
      BY <3>1 DEF Inv, CountersContinue, CounterInv, PesReassembled, NextOfPid, LastOfPid
    <3>4. PesInv' /\ KeyframeEntry' /\ PsiInv'
      BY <3>1 DEF Inv, PesInv, KeyframeEntry, PsiInv, LastOfPid, Cut
    <3> QED
      BY <3>2, <3>3, <3>4 DEF Inv
  <2> QED
    BY <2>1, <2>2, <2>3, <2>4, <2>5 DEF Next
<1> QED
  BY <1>1, <1>2, PTL DEF Spec

(* Every variable keeps its type; in particular a packet is only ever put  *)
(* into one of the CacheLen places of ts_cache.                            *)
THEOREM Typing == Spec => []TypeOK
<1>1. Inv => TypeOK
  BY DEF Inv
<1> QED
  BY <1>1, InvHolds, PTL

(* The asserts of rtmp_tots_packet_ts_header hold; until a write fails     *)
(* file and cache together hold every packet made, in order and once, and  *)
(* until one is short the file holds whole groups.                         *)
THEOREM AlwaysFileWhole == Spec => []FileWhole
<1>1. Inv => FileWhole
  BY DEF Inv
<1> QED
  BY <1>1, InvHolds, PTL

(* Every audio or video packet is 188 bytes without a gap.                 *)
THEOREM AlwaysPacketsFull == Spec => []PacketsFull
<1>1. Inv => PacketsFull
  BY DEF Inv
<1> QED
  BY <1>1, InvHolds, PTL

(* The continuity counter of every PID counts every packet of that PID.    *)
THEOREM AlwaysCountersContinue == Spec => []CountersContinue
<1>1. Inv => CountersContinue
  BY DEF Inv
<1> QED
  BY <1>1, InvHolds, PTL

(* The packets of one PID, put together, are the PES of that PID.          *)
THEOREM AlwaysReassembled == Spec => []PesReassembled
<1>1. Inv => PesReassembled
  BY DEF Inv
<1> QED
  BY <1>1, InvHolds, PTL

(* PAT and PMT with one counter come right before every key frame.         *)
THEOREM AlwaysKeyframeEntry == Spec => []KeyframeEntry
<1>1. Inv => KeyframeEntry
  BY DEF Inv
<1> QED
  BY <1>1, InvHolds, PTL

-----------------------------------------------------------------------------
(* The file.  What happens to it is right for any number of lives, frames  *)
(* and packets in the cache.  The invariant adds to the muxer's types      *)
(* where the packets of the present life end in the file: behind position  *)
(* there are only those of earlier lives.                                  *)
Recorded == [life : Nat, packet : Packets]

RecordInv ==
  /\ TypeOK /\ FileWhole
  /\ life \in Nat /\ position \in Nat /\ disk \in Seq(Recorded)
  /\ LatestInFront
  /\ \A i \in (position + 1)..Len(disk) : disk[i].life < life
  /\ SeamsBetweenGroups

(* What is recorded, by index. *)
LEMMA RecordTyped ==
  ASSUME RecordInv
  PROVE  /\ Len(disk) \in Nat /\ Len(file) \in Nat /\ life \in Nat /\ position \in Nat
         /\ CacheLen \in Nat \ {0}
         /\ \A i \in 1..Len(disk) : disk[i] \in Recorded /\ disk[i].life \in Nat
         /\ \A i \in 1..Len(disk) : disk[i].life <= life
         /\ \A i \in 1..Len(file) : file[i] \in Packets
<1>1. /\ Len(disk) \in Nat /\ Len(file) \in Nat /\ life \in Nat /\ position \in Nat
      /\ CacheLen \in Nat \ {0}
      /\ \A i \in 1..Len(disk) : disk[i] \in Recorded
      /\ \A i \in 1..Len(file) : file[i] \in Packets
  BY TsAssumption DEF RecordInv, TypeOK
<1>2. \A i \in 1..Len(disk) : disk[i].life \in Nat
  BY <1>1 DEF Recorded
<1>3. ASSUME NEW i \in 1..Len(disk) PROVE disk[i].life <= life
  <2>1. CASE i <= position
    <3>1. i \in 1..position
      BY <1>1, <2>1
    <3>2. disk[i] = [life |-> life, packet |-> file[i]]
      BY <3>1 DEF RecordInv, LatestInFront
    <3> QED BY <1>1, <3>2
  <2>2. CASE i > position
    BY <1>1, <1>2, <2>2 DEF RecordInv
  <2> QED BY <1>1, <2>1, <2>2
<1> QED BY <1>1, <1>2, <1>3

-----------------------------------------------------------------------------
(* Something is written, a whole group or, if that is noted, fewer.        *)
Wrote(g) ==
  /\ file' = file \o g /\ Len(g) \in 1..CacheLen
  /\ ~torn' => Len(g) = CacheLen

(* A step of the muxer writes nothing, or at most one group.               *)
LEMMA PutWrites ==
  ASSUME TypeOK, NEW p, Put(p), ts_cache' \in [0..(CacheLen - 1) -> Packets]
  PROVE  /\ torn => torn'
         /\ file' = file \/ \E g \in Seq(Packets) : Wrote(g)
<1>1. CASE ~CacheFull
  BY <1>1 DEF Put
<1>2. CASE CacheFull
  <2>1. PICK n \in WriteLens : FileWrite(n)
    BY <1>2 DEF Put
  <2> DEFINE g == [i \in 1..n |-> ts_cache'[i - 1]]
  <2>2. n \in 0..CacheLen /\ n \in Nat /\ CacheLen \in Nat \ {0}
    BY TsAssumption
  <2>3. g \in Seq(Packets) /\ Len(g) = n
    <3>1. \A i \in 1..n : ts_cache'[i - 1] \in Packets
      BY <2>2
    <3> QED BY <2>2, <3>1
  <2>4. file' = file \o g
    BY <2>1 DEF FileWrite
  <2>5. torn => torn'
    BY <2>1, Zenon DEF FileWrite
  <2>6. ~torn' => n \notin 1..(CacheLen - 1)
    BY <2>1, Zenon DEF FileWrite
  <2> HIDE DEF g
  <2>7. CASE n = 0
    <3>1. g = <<>>
      BY <2>3, <2>7, EmptySeq
    <3>2. file \in Seq(Packets)
      BY DEF TypeOK
    <3>3. file' = file
      BY <2>4, <3>1, <3>2, ConcatEmptySeq
    <3> QED BY <2>5, <3>3, Zenon
  <2>8. CASE n # 0
    <3>1. n \in 1..CacheLen
      BY <2>2, <2>8
    <3>2. ~torn' => n = CacheLen
      BY <2>2, <2>6, <3>1
    <3> QED BY <2>3, <2>4, <2>5, <3>1, <3>2, Zenon DEF Wrote
  <2> QED BY <2>7, <2>8, Zenon
<1> QED BY <1>1, <1>2, Zenon

LEMMA NextWrites ==
  ASSUME TypeOK, FileWhole, Next
  PROVE  /\ TypeOK' /\ FileWhole'
         /\ torn => torn'
         /\ file' = file \/ \E g \in Seq(Packets) : Wrote(g)
<1>1. ASSUME NEW pack \in Packs, NEW now \in Clocks, Frame(pack, now)
      PROVE  TypeOK' /\ FileWhole' /\ file' = file /\ torn' = torn
  BY <1>1, FrameTyped DEF Frame
<1>2. CASE PutPat
  <2>1. TypeOK' /\ FileWhole' /\ ts_cache' \in [0..(CacheLen - 1) -> Packets]
    BY <1>2, PutPatTyped DEF TypeOK
  <2> QED BY <1>2, <2>1, PutWrites DEF PutPat
<1>3. CASE PutPmt
  <2>1. TypeOK' /\ FileWhole' /\ ts_cache' \in [0..(CacheLen - 1) -> Packets]
    BY <1>3, PutPmtTyped DEF TypeOK
  <2> QED BY <1>3, <2>1, PutWrites DEF PutPmt
<1>4. CASE PutTs
  <2>1. TypeOK' /\ FileWhole' /\ ts_cache' \in [0..(CacheLen - 1) -> Packets]
    BY <1>4, PutTsTyped DEF TypeOK
  <2> QED BY <1>4, <2>1, PutWrites DEF PutTs
<1> QED BY <1>1, <1>2, <1>3, <1>4 DEF Next

(* What was appended is what lies behind the old end.                      *)
LEMMA Appended ==
  ASSUME NEW s \in Seq(Packets), NEW t \in Seq(Packets)
  PROVE  /\ Len(s \o t) = Len(s) + Len(t)
         /\ \A i \in 1..Len(s) : (s \o t)[i] = s[i]
         /\ \A i \in (Len(s) + 1)..(Len(s) + Len(t)) : (s \o t)[i] = t[i - Len(s)]
         /\ SubSeq(s \o t, Len(s) + 1, Len(s \o t)) = t
<1>1. Len(s) \in Nat /\ Len(t) \in Nat
  OBVIOUS
<1>2. /\ Len(s \o t) = Len(s) + Len(t)
      /\ \A i \in 1..Len(s) : (s \o t)[i] = s[i]
      /\ \A i \in (Len(s) + 1)..(Len(s) + Len(t)) : (s \o t)[i] = t[i - Len(s)]
  OBVIOUS
<1> DEFINE u == SubSeq(s \o t, Len(s) + 1, Len(s \o t))
<1>3. \A i \in (Len(s) + 1)..Len(s \o t) : (s \o t)[i] \in Packets
  BY <1>1, <1>2
<1>4. /\ u \in Seq(Packets)
      /\ Len(u) = IF Len(s) + 1 <= Len(s \o t) THEN Len(s \o t) - (Len(s) + 1) + 1 ELSE 0
      /\ \A i \in 1..(Len(s \o t) - (Len(s) + 1) + 1) : u[i] = (s \o t)[(Len(s) + 1) + i - 1]
  BY <1>1, <1>2, <1>3, SubSeqProperties
<1> HIDE DEF u
<1>5. Len(u) = Len(t)
  BY <1>1, <1>2, <1>4
<1>6. \A i \in 1..Len(t) : u[i] = t[i]
  <2> SUFFICES ASSUME NEW i \in 1..Len(t) PROVE u[i] = t[i]
    OBVIOUS
  <2>0. /\ Len(s \o t) - (Len(s) + 1) + 1 = Len(t) /\ (Len(s) + 1) + i - 1 = Len(s) + i
    BY <1>1, <1>2
  <2>1. u[i] = (s \o t)[Len(s) + i]
    BY <1>4, <2>0
  <2>2. (s \o t)[Len(s) + i] = t[(Len(s) + i) - Len(s)]
    BY <1>1, <1>2
  <2> QED BY <1>1, <2>1, <2>2
<1>7. u = t
  BY <1>4, <1>5, <1>6
<1> QED BY <1>2, <1>7 DEF u

(* What is written goes to position.                                       *)
LEMMA WriteOK ==
  ASSUME RecordInv, TypeOK', FileWhole', life' = life,
         torn => torn', NEW g \in Seq(Packets), Wrote(g), Write(Group)
  PROVE  /\ RecordInv'
         /\ Len(disk') >= Len(disk)
         /\ \A i \in 1..Len(disk) : i \in (position + 1)..position' \/ disk'[i] = disk[i]
         /\ \A i \in (position + 1)..position' : disk'[i].life = life
<1>1. /\ position = Len(file) /\ position <= Len(disk) /\ Len(disk) \in Nat
      /\ position \in Nat /\ life \in Nat /\ CacheLen \in Nat \ {0}
      /\ file \in Seq(Packets) /\ disk \in Seq(Recorded)
  BY RecordTyped DEF RecordInv, LatestInFront, TypeOK
<1>2. /\ Group = g /\ file' = file \o g /\ Len(file') = Len(file) + Len(g)
      /\ Len(g) \in Nat /\ Len(g) > 0 /\ ~torn' => Len(g) = CacheLen
  BY <1>1, Appended DEF Group, Wrote
<1>3. position' = position + Len(g) /\ position' \in Nat /\ position' = Len(file')
  BY <1>1, <1>2 DEF Write
<1>0. \A k \in 1..Len(g) : g[k] \in Packets
  OBVIOUS
<1> DEFINE n == IF position' > Len(disk) THEN position' ELSE Len(disk)
<1>4. n \in Nat /\ n >= Len(disk) /\ n >= position' /\ (n = position' \/ n = Len(disk))
  BY <1>1, <1>3
<1>5. disk' = [i \in 1..n |-> IF i \in (position + 1)..position'
                                THEN [life |-> life, packet |-> g[i - position]] ELSE disk[i]]
  BY <1>2 DEF Write
<1> HIDE DEF n
<1>6. \A i \in (position + 1)..position' :
         /\ i \in 1..n /\ i - position \in 1..Len(g)
         /\ disk'[i] = [life |-> life, packet |-> g[i - position]] /\ disk'[i].life = life
  BY <1>1, <1>2, <1>3, <1>4, <1>5
<1>7. \A i \in 1..n : i \in (position + 1)..position' \/ (i \in 1..Len(disk) /\ disk'[i] = disk[i])
  BY <1>1, <1>2, <1>3, <1>4, <1>5
<1>8. disk' \in Seq(Recorded) /\ Len(disk') = n
  <2>1. ASSUME NEW i \in 1..n PROVE disk'[i] \in Recorded
    <3>1. CASE i \in (position + 1)..position'
      <4>1. g[i - position] \in Packets
        BY <1>0, <1>6, <3>1
      <4>2. disk'[i] = [life |-> life, packet |-> g[i - position]]
        BY <1>6, <3>1
      <4> QED BY <1>1, <4>1, <4>2 DEF Recorded
    <3>2. CASE ~(i \in (position + 1)..position')
      <4>1. i \in 1..Len(disk) /\ disk'[i] = disk[i]
        BY <1>7, <3>2
      <4> QED BY <4>1, RecordTyped
    <3> QED BY <3>1, <3>2
  <2> QED BY <1>4, <1>5, <2>1
<1>9. LatestInFront'
  <2>1. ASSUME NEW i \in 1..position' PROVE disk'[i] = [life |-> life, packet |-> file'[i]]
    <3>1. CASE i <= position
      <4>1. file'[i] = file[i] /\ disk'[i] = disk[i]
        <5>1. i \in 1..n /\ i \in 1..Len(file) /\ ~(i \in (position + 1)..position')
          BY <1>1, <1>3, <1>4, <3>1
        <5> QED BY <1>1, <1>2, <1>7, <5>1, Appended
      <4> QED BY <1>1, <3>1, <4>1 DEF RecordInv, LatestInFront
    <3>2. CASE i > position
      <4>1. file'[i] = g[i - position]
        <5>1. i \in (Len(file) + 1)..(Len(file) + Len(g))
          BY <1>1, <1>2, <1>3, <3>2
        <5> QED BY <1>1, <1>2, <5>1, Appended
      <4> QED BY <1>1, <1>3, <1>6, <3>2, <4>1
    <3> QED BY <1>1, <1>3, <3>1, <3>2
  <2> QED BY <1>3, <1>4, <1>8, <2>1 DEF LatestInFront
<1>10. ASSUME NEW i \in (position' + 1)..Len(disk') PROVE disk'[i].life < life'
  <2>1. i \in 1..n /\ ~(i \in (position + 1)..position')
    BY <1>1, <1>3, <1>8
  <2>2. i \in (position + 1)..Len(disk) /\ disk'[i] = disk[i]
    BY <1>1, <1>3, <1>7, <2>1
  <2> QED BY <2>2 DEF RecordInv
<1>14. \A k \in 1..position' : disk'[k].life = life
  <2> SUFFICES ASSUME NEW k \in 1..position' PROVE disk'[k].life = life
    OBVIOUS
  <2>1. disk'[k] = [life |-> life', packet |-> file'[k]]
    BY <1>9 DEF LatestInFront
  <2> QED BY <2>1
<1>11. SeamsBetweenGroups'
  <2>1. ~torn' => Len(disk') % CacheLen = 0
    BY <1>3, <1>4, <1>8 DEF FileWhole, RecordInv, SeamsBetweenGroups
  <2>2. ASSUME NEW i \in 1..(Len(disk') - 1)
        PROVE  \/ disk'[i].life = disk'[i + 1].life
               \/ disk'[i].life > disk'[i + 1].life /\ (~torn' => i % CacheLen = 0)
    <3>1. CASE i < position'
      <4>1. disk'[i].life = life /\ disk'[i + 1].life = life
        <5>1. i \in 1..position' /\ i + 1 \in 1..position'
          BY <1>3, <1>4, <1>8, <3>1
        <5>2. \A k \in 1..position' : disk'[k].life = life
          BY <1>14
        <5> QED BY <5>1, <5>2
      <4> QED BY <4>1
    <3>2. CASE i = position'
      <4>1. i \in 1..position' /\ i + 1 \in (position' + 1)..Len(disk')
        BY <1>3, <1>4, <1>8, <3>2
      <4>2. disk'[i].life = life
        BY <1>14, <4>1
      <4>3. disk'[i + 1].life < life /\ disk'[i + 1].life \in Nat
        <5>1. i + 1 \in 1..n
          BY <1>3, <1>8, <4>1
        <5>2. disk'[i + 1] \in Recorded
          BY <1>8, <5>1
        <5> QED BY <1>10, <4>1, <5>2 DEF Recorded
      <4>4. ~torn' => i % CacheLen = 0
        BY <1>3, <3>2 DEF FileWhole
      <4> QED BY <1>1, <4>2, <4>3, <4>4
    <3>3. CASE i > position'
      <4>1. /\ i \in 1..(Len(disk) - 1) /\ disk'[i] = disk[i] /\ disk'[i + 1] = disk[i + 1]
        BY <1>1, <1>2, <1>3, <1>4, <1>7, <1>8, <3>3
      <4> QED BY <4>1 DEF RecordInv, SeamsBetweenGroups
    <3> QED BY <1>3, <1>4, <1>8, <3>1, <3>2, <3>3
  <2> QED BY <2>1, <2>2 DEF SeamsBetweenGroups
<1>12. RecordInv'
  BY <1>1, <1>3, <1>8, <1>9, <1>10, <1>11 DEF RecordInv
<1>13. \A i \in 1..Len(disk) : i \in (position + 1)..position' \/ disk'[i] = disk[i]
  <2>1. 1..Len(disk) \subseteq 1..n
    <3>1. Len(disk) \in Nat
      BY <1>1
    <3> QED BY <1>4, <3>1
  <2> QED BY <1>7, <2>1
<1> QED BY <1>4, <1>6, <1>8, <1>12, <1>13

LEMMA RecordOK ==
  ASSUME RecordInv, Record
  PROVE  /\ RecordInv'
         /\ Len(disk') >= Len(disk)
         /\ \A i \in 1..Len(disk) :
              disk'[i] # disk[i] => disk[i].life < life' /\ disk'[i].life = life'
<1>1. /\ TypeOK' /\ FileWhole' /\ life' = life /\ (torn => torn')
      /\ file' = file \/ \E g \in Seq(Packets) : Wrote(g)
  BY NextWrites DEF RecordInv, Record
<1>2. CASE file' = file
  <2>1. disk' = disk /\ position' = position
    BY <1>2 DEF Record
  <2>2. LatestInFront' /\ SeamsBetweenGroups'
    BY <1>1, <1>2, <2>1 DEF RecordInv, LatestInFront, SeamsBetweenGroups
  <2> QED BY <1>1, <2>1, <2>2, RecordTyped DEF RecordInv
<1>3. CASE file' # file
  <2>1. PICK g \in Seq(Packets) : Wrote(g)
    BY <1>1, <1>3
  <2>2. Write(Group)
    BY <1>3 DEF Record
  <2>3. /\ RecordInv' /\ Len(disk') >= Len(disk)
        /\ \A i \in 1..Len(disk) : i \in (position + 1)..position' \/ disk'[i] = disk[i]
        /\ \A i \in (position + 1)..position' : disk'[i].life = life
    BY <1>1, <2>1, <2>2, WriteOK
  <2>4. ASSUME NEW i \in 1..Len(disk), disk'[i] # disk[i]
        PROVE  disk[i].life < life' /\ disk'[i].life = life'
    <3>1. i \in (position + 1)..position'
      BY <2>3, <2>4
    <3>2. i \in (position + 1)..Len(disk)
      BY <2>4, <3>1, RecordTyped DEF RecordInv
    <3> QED BY <1>1, <2>3, <3>1, <3>2 DEF RecordInv
  <2> QED BY <2>3, <2>4
<1> QED BY <1>2, <1>3

LEMMA RestartTyped == ASSUME TypeOK, Restart PROVE TypeOK' /\ FileWhole'
<1>1. /\ out' = <<>> /\ file' = <<>> /\ made' = <<>> /\ step' = "idle"
      /\ ts_cache_len' = 0 /\ packet' = 0
  BY DEF Restart
<1>2. TypeOK'
  <2>1. NoPacket \in Packets /\ NoPes \in Pes
    BY TsAssumption DEF NoPacket, NoPes, Packets, Pes, Pids
  <2>2. ts_cache' \in [0..(CacheLen - 1) -> Packets] /\ pes' \in Pes
    BY <2>1 DEF Restart
  <2>3. count' \in [MediaPids -> 0..(CounterMod - 1)] /\ last_psi_time' \in Nat
    BY TsAssumption DEF Restart
  <2>4. file' \in Seq(Packets) /\ out' \in Seq(Packets) /\ made' \in Seq(Pes)
    BY <1>1
  <2>5. /\ i_size' \in Nat /\ new_pes' \in BOOLEAN /\ ts_fp' \in BOOLEAN /\ lost' \in BOOLEAN
        /\ frame_num' \in Nat /\ last_video_picture_ms' \in Nat
    BY DEF Restart
  <2>6. calls' \in Nat /\ torn' \in BOOLEAN
    BY DEF Restart, TypeOK
  <2>7. pat_num' \in 0..(CounterMod - 1)
    BY TsAssumption DEF Restart
  <2>8. ts_cache_len' \in 0..(CacheLen - 1) /\ packet' \in 0..(CacheLen - 1)
    BY <1>1, TsAssumption
  <2> QED
    BY <1>1, <2>2, <2>3, <2>4, <2>5, <2>6, <2>7, <2>8 DEF TypeOK
<1>3. FileWhole'
  <2> DEFINE none == [i \in 1..ts_cache_len' |-> ts_cache'[i - 1]]
  <2>1. none \in Seq(Packets) /\ Len(none) = 0
    BY <1>1
  <2>2. file' \o none = out'
    <3> HIDE DEF none
    <3> QED BY <1>1, <2>1, EmptySeq, ConcatEmptySeq
  <2>3. Len(file') % CacheLen = 0
    BY <1>1, TsAssumption
  <2> QED BY <1>1, <2>2, <2>3 DEF FileWhole
<1> QED BY <1>2, <1>3

LEMMA RestartOK == ASSUME RecordInv, Restart PROVE RecordInv' /\ disk' = disk /\ life' > life
<1>1. TypeOK' /\ FileWhole'
  BY RestartTyped DEF RecordInv
<1>3. disk' = disk /\ position' = 0 /\ life' = life + 1 /\ file' = <<>>
  BY DEF Restart, OpenedDisk, OpenedAt
<1>4. life' \in Nat /\ disk' \in Seq(Recorded) /\ Len(disk) \in Nat
  BY <1>3, RecordTyped DEF RecordInv
<1>5. LatestInFront'
  BY <1>3, <1>4 DEF LatestInFront
<1>6. \A i \in (position' + 1)..Len(disk') : disk'[i].life < life'
  BY <1>3, RecordTyped
<1>7. SeamsBetweenGroups'
  <2>1. disk' = disk /\ torn' = torn
    BY DEF Restart, OpenedDisk
  <2> QED BY <2>1 DEF RecordInv, SeamsBetweenGroups
<1> QED BY <1>1, <1>3, <1>4, <1>5, <1>6, <1>7, RecordTyped DEF RecordInv

LEMMA RecordInitOK == ASSUME RecordInit PROVE RecordInv
<1>1. TypeOK /\ FileWhole /\ file = <<>> /\ CacheLen \in Nat \ {0}
  BY InitOK, TsAssumption DEF RecordInit, Inv, Init
<1>2. disk = <<>> /\ Len(disk) = 0 /\ position = 0 /\ life = 1
  BY DEF RecordInit
<1>3. LatestInFront /\ SeamsBetweenGroups
  BY <1>1, <1>2 DEF LatestInFront, SeamsBetweenGroups
<1> QED BY <1>1, <1>2, <1>3 DEF RecordInv

LEMMA RecordStutters == ASSUME RecordInv, UNCHANGED recordVars PROVE RecordInv'
<1>1. TypeOK' /\ FileWhole'
  BY DEF RecordInv, recordVars, vars, pesVars, cacheVars, TypeOK, FileWhole
<1> QED
  BY <1>1 DEF RecordInv, recordVars, vars, cacheVars, LatestInFront, SeamsBetweenGroups

(* The invariant holds in every life: what the muxer promises of one life  *)
(* holds again after every restart.                                        *)
THEOREM RecordInvHolds == RecordSpec => []RecordInv
<1>1. RecordInv /\ [RecordNext]_recordVars => RecordInv'
  BY RecordOK, RestartOK, RecordStutters DEF RecordNext
<1> QED BY RecordInitOK, <1>1, PTL DEF RecordSpec

(* However often the program is killed and started again, what its present *)
(* life has written is the front of the file.                              *)
THEOREM AlwaysLatestInFront == RecordSpec => []LatestInFront
<1>1. RecordInv => LatestInFront
  BY DEF RecordInv
<1> QED BY <1>1, RecordInvHolds, PTL

(* Recordings meet newer ones first and, until a write is short, only      *)
(* between whole groups of packets.                                        *)
THEOREM AlwaysSeams == RecordSpec => []SeamsBetweenGroups
<1>1. RecordInv => SeamsBetweenGroups
  BY DEF RecordInv
<1> QED BY <1>1, RecordInvHolds, PTL

(* No packet of an earlier life is lost but to one of the present life.    *)
THEOREM AlwaysOldTailKept == RecordSpec => OldTailKept
<1> DEFINE Kept ==
      /\ Len(disk') >= Len(disk)
      /\ \A i \in 1..Len(disk) :
           disk'[i] # disk[i] => disk[i].life < life' /\ disk'[i].life = life'
<1>1. RecordInv /\ [RecordNext]_recordVars => [Kept]_recordVars
  <2> SUFFICES ASSUME RecordInv, RecordNext PROVE Kept
    OBVIOUS
  <2>1. CASE Record
    BY <2>1, RecordOK
  <2>2. CASE Restart
    BY <2>2, RestartOK, RecordTyped
  <2> QED BY <2>1, <2>2 DEF RecordNext
<1> QED BY <1>1, RecordInvHolds, PTL DEF RecordSpec, OldTailKept
=============================================================================
