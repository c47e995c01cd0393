------------------------------ MODULE TsRecord ------------------------------
(***************************************************************************)
(* rtmp_live1.ts over several lives of the program, which never ends of    *)
(* itself: it is killed at any point and started again, and the muxer      *)
(* begins anew.  file_open opens the file that is there and neither        *)
(* empties it nor goes to its end.  TsMux's file is what the present life  *)
(* has written; disk is the file itself.                                   *)
(***************************************************************************)
EXTENDS TsMux

CONSTANT MaxLives

ASSUME LivesAssumption == MaxLives \in Nat

VARIABLES
  disk,                   (* the packets in the file, with their life each *)
  position,               (* where ts_fp stands, in packets                *)
  life

recordVars == <<vars, disk, position, life>>

(* Mutant of OpenedDisk: CREATE_ALWAYS. *)
OpenedEmpty == <<>>

(* What is in the file once it is open. *)
OpenedDisk == disk

(* Mutant of OpenedAt: behind what is there. *)
OpenedAtEnd == Len(disk)

OpenedAt == 0

RecordInit == Init /\ disk = <<>> /\ position = 0 /\ life = 1

(* Mutant of Group: a packet is left behind in the cache. *)
GroupShort == SubSeq(file', Len(file) + 1, Len(file') - 1)

(* The packets file_write gets. *)
Group == SubSeq(file', Len(file) + 1, Len(file'))

(* file_write: what is there is overwritten, and the file grows at its end. *)
Write(group) ==
  /\ position' = position + Len(group)
  /\ disk' = [i \in 1..(IF position' > Len(disk) THEN position' ELSE Len(disk)) |->
                IF i \in (position + 1)..position'
                  THEN [life |-> life, packet |-> group[i - position]] ELSE disk[i]]

Record ==
  /\ Next
  /\ IF file' = file THEN UNCHANGED <<disk, position>> ELSE Write(Group)
  /\ UNCHANGED life

(* Killed, and started again.  MaxFrames bounds the frames of all lives.   *)
Restart ==
  /\ life < MaxLives /\ life' = life + 1
  /\ step' = "idle" /\ pes' = NoPes /\ i_size' = 0 /\ new_pes' = FALSE
  /\ ts_fp' \in BOOLEAN
  /\ pat_num' = 0 /\ frame_num' = 0 /\ count' = [pid \in MediaPids |-> 0]
  /\ last_psi_time' \in Clocks /\ last_video_picture_ms' = 0
  /\ ts_cache' = [i \in 0..(CacheLen - 1) |-> NoPacket]
  /\ ts_cache_len' = 0 /\ packet' = 0
  /\ file' = <<>> /\ lost' = FALSE /\ out' = <<>> /\ made' = <<>>
  /\ UNCHANGED <<calls, torn>>
  /\ IF ts_fp' THEN disk' = OpenedDisk /\ position' = OpenedAt
               ELSE UNCHANGED disk /\ position' = 0

RecordNext == Record \/ Restart

RecordSpec == RecordInit /\ [][RecordNext]_recordVars

-----------------------------------------------------------------------------
(* What the present life has written is the front of the file, from its    *)
(* first packet, whatever earlier lives left there.                        *)
LatestInFront ==
  /\ position = Len(file) /\ position <= Len(disk)
  /\ \A i \in 1..position : disk[i] = [life |-> life, packet |-> file[i]]

(* Behind the packets of one life come only those of an earlier one, and   *)
(* recordings meet between groups of CacheLen packets, as long as no life  *)
(* had a short write: one that was killed leaves no half of a group.       *)
SeamsBetweenGroups ==
  /\ ~torn => Len(disk) % CacheLen = 0
  /\ \A i \in 1..(Len(disk) - 1) :
       \/ disk[i].life = disk[i + 1].life
       \/ disk[i].life > disk[i + 1].life /\ (~torn => i % CacheLen = 0)

(* A recording is only ever lost to the packets of a later one: until the  *)
(* present life has written as much, the rest of the earlier one stays     *)
(* where it is.                                                            *)
OldTailKept ==
  [][/\ Len(disk') >= Len(disk)
     /\ \A i \in 1..Len(disk) :
          disk'[i] # disk[i] => disk[i].life < life' /\ disk'[i].life = life']_recordVars
=============================================================================
