------------------------------- MODULE TsTime -------------------------------
(***************************************************************************)
(* The 33 bits of a time stamp in a transport stream: the five bytes of a  *)
(* PTS or DTS (rtmp_tots_packet_pes_set_time and the audio PES header) and *)
(* the six of a clock reference.  A shift to the right by n is a division  *)
(* by 2^n, & 0xff the remainder by 256, and | 1 sets the marker bit.       *)
(***************************************************************************)
EXTENDS Integers

CONSTANT P       (* 2^7: PTS bytes hold 8 and 7 bits in turn               *)

ASSUME PAssumption == P \in Nat /\ P > 1

P2 == P * P
P3 == P * P2
P4 == P * P3

TimeRange == 32 * P4

(* Mutant of TimeBytes: the third byte is shifted one bit too far. *)
TimeBytesShifted(prefix, t) ==
  <<prefix * 16 + 2 * ((t \div (4 * P4)) % 8) + 1,
    (t \div (2 * P3)) % (2 * P),
    2 * ((t \div (4 * P2)) % P) + 1,
    (t \div P) % (2 * P),
    2 * (t % P) + 1>>

(* A time behind four bits of prefix: 3 for the PTS of video, 1 for its    *)
(* DTS, 2 for the PTS of audio.                                            *)
TimeBytes(prefix, t) ==
  <<prefix * 16 + 2 * ((t \div (4 * P4)) % 8) + 1,
    (t \div (2 * P3)) % (2 * P),
    2 * ((t \div (2 * P2)) % P) + 1,
    (t \div P) % (2 * P),
    2 * (t % P) + 1>>

(* The base of a clock reference, and the reserved bits; its extension,    *)
(* pts * 300 % 300, is always 0.                                           *)
ClockBytes(t) ==
  <<(t \div (16 * P3)) % (2 * P), (t \div (8 * P2)) % (2 * P), (t \div (4 * P)) % (2 * P),
    (t \div 2) % (2 * P), P * (t % 2) + P - 2, 0>>

(* What a player finds in them. *)
TimeRead(b) ==
  ((b[1] \div 2) % 8) * (4 * P4) + b[2] * (2 * P3) + (b[3] \div 2) * (2 * P2) + b[4] * P
    + b[5] \div 2

ClockRead(b) ==
  b[1] * (16 * P3) + b[2] * (8 * P2) + b[3] * (4 * P) + b[4] * 2 + b[5] \div P
=============================================================================
