----------------------------- MODULE SplitPack -----------------------------
(***************************************************************************)
(* rtmp_amf0_splite_pack: a message in a buffer is split into chunks where *)
(* it lies.  The pages of 128 bytes move up, the last one first, page k by *)
(* k bytes, and the byte in front of each becomes a chunk header.          *)
(***************************************************************************)
EXTENDS Integers

CONSTANTS
  BufLen,        (* bytes of pag_buf, 5120 in the code                     *)
  Byte,          (* values of a byte                                       *)
  ct             (* the header of the chunks after the first               *)

ASSUME SplitAssumption == BufLen \in Nat /\ ct \in Byte

VARIABLES
  pag_buf,
  header_len, pag_len,
  page,                   (* the page to be moved next, 0: none is left    *)
  pushed                  (* history: pag_buf before the split             *)

splitVars == <<pag_buf, header_len, pag_len, page, pushed>>

chunk_max_size == 128

page_count == (pag_len - header_len - 1) \div chunk_max_size

(* Whole pages are moved, so there has to be room for one behind the last. *)
Room(header, len) ==
  header + ((len - header - 1) \div chunk_max_size + 1) * (chunk_max_size + 1) <= BufLen

(* The call: buf holds a message of len bytes, header_len of them header.  *)
Split(buf, header, len) ==
  /\ pag_buf' = buf /\ pushed' = buf
  /\ header_len' = header /\ pag_len' = len
  /\ page' = page_count'

(* Mutant of PageAfter: a page too few is moved. *)
PageAfterSkip == IF page = 2 THEN 0 ELSE page - 1

PageAfter == page - 1

MovePage ==
  LET src == header_len + page * chunk_max_size
      dst == header_len + page * (chunk_max_size + 1)
  IN  /\ page > 0
      /\ pag_buf' = [j \in 0..(BufLen - 1) |->
                       IF j \in dst..(dst + chunk_max_size - 1) THEN pag_buf[src + (j - dst)]
                       ELSE IF j = dst - 1 THEN ct ELSE pag_buf[j]]
      /\ page' = PageAfter
      /\ UNCHANGED <<header_len, pag_len, pushed>>

(* What it returns. *)
SplitLen == pag_len + page_count

(* For the theorems: any message, split once. *)
Init ==
  /\ pag_buf \in [0..(BufLen - 1) -> Byte] /\ pushed = pag_buf
  /\ header_len \in Nat /\ pag_len \in Nat /\ pag_len > header_len
  /\ Room(header_len, pag_len)
  /\ page = page_count

Spec == Init /\ [][MovePage]_splitVars

-----------------------------------------------------------------------------
(* After the split each byte of the message lies behind as many chunk      *)
(* headers as there are whole pages in front of it, and every page but the *)
(* first has its header: nothing was overwritten before it was moved.      *)
SplitRight ==
  page = 0 =>
    /\ \A j \in 0..(header_len - 1) : pag_buf[j] = pushed[j]
    /\ \A j \in 0..(pag_len - header_len - 1) :
         pag_buf[header_len + j + j \div chunk_max_size] = pushed[header_len + j]
    /\ \A k \in 1..page_count : pag_buf[header_len + k * (chunk_max_size + 1) - 1] = ct
=============================================================================
