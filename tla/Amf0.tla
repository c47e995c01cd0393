-------------------------------- MODULE Amf0 --------------------------------
(***************************************************************************)
(* rtmp_amf0: values put into a buffer and taken out of a message.  Bytes  *)
(* are numbers; those of texts and of doubles stand for themselves, so     *)
(* that each byte can be told from every other (Text, Double).             *)
(***************************************************************************)
EXTENDS Integers, Sequences

(* The n characters of text k. *)
Text(k, n) == [i \in 1..n |-> 1000 * k + i]

(* The eight bytes of the double v as the host keeps them, and back.       *)
Double(v) == [i \in 1..8 |-> 100000 + 10 * v + i]
DoubleOf(bytes) == (bytes[1] - 100001) \div 10

(* SWAP_2BYTE, SWAP_8BYTE: the network wants the first byte last.          *)
Length2(n) == <<n \div 256, n % 256>>
SwapBytes(s) == [i \in 1..Len(s) |-> s[Len(s) + 1 - i]]

-----------------------------------------------------------------------------
String(s)   == <<2>> \o Length2(Len(s)) \o s
Number(v)   == <<0>> \o SwapBytes(Double(v))
Bool(b)     == <<1, IF b THEN 1 ELSE 0>>
Null        == <<5>>
ObjectBegin == <<3>>
PropName(s) == Length2(Len(s)) \o s
ObjectEnd   == <<0, 0, 9>>

(* What a push makes of the bytes that are there: it looks for room first. *)
(* Where there is none it returns -1, which the callers add to data_ptr    *)
(* like any other result.                                                  *)
Push(size, item) ==
  [buf \in Seq(Nat) |->
     IF Len(item) <= size - Len(buf) THEN buf \o item ELSE SubSeq(buf, 1, Len(buf) - 1)]

(* The items pushed one after the other into a buffer of size bytes.       *)
PushAll(size, items) ==
  LET after[i \in 0..Len(items)] ==
        IF i = 0 THEN <<>> ELSE Push(size, items[i])[after[i - 1]]
  IN  after[Len(items)]

-----------------------------------------------------------------------------
Failed == [ret |-> -1, val |-> <<>>]

(* Mutant of PopString: a string must not be the last value. *)
PopStringFollowed(src, dst_size) ==
  IF Len(src) < 3 \/ src[1] # 2 THEN Failed
  ELSE LET n == src[2] * 256 + src[3]
       IN  IF n + 3 >= Len(src) \/ n > dst_size - 2 THEN Failed
           ELSE [ret |-> n + 3, val |-> SubSeq(src, 4, n + 3)]

PopString(src, dst_size) ==
  IF Len(src) < 3 \/ src[1] # 2 THEN Failed
  ELSE LET n == src[2] * 256 + src[3]
       IN  IF n + 3 > Len(src) \/ n > dst_size - 1 THEN Failed
           ELSE [ret |-> n + 3, val |-> SubSeq(src, 4, n + 3)]

PopNumber(src) ==
  IF Len(src) < 9 \/ src[1] # 0 THEN Failed
  ELSE [ret |-> 9, val |-> SwapBytes(SubSeq(src, 2, 9))]

PopNull(src) == IF Len(src) < 1 \/ src[1] # 5 THEN Failed ELSE [ret |-> 1, val |-> <<>>]

(* The message behind what was popped. *)
Rest(src, ret) == SubSeq(src, ret + 1, Len(src))
=============================================================================
