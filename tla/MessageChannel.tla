--------------------------- MODULE MessageChannel ---------------------------
(***************************************************************************)
(* What the receiving side of rtmp_client promises the code that handles   *)
(* messages: they arrive whole, unchanged, once, and in the order in which *)
(* the server finished writing them, whatever TCP did with the bytes and   *)
(* however the chunks of different messages were interleaved.              *)
(***************************************************************************)
EXTENDS Naturals, Sequences

CONSTANT Message   \* the messages that can be sent

VARIABLES
  sent,   \* the messages the server finished, in order
  got     \* the ones rtmp_process_message was called with

vars == <<sent, got>>

Init == sent = <<>> /\ got = <<>>

Send ==
  LET last == Len(sent) + 1
  IN  /\ Len(sent') = last
      /\ sent' = Append(sent, sent'[last]) /\ sent'[last] \in Message
      /\ UNCHANGED got

Deliver ==
  /\ Len(got) < Len(sent)
  /\ got' = Append(got, sent[Len(got) + 1])
  /\ UNCHANGED sent

Next == Send \/ Deliver

Spec == Init /\ [][Next]_vars
=============================================================================
