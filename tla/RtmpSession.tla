---------------------------- MODULE RtmpSession ----------------------------
(***************************************************************************)
(* The dialogue of rtmp_client with the server, message by message:        *)
(* handshake, connect, createStream, play.  RtmpRecv shows that the        *)
(* messages arrive once and in order; here they are items of a sequence,   *)
(* and each end has read a prefix of what the other has sent.  The client  *)
(* moves on by rtmp_status alone: it sends its next commands when a        *)
(* "_result" arrives.  The server is external: it answers requests, maybe  *)
(* late, maybe not at all, and sends messages of its own.                  *)
(***************************************************************************)
EXTENDS Integers, Sequences

CONSTANTS
  StreamIds,     (* message stream ids the server may give a stream        *)
  ByteValues,    (* values of a char: 256                                  *)
  Windows,       (* window sizes the server may announce                   *)
  Uninit,        (* values acknowledgement_size may hold at first          *)
  InOrder,       (* whether the server answers requests as they came       *)
  Refusals,      (* transactions it may refuse or leave unanswered         *)
  MaxOther       (* how many messages it sends of its own                  *)

ASSUME SessionAssumption ==
  /\ StreamIds \subseteq Nat \ {0} /\ ByteValues \in Nat \ {0}
  /\ Windows \subseteq Nat /\ Uninit \subseteq Nat /\ Uninit # {}
  /\ InOrder \in BOOLEAN /\ Refusals \subseteq 1..4 /\ MaxOther \in Nat

VARIABLES
  pc,                     (* "start", "recv" in the thread's loop, "done"  *)
  rtmp_status,
  rtmp_now_stream_id,
  acknowledgement_size,
  sent,                   (* what the client put on the wire               *)
  taken,                  (* how many of the replies it has taken in       *)
  lostSend,               (* history: a Send failed                        *)
  read,                   (* how much of sent the server has read          *)
  replies,                (* what the server put on the wire               *)
  requests,               (* transactions it has not answered              *)
  refused,                (* history: transactions it will not answer      *)
  created,                (* history: the id it gave the stream, 0 before  *)
  others                  (* how many messages of its own it has sent      *)

clientVars == <<pc, rtmp_status, rtmp_now_stream_id, acknowledgement_size, sent, taken, lostSend>>
serverVars == <<read, replies, requests, refused, created, others>>
vars       == <<clientVars, serverVars>>

Statuses == {"init", "send_c0c1", "wait_s0s1", "send_c2", "wait_s2", "wait_connect",
             "wait_create_stream", "wait_play"}

(* A message of either side: trans is the transaction id of a command or   *)
(* 0, arg the number it carries, NoNumber if there is none.                *)
NoNumber == -1
Msg(kind, trans, arg) == [kind |-> kind, trans |-> trans, arg |-> arg]
Plain(kind) == Msg(kind, 0, NoNumber)

Init ==
  /\ pc = "start" /\ rtmp_status = "init"
  /\ rtmp_now_stream_id = 0 /\ acknowledgement_size \in Uninit
  /\ sent = <<>> /\ taken = 0 /\ lostSend = FALSE
  /\ read = 0 /\ replies = <<>> /\ requests = <<>> /\ refused = {}
  /\ created = 0 /\ others = 0

-----------------------------------------------------------------------------
(* Sends, one entry each: a sequence of messages that one call of Send     *)
(* puts on the wire, or does not; ok says which calls succeed.             *)
Send3(a, b, c, ok) ==
  /\ sent' = sent \o (IF 1 \in ok THEN a ELSE <<>>) \o (IF 2 \in ok THEN b ELSE <<>>)
                  \o (IF 3 \in ok THEN c ELSE <<>>)
  /\ lostSend' = (lostSend \/ ok # 1..3)

SendOne(a, ok) ==
  /\ sent' = IF ok THEN sent \o a ELSE sent
  /\ lostSend' = (lostSend \/ ~ok)

(* rtmp_start_play: without a connection there is no thread; a C0 C1 that  *)
(* could not be sent leaves the status behind, but not the thread.  That   *)
(* CreateThread may fail is not noticed either.                            *)
StartPlay ==
  /\ pc = "start"
  /\ \/ pc' = "done" /\ UNCHANGED <<rtmp_status, sent, lostSend>>
     \/ \E ok \in BOOLEAN :
          /\ SendOne(<<Plain("c0c1")>>, ok)
          /\ rtmp_status' = IF ok THEN "wait_s0s1" ELSE "send_c0c1"
          /\ pc' \in {"recv", "done"}
  /\ UNCHANGED <<rtmp_now_stream_id, acknowledgement_size, taken, serverVars>>

Arrived == pc = "recv" /\ taken < Len(replies)
Reply == replies[taken + 1]

HandleS0S1 ==
  /\ Arrived /\ rtmp_status = "wait_s0s1" /\ Reply.kind = "s0s1"
  /\ taken' = taken + 1
  /\ \E ok \in BOOLEAN :
       /\ SendOne(<<Plain("c2")>>, ok)
       /\ rtmp_status' = IF ok THEN "wait_s2" ELSE "send_c2"
       /\ pc' = IF ok THEN pc ELSE "done"
  /\ UNCHANGED <<rtmp_now_stream_id, acknowledgement_size, serverVars>>

HandleS2 ==
  /\ Arrived /\ rtmp_status = "wait_s2" /\ Reply.kind = "s2"
  /\ taken' = taken + 1
  /\ \E ok \in BOOLEAN :
       /\ SendOne(<<Msg("connect", 1, NoNumber)>>, ok)
       /\ rtmp_status' = IF ok THEN "wait_connect" ELSE rtmp_status
       /\ pc' = IF ok THEN pc ELSE "done"
  /\ UNCHANGED <<rtmp_now_stream_id, acknowledgement_size, serverVars>>

(* rtmp_process_message is reached once the status is above wait_chunk.    *)
Processing == Arrived /\ rtmp_status \in {"wait_connect", "wait_create_stream", "wait_play"}

(* Mutant of WindowAfter: only the first announcement counts. *)
FirstWindow(m) == IF \E i \in 1..taken : replies[i].kind = "window" THEN acknowledgement_size ELSE m.arg

WindowAfter(m) == m.arg

(* Window Acknowledgement Size.                                            *)
HandleWindow ==
  /\ Processing /\ Reply.kind = "window"
  /\ taken' = taken + 1
  /\ acknowledgement_size' = WindowAfter(Reply)
  /\ UNCHANGED <<pc, rtmp_status, rtmp_now_stream_id, sent, lostSend, serverVars>>

(* Mutant of IsResult: the name of the command is not looked at. *)
IsCommand(m) == m.kind \in {"_result", "_error", "other"}

(* Mutant of IsResult: only the answer to connect is one. *)
IsFirstResult(m) == m.kind = "_result" /\ m.trans = 1

IsResult(m) == m.kind = "_result"

(* Messages that change nothing here: other commands, user control, peer   *)
(* bandwidth, data, and a _result once the status is wait_play.  Audio and *)
(* video handlers may end the thread.                                      *)
HandleOther ==
  /\ Processing
  /\ \/ ~IsResult(Reply) /\ Reply.kind # "window"
     \/ IsResult(Reply) /\ rtmp_status = "wait_play"
  /\ taken' = taken + 1
  /\ \/ UNCHANGED pc
     \/ Reply.kind = "media" /\ pc' = "done"
  /\ UNCHANGED <<rtmp_status, rtmp_now_stream_id, acknowledgement_size, sent, lostSend, serverVars>>

(* Mutant of AfterConnect: the status stays behind. *)
StillConnecting == "wait_connect"

AfterConnect == "wait_create_stream"

(* rtmp_process_cmd_0x14_connect_result: three messages in one Send, whose *)
(* result is not looked at.                                                *)
HandleConnectResult ==
  /\ Processing /\ rtmp_status = "wait_connect" /\ IsResult(Reply)
  /\ taken' = taken + 1
  /\ \E ok \in BOOLEAN :
       SendOne(<<Msg("win_ack", 0, acknowledgement_size), Msg("createStream", 2, NoNumber),
                 Msg("_checkbw", 3, NoNumber)>>, ok)
  /\ rtmp_status' = AfterConnect
  /\ UNCHANGED <<pc, rtmp_now_stream_id, acknowledgement_size, serverVars>>

(* Mutant of StreamByte: as Set_buffer_length has it. *)
StreamOne(id) == 1

(* The one byte of the header that play writes its stream id into.         *)
StreamByte(id) == id % ByteValues

(* Mutant of HasNumber: the result of rtmp_amf0_pop_number is dropped. *)
HasNumberUnchecked(m) == TRUE

HasNumber(m) == m.arg # NoNumber

(* rtmp_process_cmd_0x14_create_stream_result: whatever the _result is an  *)
(* answer to, the number behind its null is the stream id; without one the *)
(* thread ends.  Three Sends, whose results are not looked at.             *)
HandleCreateStreamResult ==
  /\ Processing /\ rtmp_status = "wait_create_stream" /\ IsResult(Reply)
  /\ taken' = taken + 1
  /\ IF ~HasNumber(Reply)
       THEN pc' = "done" /\ UNCHANGED <<rtmp_status, rtmp_now_stream_id, sent, lostSend>>
       ELSE /\ rtmp_now_stream_id' = Reply.arg
            /\ \E ok \in SUBSET (1..3) :
                 Send3(<<Msg("getStreamLength", 4, NoNumber)>>,
                       <<Msg("play", 5, StreamByte(Reply.arg))>>,
                       <<Msg("setBufferLength", 0, 1)>>, ok)
            /\ rtmp_status' = "wait_play"
            /\ UNCHANGED pc
  /\ UNCHANGED <<acknowledgement_size, serverVars>>

(* recv returns 0 or -1: end of the connection, reset or time out.         *)
ReceiveEnds ==
  /\ pc = "recv" /\ pc' = "done"
  /\ UNCHANGED <<rtmp_status, rtmp_now_stream_id, acknowledgement_size, sent, taken, lostSend,
                 serverVars>>

-----------------------------------------------------------------------------
(* The server (external).                                                  *)

Requests == {"connect", "createStream", "_checkbw", "getStreamLength"}

ServerReads ==
  /\ read < Len(sent)
  /\ LET m == sent[read + 1]
     IN  /\ read' = read + 1
         /\ replies' = IF m.kind = "c0c1" THEN replies \o <<Plain("s0s1"), Plain("s2")>>
                       ELSE replies
         /\ requests' = IF m.kind \in Requests THEN Append(requests, m) ELSE requests
  /\ UNCHANGED <<clientVars, refused, created, others>>

Without(s, i) == SubSeq(s, 1, i - 1) \o SubSeq(s, i + 1, Len(s))

(* A _result: connect's has objects for arguments, createStream's the id   *)
(* of the stream, the others any number or none.                           *)
Answers(request) ==
  IF request.kind = "connect" THEN {NoNumber}
  ELSE IF request.kind = "createStream" THEN StreamIds
  ELSE StreamIds \cup {NoNumber}

ServerAnswers ==
  \E i \in 1..Len(requests), arg \in StreamIds \cup {NoNumber} :
    /\ InOrder => i = 1
    /\ arg \in Answers(requests[i])
    /\ replies' = Append(replies, Msg("_result", requests[i].trans, arg))
    /\ requests' = Without(requests, i)
    /\ created' = IF requests[i].kind = "createStream" THEN arg ELSE created
    /\ UNCHANGED <<clientVars, read, refused, others>>

ServerRefuses ==
  \E i \in 1..Len(requests) :
    /\ requests[i].trans \in Refusals
    /\ refused' = refused \cup {requests[i].trans}
    /\ requests' = Without(requests, i)
    /\ \/ replies' = Append(replies, Msg("_error", requests[i].trans, NoNumber))
       \/ UNCHANGED replies
    /\ UNCHANGED <<clientVars, read, created, others>>

Read(kind) == \E i \in 1..read : sent[i].kind = kind

ServerSpeaks ==
  /\ Read("connect") /\ others < MaxOther /\ others' = others + 1
  /\ \/ \E w \in Windows : replies' = Append(replies, Msg("window", 0, w))
     \/ replies' = Append(replies, Plain("other"))
     \/ Read("play") /\ replies' = Append(replies, Plain("media"))
  /\ UNCHANGED <<clientVars, read, requests, refused, created>>

ThreadStep ==
  \/ HandleS0S1 \/ HandleS2 \/ HandleWindow \/ HandleOther
  \/ HandleConnectResult \/ HandleCreateStreamResult

ServerServes == ServerReads \/ ServerAnswers \/ ServerRefuses

Next == StartPlay \/ ThreadStep \/ ReceiveEnds \/ ServerServes \/ ServerSpeaks

Spec == Init /\ [][Next]_vars

(* The thread runs while something has arrived, and the server serves.     *)
FairSpec == Spec /\ WF_vars(ThreadStep) /\ WF_vars(ServerServes)

-----------------------------------------------------------------------------
Kinds == {"c0c1", "c2", "connect", "win_ack", "createStream", "_checkbw", "getStreamLength",
          "play", "setBufferLength"}
ReplyKinds == {"s0s1", "s2", "_result", "_error", "window", "other", "media"}

TypeOK ==
  /\ pc \in {"start", "recv", "done"} /\ rtmp_status \in Statuses
  /\ rtmp_now_stream_id \in Nat /\ acknowledgement_size \in Nat
  /\ sent \in Seq([kind : Kinds, trans : 0..5, arg : Int])
  /\ replies \in Seq([kind : ReplyKinds, trans : 0..5, arg : Int])
  /\ requests \in Seq([kind : Requests, trans : 1..4, arg : Int])
  /\ taken \in 0..Len(replies) /\ read \in 0..Len(sent)
  /\ lostSend \in BOOLEAN /\ refused \subseteq 1..4 /\ created \in Nat /\ others \in 0..MaxOther

Script == <<"c0c1", "c2", "connect", "win_ack", "createStream", "_checkbw",
            "getStreamLength", "play", "setBufferLength">>

Place(kind) == CHOOSE n \in 1..Len(Script) : Script[n] = kind

(* Whatever the server answers, and however often, the client sends each   *)
(* message at most once and in the order of the protocol.                  *)
SentOnceInOrder ==
  \A i, j \in 1..Len(sent) : i < j => Place(sent[i].kind) < Place(sent[j].kind)

(* Nothing that needs a connection is sent before the server has accepted  *)
(* connect, and nothing that needs a stream before another request was     *)
(* answered: errors and other commands in between do not count.            *)
ReleasedByResult ==
  LET results == {i \in 1..taken : replies[i].kind = "_result"}
  IN  \A i \in 1..Len(sent) :
        /\ Place(sent[i].kind) > 3 => \E k \in results : replies[k].trans = 1
        /\ Place(sent[i].kind) > 6 =>
             \E k, l \in results : k < l /\ replies[k].trans = 1 /\ replies[l].trans \in {2, 3}

(* The window size the client returns is the last one the server had       *)
(* announced before it accepted connect, if there was one.                 *)
WindowReturned ==
  \A i \in 1..Len(sent), k, c \in 1..Len(replies) :
    /\ sent[i].kind = "win_ack"
    /\ replies[c].kind = "_result" /\ replies[c].trans = 1
    /\ k < c /\ replies[k].kind = "window"
    /\ \A l \in (k + 1)..(c - 1) : replies[l].kind # "window"
    => sent[i].arg = replies[k].arg

(* The comment at rtmp_lib.cpp:456: play carries the id of the stream that *)
(* is to be played, the one the server created.                            *)
PlayOnStream ==
  \A i \in 1..Len(sent) : sent[i].kind = "play" => created > 0 /\ sent[i].arg = created

(* A client whose server serves it and accepts its connection gets as far  *)
(* as play, unless the connection broke.                                   *)
PlayReached ==
  rtmp_status = "wait_s0s1" ~> Read("play") \/ pc = "done" \/ lostSend \/ 1 \in refused
=============================================================================
