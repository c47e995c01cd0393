------------------------- MODULE RtmpSessionProofs -------------------------
(***************************************************************************)
(* Proofs about RtmpSession, for any stream ids, windows, refusals and     *)
(* number of messages.  The client looks at its status alone, so the       *)
(* invariant says what each status stands for: how far the script can have *)
(* been sent (SentInv) and which results were taken (StatusInv); that a    *)
(* result cannot be taken for another one rests on the server giving each  *)
(* request at most one (ServerInv).                                        *)
(***************************************************************************)
EXTENDS RtmpSession, SequenceTheorems, TLAPS

Sends   == [kind : Kinds, trans : 0..5, arg : Int]
Answer  == [kind : ReplyKinds, trans : 0..5, arg : Int]
Request == [kind : Requests, trans : 1..4, arg : Int]

(* The last message of the script that can have been sent. *)
Stage(status) ==
  CASE status \in {"init", "send_c0c1"}    -> 0
    [] status \in {"wait_s0s1", "send_c2"} -> 1
    [] status = "wait_s2"                  -> 2
    [] status = "wait_connect"             -> 3
    [] status = "wait_create_stream"       -> 6
    [] status = "wait_play"                -> 9

(* The place of a request in the script, by its transaction. *)
RequestPlace(trans) ==
  CASE trans = 1 -> 3 [] trans = 2 -> 5 [] trans = 3 -> 6 [] trans = 4 -> 7

IsRequest(m) == m.kind \in Requests => m.trans \in 1..4 /\ Place(m.kind) = RequestPlace(m.trans)

(* A part of the script up to place n, in order. *)
Ordered(s, n) ==
  /\ s \in Seq(Sends)
  /\ \A i \in 1..Len(s) : Place(s[i].kind) <= n /\ IsRequest(s[i])
  /\ \A i, j \in 1..Len(s) : i < j => Place(s[i].kind) < Place(s[j].kind)

SentInv ==
  /\ Ordered(sent, Stage(rtmp_status))
  /\ pc = "start" => rtmp_status = "init"

Result(i) == replies[i].kind = "_result"

(* Every request waiting and every result given belongs to a request that  *)
(* was sent, and no two of them to the same.                               *)
ServerInv ==
  /\ \A i \in 1..Len(requests) :
       \E j \in 1..read : sent[j].kind \in Requests /\ sent[j].trans = requests[i].trans
  /\ \A i, j \in 1..Len(requests) : i # j => requests[i].trans # requests[j].trans
  /\ \A i \in 1..Len(replies) : Result(i) =>
       /\ replies[i].arg \in StreamIds \cup {NoNumber}
       /\ \E j \in 1..read : sent[j].kind \in Requests /\ sent[j].trans = replies[i].trans
       /\ \A j \in 1..Len(requests) : requests[j].trans # replies[i].trans
       /\ \A j \in 1..Len(replies) : Result(j) /\ j # i => replies[j].trans # replies[i].trans
  /\ \A i \in 1..Len(replies) : replies[i].kind = "window" => replies[i].arg \in Windows

(* What the client has been told when it has come to a status.             *)
StatusInv ==
  /\ rtmp_status \in {"wait_create_stream", "wait_play"} =>
       \E k \in 1..taken : Result(k) /\ replies[k].trans = 1
  /\ rtmp_status = "wait_play" =>
       \E k, l \in 1..taken : /\ k < l /\ Result(k) /\ replies[k].trans = 1
                              /\ Result(l) /\ replies[l].trans \in {2, 3}

(* acknowledgement_size is the last window taken. *)
AckInv ==
  \A k \in 1..taken :
    /\ replies[k].kind = "window"
    /\ \A l \in (k + 1)..taken : replies[l].kind # "window"
    => acknowledgement_size = replies[k].arg

SessionInv == TypeOK /\ SentInv /\ ServerInv /\ StatusInv /\ AckInv /\ WindowReturned

-----------------------------------------------------------------------------
LEMMA Places ==
  /\ Place("c0c1") = 1 /\ Place("c2") = 2 /\ Place("connect") = 3 /\ Place("win_ack") = 4
  /\ Place("createStream") = 5 /\ Place("_checkbw") = 6 /\ Place("getStreamLength") = 7
  /\ Place("play") = 8 /\ Place("setBufferLength") = 9
<1>1. /\ Len(Script) = 9
      /\ Script[1] = "c0c1" /\ Script[2] = "c2" /\ Script[3] = "connect"
      /\ Script[4] = "win_ack" /\ Script[5] = "createStream" /\ Script[6] = "_checkbw"
      /\ Script[7] = "getStreamLength" /\ Script[8] = "play" /\ Script[9] = "setBufferLength"
  BY DEF Script
<1>2. ASSUME NEW kind, NEW n \in 1..9, Script[n] = kind,
             \A m \in 1..9 : Script[m] = kind => m = n
      PROVE  Place(kind) = n
  BY <1>1, <1>2 DEF Place
<1>3. \A m \in 1..9 : m \in {1, 2, 3, 4, 5, 6, 7, 8, 9}
  OBVIOUS
<1> QED BY <1>1, <1>2, <1>3

LEMMA PlaceTyped == \A kind \in Kinds : Place(kind) \in 1..9
BY Places DEF Kinds

LEMMA Typed ==
  ASSUME TypeOK
  PROVE  /\ sent \in Seq(Sends) /\ Len(sent) \in Nat
         /\ replies \in Seq(Answer) /\ Len(replies) \in Nat
         /\ requests \in Seq(Request) /\ Len(requests) \in Nat
         /\ taken \in Nat /\ taken <= Len(replies) /\ read \in Nat /\ read <= Len(sent)
         /\ rtmp_status \in Statuses /\ Stage(rtmp_status) \in 0..9
         /\ \A i \in 1..Len(sent) : sent[i] \in Sends
         /\ \A i \in 1..Len(replies) : replies[i] \in Answer
         /\ \A i \in 1..Len(requests) : requests[i] \in Request
<1>1. sent \in Seq(Sends) /\ replies \in Seq(Answer) /\ requests \in Seq(Request)
  BY DEF TypeOK, Sends, Answer, Request
<1>2. rtmp_status \in Statuses
  BY DEF TypeOK
<1>3. Stage(rtmp_status) \in 0..9
  BY <1>2 DEF Stage, Statuses
<1>4. /\ Len(sent) \in Nat /\ Len(replies) \in Nat /\ Len(requests) \in Nat
      /\ \A i \in 1..Len(sent) : sent[i] \in Sends
      /\ \A i \in 1..Len(replies) : replies[i] \in Answer
      /\ \A i \in 1..Len(requests) : requests[i] \in Request
  BY <1>1
<1>5. taken \in 0..Len(replies) /\ read \in 0..Len(sent)
  BY DEF TypeOK
<1> QED BY <1>1, <1>2, <1>3, <1>4, <1>5

(* t is s, or s and one message more. *)
More(s, m, t) ==
  \/ t = s
  \/ /\ t \in Seq(Sends) /\ Len(t) = Len(s) + 1 /\ t[Len(s) + 1] = m
     /\ \A i \in 1..Len(s) : t[i] = s[i]

(* Parts of the script come true one message at a time. *)
LEMMA OrderedMore ==
  ASSUME NEW s, NEW n \in Nat, Ordered(s, n),
         NEW m \in Sends, Place(m.kind) = n + 1, IsRequest(m),
         NEW t, More(s, m, t)
  PROVE  /\ Ordered(t, n + 1) /\ Len(t) >= Len(s)
         /\ \A i \in 1..Len(s) : t[i] = s[i]
         /\ \A i \in 1..Len(t) : i \in 1..Len(s) \/ t[i] = m
<1>1. s \in Seq(Sends) /\ Len(s) \in Nat
  BY DEF Ordered
<1>2. \A i \in 1..Len(s) : Place(s[i].kind) \in Nat
  <2>1. \A i \in 1..Len(s) : s[i] \in Sends
    BY <1>1
  <2>2. \A i \in 1..Len(s) : s[i].kind \in Kinds
    BY <2>1 DEF Sends
  <2> QED BY <2>2, PlaceTyped
<1>3. CASE t # s
  <2>1. t \in Seq(Sends) /\ Len(t) = Len(s) + 1 /\ t[Len(s) + 1] = m
        /\ \A i \in 1..Len(s) : t[i] = s[i]
    BY <1>3 DEF More
  <2>2. \A i \in 1..Len(t) : i \in 1..Len(s) \/ i = Len(s) + 1
    BY <1>1, <2>1
  <2>3. ASSUME NEW i \in 1..Len(t)
        PROVE  Place(t[i].kind) <= n + 1 /\ IsRequest(t[i])
    <3>1. CASE i \in 1..Len(s)
      <4>1. Place(s[i].kind) <= n /\ IsRequest(s[i]) /\ t[i] = s[i]
        BY <2>1, <3>1 DEF Ordered
      <4> QED
        BY <1>2, <3>1, <4>1
    <3>2. CASE i = Len(s) + 1
      BY <2>1, <3>2
    <3> QED
      BY <2>2, <3>1, <3>2
  <2>4. ASSUME NEW i \in 1..Len(t), NEW j \in 1..Len(t), i < j
        PROVE  Place(t[i].kind) < Place(t[j].kind)
    <3>1. i \in 1..Len(s)
      BY <1>1, <2>1, <2>4
    <3>2. CASE j \in 1..Len(s)
      BY <2>1, <2>4, <3>1, <3>2 DEF Ordered
    <3>3. CASE j = Len(s) + 1
      BY <1>2, <2>1, <3>1, <3>3 DEF Ordered
    <3> QED BY <2>2, <3>2, <3>3
  <2>5. Ordered(t, n + 1)
    BY <2>1, <2>3, <2>4 DEF Ordered
  <2> QED BY <1>1, <2>1, <2>2, <2>5
<1>4. CASE t = s
  <2>1. Ordered(s, n + 1)
    BY <1>2 DEF Ordered
  <2> QED BY <1>1, <1>4, <2>1
<1> QED BY <1>3, <1>4

LEMMA OrderedWider ==
  ASSUME NEW s, NEW m \in Nat, NEW n \in Nat, m <= n, Ordered(s, m)
  PROVE  Ordered(s, n)
<1>1. \A i \in 1..Len(s) : Place(s[i].kind) \in Nat
  <2>1. \A i \in 1..Len(s) : s[i] \in Sends
    BY DEF Ordered
  <2>2. \A i \in 1..Len(s) : s[i].kind \in Kinds
    BY <2>1 DEF Sends
  <2> QED BY <2>2, PlaceTyped
<1> QED BY <1>1 DEF Ordered

LEMMA WithoutOK ==
  ASSUME NEW s \in Seq(Request), NEW i \in 1..Len(s)
  PROVE  /\ Without(s, i) \in Seq(Request) /\ Len(Without(s, i)) = Len(s) - 1
         /\ \A j \in 1..(Len(s) - 1) : Without(s, i)[j] = s[IF j < i THEN j ELSE j + 1]
<1> DEFINE a == SubSeq(s, 1, i - 1)
           b == SubSeq(s, i + 1, Len(s))
<1>1. Len(s) \in Nat /\ i \in Nat /\ \A k \in 1..Len(s) : s[k] \in Request
  OBVIOUS
<1>2. /\ a \in Seq(Request) /\ Len(a) = i - 1 /\ \A k \in 1..(i - 1) : a[k] = s[k]
  <2>1. /\ a \in Seq(Request) /\ Len(a) = IF 1 <= i - 1 THEN (i - 1) - 1 + 1 ELSE 0
        /\ \A k \in 1..((i - 1) - 1 + 1) : a[k] = s[1 + k - 1]
    BY <1>1, SubSeqProperties
  <2> QED BY <1>1, <2>1
<1>3. /\ b \in Seq(Request) /\ Len(b) = Len(s) - i
      /\ \A k \in 1..(Len(s) - i) : b[k] = s[i + k]
  <2>1. /\ b \in Seq(Request) /\ Len(b) = IF i + 1 <= Len(s) THEN Len(s) - (i + 1) + 1 ELSE 0
        /\ \A k \in 1..(Len(s) - (i + 1) + 1) : b[k] = s[(i + 1) + k - 1]
    BY <1>1, SubSeqProperties
  <2>2. \A k \in 1..(Len(s) - i) : (i + 1) + k - 1 = i + k /\ k \in 1..(Len(s) - (i + 1) + 1)
    BY <1>1
  <2> QED BY <1>1, <2>1, <2>2
<1> HIDE DEF a, b
<1>4. /\ a \o b \in Seq(Request) /\ Len(a \o b) = Len(s) - 1
      /\ \A j \in 1..(Len(s) - 1) : (a \o b)[j] = IF j <= Len(a) THEN a[j] ELSE b[j - Len(a)]
  <2>1. a \in Seq(Request) /\ b \in Seq(Request)
    BY <1>2, <1>3
  <2>2. a \o b \in Seq(Request) /\ Len(a \o b) = Len(a) + Len(b)
    BY <2>1, ConcatProperties, Zenon
  <2>3. \A j \in 1..(Len(a) + Len(b)) : (a \o b)[j] = IF j <= Len(a) THEN a[j] ELSE b[j - Len(a)]
    BY <2>1, ConcatProperties, Zenon
  <2> QED BY <1>1, <1>2, <1>3, <2>1, <2>2, <2>3
<1>5. ASSUME NEW j \in 1..(Len(s) - 1) PROVE (a \o b)[j] = s[IF j < i THEN j ELSE j + 1]
  <2>1. CASE j < i
    BY <1>1, <1>2, <1>4, <2>1
  <2>2. CASE ~(j < i)
    <3>1. (a \o b)[j] = b[j - (i - 1)] /\ j - (i - 1) \in 1..(Len(s) - i)
      BY <1>1, <1>2, <1>4, <2>2
    <3>2. b[j - (i - 1)] = s[i + (j - (i - 1))] /\ i + (j - (i - 1)) = j + 1
      BY <1>1, <1>3, <3>1
    <3> QED BY <2>2, <3>1, <3>2
  <2> QED BY <2>1, <2>2
<1> QED BY <1>4, <1>5 DEF Without, a, b

-----------------------------------------------------------------------------
(* Each status stands for how far the script can have been sent.           *)
LEMMA StageReached ==
  ASSUME SessionInv, NEW i \in 1..Len(sent)
  PROVE  /\ Place(sent[i].kind) \in 1..9 /\ Place(sent[i].kind) <= Stage(rtmp_status)
         /\ Place(sent[i].kind) > 3 => rtmp_status \in {"wait_create_stream", "wait_play"}
         /\ Place(sent[i].kind) > 6 => rtmp_status = "wait_play"
<1>1. sent[i] \in Sends /\ rtmp_status \in Statuses
  BY Typed DEF SessionInv
<1>2. Place(sent[i].kind) \in 1..9
  BY <1>1, PlaceTyped DEF Sends
<1>3. Place(sent[i].kind) <= Stage(rtmp_status)
  BY DEF SessionInv, SentInv, Ordered
<1> QED BY <1>1, <1>2, <1>3 DEF Stage, Statuses

(* A result was asked for by a message of the script that went out.        *)
LEMMA ResultPlace ==
  ASSUME SessionInv, NEW k \in 1..Len(replies), Result(k)
  PROVE  /\ replies[k].trans \in 1..4
         /\ RequestPlace(replies[k].trans) <= Stage(rtmp_status)
<1>1. PICK j \in 1..read : sent[j].kind \in Requests /\ sent[j].trans = replies[k].trans
  BY DEF SessionInv, ServerInv
<1>2. j \in 1..Len(sent)
  BY <1>1, Typed DEF SessionInv
<1>3. IsRequest(sent[j]) /\ Place(sent[j].kind) <= Stage(rtmp_status)
  BY <1>2 DEF SessionInv, SentInv, Ordered
<1> QED BY <1>1, <1>3 DEF IsRequest

(* What the server knows stays true when the client sends more.            *)
LEMMA SentGrows ==
  ASSUME SessionInv, UNCHANGED serverVars,
         Len(sent') >= Len(sent), \A i \in 1..Len(sent) : sent'[i] = sent[i]
  PROVE  ServerInv'
<1>1. UNCHANGED <<read, replies, requests>>
  BY DEF serverVars
<1>2. \A j \in 1..read : sent'[j] = sent[j]
  BY Typed DEF SessionInv
<1>3. \A j : Result(j)' <=> Result(j)
  BY <1>1 DEF Result
<1> QED BY SMTT(20), <1>1, <1>2, <1>3 DEF SessionInv, ServerInv

(* A client step that sends no window size leaves WindowReturned alone.    *)
LEMMA NoWindowSent ==
  ASSUME SessionInv, UNCHANGED replies,
         \A i \in 1..Len(sent') : sent'[i].kind = "win_ack" => i \in 1..Len(sent) /\ sent'[i] = sent[i]
  PROVE  WindowReturned'
BY DEF SessionInv, WindowReturned

(* What the client was told stays true when the server says more.          *)
LEMMA RepliesGrow ==
  ASSUME SessionInv, UNCHANGED clientVars, ServerInv', replies' \in Seq(Answer),
         Len(replies') >= Len(replies), \A i \in 1..Len(replies) : replies'[i] = replies[i]
  PROVE  SentInv' /\ StatusInv' /\ AckInv' /\ WindowReturned'
<1>1. UNCHANGED <<pc, rtmp_status, acknowledgement_size, sent, taken>>
  BY DEF clientVars
<1>2. Len(replies) \in Nat /\ taken \in Nat /\ taken <= Len(replies) /\ Len(replies') \in Nat
  BY Typed DEF SessionInv
<1>3. \A i \in 1..taken : replies'[i] = replies[i] /\ (Result(i)' <=> Result(i))
  BY <1>2 DEF Result
<1>4. SentInv'
  BY <1>1 DEF SessionInv, SentInv
<1>5. StatusInv'
  BY <1>1, <1>3 DEF SessionInv, StatusInv
<1>6. AckInv'
  BY <1>1, <1>2, <1>3 DEF SessionInv, AckInv
<1>7. WindowReturned'
  <2> SUFFICES ASSUME NEW i \in 1..Len(sent), NEW k \in 1..Len(replies'), NEW c \in 1..Len(replies'),
                      sent[i].kind = "win_ack",
                      replies'[c].kind = "_result", replies'[c].trans = 1,
                      k < c, replies'[k].kind = "window",
                      \A l \in (k + 1)..(c - 1) : replies'[l].kind # "window"
               PROVE  sent[i].arg = replies'[k].arg
    BY SMTT(30), <1>1 DEF WindowReturned
  <2>1. PICK d \in 1..taken : Result(d) /\ replies[d].trans = 1
    <3>1. rtmp_status \in {"wait_create_stream", "wait_play"}
      BY StageReached, Places
    <3> QED BY <3>1 DEF SessionInv, StatusInv
  <2>2. d = c
    <3>1. d \in 1..Len(replies') /\ Result(d)' /\ Result(c)'
      BY <1>2, <1>3, <2>1 DEF Result
    <3> QED BY <1>3, <2>1, <3>1 DEF ServerInv
  <2>3. k \in 1..Len(replies) /\ c \in 1..Len(replies)
    BY <1>2, <2>1, <2>2
  <2>4. \A l \in (k + 1)..(c - 1) : l \in 1..Len(replies)
    BY <1>2, <2>3
  <2>5. /\ replies'[k] = replies[k] /\ replies'[c] = replies[c]
        /\ \A l \in (k + 1)..(c - 1) : replies'[l] = replies[l]
    BY <2>3, <2>4
  <2>6. WindowReturned
    BY DEF SessionInv
  <2>7. /\ sent[i].kind = "win_ack" /\ replies[c].kind = "_result" /\ replies[c].trans = 1
        /\ k < c /\ replies[k].kind = "window"
        /\ \A l \in (k + 1)..(c - 1) : replies[l].kind # "window"
    BY <2>5
  <2> QED BY <2>3, <2>5, <2>6, <2>7 DEF WindowReturned
<1> QED BY <1>4, <1>5, <1>6, <1>7

(* The type of the two sequences, as the proofs name it.                   *)
LEMMA Typing0 ==
  TypeOK <=>
  /\ pc \in {"start", "recv", "done"} /\ rtmp_status \in Statuses
  /\ rtmp_now_stream_id \in Nat /\ acknowledgement_size \in Nat
  /\ sent \in Seq(Sends) /\ replies \in Seq(Answer) /\ requests \in Seq(Request)
  /\ taken \in 0..Len(replies) /\ read \in 0..Len(sent)
  /\ lostSend \in BOOLEAN /\ refused \subseteq 1..4 /\ created \in Nat /\ others \in 0..MaxOther
BY DEF TypeOK, Sends, Answer, Request

-----------------------------------------------------------------------------
(* The client's steps.                                                     *)

LEMMA InitOK == Init => SessionInv
<1> SUFFICES ASSUME Init PROVE SessionInv
  OBVIOUS
<1>1. TypeOK
  <2>1. acknowledgement_size \in Nat /\ MaxOther \in Nat
    BY SessionAssumption DEF Init
  <2>2. sent \in Seq(Sends) /\ replies \in Seq(Answer) /\ requests \in Seq(Request)
    BY DEF Init
  <2>3. taken \in 0..Len(replies) /\ read \in 0..Len(sent)
    BY DEF Init
  <2>4. /\ pc \in {"start", "recv", "done"} /\ rtmp_status \in Statuses
        /\ rtmp_now_stream_id \in Nat /\ created \in Nat /\ others \in 0..MaxOther
        /\ lostSend \in BOOLEAN /\ refused \subseteq 1..4
    <3>1. pc = "start" /\ rtmp_status = "init" /\ rtmp_now_stream_id = 0 /\ created = 0 /\ others = 0
      BY DEF Init
    <3>2. lostSend = FALSE /\ refused = {}
      BY DEF Init
    <3>3. refused \subseteq 1..4 /\ lostSend \in BOOLEAN
      BY <3>2
    <3> QED BY <2>1, <3>1, <3>3 DEF Statuses
  <2> QED BY <2>1, <2>2, <2>3, <2>4, Typing0
<1>2. SentInv
  BY DEF Init, SentInv, Ordered
<1>3. ServerInv /\ StatusInv /\ AckInv /\ WindowReturned
  BY DEF Init, ServerInv, StatusInv, AckInv, WindowReturned
<1> QED BY <1>1, <1>2, <1>3 DEF SessionInv

(* One message of the script more, or none, and no window size.            *)
LEMMA SendsOneOK ==
  ASSUME SessionInv, NEW m \in Sends, NEW ok \in BOOLEAN, SendOne(<<m>>, ok),
         Place(m.kind) = Stage(rtmp_status) + 1, m.kind # "win_ack", IsRequest(m),
         rtmp_status' \in Statuses, Stage(rtmp_status') = Stage(rtmp_status) + (IF ok THEN 1 ELSE 0),
         pc' \in {"recv", "done"}, UNCHANGED serverVars
  PROVE  /\ SentInv' /\ ServerInv' /\ WindowReturned'
         /\ sent' \in Seq(Sends) /\ Len(sent') >= Len(sent) /\ lostSend' \in BOOLEAN
<1>1. Ordered(sent, Stage(rtmp_status)) /\ Stage(rtmp_status) \in Nat /\ lostSend \in BOOLEAN
      /\ sent \in Seq(Sends) /\ Len(sent) \in Nat
  BY Typed DEF SessionInv, SentInv, TypeOK
<1>2. lostSend' \in BOOLEAN
  BY <1>1 DEF SendOne
<1>3. /\ Ordered(sent', Stage(rtmp_status'))
      /\ Len(sent') >= Len(sent) /\ \A i \in 1..Len(sent) : sent'[i] = sent[i]
      /\ \A i \in 1..Len(sent') : sent'[i].kind = "win_ack" => i \in 1..Len(sent)
  <2>1. CASE ok
    <3>1. More(sent, m, sent')
      BY <1>1, <2>1 DEF SendOne, More
    <3>2. /\ Ordered(sent', Stage(rtmp_status) + 1)
          /\ Len(sent') >= Len(sent) /\ \A i \in 1..Len(sent) : sent'[i] = sent[i]
      BY <1>1, <3>1, OrderedMore
    <3>3. sent' = sent \o <<m>> /\ Len(sent') = Len(sent) + 1 /\ sent'[Len(sent) + 1] = m
      BY <1>1, <2>1 DEF SendOne
    <3> QED BY <1>1, <2>1, <3>2, <3>3
  <2>2. CASE ~ok
    <3>1. sent' = sent /\ Stage(rtmp_status') = Stage(rtmp_status)
      BY <1>1, <2>2 DEF SendOne
    <3> QED BY <1>1, <3>1
  <2> QED BY <2>1, <2>2
<1>4. SentInv'
  BY <1>3 DEF SentInv
<1>5. ServerInv'
  BY <1>3, SentGrows
<1>6. WindowReturned'
  BY <1>3, NoWindowSent DEF serverVars
<1>7. sent' \in Seq(Sends)
  BY <1>3 DEF Ordered
<1> QED BY <1>2, <1>3, <1>4, <1>5, <1>6, <1>7

LEMMA StartPlayOK == SessionInv /\ StartPlay => SessionInv'
<1> SUFFICES ASSUME SessionInv, StartPlay PROVE SessionInv'
  OBVIOUS
<1>1. /\ rtmp_status = "init" /\ Stage(rtmp_status) = 0
      /\ UNCHANGED <<rtmp_now_stream_id, acknowledgement_size, taken>> /\ UNCHANGED serverVars
  BY DEF StartPlay, SessionInv, SentInv, Stage
<1>2. CASE pc' = "done" /\ UNCHANGED <<rtmp_status, sent, lostSend>>
  <2>1. TypeOK'
    BY <1>1, <1>2 DEF SessionInv, TypeOK, serverVars
  <2>2. ServerInv' /\ WindowReturned'
    BY <1>1, <1>2, SentGrows, NoWindowSent, Typed DEF serverVars, SessionInv
  <2> QED BY <1>1, <1>2, <2>1, <2>2 DEF SessionInv, SentInv, StatusInv, AckInv, Result, serverVars
<1>3. ASSUME NEW ok \in BOOLEAN, SendOne(<<Plain("c0c1")>>, ok),
             rtmp_status' = IF ok THEN "wait_s0s1" ELSE "send_c0c1", pc' \in {"recv", "done"}
      PROVE  SessionInv'
  <2> DEFINE m == Plain("c0c1")
  <2>1. m \in Sends /\ m.kind = "c0c1" /\ IsRequest(m)
    BY DEF Plain, Msg, NoNumber, Sends, Kinds, IsRequest, Requests
  <2>2. rtmp_status' \in Statuses /\ Stage(rtmp_status') = Stage(rtmp_status) + (IF ok THEN 1 ELSE 0)
    BY <1>1, <1>3 DEF Stage, Statuses
  <2>3. /\ SentInv' /\ ServerInv' /\ WindowReturned'
        /\ sent' \in Seq(Sends) /\ Len(sent') >= Len(sent) /\ lostSend' \in BOOLEAN
    <3> HIDE DEF m
    <3>1. SendOne(<<m>>, ok)
      BY <1>3 DEF m
    <3> QED BY <1>1, <1>3, <2>1, <2>2, <3>1, Places, SendsOneOK
  <2>4. TypeOK'
    BY <1>1, <1>3, <2>2, <2>3, Typed DEF SessionInv, TypeOK, serverVars, Sends
  <2>5. StatusInv' /\ AckInv'
    BY <1>1, <1>3 DEF SessionInv, StatusInv, AckInv, serverVars
  <2> QED BY <2>3, <2>4, <2>5 DEF SessionInv
<1> QED BY <1>2, <1>3 DEF StartPlay

LEMMA ArrivedOK ==
  ASSUME SessionInv, Arrived
  PROVE  /\ taken + 1 \in 1..Len(replies) /\ Reply \in Answer /\ taken \in Nat
         /\ taken + 1 \in 0..Len(replies) /\ pc = "recv"
BY Typed DEF SessionInv, Arrived, Reply

(* Taking in anything but a window size. *)
LEMMA TakenOther ==
  ASSUME SessionInv, Arrived, taken' = taken + 1, Reply.kind # "window",
         UNCHANGED <<acknowledgement_size, replies>>
  PROVE  AckInv'
<1> SUFFICES ASSUME NEW k \in 1..(taken + 1), replies[k].kind = "window",
                    \A l \in (k + 1)..(taken + 1) : replies[l].kind # "window"
             PROVE  acknowledgement_size = replies[k].arg
  BY DEF AckInv
<1>1. k \in 1..taken
  BY ArrivedOK DEF Reply
<1>2. \A l \in (k + 1)..taken : l \in (k + 1)..(taken + 1)
  BY ArrivedOK
<1> QED BY <1>1, <1>2 DEF SessionInv, AckInv

(* The two steps of the handshake and the first command.                   *)
LEMMA HandshakeOK ==
  ASSUME SessionInv, Arrived, taken' = taken + 1,
         NEW m \in Sends, NEW ok \in BOOLEAN, SendOne(<<m>>, ok),
         Place(m.kind) = Stage(rtmp_status) + 1, m.kind # "win_ack", IsRequest(m),
         rtmp_status' \in Statuses \ {"wait_create_stream", "wait_play"},
         Stage(rtmp_status') = Stage(rtmp_status) + (IF ok THEN 1 ELSE 0),
         pc' \in {"recv", "done"}, Reply.kind # "window",
         UNCHANGED <<rtmp_now_stream_id, acknowledgement_size, serverVars>>
  PROVE  SessionInv'
<1>1. UNCHANGED serverVars /\ UNCHANGED <<replies, rtmp_now_stream_id, acknowledgement_size, read>>
  BY DEF serverVars
<1>2. /\ SentInv' /\ ServerInv' /\ WindowReturned'
      /\ sent' \in Seq(Sends) /\ Len(sent') >= Len(sent) /\ lostSend' \in BOOLEAN
  BY <1>1, SendsOneOK
<1>3. TypeOK'
  <2>1. taken' \in 0..Len(replies')
    BY <1>1, ArrivedOK
  <2>2. read' \in 0..Len(sent')
    BY <1>1, <1>2, Typed DEF SessionInv, Sends
  <2> QED BY <1>1, <1>2, <2>1, <2>2 DEF SessionInv, TypeOK, serverVars, Sends
<1>4. StatusInv'
  BY DEF StatusInv
<1>5. AckInv'
  BY <1>1, TakenOther DEF SessionInv
<1> QED BY <1>2, <1>3, <1>4, <1>5 DEF SessionInv

LEMMA HandleS0S1OK == SessionInv /\ HandleS0S1 => SessionInv'
<1> SUFFICES ASSUME SessionInv, HandleS0S1 PROVE SessionInv'
  OBVIOUS
<1> DEFINE m == Plain("c2")
<1>1. m \in Sends /\ m.kind = "c2" /\ IsRequest(m)
  BY DEF Plain, Msg, NoNumber, Sends, Kinds, IsRequest, Requests
<1>2. PICK ok \in BOOLEAN : /\ SendOne(<<m>>, ok)
                            /\ rtmp_status' = IF ok THEN "wait_s2" ELSE "send_c2"
                            /\ pc' = IF ok THEN pc ELSE "done"
  BY DEF HandleS0S1
<1> HIDE DEF m
<1>3. /\ Arrived /\ taken' = taken + 1 /\ rtmp_status = "wait_s0s1" /\ Reply.kind # "window"
      /\ UNCHANGED <<rtmp_now_stream_id, acknowledgement_size, serverVars>>
  BY DEF HandleS0S1
<1>4. pc' \in {"recv", "done"}
  BY <1>2, <1>3 DEF Arrived
<1>5. /\ rtmp_status' \in Statuses \ {"wait_create_stream", "wait_play"}
      /\ Stage(rtmp_status) = 1 /\ Stage(rtmp_status') = Stage(rtmp_status) + (IF ok THEN 1 ELSE 0)
  BY <1>2, <1>3 DEF Stage, Statuses
<1> QED BY <1>1, <1>2, <1>3, <1>4, <1>5, Places, HandshakeOK

LEMMA HandleS2OK == SessionInv /\ HandleS2 => SessionInv'
<1> SUFFICES ASSUME SessionInv, HandleS2 PROVE SessionInv'
  OBVIOUS
<1> DEFINE m == Msg("connect", 1, NoNumber)
<1>1. m \in Sends /\ m.kind = "connect" /\ IsRequest(m)
  BY Places DEF Msg, NoNumber, Sends, Kinds, IsRequest, RequestPlace
<1>2. PICK ok \in BOOLEAN : /\ SendOne(<<m>>, ok)
                            /\ rtmp_status' = IF ok THEN "wait_connect" ELSE rtmp_status
                            /\ pc' = IF ok THEN pc ELSE "done"
  BY DEF HandleS2
<1> HIDE DEF m
<1>3. /\ Arrived /\ taken' = taken + 1 /\ rtmp_status = "wait_s2" /\ Reply.kind # "window"
      /\ UNCHANGED <<rtmp_now_stream_id, acknowledgement_size, serverVars>>
  BY DEF HandleS2
<1>4. pc' \in {"recv", "done"}
  BY <1>2, <1>3 DEF Arrived
<1>5. /\ rtmp_status' \in Statuses \ {"wait_create_stream", "wait_play"}
      /\ Stage(rtmp_status) = 2 /\ Stage(rtmp_status') = Stage(rtmp_status) + (IF ok THEN 1 ELSE 0)
  BY <1>2, <1>3 DEF Stage, Statuses
<1> QED BY <1>1, <1>2, <1>3, <1>4, <1>5, Places, HandshakeOK

(* Steps that send nothing and leave the status alone.                     *)
LEMMA QuietOK ==
  ASSUME SessionInv, Arrived, taken' = taken + 1, pc' \in {"recv", "done"},
         UNCHANGED <<rtmp_status, sent, lostSend, serverVars>>,
         rtmp_now_stream_id' \in Nat, acknowledgement_size' \in Nat, AckInv'
  PROVE  SessionInv'
<1>1. UNCHANGED serverVars /\ UNCHANGED <<rtmp_status, sent, lostSend, replies, requests, read>>
  BY DEF serverVars
<1>2. TypeOK'
  <2>1. taken' \in 0..Len(replies')
    BY <1>1, ArrivedOK
  <2> QED BY <1>1, <2>1 DEF SessionInv, TypeOK, serverVars
<1>3. SentInv'
  BY <1>1 DEF SessionInv, SentInv
<1>4. ServerInv' /\ WindowReturned'
  BY <1>1, SentGrows, NoWindowSent, Typed DEF SessionInv
<1>5. StatusInv'
  <2>1. 1..taken \subseteq 1..taken' /\ \A k : Result(k)' <=> Result(k)
    BY <1>1, ArrivedOK DEF Result
  <2> QED BY <1>1, <2>1 DEF SessionInv, StatusInv
<1> QED BY <1>2, <1>3, <1>4, <1>5 DEF SessionInv

LEMMA HandleWindowOK == SessionInv /\ HandleWindow => SessionInv'
<1> SUFFICES ASSUME SessionInv, HandleWindow PROVE SessionInv'
  OBVIOUS
<1>1. /\ Arrived /\ taken' = taken + 1 /\ Reply.kind = "window" /\ acknowledgement_size' = Reply.arg
      /\ UNCHANGED <<pc, rtmp_status, rtmp_now_stream_id, sent, lostSend, serverVars>>
  BY DEF HandleWindow, WindowAfter, Processing
<1>2. UNCHANGED replies
  BY <1>1 DEF serverVars
<1>3. acknowledgement_size' \in Nat
  BY <1>1, ArrivedOK, SessionAssumption DEF SessionInv, ServerInv, Reply
<1>4. AckInv'
  <2> SUFFICES ASSUME NEW k \in 1..taken', replies[k].kind = "window",
                      \A l \in (k + 1)..taken' : replies[l].kind # "window"
               PROVE  acknowledgement_size' = replies[k].arg
    BY <1>2 DEF AckInv
  <2>1. k = taken + 1
    BY <1>1, ArrivedOK DEF Reply
  <2> QED BY <1>1, <2>1 DEF Reply
<1> QED BY <1>1, <1>3, <1>4, ArrivedOK, QuietOK DEF SessionInv, TypeOK

LEMMA HandleOtherOK == SessionInv /\ HandleOther => SessionInv'
<1> SUFFICES ASSUME SessionInv, HandleOther PROVE SessionInv'
  OBVIOUS
<1>1. /\ Arrived /\ taken' = taken + 1 /\ Reply.kind # "window" /\ pc' \in {pc, "done"}
      /\ UNCHANGED <<rtmp_status, rtmp_now_stream_id, acknowledgement_size, sent, lostSend, serverVars>>
  BY DEF HandleOther, IsResult, Processing
<1>2. AckInv'
  BY <1>1, TakenOther DEF SessionInv, serverVars
<1> QED BY <1>1, <1>2, ArrivedOK, QuietOK DEF SessionInv, TypeOK

LEMMA ReceiveEndsOK == SessionInv /\ ReceiveEnds => SessionInv'
<1> SUFFICES ASSUME SessionInv, ReceiveEnds PROVE SessionInv'
  OBVIOUS
<1>1. /\ pc' = "done" /\ UNCHANGED serverVars
      /\ UNCHANGED <<rtmp_status, rtmp_now_stream_id, acknowledgement_size, sent, taken, lostSend, replies>>
  BY DEF ReceiveEnds, serverVars
<1>2. TypeOK'
  BY <1>1 DEF SessionInv, TypeOK, serverVars
<1>3. SentInv' /\ StatusInv' /\ AckInv'
  BY <1>1 DEF SessionInv, SentInv, StatusInv, AckInv, Result
<1>4. ServerInv' /\ WindowReturned'
  BY <1>1, SentGrows, NoWindowSent, Typed DEF SessionInv
<1> QED BY <1>2, <1>3, <1>4 DEF SessionInv

-----------------------------------------------------------------------------
(* The two results.  In wait_connect only connect can have been answered;  *)
(* in wait_create_stream it has been, and each request is answered once.   *)
LEMMA StatusByConnect ==
  ASSUME SessionInv, Arrived, rtmp_status = "wait_connect", IsResult(Reply)
  PROVE  Reply.trans = 1
<1>1. Result(taken + 1) /\ taken + 1 \in 1..Len(replies) /\ Reply = replies[taken + 1]
  BY ArrivedOK DEF IsResult, Result, Reply
<1>2. Reply.trans \in 1..4 /\ RequestPlace(Reply.trans) <= 3
  BY <1>1, ResultPlace DEF Stage
<1> QED BY <1>2 DEF RequestPlace

LEMMA StatusByStream ==
  ASSUME SessionInv, Arrived, rtmp_status = "wait_create_stream", IsResult(Reply)
  PROVE  Reply.trans \in {2, 3}
<1>1. Result(taken + 1) /\ taken + 1 \in 1..Len(replies) /\ Reply = replies[taken + 1]
  BY ArrivedOK DEF IsResult, Result, Reply
<1>2. Reply.trans \in 1..4 /\ RequestPlace(Reply.trans) <= 6
  BY <1>1, ResultPlace DEF Stage
<1>3. PICK k \in 1..taken : Result(k) /\ replies[k].trans = 1
  BY DEF SessionInv, StatusInv
<1>4. k \in 1..Len(replies) /\ k # taken + 1
  BY ArrivedOK, Typed DEF SessionInv
<1>5. Reply.trans # 1
  BY <1>1, <1>3, <1>4 DEF SessionInv, ServerInv
<1> QED BY <1>2, <1>5 DEF RequestPlace

LEMMA ThreeMore ==
  ASSUME NEW s \in Seq(Sends), NEW a \in Sends, NEW b \in Sends, NEW c \in Sends
  PROVE  /\ Len(s \o <<a, b, c>>) = Len(s) + 3
         /\ \A i \in 1..Len(s) : (s \o <<a, b, c>>)[i] = s[i]
         /\ (s \o <<a, b, c>>)[Len(s) + 1] = a
         /\ (s \o <<a, b, c>>)[Len(s) + 2] = b
         /\ (s \o <<a, b, c>>)[Len(s) + 3] = c
<1> DEFINE abc == <<a, b, c>>
<1>1. abc \in Seq(Sends) /\ Len(abc) = 3 /\ abc[1] = a /\ abc[2] = b /\ abc[3] = c
  OBVIOUS
<1> HIDE DEF abc
<1>2. Len(s) \in Nat
  OBVIOUS
<1>3. /\ Len(s \o abc) = Len(s) + 3
      /\ \A i \in 1..(Len(s) + 3) : (s \o abc)[i] = IF i <= Len(s) THEN s[i] ELSE abc[i - Len(s)]
  <2>1. /\ Len(s \o abc) = Len(s) + Len(abc)
        /\ \A i \in 1..(Len(s) + Len(abc)) :
             (s \o abc)[i] = IF i <= Len(s) THEN s[i] ELSE abc[i - Len(s)]
    BY <1>1, ConcatProperties, Zenon
  <2> QED BY <1>1, <2>1
<1>4. /\ \A i \in 1..Len(s) : (s \o abc)[i] = s[i]
      /\ (s \o abc)[Len(s) + 1] = a /\ (s \o abc)[Len(s) + 2] = b /\ (s \o abc)[Len(s) + 3] = c
  BY <1>1, <1>2, <1>3
<1> QED BY <1>3, <1>4 DEF abc

LEMMA HandleConnectResultOK == SessionInv /\ HandleConnectResult => SessionInv'
<1> SUFFICES ASSUME SessionInv, HandleConnectResult PROVE SessionInv'
  OBVIOUS
<1> DEFINE a == Msg("win_ack", 0, acknowledgement_size)
           b == Msg("createStream", 2, NoNumber)
           c == Msg("_checkbw", 3, NoNumber)
<1>1. /\ a \in Sends /\ b \in Sends /\ c \in Sends
      /\ a.kind = "win_ack" /\ b.kind = "createStream" /\ c.kind = "_checkbw"
      /\ IsRequest(a) /\ IsRequest(b) /\ IsRequest(c)
      /\ a.arg = acknowledgement_size
  BY Places, Typed DEF SessionInv, TypeOK, Msg, NoNumber, Sends, Kinds, IsRequest, RequestPlace, Requests
<1>2. PICK ok \in BOOLEAN : SendOne(<<a, b, c>>, ok)
  BY DEF HandleConnectResult
<1> HIDE DEF a, b, c
<1>3. /\ Arrived /\ taken' = taken + 1 /\ rtmp_status = "wait_connect" /\ IsResult(Reply)
      /\ rtmp_status' = "wait_create_stream" /\ UNCHANGED serverVars
      /\ UNCHANGED <<pc, rtmp_now_stream_id, acknowledgement_size, read, replies>>
  BY DEF HandleConnectResult, Processing, AfterConnect, serverVars
<1>13. Place(a.kind) = 4 /\ Place(b.kind) = 5 /\ Place(c.kind) = 6
  BY <1>1, Places
<1>4. /\ Ordered(sent, 3) /\ sent \in Seq(Sends) /\ Len(sent) \in Nat /\ lostSend \in BOOLEAN
      /\ \A i \in 1..Len(sent) : sent[i].kind # "win_ack"
  <2>1. Ordered(sent, 3)
    BY <1>3 DEF SessionInv, SentInv, Stage
  <2>2. \A i \in 1..Len(sent) : Place(sent[i].kind) <= 3
    BY <2>1 DEF Ordered
  <2>3. sent \in Seq(Sends) /\ Len(sent) \in Nat /\ lostSend \in BOOLEAN
    BY Typed DEF SessionInv, TypeOK
  <2>4. Place("win_ack") = 4
    BY Places
  <2>5. \A i \in 1..Len(sent) : sent[i].kind # "win_ack"
    BY <2>2, <2>4
  <2> QED BY <2>1, <2>3, <2>5
<1>5. /\ Ordered(sent', 6) /\ Len(sent') >= Len(sent) /\ \A i \in 1..Len(sent) : sent'[i] = sent[i]
      /\ \A i \in 1..Len(sent') : sent'[i].kind = "win_ack" => sent'[i].arg = acknowledgement_size
      /\ lostSend' \in BOOLEAN
  <2>1. CASE ok
    <3>1. sent' = sent \o <<a, b, c>>
      BY <1>2, <2>1 DEF SendOne
    <3>5. /\ Len(sent') = Len(sent) + 3 /\ \A i \in 1..Len(sent) : sent'[i] = sent[i]
          /\ sent'[Len(sent) + 1] = a /\ sent'[Len(sent) + 2] = b /\ sent'[Len(sent) + 3] = c
      BY <1>1, <1>4, <3>1, ThreeMore
    <3>6. sent' \in Seq(Sends)
      BY <1>1, <1>4, <3>1
    <3>7. \A i \in 1..Len(sent') : i \in 1..Len(sent) \/ i = Len(sent) + 1 \/ i = Len(sent) + 2
                                   \/ i = Len(sent) + 3
      BY <1>4, <3>5
    <3>9. Ordered(sent', 6)
      <4>1. \A i \in 1..Len(sent) : Place(sent[i].kind) \in Nat /\ Place(sent[i].kind) <= 3
                                     /\ IsRequest(sent[i])
        BY <1>4, StageReached DEF Ordered
      <4>2. \A i \in 1..Len(sent') : Place(sent'[i].kind) <= 6 /\ IsRequest(sent'[i])
        <5> SUFFICES ASSUME NEW i \in 1..Len(sent')
                     PROVE  Place(sent'[i].kind) <= 6 /\ IsRequest(sent'[i])
          OBVIOUS
        <5>1. CASE i \in 1..Len(sent)
          BY <3>5, <4>1, <5>1
        <5>2. CASE i \in {Len(sent) + 1, Len(sent) + 2, Len(sent) + 3}
          BY <1>1, <1>13, <3>5, <5>2
        <5> QED BY <3>7, <5>1, <5>2
      <4>3. ASSUME NEW i \in 1..Len(sent'), NEW j \in 1..Len(sent'), i < j
            PROVE  Place(sent'[i].kind) < Place(sent'[j].kind)
        <5>1. CASE j \in 1..Len(sent)
          <6>1. i \in 1..Len(sent)
            BY <1>4, <4>3, <5>1
          <6> QED BY <1>4, <3>5, <4>3, <5>1, <6>1 DEF Ordered
        <5>2. CASE j = Len(sent) + 1
          <6>1. i \in 1..Len(sent)
            BY <1>4, <3>5, <4>3, <5>2
          <6> QED BY <1>13, <3>5, <4>1, <5>2, <6>1
        <5>3. CASE j = Len(sent) + 2
          <6>1. i \in 1..Len(sent) \/ i = Len(sent) + 1
            BY <1>4, <3>5, <3>7, <4>3, <5>3
          <6> QED BY <1>13, <3>5, <4>1, <5>3, <6>1
        <5>4. CASE j = Len(sent) + 3
          <6>1. i \in 1..Len(sent) \/ i = Len(sent) + 1 \/ i = Len(sent) + 2
            BY <1>4, <3>5, <3>7, <4>3, <5>4
          <6> QED BY <1>13, <3>5, <4>1, <5>4, <6>1
        <5> QED BY <3>7, <5>1, <5>2, <5>3, <5>4
      <4> QED BY <3>6, <4>2, <4>3 DEF Ordered
    <3>8. \A i \in 1..Len(sent') : sent'[i].kind = "win_ack" => sent'[i].arg = acknowledgement_size
      BY <1>1, <1>4, <3>5, <3>7
    <3> QED BY <1>2, <1>4, <3>5, <3>9, <3>8 DEF SendOne
  <2>2. CASE ~ok
    <3>1. sent' = sent /\ lostSend' \in BOOLEAN
      BY <1>2, <2>2 DEF SendOne
    <3> QED BY <1>4, <3>1, OrderedWider
  <2> QED BY <2>1, <2>2
<1>6. Reply.trans = 1 /\ Result(taken + 1) /\ taken + 1 \in 1..Len(replies) /\ taken \in Nat
      /\ Reply = replies[taken + 1]
  BY <1>3, StatusByConnect, ArrivedOK DEF IsResult, Result, Reply
<1>7. TypeOK'
  <2>1. taken' \in 0..Len(replies')
    BY <1>3, ArrivedOK
  <2>2. sent' \in Seq(Sends) /\ read' \in 0..Len(sent')
    BY <1>3, <1>5, Typed DEF SessionInv, Ordered
  <2> QED BY <1>3, <1>5, <2>1, <2>2 DEF SessionInv, TypeOK, serverVars, Sends, Statuses
<1>8. SentInv'
  BY <1>3, <1>5 DEF SentInv, Stage, Arrived
<1>9. ServerInv'
  BY <1>3, <1>5, SentGrows
<1>10. StatusInv'
  BY <1>3, <1>6 DEF StatusInv, Result
<1>11. AckInv'
  BY <1>3, <1>6, TakenOther DEF Result
<1>12. WindowReturned'
  <2> SUFFICES ASSUME NEW i \in 1..Len(sent'), NEW k \in 1..Len(replies), NEW d \in 1..Len(replies),
                      sent'[i].kind = "win_ack",
                      replies[d].kind = "_result", replies[d].trans = 1,
                      k < d, replies[k].kind = "window",
                      \A l \in (k + 1)..(d - 1) : replies[l].kind # "window"
               PROVE  sent'[i].arg = replies[k].arg
    BY <1>3 DEF WindowReturned
  <2>3. sent'[i].arg = acknowledgement_size
    BY <1>5
  <2>1. d = taken + 1
    BY <1>6 DEF SessionInv, ServerInv, Result
  <2>2. k \in 1..taken /\ (d - 1) = taken
    BY <1>6, <2>1
  <2> QED BY <2>2, <2>3 DEF SessionInv, AckInv
<1> QED BY <1>7, <1>8, <1>9, <1>10, <1>11, <1>12 DEF SessionInv

LEMMA HandleCreateStreamResultOK == SessionInv /\ HandleCreateStreamResult => SessionInv'
<1> SUFFICES ASSUME SessionInv, HandleCreateStreamResult PROVE SessionInv'
  OBVIOUS
<1>1. /\ Arrived /\ taken' = taken + 1 /\ rtmp_status = "wait_create_stream" /\ IsResult(Reply)
      /\ UNCHANGED serverVars /\ UNCHANGED <<acknowledgement_size, read, replies>>
  BY DEF HandleCreateStreamResult, Processing, serverVars
<1>2. /\ Reply.trans \in {2, 3} /\ Result(taken + 1) /\ taken + 1 \in 1..Len(replies) /\ taken \in Nat
      /\ Reply = replies[taken + 1] /\ Reply.kind # "window" /\ pc = "recv"
  BY <1>1, StatusByStream, ArrivedOK DEF IsResult, Result, Reply
<1>3. AckInv'
  BY <1>1, <1>2, TakenOther
<1>4. CASE ~HasNumber(Reply)
  <2>1. pc' = "done" /\ UNCHANGED <<rtmp_status, rtmp_now_stream_id, sent, lostSend>>
    BY <1>4 DEF HandleCreateStreamResult
  <2> QED BY <1>1, <1>3, <2>1, QuietOK DEF SessionInv, TypeOK
<1>5. CASE HasNumber(Reply)
  <2> DEFINE a == Msg("getStreamLength", 4, NoNumber)
             b == Msg("play", 5, StreamByte(Reply.arg))
             c == Msg("setBufferLength", 0, 1)
  <2>1. PICK ok \in SUBSET (1..3) : Send3(<<a>>, <<b>>, <<c>>, ok)
    BY <1>5 DEF HandleCreateStreamResult
  <2>2. rtmp_now_stream_id' = Reply.arg /\ rtmp_status' = "wait_play" /\ UNCHANGED pc
    BY <1>5 DEF HandleCreateStreamResult
  <2>3. Reply.arg \in Nat
    <3>1. Reply.arg \in StreamIds \cup {NoNumber}
      BY <1>2 DEF SessionInv, ServerInv
    <3> QED BY <1>5, <3>1, SessionAssumption DEF HasNumber
  <2>4. /\ a \in Sends /\ b \in Sends /\ c \in Sends
        /\ a.kind = "getStreamLength" /\ b.kind = "play" /\ c.kind = "setBufferLength"
        /\ IsRequest(a) /\ IsRequest(b) /\ IsRequest(c)
    <3>1. StreamByte(Reply.arg) \in Int
      BY <2>3, SessionAssumption DEF StreamByte
    <3> QED BY <3>1, Places DEF Msg, NoNumber, Sends, Kinds, IsRequest, RequestPlace, Requests
  <2> HIDE DEF a, b, c
  <2> DEFINE s1 == sent \o (IF 1 \in ok THEN <<a>> ELSE <<>>)
             s2 == s1 \o (IF 2 \in ok THEN <<b>> ELSE <<>>)
             s3 == s2 \o (IF 3 \in ok THEN <<c>> ELSE <<>>)
  <2>5. Ordered(sent, 6)
    BY <1>1 DEF SessionInv, SentInv, Stage
  <2>18. Place(a.kind) = 7 /\ Place(b.kind) = 8 /\ Place(c.kind) = 9
    BY <2>4, Places
  <2>6. /\ Ordered(s1, 7) /\ Len(s1) >= Len(sent) /\ \A i \in 1..Len(sent) : s1[i] = sent[i]
        /\ \A i \in 1..Len(s1) : i \in 1..Len(sent) \/ s1[i] = a
    <3>0. More(sent, a, s1)
      BY <2>4, <2>5, ConcatEmptySeq DEF Ordered, More
    <3> QED
      BY <2>4, <2>5, <2>18, <3>0, OrderedMore
  <2>7. s3 = sent' /\ lostSend' \in BOOLEAN
    BY <2>1, Typed DEF Send3, SessionInv, TypeOK
  <2> HIDE DEF s1
  <2>8. /\ Ordered(s2, 8) /\ Len(s2) >= Len(s1) /\ \A i \in 1..Len(s1) : s2[i] = s1[i]
        /\ \A i \in 1..Len(s2) : i \in 1..Len(s1) \/ s2[i] = b
    <3>0. More(s1, b, s2)
      BY <2>4, <2>6, ConcatEmptySeq DEF Ordered, More
    <3> QED
      BY <2>4, <2>6, <2>18, <3>0, OrderedMore
  <2> HIDE DEF s2
  <2>9. /\ Ordered(s3, 9) /\ Len(s3) >= Len(s2) /\ \A i \in 1..Len(s2) : s3[i] = s2[i]
        /\ \A i \in 1..Len(s3) : i \in 1..Len(s2) \/ s3[i] = c
    <3>0. More(s2, c, s3)
      BY <2>4, <2>8, ConcatEmptySeq DEF Ordered, More
    <3> QED
      BY <2>4, <2>8, <2>18, <3>0, OrderedMore
  <2> HIDE DEF s3
  <2>10. Ordered(sent', 9)
    BY <2>7, <2>9
  <2>11. Len(sent) \in Nat /\ Len(s1) \in Nat /\ Len(s2) \in Nat /\ Len(sent') \in Nat
    BY <2>5, <2>6, <2>8, <2>10 DEF Ordered
  <2>12. Len(sent') >= Len(sent) /\ \A i \in 1..Len(sent) : sent'[i] = sent[i]
    BY <2>6, <2>7, <2>8, <2>9, <2>11
  <2>13. TypeOK'
    <3>1. taken' \in 0..Len(replies')
      BY <1>1, ArrivedOK
    <3>2. sent' \in Seq(Sends) /\ read' \in 0..Len(sent')
      BY <1>1, <2>10, <2>11, <2>12, Typed DEF SessionInv, Ordered
    <3> QED BY <1>1, <2>2, <2>3, <2>7, <3>1, <3>2 DEF SessionInv, TypeOK, serverVars, Sends, Statuses
  <2>14. SentInv'
    BY <1>2, <2>2, <2>10 DEF SentInv, Stage
  <2>15. ServerInv'
    BY <1>1, <2>12, SentGrows
  <2>16. StatusInv'
    <3>1. PICK k \in 1..taken : Result(k) /\ replies[k].trans = 1
      BY <1>1 DEF SessionInv, StatusInv
    <3>2. PICK l \in Nat : l = taken + 1
      BY <1>2
    <3>3. k \in 1..taken' /\ l \in 1..taken' /\ k < l
      BY <1>1, <1>2, <3>2
    <3>4. Result(k)' /\ Result(l)' /\ replies'[k].trans = 1 /\ replies'[l].trans \in {2, 3}
      BY <1>1, <1>2, <3>1, <3>2 DEF Result
    <3> QED BY <3>3, <3>4 DEF StatusInv
  <2>17. WindowReturned'
    <3>1. ASSUME NEW i \in 1..Len(sent'), sent'[i].kind = "win_ack"
          PROVE  i \in 1..Len(sent)
      <4>1. i \in 1..Len(s2) /\ s2[i].kind = "win_ack"
        BY <2>4, <2>7, <2>9, <3>1
      <4>2. i \in 1..Len(s1) /\ s1[i].kind = "win_ack"
        BY <2>4, <2>8, <4>1
      <4> QED BY <2>4, <2>6, <4>2
    <3> QED BY <1>1, <2>12, <3>1, NoWindowSent
  <2> QED BY <1>3, <2>13, <2>14, <2>15, <2>16, <2>17 DEF SessionInv
<1> QED BY <1>4, <1>5

-----------------------------------------------------------------------------
(* The server's steps.                                                     *)

(* A part of the script once: two requests in it have two transactions. *)
LEMMA OneRequestEach ==
  ASSUME SessionInv, NEW i \in 1..Len(sent), NEW j \in 1..Len(sent), i < j,
         sent[i].kind \in Requests, sent[j].kind \in Requests
  PROVE  sent[i].trans # sent[j].trans
<1>1. Place(sent[i].kind) < Place(sent[j].kind) /\ IsRequest(sent[i]) /\ IsRequest(sent[j])
  BY DEF SessionInv, SentInv, Ordered
<1>2. Place(sent[i].kind) \in Nat /\ Place(sent[j].kind) \in Nat
  BY StageReached
<1> QED BY <1>1, <1>2 DEF IsRequest

LEMMA ServerReadsOK == SessionInv /\ ServerReads => SessionInv'
<1> SUFFICES ASSUME SessionInv, ServerReads PROVE SessionInv'
  OBVIOUS
<1> DEFINE m == sent[read + 1]
<1>1. /\ read < Len(sent) /\ read' = read + 1 /\ UNCHANGED <<clientVars, refused, created, others>>
      /\ replies' = IF m.kind = "c0c1" THEN replies \o <<Plain("s0s1"), Plain("s2")>> ELSE replies
      /\ requests' = IF m.kind \in Requests THEN Append(requests, m) ELSE requests
  BY DEF ServerReads
<1>2. UNCHANGED <<pc, rtmp_status, rtmp_now_stream_id, acknowledgement_size, sent, taken, lostSend>>
  BY <1>1 DEF clientVars
<1>3. /\ read \in Nat /\ read + 1 \in 1..Len(sent) /\ m \in Sends /\ IsRequest(m)
      /\ replies \in Seq(Answer) /\ Len(replies) \in Nat
      /\ requests \in Seq(Request) /\ Len(requests) \in Nat /\ taken \in Nat /\ taken <= Len(replies)
      /\ \A j \in 1..read : j \in 1..Len(sent) /\ j < read + 1
  BY <1>1, Typed DEF SessionInv, SentInv, Ordered
<1> HIDE DEF m
<1>4. /\ replies' \in Seq(Answer) /\ Len(replies') \in Nat /\ Len(replies') >= Len(replies)
      /\ \A i \in 1..Len(replies) : replies'[i] = replies[i]
      /\ \A i \in 1..Len(replies') : i \in 1..Len(replies) \/ replies'[i].kind \in {"s0s1", "s2"}
  <2>1. CASE m.kind = "c0c1"
    <3>1. Plain("s0s1") \in Answer /\ Plain("s2") \in Answer
          /\ Plain("s0s1").kind = "s0s1" /\ Plain("s2").kind = "s2"
      BY DEF Plain, Msg, NoNumber, Answer, ReplyKinds
    <3> DEFINE a == Plain("s0s1")
               b == Plain("s2")
    <3>2. replies' = replies \o <<a, b>>
      BY <1>1, <2>1
    <3> HIDE DEF a, b
    <3>3. a \in Answer /\ b \in Answer /\ a.kind = "s0s1" /\ b.kind = "s2"
      BY <3>1 DEF a, b
    <3>4. /\ replies' \in Seq(Answer) /\ Len(replies') = Len(replies) + 2
          /\ \A i \in 1..Len(replies) : replies'[i] = replies[i]
          /\ replies'[Len(replies) + 1] = a /\ replies'[Len(replies) + 2] = b
      BY <1>3, <3>2, <3>3
    <3>5. \A i \in 1..Len(replies') : \/ i \in 1..Len(replies)
                                      \/ i = Len(replies) + 1 \/ i = Len(replies) + 2
      BY <1>3, <3>4
    <3> QED BY <1>3, <3>3, <3>4, <3>5
  <2>2. CASE m.kind # "c0c1"
    BY <1>1, <1>3, <2>2
  <2> QED BY <2>1, <2>2
<1>5. /\ requests' \in Seq(Request) /\ Len(requests') \in Nat
      /\ \A i \in 1..Len(requests') :
           \/ i \in 1..Len(requests) /\ requests'[i] = requests[i]
           \/ i = Len(requests) + 1 /\ requests'[i] = m /\ m.kind \in Requests
  <2>1. CASE m.kind \in Requests
    <3>1. m \in Request
      BY <1>3, <2>1 DEF IsRequest, Sends, Request
    <3>2. requests' = Append(requests, m)
      BY <1>1, <2>1
    <3> QED BY <1>3, <2>1, <3>1, <3>2
  <2>2. CASE m.kind \notin Requests
    BY <1>1, <1>3, <2>2
  <2> QED BY <2>1, <2>2
<1>6. \A j \in 1..read : sent[j].kind \in Requests /\ m.kind \in Requests => sent[j].trans # m.trans
  BY <1>3, OneRequestEach DEF m
<1>7. ServerInv'
  <2>1. ASSUME NEW i \in 1..Len(requests')
        PROVE  \E j \in 1..read' : sent'[j].kind \in Requests /\ sent'[j].trans = requests'[i].trans
    <3>1. CASE i \in 1..Len(requests) /\ requests'[i] = requests[i]
      <4>1. PICK j \in 1..read : sent[j].kind \in Requests /\ sent[j].trans = requests[i].trans
        BY <3>1 DEF SessionInv, ServerInv
      <4>2. j \in 1..read'
        BY <1>1, <1>3
      <4> QED BY <1>2, <3>1, <4>1, <4>2
    <3>2. CASE requests'[i] = m /\ m.kind \in Requests
      <4>1. PICK j \in 1..read' : j = read + 1
        BY <1>1, <1>3
      <4> QED BY <1>2, <3>2, <4>1 DEF m
    <3> QED BY <1>5, <3>1, <3>2
  <2>2. ASSUME NEW i \in 1..Len(requests'), NEW j \in 1..Len(requests'), i # j
        PROVE  requests'[i].trans # requests'[j].trans
    BY <1>5, <1>6, <2>2 DEF SessionInv, ServerInv
  <2>3. ASSUME NEW i \in 1..Len(replies'), Result(i)'
        PROVE  i \in 1..Len(replies) /\ Result(i) /\ replies'[i] = replies[i]
    BY <1>4, <2>3 DEF Result
  <2>4. ASSUME NEW i \in 1..Len(replies'), Result(i)'
        PROVE  /\ replies'[i].arg \in StreamIds \cup {NoNumber}
               /\ \E j \in 1..read' : sent'[j].kind \in Requests /\ sent'[j].trans = replies'[i].trans
               /\ \A j \in 1..Len(requests') : requests'[j].trans # replies'[i].trans
               /\ \A j \in 1..Len(replies') : Result(j)' /\ j # i => replies'[j].trans # replies'[i].trans
    <3>1. i \in 1..Len(replies) /\ Result(i) /\ replies'[i] = replies[i]
      BY <2>3, <2>4
    <3>2. PICK j \in 1..read : sent[j].kind \in Requests /\ sent[j].trans = replies[i].trans
      BY <3>1 DEF SessionInv, ServerInv
    <3>3. \E k \in 1..read' : sent'[k].kind \in Requests /\ sent'[k].trans = replies'[i].trans
      BY <1>1, <1>2, <1>3, <3>1, <3>2
    <3>4. ASSUME NEW k \in 1..Len(requests') PROVE requests'[k].trans # replies'[i].trans
      <4>1. CASE k \in 1..Len(requests) /\ requests'[k] = requests[k]
        BY <3>1, <4>1 DEF SessionInv, ServerInv
      <4>2. CASE requests'[k] = m /\ m.kind \in Requests
        BY <1>6, <3>1, <3>2, <4>2
      <4> QED BY <1>5, <4>1, <4>2
    <3>5. ASSUME NEW k \in 1..Len(replies'), Result(k)', k # i
          PROVE  replies'[k].trans # replies'[i].trans
      BY <2>3, <3>1, <3>5 DEF SessionInv, ServerInv
    <3>6. replies'[i].arg \in StreamIds \cup {NoNumber}
      BY <3>1 DEF SessionInv, ServerInv
    <3> QED BY <3>3, <3>4, <3>5, <3>6
  <2>5. \A i \in 1..Len(replies') : replies'[i].kind = "window" => replies'[i].arg \in Windows
    BY <1>4 DEF SessionInv, ServerInv
  <2> QED BY <2>1, <2>2, <2>4, <2>5 DEF ServerInv
<1>8. TypeOK'
  <2>1. read' \in 0..Len(sent') /\ taken' \in 0..Len(replies')
    BY <1>1, <1>2, <1>3, <1>4
  <2> QED BY <1>1, <1>2, <1>4, <1>5, <2>1 DEF SessionInv, TypeOK, Answer, Request
<1>9. SentInv' /\ StatusInv' /\ AckInv' /\ WindowReturned'
  BY <1>1, <1>4, <1>7, RepliesGrow
<1> QED BY <1>7, <1>8, <1>9 DEF SessionInv

(* Requests waiting and results after request i was taken out. *)
LEMMA TakenOut ==
  ASSUME SessionInv, NEW i \in 1..Len(requests), requests' = Without(requests, i),
         UNCHANGED <<read, sent>>
  PROVE  /\ requests' \in Seq(Request) /\ Len(requests') \in Nat
         /\ \A j \in 1..Len(requests') : \E k \in 1..Len(requests) : k # i /\ requests'[j] = requests[k]
         /\ \A j, l \in 1..Len(requests') : j # l => requests'[j].trans # requests'[l].trans
         /\ \A j \in 1..Len(requests') : requests'[j].trans # requests[i].trans
         /\ \A j \in 1..Len(requests') :
              \E k \in 1..read' : sent'[k].kind \in Requests /\ sent'[k].trans = requests'[j].trans
<1>1. requests \in Seq(Request) /\ Len(requests) \in Nat /\ i \in Nat
  BY Typed DEF SessionInv
<1>2. /\ requests' \in Seq(Request) /\ Len(requests') = Len(requests) - 1
      /\ \A j \in 1..(Len(requests) - 1) : requests'[j] = requests[IF j < i THEN j ELSE j + 1]
  BY <1>1, WithoutOK
<1> DEFINE old(j) == IF j < i THEN j ELSE j + 1
<1>3. \A j \in 1..Len(requests') : old(j) \in 1..Len(requests) /\ old(j) # i
  BY <1>1, <1>2
<1>4. \A j, l \in 1..Len(requests') : j # l => old(j) # old(l)
  BY <1>1, <1>2
<1>5. \A j \in 1..Len(requests') : requests'[j] = requests[old(j)]
  BY <1>2
<1> HIDE DEF old
<1>6. \A j, l \in 1..Len(requests') : j # l => requests'[j].trans # requests'[l].trans
  <2>1. \A j, l \in 1..Len(requests) : j # l => requests[j].trans # requests[l].trans
    BY DEF SessionInv, ServerInv
  <2> SUFFICES ASSUME NEW j \in 1..Len(requests'), NEW l \in 1..Len(requests'), j # l
               PROVE  requests'[j].trans # requests'[l].trans
    OBVIOUS
  <2>2. /\ old(j) \in 1..Len(requests) /\ old(l) \in 1..Len(requests) /\ old(j) # old(l)
        /\ requests'[j] = requests[old(j)] /\ requests'[l] = requests[old(l)]
    BY <1>3, <1>4, <1>5
  <2> QED
    BY <2>1, <2>2
<1>7. \A j \in 1..Len(requests') : requests'[j].trans # requests[i].trans
  BY <1>3, <1>5 DEF SessionInv, ServerInv
<1>8. \A j \in 1..Len(requests') :
        \E k \in 1..read : sent[k].kind \in Requests /\ sent[k].trans = requests'[j].trans
  <2>1. \A j \in 1..Len(requests) :
          \E k \in 1..read : sent[k].kind \in Requests /\ sent[k].trans = requests[j].trans
    BY DEF SessionInv, ServerInv
  <2> QED BY <1>3, <1>5, <2>1
<1>9. \A j \in 1..Len(requests') : \E k \in 1..Len(requests) : k # i /\ requests'[j] = requests[k]
  <2>1. SUFFICES ASSUME NEW j \in 1..Len(requests')
                 PROVE  \E k \in 1..Len(requests) : k # i /\ requests'[j] = requests[k]
    OBVIOUS
  <2>2. old(j) \in 1..Len(requests) /\ old(j) # i /\ requests'[j] = requests[old(j)]
    BY <1>3, <1>5
  <2> QED
    BY <2>2
<1>10. requests' \in Seq(Request) /\ Len(requests') \in Nat
  BY <1>2
<1>11. read' = read /\ sent' = sent
  OBVIOUS
<1>12. \A j \in 1..Len(requests') :
         \E k \in 1..read' : sent'[k].kind \in Requests /\ sent'[k].trans = requests'[j].trans
  BY <1>8, <1>11
<1> QED BY <1>6, <1>7, <1>9, <1>10, <1>12

(* An answer, or nothing, in place of request i. *)
LEMMA AnswerOK ==
  ASSUME SessionInv, NEW i \in 1..Len(requests), requests' = Without(requests, i),
         NEW m \in Answer, m.trans = requests[i].trans,
         m.kind = "_error" \/ (m.kind = "_result" /\ m.arg \in StreamIds \cup {NoNumber}),
         replies' = Append(replies, m) \/ replies' = replies,
         UNCHANGED <<clientVars, read, others>>, created' \in Nat, refused' \subseteq 1..4
  PROVE  SessionInv'
<1>1. UNCHANGED <<pc, rtmp_status, rtmp_now_stream_id, acknowledgement_size, sent, taken, lostSend>>
  BY DEF clientVars
<1>2. /\ replies \in Seq(Answer) /\ Len(replies) \in Nat /\ taken \in Nat /\ taken <= Len(replies)
  BY Typed DEF SessionInv
<1>3. /\ replies' \in Seq(Answer) /\ Len(replies') \in Nat /\ Len(replies') >= Len(replies)
      /\ \A k \in 1..Len(replies) : replies'[k] = replies[k]
      /\ \A k \in 1..Len(replies') : \/ k \in 1..Len(replies) /\ replies'[k] = replies[k]
                                     \/ k = Len(replies) + 1 /\ replies'[k] = m
  <2>1. CASE replies' = replies
    BY <1>2, <2>1
  <2>2. CASE replies' = Append(replies, m)
    <3>1. /\ replies' \in Seq(Answer) /\ Len(replies') = Len(replies) + 1
          /\ \A k \in 1..Len(replies) : replies'[k] = replies[k]
          /\ replies'[Len(replies) + 1] = m
      BY <1>2, <2>2
    <3>2. \A k \in 1..Len(replies') : k \in 1..Len(replies) \/ k = Len(replies) + 1
      BY <1>2, <3>1
    <3> QED BY <1>2, <3>1, <3>2
  <2> QED BY <2>1, <2>2
<1>4. /\ requests' \in Seq(Request) /\ Len(requests') \in Nat
      /\ \A j \in 1..Len(requests') : \E k \in 1..Len(requests) : k # i /\ requests'[j] = requests[k]
      /\ \A j, l \in 1..Len(requests') : j # l => requests'[j].trans # requests'[l].trans
      /\ \A j \in 1..Len(requests') : requests'[j].trans # requests[i].trans
      /\ \A j \in 1..Len(requests') :
           \E k \in 1..read' : sent'[k].kind \in Requests /\ sent'[k].trans = requests'[j].trans
  BY <1>1, TakenOut
<1>5. \A k \in 1..Len(replies') : Result(k)' =>
        \/ k \in 1..Len(replies) /\ replies'[k] = replies[k] /\ Result(k)
        \/ k = Len(replies) + 1 /\ replies'[k] = m /\ m.arg \in StreamIds \cup {NoNumber}
  BY <1>3 DEF Result
<1>6. \A k \in 1..Len(replies) : Result(k) => replies[k].trans # m.trans
  BY DEF SessionInv, ServerInv
<1>7. ServerInv'
  <2>1. ASSUME NEW k \in 1..Len(replies'), Result(k)'
        PROVE  /\ replies'[k].arg \in StreamIds \cup {NoNumber}
               /\ \E j \in 1..read' : sent'[j].kind \in Requests /\ sent'[j].trans = replies'[k].trans
               /\ \A j \in 1..Len(requests') : requests'[j].trans # replies'[k].trans
               /\ \A j \in 1..Len(replies') : Result(j)' /\ j # k => replies'[j].trans # replies'[k].trans
    <3>1. CASE k \in 1..Len(replies) /\ replies'[k] = replies[k] /\ Result(k)
      <4>1. /\ replies[k].arg \in StreamIds \cup {NoNumber}
            /\ \E j \in 1..read : sent[j].kind \in Requests /\ sent[j].trans = replies[k].trans
            /\ \A j \in 1..Len(requests) : requests[j].trans # replies[k].trans
            /\ \A j \in 1..Len(replies) : Result(j) /\ j # k => replies[j].trans # replies[k].trans
        BY <3>1 DEF SessionInv, ServerInv
      <4>2. \A j \in 1..Len(requests') : requests'[j].trans # replies'[k].trans
        <5> TAKE j \in 1..Len(requests')
        <5>1. PICK l \in 1..Len(requests) : requests'[j] = requests[l]
          BY <1>4
        <5> QED BY <3>1, <4>1, <5>1
      <4>3. ASSUME NEW j \in 1..Len(replies'), Result(j)', j # k
            PROVE  replies'[j].trans # replies'[k].trans
        BY <1>5, <1>6, <3>1, <4>1, <4>3
      <4> QED BY <1>1, <3>1, <4>1, <4>2, <4>3
    <3>2. CASE k = Len(replies) + 1 /\ replies'[k] = m /\ m.arg \in StreamIds \cup {NoNumber}
      <4>1. \E j \in 1..read : sent[j].kind \in Requests /\ sent[j].trans = m.trans
        BY DEF SessionInv, ServerInv
      <4>2. ASSUME NEW j \in 1..Len(replies'), Result(j)', j # k
            PROVE  replies'[j].trans # m.trans
        BY <1>5, <1>6, <3>2, <4>2
      <4> QED BY <1>1, <1>4, <3>2, <4>1, <4>2
    <3> QED BY <1>5, <2>1, <3>1, <3>2
  <2>2. \A k \in 1..Len(replies') : replies'[k].kind = "window" => replies'[k].arg \in Windows
    BY <1>3 DEF SessionInv, ServerInv
  <2> QED BY <1>4, <2>1, <2>2 DEF ServerInv
<1>8. TypeOK'
  <2>1. taken' \in 0..Len(replies') /\ read' \in 0..Len(sent')
    BY <1>1, <1>2, <1>3, Typed DEF SessionInv, TypeOK
  <2> QED BY <1>1, <1>3, <1>4, <2>1 DEF SessionInv, TypeOK, Answer, Request
<1>9. SentInv' /\ StatusInv' /\ AckInv' /\ WindowReturned'
  BY <1>3, <1>7, RepliesGrow
<1> QED BY <1>7, <1>8, <1>9 DEF SessionInv

LEMMA ServerAnswersOK == SessionInv /\ ServerAnswers => SessionInv'
<1> SUFFICES ASSUME SessionInv, ServerAnswers PROVE SessionInv'
  OBVIOUS
<1>1. PICK i \in 1..Len(requests), arg \in StreamIds \cup {NoNumber} :
        /\ arg \in Answers(requests[i])
        /\ replies' = Append(replies, Msg("_result", requests[i].trans, arg))
        /\ requests' = Without(requests, i)
        /\ created' = IF requests[i].kind = "createStream" THEN arg ELSE created
        /\ UNCHANGED <<clientVars, read, refused, others>>
  BY DEF ServerAnswers
<1> DEFINE m == Msg("_result", requests[i].trans, arg)
<1>2. requests[i] \in Request
  BY Typed DEF SessionInv
<1>3. m \in Answer /\ m.trans = requests[i].trans /\ m.kind = "_result" /\ m.arg = arg
  <2>1. arg \in Int /\ requests[i].trans \in 0..5
    BY <1>2, SessionAssumption DEF NoNumber, Request
  <2> QED BY <2>1 DEF Msg, Answer, ReplyKinds
<1>4. created' \in Nat /\ refused' \subseteq 1..4
  BY <1>1, SessionAssumption DEF Answers, SessionInv, TypeOK
<1>5. replies' = Append(replies, m)
  BY <1>1
<1> HIDE DEF m
<1>6. requests' = Without(requests, i) /\ UNCHANGED <<clientVars, read, others>>
  BY <1>1
<1>7. m.arg \in StreamIds \cup {NoNumber}
  BY <1>3
<1> QED BY <1>3, <1>4, <1>5, <1>6, <1>7, AnswerOK

LEMMA ServerRefusesOK == SessionInv /\ ServerRefuses => SessionInv'
<1> SUFFICES ASSUME SessionInv, ServerRefuses PROVE SessionInv'
  OBVIOUS
<1>1. PICK i \in 1..Len(requests) :
        /\ refused' = refused \cup {requests[i].trans}
        /\ requests' = Without(requests, i)
        /\ \/ replies' = Append(replies, Msg("_error", requests[i].trans, NoNumber))
           \/ UNCHANGED replies
        /\ UNCHANGED <<clientVars, read, created, others>>
  BY DEF ServerRefuses
<1> DEFINE m == Msg("_error", requests[i].trans, NoNumber)
<1>2. requests[i].trans \in 1..4
  BY Typed DEF SessionInv, Request
<1>3. m \in Answer /\ m.trans = requests[i].trans /\ m.kind = "_error"
  BY <1>2 DEF Msg, Answer, ReplyKinds, NoNumber
<1>4. created' \in Nat /\ refused' \subseteq 1..4
  BY <1>1, <1>2 DEF SessionInv, TypeOK
<1>5. replies' = Append(replies, m) \/ replies' = replies
  BY <1>1
<1> HIDE DEF m
<1>6. requests' = Without(requests, i) /\ UNCHANGED <<clientVars, read, others>>
  BY <1>1
<1>7. m.kind = "_error" \/ (m.kind = "_result" /\ m.arg \in StreamIds \cup {NoNumber})
  BY <1>3
<1>8. UNCHANGED <<clientVars, read, others>>
  BY <1>6
<1>9. m \in Answer /\ m.trans = requests[i].trans
  BY <1>3
<1> QED BY <1>4, <1>5, <1>6, <1>7, <1>8, <1>9, AnswerOK

LEMMA ServerSpeaksOK == SessionInv /\ ServerSpeaks => SessionInv'
<1> SUFFICES ASSUME SessionInv, ServerSpeaks PROVE SessionInv'
  OBVIOUS
<1>1. /\ others < MaxOther /\ others' = others + 1
      /\ UNCHANGED <<clientVars, read, requests, refused, created>>
  BY DEF ServerSpeaks
<1>2. UNCHANGED <<pc, rtmp_status, rtmp_now_stream_id, acknowledgement_size, sent, taken, lostSend>>
  BY <1>1 DEF clientVars
<1>3. PICK m \in Answer : /\ replies' = Append(replies, m) /\ m.kind # "_result"
                          /\ m.kind = "window" => m.arg \in Windows
  <2>1. ASSUME NEW w \in Windows
        PROVE  Msg("window", 0, w) \in Answer /\ Msg("window", 0, w).kind = "window"
               /\ Msg("window", 0, w).arg \in Windows
    BY SessionAssumption DEF Msg, Answer, ReplyKinds
  <2>2. /\ Plain("other") \in Answer /\ Plain("other").kind = "other"
        /\ Plain("media") \in Answer /\ Plain("media").kind = "media"
    BY DEF Plain, Msg, NoNumber, Answer, ReplyKinds
  <2> QED BY <2>1, <2>2 DEF ServerSpeaks
<1>4. /\ replies' \in Seq(Answer) /\ Len(replies') = Len(replies) + 1 /\ Len(replies) \in Nat
      /\ \A k \in 1..Len(replies) : replies'[k] = replies[k]
      /\ replies'[Len(replies) + 1] = m
  BY <1>3, Typed DEF SessionInv
<1>5. \A k \in 1..Len(replies') : \/ k \in 1..Len(replies) /\ replies'[k] = replies[k]
                                  \/ k = Len(replies) + 1 /\ replies'[k] = m
  BY <1>4
<1>6. ServerInv'
  <2>1. \A k \in 1..Len(replies') : Result(k)' =>
          k \in 1..Len(replies) /\ Result(k) /\ replies'[k] = replies[k]
    BY <1>3, <1>5 DEF Result
  <2>2. \A k \in 1..Len(replies') : replies'[k].kind = "window" => replies'[k].arg \in Windows
    BY <1>3, <1>5 DEF SessionInv, ServerInv
  <2> QED BY <1>1, <1>2, <2>1, <2>2 DEF SessionInv, ServerInv
<1>7. TypeOK'
  <2>1. taken' \in 0..Len(replies') /\ read' \in 0..Len(sent') /\ others' \in 0..MaxOther
    BY <1>1, <1>2, <1>4, Typed, SessionAssumption DEF SessionInv, TypeOK
  <2> QED BY <1>1, <1>2, <1>4, <2>1 DEF SessionInv, TypeOK, Answer
<1>8. SentInv' /\ StatusInv' /\ AckInv' /\ WindowReturned'
  BY <1>1, <1>4, <1>6, RepliesGrow
<1> QED BY <1>6, <1>7, <1>8 DEF SessionInv

-----------------------------------------------------------------------------
LEMMA NextOK == SessionInv /\ [Next]_vars => SessionInv'
<1> SUFFICES ASSUME SessionInv, [Next]_vars PROVE SessionInv'
  OBVIOUS
<1>1. CASE StartPlay
  BY <1>1, StartPlayOK
<1>2. CASE ThreadStep
  BY <1>2, HandleS0S1OK, HandleS2OK, HandleWindowOK, HandleOtherOK, HandleConnectResultOK,
     HandleCreateStreamResultOK DEF ThreadStep
<1>3. CASE ReceiveEnds
  BY <1>3, ReceiveEndsOK
<1>4. CASE ServerServes
  BY <1>4, ServerReadsOK, ServerAnswersOK, ServerRefusesOK DEF ServerServes
<1>5. CASE ServerSpeaks
  BY <1>5, ServerSpeaksOK
<1>6. CASE UNCHANGED vars
  BY <1>6 DEF vars, clientVars, serverVars, SessionInv, TypeOK, SentInv, ServerInv, StatusInv,
              AckInv, WindowReturned, Result
<1> QED BY <1>1, <1>2, <1>3, <1>4, <1>5, <1>6 DEF Next

(* SessionInv is an invariant.                                             *)
THEOREM SessionInvHolds == Spec => []SessionInv
<1> QED BY InitOK, NextOK, PTL DEF Spec

(* Types: every member keeps to its range, both directions are sequences   *)
(* of messages, and neither end reads past what the other has sent.        *)
THEOREM Typing == Spec => []TypeOK
<1>1. SessionInv => TypeOK
  BY DEF SessionInv
<1> QED BY <1>1, SessionInvHolds, PTL

(* Whatever the server answers, in whatever order, and whichever Sends     *)
(* fail, every message goes out at most once and in the script's order.    *)
THEOREM AlwaysSentOnceInOrder == Spec => []SentOnceInOrder
<1>1. SessionInv => SentOnceInOrder
  BY DEF SessionInv, SentInv, Ordered, SentOnceInOrder
<1> QED BY <1>1, SessionInvHolds, PTL

(* Nothing is sent before the answer that releases it, though the client   *)
(* does not look at which request a _result belongs to.                    *)
THEOREM AlwaysReleasedByResult == Spec => []ReleasedByResult
<1>1. ASSUME SessionInv PROVE ReleasedByResult
  <2> SUFFICES ASSUME NEW i \in 1..Len(sent)
               PROVE  /\ Place(sent[i].kind) > 3 =>
                           \E k \in 1..taken : replies[k].kind = "_result" /\ replies[k].trans = 1
                      /\ Place(sent[i].kind) > 6 =>
                           \E k, l \in 1..taken :
                             /\ replies[k].kind = "_result" /\ replies[l].kind = "_result"
                             /\ k < l /\ replies[k].trans = 1 /\ replies[l].trans \in {2, 3}
    BY DEF ReleasedByResult
  <2> QED BY <1>1, StageReached DEF SessionInv, StatusInv, Result
<1> QED BY <1>1, SessionInvHolds, PTL

(* The window size handed back is the one announced last before connect    *)
(* was accepted, whatever acknowledgement_size held at first.              *)
THEOREM AlwaysWindowReturned == Spec => []WindowReturned
<1>1. SessionInv => WindowReturned
  BY DEF SessionInv
<1> QED BY <1>1, SessionInvHolds, PTL

-----------------------------------------------------------------------------
(***************************************************************************)
(* Proof that play names the stream the server created.  The client takes  *)
(* the number of whatever "_result" comes first in wait_create_stream for  *)
(* the id of its stream; that this is createStream's rests on the server:  *)
(* requests wait in the order of their transactions (QueueInv), so no      *)
(* later result overtakes createStream's (CreatedInv), and the client has  *)
(* taken nothing but connect's result when it waits for it (TakenInv).     *)
(***************************************************************************)
(* A server that answers in order and creates the stream, with an id that  *)
(* fits the byte play has for it.                                          *)
OrderedServer ==
  InOrder /\ 2 \notin Refusals /\ \A id \in StreamIds : id < ByteValues

QueueInv ==
  /\ \A i \in 1..Len(requests) : IsRequest(requests[i])
  /\ \A i, j \in 1..Len(requests) : i < j => requests[i].trans < requests[j].trans

(* What comes after createStream in the script was not sent without it.    *)
AskedInv ==
  \A i \in 1..Len(sent) :
    Place(sent[i].kind) > 5 => \E j \in 1..(i - 1) : sent[j].kind = "createStream"

StreamResult(k) == Result(k) /\ replies[k].trans = 2

CreatedInv ==
  /\ \A i \in 1..read : sent[i].kind = "createStream" =>
       \/ \E j \in 1..Len(requests) : requests[j].trans = 2
       \/ \E k \in 1..Len(replies) : StreamResult(k)
  /\ \A c \in 1..Len(replies) : Result(c) /\ replies[c].trans > 2 =>
       \E k \in 1..(c - 1) : StreamResult(k)
  /\ \A c \in 1..Len(replies) : StreamResult(c) =>
       created = replies[c].arg /\ created \in StreamIds

TakenInv ==
  \A k \in 1..taken : Result(k) /\ replies[k].trans # 1 =>
    rtmp_status = "wait_play" \/ pc = "done"

PlayInv == QueueInv /\ AskedInv /\ CreatedInv /\ TakenInv /\ PlayOnStream

-----------------------------------------------------------------------------
LEMMA OrderedPlace ==
  ASSUME NEW s, NEW n, Ordered(s, n), NEW i \in 1..Len(s)
  PROVE  /\ s[i] \in Sends /\ Place(s[i].kind) \in 1..9 /\ Place(s[i].kind) <= n
         /\ IsRequest(s[i])
<1>1. s[i] \in Sends
  BY DEF Ordered
<1>2. s[i].kind \in Kinds
  BY <1>1 DEF Sends
<1> QED BY <1>1, <1>2, PlaceTyped DEF Ordered

(* Transactions are numbered in the order of the script. *)
LEMMA RequestPlaces ==
  /\ \A t, u \in 1..4 : RequestPlace(t) < RequestPlace(u) => t < u
  /\ \A t \in 1..4 : /\ RequestPlace(t) = 5 <=> t = 2
                     /\ RequestPlace(t) > 5 <=> t > 2
<1>1. \A t \in 1..4 : t = 1 \/ t = 2 \/ t = 3 \/ t = 4
  OBVIOUS
<1>2. RequestPlace(1) = 3 /\ RequestPlace(2) = 5 /\ RequestPlace(3) = 6 /\ RequestPlace(4) = 7
  BY DEF RequestPlace
<1> QED BY <1>1, <1>2

LEMMA StreamRequest ==
  ASSUME NEW m, m.kind \in Requests, IsRequest(m)
  PROVE  /\ m.trans \in 1..4
         /\ m.kind = "createStream" <=> m.trans = 2
         /\ m.trans > 2 <=> Place(m.kind) > 5
<1>1. m.trans \in 1..4 /\ Place(m.kind) = RequestPlace(m.trans)
  BY DEF IsRequest
<1>2. m.kind = "createStream" <=> Place(m.kind) = 5
  BY Places DEF Requests
<1> QED BY <1>1, <1>2, RequestPlaces

(* A request that waits, or was answered, was read: if it comes after      *)
(* createStream in the script, createStream was read before it.            *)
LEMMA StreamAsked ==
  ASSUME SessionInv, AskedInv, NEW j \in 1..read, sent[j].kind \in Requests, sent[j].trans > 1
  PROVE  \E i \in 1..read : sent[i].kind = "createStream"
<1>1. j \in 1..Len(sent) /\ read \in Nat
  BY Typed DEF SessionInv
<1>2. IsRequest(sent[j])
  BY <1>1 DEF SessionInv, SentInv, Ordered
<1>5. /\ sent[j].trans \in 1..4
      /\ sent[j].kind = "createStream" <=> sent[j].trans = 2
      /\ sent[j].trans > 2 <=> Place(sent[j].kind) > 5
  BY <1>2, StreamRequest
<1>3. CASE sent[j].trans = 2
  BY <1>3, <1>5
<1>4. CASE sent[j].trans # 2
  <2>1. sent[j].trans > 2
    BY <1>4, <1>5
  <2>2. Place(sent[j].kind) > 5
    BY <1>5, <2>1
  <2>3. PICK i \in 1..(j - 1) : sent[i].kind = "createStream"
    BY <1>1, <2>2 DEF AskedInv
  <2>4. i \in 1..read
    BY <1>1
  <2> QED BY <2>3, <2>4
<1> QED BY <1>3, <1>4

-----------------------------------------------------------------------------
(* The client's steps.  The server's part of the invariant stays true when *)
(* the client sends more.                                                  *)
LEMMA ServerKeeps ==
  ASSUME SessionInv, PlayInv, UNCHANGED serverVars, \A i \in 1..Len(sent) : sent'[i] = sent[i]
  PROVE  QueueInv' /\ CreatedInv'
<1>1. UNCHANGED <<read, replies, requests, created>>
  BY DEF serverVars
<1>2. \A i \in 1..read : sent'[i] = sent[i]
  BY Typed DEF SessionInv
<1>3. \A k : StreamResult(k)' <=> StreamResult(k)
  BY <1>1 DEF StreamResult, Result
<1>4. \A k : Result(k)' <=> Result(k)
  BY <1>1 DEF Result
<1>5. QueueInv'
  BY <1>1 DEF PlayInv, QueueInv, IsRequest
<1>6. CreatedInv'
  BY <1>1, <1>2, <1>3, <1>4 DEF PlayInv, CreatedInv
<1> QED BY <1>5, <1>6

(* Before connect was accepted neither createStream nor play is sent.      *)
LEMMA EarlySends ==
  ASSUME NEW n \in 0..3, Ordered(sent', n)
  PROVE  AskedInv' /\ PlayOnStream'
<1>1. \A i \in 1..Len(sent') : Place(sent'[i].kind) \in 1..9 /\ Place(sent'[i].kind) <= n
  BY OrderedPlace
<1>2. \A i \in 1..Len(sent') : sent'[i].kind # "play"
  BY <1>1, Places
<1> QED BY <1>1, <1>2 DEF AskedInv, PlayOnStream

LEMMA NothingSent ==
  ASSUME PlayInv, UNCHANGED <<sent, created>>
  PROVE  AskedInv' /\ PlayOnStream'
BY DEF PlayInv, AskedInv, PlayOnStream

(* Taking in what is no result, or one that cannot be another's.           *)
LEMMA TakesOne ==
  ASSUME SessionInv, PlayInv, Arrived, taken' = taken + 1, UNCHANGED replies,
         \/ rtmp_status' = rtmp_status
         \/ rtmp_status # "wait_play",
         Reply.kind = "_result" /\ Reply.trans # 1 => rtmp_status' = "wait_play" \/ pc' = "done"
  PROVE  TakenInv'
<1> SUFFICES ASSUME NEW k \in 1..taken', Result(k), replies[k].trans # 1
             PROVE  rtmp_status' = "wait_play" \/ pc' = "done"
  BY DEF TakenInv, Result
<1>1. taken \in Nat /\ pc = "recv"
  BY ArrivedOK
<1>2. CASE k \in 1..taken
  <2>1. rtmp_status = "wait_play"
    BY <1>1, <1>2 DEF PlayInv, TakenInv
  <2> QED BY <2>1
<1>3. CASE k = taken + 1
  BY <1>3 DEF Reply, Result
<1> QED BY <1>1, <1>2, <1>3

LEMMA InitPlay == Init => PlayInv
BY DEF Init, PlayInv, QueueInv, AskedInv, CreatedInv, TakenInv, PlayOnStream

LEMMA StartPlayPlays == SessionInv /\ PlayInv /\ SessionInv' /\ StartPlay => PlayInv'
<1> SUFFICES ASSUME SessionInv, PlayInv, SessionInv', StartPlay PROVE PlayInv'
  OBVIOUS
<1>1. UNCHANGED serverVars /\ UNCHANGED <<taken, replies, created>>
  BY DEF StartPlay, serverVars
<1>2. pc = "start" /\ rtmp_status = "init" /\ Ordered(sent, 0) /\ sent \in Seq(Sends) /\ Len(sent) \in Nat
  BY Typed DEF StartPlay, SessionInv, SentInv, Stage
<1>3. TakenInv'
  <2>1. \A k \in 1..taken : ~(Result(k) /\ replies[k].trans # 1)
    BY <1>2 DEF PlayInv, TakenInv
  <2> QED BY <1>1, <2>1 DEF TakenInv, Result
<1>4. AskedInv' /\ PlayOnStream'
  <2>1. \E n \in 0..3 : Ordered(sent', n)
    <3>1. Stage(rtmp_status') \in 0..3
      BY <1>2 DEF StartPlay, Stage
    <3> QED BY <3>1 DEF SessionInv, SentInv
  <2> QED BY <2>1, EarlySends
<1>5. \A i \in 1..Len(sent) : sent'[i] = sent[i]
  <2>1. sent' = sent \/ sent' = Append(sent, Plain("c0c1"))
    BY <1>2 DEF StartPlay, SendOne
  <2> QED BY <1>2, <2>1
<1> QED BY <1>1, <1>3, <1>4, <1>5, ServerKeeps DEF PlayInv

(* The two steps of the handshake send nothing that comes after connect.   *)
LEMMA HandshakePlays ==
  ASSUME SessionInv, PlayInv, SessionInv', Arrived, taken' = taken + 1,
         Reply.kind # "_result", rtmp_status # "wait_play",
         NEW m, NEW ok \in BOOLEAN, SendOne(<<m>>, ok), Stage(rtmp_status') \in 0..3,
         UNCHANGED serverVars
  PROVE  PlayInv'
<1>1. UNCHANGED <<replies, created>> /\ sent \in Seq(Sends) /\ Len(sent) \in Nat
  BY Typed DEF serverVars, SessionInv
<1>2. \A i \in 1..Len(sent) : sent'[i] = sent[i]
  <2>1. sent' = sent \/ sent' = Append(sent, m)
    BY <1>1 DEF SendOne
  <2> QED BY <1>1, <2>1
<1>3. Ordered(sent', Stage(rtmp_status'))
  BY DEF SessionInv, SentInv
<1>4. AskedInv' /\ PlayOnStream'
  <2>1. \E n \in 0..3 : Ordered(sent', n)
    BY <1>3
  <2> QED BY <2>1, EarlySends
<1>5. TakenInv'
  BY <1>1, TakesOne
<1>6. QueueInv' /\ CreatedInv'
  BY <1>2, ServerKeeps
<1> QED BY <1>4, <1>5, <1>6 DEF PlayInv

LEMMA HandleS0S1Plays == SessionInv /\ PlayInv /\ SessionInv' /\ HandleS0S1 => PlayInv'
<1> SUFFICES ASSUME SessionInv, PlayInv, SessionInv', HandleS0S1 PROVE PlayInv'
  OBVIOUS
<1> DEFINE m == Plain("c2")
<1>1. PICK ok \in BOOLEAN : /\ SendOne(<<m>>, ok)
                            /\ rtmp_status' = IF ok THEN "wait_s2" ELSE "send_c2"
  BY DEF HandleS0S1
<1> HIDE DEF m
<1>2. Stage(rtmp_status') \in 0..3
  BY <1>1 DEF Stage
<1>3. /\ Arrived /\ taken' = taken + 1 /\ rtmp_status # "wait_play" /\ Reply.kind # "_result"
      /\ UNCHANGED serverVars
  BY DEF HandleS0S1
<1> QED BY <1>1, <1>2, <1>3, HandshakePlays

LEMMA HandleS2Plays == SessionInv /\ PlayInv /\ SessionInv' /\ HandleS2 => PlayInv'
<1> SUFFICES ASSUME SessionInv, PlayInv, SessionInv', HandleS2 PROVE PlayInv'
  OBVIOUS
<1> DEFINE m == Msg("connect", 1, NoNumber)
<1>1. PICK ok \in BOOLEAN : /\ SendOne(<<m>>, ok)
                            /\ rtmp_status' = IF ok THEN "wait_connect" ELSE rtmp_status
  BY DEF HandleS2
<1> HIDE DEF m
<1>2. Stage(rtmp_status') \in 0..3
  <2>1. rtmp_status' \in {"wait_connect", "wait_s2"}
    BY <1>1 DEF HandleS2
  <2> QED BY <2>1 DEF Stage
<1>3. /\ Arrived /\ taken' = taken + 1 /\ rtmp_status # "wait_play" /\ Reply.kind # "_result"
      /\ UNCHANGED serverVars
  BY DEF HandleS2
<1> QED BY <1>1, <1>2, <1>3, HandshakePlays

(* Steps that send nothing and leave the status alone.                     *)
LEMMA QuietPlays ==
  ASSUME SessionInv, PlayInv, UNCHANGED <<rtmp_status, sent, serverVars>>, TakenInv'
  PROVE  PlayInv'
<1>1. UNCHANGED serverVars /\ UNCHANGED <<sent, created>>
  BY DEF serverVars
<1>2. QueueInv' /\ CreatedInv'
  BY <1>1, ServerKeeps
<1>3. AskedInv' /\ PlayOnStream'
  BY <1>1, NothingSent
<1> QED BY <1>2, <1>3 DEF PlayInv

LEMMA HandleWindowPlays == SessionInv /\ PlayInv /\ HandleWindow => PlayInv'
<1> SUFFICES ASSUME SessionInv, PlayInv, HandleWindow PROVE PlayInv'
  OBVIOUS
<1>1. /\ Arrived /\ taken' = taken + 1 /\ Reply.kind = "window"
      /\ UNCHANGED <<rtmp_status, sent, serverVars>> /\ UNCHANGED replies
  BY DEF HandleWindow, Processing, serverVars
<1>2. TakenInv'
  BY <1>1, TakesOne
<1> QED BY <1>1, <1>2, QuietPlays

LEMMA HandleOtherPlays == SessionInv /\ PlayInv /\ HandleOther => PlayInv'
<1> SUFFICES ASSUME SessionInv, PlayInv, HandleOther PROVE PlayInv'
  OBVIOUS
<1>1. /\ Arrived /\ taken' = taken + 1 /\ (Reply.kind = "_result" => rtmp_status = "wait_play")
      /\ UNCHANGED <<rtmp_status, sent, serverVars>> /\ UNCHANGED replies
  BY DEF HandleOther, Processing, IsResult, serverVars
<1>2. TakenInv'
  BY <1>1, TakesOne
<1> QED BY <1>1, <1>2, QuietPlays

LEMMA ReceiveEndsPlays == SessionInv /\ PlayInv /\ ReceiveEnds => PlayInv'
<1> SUFFICES ASSUME SessionInv, PlayInv, ReceiveEnds PROVE PlayInv'
  OBVIOUS
<1>1. pc' = "done" /\ UNCHANGED <<rtmp_status, sent, serverVars>>
  BY DEF ReceiveEnds
<1>2. TakenInv'
  BY <1>1 DEF TakenInv
<1> QED BY <1>1, <1>2, QuietPlays

LEMMA HandleConnectResultPlays ==
  SessionInv /\ PlayInv /\ SessionInv' /\ HandleConnectResult => PlayInv'
<1> SUFFICES ASSUME SessionInv, PlayInv, SessionInv', HandleConnectResult PROVE PlayInv'
  OBVIOUS
<1> DEFINE a == Msg("win_ack", 0, acknowledgement_size)
           b == Msg("createStream", 2, NoNumber)
           c == Msg("_checkbw", 3, NoNumber)
<1>1. /\ a \in Sends /\ b \in Sends /\ c \in Sends
      /\ a.kind = "win_ack" /\ b.kind = "createStream" /\ c.kind = "_checkbw"
  BY Typed DEF SessionInv, TypeOK, Msg, NoNumber, Sends, Kinds
<1>2. PICK ok \in BOOLEAN : SendOne(<<a, b, c>>, ok)
  BY DEF HandleConnectResult
<1> HIDE DEF a, b, c
<1>3. /\ Arrived /\ taken' = taken + 1 /\ rtmp_status = "wait_connect" /\ IsResult(Reply)
      /\ rtmp_status' = "wait_create_stream" /\ UNCHANGED serverVars /\ UNCHANGED <<replies, created>>
  BY DEF HandleConnectResult, Processing, AfterConnect, serverVars
<1>4. sent \in Seq(Sends) /\ Len(sent) \in Nat
      /\ \A i \in 1..Len(sent) : Place(sent[i].kind) \in 1..9 /\ Place(sent[i].kind) <= 3
  <2>1. Ordered(sent, 3)
    BY <1>3 DEF SessionInv, SentInv, Stage
  <2> QED BY <2>1, OrderedPlace, Typed DEF SessionInv
<1>5. /\ \A i \in 1..Len(sent) : sent'[i] = sent[i]
      /\ \A i \in 1..Len(sent') :
           \/ i \in 1..Len(sent)
           \/ i = Len(sent) + 1 /\ sent'[i] = a
           \/ i = Len(sent) + 2 /\ sent'[i] = b
           \/ i = Len(sent) + 3 /\ sent'[i] = c /\ sent'[i - 1] = b
  <2>1. CASE ok
    <3>1. sent' = sent \o <<a, b, c>>
      BY <1>2, <2>1 DEF SendOne
    <3>2. /\ Len(sent') = Len(sent) + 3 /\ \A i \in 1..Len(sent) : sent'[i] = sent[i]
          /\ sent'[Len(sent) + 1] = a /\ sent'[Len(sent) + 2] = b /\ sent'[Len(sent) + 3] = c
      BY <1>1, <1>4, <3>1, ThreeMore
    <3>3. \A i \in 1..Len(sent') : i \in 1..Len(sent) \/ i = Len(sent) + 1 \/ i = Len(sent) + 2
                                   \/ i = Len(sent) + 3
      BY <1>4, <3>2
    <3>4. (Len(sent) + 3) - 1 = Len(sent) + 2
      BY <1>4
    <3> QED BY <3>2, <3>3, <3>4
  <2>2. CASE ~ok
    BY <1>2, <2>2 DEF SendOne
  <2> QED BY <2>1, <2>2
<1>6. AskedInv'
  <2> SUFFICES ASSUME NEW i \in 1..Len(sent'), Place(sent'[i].kind) > 5
               PROVE  \E j \in 1..(i - 1) : sent'[j].kind = "createStream"
    BY DEF AskedInv
  <2>1. i = Len(sent) + 3 /\ sent'[i - 1] = b
    BY <1>1, <1>4, <1>5, Places
  <2>2. i - 1 \in 1..(i - 1)
    BY <1>4, <2>1
  <2> QED BY <1>1, <2>1, <2>2
<1>7. PlayOnStream'
  <2>1. ASSUME NEW i \in 1..Len(sent') PROVE sent'[i].kind # "play"
    BY SMTT(30), <1>1, <1>4, <1>5, Places
  <2> QED BY <2>1 DEF PlayOnStream
<1>8. TakenInv'
  <2>1. Reply.trans = 1
    BY <1>3, StatusByConnect
  <2> QED BY <1>3, <2>1, TakesOne
<1>9. QueueInv' /\ CreatedInv'
  BY <1>3, <1>5, ServerKeeps
<1> QED BY <1>6, <1>7, <1>8, <1>9 DEF PlayInv

(* A Send that may fail. *)
LEMMA MayMore ==
  ASSUME NEW s \in Seq(Sends), NEW m \in Sends, NEW P \in BOOLEAN,
         NEW t, t = s \o (IF P THEN <<m>> ELSE <<>>)
  PROVE  /\ t \in Seq(Sends) /\ Len(t) \in Nat /\ Len(t) >= Len(s)
         /\ \A i \in 1..Len(s) : t[i] = s[i]
         /\ \A i \in 1..Len(t) : i \in 1..Len(s) \/ t[i] = m
<1>1. CASE P
  <2>1. t = Append(s, m)
    BY <1>1
  <2> QED BY <2>1
<1>2. CASE ~P
  <2>1. t = s
    BY <1>2, ConcatEmptySeq
  <2> QED BY <2>1
<1> QED BY <1>1, <1>2

LEMMA ThreeMayMore ==
  ASSUME NEW a \in Sends, NEW b \in Sends, NEW c \in Sends, NEW ok \in SUBSET (1..3),
         sent \in Seq(Sends), Send3(<<a>>, <<b>>, <<c>>, ok)
  PROVE  /\ Len(sent') >= Len(sent) /\ \A i \in 1..Len(sent) : sent'[i] = sent[i]
         /\ \A i \in 1..Len(sent') : i \in 1..Len(sent) \/ sent'[i] \in {a, b, c}
<1> DEFINE s1 == sent \o (IF 1 \in ok THEN <<a>> ELSE <<>>)
           s2 == s1 \o (IF 2 \in ok THEN <<b>> ELSE <<>>)
           s3 == s2 \o (IF 3 \in ok THEN <<c>> ELSE <<>>)
<1>1. sent' = s3 /\ Len(sent) \in Nat
  BY DEF Send3
<1>2. /\ s1 \in Seq(Sends) /\ Len(s1) \in Nat /\ Len(s1) >= Len(sent)
      /\ \A i \in 1..Len(sent) : s1[i] = sent[i]
      /\ \A i \in 1..Len(s1) : i \in 1..Len(sent) \/ s1[i] = a
  BY MayMore
<1> HIDE DEF s1
<1>3. /\ s2 \in Seq(Sends) /\ Len(s2) \in Nat /\ Len(s2) >= Len(s1)
      /\ \A i \in 1..Len(s1) : s2[i] = s1[i]
      /\ \A i \in 1..Len(s2) : i \in 1..Len(s1) \/ s2[i] = b
  BY <1>2, MayMore
<1> HIDE DEF s2
<1>4. /\ s3 \in Seq(Sends) /\ Len(s3) \in Nat /\ Len(s3) >= Len(s2)
      /\ \A i \in 1..Len(s2) : s3[i] = s2[i]
      /\ \A i \in 1..Len(s3) : i \in 1..Len(s2) \/ s3[i] = c
  BY <1>3, MayMore
<1> HIDE DEF s3
<1>5. \A i \in 1..Len(sent) : s3[i] = sent[i]
  <2>1. \A i \in 1..Len(sent) : i \in 1..Len(s1) /\ i \in 1..Len(s2)
    BY <1>1, <1>2, <1>3
  <2> QED BY <1>2, <1>3, <1>4, <2>1
<1>6. ASSUME NEW i \in 1..Len(s3) PROVE i \in 1..Len(sent) \/ s3[i] \in {a, b, c}
  <2>1. CASE i \in 1..Len(s2) /\ i \in 1..Len(s1)
    BY <1>2, <1>3, <1>4, <2>1
  <2>2. CASE i \in 1..Len(s2) /\ i \notin 1..Len(s1)
    BY <1>3, <1>4, <2>2
  <2>3. CASE i \notin 1..Len(s2)
    BY <1>4, <2>3
  <2> QED BY <2>1, <2>2, <2>3
<1>7. Len(s3) >= Len(sent)
  BY <1>1, <1>2, <1>3, <1>4
<1> QED BY <1>1, <1>5, <1>6, <1>7

(* The first result taken in wait_create_stream is createStream's: another *)
(* one would have come behind it, and then it would have been taken first. *)
LEMMA StreamFirst ==
  ASSUME SessionInv, PlayInv, Arrived, rtmp_status = "wait_create_stream", IsResult(Reply)
  PROVE  StreamResult(taken + 1) /\ taken + 1 \in 1..Len(replies) /\ Reply = replies[taken + 1]
<1>1. /\ Result(taken + 1) /\ taken + 1 \in 1..Len(replies) /\ Reply = replies[taken + 1]
      /\ taken \in Nat /\ pc = "recv"
  BY ArrivedOK DEF IsResult, Result, Reply
<1>2. Reply.trans \in {2, 3}
  BY StatusByStream
<1>3. Reply.trans # 3
  <2> SUFFICES ASSUME Reply.trans = 3 PROVE FALSE
    OBVIOUS
  <2>1. PICK k \in 1..((taken + 1) - 1) : StreamResult(k)
    BY <1>1 DEF PlayInv, CreatedInv
  <2>2. k \in 1..taken
    BY <1>1
  <2> QED BY <1>1, <2>1, <2>2 DEF PlayInv, TakenInv, StreamResult
<1> QED BY <1>1, <1>2, <1>3 DEF StreamResult

LEMMA HandleCreateStreamResultPlays ==
  OrderedServer /\ SessionInv /\ PlayInv /\ HandleCreateStreamResult => PlayInv'
<1> SUFFICES ASSUME OrderedServer, SessionInv, PlayInv, HandleCreateStreamResult PROVE PlayInv'
  OBVIOUS
<1>1. /\ Arrived /\ taken' = taken + 1 /\ rtmp_status = "wait_create_stream" /\ IsResult(Reply)
      /\ UNCHANGED serverVars /\ UNCHANGED <<replies, created, read>>
  BY DEF HandleCreateStreamResult, Processing, serverVars
<1>2. StreamResult(taken + 1) /\ taken + 1 \in 1..Len(replies) /\ Reply = replies[taken + 1]
  BY <1>1, StreamFirst
<1>3. created = Reply.arg /\ created \in StreamIds
  BY <1>2 DEF PlayInv, CreatedInv
<1>4. created \in Nat /\ created > 0 /\ StreamByte(Reply.arg) = created
  BY <1>3, SessionAssumption DEF OrderedServer, StreamByte
<1>5. HasNumber(Reply)
  BY <1>3, <1>4 DEF HasNumber, NoNumber
<1> DEFINE a == Msg("getStreamLength", 4, NoNumber)
           b == Msg("play", 5, StreamByte(Reply.arg))
           c == Msg("setBufferLength", 0, 1)
<1>6. PICK ok \in SUBSET (1..3) : Send3(<<a>>, <<b>>, <<c>>, ok)
  BY <1>5 DEF HandleCreateStreamResult
<1>7. rtmp_status' = "wait_play"
  BY <1>5 DEF HandleCreateStreamResult
<1>8. /\ a \in Sends /\ b \in Sends /\ c \in Sends
      /\ a.kind = "getStreamLength" /\ b.kind = "play" /\ c.kind = "setBufferLength"
      /\ b.arg = created
  BY <1>4 DEF Msg, NoNumber, Sends, Kinds
<1> HIDE DEF a, b, c
<1>9. sent \in Seq(Sends) /\ Len(sent) \in Nat /\ read \in Nat /\ read <= Len(sent)
  BY Typed DEF SessionInv
<1>10. /\ Len(sent') >= Len(sent) /\ \A i \in 1..Len(sent) : sent'[i] = sent[i]
       /\ \A i \in 1..Len(sent') : i \in 1..Len(sent) \/ sent'[i] \in {a, b, c}
  BY <1>6, <1>8, <1>9, ThreeMayMore
<1>11. AskedInv'
  <2>1. PICK j \in 1..Len(sent) : sent[j].kind = "createStream"
    <3>1. PICK j \in 1..read : sent[j].kind \in Requests /\ sent[j].trans = 2
      BY <1>2 DEF SessionInv, ServerInv, StreamResult
    <3>2. PICK i \in 1..read : sent[i].kind = "createStream"
      BY <3>1, StreamAsked DEF PlayInv
    <3>3. i \in 1..Len(sent)
      BY <1>9
    <3> QED BY <3>2, <3>3
  <2>2. ASSUME NEW i \in 1..Len(sent'), Place(sent'[i].kind) > 5
        PROVE  \E l \in 1..(i - 1) : sent'[l].kind = "createStream"
    <3>1. CASE i \in 1..Len(sent)
      <4>1. PICK l \in 1..(i - 1) : sent[l].kind = "createStream"
        BY <1>10, <2>2, <3>1 DEF PlayInv, AskedInv
      <4>2. l \in 1..Len(sent)
        BY <1>9, <3>1
      <4> QED BY <1>10, <4>1, <4>2
    <3>2. CASE i \notin 1..Len(sent)
      <4>1. j \in 1..(i - 1)
        BY <1>9, <3>2
      <4> QED BY <1>10, <2>1, <4>1
    <3> QED BY <3>1, <3>2
  <2> QED BY <2>2 DEF AskedInv
<1>12. PlayOnStream'
  <2>1. ASSUME NEW i \in 1..Len(sent'), sent'[i].kind = "play"
        PROVE  sent'[i].arg = created
    <3>1. CASE i \in 1..Len(sent)
      <4>1. sent[i].kind = "play"
        BY <1>10, <2>1, <3>1
      <4> QED BY <1>10, <3>1, <4>1 DEF PlayInv, PlayOnStream
    <3>2. CASE i \notin 1..Len(sent)
      BY <1>8, <1>10, <2>1, <3>2
    <3> QED BY <3>1, <3>2
  <2> QED BY <1>1, <1>4, <2>1 DEF PlayOnStream
<1>13. TakenInv'
  BY <1>7 DEF TakenInv
<1>14. QueueInv' /\ CreatedInv'
  BY <1>1, <1>10, ServerKeeps
<1> QED BY <1>11, <1>12, <1>13, <1>14 DEF PlayInv

-----------------------------------------------------------------------------
(* The server's steps.  What the client sent and took in is what it was.   *)
LEMMA ClientKeeps ==
  ASSUME SessionInv, PlayInv, UNCHANGED clientVars, \A i \in 1..Len(replies) : replies'[i] = replies[i]
  PROVE  /\ AskedInv' /\ TakenInv'
         /\ \A k \in 1..Len(replies) : /\ Result(k)' <=> Result(k)
                                       /\ StreamResult(k)' <=> StreamResult(k)
<1>1. UNCHANGED <<pc, rtmp_status, sent, taken>>
  BY DEF clientVars
<1>2. \A k \in 1..Len(replies) : /\ Result(k)' <=> Result(k)
                                 /\ StreamResult(k)' <=> StreamResult(k)
  BY DEF StreamResult, Result
<1>3. \A k \in 1..taken : k \in 1..Len(replies)
  BY Typed DEF SessionInv
<1>4. TakenInv'
  BY <1>1, <1>2, <1>3 DEF PlayInv, TakenInv
<1>5. AskedInv'
  BY <1>1 DEF PlayInv, AskedInv
<1> QED BY <1>2, <1>4, <1>5

(* A request read now comes after all that wait.                           *)
LEMMA ReadLast ==
  ASSUME SessionInv, read < Len(sent), sent[read + 1].kind \in Requests, NEW i \in 1..Len(requests)
  PROVE  requests[i].trans < sent[read + 1].trans
<1>1. PICK j \in 1..read : sent[j].kind \in Requests /\ sent[j].trans = requests[i].trans
  BY DEF SessionInv, ServerInv
<1>2. j \in 1..Len(sent) /\ read + 1 \in 1..Len(sent) /\ j < read + 1
  BY Typed DEF SessionInv
<1>3. /\ IsRequest(sent[j]) /\ IsRequest(sent[read + 1])
      /\ Place(sent[j].kind) < Place(sent[read + 1].kind)
  BY <1>2 DEF SessionInv, SentInv, Ordered
<1> QED BY <1>1, <1>3, RequestPlaces DEF IsRequest

LEMMA ServerReadsPlays == SessionInv /\ PlayInv /\ SessionInv' /\ ServerReads => PlayInv'
<1> SUFFICES ASSUME SessionInv, PlayInv, SessionInv', ServerReads PROVE PlayInv'
  OBVIOUS
<1> DEFINE m == sent[read + 1]
<1>1. /\ read < Len(sent) /\ read' = read + 1 /\ UNCHANGED <<clientVars, refused, created, others>>
      /\ replies' = IF m.kind = "c0c1" THEN replies \o <<Plain("s0s1"), Plain("s2")>> ELSE replies
      /\ requests' = IF m.kind \in Requests THEN Append(requests, m) ELSE requests
  BY DEF ServerReads
<1>2. UNCHANGED <<sent, created>>
  BY <1>1 DEF clientVars
<1>3. /\ read \in Nat /\ m \in Sends /\ IsRequest(m)
      /\ replies \in Seq(Answer) /\ Len(replies) \in Nat
      /\ requests \in Seq(Request) /\ Len(requests) \in Nat
  <2>1. read + 1 \in 1..Len(sent)
    BY <1>1, Typed DEF SessionInv
  <2> QED BY <2>1, Typed DEF SessionInv, SentInv, Ordered
<1>4. m.kind \in Requests => \A i \in 1..Len(requests) : requests[i].trans < m.trans
  BY <1>1, ReadLast
<1> HIDE DEF m
<1>5. /\ Len(replies') \in Nat /\ Len(replies') >= Len(replies)
      /\ \A i \in 1..Len(replies) : replies'[i] = replies[i]
      /\ \A i \in 1..Len(replies') : i \in 1..Len(replies) \/ replies'[i].kind \in {"s0s1", "s2"}
  <2>1. CASE m.kind = "c0c1"
    <3> DEFINE a == Plain("s0s1")
               b == Plain("s2")
    <3>1. replies' = replies \o <<a, b>>
      BY <1>1, <2>1
    <3>2. a \in Answer /\ b \in Answer /\ a.kind = "s0s1" /\ b.kind = "s2"
      BY DEF Plain, Msg, NoNumber, Answer, ReplyKinds
    <3> HIDE DEF a, b
    <3>3. /\ Len(replies') = Len(replies) + 2
          /\ \A i \in 1..Len(replies) : replies'[i] = replies[i]
          /\ replies'[Len(replies) + 1] = a /\ replies'[Len(replies) + 2] = b
      BY <1>3, <3>1, <3>2
    <3>4. \A i \in 1..Len(replies') : \/ i \in 1..Len(replies)
                                      \/ i = Len(replies) + 1 \/ i = Len(replies) + 2
      BY <1>3, <3>3
    <3> QED BY <1>3, <3>2, <3>3, <3>4
  <2>2. CASE m.kind # "c0c1"
    BY <1>1, <1>3, <2>2
  <2> QED BY <2>1, <2>2
<1>6. /\ Len(requests') \in Nat /\ Len(requests') >= Len(requests)
      /\ \A i \in 1..Len(requests) : requests'[i] = requests[i]
      /\ \A i \in 1..Len(requests') :
           \/ i \in 1..Len(requests)
           \/ i = Len(requests) + 1 /\ requests'[i] = m /\ m.kind \in Requests
      /\ m.kind \in Requests => \E i \in 1..Len(requests') : requests'[i] = m
  <2>1. CASE m.kind \in Requests
    <3>1. requests' = Append(requests, m)
      BY <1>1, <2>1
    <3>2. /\ Len(requests') = Len(requests) + 1 /\ requests'[Len(requests) + 1] = m
          /\ \A i \in 1..Len(requests) : requests'[i] = requests[i]
      BY <1>3, <3>1
    <3>3. Len(requests) + 1 \in 1..Len(requests')
      BY <1>3, <3>2
    <3>4. \A i \in 1..Len(requests') : i \in 1..Len(requests) \/ i = Len(requests) + 1
      BY <1>3, <3>2
    <3> QED BY <1>3, <2>1, <3>2, <3>3, <3>4
  <2>2. CASE m.kind \notin Requests
    BY <1>1, <1>3, <2>2
  <2> QED BY <2>1, <2>2
<1>7. /\ AskedInv' /\ TakenInv'
      /\ \A k \in 1..Len(replies) : /\ Result(k)' <=> Result(k)
                                    /\ StreamResult(k)' <=> StreamResult(k)
  BY <1>1, <1>5, ClientKeeps
<1>8. PlayOnStream'
  BY <1>2 DEF PlayInv, PlayOnStream
<1>9. QueueInv'
  <2>1. ASSUME NEW i \in 1..Len(requests'), NEW j \in 1..Len(requests'), i < j
        PROVE  requests'[i].trans < requests'[j].trans
    <3>1. i \in 1..Len(requests)
      BY <1>3, <1>6, <2>1
    <3>2. CASE j \in 1..Len(requests)
      BY <1>6, <2>1, <3>1, <3>2 DEF PlayInv, QueueInv
    <3>3. CASE requests'[j] = m /\ m.kind \in Requests
      BY <1>4, <1>6, <3>1, <3>3
    <3> QED BY <1>6, <3>2, <3>3
  <2>2. ASSUME NEW i \in 1..Len(requests') PROVE IsRequest(requests'[i])
    BY <1>3, <1>6 DEF PlayInv, QueueInv
  <2>3. \A i \in 1..Len(requests') : IsRequest(requests[i])' <=> IsRequest(requests'[i])
    BY DEF IsRequest
  <2> QED BY <2>1, <2>2, <2>3 DEF QueueInv
<1>10. CreatedInv'
  <2>1. ASSUME NEW c \in 1..Len(replies'), Result(c)'
        PROVE  c \in 1..Len(replies) /\ Result(c) /\ replies'[c] = replies[c]
    BY <1>5, <2>1 DEF Result
  <2>2. ASSUME NEW i \in 1..read', sent'[i].kind = "createStream"
        PROVE  \/ \E j \in 1..Len(requests') : requests'[j].trans = 2
               \/ \E k \in 1..Len(replies') : StreamResult(k)'
    <3>1. CASE i \in 1..read
      <4>1. CASE \E j \in 1..Len(requests) : requests[j].trans = 2
        <5>1. PICK j \in 1..Len(requests) : requests[j].trans = 2
          BY <4>1
        <5>2. j \in 1..Len(requests')
          BY <1>3, <1>6
        <5> QED BY <1>6, <5>1, <5>2
      <4>2. CASE \E k \in 1..Len(replies) : StreamResult(k)
        <5>1. PICK k \in 1..Len(replies) : StreamResult(k)
          BY <4>2
        <5>2. k \in 1..Len(replies')
          BY <1>3, <1>5
        <5> QED BY <1>7, <5>1, <5>2
      <4> QED BY <1>2, <2>2, <3>1, <4>1, <4>2 DEF PlayInv, CreatedInv
    <3>2. CASE i = read + 1
      <4>1. m.kind = "createStream" /\ m.kind \in Requests
        BY <1>2, <2>2, <3>2 DEF m, Requests
      <4>2. m.trans = 2
        BY <1>3, <4>1, StreamRequest
      <4> QED BY <1>6, <4>1, <4>2
    <3> QED BY <1>1, <1>3, <3>1, <3>2
  <2>3. ASSUME NEW c \in 1..Len(replies'), Result(c)', replies'[c].trans > 2
        PROVE  \E k \in 1..(c - 1) : StreamResult(k)'
    <3>1. c \in 1..Len(replies) /\ Result(c) /\ replies[c].trans > 2
      BY <2>1, <2>3
    <3>2. PICK k \in 1..(c - 1) : StreamResult(k)
      BY <3>1 DEF PlayInv, CreatedInv
    <3>3. k \in 1..Len(replies)
      BY <1>3, <3>1
    <3> QED BY <1>7, <3>2, <3>3
  <2>4. ASSUME NEW c \in 1..Len(replies'), StreamResult(c)'
        PROVE  created' = replies'[c].arg /\ created' \in StreamIds
    <3>1. c \in 1..Len(replies) /\ replies'[c] = replies[c]
      BY <2>1, <2>4 DEF StreamResult
    <3> QED BY <1>2, <1>7, <2>4, <3>1 DEF PlayInv, CreatedInv
  <2> QED BY <2>2, <2>3, <2>4 DEF CreatedInv
<1> QED BY <1>7, <1>8, <1>9, <1>10 DEF PlayInv

(* The queue stays in order when one request is taken out of it.           *)
LEMMA QueueTakenOut ==
  ASSUME SessionInv, PlayInv, NEW i \in 1..Len(requests), requests' = Without(requests, i)
  PROVE  /\ QueueInv'
         /\ \A j \in 1..Len(requests) : j # i => \E k \in 1..Len(requests') : requests'[k] = requests[j]
<1>1. requests \in Seq(Request) /\ Len(requests) \in Nat /\ i \in Nat
  BY Typed DEF SessionInv
<1>2. /\ Len(requests') = Len(requests) - 1
      /\ \A j \in 1..(Len(requests) - 1) : requests'[j] = requests[IF j < i THEN j ELSE j + 1]
  BY <1>1, WithoutOK
<1> DEFINE old(j) == IF j < i THEN j ELSE j + 1
<1>3. \A j \in 1..Len(requests') : old(j) \in 1..Len(requests)
  BY <1>1, <1>2
<1>4. \A j, l \in 1..Len(requests') : j < l => old(j) < old(l)
  BY <1>1, <1>2
<1>5. \A j \in 1..Len(requests') : requests'[j] = requests[old(j)]
  BY <1>2
<1>6. ASSUME NEW j \in 1..Len(requests), j # i
      PROVE  \E k \in 1..Len(requests') : old(k) = j
  <2>1. CASE j < i
    <3>1. j \in 1..Len(requests') /\ old(j) = j
      BY <1>1, <1>2, <2>1
    <3> QED BY <3>1
  <2>2. CASE j > i
    <3>1. j - 1 \in 1..Len(requests') /\ old(j - 1) = j
      BY <1>1, <1>2, <2>2
    <3> QED BY <3>1
  <2> QED BY <1>1, <1>6, <2>1, <2>2
<1> HIDE DEF old
<1>7. ASSUME NEW j \in 1..Len(requests'), NEW l \in 1..Len(requests'), j < l
      PROVE  requests'[j].trans < requests'[l].trans
  BY <1>3, <1>4, <1>5, <1>7 DEF PlayInv, QueueInv
<1>8. ASSUME NEW j \in 1..Len(requests') PROVE IsRequest(requests'[j])
  BY <1>3, <1>5 DEF PlayInv, QueueInv
<1>9. QueueInv'
  BY <1>7, <1>8 DEF QueueInv, IsRequest
<1> QED BY <1>5, <1>6, <1>9

LEMMA ServerAnswersPlays ==
  OrderedServer /\ SessionInv /\ PlayInv /\ ServerAnswers => PlayInv'
<1> SUFFICES ASSUME OrderedServer, SessionInv, PlayInv, ServerAnswers PROVE PlayInv'
  OBVIOUS
<1>1. PICK i \in 1..Len(requests), arg \in StreamIds \cup {NoNumber} :
        /\ InOrder => i = 1
        /\ arg \in Answers(requests[i])
        /\ replies' = Append(replies, Msg("_result", requests[i].trans, arg))
        /\ requests' = Without(requests, i)
        /\ created' = IF requests[i].kind = "createStream" THEN arg ELSE created
        /\ UNCHANGED <<clientVars, read, refused, others>>
  BY DEF ServerAnswers
<1> DEFINE m == Msg("_result", requests[i].trans, arg)
           r == requests[i]
<1>2. UNCHANGED <<sent, read>> /\ i = 1
  BY <1>1 DEF clientVars, OrderedServer
<1>3. /\ replies \in Seq(Answer) /\ Len(replies) \in Nat /\ Len(requests) \in Nat
      /\ r \in Request /\ IsRequest(r) /\ r.kind \in Requests
  BY Typed DEF SessionInv, PlayInv, QueueInv, Request
<1>4. m \in Answer /\ m.trans = r.trans /\ m.kind = "_result" /\ m.arg = arg
  <2>1. arg \in Int /\ r.trans \in 0..5
    BY <1>3, SessionAssumption DEF NoNumber, Request
  <2> QED BY <2>1 DEF Msg, Answer, ReplyKinds
<1>5. /\ r.trans \in 1..4
      /\ r.kind = "createStream" <=> r.trans = 2
      /\ r.trans > 2 <=> Place(r.kind) > 5
  BY <1>3, StreamRequest
<1>6. r.trans = 2 => arg \in StreamIds /\ created' = arg
  BY <1>1, <1>5 DEF Answers
<1>7. r.trans # 2 => created' = created
  BY <1>1, <1>5
<1>16. PICK n \in Nat : n = Len(replies) + 1
  BY <1>3
<1>8. /\ n \in Nat /\ Len(replies') = n /\ replies'[n] = m
      /\ \A k \in 1..Len(replies) : replies'[k] = replies[k]
      /\ \A k \in 1..Len(replies') : k \in 1..Len(replies) \/ k = n
      /\ \A k \in 1..Len(replies) : k \in 1..Len(replies')
      /\ n \in 1..Len(replies') /\ n - 1 = Len(replies)
  <2>1. replies' = Append(replies, m)
    BY <1>1
  <2> HIDE DEF m
  <2>2. /\ Len(replies') = n /\ replies'[n] = m
        /\ \A k \in 1..Len(replies) : replies'[k] = replies[k]
    BY <1>3, <1>4, <1>16, <2>1
  <2> QED BY <1>3, <1>16, <2>2
<1> HIDE DEF m
<1>9. /\ AskedInv' /\ TakenInv'
      /\ \A k \in 1..Len(replies) : /\ Result(k)' <=> Result(k)
                                    /\ StreamResult(k)' <=> StreamResult(k)
  BY <1>1, <1>8, ClientKeeps
<1>10. StreamResult(n)' <=> r.trans = 2
  BY <1>4, <1>8 DEF StreamResult, Result
<1>11. \A k \in 1..Len(replies) : Result(k) => replies[k].trans # r.trans
  BY DEF SessionInv, ServerInv
<1>12. /\ QueueInv'
       /\ \A j \in 1..Len(requests) : j # i => \E k \in 1..Len(requests') : requests'[k] = requests[j]
  BY <1>1, QueueTakenOut
<1>13. PICK j \in 1..read : sent[j].kind \in Requests /\ sent[j].trans = r.trans
  <2>1. \A k \in 1..Len(requests) :
          \E j \in 1..read : sent[j].kind \in Requests /\ sent[j].trans = requests[k].trans
    BY DEF SessionInv, ServerInv
  <2> QED BY <2>1
<1> HIDE DEF r
<1>14. CreatedInv'
  <2>1. ASSUME NEW l \in 1..read, sent[l].kind = "createStream"
        PROVE  \/ \E k \in 1..Len(requests') : requests'[k].trans = 2
               \/ \E k \in 1..Len(replies') : StreamResult(k)'
    <3>1. CASE \E k \in 1..Len(requests) : requests[k].trans = 2
      <4>1. PICK k \in 1..Len(requests) : requests[k].trans = 2
        BY <3>1
      <4>2. CASE k = i
        <5>1. r.trans = 2
          BY <4>1, <4>2 DEF r
        <5>2. StreamResult(n)'
          BY <1>10, <5>1
        <5> QED BY <1>8, <5>2
      <4>3. CASE k # i
        BY <1>12, <4>1, <4>3
      <4> QED BY <4>2, <4>3
    <3>2. CASE \E k \in 1..Len(replies) : StreamResult(k)
      BY <1>8, <1>9, <3>2
    <3> QED BY <2>1, <3>1, <3>2 DEF PlayInv, CreatedInv
  <2>2. ASSUME NEW c \in 1..Len(replies'), Result(c)', replies'[c].trans > 2
        PROVE  \E k \in 1..(c - 1) : StreamResult(k)'
    <3>1. CASE c \in 1..Len(replies)
      <4>1. PICK k \in 1..(c - 1) : StreamResult(k)
        BY <1>8, <1>9, <2>2, <3>1 DEF PlayInv, CreatedInv
      <4>2. k \in 1..Len(replies)
        BY <1>3, <3>1
      <4> QED BY <1>9, <4>1, <4>2
    <3>2. CASE c = n
      <4>1. r.trans > 2
        BY <1>4, <1>8, <2>2, <3>2
      <4>2. PICK l \in 1..read : sent[l].kind = "createStream"
        <5>1. sent[j].trans > 1
          BY <1>5, <1>13, <4>1
        <5> QED BY <1>13, <5>1, StreamAsked DEF PlayInv
      <4>3. ~ \E k \in 1..Len(requests) : requests[k].trans = 2
        <5> SUFFICES ASSUME NEW k \in 1..Len(requests), requests[k].trans = 2 PROVE FALSE
          OBVIOUS
        <5>1. k # 1
          BY <1>2, <4>1 DEF r
        <5>2. 1 \in 1..Len(requests) /\ 1 < k
          BY <1>3, <5>1
        <5>3. requests[1].trans < 2
          BY <5>2 DEF PlayInv, QueueInv
        <5> QED BY <1>2, <1>5, <4>1, <5>3 DEF r
      <4>4. PICK k \in 1..Len(replies) : StreamResult(k)
        BY <4>2, <4>3 DEF PlayInv, CreatedInv
      <4> QED BY <1>8, <1>9, <3>2, <4>4
    <3> QED BY <1>8, <3>1, <3>2
  <2>3. ASSUME NEW c \in 1..Len(replies'), StreamResult(c)'
        PROVE  created' = replies'[c].arg /\ created' \in StreamIds
    <3>1. CASE c \in 1..Len(replies)
      <4>1. StreamResult(c) /\ replies'[c] = replies[c]
        BY <1>8, <1>9, <2>3, <3>1
      <4>2. r.trans # 2
        BY <1>11, <3>1, <4>1 DEF StreamResult
      <4> QED BY <1>7, <3>1, <4>1, <4>2 DEF PlayInv, CreatedInv
    <3>2. CASE c = n
      BY <1>4, <1>6, <1>8, <1>10, <2>3, <3>2
    <3> QED BY <1>8, <3>1, <3>2
  <2> QED BY <1>2, <2>1, <2>2, <2>3 DEF CreatedInv
<1>15. PlayOnStream'
  <2> SUFFICES ASSUME NEW l \in 1..Len(sent), sent[l].kind = "play"
               PROVE  created' > 0 /\ sent[l].arg = created'
    BY <1>2 DEF PlayOnStream
  <2>1. PICK k \in 1..Len(replies) : Result(k) /\ replies[k].trans \in {2, 3}
    <3>1. rtmp_status = "wait_play"
      BY StageReached, Places
    <3>2. PICK k \in 1..taken, k2 \in 1..taken : Result(k2) /\ replies[k2].trans \in {2, 3}
      BY <3>1 DEF SessionInv, StatusInv
    <3>3. k2 \in 1..Len(replies)
      BY Typed DEF SessionInv
    <3>4. \E l2 \in 1..Len(replies) : Result(l2) /\ replies[l2].trans \in {2, 3}
      BY <3>2, <3>3
    <3> QED BY <3>4
  <2>2. PICK k2 \in 1..Len(replies) : StreamResult(k2)
    <3>1. CASE replies[k].trans = 2
      BY <2>1, <3>1 DEF StreamResult
    <3>2. CASE replies[k].trans = 3
      <4>1. PICK k2 \in 1..(k - 1) : StreamResult(k2)
        BY <2>1, <3>2 DEF PlayInv, CreatedInv
      <4>2. k2 \in 1..Len(replies)
        BY <1>3
      <4> QED BY <4>1, <4>2
    <3> QED BY <2>1, <3>1, <3>2
  <2>3. r.trans # 2
    BY <1>11, <2>2 DEF StreamResult
  <2> QED BY <1>7, <2>3 DEF PlayInv, PlayOnStream
<1> QED BY <1>9, <1>12, <1>14, <1>15 DEF PlayInv

LEMMA ServerRefusesPlays ==
  OrderedServer /\ SessionInv /\ PlayInv /\ ServerRefuses => PlayInv'
<1> SUFFICES ASSUME OrderedServer, SessionInv, PlayInv, ServerRefuses PROVE PlayInv'
  OBVIOUS
<1>1. PICK i \in 1..Len(requests) :
        /\ requests[i].trans \in Refusals
        /\ requests' = Without(requests, i)
        /\ \/ replies' = Append(replies, Msg("_error", requests[i].trans, NoNumber))
           \/ UNCHANGED replies
        /\ UNCHANGED <<clientVars, read, created, others>>
  BY DEF ServerRefuses
<1>2. UNCHANGED <<sent, read, created>> /\ requests[i].trans # 2
  BY <1>1 DEF clientVars, OrderedServer
<1>3. replies \in Seq(Answer) /\ Len(replies) \in Nat /\ requests[i].trans \in 1..4
  BY Typed DEF SessionInv, Request
<1>4. /\ \A k \in 1..Len(replies) : replies'[k] = replies[k] /\ k \in 1..Len(replies')
      /\ \A k \in 1..Len(replies') : k \in 1..Len(replies) \/ replies'[k].kind = "_error"
  <2> DEFINE m == Msg("_error", requests[i].trans, NoNumber)
  <2>1. m \in Answer /\ m.kind = "_error"
    BY <1>3 DEF Msg, Answer, ReplyKinds, NoNumber
  <2>2. replies' = Append(replies, m) \/ replies' = replies
    BY <1>1
  <2> HIDE DEF m
  <2>3. CASE replies' = Append(replies, m)
    <3>1. /\ Len(replies') = Len(replies) + 1 /\ replies'[Len(replies) + 1] = m
          /\ \A k \in 1..Len(replies) : replies'[k] = replies[k]
      BY <1>3, <2>1, <2>3
    <3>2. \A k \in 1..Len(replies') : k \in 1..Len(replies) \/ k = Len(replies) + 1
      BY <1>3, <3>1
    <3>3. \A k \in 1..Len(replies) : k \in 1..Len(replies')
      BY <1>3, <3>1
    <3> QED BY <2>1, <3>1, <3>2, <3>3
  <2> QED BY <2>2, <2>3
<1>5. /\ AskedInv' /\ TakenInv'
      /\ \A k \in 1..Len(replies) : /\ Result(k)' <=> Result(k)
                                    /\ StreamResult(k)' <=> StreamResult(k)
  BY <1>1, <1>4, ClientKeeps
<1>6. /\ QueueInv'
      /\ \A j \in 1..Len(requests) : j # i => \E k \in 1..Len(requests') : requests'[k] = requests[j]
  BY <1>1, QueueTakenOut
<1>7. \A k \in 1..Len(replies') : Result(k)' => k \in 1..Len(replies)
  BY <1>4 DEF Result
<1>8. CreatedInv'
  <2>1. ASSUME NEW l \in 1..read, sent[l].kind = "createStream"
        PROVE  \/ \E k \in 1..Len(requests') : requests'[k].trans = 2
               \/ \E k \in 1..Len(replies') : StreamResult(k)'
    <3>1. CASE \E k \in 1..Len(requests) : requests[k].trans = 2
      <4>1. PICK k \in 1..Len(requests) : requests[k].trans = 2
        BY <3>1
      <4>2. k # i
        BY <1>2, <4>1
      <4> QED BY <1>6, <4>1, <4>2
    <3>2. CASE \E k \in 1..Len(replies) : StreamResult(k)
      BY <1>4, <1>5, <3>2
    <3> QED BY <2>1, <3>1, <3>2 DEF PlayInv, CreatedInv
  <2>2. ASSUME NEW c \in 1..Len(replies'), Result(c)', replies'[c].trans > 2
        PROVE  \E k \in 1..(c - 1) : StreamResult(k)'
    <3>1. c \in 1..Len(replies) /\ Result(c) /\ replies[c].trans > 2
      BY <1>4, <1>5, <1>7, <2>2
    <3>2. PICK k \in 1..(c - 1) : StreamResult(k)
      BY <3>1 DEF PlayInv, CreatedInv
    <3>3. k \in 1..Len(replies)
      BY <1>3, <3>1
    <3> QED BY <1>5, <3>2, <3>3
  <2>3. ASSUME NEW c \in 1..Len(replies'), StreamResult(c)'
        PROVE  created' = replies'[c].arg /\ created' \in StreamIds
    <3>1. c \in 1..Len(replies)
      BY <1>7, <2>3 DEF StreamResult
    <3> QED BY <1>2, <1>4, <1>5, <2>3, <3>1 DEF PlayInv, CreatedInv
  <2> QED BY <1>2, <2>1, <2>2, <2>3 DEF CreatedInv
<1>9. PlayOnStream'
  BY <1>2 DEF PlayInv, PlayOnStream
<1> QED BY <1>5, <1>6, <1>8, <1>9 DEF PlayInv

LEMMA ServerSpeaksPlays == SessionInv /\ PlayInv /\ ServerSpeaks => PlayInv'
<1> SUFFICES ASSUME SessionInv, PlayInv, ServerSpeaks PROVE PlayInv'
  OBVIOUS
<1>1. UNCHANGED clientVars /\ UNCHANGED <<read, requests, created>>
  BY DEF ServerSpeaks
<1>2. UNCHANGED sent
  BY <1>1 DEF clientVars
<1>3. PICK m : m \in Answer /\ replies' = Append(replies, m) /\ m.kind # "_result"
  <2>1. ASSUME NEW w \in Windows
        PROVE  Msg("window", 0, w) \in Answer /\ Msg("window", 0, w).kind = "window"
    BY SessionAssumption DEF Msg, Answer, ReplyKinds
  <2>2. /\ Plain("other") \in Answer /\ Plain("other").kind = "other"
        /\ Plain("media") \in Answer /\ Plain("media").kind = "media"
    BY DEF Plain, Msg, NoNumber, Answer, ReplyKinds
  <2> QED BY <2>1, <2>2 DEF ServerSpeaks
<1>4. /\ Len(replies) \in Nat
      /\ \A k \in 1..Len(replies) : replies'[k] = replies[k] /\ k \in 1..Len(replies')
      /\ \A k \in 1..Len(replies') : k \in 1..Len(replies) \/ replies'[k].kind # "_result"
  <2>1. /\ Len(replies') = Len(replies) + 1 /\ replies'[Len(replies) + 1] = m /\ Len(replies) \in Nat
        /\ \A k \in 1..Len(replies) : replies'[k] = replies[k]
    BY <1>3, Typed DEF SessionInv
  <2>2. \A k \in 1..Len(replies') : k \in 1..Len(replies) \/ k = Len(replies) + 1
    BY <2>1
  <2>3. \A k \in 1..Len(replies) : k \in 1..Len(replies')
    BY <2>1
  <2> QED BY <1>3, <2>1, <2>2, <2>3
<1>5. /\ AskedInv' /\ TakenInv'
      /\ \A k \in 1..Len(replies) : /\ Result(k)' <=> Result(k)
                                    /\ StreamResult(k)' <=> StreamResult(k)
  BY <1>1, <1>4, ClientKeeps
<1>6. \A k \in 1..Len(replies') : Result(k)' => k \in 1..Len(replies)
  BY <1>4 DEF Result
<1>7. CreatedInv'
  <2>1. ASSUME NEW l \in 1..read, sent[l].kind = "createStream"
        PROVE  \/ \E k \in 1..Len(requests) : requests[k].trans = 2
               \/ \E k \in 1..Len(replies') : StreamResult(k)'
    BY <1>4, <1>5, <2>1 DEF PlayInv, CreatedInv
  <2>2. ASSUME NEW c \in 1..Len(replies'), Result(c)', replies'[c].trans > 2
        PROVE  \E k \in 1..(c - 1) : StreamResult(k)'
    <3>1. c \in 1..Len(replies) /\ Result(c) /\ replies[c].trans > 2
      BY <1>4, <1>5, <1>6, <2>2
    <3>2. PICK k \in 1..(c - 1) : StreamResult(k)
      BY <3>1 DEF PlayInv, CreatedInv
    <3>3. k \in 1..Len(replies)
      BY <1>4, <3>1
    <3> QED BY <1>5, <3>2, <3>3
  <2>3. ASSUME NEW c \in 1..Len(replies'), StreamResult(c)'
        PROVE  created' = replies'[c].arg /\ created' \in StreamIds
    <3>1. c \in 1..Len(replies)
      BY <1>6, <2>3 DEF StreamResult
    <3> QED BY <1>1, <1>4, <1>5, <2>3, <3>1 DEF PlayInv, CreatedInv
  <2> QED BY <1>1, <1>2, <2>1, <2>2, <2>3 DEF CreatedInv
<1>8. QueueInv' /\ PlayOnStream'
  BY <1>1, <1>2 DEF PlayInv, QueueInv, PlayOnStream, IsRequest
<1> QED BY <1>5, <1>7, <1>8 DEF PlayInv

-----------------------------------------------------------------------------
LEMMA NextPlays ==
  OrderedServer /\ SessionInv /\ PlayInv /\ SessionInv' /\ [Next]_vars => PlayInv'
<1> SUFFICES ASSUME OrderedServer, SessionInv, PlayInv, SessionInv', [Next]_vars PROVE PlayInv'
  OBVIOUS
<1>1. CASE StartPlay
  BY <1>1, StartPlayPlays
<1>2. CASE ThreadStep
  BY <1>2, HandleS0S1Plays, HandleS2Plays, HandleWindowPlays, HandleOtherPlays,
     HandleConnectResultPlays, HandleCreateStreamResultPlays DEF ThreadStep
<1>3. CASE ReceiveEnds
  BY <1>3, ReceiveEndsPlays
<1>4. CASE ServerServes
  BY <1>4, ServerReadsPlays, ServerAnswersPlays, ServerRefusesPlays DEF ServerServes
<1>5. CASE ServerSpeaks
  BY <1>5, ServerSpeaksPlays
<1>6. CASE UNCHANGED vars
  <2>1. UNCHANGED <<rtmp_status, sent, serverVars>> /\ UNCHANGED <<pc, taken, replies>>
    BY <1>6 DEF vars, clientVars, serverVars
  <2>2. TakenInv'
    BY <2>1 DEF PlayInv, TakenInv, Result
  <2> QED BY <2>1, <2>2, QuietPlays
<1> QED BY <1>1, <1>2, <1>3, <1>4, <1>5, <1>6 DEF Next

(* With a server that answers in order and creates the stream, play names  *)
(* the stream that createStream was answered with, though the client takes *)
(* the number of whatever _result comes: for any windows, refusals of      *)
(* other requests, failed Sends, and ids that fit the byte.                *)
THEOREM AlwaysPlayOnStream == OrderedServer /\ Spec => []PlayOnStream
<1>1. PlayInv => PlayOnStream
  BY DEF PlayInv
<1>2. CASE OrderedServer
  <2>1. SessionInv /\ PlayInv /\ SessionInv' /\ [Next]_vars => PlayInv'
    BY <1>2, NextPlays
  <2> QED BY <1>1, <2>1, InitPlay, SessionInvHolds, PTL DEF Spec
<1> QED BY <1>2
=============================================================================
