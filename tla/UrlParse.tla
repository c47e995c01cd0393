------------------------------ MODULE UrlParse ------------------------------
(***************************************************************************)
(* rtmp_parse_cur_url: host, port, application and stream of a URL, which  *)
(* is a sequence of characters.                                            *)
(***************************************************************************)
EXTENDS Integers, Sequences

Scheme == <<114, 116, 109, 112, 58, 47, 47>>
Slash == 47
Colon == 58
Mp4   == <<109, 112, 52>>
Live  == <<108, 105, 118, 101>>

(* strstr for one character: where c is in s from place i on, 0: nowhere.  *)
Find(s, i, c) ==
  LET found == {j \in i..Len(s) : s[j] = c}
  IN  IF found = {} THEN 0 ELSE CHOOSE j \in found : \A k \in found : j <= k

HasPart(s, part) == \E i \in 0..(Len(s) - Len(part)) : SubSeq(s, i + 1, i + Len(part)) = part

(* atoi of digits. *)
Atoi(digits) ==
  LET upTo[i \in 0..Len(digits)] == IF i = 0 THEN 0 ELSE 10 * upTo[i - 1] + digits[i] - 48
  IN  upTo[Len(digits)]

(* Behind "rtmp://": up to the next slash, or the whole rest.              *)
ServerInfo(url) ==
  LET end == Find(url, 8, Slash) IN SubSeq(url, 8, IF end = 0 THEN Len(url) ELSE end - 1)

HostOf(url) ==
  LET info == ServerInfo(url)
      port == Find(info, 1, Colon)
  IN  IF port = 0 THEN info ELSE SubSeq(info, 1, port - 1)

PortOf(url) ==
  LET info == ServerInfo(url)
      port == Find(info, 1, Colon)
  IN  IF port = 0 THEN 1935 ELSE Atoi(SubSeq(info, port + 1, Len(info)))

(* Mutant of AppEnd: the last slash ends the application. *)
AppEndLast(url) ==
  LET all == {j \in (Find(url, 8, Slash) + 1)..Len(url) : url[j] = Slash}
  IN  IF all = {} THEN 0 ELSE CHOOSE j \in all : \A k \in all : k <= j

(* The slash behind the application, 0 if there is none.                   *)
AppEnd(url) == Find(url, Find(url, 8, Slash) + 1, Slash)

(* Of what is in dst, all behind the bytes copied remains: strncpy does    *)
(* not end the text it copies, strcpy ends it with a 0.                    *)
CopyOver(dst, s) == s \o SubSeq(dst, Len(s) + 1, Len(dst))

(* A text in memory goes up to the first 0. *)
CText(bytes) ==
  SubSeq(bytes, 1, IF Find(bytes, 1, 0) = 0 THEN Len(bytes) ELSE Find(bytes, 1, 0) - 1)

(* The bytes of rtmp_app ever written to; they were old before. *)
AppOf(url, old) ==
  IF Find(url, 8, Slash) = 0 THEN old
  ELSE IF AppEnd(url) = 0 THEN CopyOver(old, Live \o <<0>>)
  ELSE CopyOver(old, SubSeq(url, Find(url, 8, Slash) + 1, AppEnd(url) - 1))

(* Mutant of Prefixed: the prefix is not looked for. *)
PrefixedTwice(rest) == HasPart(rest, Mp4)

(* A stream that looks like a file without a prefix gets one.              *)
Prefixed(rest) == HasPart(rest, Mp4) /\ Find(rest, 1, Colon) = 0

StreamOf(url, old) ==
  IF Find(url, 8, Slash) = 0 THEN old
  ELSE IF AppEnd(url) = 0 THEN <<>>
  ELSE LET rest == SubSeq(url, AppEnd(url) + 1, Len(url))
       IN  IF Prefixed(rest) THEN Mp4 \o <<Colon>> \o rest ELSE rest

-----------------------------------------------------------------------------
(* What a URL means, the other way round: how it is put together.          *)

Lacks(s, c) == \A i \in 1..Len(s) : s[i] # c

(* A port in so many digits, and where it may be written. *)
Tens == <<1, 10, 100, 1000, 10000, 100000>>

PortDigits(n, len) == [i \in 1..len |-> 48 + ((n \div Tens[len - i + 1]) % 10)]

PortParts(n) ==
  {<<Colon>> \o PortDigits(n, len) : len \in {l \in 1..5 : n < Tens[l + 1]}}
    \cup (IF n = 1935 THEN {<<>>} ELSE {})

(* A file name is played by its name with a prefix. *)
Played(name) == IF HasPart(name, Mp4) /\ Lacks(name, Colon) THEN Mp4 \o <<Colon>> \o name ELSE name

(* rtmp://host[:port], rtmp://host[:port]/name, or with application and    *)
(* stream behind it.                                                       *)
Means(u) ==
  /\ Lacks(u.host, Slash) /\ Lacks(u.host, Colon)
  /\ \E part \in PortParts(u.port) :
       LET server == Scheme \o u.host \o part
       IN  \/ u.url = server /\ u.app = <<>> /\ u.stream = <<>>
           \/ \E i \in 1..(Len(u.url) + 1) :
                LET rest == SubSeq(u.url, i, Len(u.url))
                IN  \/ /\ u.url = server \o <<Slash>> \o rest /\ Lacks(rest, Slash)
                       /\ u.app = Live /\ u.stream = <<>>
                    \/ /\ u.url = server \o <<Slash>> \o u.app \o <<Slash>> \o rest
                       /\ Lacks(u.app, Slash) /\ u.stream = Played(rest)

(* The members it is copied to have room for it; the code does not look    *)
(* whether they have.                                                      *)
Fits(u) == Len(u.url) < 512 /\ Len(u.app) < 32 /\ Len(u.stream) < 128

IsUrl(u) ==
  /\ u.url \in Seq(Nat) /\ u.host \in Seq(Nat) /\ u.app \in Seq(Nat) /\ u.stream \in Seq(Nat)
  /\ u.port \in Nat /\ u.port < 65536 /\ Lacks(u.app, 0) /\ Means(u) /\ Fits(u)
=============================================================================
