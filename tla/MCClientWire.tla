---------------------------- MODULE MCClientWire ----------------------------
(***************************************************************************)
(* ClientWire for TLC: URLs put together from their parts, and commands.   *)
(***************************************************************************)
EXTENDS ClientWire

(* n times the letter c. *)
Word(c, n) == [i \in 1..n |-> c]

Of(url, host, port, app, stream) ==
  [url |-> Scheme \o url, host |-> host, port |-> port, app |-> app, stream |-> stream]

(* rtmp://host/app/stream *)
Plain(host, app, stream) ==
  Of(host \o <<Slash>> \o app \o <<Slash>> \o stream, host, 1935, app, stream)

host == Word(104, 6)

(* connect has 166 bytes, the URL and the application: bodies of 256, 257  *)
(* and 385 bytes. *)
MCUrls ==
  { Of(host, host, 1935, <<>>, <<>>),
    Of(host \o <<Slash>> \o Live, host, 1935, Live, <<>>),
    Of(host \o <<Colon, 56, 48, 53, 48, Slash, 97, Slash>> \o Word(98, 40) \o <<Slash, 98>>,
       host, 8050, <<97>>, Word(98, 40) \o <<Slash, 98>>),
    Of(host \o <<Slash, 97, Slash>> \o Mp4 \o <<Colon, 98, 46>> \o Mp4,
       host, 1935, <<97>>, Mp4 \o <<Colon, 98, 46>> \o Mp4),
    Of(host \o <<Slash, 97, Slash, 98, 46>> \o Mp4,
       host, 1935, <<97>>, Mp4 \o <<Colon, 98, 46>> \o Mp4),
    Plain(Word(104, 20), Word(97, 11), Word(98, 39)),
    Plain(Word(104, 20), Word(97, 11), Word(98, 40)),
    Plain(Word(104, 53), Word(97, 30), Word(98, 97)) }

(* A stream of 98 letters, one too many for getStreamLength. *)
MCLongUrls == { Plain(host, Live, Word(98, 98)) }

Sound(items)  == [body |-> Join(items), sound |-> TRUE]
Damaged(body) == [body |-> body, sound |-> FALSE]

MCCommands ==
  { Sound(<<String(Text(31, 8)), Number(0)>>),
    Sound(<<String(Text(32, 6))>>),
    Sound(<<String(Text(33, 255)), Null>>),
    Damaged(SubSeq(String(Text(31, 8)), 1, 10)),
    Damaged(Number(4)),
    Damaged(<<>>) }
=============================================================================
