# Verification of the RTMP receiver

TLA+ models of `src/Rtmp_User`, a small C++ client that pulls one live stream
from an RTMP server and writes it to a transport stream file; TLC
configurations that check them on small instances; and proofs, checked by
TLAPS, for every value of the constants.

1. [The system](#1-the-system)
2. [What is hard about it](#2-what-is-hard-about-it)
3. [Modules](#3-modules)
4. [Runs](#4-runs)
5. [Disagreements found](#5-disagreements-found)
6. [Proofs](#6-proofs)
7. [Not modelled](#7-not-modelled)
8. [Plan](#8-plan)

## 1. The system

| component | code | state it keeps | operations |
|---|---|---|---|
| main program | `main.cpp` | – | creates the client, starts it, sleeps for ever |
| session | `rtmp_lib.cpp` 95–606 | `rtmp_status`, `rtmp_now_stream_id`, `acknowledgement_size`, `bandwidth` | `rtmp_start_play`, one function per message sent, `rtmp_process_cmd_0x14` and its two result handlers |
| receiving thread | `rtmp_lib.cpp` 1231–1285 | `m_pBuffer` (64K), `size`, `pos`, `m_iParsePos` | `rtmp_recv_data`: recv, skip the handshake, cut into chunks |
| chunk parser | `rtmp_lib.cpp` 613–798 | `rtmp_chunk[64]` (the message being joined on each chunk stream), `rtmp_chunk_max_size`, `rtmp_last_*` | `rtmp_process_chunk` |
| message dispatch | `rtmp_lib.cpp` 803–867 | – | `rtmp_process_message` |
| audio and video demuxer | `rtmp_lib.cpp` 1075–1225 | `video_head_data`, `audio_head_data` and their lengths | `rtmp_process_video`, `rtmp_process_audio` |
| transport stream muxer | `rtmp_tots.cpp` | `rtmp_packet`: `ts_cache`, counters, `frame_num`, last times, `pes_buf` | `rtmp_tots_packet_from_cache` and what it calls |
| AMF0 codec | `rtmp_amf0.cpp` | – | push and pop of values, `rtmp_amf0_splite_pack` |
| URL parser | `rtmp_lib.cpp` 25–89 | `rtmp_host`, `rtmp_port`, `rtmp_app`, `rtmp_stream` | `rtmp_setupurl` |
| wrappers | `Socket.cpp`, `Pthread.cpp`, `rtmp_type.cpp` | a socket, a thread id | one system call each |
| FLV writer | `rtmp_lib.cpp` 868–1073 | `flv_fp` | only under `SAVE_FLV`, which is not defined |

**How they interact.** Everything after `rtmp_start_play` runs in the one
receiving thread, by plain calls: `rtmp_recv_data` → `rtmp_process_chunk` →
`rtmp_process_message` → command handlers (which send) or the demuxer → the
muxer → `file_write`. The main thread writes `rtmp_status` and
`rtmp_chunk_max_size` before it creates the thread and never touches the client
again. The concurrency is that between the client, the server and TCP, which
cuts the byte stream anywhere. A handler that returns -1 ends the thread; the
process goes on, nothing reconnects, and nobody is told.

**The build.** The models follow the build in the repository's project file:
`WIN` is defined, `SAVE_FLV` is not. `main.cpp:16` calls
`rtmp_client::rtmp_connect`, which is declared nowhere, so a clean build needs
that line removed; the models start at `rtmp_start_play`.

**What makes each component right.**

- *Receiving thread and chunk parser:* however TCP cuts the stream, the parser
  always starts at the first byte of the next chunk; messages that are
  interleaved come out once, whole, in the order they were finished, with the
  right type, size and time stamp; consumed bytes never fill the buffer.
- *Session:* each command is sent once, in the order of the protocol and only
  when an answer has released it; `play` names the stream the server created;
  the dialogue gets through.
- *Muxer:* packets of 188 bytes without a gap; continuity counters without a
  gap for each PID; the packets of a PID are its PES; PAT and PMT before each
  key frame; everything reaches the file in order.
- *Recording over several lives:* what a killed program leaves behind is whole
  groups of packets, and the newest recording is the front of the file.
- *Demuxer:* each NAL unit gets its start code and nothing else is touched; a
  key frame is preceded by the SPS and PPS of the last sequence header; an AAC
  frame carries an ADTS header of its own length.
- *AMF0, split into chunks:* a server that cuts the bytes by the chunk size
  reads the values that were meant; what the client pops is what the server
  pushed. The thread ends on a damaged command. Of the sound ones only a
  `_result` without a number ends it, when it is taken for that of createStream
  (582–599), which takes a server that does not answer in order.
- *URL:* host, port, application and stream are what the URL means.

## 2. What is hard about it

`PROJECT.json` lists each hazard with its line. They fall into these kinds:
cuts of the byte stream anywhere (handshake, header, extended time stamp,
body); chunks of several messages in turn, with a chunk size that changes in
between; headers that are read again because the body was not there; answers
that come late, crossed, or not at all; sends that fail unnoticed; the cache of
seven packets that fills at three places of one function; the boundaries of the
packet layout; counters and lengths that wrap; a clock that is set back; members
that are read before they were written; messages converted in place while their
lengths are still to be read; a message split into chunks in the buffer it lies
in; writes to the file that fail or are short; a program that ends only by being
killed and writes over its last recording.

## 3. Modules

| module | what it is |
|---|---|
| `ChunkWire` | the server's chunk multiplexer and the wire (external): which chunk comes where, what it carries |
| `RtmpRecv` | connection, receiving thread, chunk parser, message dispatch |
| `MessageChannel` | abstract: messages are got in the order sent, none lost or changed |
| `MCRtmpRecv` | the messages the server sends in the runs of `RtmpRecv` |
| `RtmpSession` | handshake and commands, message by message, and a server that answers |
| `TsMux` | the transport stream muxer |
| `TsRecord` | the muxer and its file over several lives of the program |
| `AvDemux` | the audio and video handlers: start codes, headers, ADTS |
| `TsTime` | operators: the bits of PTS, DTS and clock reference |
| `AvToTs` | demuxer and muxer composed |
| `MCAvToTs` | the messages of the run of `AvToTs` |
| `UrlParse` | operators: the parts of a URL |
| `Amf0` | operators: push and pop of AMF0 values |
| `SplitPack` | the split of a message into chunks, in place |
| `ClientWire` | what the client writes and the server reads, byte by byte |
| `MCClientWire` | the URLs and commands of the runs of `ClientWire` |
| `ChunkWireProofs`, `RtmpRecvProofs`, `RtmpSessionProofs`, `TsMuxProofs` (with those of `TsRecord`), `AvToTsProofs`, `ClientWireProofs`, `ClientDialogueProofs` | theorems and proofs |
| `SequenceLemmas` | lemmas: induction over the natural numbers, what `FlattenSeq` returns, the digits of a number |

`RtmpRecv` EXTENDS `ChunkWire` (client and server composed) and implements
`MessageChannel` (`INSTANCE ... WITH`, property `ImplementsChannel`).
`RtmpSession` takes over where that ends: messages are items of a sequence.
`ClientWire` EXTENDS `Amf0`, `SplitPack` and `UrlParse` and has the bytes of what
`RtmpSession` sends. `AvToTs` EXTENDS `AvDemux` and instantiates `TsMux`: the
demuxer's frames are the muxer's input. That its steps are steps of `TsMux` is
how it is put together and no property; what has to be right is which frames
become PES and what they say (`OnePesPerFrame`, `PesAsMeant`, `AudioNearVideo`).
`TsRecord` EXTENDS `TsMux`.

### RtmpRecv

A byte is a pair: which chunk it belongs to and which byte of the chunk it is,
`<<0, i>>` for the handshake. So a mistake of one byte anywhere shows as a byte
that is not where it should be, and no header has to be encoded. `stream` is
all the server has written, `received` how much of it recv has returned.
`m_pBuffer` maps indexes to bytes and holds exactly the cells that were written
and not given up.

Each action is one pass from one blocking call, check or chunk to the next:
`StartPlay`, `Receive(n)` and `ReceiveEnds` (1235–1244), `HandleS0S1`,
`HandleS2` (1246–1267), and `ProcessChunk`, one call of `rtmp_process_chunk`
with its outcomes as disjuncts: nothing left, header incomplete, body
incomplete, chunk stream id refused, chunk taken, message delivered. The order
of effects is kept: a complete header moves `rtmp_last_*` even when the body is
incomplete. If the parser is not at the first byte of a chunk, any header at all
may be read. `rtmp_chunk_max_size` changes inside the delivery of Set Chunk
Size. Audio, video and command handlers may return -1. `CopyDown` takes the
`memcpy` of bytes that may overlap (1274) as the move it is meant to be.

A server may repeat the extended time stamp in chunks of format 3 or not;
`RepeatExtended` says which. The client reads no such field there (736), so
what holds of it holds for servers that do not, and the runs have those.

Left out: the bytes of headers, `message_stream_id`, the values of
`acknowledgement_size` and `bandwidth` (see `RtmpSession`), allocation of
`message_buf`.

### RtmpSession

Both directions are sequences with a count of what the other end has read, so
what was sent and answered remains visible. One action per handler, including
all its sends; each `Send` succeeds or fails on its own, and what is done with
its result is what the code does: the thread ends for C2 and connect, nothing
for the rest. `HandleS2` and `HandleConnectResult` are the handlers with the
messages they build and send. The client's guard is `rtmp_status` and the name of the command,
nothing else. The server answers requests, in order or not (`InOrder`), refuses
or ignores those in `Refusals`, and sends window sizes, other messages and media
of its own. A failed send puts nothing on the wire; a part of a message left on
a broken connection is not distinguished from that.

### ClientWire, Amf0, SplitPack, UrlParse

`SetupUrl` is `rtmp_setupurl`, with `HostOf`, `PortOf`, `AppOf` and `StreamOf`
for what `rtmp_parse_cur_url` finds; a URL is a sequence of characters. A
message is its header, the pushes of the code in their order (`Body`; a push
without room returns -1, which the callers add to the length), and then its
bytes. A byte of a text or of a double is a number of its own, so that a byte in
the wrong place shows. `BuildConnect` calls the split, `MovePage` is one turn of
its loop over `pag_buf`, `SendConnect` sends what came of it. `HandleCommand`
pops the values of a command as `rtmp_process_cmd_0x14` and the result handlers
do; a pop that fails ends the thread. The server (external) reads one chunk at a
time by the chunk size of 128, joins messages, and answers requests in turn;
`lost_track` says that it came upon a byte that is no chunk header.
`Holds` reads a body back independently of the pushes. Time stamps are 0, as
in the code.

The client asks for more than connect and createStream, and the server may
answer `_checkbw` and `getStreamLength` too, once each, with a result that has a
number (`Durations`) or none (`OtherResults`). With `InOrder` these come only
behind the result of createStream; without, before it as well, and then the
client takes the first for it. `Misled` is the state in which that result had
no number. Loss and refusal are the matter of `RtmpSession`; here all sends
succeed.

Members that `strncpy` and `strcpy` write are the bytes ever written to them,
with a 0 among them where one was written (`CopyOver`), and are read as text up
to the first 0 (`CText`), so what stands behind it is there when the next copy
does not end its text.

### AvDemux, TsTime and AvToTs

One action per way through `rtmp_process_video` and `rtmp_process_audio`:
`VideoRefused`, `SequenceHeader`, `Picture`, then `ConvertNal` for each turn of
the loop over the NAL units and `HandPicture` behind it; `AudioConfig`,
`AudioSkipped` and `AudioFrame`. The bytes of video messages are there, because
the conversion is in place; of audio messages the length is. What is read behind
the end of a message is whatever memory holds (`Tails`); members that are never
set begin as anything (`Uninit`, `Garbage`). `len + 4` wraps as an unsigned int
does (`UintMod`). The lengths that are never set are ints, but only ever read as
unsigned, so `Uninit` goes up to `UintMod - 1`, which is -1 too. A message is
taken to hold at least its tag header: the code reads it without looking at the
size. Its length has three bytes, so the sum of it and of a length that was set
does not wrap; with one that was not it may (`Wraps`).

A sequence header says how many SPS and PPS it has, and `nals` are all of them,
`sps_num` the number of SPS (`MadeOfSets`). The code takes it to have one SPS,
keeps that and the first PPS, and of a header with two SPS reads the length of
the second as the number of PPS (1133).

`AvToTs` computes from a frame what `rtmp_tots_packet_from_cache` looks at: the
start code in front, whether a delimiter follows, the length. A frame of another
audio format is handed over with type 0 and given back at once. The muxer runs
to the end of the frame before the demuxer goes on, because it is a call.
`Overrun` is the case where the sum of two lengths wraps and so passes for one
that fits `pes_buf`: the copy that follows ends the program. `cut` is a history
variable, the frame each PES was made of.
`TsTime` writes the five and six bytes of the times as sums of powers of
`P` = 2^7, so that small values of `P` have the same layout.

### TsMux

A PES is its PID, length, time and the frame it comes from; a packet is its
header fields and which bytes of which PES it holds. `Frame` is
`rtmp_tots_packet_from_cache` up to the first packet, `PutPat`, `PutPmt` and
`PutTs` each put one packet in the cache and write the cache if that fills it.
`step` says which comes next; nothing else runs in between, so the split only
makes each packet visible. A write gets as many packets into the file as
`WriteLens` admits: the whole cache, none, or some (`FileWrite`), and what it
returns is not looked at, as in the code. Where in a packet a short write
ends is left out; `lost` says that one did not get everything in, `torn` that one
got a part. `out` records every packet made, `made` every PES.
The video PES length field is always 0, the CRC of the tables and the bits of
the time stamps are left out. `pat_num` is an `unsigned int` of which only the
remainder by 16 is used; the model keeps that remainder.

### TsRecord

`main` sleeps for ever, so a recording ends when the program is killed, and the
next life opens the same `rtmp_live1.ts`. `Record` is a step of the muxer, with
the write it may make at `position`; `Restart` may come between any two packets
and sets the muxer up anew. `file` is then what this life has written, `disk`
the file. `file_open` opens without emptying and starts at the front; it may
fail, and nothing looks at that.

## 4. Runs

| run | module | checks | instance |
|---|---|---|---|
| `RtmpRecvJoin` | `MCRtmpRecv` | `TypeOK`, `ParserAligned`, `MessagesIntact`, `ImplementsChannel` | three messages on two chunk streams, chunk size changes on the way |
| `RtmpRecvFull` | `MCRtmpRecv` | `AbsoluteTimestamps`, `FullBufferOnlyForOversizedChunk`, `EventuallyDelivered` | formats 0 and 1, extended time stamps, a two byte chunk stream id, a buffer a little shorter than the longest chunk, a server that may stop anywhere |
| `SessionAny` | `RtmpSession` | `TypeOK`, `SentOnceInOrder`, `ReleasedByResult`, `WindowReturned` | any order of answers, any refusal, two messages of the server's own |
| `SessionOrdered` | `RtmpSession` | `PlayOnStream`, `PlayReached` | answers in order, createStream never refused, two stream ids |
| `ClientWire` | `MCClientWire` | `WireTypeOK`, `SplitRight`, `UrlUnderstood`, `ServerGetsMeant`, `EndsOnlyOnDamage`, `DialogueHeard` | eight kinds of URL, two stream ids, results for every request, in any order and with a number or without, up to two commands in between, damaged ones among them |
| `AvToTs` | `MCAvToTs` | `TypeOK`, `NalsConverted`, `HeadOfLatest`, `AdtsRight`, `PicturesDelimited`, `TimesReadBack`, `EndsOnUnsound`, `OnePesPerFrame`, `PesAsMeant`, `AudioNearVideo`, `LoopEnds` | any three of twenty messages |
| `TsRecord` | `TsRecord` | `TypeOK`, `FileWhole`, `PacketsFull`, `CountersContinue`, `PesReassembled`, `KeyframeEntry`, `LatestInFront`, `SeamsBetweenGroups`, `OldTailKept` | three frames of two lengths, cache of three packets, short writes, two lives |

**Bounds.** The receiver's behaviour depends on where the stream is cut
relative to the end of the handshake, a header and a body, and on which chunk
stream has a message open. Handshake parts of a few bytes, messages of up to a
few bytes, chunk sizes of one to three and two chunk streams give every such
cut, messages in one, two and three chunks, and a change of size in the middle.
A third message is needed for a buffer kept from an earlier message to show. The
constants of the code (1537, 1536, 64K, 128) are ordinary values of the
constants of the modules, and the theorems hold for them. `RtmpRecvFull` has a
buffer of 17 bytes: it holds a chunk with a whole header and four bytes of body,
but not behind the rest of another one, and one with an extended time stamp and
two bytes of body is longer.

`MaxOther = 2` lets the server announce two window sizes, or one before and one
after its answer. Three requests are open at most. `StreamIds = {7}` keeps
`SessionAny` small: a stream id other than the 1 that the code writes elsewhere
is enough, and `SessionOrdered` has two.

In `TsRecord` the PES lengths are 182 and 354 bytes for audio and 187 and 359
(and 6 more with a delimiter) for video. A packet has room for 184, or 176 with a
clock reference, so they give the layouts where two bytes are left for an
adaptation field (182), one (183 of 359) and none (184 of 365), and last packets
with much stuffing; a PES has one, two or three packets. The cache of three
packets fills after PAT, after PMT and after media packets, and counters modulo
4 wrap. A write gets the whole cache or one packet of it into the file
(`WriteLens = {1, 3}`). Writes that fail wholly, and frames too long for
`pes_buf`, are in `AvToTs` (`WriteLens = {0, 7}`, `PesBuf = 48`). Two values of the clock make tables due or not and set the clock back.
Three frames are shared by the two lives, so that the second may be shorter or
longer than the first or begin before it has written anything.

In `AvToTs` a byte has 16 values, so that the four bytes of a length wrap at
2^16 and more than one of them is used; parameter sets have up to 16 bytes, and
what lies behind a message (`Tails`) is as long as the thread can be made to read
there, two parameter sets and the bytes in between. Three messages are
a header, a second header and a key frame; an audio header, a frame of 2048
or 8192 bytes with its header and another frame; or a damaged picture behind and
before others. `Uninit` has 0, a short length, and one that wraps with what is
added to it; a frame fits `pes_buf` or not (`PesBuf = 48`); `Near = 20` lies
between the times of audio and video frames. The damaged lengths are one too long and two that wrap: to 0,
where the loop stays where it is for a turn, and to 1. `P = 2` and time
stamps below 256 pass the 33 bits' equivalent several times.

In `ClientWire` the chunk size is the real 128. connect's body is 166 bytes
and the URL and the application: from 179 to 385, among them 256 and 257, that is
two whole pages, one byte more, and one byte of a fourth page. The server answers
in any order (`InOrder = FALSE`), so a result without a number may come first. `BufLen` is 786
for the code's 5120: what the longest connect, 708 bytes of body, takes with its
last page. The URLs have no slash, one, two and three, a port, a file with and
without its prefix. The longest stream, 97 characters, makes `getStreamLength` exactly one chunk. Two
commands in between may come at every point of the dialogue.

**Which hazards need which bound** is said with each hazard in `PROJECT.json`:
the properties that cover it, each of which the runs check.

**Deadlock** is not checked: the thread ends, the server may stop, and the
number of messages and frames is bounded, so every model rightly stops.

**Fairness.** `RtmpRecv!FairSpec` has weak fairness of the thread's steps: the
operating system schedules it, and recv returns when bytes have arrived, and at
once when it is asked for 0 bytes because the buffer is full. Nothing is assumed
of the server, the sends or the time out. `RtmpSession!FairSpec` has that and
weak fairness of the server's reading and answering; `PlayReached` is about
servers that serve, and its other outcomes (the thread ended, a send failed,
connect refused) are named in it. No other fairness is given to `ReceiveEnds`,
so that the time out cannot be what makes a liveness property true.
`ClientWire!WireFairSpec` has the thread's steps and the server's reading and
answering, for `DialogueHeard`. `AvToTs!AvFairSpec` has only that a picture in
hand is worked on, each turn of the loop and what is behind it, which waits for
nothing; `LoopEnds` would be false if some length kept the loop where it is.

## 5. Disagreements found

Each is a run that expects a violation of one property taken from a comment.

| run | the comment | the code |
|---|---|---|
| `RtmpRecvTime` | 682: the time of a format 1 header is relative to the previous chunk | the step is added again each time the header is read again because the body was not all there (701–702, 761–764) |
| `RtmpRecvFmt2` | 610: chunks are joined to messages | a message that starts with a format 2 header is taken for empty, and its body for headers |
| `SessionLate` | 576, 456: on the answer to createStream, play names the stream | any `_result` counts; the answer to `_checkbw` may come first |
| `ClientWireLong` | 105: a chunk is 128 bytes by default; 262: 0xc3 heads the second one | `getStreamLength` and `play` are never split: a stream name of 98 characters, which `rtmp_stream` has room for, makes the first longer than a chunk |
| `TsMuxAudio` | `rtmp_tots.cpp:169`: audio takes the video's time when the two differ a lot | `picture_ms - 100` wraps for the first 100 ms |

`RtmpRecvTime` has one media type and no Set Chunk Size, so that reading a header
again is the only way to a wrong time: any other message in between would show
the first of the following instead.

Other disagreements were met and have no run of their own. Where a property
shows one, it is said with which constants:

- The step of a format 1 header is added to the last time stamp of the same
  media type, on whatever chunk stream, and not to the previous chunk's
  (`rtmp_lib.cpp:704`; `RelativeTimestamps` is false with `MediaTypes = {8, 9}`).
- An extended time stamp that the server repeats in chunks of format 3 is read
  as four bytes of the body (`rtmp_lib.cpp:736`; `MessagesIntact` is false with
  `RepeatExtended = TRUE`).
- A stream id above 255 does not fit the one byte `play` writes it into
  (`rtmp_lib.cpp:457`; `PlayOnStream` is false with `StreamIds = {300}`).
- `rtmp_tots.h:187` says 300 s where the code compares milliseconds.

**Behaviour to know of**, about which no text of the repository says anything:

- `rtmp_setupurl` called twice keeps the tail of a longer earlier application,
  because strncpy does not end what it copies (`rtmp_lib.cpp:46`; with
  `MaxUrls = 2` `UrlUnderstood` is false). A URL without a slash keeps the old
  application and stream; with one slash the application is `live` whatever
  stands behind it.
- A `_result` without a number that comes while the client waits for that of
  createStream ends the thread, though nothing is wrong with it (582–599).
- A key frame that comes before the sequence header gets no delimiter, because
  `head_data` is set and its length is 0 or uninitialised.
- `audio_head_data_len` is uninitialised: an AAC frame before the audio header
  is skipped only if it happens to be 0, and with a length near 2^32 the copy into
  `pes_buf` runs over.
- A sequence header with more than one SPS is misread (1133) and mostly ends the
  thread; of several PPS only the first is kept; an end-of-sequence message is
  handed on as a key frame without a picture.
- Without room in a member, `rtmp_setupurl` writes behind it: nothing compares
  the lengths of the parts of a URL with 32, 128 and 512.
- A clock set back delays the tables by as much (`rtmp_tots.cpp:321`); the clock
  reference is the pts, which goes back and forth with B frames (369); the PES
  length of audio wraps at 16 bits (258); up to six packets are never written
  (307).
- A restart writes over the front of `rtmp_live1.ts` and leaves the rest of
  a longer recording behind it.
- setBufferLength names stream 1 whatever stream was created (505), and no
  Acknowledgement is ever sent (814).

## 6. Proofs

All proofs are for arbitrary constants under the ASSUMEs of the modules
(lengths and sizes are natural numbers, those that must be positive are).

**RtmpRecvProofs**: `Typing`, `AlwaysAligned`, `AlwaysIntact`,
`AlwaysAbsolute`, each
`HeadersUnderstood /\ Spec => []...`, from `InvHolds`. `HeadersUnderstood` says
that the server starts messages with headers of format 0 or 1 and does not repeat
an extended time stamp in format 3; without either the properties are false
(`RtmpRecvFmt2`, and section 5). `ParserAligned` and `MessagesIntact` are
not inductive: the parser stays aligned because the slots and the chunk size the
client keeps agree with what the server's multiplexer was when it wrote the
chunk to be parsed next. The invariant therefore has a part about the wire
(`WireInv`, in `ChunkWireProofs`: where each chunk lies in the stream and what
the multiplexer's state before it was), a part about the buffer (`BufferInv`:
its unread bytes are the stream's, from where the client stands) and a part
about joining (`JoinInv`: each slot is what the multiplexer had open on that
chunk stream before chunk `parsed + 1`, with the time stamp a format 0 header
gave it, however often that header was read). Each action has a lemma.
`Implements` is the refinement, `HeadersUnderstood /\ Spec => ImplementsChannel`: the
messages the server finished map to `sent`, the calls of `rtmp_process_message`
to `got`; a chunk that ends a message is `Send`, a call is `Deliver` because
`MessagesIntact` holds after it too, and every other step is a stutter.

`AlwaysRoom`, `HeadersUnderstood /\ Spec => []FullBufferOnlyForOversizedChunk`, is
from `RoomInv`, which stands on the invariant above: whenever the thread goes back to `recv`, the chunk it waits for is longer
than what is in the buffer, and before the handshake is over there is less than a
handshake in it. So a buffer with no room left means a chunk longer than it.

**TsMuxProofs**: `Typing`, `AlwaysFileWhole`, `AlwaysPacketsFull`,
`AlwaysCountersContinue`, `AlwaysReassembled`, `AlwaysKeyframeEntry`, from
`InvHolds`. The properties speak of pairs of packets of one PID in the whole
history. What is inductive is about the last packet of each PID: the counter
kept for it is the next one (`CounterInv`), its PES is complete or is the one
being cut, of which `i_size` bytes are left (`PesInv`), and the tables stand
right before a key frame's first packet (`PsiInv`). `PutOK` treats the cache
once for all three kinds of packet, and any write, whole, short or failed.

The second part of `TsMuxProofs` is about the file (`TsRecord`):
`AlwaysLatestInFront`, `AlwaysSeams`, `AlwaysOldTailKept`,
from `RecordInvHolds`, for any number of lives. The invariant says what each
write is (a whole cache or a front of one), that `position` is a multiple of the
cache's length until a write was short, and that lives come newest first. What is
said of groups has that condition; the order of the lives has not.

**RtmpSessionProofs**: `Typing`, `AlwaysSentOnceInOrder`,
`AlwaysReleasedByResult`, `AlwaysWindowReturned`, from `SessionInvHolds`, for any
refusals and order of answers and any windows and stream ids. The client looks
at nothing but `rtmp_status`; the properties are about what was sent and
received. The invariant says how the two belong together: how far the script was
sent in each status (`SentInv`), that the server answers only what was asked, and
each request once (`ServerInv`), and which results have been taken in each status
(`StatusInv`): the first can only be connect's because nothing else has been asked
then, and the second is one of the next two. `AckInv` says which window size is
the present one.

`AlwaysPlayOnStream` is `OrderedServer /\ Spec => []PlayOnStream`.
`OrderedServer` says that the server answers requests as they
came, never refuses createStream, and gives ids that fit the one byte play has
for them. None can be left out: without the first `SessionLate` shows a play on
another request's number, and so would a refused createStream, and an id of 300
goes out as 44. The client
takes the number of whatever `_result` comes first in `wait_create_stream`. That it
is createStream's takes `PlayInv`: requests wait in the order of their
transactions (`QueueInv`); nothing behind createStream in the script was sent
without it (`AskedInv`), so no later result is given before createStream's
(`CreatedInv`); and nothing but connect's result was taken before (`TakenInv`).

**AvToTsProofs**, for messages of any number, length and content:
`DemuxTyped`, `PicturesConverted`, `KeyFramesHaveHead`, `AudioFramesHaveAdts`,
from `DemuxInvariant`, `Spec => []DemuxInv`. The properties speak of frames that
were handed over; what a step can disturb is what the handlers hold between two
messages and between two turns of the loop. So the invariant has a part about the
loop (`NalInv`: it stands at the end of NAL unit `j` for some `j`, before it are
start codes and units as they are to be written, behind it are the bytes as they
came, so that the next four bytes are still a length), one about the members
(`HeadInv`: `video_head_data` is what the last sequence header said, as long as
the thread runs; `AudioInv`: the ADTS bytes are those of the last audio header,
and the two low bits of byte 3 are clear between two frames), and one about the
frames (`FramesInv`: each is right, with respect to the messages that had come
when it was handed over). Frames of other formats and those sent before the first
audio header pass through `WithLength` too, which is why the bits of byte 3 belong
in the invariant. That the loop finds the next unit takes `Ends`, the sums of
the lengths of the parts of `FlattenSeq`: `PictureParts` and what
`SequenceLemmas` says of it.

`OnlyUnsoundEnds` says when the thread ends: `DemuxInv` gives that a picture
made of NAL units leaves the loop at its end (`TooLong` is never true of one), that
a header with one SPS and sets that fit is stored, and that no sum of lengths wraps
behind a header.

The rest is about the composition. `AvToTsDemuxes`, `AvSpec => Spec`, carries the
invariant over. `DelimitersBetween` follows from it, because a stored header
starts with a start code. `TimesAreReadBack` needs that the times of the PES made
are natural numbers (`TimesInv`) and that the pieces a number is cut into can be
put together again, whatever `P` is.

Three theorems relate what came in to what goes out, through both modules.
`CutInv` says that `cut` and `made` go together: each PES is the one its frame
asks for, and each frame that fits has one. From it are `EveryFrameCut`,
`AvSpec => []OnePesPerFrame`, which is about every length there may be, those that
were never set and those that wrap among them, and with the invariant of the
demuxer `PesOfMessages`, `AvSpec => []PesAsMeant`: kind, time and length of a PES
are those its message and the last headers ask for. `AudioIsNearVideo` is
`AvSpec => []AudioNearVideo` under `TimesShort`: no time stamp reaches `Wrap`,
where the code's times begin at 0 again. The invariant (`NearInv`) is that `last_video_picture_ms` is
the time of the last video frame handed over, of one that was dropped too. In
these theorems `EsLens` and `Times` do not matter: they are only there to bound
what TLC enumerates when it runs `TsMux` alone.

**SequenceLemmas**: the library's induction over the natural numbers takes its
predicate as an operator, which the provers cannot instantiate. `SetInduction`
states it of a set and is proved from the smallest number outside of the set. On it
rest what `FlattenSeq` returns (each part lies behind the sum of the lengths of
those before it) and `Digits`, the pieces of a number.

**ClientWireProofs**, for any URLs, commands, window sizes and stream ids that
`WireAssumption` admits: a URL has a meaning (`IsUrl`: it is put together from
host, port, application and stream in one of the forms the code knows), and the
commands in between do not begin with `_result`; the results, to every
request the client sends, are the server's own. That a URL fits the members is
assumed too (`Fits`), because no line of the code looks: the sizes 32, 128 and 512
in `WireTypeOK` say that nothing else is ever written there. Three invariants
carry it.

- `UrlInv`: the members are what the last URL means. `UrlIsUnderstood` needs
  that `rtmp_setupurl` is called once, `MaxUrls = 1`, as `main` does: called
  again, it keeps the tail of a longer application. `LastIsCalled` says what
  holds of any number of calls: host, port and the address are the last URL's. Under both is `UrlParsed`: where `strchr` finds
  the second, third and fourth slash and the colon in each form (`Find` is the
  smallest index, `LiesAt` says which part of the URL lies there), and that
  `atoi` reads back the digits of a port (`Atoi` is a recursive function over the
  digits, `PortDigits` what they are).
- `SplitInv`: the pages behind `page` are where they belong, and everything in
  front of them is still as it was. `SplitIsRight` is about any message in
  a buffer with room for its last page, `ConnectIsSplit` about connect, which has
  that room because its length is 178 bytes, the URL and the application
  (`ConnectLength`). That length is not assumed: it is the sum of what each push
  appends (`Conveys`, `ConnectConveys`), and `BodyHolds` says more, that a reader
  finds the very values in the body that were pushed.
- `ReplyInv`: in each status, which command is on its way, whether its result is
  createStream's or another request's, and whether it may be that. What the client
  pops is what was pushed (`ResultPopped`, `StreamPopped`, and `NumberedLies` and
  `UnnumberedLies` for the other results), a command the server sends in
  between is not taken for a result (`PopsOther`), and has a name to pop if it is
  sound (`PopsName`). `EndsOnlyOnDamaged` follows for servers that answer
  in order, where no sound command ends the thread, and for those that do not,
  where the one exception is the result without a number (`Misled`).
  `PlaysWhatWasCreated` needs `InOrder`.

`WireTypeCorrect` takes all three and `BytesInv`: every message is a sequence of
bytes (`WindowMessage` to `BufferMessage` also say which header and which values
it has), and the server never keeps more of a message than its size, which is why
it never reads behind what was sent.

**ClientDialogueProofs**: `ServerHearsWhatIsMeant`, `WireSpec => []ServerGetsMeant`
if `InOrder`, `MaxUrls = 1` and `StreamsFit`, on top of the invariants above.
`StreamsFit` says that a stream has at most 97 characters and a stream id one
byte. Each of the hypotheses excludes something the code gets wrong: the number of
another request's result that play names instead of the stream, the application
a second `rtmp_setupurl` leaves behind, a getStreamLength longer than a chunk
that is sent without a second header (`ClientWireLong`, 98 characters), and an id
of 300 sent as 44 in play. URLs, commands, ids and window sizes are otherwise
arbitrary. Three more invariants:

- `BuiltInv`: while it is split, the buffer holds connect, from its first byte on.
- `SentInv`: where each message lies on the wire. connect lies there in chunks
  (`ConnectLies`: a header in front of each page of `ConnectBody`, from
  `SplitRight`), the six others one behind the other at `EndOf(1)` to `EndOf(6)`,
  and in each status nothing lies behind those that were sent by then.
- `HeardInv`: the server has lost no track; it stands at the start, at the end of
  chunk `p` of connect with the first `128 * p` bytes of its body kept
  (`Partly(p)`), or at `EndOf(n)` after `n` messages; and each message it has joined
  is what was meant (`HeardAs`).

`ServerGetsMeant` alone says nothing of the bytes to come, so it is not
inductive. One read is one of eight: the first chunk of connect, a further one
(`PageHeard`: the body kept and the page that lies there are again a front of
`ConnectBody`, and the whole of it only at the last page), or one of the six
messages behind it, each in one chunk because it is no longer than 128 bytes.
createStream and checkbw have headers of format 1 and take their stream id
from connect on chunk stream 3, setBufferLength takes it from the window size on
chunk stream 2: hence `Known` in the invariant. What was sent stays where it was
(`LiesStill`), so joining and sending do not disturb each other; and
`CreatedInTime` says that the server names its stream before play is
sent, so that what is meant by message 6 never changes after it was heard.

**Only model-checked** are the liveness properties `EventuallyDelivered`,
`PlayReached`, `DialogueHeard` and `LoopEnds`: fairness is out of the prover's
reach.

## 7. Not modelled

- The FLV writer (`rtmp_lib.cpp:868–1073`) is under `SAVE_FLV`, which no build
  file defines, and does not compile; the pops of AMF0 objects are called from
  there alone.
- `main` calls a function that does not exist and then sleeps for ever.
- `Socket` and `Pthread` are one system call each. Their outcomes are choices in
  the models: a connection refused, a send that fails, a recv of any length,
  nothing, or an error.
- `file_read`, `file_close` and the byte order macros are called by nothing that
  is built or are one expression each. `file_open` is in `TsRecord`, `file_write` in
  `TsMux`, with the number of packets it gets written and not where in a packet a
  short write ends; the clock is a choice in `TsMux`.
- `bandwidth` is written and never read. Allocation does not fail in the models.
  The CRC of the tables is left out, as are the bytes of the chunk headers the
  client reads.
- Build files, project files and logs.

## 8. Plan

Every module planned is written, and every invariant and action property of a
passing run has a theorem. What could follow:

- `ServerGetsMeant` for servers that answer in any order: TLC checks it, the
  theorem has `InOrder`; play's stream id is then one of the numbers of the results
  that came;

- what holds of `ServerGetsMeant` when a URL is set several times: it should do
  whenever no application is shorter than the one before it, which takes a `UrlInv`
  that compares the URLs set;
- `RtmpSession` and `ClientWire` under one roof: refused requests and failed sends
  with the bytes of the messages, `RtmpSession`'s items being what `joined` holds;
- a window that the server enforces: then the missing Acknowledgement (814) would
  be a state that nothing leaves.
