------------------------------ MODULE MediaPath ------------------------------
(***************************************************************************)
(* The way of the media through the media server: the thread of one RTMP   *)
(* connection (RTMPClient::RunRTMP) handles one RTMP packet after another. *)
(* Of a video packet it hands the NAL units one by one to the H264 sender, *)
(* which sends each as one RTP packet or in fragments.  Audio is decoded   *)
(* to samples and encoded again in frames of another size.  Meanwhile the  *)
(* main loop puts the producer into the map, opens its video sender, and   *)
(* empties the map when the websocket closes.                              *)
(*                                                                         *)
(* Bytes and samples are counted, not represented.  librtmp, jrtplib, the  *)
(* AAC decoder and libopus are external.                                   *)
(***************************************************************************)
EXTENDS Integers, Sequences

CONSTANTS
  MAXLEN,             \* RTPSender.h:19, the payload of a fragment
  Frames,             \* the video packets, as the sequences of their NAL units
  OPUS_FRAME_SIZE,    \* samples per channel in a frame of the encoder
  AAC_FRAME_SIZE,     \* samples per channel that the decoder returns
  Channels,           \* the numbers of channels in the audio configurations; a
                      \* configuration of 0, which says that the number is found
                      \* elsewhere in the stream, is not modelled
  MaxPcm              \* bounds the samples before another audio packet

\* A NAL unit: its size with the header, and whether its type is at most 5, a
\* slice of a picture (others are parameter sets and the like).  The stream gives
\* the size, which may be 0; the type is then that of whatever byte comes next.
Unit == [size : Nat, slice : BOOLEAN]

ASSUME MediaAssumption ==
  /\ MAXLEN \in Nat /\ MAXLEN > 2
  /\ Frames \subseteq Seq(Unit)
  /\ OPUS_FRAME_SIZE \in Nat \ {0}
  /\ AAC_FRAME_SIZE \in Nat
  /\ Channels \subseteq Nat \ {0}
  /\ MaxPcm \in Nat

VARIABLES
  mapped,   \* the producer in mProducerMap: "absent", "in" or "cleared"
  opened,   \* its mVideoSender is set
  task,     \* what the thread is at
  frame,    \* the units of the video packet at hand
  at,       \* which of them the thread is at
  pi,       \* and which fragment of it
  time,     \* how often the RTP timestamp was incremented in this video packet
  sent,     \* the RTP packets sent of it
  failed,   \* the units of it of which a send failed
  decoder,  \* the channels of AAC2OpusConv.mDecoder, 0 if it is not there
  encoder,  \* those of AAC2OpusConv.mEncoder
  mChannels,\* AAC2OpusConv.mChannels
  mBuf,     \* how many samples AAC2OpusConv.mBuf holds
  errors,   \* history: the encoder was missing or failed on this connection
  change    \* history: what its later configurations did to the number of channels

video == <<frame, at, pi, time, sent, failed>>
audio == <<decoder, encoder, mChannels, mBuf, errors, change>>
vars  == <<mapped, opened, task, video, audio>>

\* `from' is where in the unit the payload begins; the first byte of a
\* fragmented unit travels in the FU headers.
Packet == [unit : Nat, from : Nat, len : Nat,
           start : BOOLEAN, end : BOOLEAN, mark : BOOLEAN, time : Nat]

TypeOK ==
  /\ mapped \in {"absent", "in", "cleared"}
  /\ opened \in BOOLEAN
  /\ task \in {"read", "units", "fragments", "encode"}
  /\ frame \in Seq(Unit)
  /\ at \in Nat /\ at >= 1 /\ at <= Len(frame) + 1
  /\ pi \in Nat
  /\ time \in Nat
  /\ sent \in Seq(Packet)
  /\ failed \subseteq 1..Len(frame)
  /\ decoder \in Nat /\ encoder \in Nat /\ mChannels \in Nat \ {0}
  /\ mBuf \in Nat
  /\ errors \in BOOLEAN
  /\ change \in {"none", "more", "fewer"}

Init ==
  /\ mapped = "absent" /\ opened = FALSE
  /\ task = "read"
  /\ frame = <<>> /\ at = 1 /\ pi = 0
  /\ time = 0 /\ sent = <<>> /\ failed = {}
  /\ decoder = 0 /\ encoder = 0 /\ mChannels = 2 /\ mBuf = 0
  /\ errors = FALSE /\ change = "none"

-----------------------------------------------------------------------------
(* The main loop (see ProducerSetup).  mVideoSender is written here and read *)
(* by the thread without a lock; the thread tests and follows the pointer,   *)
(* which is null or that of an open sender.                                  *)

CreateMediaProducer ==
  /\ mapped = "absent"
  /\ mapped' = "in"
  /\ UNCHANGED <<opened, task, video, audio>>

OpenVideo ==
  /\ mapped = "in" /\ ~opened
  /\ opened' = TRUE
  /\ UNCHANGED <<mapped, task, video, audio>>

OnDisconnected ==
  /\ mapped = "in"
  /\ mapped' = "cleared"
  /\ UNCHANGED <<opened, task, video, audio>>

-----------------------------------------------------------------------------
(* Video: the units of a packet. *)

HandleVideo(f) ==
  /\ task = "read"
  /\ task' = "units"
  /\ frame' = f
  /\ UNCHANGED <<mapped, opened, at, pi, time, sent, failed, audio>>

\* The thread goes back to RTMP_ReadPacket, what it knew of the packet is gone.
HandledVideo ==
  /\ task = "units" /\ at > Len(frame)
  /\ task' = "read"
  /\ frame' = <<>> /\ at' = 1 /\ UNCHANGED pi
  /\ time' = 0 /\ sent' = <<>> /\ failed' = {}
  /\ UNCHANGED <<mapped, opened, audio>>

\* RTPSession::SendPacket of jrtplib.  When it fails the packet is not sent,
\* and the timestamp may have been incremented or not.
SendPacket(ok, p, increment) ==
  IF ok
  THEN /\ sent' = Append(sent, p)
       /\ time' = time + increment
       /\ UNCHANGED failed
  ELSE /\ time' \in {time, time + increment}
       /\ failed' = failed \cup {at}
       /\ UNCHANGED sent

Increment(mark) == IF mark THEN 1 ELSE 0

\* A unit that is sent whole leaves room for the two bytes of the FU headers.
IsSingle(size) == size <= MAXLEN - 2

\* Mutant: parameter sets are marked as the end of a picture too.
SingleNalUnitPacket_Marked(u) ==
  [unit |-> u, from |-> 0, len |-> frame[u].size, start |-> TRUE, end |-> TRUE,
   mark |-> TRUE, time |-> time]

SingleNalUnitPacket(u) ==
  [unit |-> u, from |-> 0, len |-> frame[u].size, start |-> TRUE, end |-> TRUE,
   mark |-> frame[u].slice, time |-> time]

\* MediasoupClient::sendVideoData looks up the producer for every unit.
SenderFound == mapped = "in" /\ opened

SendSingleNalUnitPacket ==
  /\ task = "units" /\ at <= Len(frame) /\ SenderFound
  /\ IsSingle(frame[at].size)
  /\ \E ok \in BOOLEAN :
       LET p == SingleNalUnitPacket(at) IN SendPacket(ok, p, Increment(p.mark))
  /\ at' = at + 1
  /\ UNCHANGED <<mapped, opened, task, frame, pi, audio>>

\* The unit goes nowhere: no producer has the key, or its sender is not open.
DropUnit ==
  /\ task = "units" /\ at <= Len(frame) /\ ~SenderFound
  /\ at' = at + 1
  /\ UNCHANGED <<mapped, opened, task, frame, pi, time, sent, failed, audio>>

-----------------------------------------------------------------------------
(* Video: the fragments of a unit. *)

\* From here on the thread holds the producer and its sender, whatever becomes
\* of the map.
SendFragmentationUnitsPacket ==
  /\ task = "units" /\ at <= Len(frame) /\ SenderFound
  /\ ~IsSingle(frame[at].size)
  /\ task' = "fragments"
  /\ pi' = 0
  /\ UNCHANGED <<mapped, opened, frame, at, time, sent, failed, audio>>

\* Mutant: a last fragment that is full is counted as one more.
Num_Full(size) == (size - 1) \div MAXLEN

\* The number of the last fragment, counted from 0, and what is left for it.
Num(size) ==
  IF (size - 1) % MAXLEN = 0 THEN (size - 1) \div MAXLEN - 1 ELSE (size - 1) \div MAXLEN

More(size) == IF (size - 1) % MAXLEN = 0 THEN MAXLEN ELSE (size - 1) % MAXLEN

\* The first fragment is the start even when it is also the last.
IsEnd(size, n) == n # 0 /\ n = Num(size)

Fragment(u, n) ==
  LET end == IsEnd(frame[u].size, n)
  IN  [unit  |-> u,
       from  |-> 1 + n * MAXLEN,
       len   |-> IF end THEN More(frame[u].size) ELSE MAXLEN,
       start |-> n = 0,
       end   |-> end,
       mark  |-> end,
       time  |-> time]

\* Mutant: a failing send goes on with the next fragment.
SendFragment_GoesOn ==
  /\ task = "fragments"
  /\ \E ok \in BOOLEAN :
       LET p == Fragment(at, pi)
       IN  /\ SendPacket(ok, p, Increment(p.mark))
           /\ IF pi < Num(frame[at].size)
              THEN pi' = pi + 1 /\ UNCHANGED <<task, at>>
              ELSE pi' = 0 /\ task' = "units" /\ at' = at + 1
  /\ UNCHANGED <<mapped, opened, frame, audio>>

\* One turn of the loop; a failing send returns and leaves the rest unsent.
SendFragment ==
  /\ task = "fragments"
  /\ \E ok \in BOOLEAN :
       LET p == Fragment(at, pi)
       IN  /\ SendPacket(ok, p, Increment(p.mark))
           /\ IF ok /\ pi < Num(frame[at].size)
              THEN pi' = pi + 1 /\ UNCHANGED <<task, at>>
              ELSE pi' = 0 /\ task' = "units" /\ at' = at + 1
  /\ UNCHANGED <<mapped, opened, frame, audio>>

-----------------------------------------------------------------------------
(* Audio. *)

\* What a call of encode removes from the buffer.  The encoder reads a frame of
\* the channels it was created with.
FrameSamples == OPUS_FRAME_SIZE * mChannels

\* SimpleOpusEncoder::initialize keeps an encoder that is there.  Opus creates none
\* of more than two channels, nor for a sample rate it does not know.
Initialized(n) ==
  IF encoder # 0 THEN {encoder} ELSE IF n <= 2 THEN {n, 0} ELSE {0}

\* The sequence header: AAC2OpusConv::init; a decoder that is there is kept too.
HandleAudioConfig(n) ==
  /\ task = "read"
  /\ decoder' = IF decoder = 0 THEN n ELSE decoder
  /\ encoder' \in Initialized(n)
  /\ mChannels' = n
  /\ change' = IF decoder = 0 \/ n = mChannels \/ change = "fewer" THEN change
               ELSE IF n < mChannels THEN "fewer" ELSE "more"
  /\ UNCHANGED <<mapped, opened, task, video, mBuf, errors>>

\* AAC2OpusConv::decode: a decoder that is missing or fails adds nothing.
Decoded == {mBuf} \cup (IF decoder = 0 THEN {} ELSE {mBuf + AAC_FRAME_SIZE * decoder})

\* The thread goes on to encode whatever became of the decoding.
HandleAudioRaw ==
  /\ task = "read" /\ mBuf <= MaxPcm
  /\ task' = "encode"
  /\ mBuf' \in Decoded
  /\ UNCHANGED <<mapped, opened, video, decoder, encoder, mChannels, errors, change>>

\* Mutant: one frame is encoded for one decoded.
Encode_Once ==
  /\ task = "encode"
  /\ \/ /\ mBuf < FrameSamples
        /\ UNCHANGED <<mBuf, errors>>
     \/ /\ mBuf >= FrameSamples /\ encoder # 0
        /\ mBuf' = mBuf - FrameSamples
        /\ UNCHANGED errors
     \/ /\ mBuf >= FrameSamples
        /\ errors' = TRUE
        /\ UNCHANGED mBuf
  /\ task' = "read"
  /\ UNCHANGED <<mapped, opened, video, decoder, encoder, mChannels, change>>

\* One turn of the loop around AAC2OpusConv::encode, which ends when less than a
\* frame is left, and keeps the frame when the encoder is missing or fails.
Encode ==
  /\ task = "encode"
  /\ \/ /\ mBuf < FrameSamples
        /\ task' = "read"
        /\ UNCHANGED <<mBuf, errors>>
     \/ /\ mBuf >= FrameSamples /\ encoder # 0
        /\ mBuf' = mBuf - FrameSamples
        /\ UNCHANGED <<task, errors>>
     \/ /\ mBuf >= FrameSamples
        /\ task' = "read"
        /\ errors' = TRUE
        /\ UNCHANGED mBuf
  /\ UNCHANGED <<mapped, opened, video, decoder, encoder, mChannels, change>>

-----------------------------------------------------------------------------

\* The connection ends, and the next one has a thread and a converter of its own.
Reconnect ==
  /\ task = "read"
  /\ decoder' = 0 /\ encoder' = 0 /\ mChannels' = 2 /\ mBuf' = 0
  /\ errors' = FALSE /\ change' = "none"
  /\ UNCHANGED <<mapped, opened, task, video>>

Next ==
  \/ CreateMediaProducer \/ OpenVideo \/ OnDisconnected
  \/ \E f \in Frames : HandleVideo(f)
  \/ HandledVideo
  \/ SendSingleNalUnitPacket \/ DropUnit
  \/ SendFragmentationUnitsPacket \/ SendFragment
  \/ \E n \in Channels : HandleAudioConfig(n)
  \/ HandleAudioRaw \/ Encode
  \/ Reconnect

Spec == Init /\ [][Next]_vars

-----------------------------------------------------------------------------
(* Properties. *)

\* Units so little longer than a single packet that their first fragment is the
\* last: rtpLen is at most MAXLEN.
IsShort(size) == ~IsSingle(size) /\ size <= MAXLEN + 1

\* The packet follows the one before it in the unit, or is the start of its own.
IsFollowed(i) ==
  \/ sent[i].start
  \/ /\ i > 1
     /\ sent[i - 1].unit = sent[i].unit /\ ~sent[i - 1].end
     /\ sent[i - 1].from + sent[i - 1].len = sent[i].from

IsInside(p) ==
  LET size == frame[p.unit].size
  IN  IF IsShort(size) THEN p.start /\ ~p.end
      ELSE p.from + p.len <= size /\ (p.end <=> p.from + p.len = size)

IsComplete(i) ==
  LET u == sent[i].unit
  IN  /\ u < at /\ u \notin failed /\ ~IsShort(frame[u].size)
      /\ i < Len(sent) => sent[i + 1].unit # u
      => sent[i].end

\* Whatever the receiver gets of a NAL unit can be put together: the packets of
\* a unit follow each other without a gap from its start, none of them reaches
\* beyond it, and once the thread is done with the unit and no send has failed
\* the last one is its end.  This is what the arithmetic of
\* sendFragmentationUnitsPacket is for; it is wrong for short units, which get a
\* start without an end.
Reassembles ==
  \A i \in 1..Len(sent) : IsFollowed(i) /\ IsInside(sent[i]) /\ IsComplete(i)

\* A picture of one slice, after units that are neither slices nor long.
IsOneSlice ==
  \A u \in 1..Len(frame) :
    u < Len(frame) => ~frame[u].slice /\ IsSingle(frame[u].size)

\* A picture of one slice has one timestamp, and only its last packet is marked
\* (RFC 3984, which H264RTPSender.cc:3 refers to), whatever part of it was sent,
\* and however it was cut.
PictureSharesTimestamp ==
  IsOneSlice => \A i \in 1..Len(sent) :
                  /\ sent[i].time = 0
                  /\ sent[i].mark => i = Len(sent) /\ sent[i].unit = Len(frame)

\* The audio keeps up although a decoded frame is longer than an encoded one:
\* what the thread leaves in mBuf is less than a frame, unless the encoder
\* was missing or failed on this connection.  And what the encoder reads is all in
\* mBuf.  Both are lost when a later configuration has fewer channels, for the
\* encoder that is kept has more (OpusEncoder.cc:19, AAC2OpusConv.cc:32).
AudioKeepsUp ==
  change # "fewer" =>
    /\ task # "encode" => mBuf < FrameSamples \/ errors
    /\ task = "encode" /\ mBuf >= FrameSamples => mBuf >= OPUS_FRAME_SIZE * encoder

-----------------------------------------------------------------------------
(* The inductive invariant. *)

\* Between video packets there is nothing left of one.
NoFrame ==
  task \notin {"units", "fragments"} =>
    frame = <<>> /\ at = 1 /\ time = 0 /\ sent = <<>> /\ failed = {}

\* What was sent and what failed is of units before the one the thread is at,
\* except for the fragments sent of that one.
UnitsAreInOrder ==
  /\ \A i \in 1..Len(sent) :
       /\ sent[i].unit \in 1..Len(frame)
       /\ sent[i].unit < at \/ (task = "fragments" /\ pi > 0 /\ sent[i].unit = at)
       /\ i > 1 => sent[i - 1].unit <= sent[i].unit
  /\ \A u \in failed : u < at

\* Where the loop over the fragments is.
AtFragment ==
  IF task = "fragments"
  THEN /\ at <= Len(frame) /\ ~IsSingle(frame[at].size)
       /\ pi <= Num(frame[at].size)
       /\ pi > 0 => LET p == sent[Len(sent)]
                    IN  /\ Len(sent) > 0
                        /\ p.unit = at /\ ~p.end
                        /\ p.from + p.len = 1 + pi * MAXLEN
  ELSE pi = 0

\* The timestamp of a picture of one slice is incremented with its last packet.
IncrementsOnce ==
  IsOneSlice /\ at <= Len(frame) =>
    time = 0 /\ \A i \in 1..Len(sent) : ~sent[i].mark

\* The encoder and the decoder are those of some configuration of the connection;
\* while there is only one they agree with mChannels, and no sample is skipped.
ChannelsAgree ==
  /\ change = "none" /\ decoder # 0 => decoder = mChannels /\ encoder \in {0, mChannels}
  /\ change # "fewer" => encoder <= mChannels
  /\ decoder = 0 => encoder = 0 /\ mBuf = 0 /\ change = "none"

IInv ==
  /\ TypeOK
  /\ NoFrame /\ UnitsAreInOrder /\ AtFragment /\ IncrementsOnce
  /\ Reassembles /\ PictureSharesTimestamp /\ AudioKeepsUp /\ ChannelsAgree
==============================================================================
