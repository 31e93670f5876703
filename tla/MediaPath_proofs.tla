-------------------------- MODULE MediaPath_proofs --------------------------
(***************************************************************************)
(* Theorems about MediaPath, for any MAXLEN, any packets and any sizes of  *)
(* the audio frames: IInv is inductive.                                    *)
(***************************************************************************)
EXTENDS MediaPath, TLAPS

-----------------------------------------------------------------------------
(* The arithmetic of sendFragmentationUnitsPacket. *)

LEMMA Product ==
  ASSUME NEW m \in Nat, NEW a \in Nat, NEW b \in Nat, a < b
  PROVE  a * m + m <= b * m
<1>1. (b - a - 1) * m >= 0 /\ b - a - 1 \in Nat
  OBVIOUS
<1>2. (b - a - 1) * m = b * m - a * m - m
  OBVIOUS
<1> QED BY <1>1, <1>2

LEMMA QuotientIsNat ==
  ASSUME NEW m \in Nat, NEW d \in Int, NEW e \in 0..(m - 1), d * m + e >= 0
  PROVE  d \in Nat
<1>1. CASE d < 0
  <2>1. (-1 - d) * m >= 0
    <3>1. -1 - d \in Nat
      BY <1>1
    <3> QED BY <3>1
  <2>2. (-1 - d) * m = -m - d * m
    OBVIOUS
  <2> QED BY <2>1, <2>2
<1> QED BY <1>1

\* The last fragment is not empty, and together they are the unit but for its
\* header byte.
LEMMA NumAndMore ==
  ASSUME NEW size \in Nat, ~IsSingle(size)
  PROVE  /\ Num(size) \in Nat /\ More(size) \in 1..MAXLEN
         /\ size - 1 = Num(size) * MAXLEN + More(size)
         /\ Num(size) = 0 <=> IsShort(size)
<1> DEFINE r == size - 1
           d == r \div MAXLEN
           e == r % MAXLEN
<1>1. MAXLEN \in Nat /\ MAXLEN > 2 /\ r \in Nat /\ r >= 1
  BY MediaAssumption DEF IsSingle
<1>2. d \in Nat /\ e \in 0..(MAXLEN - 1) /\ r = d * MAXLEN + e
  <2> HIDE DEF r
  <2>1. r = MAXLEN * d + e /\ e \in 0..(MAXLEN - 1) /\ d \in Int
    BY <1>1
  <2> HIDE DEF d, e
  <2>2. MAXLEN * d = d * MAXLEN
    BY <1>1, <2>1
  <2> QED BY <1>1, <2>1, <2>2, QuotientIsNat
<1> HIDE DEF d, e
<1>3. CASE e = 0
  <2>1. d >= 1
    BY <1>1, <1>2, <1>3
  <2>2. Num(size) = d - 1 /\ More(size) = MAXLEN
    BY <1>3 DEF Num, More, d, e
  <2>3. (d - 1) * MAXLEN = d * MAXLEN - MAXLEN
    BY <1>1, <1>2
  <2>4. d - 1 = 0 <=> r <= MAXLEN
    <3>1. d = 1 => r = MAXLEN
      BY <1>1, <1>2, <1>3
    <3>2. d > 1 => r > MAXLEN
      BY <1>1, <1>2, <1>3, Product
    <3> QED BY <1>2, <1>1, <2>1, <3>1, <3>2
  <2> QED BY <1>1, <1>2, <1>3, <2>1, <2>2, <2>3, <2>4 DEF IsShort
<1>4. CASE e # 0
  <2>1. Num(size) = d /\ More(size) = e
    BY <1>4 DEF Num, More, d, e
  <2>2. d = 0 <=> r <= MAXLEN
    <3>1. d = 0 => r <= MAXLEN
      BY <1>1, <1>2
    <3>2. d > 0 => r > MAXLEN
      BY <1>1, <1>2, <1>4, Product
    <3> QED BY <1>2, <1>1, <3>1, <3>2
  <2> QED BY <1>1, <1>2, <1>4, <2>1, <2>2 DEF IsShort
<1> QED BY <1>3, <1>4

\* What a fragment is to its unit and to the next one.
LEMMA FragmentLemma ==
  ASSUME NEW u, NEW n \in Nat, frame[u] \in Unit, time \in Nat,
         u \in Nat, ~IsSingle(frame[u].size), n <= Num(frame[u].size)
  PROVE  /\ Fragment(u, n) \in Packet
         /\ Fragment(u, n).unit = u /\ Fragment(u, n).time = time
         /\ Fragment(u, n).from = 1 + n * MAXLEN
         /\ Fragment(u, n).start <=> n = 0
         /\ Fragment(u, n).mark <=> Fragment(u, n).end
         /\ IsInside(Fragment(u, n))
         /\ IF n < Num(frame[u].size)
            THEN /\ ~Fragment(u, n).end
                 /\ Fragment(u, n).from + Fragment(u, n).len = 1 + (n + 1) * MAXLEN
            ELSE Fragment(u, n).end <=> ~IsShort(frame[u].size)
<1> DEFINE size == frame[u].size
           p == Fragment(u, n)
<1>1. size \in Nat /\ MAXLEN \in Nat /\ MAXLEN > 2
  BY MediaAssumption DEF Unit
<1>2. /\ Num(size) \in Nat /\ More(size) \in 1..MAXLEN
      /\ size - 1 = Num(size) * MAXLEN + More(size)
      /\ Num(size) = 0 <=> IsShort(size)
  BY <1>1, NumAndMore
<1>3. n * MAXLEN \in Nat /\ IsEnd(size, n) \in BOOLEAN
  BY <1>1 DEF IsEnd
<1>4. /\ p.unit = u /\ p.time = time /\ p.from = 1 + n * MAXLEN
      /\ p.len = IF IsEnd(size, n) THEN More(size) ELSE MAXLEN
      /\ p.start = (n = 0) /\ p.end = IsEnd(size, n) /\ p.mark = IsEnd(size, n)
  BY DEF Fragment
<1>5. p \in Packet
  <2>1. (IF IsEnd(size, n) THEN More(size) ELSE MAXLEN) \in Nat
    BY <1>1, <1>2
  <2>2. 1 + n * MAXLEN \in Nat /\ (n = 0) \in BOOLEAN
    BY <1>3
  <2> QED BY <1>3, <2>1, <2>2 DEF Fragment, Packet
<1> HIDE DEF p
<1>6. (p.start <=> n = 0) /\ (p.end <=> IsEnd(size, n)) /\ (p.mark <=> p.end)
  BY <1>4, Zenon
<1>7. p.len = (IF p.end THEN More(size) ELSE MAXLEN)
  BY <1>4, Zenon
<1>8. /\ IsInside(p)
      /\ IF n < Num(size)
         THEN ~p.end /\ p.from + p.len = 1 + (n + 1) * MAXLEN
         ELSE p.end <=> ~IsShort(size)
  <2> HIDE DEF size
  <2>1. CASE n < Num(size)
    <3>1. ~p.end /\ p.len = MAXLEN
      BY <1>2, <1>6, <1>7, <2>1 DEF IsEnd
    <3>2. (n + 1) * MAXLEN = n * MAXLEN + MAXLEN
      BY <1>1
    <3>3. n * MAXLEN + MAXLEN <= Num(size) * MAXLEN
      BY <1>1, <1>2, <2>1, Product
    <3>4. p.from + p.len < size
      BY <1>1, <1>2, <1>3, <1>4, <3>1, <3>3
    <3>5. ~IsShort(size)
      BY <1>2, <2>1
    <3>6. IsInside(p)
      BY <1>1, <1>3, <1>4, <3>1, <3>4, <3>5 DEF IsInside, size
    <3> QED BY <1>1, <1>3, <1>4, <2>1, <3>1, <3>2, <3>6
  <2>2. CASE n = Num(size)
    <3>1. p.end <=> ~IsShort(size)
      BY <1>2, <1>6, <2>2 DEF IsEnd
    <3>2. ~IsShort(size) => p.from + p.len = size
      BY <1>1, <1>2, <1>3, <1>4, <1>7, <2>2, <3>1
    <3>3. IsShort(size) => p.start
      BY <1>2, <1>6, <2>2
    <3>4. IsInside(p)
      BY <1>1, <1>4, <3>1, <3>2, <3>3 DEF IsInside, size
    <3> QED BY <1>1, <2>2, <3>1, <3>4
  <2> QED BY <1>2, <2>1, <2>2 DEF size
<1> QED BY <1>4, <1>5, <1>6, <1>8 DEF p

-----------------------------------------------------------------------------
(* The invariant, action by action. *)

\* TypeOK, apart for the provers: Boolean variables, and the others.
FlagsOK ==
  /\ opened \in BOOLEAN
  /\ errors \in BOOLEAN
  /\ decoder \in Nat /\ encoder \in Nat /\ mChannels \in Nat \ {0}
  /\ change \in {"none", "more", "fewer"}

DataOK ==
  /\ mapped \in {"absent", "in", "cleared"}
  /\ task \in {"read", "units", "fragments", "encode"}
  /\ frame \in Seq(Unit)
  /\ at \in Nat /\ at >= 1 /\ at <= Len(frame) + 1
  /\ pi \in Nat
  /\ time \in Nat
  /\ sent \in Seq(Packet)
  /\ failed \subseteq 1..Len(frame)
  /\ mBuf \in Nat

LEMMA TypeParts == (TypeOK <=> FlagsOK /\ DataOK) /\ (TypeOK' <=> FlagsOK' /\ DataOK')
  BY Zenon DEF TypeOK, FlagsOK, DataOK

LEMMA FramesGrow ==
  ASSUME NEW a \in Nat, NEW b \in Nat, a <= b
  PROVE  /\ OPUS_FRAME_SIZE * a \in Nat /\ OPUS_FRAME_SIZE * b \in Nat
         /\ OPUS_FRAME_SIZE * a <= OPUS_FRAME_SIZE * b
         /\ 0 < b => 0 < OPUS_FRAME_SIZE * b
<1>1. OPUS_FRAME_SIZE \in Nat \ {0}
  BY MediaAssumption
<1>2. OPUS_FRAME_SIZE * (b - a) >= 0 /\ OPUS_FRAME_SIZE * a >= 0 /\ OPUS_FRAME_SIZE * b >= 0
  BY <1>1
<1>3. OPUS_FRAME_SIZE * (b - a) = OPUS_FRAME_SIZE * b - OPUS_FRAME_SIZE * a
  BY <1>1
<1>4. ASSUME 0 < b PROVE 0 < OPUS_FRAME_SIZE * b
  <2>1. (OPUS_FRAME_SIZE - 1) * b >= 0
    BY <1>1
  <2>2. (OPUS_FRAME_SIZE - 1) * b = OPUS_FRAME_SIZE * b - b
    BY <1>1
  <2> QED BY <1>1, <1>4, <2>1, <2>2
<1> QED BY <1>1, <1>2, <1>3, <1>4

LEMMA Sizes ==
  ASSUME FlagsOK
  PROVE  /\ FrameSamples \in Nat /\ FrameSamples > 0
         /\ AAC_FRAME_SIZE * decoder \in Nat
<1>1. mChannels \in Nat /\ mChannels > 0 /\ decoder \in Nat
  BY DEF FlagsOK
<1>2. FrameSamples \in Nat /\ FrameSamples > 0
  BY <1>1, FramesGrow DEF FrameSamples
<1>3. AAC_FRAME_SIZE * decoder \in Nat
  <2>1. AAC_FRAME_SIZE \in Nat
    BY MediaAssumption
  <2> QED BY <1>1, <2>1
<1> QED BY <1>2, <1>3

LEMMA InitInv == Init => IInv
<1> SUFFICES ASSUME Init PROVE IInv
  OBVIOUS
<1>1. FlagsOK
  <2>1. opened \in BOOLEAN /\ errors \in BOOLEAN
    BY Zenon DEF Init
  <2>2. /\ decoder \in Nat /\ encoder \in Nat /\ mChannels \in Nat \ {0}
        /\ change \in {"none", "more", "fewer"}
    BY DEF Init
  <2> QED BY <2>1, <2>2, Zenon DEF FlagsOK
<1>2. /\ mapped = "absent" /\ task = "read" /\ frame = <<>> /\ at = 1 /\ pi = 0
      /\ time = 0 /\ sent = <<>> /\ failed = {} /\ mBuf = 0
      /\ decoder = 0 /\ encoder = 0 /\ mChannels = 2 /\ change = "none"
  BY Zenon DEF Init
<1>3. frame \in Seq(Unit) /\ sent \in Seq(Packet)
  <2>1. \A S : <<>> \in Seq(S)
    OBVIOUS
  <2> QED BY <1>2, <2>1, Zenon
<1>4. Len(frame) = 0 /\ Len(sent) = 0
  BY <1>2
<1>5. 1..Len(sent) = {}
  BY <1>4
<1>6. DataOK
  <2>1. mapped \in {"absent", "in", "cleared"} /\ task \in {"read", "units", "fragments", "encode"}
    BY <1>2
  <2>2. at \in Nat /\ at >= 1 /\ at <= Len(frame) + 1 /\ pi \in Nat /\ time \in Nat /\ mBuf \in Nat
    BY <1>2, <1>4
  <2>3. failed \subseteq 1..Len(frame)
    BY <1>2
  <2> QED BY <1>3, <2>1, <2>2, <2>3, Zenon DEF DataOK
<1>7. AudioKeepsUp /\ ChannelsAgree
  BY <1>1, <1>2, Sizes DEF AudioKeepsUp, ChannelsAgree
<1>8. NoFrame /\ AtFragment
  BY <1>2 DEF NoFrame, AtFragment
<1>9. UnitsAreInOrder /\ IncrementsOnce
  BY <1>2, <1>4, <1>5 DEF UnitsAreInOrder, IncrementsOnce
<1>10. Reassembles /\ PictureSharesTimestamp
  BY <1>5 DEF Reassembles, PictureSharesTimestamp
<1> QED BY <1>1, <1>6, <1>7, <1>8, <1>9, <1>10, TypeParts DEF IInv

\* The parts of the invariant that are about the video packet at hand.
VideoInv ==
  /\ NoFrame /\ UnitsAreInOrder /\ AtFragment /\ IncrementsOnce
  /\ Reassembles /\ PictureSharesTimestamp

\* Steps that leave the video packet alone, and do not start or end one.
LEMMA VideoUntouched ==
  ASSUME VideoInv, UNCHANGED video,
         task' = task \/ {task, task'} \subseteq {"read", "encode"}
  PROVE  VideoInv'
<1> USE DEF VideoInv, video
<1>1. IsOneSlice' <=> IsOneSlice
  BY DEF IsOneSlice
<1>2. NoFrame' /\ UnitsAreInOrder' /\ AtFragment' /\ IncrementsOnce'
  BY <1>1 DEF NoFrame, UnitsAreInOrder, AtFragment, IncrementsOnce
<1>3. PictureSharesTimestamp'
  BY <1>1 DEF PictureSharesTimestamp
<1>4. Reassembles'
  BY DEF Reassembles, IsFollowed, IsInside, IsComplete
<1> QED BY <1>2, <1>3, <1>4

LEMMA MainLoopInv ==
  ASSUME IInv, CreateMediaProducer \/ OpenVideo \/ OnDisconnected \/ UNCHANGED vars
  PROVE  IInv'
<1>1. UNCHANGED <<task, video, audio>>
  BY DEF CreateMediaProducer, OpenVideo, OnDisconnected, vars
<1>2. mapped' \in {mapped, "in", "cleared"} /\ opened' \in {opened, TRUE}
  BY Zenon DEF CreateMediaProducer, OpenVideo, OnDisconnected, vars
<1>3. TypeOK'
  <2>1. FlagsOK'
    BY <1>1, <1>2, TypeParts, Zenon DEF IInv, FlagsOK, audio
  <2>2. DataOK'
    BY <1>1, <1>2, TypeParts DEF IInv, DataOK, video, audio
  <2> QED BY <2>1, <2>2, TypeParts
<1>4. AudioKeepsUp' /\ ChannelsAgree'
  BY <1>1 DEF IInv, AudioKeepsUp, ChannelsAgree, FrameSamples, audio
<1>5. VideoInv'
  BY <1>1, VideoUntouched DEF IInv, VideoInv
<1> QED BY <1>3, <1>4, <1>5 DEF IInv, VideoInv

\* The conversion of the audio does not touch what AudioKeepsUp and ChannelsAgree
\* do not speak of.
LEMMA AudioOnly ==
  ASSUME IInv, UNCHANGED video, UNCHANGED <<mapped, opened>>,
         task \in {"read", "encode"}, task' \in {"read", "encode"},
         FlagsOK', mBuf' \in Nat, AudioKeepsUp', ChannelsAgree'
  PROVE  IInv'
<1> USE DEF IInv
<1>1. TypeOK'
  <2>1. DataOK'
    BY TypeParts DEF DataOK, video
  <2> QED BY <2>1, TypeParts
<1>2. VideoInv'
  BY VideoUntouched DEF VideoInv
<1> QED BY <1>1, <1>2 DEF VideoInv

LEMMA ConfigInv ==
  ASSUME IInv, NEW n \in Channels, HandleAudioConfig(n)
  PROVE  IInv'
<1> USE DEF IInv
<1>1. FlagsOK /\ mBuf \in Nat /\ n \in Nat /\ n > 0
  BY TypeParts, MediaAssumption DEF DataOK
<1>2. /\ decoder' = IF decoder = 0 THEN n ELSE decoder
      /\ encoder' \in IF encoder # 0 THEN {encoder} ELSE {n, 0}
      /\ mChannels' = n
  BY DEF HandleAudioConfig, Initialized
<1>3. /\ decoder = 0 \/ n = mChannels => change' = change
      /\ decoder # 0 /\ n < mChannels => change' = "fewer"
      /\ decoder # 0 /\ n > mChannels => change' = IF change = "fewer" THEN "fewer" ELSE "more"
  BY <1>1 DEF HandleAudioConfig, FlagsOK
<1>4. /\ task = "read" /\ task' = "read"
      /\ UNCHANGED video /\ UNCHANGED <<mapped, opened>> /\ mBuf' = mBuf /\ errors' = errors
  BY DEF HandleAudioConfig
<1>5. FlagsOK'
  BY <1>1, <1>2, <1>3, <1>4 DEF FlagsOK
<1>6. ChannelsAgree'
  BY <1>1, <1>2, <1>3, <1>4 DEF ChannelsAgree, FlagsOK
<1>7. AudioKeepsUp'
  <2> SUFFICES ASSUME change' # "fewer" PROVE mBuf < OPUS_FRAME_SIZE * n \/ errors
    BY <1>2, <1>4 DEF AudioKeepsUp, FrameSamples
  <2>1. CASE decoder = 0
    BY <1>1, <2>1, FramesGrow DEF ChannelsAgree
  <2>2. CASE decoder # 0
    <3>1. mChannels <= n /\ change # "fewer"
      BY <1>1, <1>3, <2>2 DEF FlagsOK
    <3>2. mBuf < OPUS_FRAME_SIZE * mChannels \/ errors
      BY <1>4, <3>1 DEF AudioKeepsUp, FrameSamples
    <3>3. /\ OPUS_FRAME_SIZE * mChannels \in Nat /\ OPUS_FRAME_SIZE * n \in Nat
          /\ OPUS_FRAME_SIZE * mChannels <= OPUS_FRAME_SIZE * n
      BY <1>1, <3>1, FramesGrow DEF FlagsOK
    <3>4. CASE errors
      BY <3>4
    <3>5. CASE mBuf < OPUS_FRAME_SIZE * mChannels
      BY <1>1, <3>3, <3>5
    <3> QED BY <3>2, <3>4, <3>5
  <2> QED BY <2>1, <2>2
<1> QED BY <1>1, <1>4, <1>5, <1>6, <1>7, AudioOnly

LEMMA RawInv ==
  ASSUME IInv, HandleAudioRaw \/ Encode
  PROVE  IInv'
<1> USE DEF IInv
<1>1. FlagsOK /\ mBuf \in Nat
  BY TypeParts DEF DataOK
<1>2. /\ UNCHANGED <<decoder, encoder, mChannels, change>>
      /\ UNCHANGED video /\ UNCHANGED <<mapped, opened>>
      /\ task \in {"read", "encode"} /\ task' \in {"read", "encode"}
  BY DEF HandleAudioRaw, Encode
<1>3. errors' \in BOOLEAN
  BY <1>1, Zenon DEF FlagsOK, HandleAudioRaw, Encode
<1>4. FlagsOK'
  BY <1>1, <1>2, <1>3, Zenon DEF FlagsOK
<1>5. mBuf' \in Nat /\ (decoder = 0 => mBuf' = mBuf)
  <2>1. CASE HandleAudioRaw
    BY <1>1, <2>1, Sizes DEF HandleAudioRaw, Decoded
  <2>2. CASE Encode
    BY <1>1, <2>2, Sizes DEF Encode, ChannelsAgree
  <2> QED BY <2>1, <2>2
<1>6. ChannelsAgree'
  BY <1>2, <1>5 DEF ChannelsAgree
<1>7. change # "fewer" /\ mBuf' >= FrameSamples => mBuf' >= OPUS_FRAME_SIZE * encoder
  <2> SUFFICES ASSUME change # "fewer", mBuf' >= OPUS_FRAME_SIZE * mChannels
               PROVE  mBuf' >= OPUS_FRAME_SIZE * encoder
    BY DEF FrameSamples
  <2>1. encoder <= mChannels /\ encoder \in Nat /\ mChannels \in Nat
    BY <1>1 DEF ChannelsAgree, FlagsOK
  <2>2. /\ OPUS_FRAME_SIZE * encoder <= OPUS_FRAME_SIZE * mChannels
        /\ OPUS_FRAME_SIZE * encoder \in Nat /\ OPUS_FRAME_SIZE * mChannels \in Nat
    BY <2>1, FramesGrow
  <2> QED BY <1>5, <2>2
<1>8. task' # "encode" => mBuf' < FrameSamples \/ errors' = TRUE
  BY DEF HandleAudioRaw, Encode
<1>9. AudioKeepsUp'
  <2>1. FrameSamples' = FrameSamples /\ change' = change /\ encoder' = encoder
    BY <1>2 DEF FrameSamples
  <2>2. task' # "encode" => mBuf' < FrameSamples \/ errors'
    BY <1>8, Zenon
  <2> QED BY <1>7, <2>1, <2>2, Zenon DEF AudioKeepsUp
<1> QED BY <1>2, <1>4, <1>5, <1>6, <1>9, AudioOnly

LEMMA ReconnectInv ==
  ASSUME IInv, Reconnect
  PROVE  IInv'
<1> USE DEF IInv
<1>1. /\ decoder' = 0 /\ encoder' = 0 /\ mChannels' = 2 /\ mBuf' = 0
      /\ errors' = FALSE /\ change' = "none"
      /\ task = "read" /\ task' = "read" /\ UNCHANGED video /\ UNCHANGED <<mapped, opened>>
  BY DEF Reconnect
<1>2. FlagsOK'
  <2>1. opened' \in BOOLEAN /\ errors' \in BOOLEAN
    BY <1>1, TypeParts, Zenon DEF FlagsOK
  <2>2. /\ decoder' \in Nat /\ encoder' \in Nat /\ mChannels' \in Nat \ {0}
        /\ change' \in {"none", "more", "fewer"}
    BY <1>1
  <2> QED BY <2>1, <2>2, Zenon DEF FlagsOK
<1>3. AudioKeepsUp'
  BY <1>1, FramesGrow DEF AudioKeepsUp, FrameSamples
<1>4. ChannelsAgree'
  BY <1>1 DEF ChannelsAgree
<1> QED BY <1>1, <1>2, <1>3, <1>4, AudioOnly

LEMMA HandleVideoInv ==
  ASSUME IInv, (\E f \in Frames : HandleVideo(f)) \/ HandledVideo
  PROVE  IInv'
<1> USE DEF IInv
<1>1. frame' \in Seq(Unit)
  <2>1. <<>> \in Seq(Unit) /\ \A f \in Frames : f \in Seq(Unit)
    BY MediaAssumption
  <2>2. frame' \in Frames \/ frame' = <<>>
    BY Zenon DEF HandleVideo, HandledVideo
  <2> QED BY <2>1, <2>2, Zenon
<1>2. sent' = <<>> /\ at' = 1 /\ pi' = 0 /\ time' = 0 /\ failed' = {}
  BY DEF HandleVideo, HandledVideo, NoFrame, AtFragment
<1>3. task' \in {"units", "read"} /\ (task' = "read" => frame' = <<>>)
      /\ task \in {"units", "read"}
  BY DEF HandleVideo, HandledVideo
<1>4. UNCHANGED <<mapped, opened, audio>>
  BY DEF HandleVideo, HandledVideo
<1>5. TypeOK'
  <2>1. FlagsOK'
    BY <1>4, TypeParts, Zenon DEF FlagsOK, audio
  <2>2. mapped' = mapped /\ mBuf' = mBuf
    BY <1>4, Zenon DEF audio
  <2>3. /\ mapped' \in {"absent", "in", "cleared"} /\ mBuf' \in Nat
        /\ Len(frame') \in Nat /\ sent' \in Seq(Packet)
    <3>1. DataOK
      BY TypeParts
    <3>2. sent' \in Seq(Packet)
      BY <1>2, \A S : <<>> \in Seq(S)
    <3> QED BY <1>1, <2>2, <3>1, <3>2 DEF DataOK
  <2>4. DataOK'
    BY <1>1, <1>2, <1>3, <2>3 DEF DataOK
  <2> QED BY <2>1, <2>4, TypeParts
<1>6. AudioKeepsUp' /\ ChannelsAgree'
  BY <1>3, <1>4 DEF AudioKeepsUp, ChannelsAgree, audio, FrameSamples
<1>7. NoFrame' /\ UnitsAreInOrder' /\ AtFragment'
  BY <1>2, <1>3 DEF NoFrame, UnitsAreInOrder, AtFragment
<1>8. IncrementsOnce' /\ Reassembles' /\ PictureSharesTimestamp'
  BY <1>2 DEF IncrementsOnce, Reassembles, PictureSharesTimestamp
<1> QED BY <1>5, <1>6, <1>7, <1>8

LEMMA DropUnitInv ==
  ASSUME IInv, DropUnit
  PROVE  IInv'
<1> USE DEF IInv
<1>1. /\ task = "units" /\ at <= Len(frame) /\ at' = at + 1
      /\ UNCHANGED <<mapped, task, frame, pi, time, sent, failed, mBuf>>
      /\ UNCHANGED <<opened, decoder, encoder, mChannels, errors, change>>
  BY Zenon DEF DropUnit, audio
<1>2. DataOK
  BY TypeParts
<1>3. TypeOK'
  <2>1. FlagsOK'
    BY <1>1, TypeParts, Zenon DEF FlagsOK
  <2>2. DataOK'
    BY <1>1, <1>2 DEF DataOK
  <2> QED BY <2>1, <2>2, TypeParts
<1>4. AudioKeepsUp' /\ ChannelsAgree'
  BY <1>1, Zenon DEF AudioKeepsUp, ChannelsAgree, FrameSamples
<1>5. NoFrame' /\ AtFragment'
  BY <1>1 DEF NoFrame, AtFragment
<1>6. UnitsAreInOrder'
  BY <1>1, <1>2 DEF UnitsAreInOrder, DataOK
<1>7. (IsOneSlice' <=> IsOneSlice) /\ IncrementsOnce'
  BY <1>1, <1>2 DEF IncrementsOnce, IsOneSlice, DataOK
<1>8. PictureSharesTimestamp'
  BY <1>1, <1>7 DEF PictureSharesTimestamp
<1>9. Reassembles'
  BY <1>1, <1>2 DEF Reassembles, IsFollowed, IsInside, IsComplete, UnitsAreInOrder, DataOK
<1> QED BY <1>3, <1>4, <1>5, <1>6, <1>7, <1>8, <1>9

LEMMA BeginFragmentsInv ==
  ASSUME IInv, SendFragmentationUnitsPacket
  PROVE  IInv'
<1> USE DEF IInv
<1>1. /\ task = "units" /\ task' = "fragments" /\ pi' = 0
      /\ at <= Len(frame) /\ ~IsSingle(frame[at].size)
      /\ UNCHANGED <<mapped, frame, at, time, sent, failed, mBuf>>
      /\ UNCHANGED <<opened, decoder, encoder, mChannels, errors, change>>
  BY Zenon DEF SendFragmentationUnitsPacket, audio
<1>2. DataOK
  BY TypeParts
<1>3. TypeOK'
  <2>1. FlagsOK'
    BY <1>1, TypeParts, Zenon DEF FlagsOK
  <2>2. DataOK'
    BY <1>1, <1>2 DEF DataOK
  <2> QED BY <2>1, <2>2, TypeParts
<1>4. AudioKeepsUp' /\ ChannelsAgree'
  <2>1. task # "encode"
    BY <1>1
  <2> QED BY <1>1, <2>1, Zenon DEF AudioKeepsUp, ChannelsAgree, FrameSamples
<1>5. AtFragment'
  <2>1. frame[at] \in Unit
    BY <1>1, <1>2 DEF DataOK
  <2>2. Num(frame[at].size) \in Nat
    BY <1>1, <2>1, NumAndMore DEF Unit
  <2> QED BY <1>1, <2>2 DEF AtFragment
<1>6. NoFrame'
  BY <1>1 DEF NoFrame
<1>7. UnitsAreInOrder'
  BY <1>1, <1>2 DEF UnitsAreInOrder, DataOK
<1>8. (IsOneSlice' <=> IsOneSlice) /\ IncrementsOnce'
  BY <1>1 DEF IncrementsOnce, IsOneSlice
<1>9. PictureSharesTimestamp'
  BY <1>1, <1>8 DEF PictureSharesTimestamp
<1>10. Reassembles'
  BY <1>1 DEF Reassembles, IsFollowed, IsInside, IsComplete
<1> QED BY <1>3, <1>4, <1>5, <1>6, <1>7, <1>8, <1>9, <1>10

\* A failing send ends the unit; what was sent of it stays.
LEMMA FailedSend ==
  ASSUME IInv, task \in {"units", "fragments"}, task' = "units", pi' = 0,
         at <= Len(frame), at' = at + 1, failed' = failed \cup {at},
         time' \in Nat, at < Len(frame) => time' = time \/ ~IsOneSlice,
         UNCHANGED <<mapped, frame, sent, mBuf>>,
         UNCHANGED <<opened, decoder, encoder, mChannels, errors, change>>
  PROVE  IInv'
<1> USE DEF IInv
<1>1. DataOK
  BY TypeParts
<1>2. TypeOK'
  <2>1. FlagsOK'
    BY TypeParts, Zenon DEF FlagsOK
  <2>2. DataOK'
    BY <1>1 DEF DataOK
  <2> QED BY <2>1, <2>2, TypeParts
<1>3. AudioKeepsUp' /\ ChannelsAgree'
  <2>1. task # "encode"
    OBVIOUS
  <2> QED BY <2>1, Zenon DEF AudioKeepsUp, ChannelsAgree, FrameSamples
<1>4. NoFrame' /\ AtFragment'
  BY DEF NoFrame, AtFragment
<1>5. UnitsAreInOrder'
  <2>1. \A u \in failed' : u < at'
    BY <1>1 DEF UnitsAreInOrder, DataOK
  <2>2. \A i \in 1..Len(sent) : sent[i].unit < at'
    BY <1>1 DEF UnitsAreInOrder, DataOK
  <2> QED BY <2>1, <2>2 DEF UnitsAreInOrder
<1>6. (IsOneSlice' <=> IsOneSlice) /\ IncrementsOnce'
  BY <1>1 DEF IncrementsOnce, IsOneSlice, DataOK
<1>7. PictureSharesTimestamp'
  BY <1>6 DEF PictureSharesTimestamp
<1>8. Reassembles'
  BY <1>1 DEF Reassembles, IsFollowed, IsInside, IsComplete, UnitsAreInOrder, DataOK
<1> QED BY <1>2, <1>3, <1>4, <1>5, <1>6, <1>7, <1>8

\* A packet p that follows those of its unit, and completes it if the thread
\* goes on to the next unit.
LEMMA PacketSent ==
  ASSUME IInv, task \in {"units", "fragments"},
         at <= Len(frame),
         NEW p \in Packet, sent' = Append(sent, p),
         p.unit = at, p.time = time, IsInside(p),
         IF task = "fragments" /\ pi > 0 THEN p.from = 1 + pi * MAXLEN ELSE p.start,
         p.mark => p.end /\ ~(IsOneSlice /\ at < Len(frame)),
         time' = time + Increment(p.mark),
         \/ /\ task' = "units" /\ pi' = 0 /\ at' = at + 1
            /\ p.end \/ IsShort(frame[at].size)
         \/ /\ task' = "fragments" /\ pi' = pi + 1 /\ at' = at /\ task = "fragments"
            /\ pi < Num(frame[at].size) /\ ~p.end
            /\ p.from + p.len = 1 + (pi + 1) * MAXLEN,
         UNCHANGED <<mapped, frame, failed, mBuf>>,
         UNCHANGED <<opened, decoder, encoder, mChannels, errors, change>>
  PROVE  IInv'
<1> USE DEF IInv
<1>1. DataOK /\ DataOK'
  <2>1. DataOK
    BY TypeParts
  <2>2. Increment(p.mark) \in Nat
    BY DEF Increment
  <2>3. sent' \in Seq(Packet) /\ time' \in Nat
    BY <2>1, <2>2 DEF DataOK
  <2>4. at' \in Nat /\ at' >= 1 /\ at' <= Len(frame) + 1 /\ pi' \in Nat
    BY <2>1 DEF DataOK
  <2>5. task' \in {"units", "fragments"}
    OBVIOUS
  <2> HIDE DEF IInv
  <2> QED BY <2>1, <2>3, <2>4, <2>5 DEF DataOK
<1>2. /\ Len(sent') = Len(sent) + 1 /\ Len(sent) \in Nat
      /\ \A i \in 1..Len(sent) : sent'[i] = sent[i]
      /\ sent'[Len(sent) + 1] = p
  BY <1>1 DEF DataOK
<1>3. TypeOK'
  <2>1. FlagsOK'
    BY TypeParts, Zenon DEF FlagsOK
  <2> QED BY <1>1, <2>1, TypeParts
<1>4. AudioKeepsUp' /\ ChannelsAgree'
  <2>1. task # "encode"
    OBVIOUS
  <2> QED BY <2>1, Zenon DEF AudioKeepsUp, ChannelsAgree, FrameSamples
<1>5. NoFrame'
  BY DEF NoFrame
<1>6. \A i \in 1..Len(sent) : sent[i].unit \in 1..Len(frame) /\ sent[i].unit <= at
  BY <1>1 DEF UnitsAreInOrder, DataOK
<1>7. UnitsAreInOrder'
  <2>1. \A u \in failed' : u < at'
    BY <1>1 DEF UnitsAreInOrder, DataOK
  <2>2. ASSUME NEW i \in 1..Len(sent')
        PROVE  /\ sent'[i].unit \in 1..Len(frame')
               /\ sent'[i].unit < at' \/ (task' = "fragments" /\ pi' > 0 /\ sent'[i].unit = at')
               /\ i > 1 => sent'[i - 1].unit <= sent'[i].unit
    <3>1. CASE i \in 1..Len(sent)
      <4>1. sent'[i] = sent[i] /\ (i > 1 => i - 1 \in 1..Len(sent) /\ sent'[i - 1] = sent[i - 1])
        BY <1>2, <3>1
      <4>2. sent'[i].unit < at' \/ (task' = "fragments" /\ pi' > 0 /\ sent'[i].unit = at')
        BY SMTT(20), <1>1, <1>6, <3>1, <4>1 DEF DataOK
      <4> QED BY <3>1, <4>1, <4>2 DEF UnitsAreInOrder
    <3>2. CASE i = Len(sent) + 1
      <4>1. sent'[i] = p /\ (i > 1 => i - 1 \in 1..Len(sent) /\ sent'[i - 1] = sent[i - 1])
        BY <1>2, <3>2
      <4> QED BY SMTT(20), <1>1, <1>6, <4>1 DEF DataOK
    <3> QED BY <1>2, <3>1, <3>2
  <2> QED BY <2>1, <2>2 DEF UnitsAreInOrder
<1>8. AtFragment'
  <2>1. CASE task' = "units"
    BY <2>1 DEF AtFragment
  <2>2. CASE task' = "fragments"
    <3>1. /\ pi' = pi + 1 /\ at' = at /\ task = "fragments"
          /\ pi < Num(frame[at].size) /\ ~p.end
          /\ p.from + p.len = 1 + (pi + 1) * MAXLEN
      BY <2>2
    <3>2. ~IsSingle(frame[at].size) /\ frame[at] \in Unit
      BY <1>1, <3>1 DEF AtFragment, DataOK
    <3>3. Num(frame[at].size) \in Nat
      BY <3>2, NumAndMore DEF Unit
    <3>4. sent'[Len(sent')] = p /\ Len(sent') > 0
      BY <1>2
    <3> QED BY <1>1, <2>2, <3>1, <3>2, <3>3, <3>4 DEF AtFragment, DataOK
  <2> QED BY <2>1, <2>2
<1>9. IsOneSlice' <=> IsOneSlice
  BY DEF IsOneSlice
<1>10. IncrementsOnce'
  <2> SUFFICES ASSUME IsOneSlice, at' <= Len(frame)
               PROVE  time' = 0 /\ \A i \in 1..Len(sent') : ~sent'[i].mark
    BY <1>9 DEF IncrementsOnce
  <2>1. time = 0 /\ \A i \in 1..Len(sent) : ~sent[i].mark
    BY DEF IncrementsOnce
  <2>2. ~p.mark
    <3>1. CASE at' = at + 1
      BY <1>1, <3>1 DEF DataOK
    <3>2. CASE ~p.end
      BY <3>2
    <3> QED BY <3>1, <3>2
  <2> QED BY <1>2, <2>1, <2>2 DEF Increment
<1>11. PictureSharesTimestamp'
  <2> SUFFICES ASSUME IsOneSlice, NEW i \in 1..Len(sent')
               PROVE  /\ sent'[i].time = 0
                      /\ sent'[i].mark => i = Len(sent') /\ sent'[i].unit = Len(frame)
    BY <1>9 DEF PictureSharesTimestamp
  <2>1. time = 0 /\ \A j \in 1..Len(sent) : ~sent[j].mark
    BY DEF IncrementsOnce
  <2>2. CASE i \in 1..Len(sent)
    BY <1>2, <2>1, <2>2 DEF PictureSharesTimestamp
  <2>3. CASE i = Len(sent) + 1
    BY <1>1, <1>2, <2>1, <2>3 DEF DataOK
  <2> QED BY <1>2, <2>2, <2>3
<1>12. Reassembles'
  <2>1. ASSUME NEW i \in 1..Len(sent)
        PROVE  IsFollowed(i)' /\ IsInside(sent[i])' /\ IsComplete(i)'
    <3>1. /\ IsFollowed(i) /\ IsInside(sent[i]) /\ IsComplete(i)
          /\ sent'[i] = sent[i] /\ (i > 1 => sent'[i - 1] = sent[i - 1])
      BY <1>2 DEF Reassembles
    <3>2. IsFollowed(i)' /\ IsInside(sent[i])'
      BY <3>1 DEF IsFollowed, IsInside
    <3>3. CASE i < Len(sent)
      <4>1. sent'[i + 1] = sent[i + 1] /\ i + 1 \in 1..Len(sent)
        BY <1>2, <3>3
      <4>2. sent[i].unit <= sent[i + 1].unit /\ sent[i + 1].unit <= at
        <5>1. i + 1 > 1 /\ (i + 1) - 1 = i
          OBVIOUS
        <5> QED BY <1>6, <4>1, <5>1 DEF UnitsAreInOrder
      <4>3. sent[i].unit \in Nat /\ sent[i + 1].unit \in Nat
        BY <1>6, <4>1
      <4> DEFINE u == sent[i].unit
      <4>4. at \in Nat /\ at' \in {at, at + 1}
        BY <1>1 DEF DataOK
      <4>5. ASSUME u < at', u \notin failed, ~IsShort(frame[u].size), sent[i + 1].unit # u
            PROVE  sent[i].end
        <5>1. u < at
          BY SMTT(20), <4>2, <4>3, <4>4, <4>5
        <5> QED BY <3>1, <4>5, <5>1 DEF IsComplete
      <4>6. (i < Len(sent') => sent'[i + 1].unit # sent'[i].unit) => sent[i + 1].unit # u
        BY <1>2, <3>1, <3>3, <4>1
      <4>7. IsComplete(i)'
        <5> HIDE DEF u
        <5> QED BY <3>1, <4>5, <4>6 DEF IsComplete, u
      <4> QED BY <3>1, <3>2, <4>7
    <3>4. CASE i = Len(sent)
      BY <1>1, <1>2, <1>6, <3>1, <3>2, <3>4 DEF IsComplete, DataOK
    <3> QED BY <3>3, <3>4
  <2>2. ASSUME NEW i, i = Len(sent) + 1
        PROVE  IsFollowed(i)' /\ IsInside(sent[i])' /\ IsComplete(i)'
    <3>1. sent'[i] = p /\ (i > 1 => i - 1 = Len(sent) /\ sent'[i - 1] = sent[i - 1])
      BY <1>2, <2>2
    <3>2. IsInside(sent[i])'
      BY <3>1 DEF IsInside
    <3>3. IsComplete(i)'
      BY <1>1, <3>1 DEF IsComplete, DataOK
    <3>4. IsFollowed(i)'
      BY SMTT(20), <1>1, <1>2, <2>2, <3>1 DEF IsFollowed, AtFragment, DataOK
    <3> QED BY <3>2, <3>3, <3>4
  <2> QED BY <1>2, <2>1, <2>2 DEF Reassembles
<1> QED BY <1>3, <1>4, <1>5, <1>7, <1>8, <1>10, <1>11, <1>12

LEMMA SingleInv ==
  ASSUME IInv, SendSingleNalUnitPacket
  PROVE  IInv'
<1> DEFINE p == SingleNalUnitPacket(at)
<1>1. /\ task = "units" /\ at <= Len(frame) /\ IsSingle(frame[at].size)
      /\ task' = "units" /\ at' = at + 1 /\ UNCHANGED <<mapped, frame, pi, mBuf>>
      /\ UNCHANGED <<opened, decoder, encoder, mChannels, errors, change>>
  BY Zenon DEF SendSingleNalUnitPacket, audio
<1>2. DataOK /\ pi = 0
  BY <1>1, TypeParts DEF IInv, AtFragment
<1>3. frame[at] \in Unit /\ at \in Nat /\ at >= 1
  BY <1>1, <1>2 DEF DataOK
<1>4. /\ p.unit = at /\ p.time = time /\ p.from = 0 /\ p.len = frame[at].size
      /\ p.start = TRUE /\ p.end = TRUE /\ p.mark = frame[at].slice
  BY Zenon DEF SingleNalUnitPacket
<1>5. p \in Packet
  BY <1>2, <1>3 DEF SingleNalUnitPacket, Packet, Unit, DataOK
<1>6. IsInside(p)
  <2>1. ~IsShort(frame[at].size)
    BY <1>1 DEF IsShort
  <2>2. p.from + p.len = frame[at].size /\ frame[at].size \in Nat
    BY <1>3, <1>4 DEF Unit
  <2>3. p.end
    BY <1>4, Zenon
  <2> HIDE DEF p
  <2> QED BY <1>4, <2>1, <2>2, <2>3 DEF IsInside
<1>7. p.mark => ~(IsOneSlice /\ at < Len(frame))
  <2>1. p.mark => frame[at].slice
    BY <1>4, Zenon
  <2> HIDE DEF p
  <2> QED BY <1>1, <1>2, <2>1 DEF IsOneSlice, DataOK
<1>8. p.start /\ p.end
  BY <1>4, Zenon
<1>9. PICK ok \in BOOLEAN : SendPacket(ok, p, Increment(p.mark))
  BY Zenon DEF SendSingleNalUnitPacket
<1> HIDE DEF p
<1>10. CASE ok
  <2>1. sent' = Append(sent, p) /\ time' = time + Increment(p.mark) /\ UNCHANGED failed
    BY <1>9, <1>10, Zenon DEF SendPacket
  <2> QED BY <1>1, <1>2, <1>4, <1>5, <1>6, <1>7, <1>8, <2>1, PacketSent
<1>11. CASE ~ok
  <2>1. /\ time' \in {time, time + Increment(p.mark)}
        /\ failed' = failed \cup {at} /\ UNCHANGED sent
    BY <1>9, <1>11, Zenon DEF SendPacket
  <2>2. time' \in Nat /\ (at < Len(frame) => time' = time \/ ~IsOneSlice)
    BY <1>2, <1>7, <2>1 DEF Increment, DataOK
  <2> QED BY <1>1, <1>2, <2>1, <2>2, FailedSend
<1> QED BY <1>10, <1>11

LEMMA FragmentInv ==
  ASSUME IInv, SendFragment
  PROVE  IInv'
<1> DEFINE p == Fragment(at, pi)
           last == Num(frame[at].size)
<1>1. /\ task = "fragments" /\ UNCHANGED <<mapped, frame, mBuf>>
      /\ UNCHANGED <<opened, decoder, encoder, mChannels, errors, change>>
  BY Zenon DEF SendFragment, audio
<1>2. DataOK
  BY TypeParts DEF IInv
<1>3. at <= Len(frame) /\ ~IsSingle(frame[at].size) /\ pi <= last
  BY <1>1 DEF IInv, AtFragment
<1>4. frame[at] \in Unit /\ at \in Nat /\ at >= 1 /\ pi \in Nat /\ time \in Nat
  BY <1>2, <1>3 DEF DataOK
<1>5. last \in Nat
  BY <1>3, <1>4, NumAndMore DEF Unit
<1>6. /\ p \in Packet /\ p.unit = at /\ p.time = time
      /\ p.from = 1 + pi * MAXLEN
      /\ (p.start <=> pi = 0) /\ (p.mark <=> p.end) /\ IsInside(p)
      /\ IF pi < last
         THEN ~p.end /\ p.from + p.len = 1 + (pi + 1) * MAXLEN
         ELSE p.end <=> ~IsShort(frame[at].size)
  BY <1>3, <1>4, FragmentLemma
<1>7. at < Len(frame) => ~IsOneSlice
  BY <1>2, <1>3, <1>4 DEF IsOneSlice, DataOK
<1>8. PICK ok \in BOOLEAN :
        /\ SendPacket(ok, p, Increment(p.mark))
        /\ IF ok /\ pi < last
           THEN pi' = pi + 1 /\ UNCHANGED <<task, at>>
           ELSE pi' = 0 /\ task' = "units" /\ at' = at + 1
  BY Zenon DEF SendFragment
<1> HIDE DEF p, last
<1>9. CASE ok
  <2>1. sent' = Append(sent, p) /\ time' = time + Increment(p.mark) /\ UNCHANGED failed
    BY <1>8, <1>9, Zenon DEF SendPacket
  <2>2. p.mark => p.end /\ ~(IsOneSlice /\ at < Len(frame))
    BY <1>6, <1>7
  <2>3. IF task = "fragments" /\ pi > 0 THEN p.from = 1 + pi * MAXLEN ELSE p.start
    BY <1>1, <1>4, <1>6
  <2>4. \/ /\ task' = "units" /\ pi' = 0 /\ at' = at + 1
           /\ p.end \/ IsShort(frame[at].size)
        \/ /\ task' = "fragments" /\ pi' = pi + 1 /\ at' = at /\ task = "fragments"
           /\ pi < last /\ ~p.end
           /\ p.from + p.len = 1 + (pi + 1) * MAXLEN
    BY <1>1, <1>6, <1>8, <1>9
  <2> QED BY <1>1, <1>3, <1>6, <2>1, <2>2, <2>3, <2>4, PacketSent DEF last
<1>10. CASE ~ok
  <2>1. /\ time' \in {time, time + Increment(p.mark)}
        /\ failed' = failed \cup {at} /\ UNCHANGED sent
    BY <1>8, <1>10, Zenon DEF SendPacket
  <2>2. pi' = 0 /\ task' = "units" /\ at' = at + 1
    BY <1>8, <1>10, Zenon
  <2>3. time' \in Nat
    BY <1>4, <2>1 DEF Increment
  <2> QED BY <1>1, <1>3, <1>7, <2>1, <2>2, <2>3, FailedSend
<1> QED BY <1>9, <1>10

LEMMA NextInv == IInv /\ [Next]_vars => IInv'
<1> SUFFICES ASSUME IInv, [Next]_vars PROVE IInv'
  OBVIOUS
<1>1. CASE CreateMediaProducer \/ OpenVideo \/ OnDisconnected \/ UNCHANGED vars
  BY <1>1, MainLoopInv
<1>2. CASE (\E n \in Channels : HandleAudioConfig(n)) \/ HandleAudioRaw \/ Encode \/ Reconnect
  BY <1>2, ConfigInv, RawInv, ReconnectInv
<1>3. CASE \E f \in Frames : HandleVideo(f)
  BY <1>3, HandleVideoInv
<1>4. CASE HandledVideo
  BY <1>4, HandleVideoInv
<1>5. CASE DropUnit
  BY <1>5, DropUnitInv
<1>6. CASE SendFragmentationUnitsPacket
  BY <1>6, BeginFragmentsInv
<1>7. CASE SendSingleNalUnitPacket
  BY <1>7, SingleInv
<1>8. CASE SendFragment
  BY <1>8, FragmentInv
<1> QED BY <1>1, <1>2, <1>3, <1>4, <1>5, <1>6, <1>7, <1>8, Zenon DEF Next

-----------------------------------------------------------------------------
(* Theorems. *)

\* IInv holds in every state, for any MAXLEN above 2, any packets and any sizes
\* of the audio frames.
THEOREM Invariance == Spec => []IInv
<1>1. Init => IInv
  BY InitInv
<1>2. IInv /\ [Next]_vars => IInv'
  BY NextInv
<1> QED BY <1>1, <1>2, PTL DEF Spec

\* What the receiver gets of a NAL unit can be put together, except for the end
\* of a short one: no fragment is left out, sent twice or read from beyond the
\* unit, whatever fails and whatever the main loop does meanwhile.
THEOREM UnitsReassemble == Spec => []Reassembles
<1>1. IInv => Reassembles
  BY DEF IInv
<1> QED BY <1>1, Invariance, PTL

\* The packets of a picture of one slice share a timestamp, and only the last of
\* them is marked.
THEOREM PicturesShareTimestamp == Spec => []PictureSharesTimestamp
<1>1. IInv => PictureSharesTimestamp
  BY DEF IInv
<1> QED BY <1>1, Invariance, PTL

\* Unless a later configuration had fewer channels, the encoder reads what is in the
\* buffer and leaves less than a frame behind, or it was missing or failed.
THEOREM AudioDoesKeepUp == Spec => []AudioKeepsUp
<1>1. IInv => AudioKeepsUp
  BY DEF IInv
<1> QED BY <1>1, Invariance, PTL
=============================================================================
