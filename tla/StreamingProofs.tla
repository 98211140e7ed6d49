--------------------------- MODULE StreamingProofs ---------------------------
(***************************************************************************)
(* The viewer's decoder, for any codecs, any of them broken, and any bound *)
(* on its queue: the queue is counted right, each decoder is given a key   *)
(* frame first, and no codec that has put out a frame is dropped.  Nothing *)
(* is assumed of the frames that arrive, so they may be lost, late or out  *)
(* of order, nor of when decoders fail.  At the end, the types of both     *)
(* sides and of what is between them.                                      *)
(***************************************************************************)
EXTENDS Streaming, SequenceTheorems, FiniteSetTheorems, WellFoundedInduction, TLAPS

\* The decoder, with S for the types of the frames it was given.
Decoders(S) == [state : {"none", "configured", "closed"},
                codec : SupportedCodecs \cup {"Unknown"},
                queue : Seq(S),
                first : S \cup {"nothing"}]

Configured == decoder.state = "configured"

HostTypes ==
  /\ \E S : decoder \in Decoders(S)
  /\ \/ decodableCodecs = Undefined
     \/ \E D \in SUBSET SupportedCodecs : decodableCodecs = <<D>>
  /\ workingCodecs \subseteq SupportedCodecs

(***************************************************************************)
(* WorkingKept is not inductive: OnFrameDecoded notes _videoCodec, which   *)
(* must not be a codec that was dropped.  It is that of the decoder in     *)
(* use, and a codec is only dropped together with its decoder.             *)
(***************************************************************************)
DecoderCurrent ==
  Configured => /\ decoder.codec = videoCodec
                /\ decoder.codec \in Decodable
                /\ isDecoderInitialized => decoder.first # "nothing"

DecoderInv ==
  /\ HostTypes
  /\ DecoderCurrent
  /\ FramesCounted
  /\ DecodersStartWithKey
  /\ WorkingKept

-----------------------------------------------------------------------------
\* There is no decoder at first, and no codec is known to be decodable.
LEMMA DecoderInvInit == Init => DecoderInv
<1> SUFFICES ASSUME HostInit PROVE DecoderInv
  BY DEF Init
<1>1. /\ decoder = [state |-> "none", codec |-> "Unknown", queue |-> <<>>,
                    first |-> "nothing"]
      /\ decodableCodecs = Undefined /\ workingCodecs = {}
  BY DEF HostInit, NoDecoder, NewDecoder
<1>2. decoder \in Decoders({})
  <2>1. <<>> \in Seq({})
    BY EmptySeq
  <2>2. QED BY <1>1, <2>1 DEF Decoders
<1>3. HostTypes
  BY <1>1, <1>2 DEF HostTypes
<1>4. QED BY <1>1, <1>3
          DEF DecoderInv, DecoderCurrent, Configured, FramesCounted,
              DecodersStartWithKey, WorkingKept

\* What is decodable is supported.
LEMMA DecodableSupported == HostTypes => Decodable \subseteq SupportedCodecs
  BY DEF HostTypes, Decodable

\* A frame is received: the decoder is kept or renewed, and is given the
\* frame if it can take it (stream-host:151-200).
LEMMA ReceiveKeeps ==
  ASSUME DecoderInv, NEW i, NEW resized \in BOOLEAN, OnFrameReceived(i, resized)
  PROVE  DecoderInv'
<1> USE DEF DecoderInv
<1> DEFINE frame == video[i]
           renewed == NeedsDecoder(frame, resized)
           current == IF renewed THEN NewDecoder(frame.codec) ELSE decoder
           accepted == (isDecoderInitialized /\ ~ renewed) \/ frame.type = "Key"
<1>1. /\ frame.codec \in SupportedCodecs /\ frame.codec \in Decodable
      /\ videoCodec' = frame.codec
      /\ isDecoderInitialized' = accepted
      /\ decoder' = IF accepted THEN Feed(current, frame) ELSE current
      /\ framesInDecodeQueue' = (IF renewed THEN 0 ELSE framesInDecodeQueue)
                                + (IF accepted THEN 1 ELSE 0)
      /\ UNCHANGED <<decodableCodecs, workingCodecs>>
  BY DecodableSupported DEF OnFrameReceived
<1>2. PICK S : decoder \in Decoders(S)
  BY DEF HostTypes
<1> DEFINE T == S \cup {frame.type}
<1>3. /\ current \in Decoders(T)
      /\ current.state = "configured" /\ current.codec = frame.codec
  <2>1. CASE renewed
    <3>1. <<>> \in Seq(T)
      BY EmptySeq
    <3>2. QED BY <1>1, <2>1, <3>1 DEF NewDecoder, Decoders
  <2>2. CASE ~ renewed
    <3>1. decoder.queue \in Seq(S) /\ Seq(S) \subseteq Seq(T)
      BY <1>2, SeqMonotonic DEF Decoders
    <3>2. decoder.queue \in Seq(T)
      BY <3>1
    <3>3. decoder.state = "configured" /\ frame.codec = videoCodec
      BY <2>2 DEF NeedsDecoder
    <3>4. QED BY <1>2, <2>2, <3>2, <3>3
              DEF Decoders, DecoderCurrent, Configured
  <2>3. QED BY <2>1, <2>2
<1>4. /\ current.queue \in Seq(T)
      /\ (IF renewed THEN 0 ELSE framesInDecodeQueue) = Len(current.queue)
  <2>1. current.queue \in Seq(T)
    BY <1>3 DEF Decoders
  <2>2. QED BY <1>3, <2>1 DEF NewDecoder, FramesCounted
<1>5. /\ current.first # "Delta"
      /\ isDecoderInitialized /\ ~ renewed => current.first # "nothing"
  <2>1. CASE renewed
    BY <2>1 DEF NewDecoder
  <2>2. CASE ~ renewed
    BY <1>3, <2>2 DEF DecoderCurrent, Configured, DecodersStartWithKey
  <2>3. QED BY <2>1, <2>2
<1> HIDE DEF current, renewed
<1>6. CASE accepted
  <2>1. decoder' = [current EXCEPT !.queue = Append(@, frame.type),
                       !.first = IF @ = "nothing" THEN frame.type ELSE @]
    BY <1>1, <1>6 DEF Feed
  <2>2. /\ decoder'.state = "configured" /\ decoder'.codec = frame.codec
        /\ decoder'.queue = Append(current.queue, frame.type)
        /\ decoder'.first = IF current.first = "nothing" THEN frame.type
                                                         ELSE current.first
    BY <1>3, <2>1 DEF Decoders
  <2>3. /\ Append(current.queue, frame.type) \in Seq(T)
        /\ Len(Append(current.queue, frame.type)) = Len(current.queue) + 1
    <3> DEFINE q == current.queue
               k == frame.type
    <3>1. q \in Seq(T) /\ k \in T
      BY <1>4
    <3> HIDE DEF q, k
    <3>2. Append(q, k) \in Seq(T) /\ Len(Append(q, k)) = Len(q) + 1
      BY ONLY <3>1, AppendProperties
    <3>3. QED BY <3>2 DEF q, k
  <2>4. decoder' \in Decoders(T)
    BY <1>3, <2>1, <2>2, <2>3 DEF Decoders
  <2>5. HostTypes'
    BY <1>1, <2>4 DEF HostTypes
  <2>6. current.first = "nothing" => frame.type = "Key"
    BY <1>5, <1>6
  <2>7. DecodersStartWithKey' /\ decoder'.first # "nothing"
    BY <1>5, <2>2, <2>6 DEF DecodersStartWithKey
  <2>8. DecoderCurrent'
    BY <1>1, <2>2, <2>7 DEF DecoderCurrent, Configured, Decodable
  <2>9. FramesCounted'
    BY <1>1, <1>4, <1>6, <2>2, <2>3 DEF FramesCounted
  <2>10. WorkingKept'
    BY <1>1 DEF WorkingKept, Decodable
  <2>11. QED BY <2>5, <2>7, <2>8, <2>9, <2>10
<1>7. CASE ~ accepted
  <2>1. decoder' = current /\ ~ isDecoderInitialized'
    BY <1>1, <1>7
  <2>2. HostTypes'
    BY <1>1, <1>3, <2>1 DEF HostTypes
  <2>3. DecodersStartWithKey' /\ DecoderCurrent'
    BY <1>1, <1>3, <1>5, <2>1
       DEF DecodersStartWithKey, DecoderCurrent, Configured, Decodable
  <2>4. FramesCounted'
    BY <1>1, <1>4, <1>7, <2>1 DEF FramesCounted
  <2>5. WorkingKept'
    BY <1>1 DEF WorkingKept, Decodable
  <2>6. QED BY <2>2, <2>3, <2>4, <2>5
<1>8. QED BY <1>6, <1>7

\* A frame is decoded: it leaves the queue, and its codec works
\* (stream-host:202-209).
LEMMA DecodedKeeps ==
  ASSUME DecoderInv, OnFrameDecoded
  PROVE  DecoderInv'
<1> USE DEF DecoderInv
<1>1. /\ decoder.state = "configured" /\ decoder.queue # <<>>
      /\ decoder' = [decoder EXCEPT !.queue = Tail(@)]
      /\ framesInDecodeQueue' = framesInDecodeQueue - 1
      /\ workingCodecs' = workingCodecs \cup {videoCodec}
      /\ UNCHANGED <<decodableCodecs, isDecoderInitialized, videoCodec>>
  BY DEF OnFrameDecoded, Decoding
<1>2. PICK S : decoder \in Decoders(S)
  BY DEF HostTypes
<1>3. decoder.queue \in Seq(S)
  BY <1>2 DEF Decoders
<1>4. /\ decoder'.state = "configured" /\ decoder'.codec = decoder.codec
      /\ decoder'.first = decoder.first
      /\ decoder'.queue = Tail(decoder.queue)
  BY <1>1, <1>2 DEF Decoders
<1>5. /\ Tail(decoder.queue) \in Seq(S)
      /\ Len(Tail(decoder.queue)) = Len(decoder.queue) - 1
  BY <1>1, <1>3, HeadTailProperties
<1>6. decoder' \in Decoders(S)
  BY <1>1, <1>2, <1>5 DEF Decoders
<1>7. videoCodec \in Decodable /\ videoCodec \in SupportedCodecs
  BY <1>1, DecodableSupported DEF DecoderCurrent, Configured
<1>8. HostTypes'
  BY <1>1, <1>6, <1>7 DEF HostTypes
<1>9. FramesCounted'
  BY <1>1, <1>4, <1>5 DEF FramesCounted
<1>10. DecodersStartWithKey' /\ DecoderCurrent'
  BY <1>1, <1>4 DEF DecodersStartWithKey, DecoderCurrent, Configured, Decodable
<1>11. WorkingKept'
  BY <1>1, <1>7 DEF WorkingKept, Decodable
<1>12. QED BY <1>8, <1>9, <1>10, <1>11

\* The decoder fails, at any time: it closes, and its codec is dropped if it has
\* put out no frame (stream-host:84-96).
LEMMA ErrorKeeps ==
  ASSUME DecoderInv, OnDecoderError
  PROVE  DecoderInv'
<1> USE DEF DecoderInv
<1>1. /\ decoder' = [state |-> "closed", codec |-> "Unknown", queue |-> <<>>,
                     first |-> "nothing"]
      /\ UNCHANGED workingCodecs
  BY DEF OnDecoderError, DecoderFails, NoDecoder, NewDecoder
<1>2. decoder' \in Decoders({})
  <2>1. <<>> \in Seq({})
    BY EmptySeq
  <2>2. QED BY <1>1, <2>1 DEF Decoders
<1>3. FramesCounted' /\ DecodersStartWithKey' /\ DecoderCurrent'
  BY <1>1 DEF FramesCounted, DecodersStartWithKey, DecoderCurrent, Configured
<1>4. CASE UNCHANGED decodableCodecs
  <2>1. HostTypes'
    BY <1>1, <1>2, <1>4 DEF HostTypes
  <2>2. WorkingKept'
    BY <1>1, <1>4 DEF WorkingKept, Decodable
  <2>3. QED BY <1>3, <2>1, <2>2
<1>5. CASE /\ decoder.codec \notin workingCodecs /\ decoder.codec \in Decodable
           /\ decodableCodecs' = <<Decodable \ {decoder.codec}>>
  <2>1. /\ Decodable' = Decodable \ {decoder.codec}
        /\ decodableCodecs' # Undefined
    BY <1>5 DEF Decodable, Undefined
  <2>2. Decodable' \in SUBSET SupportedCodecs
    BY <2>1, DecodableSupported
  <2>3. HostTypes'
    BY <1>1, <1>2, <1>5, <2>1, <2>2 DEF HostTypes
  <2>4. WorkingKept'
    <3>1. workingCodecs \subseteq Decodable
      BY <1>5 DEF WorkingKept, Decodable
    <3>2. QED BY <1>1, <1>5, <2>1, <3>1 DEF WorkingKept
  <2>5. QED BY <1>3, <2>3, <2>4
<1>6. QED BY <1>4, <1>5 DEF OnDecoderError

\* The browser has told what it can decode (stream-host:79-82).
LEMMA SupportKeeps ==
  ASSUME DecoderInv, SupportKnown
  PROVE  DecoderInv'
<1> USE DEF DecoderInv
<1>1. /\ decodableCodecs' = <<SupportedCodecs>>
      /\ UNCHANGED <<decoder, workingCodecs, isDecoderInitialized,
                     framesInDecodeQueue, videoCodec>>
  BY DEF SupportKnown
<1>2. Decodable' = SupportedCodecs
  BY <1>1 DEF Decodable, Undefined
<1>3. HostTypes' /\ WorkingKept'
  BY <1>1, <1>2 DEF HostTypes, WorkingKept
<1>4. DecoderCurrent'
  BY <1>1, <1>2, DecodableSupported DEF DecoderCurrent, Configured
<1>5. QED BY <1>1, <1>3, <1>4 DEF FramesCounted, DecodersStartWithKey

\* Steps that leave the decoder and the codecs alone keep the invariant.
LEMMA OthersKeep ==
  ASSUME DecoderInv,
         UNCHANGED <<decoder, decodableCodecs, workingCodecs,
                     isDecoderInitialized, framesInDecodeQueue, videoCodec>>
  PROVE  DecoderInv'
  BY DEF DecoderInv, HostTypes, FramesCounted, DecodersStartWithKey,
         DecoderCurrent, Configured, WorkingKept, Decodable

-----------------------------------------------------------------------------
\* Every step of the session, the viewer and the connection keeps it.
LEMMA DecoderInvNext == DecoderInv /\ [Next]_vars => DecoderInv'
<1> SUFFICES ASSUME DecoderInv, [Next]_vars PROVE DecoderInv'
  OBVIOUS
<1>1. CASE UNCHANGED hostVars
  BY <1>1, OthersKeep DEF hostVars
<1>2. CASE HostNext
  <2>1. ASSUME NEW label \in Labels, OnDataChannel(label) PROVE DecoderInv'
    BY <2>1, OthersKeep DEF OnDataChannel
  <2>2. CASE SupportKnown
    BY <2>2, SupportKeeps
  <2>3. ASSUME NEW i \in DOMAIN video, SkipFrame(i) PROVE DecoderInv'
    BY <1>1, <2>3 DEF SkipFrame
  <2>4. ASSUME NEW i \in DOMAIN video, NEW resized \in BOOLEAN,
               OnFrameReceived(i, resized)
        PROVE  DecoderInv'
    BY <2>4, ReceiveKeeps
  <2>5. CASE OnFrameDecoded
    BY <2>5, DecodedKeeps
  <2>6. CASE RenderFrame
    BY <2>6, OthersKeep DEF RenderFrame
  <2>7. CASE OnDecoderError
    BY <2>7, ErrorKeeps
  <2>8. QED BY <1>2, <2>1, <2>2, <2>3, <2>4, <2>5, <2>6, <2>7 DEF HostNext
<1>3. QED BY <1>1, <1>2 DEF Next, Source, Viewer, Connection, vars

\* In every state reached, the decoder is as the invariant says.
THEOREM DecoderInvariant == Spec => []DecoderInv
  BY DecoderInvInit, DecoderInvNext, PTL DEF Spec

\* _framesInDecodeQueue counts the frames in the present decoder's queue,
\* through renewals and failures (stream-host:165-206).
THEOREM QueueCounted == Spec => []FramesCounted
<1>1. DecoderInv => FramesCounted
  BY DEF DecoderInv
<1>2. QED BY <1>1, DecoderInvariant, PTL

\* No decoder is given a delta frame before a key frame, whatever frames
\* arrive and in which order (stream-host:165-198).
THEOREM KeyFramesFirst == Spec => []DecodersStartWithKey
<1>1. DecoderInv => DecodersStartWithKey
  BY DEF DecoderInv
<1>2. QED BY <1>1, DecoderInvariant, PTL

\* A codec that has put out a frame stays in the preference whenever a decoder
\* of it fails, and one that was dropped puts out none (stream-host:84-94).
THEOREM WorkingCodecsKept == Spec => []WorkingKept
<1>1. DecoderInv => WorkingKept
  BY DEF DecoderInv
<1>2. QED BY <1>1, DecoderInvariant, PTL

-----------------------------------------------------------------------------
\* A set of naturals has a least element: the intervals up to its elements
\* are finite sets, of which one has no other as its subset.
LEMMA LeastElement ==
  ASSUME NEW T, T \subseteq Nat, T # {}
  PROVE  Min(T) \in T /\ \A m \in T : Min(T) <= m
<1> DEFINE Intervals == {0 .. n : n \in T}
           Order == StrictSubsetOrdering(Nat)
<1>1. Intervals \subseteq FiniteSubsetsOf(Nat) /\ Intervals # {}
  <2>1. ASSUME NEW n \in T PROVE 0 .. n \in FiniteSubsetsOf(Nat)
    <3>1. n \in Nat /\ 0 .. n \subseteq Nat
      OBVIOUS
    <3>2. IsFiniteSet(0 .. n)
      BY <3>1, FS_Interval
    <3>3. QED BY <3>1, <3>2 DEF FiniteSubsetsOf
  <2>2. QED BY <2>1
<1>2. PICK x \in Intervals : \A y \in Intervals : ~ (<<y, x>> \in Order)
  <2> HIDE DEF Intervals, Order
  <2>1. IsWellFoundedOn(Order, FiniteSubsetsOf(Nat))
    BY FS_StrictSubsetOrderingWellFounded DEF Order
  <2>2. QED BY <1>1, <2>1, WFMin
<1>3. PICK n \in T : x = 0 .. n
  OBVIOUS
<1>4. ASSUME NEW m \in T, m < n PROVE FALSE
  <2>1. 0 .. m \in Intervals /\ 0 .. m # x /\ 0 .. m \subseteq x
    BY <1>3, <1>4
  <2>2. <<0 .. m, x>> \in Order
    BY <1>3, <2>1 DEF StrictSubsetOrdering
  <2>3. QED BY <1>2, <2>1, <2>2
<1>5. \E k \in T : \A m \in T : k <= m
  BY <1>4
<1>6. QED BY <1>5 DEF Min

(***************************************************************************)
(* What the viewer prefers: the recursion of InOrder goes up to any place  *)
(* of the table, and what it lists is of the set and of the table.  Were   *)
(* there places for which that fails, the least of them could not be one.  *)
(***************************************************************************)
Lists(f, codecs, m) ==
  f = [n \in 0 .. m |->
         IF n = 0 THEN <<>>
         ELSE IF CodecOrder[n] \in codecs THEN Append(f[n - 1], CodecOrder[n])
         ELSE f[n - 1]]

LEMMA ListsExist ==
  ASSUME NEW codecs
  PROVE  \E f : Lists(f, codecs, Len(CodecOrder))
<1> DEFINE Failing == {m \in 0 .. Len(CodecOrder) : ~ \E f : Lists(f, codecs, m)}
<1>1. Len(CodecOrder) \in Nat
  BY OrderAssumption
<1>2. ASSUME Failing # {} PROVE FALSE
  <2> DEFINE k == Min(Failing)
  <2>1. Failing \subseteq Nat
    OBVIOUS
  <2>2. k \in Failing /\ \A m \in Failing : k <= m
    <3> HIDE DEF Failing
    <3>1. QED BY <1>2, <2>1, LeastElement
  <2> HIDE DEF k
  <2>3. k \in 0 .. Len(CodecOrder) /\ ~ \E f : Lists(f, codecs, k)
    BY <2>2
  <2>4. CASE k = 0
    <3>1. Lists([n \in 0 .. 0 |-> <<>>], codecs, 0)
      BY DEF Lists
    <3>2. QED BY <2>3, <2>4, <3>1
  <2>5. CASE k # 0
    <3>1. k - 1 \in 0 .. Len(CodecOrder) /\ k \in Nat /\ k - 1 \in Nat
      BY <1>1, <2>3, <2>5
    <3>2. k - 1 \notin Failing
      BY <2>2, <3>1
    <3>3. PICK g : Lists(g, codecs, k - 1)
      BY <3>1, <3>2
    <3> DEFINE h == [n \in 0 .. k |->
                       IF n = 0 THEN <<>>
                       ELSE IF CodecOrder[n] \in codecs
                            THEN Append(g[n - 1], CodecOrder[n])
                       ELSE g[n - 1]]
    <3>4. \A n \in 0 .. k - 1 : n \in 0 .. k /\ h[n] = g[n]
      <4>1. \A n \in 0 .. k - 1 : n \in 0 .. k
        BY <3>1
      <4>2. \A n \in 0 .. k - 1 :
              g[n] = IF n = 0 THEN <<>>
                     ELSE IF CodecOrder[n] \in codecs
                          THEN Append(g[n - 1], CodecOrder[n])
                     ELSE g[n - 1]
        BY <3>3, Zenon DEF Lists
      <4>3. QED BY <4>1, <4>2
    <3>5. \A n \in 0 .. k : n # 0 => h[n - 1] = g[n - 1]
      <4> HIDE DEF h
      <4>1. \A n \in 0 .. k : n # 0 => n - 1 \in 0 .. k - 1
        BY <3>1
      <4>2. QED BY <3>4, <4>1
    <3>6. h = [n \in 0 .. k |->
                 IF n = 0 THEN <<>>
                 ELSE IF CodecOrder[n] \in codecs
                      THEN Append(h[n - 1], CodecOrder[n])
                 ELSE h[n - 1]]
      BY <3>5
    <3>7. Lists(h, codecs, k)
      BY <3>6 DEF Lists
    <3>8. QED BY <2>3, <3>7
  <2>6. QED BY <2>4, <2>5
<1>3. Len(CodecOrder) \notin Failing
  BY <1>2
<1>4. QED BY <1>1, <1>3

LEMMA ListedInOrder ==
  ASSUME NEW codecs
  PROVE  InOrder(codecs) \in Seq(Codecs \cap codecs)
<1> DEFINE S == Codecs \cap codecs
           l == Len(CodecOrder)
<1>1. /\ l \in Nat /\ \A n \in 1 .. l : CodecOrder[n] \in Codecs
  BY OrderAssumption
<1>2. PICK f : Lists(f, codecs, l) /\ InOrder(codecs) = f[l]
  <2>1. PICK f : Lists(f, codecs, l)
    BY ListsExist
  <2>2. f = [n \in 0 .. l |->
               IF n = 0 THEN <<>>
               ELSE IF CodecOrder[n] \in codecs
                    THEN Append(f[n - 1], CodecOrder[n])
               ELSE f[n - 1]]
    BY <2>1 DEF Lists
  <2>3. QED BY <2>2, Zenon DEF InOrder, Lists
<1> DEFINE Failing == {m \in 0 .. l : f[m] \notin Seq(S)}
<1>3. ASSUME Failing # {} PROVE FALSE
  <2> DEFINE k == Min(Failing)
  <2>1. Failing \subseteq Nat
    OBVIOUS
  <2>2. k \in Failing /\ \A m \in Failing : k <= m
    <3> HIDE DEF Failing
    <3>1. QED BY <1>3, <2>1, LeastElement
  <2> HIDE DEF k, l, S
  <2>3. k \in 0 .. l /\ f[k] \notin Seq(S)
    BY <2>2
  <2>4. f[k] = IF k = 0 THEN <<>>
               ELSE IF CodecOrder[k] \in codecs
                    THEN Append(f[k - 1], CodecOrder[k])
               ELSE f[k - 1]
    BY <1>2, <2>3 DEF Lists
  <2>5. CASE k = 0
    <3>1. <<>> \in Seq(S)
      OBVIOUS
    <3>2. QED BY <2>3, <2>4, <2>5, <3>1
  <2>6. CASE k # 0
    <3>1. k - 1 \in 0 .. l /\ k \in 1 .. l /\ ~ (k <= k - 1)
      BY <1>1, <2>3, <2>6
    <3>2. f[k - 1] \in Seq(S)
      BY <2>2, <3>1
    <3>3. CodecOrder[k] \in codecs => CodecOrder[k] \in S
      BY <1>1, <3>1 DEF S
    <3>4. CodecOrder[k] \in codecs => Append(f[k - 1], CodecOrder[k]) \in Seq(S)
      BY <3>2, <3>3, AppendProperties
    <3>5. QED BY <2>3, <2>4, <2>6, <3>2, <3>4
  <2>7. QED BY <2>5, <2>6
<1>4. f[l] \in Seq(S)
  BY <1>1, <1>3
<1>5. QED BY <1>2, <1>4

\* What the encoder chooses is a codec of the table, since either side knows
\* the same codecs.
LEMMA ChosenKnown ==
  ASSUME NEW wanted \in Seq(Codecs)
  PROVE  SelectCodec(wanted, EncoderCodecs) \in Codecs
<1> DEFINE usable == {i \in DOMAIN wanted : wanted[i] \in ToSet(EncoderCodecs)}
<1>1. CASE usable = {}
  <2>1. SelectCodec(wanted, EncoderCodecs) = EncoderCodecs[Len(EncoderCodecs)]
    BY <1>1 DEF SelectCodec, Last
  <2>2. QED BY <2>1, EncoderAssumption
<1>2. CASE usable # {}
  <2>1. usable \subseteq Nat
    OBVIOUS
  <2>2. Min(usable) \in usable
    <3> HIDE DEF usable
    <3>1. QED BY <1>2, <2>1, LeastElement
  <2>3. SelectCodec(wanted, EncoderCodecs) = wanted[Min(usable)]
    BY <1>2 DEF SelectCodec
  <2>4. Min(usable) \in DOMAIN wanted
    BY <2>2
  <2>5. QED BY <2>3, <2>4
<1>3. QED BY <1>1, <1>2

-----------------------------------------------------------------------------
(***************************************************************************)
(* Types of both sides.  What is on its way is typed, so that what either  *)
(* side takes up from the other is.                                        *)
(***************************************************************************)
Kinds == {"Key", "Delta"}

Messages == {Request, Resize} \cup {Preference(codecs) : codecs \in Seq(Codecs)}

ChannelTypes ==
  /\ connected \in BOOLEAN
  /\ channels \subseteq Labels
  /\ video \in Seq(Frame) /\ Len(video) <= MaxVideo
  /\ control \in Seq(Messages)

SessionTypes ==
  /\ isKeyFrameSent \in BOOLEAN
  /\ preference \in Seq(Codecs)
  /\ codec \in Codecs \cup {NoCodec}
  /\ frameThread \in {"idle", "encoding", "sending"}
  /\ forced \in BOOLEAN
  /\ encoded \in Frame \cup {NoFrame}
  /\ frameThread = "sending" => encoded \in Frame
  /\ surface \in {"initial", "canvas"}

DecoderTypes ==
  /\ decoder \in Decoders(Kinds)
  /\ workingCodecs \subseteq SupportedCodecs
  /\ awaiting \in BOOLEAN
  /\ isDecoderInitialized \in BOOLEAN
  /\ framesInDecodeQueue \in 0 .. MaxFramesInDecodeQueue + 1
  /\ videoCodec \in SupportedCodecs \cup {"Unknown"}
  /\ framePending \in BOOLEAN
  /\ displaySize \in {"Empty", "canvas"}

StreamTypes == ChannelTypes /\ SessionTypes /\ DecoderTypes

StreamInv == DecoderInv /\ StreamTypes

\* Channels with nothing on its way are typed.
LEMMA NothingSent ==
  <<>> \in Seq(Frame) /\ Len(<<>>) <= MaxVideo /\ <<>> \in Seq(Messages)
<1>1. <<>> \in Seq(Frame) /\ <<>> \in Seq(Messages)
  BY EmptySeq
<1>2. Len(<<>>) <= MaxVideo
  BY BoundsAssumption
<1>3. QED BY <1>1, <1>2

\* At the start nothing is on its way and neither side has done anything.
LEMMA StreamTypesInit == Init => StreamTypes
<1> SUFFICES ASSUME Init PROVE StreamTypes
  OBVIOUS
<1>1. ChannelTypes
  <2>1. /\ video \in Seq(Frame) /\ Len(video) <= MaxVideo
        /\ control \in Seq(Messages)
    BY NothingSent DEF Init, ChannelsInit
  <2>2. connected \in BOOLEAN /\ channels \subseteq Labels
    BY DEF Init, ChannelsInit
  <2>3. QED BY <2>1, <2>2 DEF ChannelTypes
<1>2. SessionTypes
  BY OrderAssumption DEF Init, SessionInit, SessionTypes
<1>3. decoder = [state |-> "none", codec |-> "Unknown", queue |-> <<>>,
                 first |-> "nothing"]
  BY DEF Init, HostInit, NoDecoder, NewDecoder
<1>4. <<>> \in Seq(Kinds)
  BY EmptySeq
<1>5. decoder \in Decoders(Kinds)
  BY <1>3, <1>4 DEF Decoders
<1>6. framesInDecodeQueue \in 0 .. MaxFramesInDecodeQueue + 1
  BY QueueAssumption DEF Init, HostInit
<1>7. /\ workingCodecs \subseteq SupportedCodecs
      /\ awaiting \in BOOLEAN /\ isDecoderInitialized \in BOOLEAN
      /\ framePending \in BOOLEAN
      /\ videoCodec \in SupportedCodecs \cup {"Unknown"}
      /\ displaySize \in {"Empty", "canvas"}
  BY DEF Init, HostInit
<1>8. DecoderTypes
  BY <1>5, <1>6, <1>7 DEF DecoderTypes
<1>9. QED BY <1>1, <1>2, <1>8 DEF StreamTypes

\* A message that is sent is on its way or gone.
LEMMA SentControlTypes ==
  ASSUME control \in Seq(Messages), NEW message \in Messages
  PROVE  SentControl(message) \in Seq(Messages)
  BY AppendProperties DEF SentControl

\* So are the preferences of the viewer.
LEMMA PreferenceTypes ==
  ASSUME NEW codecs
  PROVE  Preference(InOrder(codecs)) \in Messages
<1>1. InOrder(codecs) \in Seq(Codecs \cap codecs)
  BY ListedInOrder
<1>2. Seq(Codecs \cap codecs) \subseteq Seq(Codecs)
  BY SeqMonotonic
<1>3. QED BY <1>1, <1>2 DEF Messages

\* A frame is taken or lost: there is one less on its way.
LEMMA RemainingTypes ==
  ASSUME video \in Seq(Frame), Len(video) <= MaxVideo, NEW i \in DOMAIN video,
         video' = RemoveAt(video, i)
  PROVE  video' \in Seq(Frame) /\ Len(video') <= MaxVideo
<1> DEFINE before == SubSeq(video, 1, i - 1)
           after == SubSeq(video, i + 1, Len(video))
<1>1. Len(video) \in Nat /\ i \in 1 .. Len(video) /\ MaxVideo \in Nat
  BY BoundsAssumption
<1>2. before \in Seq(Frame) /\ Len(before) = i - 1
  <2>1. \A j \in 1 .. i - 1 : video[j] \in Frame
    BY <1>1
  <2>2. QED BY <1>1, <2>1, SubSeqProperties
<1>3. after \in Seq(Frame) /\ Len(after) = Len(video) - i
  <2>1. \A j \in i + 1 .. Len(video) : video[j] \in Frame
    BY <1>1
  <2>2. QED BY <1>1, <2>1, SubSeqProperties
<1>4. video' = before \o after
  BY DEF RemoveAt
<1> HIDE DEF before, after
<1>5. video' \in Seq(Frame) /\ Len(video') = Len(before) + Len(after)
  BY <1>2, <1>3, <1>4, ConcatProperties
<1>6. QED BY <1>1, <1>2, <1>3, <1>5

\* A message is taken from the channel.
LEMMA TakenTypes ==
  ASSUME control \in Seq(Messages), control # <<>>
  PROVE  Head(control) \in Messages /\ Tail(control) \in Seq(Messages)
  BY HeadTailProperties

-----------------------------------------------------------------------------
\* The connection, whose channels lose what is on its way
\* (WebRtcClient.cpp:88-108).
LEMMA ConnectionTypes ==
  ASSUME StreamTypes, Connection
  PROVE  StreamTypes'
<1> USE DEF StreamTypes
<1>1. SessionTypes' /\ DecoderTypes'
  BY DEF Connection, SessionTypes, DecoderTypes, sessionVars, hostVars, displayVars
<1>2. ChannelTypes'
  <2>1. CASE ConnectionUp
    BY <2>1 DEF ConnectionUp, ChannelTypes
  <2>2. CASE ConnectionDown
    <3>1. /\ video' \in Seq(Frame) /\ Len(video') <= MaxVideo
          /\ control' \in Seq(Messages)
      BY <2>2, NothingSent DEF ConnectionDown
    <3>2. connected' \in BOOLEAN /\ channels' \subseteq Labels
      BY <2>2 DEF ConnectionDown
    <3>3. QED BY <3>1, <3>2 DEF ChannelTypes
  <2>3. ASSUME NEW i \in DOMAIN video, LoseFrame(i) PROVE ChannelTypes'
    BY <2>3, RemainingTypes DEF LoseFrame, ChannelTypes
  <2>4. QED BY <2>1, <2>2, <2>3 DEF Connection
<1>3. QED BY <1>1, <1>2

\* The session: a frame it sends is of a known codec, and so is what it is
\* told to prefer (WarpSession.cpp:29-136).
LEMMA SessionStepTypes ==
  ASSUME StreamTypes, Source
  PROVE  StreamTypes'
<1>1. /\ SessionNext /\ UNCHANGED hostVars
      /\ ChannelTypes /\ SessionTypes /\ DecoderTypes
  BY DEF Source, StreamTypes
<1>2. DecoderTypes'
  BY <1>1 DEF DecoderTypes, hostVars, displayVars
<1>3. CASE FrameArrived
  BY <1>1, <1>2, <1>3 DEF FrameArrived, StreamTypes, ChannelTypes, SessionTypes,
                          channelVars
<1>4. CASE EncodeFrame
  <2>1. codec' \in Codecs
    BY <1>1, <1>4, ChosenKnown DEF EncodeFrame, SessionTypes
  <2>2. PICK resized \in BOOLEAN :
          LET frame == [type  |-> IF forced \/ resized \/ codec # codec'
                                    THEN "Key" ELSE "Delta",
                        codec |-> codec']
          IN  IF isKeyFrameSent \/ frame.type = "Key"
                THEN frameThread' = "sending" /\ encoded' = frame
                ELSE frameThread' = "idle" /\ UNCHANGED encoded
    BY <1>4 DEF EncodeFrame
  <2>3. \/ frameThread' = "sending" /\ encoded' \in Frame
        \/ frameThread' = "idle" /\ encoded' = encoded
    BY <2>1, <2>2 DEF Frame
  <2>4. /\ forced' = FALSE
        /\ UNCHANGED <<isKeyFrameSent, preference, surface, channelVars>>
    BY <1>4 DEF EncodeFrame
  <2>5. SessionTypes'
    BY <1>1, <2>1, <2>3, <2>4 DEF SessionTypes
  <2>6. QED BY <1>1, <1>2, <2>4, <2>5 DEF StreamTypes, ChannelTypes, channelVars
<1>5. CASE SendFrame
  <2>1. encoded \in Frame
    BY <1>1, <1>5 DEF SendFrame, SessionTypes
  <2>2. video' \in Seq(Frame) /\ Len(video') <= MaxVideo
    <3> DEFINE kept == IF Len(video) < MaxVideo THEN video ELSE Tail(video)
    <3>1. video \in Seq(Frame) /\ Len(video) <= MaxVideo
      BY <1>1 DEF ChannelTypes
    <3>2. MaxVideo \in Nat /\ MaxVideo > 0 /\ Len(video) \in Nat
      BY <3>1, BoundsAssumption
    <3>3. kept \in Seq(Frame) /\ Len(kept) < MaxVideo
      <4>1. CASE Len(video) < MaxVideo
        BY <3>1, <4>1
      <4>2. CASE ~ (Len(video) < MaxVideo)
        <5>1. video # <<>> /\ Len(video) = MaxVideo
          BY <3>1, <3>2, <4>2
        <5>2. Tail(video) \in Seq(Frame) /\ Len(Tail(video)) = Len(video) - 1
          BY <3>1, <5>1, HeadTailProperties
        <5>3. QED BY <3>2, <4>2, <5>1, <5>2
      <4>3. QED BY <4>1, <4>2
    <3>4. video' = IF ~ connected THEN video ELSE Append(kept, encoded)
      BY <1>5 DEF SendFrame, SentVideo
    <3> HIDE DEF kept
    <3>5. /\ Append(kept, encoded) \in Seq(Frame)
          /\ Len(Append(kept, encoded)) = Len(kept) + 1
      BY <2>1, <3>3, AppendProperties
    <3>6. Len(kept) + 1 <= MaxVideo
      BY <3>2, <3>3
    <3>7. QED BY <3>1, <3>4, <3>5, <3>6
  <2>3. ChannelTypes'
    BY <1>1, <1>5, <2>2 DEF SendFrame, ChannelTypes
  <2>4. SessionTypes'
    BY <1>1, <1>5 DEF SendFrame, SessionTypes
  <2>5. QED BY <1>2, <2>3, <2>4 DEF StreamTypes
<1>6. CASE OnRequestKeyFrameMessage
  <2>1. ChannelTypes'
    BY <1>1, <1>6, TakenTypes DEF OnRequestKeyFrameMessage, ChannelTypes
  <2>2. SessionTypes'
    BY <1>1, <1>6 DEF OnRequestKeyFrameMessage, SessionTypes
  <2>3. QED BY <1>2, <2>1, <2>2 DEF StreamTypes
<1>7. CASE OnVideoCodecPreferenceMessage
  <2>1. ChannelTypes'
    BY <1>1, <1>7, TakenTypes DEF OnVideoCodecPreferenceMessage, ChannelTypes
  <2>2. Head(control).codecs \in Seq(Codecs)
    <3>1. Head(control) \in Messages /\ Head(control).kind = "VideoCodecPreference"
      BY <1>1, <1>7, TakenTypes DEF OnVideoCodecPreferenceMessage, ChannelTypes
    <3>2. PICK codecs \in Seq(Codecs) : Head(control) = Preference(codecs)
      BY <3>1 DEF Messages, Request, Resize
    <3>3. QED BY <3>2 DEF Preference
  <2>3. SessionTypes'
    BY <1>1, <1>7, <2>2 DEF OnVideoCodecPreferenceMessage, SessionTypes
  <2>4. QED BY <1>2, <2>1, <2>3 DEF StreamTypes
<1>8. CASE OnResizeSurfaceMessage
  <2>1. ChannelTypes'
    BY <1>1, <1>8, TakenTypes DEF OnResizeSurfaceMessage, ChannelTypes
  <2>2. SessionTypes'
    BY <1>1, <1>8 DEF OnResizeSurfaceMessage, SessionTypes
  <2>3. QED BY <1>2, <2>1, <2>2 DEF StreamTypes
<1>9. QED BY <1>1, <1>3, <1>4, <1>5, <1>6, <1>7, <1>8 DEF SessionNext

\* A frame is given to the decoder: the count of those in its queue never
\* passes its bound by more than one, since the decoder is renewed then.
LEMMA ReceiveTypes ==
  ASSUME StreamInv, NEW i \in DOMAIN video, NEW resized \in BOOLEAN,
         OnFrameReceived(i, resized)
  PROVE  ChannelTypes' /\ DecoderTypes'
<1> DEFINE frame == video[i]
           renewed == NeedsDecoder(frame, resized)
           current == IF renewed THEN NewDecoder(frame.codec) ELSE decoder
           accepted == (isDecoderInitialized /\ ~ renewed) \/ frame.type = "Key"
<1>1. /\ frame.codec \in SupportedCodecs
      /\ videoCodec' = frame.codec
      /\ isDecoderInitialized' = accepted
      /\ decoder' = IF accepted THEN Feed(current, frame) ELSE current
      /\ framesInDecodeQueue' = (IF renewed THEN 0 ELSE framesInDecodeQueue)
                                + (IF accepted THEN 1 ELSE 0)
      /\ UNCHANGED <<workingCodecs, awaiting, displayVars>>
  BY DecodableSupported DEF OnFrameReceived, StreamInv, DecoderInv
<1>2. /\ control' = IF accepted THEN control ELSE SentControl(Request)
      /\ video' = RemoveAt(video, i)
      /\ UNCHANGED <<connected, channels>>
  BY DEF OnFrameReceived, Remaining
<1>3. ChannelTypes /\ DecoderTypes
  BY DEF StreamInv, StreamTypes
<1>4. frame \in Frame /\ frame.type \in Kinds
  <2>1. video \in Seq(Frame) /\ i \in DOMAIN video
    BY <1>3 DEF ChannelTypes
  <2>2. frame \in Frame
    BY <2>1, ElementOfSeq
  <2>3. QED BY <2>2 DEF Frame, Kinds
<1>5. current \in Decoders(Kinds)
  <2>1. <<>> \in Seq(Kinds)
    BY EmptySeq
  <2>2. NewDecoder(frame.codec) \in Decoders(Kinds)
    BY <1>1, <2>1 DEF NewDecoder, Decoders
  <2>3. QED BY <1>3, <2>2 DEF DecoderTypes
<1>6. /\ framesInDecodeQueue \in Nat /\ MaxFramesInDecodeQueue \in Nat
      /\ ~ renewed => framesInDecodeQueue <= MaxFramesInDecodeQueue
  BY <1>3, QueueAssumption DEF DecoderTypes, NeedsDecoder
<1> HIDE DEF current, frame
<1>7. decoder' \in Decoders(Kinds)
  <2> DEFINE q == Append(current.queue, frame.type)
             x == IF current.first = "nothing" THEN frame.type ELSE current.first
  <2>1. Feed(current, frame) = [current EXCEPT !.queue = q, !.first = x]
    BY DEF Feed
  <2>2. q \in Seq(Kinds) /\ x \in Kinds \cup {"nothing"}
    <3>1. current.queue \in Seq(Kinds) /\ current.first \in Kinds \cup {"nothing"}
      BY <1>5 DEF Decoders
    <3>2. q \in Seq(Kinds)
      BY <1>4, <3>1, AppendProperties
    <3>3. QED BY <1>4, <3>1, <3>2
  <2> HIDE DEF q, x
  <2>3. [current EXCEPT !.queue = q, !.first = x] \in Decoders(Kinds)
    BY <1>5, <2>2 DEF Decoders
  <2>4. QED BY <1>1, <1>5, <2>1, <2>3
<1>8. framesInDecodeQueue' \in 0 .. MaxFramesInDecodeQueue + 1
  <2> HIDE DEF renewed, accepted
  <2>1. QED BY <1>1, <1>6
<1>9. DecoderTypes'
  <2>1. isDecoderInitialized' \in BOOLEAN
    BY <1>1, <1>3 DEF DecoderTypes
  <2>2. QED BY <1>1, <1>3, <1>7, <1>8, <2>1 DEF DecoderTypes, displayVars
<1>10. ChannelTypes'
  <2>1. SentControl(Request) \in Seq(Messages)
    BY <1>3, SentControlTypes DEF ChannelTypes, Messages
  <2>2. video' \in Seq(Frame) /\ Len(video') <= MaxVideo
    BY <1>2, <1>3, RemainingTypes DEF ChannelTypes
  <2>3. QED BY <1>2, <1>3, <2>1, <2>2 DEF ChannelTypes
<1>11. QED BY <1>9, <1>10

\* The viewer: what its handlers send is typed, and so is what they keep
\* (stream-host:79-242).
LEMMA ViewerTypes ==
  ASSUME StreamInv, Viewer
  PROVE  StreamTypes'
<1>1. /\ HostNext /\ UNCHANGED sessionVars /\ DecoderInv
      /\ ChannelTypes /\ SessionTypes /\ DecoderTypes
  BY DEF Viewer, StreamInv, StreamTypes
<1>2. SessionTypes'
  BY <1>1 DEF SessionTypes, sessionVars
<1> SUFFICES ChannelTypes' /\ DecoderTypes'
  BY <1>2 DEF StreamTypes
<1>3. /\ SentControl(Request) \in Seq(Messages)
      /\ SentControl(Resize) \in Seq(Messages)
      /\ \A codecs : SentControl(Preference(InOrder(codecs))) \in Seq(Messages)
  <2>1. Request \in Messages /\ Resize \in Messages
    BY DEF Messages
  <2>2. QED BY <1>1, <2>1, SentControlTypes, PreferenceTypes DEF ChannelTypes
<1>4. ASSUME NEW label \in Labels, OnDataChannel(label)
      PROVE  ChannelTypes' /\ DecoderTypes'
  <2>1. /\ channels' = channels \cup {label}
        /\ control' \in Seq(Messages)
        /\ awaiting' \in BOOLEAN /\ displaySize' \in {"Empty", "canvas"}
        /\ UNCHANGED <<workingCodecs, decoder, isDecoderInitialized,
                       framesInDecodeQueue, videoCodec, framePending, connected,
                       video>>
    BY <1>1, <1>3, <1>4 DEF OnDataChannel, ChannelTypes, DecoderTypes
  <2>2. QED BY <1>1, <2>1 DEF ChannelTypes, DecoderTypes
<1>5. CASE SupportKnown
  BY <1>1, <1>3, <1>5 DEF SupportKnown, ChannelTypes, DecoderTypes, displayVars
<1>6. ASSUME NEW i \in DOMAIN video, SkipFrame(i)
      PROVE  ChannelTypes' /\ DecoderTypes'
  <2>1. video' \in Seq(Frame) /\ Len(video') <= MaxVideo
    BY <1>1, <1>6, RemainingTypes DEF SkipFrame, Remaining, ChannelTypes
  <2>2. QED BY <1>1, <1>6, <2>1 DEF SkipFrame, ChannelTypes, DecoderTypes,
                                    hostVars, displayVars
<1>7. ASSUME NEW i \in DOMAIN video, NEW resized \in BOOLEAN,
             OnFrameReceived(i, resized)
      PROVE  ChannelTypes' /\ DecoderTypes'
  BY <1>7, ReceiveTypes
<1>8. CASE OnFrameDecoded
  <2>1. /\ decoder.state = "configured" /\ decoder.queue # <<>>
        /\ decoder' = [decoder EXCEPT !.queue = Tail(@)]
        /\ framesInDecodeQueue' = framesInDecodeQueue - 1
        /\ workingCodecs' = workingCodecs \cup {videoCodec}
        /\ framePending' = TRUE
        /\ UNCHANGED <<awaiting, isDecoderInitialized, videoCodec, displaySize,
                       channelVars>>
    BY <1>8 DEF OnFrameDecoded, Decoding
  <2>2. decoder.queue \in Seq(Kinds) /\ framesInDecodeQueue = Len(decoder.queue)
    BY <1>1, <2>1 DEF DecoderTypes, Decoders, DecoderInv, FramesCounted
  <2>3. /\ Tail(decoder.queue) \in Seq(Kinds)
        /\ Len(decoder.queue) \in Nat /\ Len(decoder.queue) # 0
    BY <2>1, <2>2, HeadTailProperties
  <2>4. decoder' \in Decoders(Kinds)
    BY <1>1, <2>1, <2>3 DEF DecoderTypes, Decoders
  <2>5. framesInDecodeQueue' \in 0 .. MaxFramesInDecodeQueue + 1
    BY <1>1, <2>1, <2>2, <2>3, QueueAssumption DEF DecoderTypes
  <2>6. videoCodec \in SupportedCodecs
    BY <1>1, <2>1, DecodableSupported DEF DecoderInv, DecoderCurrent, Configured
  <2>7. DecoderTypes'
    BY <1>1, <2>1, <2>4, <2>5, <2>6 DEF DecoderTypes
  <2>8. QED BY <1>1, <2>1, <2>7 DEF ChannelTypes, channelVars
<1>9. CASE RenderFrame
  BY <1>1, <1>3, <1>9 DEF RenderFrame, ChannelTypes, DecoderTypes
<1>10. CASE OnDecoderError
  <2>1. /\ decoder' = [state |-> "closed", codec |-> "Unknown", queue |-> <<>>,
                       first |-> "nothing"]
        /\ control' \in Seq(Messages)
        /\ UNCHANGED <<workingCodecs, awaiting, isDecoderInitialized,
                       framesInDecodeQueue, videoCodec, displayVars, connected,
                       channels, video>>
    BY <1>3, <1>10 DEF OnDecoderError, DecoderFails, NoDecoder, NewDecoder
  <2>2. <<>> \in Seq(Kinds)
    BY EmptySeq
  <2>3. decoder' \in Decoders(Kinds)
    BY <2>1, <2>2 DEF Decoders
  <2>4. QED BY <1>1, <2>1, <2>3 DEF ChannelTypes, DecoderTypes, displayVars
<1>11. QED BY <1>1, <1>4, <1>5, <1>6, <1>7, <1>8, <1>9, <1>10 DEF HostNext

\* Every step keeps the types, given what the decoder keeps.
LEMMA StreamInvNext == StreamInv /\ [Next]_vars => StreamInv'
<1> SUFFICES ASSUME StreamInv, [Next]_vars PROVE StreamInv'
  OBVIOUS
<1>1. DecoderInv'
  BY DecoderInvNext DEF StreamInv
<1>2. CASE UNCHANGED vars
  BY <1>1, <1>2 DEF StreamInv, StreamTypes, ChannelTypes, SessionTypes,
                    DecoderTypes, vars, channelVars, sessionVars, hostVars,
                    displayVars
<1>3. CASE Next
  BY <1>1, <1>3, SessionStepTypes, ViewerTypes, ConnectionTypes DEF Next, StreamInv
<1>4. QED BY <1>2, <1>3

\* Type correctness of source and viewer for any codecs and bounds: what either
\* takes up from the other is of its type, the channel never holds more frames
\* than it may, and the decoder's queue passes its bound by one at most
\* (WarpSession.cpp:29-136, stream-host:79-242).
THEOREM StreamingTypes == Spec => []TypeOK
<1>1. Init => StreamInv
  BY DecoderInvInit, StreamTypesInit DEF StreamInv
<1>2. StreamInv => TypeOK
  <2> SUFFICES ASSUME StreamInv PROVE TypeOK
    OBVIOUS
  <2>1. /\ ChannelTypes /\ SessionTypes /\ DecoderTypes /\ HostTypes
    BY DEF StreamInv, StreamTypes, DecoderInv
  <2>2. ChannelsTypeOK
    <3>1. \A i \in DOMAIN control : control[i] \in Messages
      BY <2>1 DEF ChannelTypes
    <3>2. \A m \in Messages : m \in {Request, Resize} \/ m = Preference(m.codecs)
      BY DEF Messages, Preference
    <3>3. QED BY <2>1, <3>1, <3>2 DEF ChannelTypes, ChannelsTypeOK
  <2>3. SessionTypeOK
    <3>1. ToSet(preference) \subseteq Codecs
      <4>1. \A i \in DOMAIN preference : preference[i] \in Codecs
        BY <2>1 DEF SessionTypes
      <4>2. QED BY <4>1 DEF ToSet
    <3>2. QED BY <2>1, <3>1 DEF SessionTypes, SessionTypeOK
  <2>4. HostTypeOK
    <3>1. \/ decodableCodecs = Undefined
          \/ Len(decodableCodecs) = 1 /\ Decodable \subseteq SupportedCodecs
      BY <2>1, DecodableSupported DEF HostTypes
    <3>2. decoder \in [state : {"none", "configured", "closed"},
                       codec : Codecs \cup {"Unknown"},
                       queue : Seq({"Key", "Delta"}),
                       first : {"nothing", "Key", "Delta"}]
      BY <2>1, SupportAssumption DEF DecoderTypes, Decoders, Kinds
    <3>3. videoCodec \in Codecs \cup {"Unknown"}
      BY <2>1, SupportAssumption DEF DecoderTypes
    <3>4. QED BY <2>1, <3>1, <3>2, <3>3 DEF DecoderTypes, HostTypeOK
  <2>5. QED BY <2>2, <2>3, <2>4 DEF TypeOK
<1>3. Spec => []StreamInv
  BY <1>1, StreamInvNext, PTL DEF Spec
<1>4. QED BY <1>2, <1>3, PTL
=============================================================================
