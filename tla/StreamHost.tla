------------------------------ MODULE StreamHost ------------------------------
(***************************************************************************)
(* The viewer's stream host, warpr-lib                                     *)
(* components/stream-host/stream-host.component.ts: it negotiates the      *)
(* codec, feeds the frames to a video decoder, asks for a key frame when   *)
(* the decoder cannot go on, and sends the size of the canvas it draws on, *)
(* which stays the same.  All handlers run on the browser's event loop.    *)
(* The decoder (WebCodecs) works off its queue in order.  It puts out no   *)
(* frame of a codec the browser cannot really decode, and may fail at any  *)
(* time: when it is configured, on a frame whose predecessor is lost, on a *)
(* key frame put together from fragments of others.                        *)
(***************************************************************************)
EXTENDS StreamChannels

CONSTANTS SupportedCodecs,         \* what isConfigSupported reports
          BrokenCodecs,            \* reported, but cannot be decoded
          MaxFramesInDecodeQueue   \* _maxFramesInDecodeQueue

ASSUME SupportAssumption == /\ SupportedCodecs \subseteq Codecs
                            /\ BrokenCodecs \subseteq SupportedCodecs
ASSUME QueueAssumption == MaxFramesInDecodeQueue \in Nat

VARIABLES decodableCodecs,         \* _decodableCodecs, <<>> while undefined
          workingCodecs,           \* _workingCodecs
          awaiting,                \* SendCodecPreferenceAsync awaits support
          decoder,                 \* the VideoDecoder: state, codec, queue,
                                   \* and the first frame it was given
          isDecoderInitialized,    \* _isDecoderInitialized
          framesInDecodeQueue,     \* _framesInDecodeQueue
          videoCodec,              \* _videoCodec
          framePending,            \* whether there is a _framePending
          displaySize              \* _displaySize

displayVars == <<framePending, displaySize>>

hostVars == <<decodableCodecs, workingCodecs, awaiting, decoder,
              isDecoderInitialized, framesInDecodeQueue, videoCodec, displayVars>>

Undefined == <<>>

NewDecoder(c) == [state |-> "configured", codec |-> c, queue |-> <<>>,
                  first |-> "nothing"]

NoDecoder == [NewDecoder("Unknown") EXCEPT !.state = "none"]

HostInit ==
  /\ decodableCodecs = Undefined
  /\ workingCodecs = {}
  /\ awaiting = FALSE
  /\ decoder = NoDecoder
  /\ isDecoderInitialized = FALSE
  /\ framesInDecodeQueue = 0
  /\ videoCodec = "Unknown"
  /\ framePending = FALSE
  /\ displaySize = "Empty"

Decodable == IF decodableCodecs = Undefined THEN {} ELSE decodableCodecs[1]

\* The codecs of a set in the order of the table, as they are gone through.
InOrder(codecs) ==
  LET Listed[n \in 0 .. Len(CodecOrder)] ==
        IF n = 0 THEN <<>>
        ELSE IF CodecOrder[n] \in codecs THEN Append(Listed[n - 1], CodecOrder[n])
        ELSE Listed[n - 1]
  IN  Listed[Len(CodecOrder)]

\* The bound on control messages: who asks for a key frame waits for room.
Room == Len(control) < MaxControl

-----------------------------------------------------------------------------
\* OnDataChannel: the aux channel raises Connected, and OnConnected forgets
\* the display size and sends the codec preference, at once or when the
\* support is known.
OnDataChannel(label) ==
  /\ connected /\ label \in Labels \ channels
  /\ channels' = channels \cup {label}
  /\ \/ /\ label # "aux"
        /\ UNCHANGED <<control, awaiting, displaySize>>
     \/ /\ label = "aux"
        /\ displaySize' = "Empty"
        /\ awaiting' = (decodableCodecs = Undefined \/ awaiting)
        /\ control' = IF decodableCodecs = Undefined THEN control
                      ELSE SentControl(Preference(InOrder(Decodable)))
  /\ UNCHANGED <<decodableCodecs, workingCodecs, decoder, isDecoderInitialized,
                 framesInDecodeQueue, videoCodec, framePending, connected, video>>

\* The rest of SendCodecPreferenceAsync, after its await.
SupportKnown ==
  /\ awaiting
  /\ awaiting' = FALSE
  /\ decodableCodecs' = <<SupportedCodecs>>
  /\ control' = SentControl(Preference(InOrder(SupportedCodecs)))
  /\ UNCHANGED <<workingCodecs, decoder, isDecoderInitialized,
                 framesInDecodeQueue, videoCodec, displayVars, connected, channels,
                 video>>

Remaining(i) == video' = RemoveAt(video, i)

\* A frame of a codec that is not decodable is skipped.
SkipFrame(i) ==
  /\ "stream" \in channels
  /\ video[i].codec \notin Decodable
  /\ Remaining(i)
  /\ UNCHANGED <<hostVars, connected, channels, control>>

NeedsDecoder(frame, resized) ==
  \/ decoder.state # "configured"
  \/ resized
  \/ frame.codec # videoCodec
  \/ framesInDecodeQueue > MaxFramesInDecodeQueue

Feed(d, frame) == [d EXCEPT !.queue = Append(@, frame.type),
                            !.first = IF @ = "nothing" THEN frame.type ELSE @]

\* Mutant: a new decoder does not have to begin with a key frame.
OnFrameReceived_KeepsInitialized(i, resized) ==
  LET frame == video[i]
      renewed == NeedsDecoder(frame, resized)
      current == IF renewed THEN NewDecoder(frame.codec) ELSE decoder
      accepted == isDecoderInitialized \/ frame.type = "Key"
  IN  /\ "stream" \in channels
      /\ frame.codec \in Decodable
      /\ accepted \/ Room
      /\ Remaining(i)
      /\ videoCodec' = frame.codec
      /\ isDecoderInitialized' = accepted
      /\ decoder' = IF accepted THEN Feed(current, frame) ELSE current
      /\ framesInDecodeQueue' = (IF renewed THEN 0 ELSE framesInDecodeQueue)
                                + (IF accepted THEN 1 ELSE 0)
      /\ control' = IF accepted THEN control ELSE SentControl(Request)
      /\ UNCHANGED <<decodableCodecs, workingCodecs, awaiting, displayVars>>
      /\ UNCHANGED <<connected, channels>>

\* Mutant: the count of the old decoder's frames is not reset.
OnFrameReceived_KeepsCount(i, resized) ==
  LET frame == video[i]
      renewed == NeedsDecoder(frame, resized)
      current == IF renewed THEN NewDecoder(frame.codec) ELSE decoder
      accepted == (isDecoderInitialized /\ ~ renewed) \/ frame.type = "Key"
  IN  /\ "stream" \in channels
      /\ frame.codec \in Decodable
      /\ accepted \/ Room
      /\ Remaining(i)
      /\ videoCodec' = frame.codec
      /\ isDecoderInitialized' = accepted
      /\ decoder' = IF accepted THEN Feed(current, frame) ELSE current
      /\ framesInDecodeQueue' = framesInDecodeQueue + (IF accepted THEN 1 ELSE 0)
      /\ control' = IF accepted THEN control ELSE SentControl(Request)
      /\ UNCHANGED <<decodableCodecs, workingCodecs, awaiting, displayVars>>
      /\ UNCHANGED <<connected, channels>>

\* OnFrameReceived for a frame of a decodable codec; `resized` tells whether
\* its size differs from the last frame's.
OnFrameReceived(i, resized) ==
  LET frame == video[i]
      renewed == NeedsDecoder(frame, resized)
      current == IF renewed THEN NewDecoder(frame.codec) ELSE decoder
      accepted == (isDecoderInitialized /\ ~ renewed) \/ frame.type = "Key"
  IN  /\ "stream" \in channels
      /\ frame.codec \in Decodable
      /\ accepted \/ Room
      /\ Remaining(i)
      /\ videoCodec' = frame.codec
      /\ isDecoderInitialized' = accepted
      /\ decoder' = IF accepted THEN Feed(current, frame) ELSE current
      /\ framesInDecodeQueue' = (IF renewed THEN 0 ELSE framesInDecodeQueue)
                                + (IF accepted THEN 1 ELSE 0)
      /\ control' = IF accepted THEN control ELSE SentControl(Request)
      /\ UNCHANGED <<decodableCodecs, workingCodecs, awaiting, displayVars>>
      /\ UNCHANGED <<connected, channels>>

Decoding == decoder.state = "configured" /\ decoder.queue # <<>>

\* OnFrameDecoded: the decoder has put out the frame at its queue's head; it
\* replaces a frame that is still pending.
OnFrameDecoded ==
  /\ Decoding
  /\ decoder.codec \notin BrokenCodecs
  /\ decoder' = [decoder EXCEPT !.queue = Tail(@)]
  /\ framesInDecodeQueue' = framesInDecodeQueue - 1
  /\ workingCodecs' = workingCodecs \cup {videoCodec}
  /\ framePending' = TRUE
  /\ UNCHANGED <<decodableCodecs, awaiting, isDecoderInitialized, videoCodec,
                 displaySize, channelVars>>

\* RenderFrame sends the size of the canvas unless _displaySize is the same.
RenderFrame ==
  /\ framePending
  /\ framePending' = FALSE
  /\ displaySize' = "canvas"
  /\ control' = IF displaySize = "canvas" THEN control
                ELSE SentControl(Resize)
  /\ UNCHANGED <<decodableCodecs, workingCodecs, awaiting, decoder,
                 isDecoderInitialized, framesInDecodeQueue, videoCodec,
                 connected, channels, video>>

\* The decoder closes itself before it reports an error; it may do so with
\* frames in its queue or without.
DecoderFails ==
  /\ decoder.state = "configured"
  /\ Room
  /\ decoder' = [NoDecoder EXCEPT !.state = "closed"]

\* Mutant: a codec is dropped at its first error although it has worked.
OnDecoderError_DropsWorking ==
  /\ DecoderFails
  /\ decodableCodecs' = <<Decodable \ {decoder.codec}>>
  /\ control' = SentControl(Preference(InOrder(Decodable \ {decoder.codec})))
  /\ UNCHANGED <<workingCodecs, awaiting, isDecoderInitialized,
                 framesInDecodeQueue, videoCodec, displayVars, connected, channels,
                 video>>

\* OnDecoderError: a codec that never produced a frame is dropped, and the
\* rest sent as the new preference; otherwise a key frame is asked for.
OnDecoderError ==
  /\ DecoderFails
  /\ \/ /\ decoder.codec \notin workingCodecs /\ decoder.codec \in Decodable
        /\ decodableCodecs' = <<Decodable \ {decoder.codec}>>
        /\ control' = SentControl(Preference(InOrder(Decodable \ {decoder.codec})))
     \/ /\ decoder.codec \in workingCodecs \/ decoder.codec \notin Decodable
        /\ control' = SentControl(Request)
        /\ UNCHANGED decodableCodecs
  /\ UNCHANGED <<workingCodecs, awaiting, isDecoderInitialized,
                 framesInDecodeQueue, videoCodec, displayVars, connected, channels,
                 video>>

HostNext ==
  \/ \E label \in Labels : OnDataChannel(label)
  \/ SupportKnown
  \/ \E i \in DOMAIN video : \/ SkipFrame(i)
                             \/ \E resized \in BOOLEAN : OnFrameReceived(i, resized)
  \/ OnFrameDecoded \/ RenderFrame
  \/ OnDecoderError

HostTypeOK ==
  /\ \/ decodableCodecs = Undefined
     \/ Len(decodableCodecs) = 1 /\ Decodable \subseteq SupportedCodecs
  /\ workingCodecs \subseteq SupportedCodecs
  /\ awaiting \in BOOLEAN
  /\ decoder \in [state : {"none", "configured", "closed"},
                  codec : Codecs \cup {"Unknown"},
                  queue : Seq({"Key", "Delta"}),
                  first : {"nothing", "Key", "Delta"}]
  /\ isDecoderInitialized \in BOOLEAN
  /\ framesInDecodeQueue \in 0 .. MaxFramesInDecodeQueue + 1
  /\ videoCodec \in Codecs \cup {"Unknown"}
  /\ framePending \in BOOLEAN
  /\ displaySize \in {"Empty", "canvas"}
=============================================================================
