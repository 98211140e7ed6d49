------------------------------ MODULE Streaming ------------------------------
(***************************************************************************)
(* A stream source's session and a viewer's stream host over one peer      *)
(* connection after another.                                               *)
(***************************************************************************)
EXTENDS WarpSession, StreamHost

vars == <<channelVars, sessionVars, hostVars>>

Init == ChannelsInit /\ SessionInit /\ HostInit

Source == SessionNext /\ UNCHANGED hostVars

Viewer == HostNext /\ UNCHANGED sessionVars

Connection ==
  /\ \/ ConnectionUp
     \/ ConnectionDown
     \/ \E i \in DOMAIN video : LoseFrame(i)
  /\ UNCHANGED <<sessionVars, hostVars>>

Next == Source \/ Viewer \/ Connection

Spec == Init /\ [][Next]_vars

(***************************************************************************)
(* Both sides run, control messages arrive, channels open while the        *)
(* connection is up, and not every frame is lost: if key frames are sent   *)
(* again and again some arrive, and so do delta frames.  Decoders that are *)
(* given frames of a codec that works again and again do not fail on every *)
(* one, and those of a broken codec fail when they are given one.  The two *)
(* instructions of OnFrameArrived between which a request for a key frame  *)
(* is overwritten are not hit by every single request.                     *)
(***************************************************************************)
ReceiveOf(type) ==
  \E i \in DOMAIN video :
    /\ video[i].type = type
    /\ \E resized \in BOOLEAN : OnFrameReceived(i, resized)
    /\ UNCHANGED sessionVars

Skip == (\E i \in DOMAIN video : SkipFrame(i)) /\ UNCHANGED sessionVars

HostStep(A) == A /\ UNCHANGED sessionVars
SourceStep(A) == A /\ UNCHANGED hostVars

BrokenDecoding == Decoding /\ decoder.codec \in BrokenCodecs

Fairness ==
  /\ WF_vars(SourceStep(FrameArrived)) /\ WF_vars(SourceStep(EncodeFrame))
  /\ WF_vars(SourceStep(SendFrame))
  /\ WF_vars(SourceStep(OnRequestKeyFrameMessage))
  /\ SF_vars(SourceStep(OnVideoCodecPreferenceMessage))
  /\ WF_vars(SourceStep(OnResizeSurfaceMessage))
  /\ \A label \in Labels : WF_vars(HostStep(OnDataChannel(label)))
  /\ WF_vars(HostStep(SupportKnown)) /\ WF_vars(HostStep(RenderFrame))
  /\ SF_vars(HostStep(OnFrameDecoded))
  /\ SF_vars(HostStep(BrokenDecoding /\ OnDecoderError))
  /\ SF_vars(ReceiveOf("Key")) /\ SF_vars(ReceiveOf("Delta")) /\ SF_vars(Skip)

TakeRequest == SourceStep(OnRequestKeyFrameMessage)

NotAlwaysOverwritten ==
  []<><<TakeRequest>>_vars => []<><<frameThread # "sending" /\ TakeRequest>>_vars

FairSpec == Spec /\ Fairness /\ NotAlwaysOverwritten

-----------------------------------------------------------------------------
TypeOK == ChannelsTypeOK /\ SessionTypeOK /\ HostTypeOK

\* _framesInDecodeQueue counts the frames in the present decoder's queue,
\* through renewals and failures of the decoder (stream-host:165-206).
FramesCounted ==
  decoder.state = "configured" => framesInDecodeQueue = Len(decoder.queue)

\* No decoder is given a delta frame before a key frame: not after a change
\* of size or codec, not after an error, not on a new connection
\* (stream-host:165-198).
DecodersStartWithKey == decoder.first # "Delta"

\* stream-host:87 "drop codecs which never produced a frame": one that has
\* put out a frame stays in the preference whatever fails later, and one that
\* was dropped puts out none, on this connection or the next (stream-host:84-94,
\* 151-206).
WorkingKept == decodableCodecs # Undefined => workingCodecs \subseteq Decodable

\* A decoder that works has frames to decode.
Playing == Decoding /\ decoder.codec \notin BrokenCodecs

\* The control channel is announced before the aux channel, on which the
\* preference is sent.
ControlFirst == "aux" \in channels => "control" \in channels

\* A codec that works has not been dropped, as one is whose first decoder fails
\* before it has put out a frame (stream-host:88).
CodecLeft == decodableCodecs # Undefined => Decodable \ BrokenCodecs # {}

\* While the connection stays up the viewer has frames to decode again and
\* again, in a codec that works, and the source has been asked for frames of
\* its canvas's size: lost key frames, failing decoders, codecs that do not work
\* and messages lost with earlier connections are recovered from
\* (WarpSession.cpp:29-136, stream-host:79-242), as long as the control channel
\* comes first and a codec is left.
Recovers == []ControlFirst /\ []CodecLeft /\ <>[]connected =>
  []<>(Playing /\ surface = "canvas")

\* stream-host:152 "the server will switch codec once it receives our
\* preference".
CodecSwitches == <>[]connected => <>(codec \in Decodable)
=============================================================================
