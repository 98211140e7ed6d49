----------------------------- MODULE WarpSession -----------------------------
(***************************************************************************)
(* The source's streaming session, warp-drive/Core/WarpSession.cpp: the    *)
(* frame thread encodes and sends frames under the session's mutex; a      *)
(* preference for codecs is taken under the mutex too; a request for a key *)
(* frame clears _isKeyFrameSent without it, at any point of a frame.  A    *)
(* frame is cut where that makes a difference: after _isKeyFrameSent is    *)
(* read to force a key frame (43), and between its last reading (52) and   *)
(* its setting (54).                                                       *)
(***************************************************************************)
EXTENDS StreamChannels, Codecs

CONSTANT EncoderCodecs     \* _supportedCodecs, in the order of the enum

ASSUME EncoderAssumption == EncoderCodecs \in Seq(Codecs) \ {<<>>}

VARIABLES isKeyFrameSent,  \* _isKeyFrameSent
          preference,      \* the encoder's _codecPreference
          codec,           \* the codec of the encoder's session
          frameThread,     \* where OnFrameArrived is
          forced,          \* forceIdrFrame of the frame being encoded
          encoded,         \* the frame being encoded and sent
          surface          \* the size the source was asked to give its frames

sessionVars ==
  <<isKeyFrameSent, preference, codec, frameThread, forced, encoded, surface>>

NoCodec == "Unknown"

NoFrame == [type |-> "None", codec |-> NoCodec]

SessionInit ==
  /\ isKeyFrameSent = FALSE
  /\ preference = CodecOrder
  /\ codec = NoCodec
  /\ frameThread = "idle"
  /\ forced = FALSE
  /\ encoded = NoFrame
  /\ surface = "initial"

\* A frame arrives: without a connection it is dropped and the next one sent
\* shall be a key frame.
FrameArrived ==
  /\ frameThread = "idle"
  /\ \/ /\ ~ connected
        /\ isKeyFrameSent' = FALSE
        /\ UNCHANGED <<frameThread, forced>>
     \/ /\ connected
        /\ frameThread' = "encoding"
        /\ forced' = ~ isKeyFrameSent
        /\ UNCHANGED isKeyFrameSent
  /\ UNCHANGED <<preference, codec, encoded, surface, channelVars>>

\* ProcessFrame and EncodeFrame, and whether the frame is sent.  A new encoder
\* session, for a codec or for a size or bitrate that changed, begins with a
\* key frame.
EncodeFrame ==
  /\ frameThread = "encoding"
  /\ forced' = FALSE
  /\ codec' = SelectCodec(preference, EncoderCodecs)
  /\ \E resized \in BOOLEAN :
       LET frame == [type  |-> IF forced \/ resized \/ codec # codec'
                                 THEN "Key" ELSE "Delta",
                     codec |-> codec']
       IN  IF isKeyFrameSent \/ frame.type = "Key"
             THEN frameThread' = "sending" /\ encoded' = frame
             ELSE frameThread' = "idle" /\ UNCHANGED encoded
  /\ UNCHANGED <<isKeyFrameSent, preference, surface, channelVars>>

\* Sets _isKeyFrameSent, so that a request since it was read is overwritten,
\* and sends the frame.
SendFrame ==
  /\ frameThread = "sending"
  /\ frameThread' = "idle"
  /\ isKeyFrameSent' = TRUE
  /\ video' = SentVideo(encoded)
  /\ encoded' = NoFrame
  /\ UNCHANGED <<preference, codec, forced, surface>>
  /\ UNCHANGED <<connected, channels, control>>

\* Mutant: the request is only logged.
OnRequestKeyFrameMessage_LogsOnly ==
  /\ control # <<>> /\ Head(control).kind = "RequestKeyFrame"
  /\ control' = Tail(control)
  /\ UNCHANGED <<sessionVars, connected, channels, video>>

OnRequestKeyFrameMessage ==
  /\ control # <<>> /\ Head(control).kind = "RequestKeyFrame"
  /\ control' = Tail(control)
  /\ isKeyFrameSent' = FALSE
  /\ UNCHANGED <<preference, codec, frameThread, forced, encoded, surface>>
  /\ UNCHANGED <<connected, channels, video>>

\* Waits for the frame in progress: the handler takes the mutex.
OnVideoCodecPreferenceMessage ==
  /\ control # <<>> /\ Head(control).kind = "VideoCodecPreference"
  /\ frameThread = "idle"
  /\ control' = Tail(control)
  /\ preference' = Head(control).codecs
  /\ isKeyFrameSent' = FALSE
  /\ UNCHANGED <<codec, frameThread, forced, encoded, surface>>
  /\ UNCHANGED <<connected, channels, video>>

\* The size is passed on to the frame provider, and by it to the application.
OnResizeSurfaceMessage ==
  /\ control # <<>> /\ Head(control).kind = "ResizeSurface"
  /\ control' = Tail(control)
  /\ surface' = "canvas"
  /\ UNCHANGED <<isKeyFrameSent, preference, codec, frameThread, forced, encoded>>
  /\ UNCHANGED <<connected, channels, video>>

SessionNext ==
  \/ FrameArrived \/ EncodeFrame \/ SendFrame
  \/ OnRequestKeyFrameMessage \/ OnVideoCodecPreferenceMessage
  \/ OnResizeSurfaceMessage

SessionTypeOK ==
  /\ isKeyFrameSent \in BOOLEAN
  /\ ToSet(preference) \subseteq Codecs
  /\ codec \in Codecs \cup {NoCodec}
  /\ frameThread \in {"idle", "encoding", "sending"}
  /\ forced \in BOOLEAN
  /\ encoded \in Frame \cup {NoFrame}
  /\ surface \in {"initial", "canvas"}
=============================================================================
