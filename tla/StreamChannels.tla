---------------------------- MODULE StreamChannels ----------------------------
(***************************************************************************)
(* The peer connection between a stream source and a viewer, as the        *)
(* session on one side and the stream host on the other see it: video      *)
(* frames go one way over the lossy stream channel, control messages the   *)
(* other way over a reliable one.  The connection itself, and the opening  *)
(* of its channels at the viewer, are libdatachannel's and the browser's.  *)
(***************************************************************************)
EXTENDS Naturals, Sequences, SequencesExt, FiniteSets

CONSTANTS CodecOrder,      \* the viewer's codecs in order of preference
          MaxVideo,        \* bound: frames on their way at one time
          MaxControl       \* bound: control messages on their way when a key
                           \* frame is asked for

Codecs == ToSet(CodecOrder)

Frame == [type : {"Key", "Delta"}, codec : Codecs]

ASSUME OrderAssumption == CodecOrder \in Seq(Codecs)
ASSUME BoundsAssumption == MaxVideo \in Nat \ {0} /\ MaxControl \in Nat \ {0}

VARIABLES connected,       \* whether the peer connection is up
          channels,        \* the data channels the viewer has got
          video,           \* frames on their way to the viewer
          control          \* control messages on their way to the source

channelVars == <<connected, channels, video, control>>

Labels == {"stream", "control", "aux"}

\* A control message: a request for a key frame, the viewer's codecs, or the
\* size of its canvas.
Request == [kind |-> "RequestKeyFrame"]
Preference(codecs) == [kind |-> "VideoCodecPreference", codecs |-> codecs]
Resize == [kind |-> "ResizeSurface"]

ChannelsInit ==
  /\ connected = FALSE
  /\ channels = {}
  /\ video = <<>>
  /\ control = <<>>

ChannelsTypeOK ==
  /\ connected \in BOOLEAN
  /\ channels \subseteq Labels
  /\ video \in Seq(Frame) /\ Len(video) <= MaxVideo
  /\ \A i \in DOMAIN control :
       control[i] \in {Request, Resize}
         \/ control[i] = Preference(control[i].codecs)

ConnectionUp ==
  /\ ~ connected
  /\ connected' = TRUE
  /\ UNCHANGED <<channels, video, control>>

\* What is on its way is lost with the connection.
ConnectionDown ==
  /\ connected
  /\ connected' = FALSE
  /\ channels' = {}
  /\ video' = <<>>
  /\ control' = <<>>

\* The stream channel loses a frame.
LoseFrame(i) ==
  /\ video' = RemoveAt(video, i)
  /\ UNCHANGED <<connected, channels, control>>

\* SendVideoFrame: nothing is sent without a connection; a full channel
\* loses its oldest frame.
SentVideo(frame) ==
  IF ~ connected THEN video
  ELSE Append(IF Len(video) < MaxVideo THEN video ELSE Tail(video), frame)

\* The viewer's SendControlMessage: without a channel the message is gone;
\* on a channel that is closed, the last connection's, it raises an exception,
\* which comes to the same where the call is a handler's last.
SentControl(message) ==
  IF "control" \in channels THEN Append(control, message) ELSE control
=============================================================================
