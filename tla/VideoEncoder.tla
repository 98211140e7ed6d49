----------------------------- MODULE VideoEncoder -----------------------------
(***************************************************************************)
(* What a captured frame goes through under the session's mutex: the video *)
(* preprocessor (warp-drive/Encoder/VideoPreprocessor.cpp) draws it into a *)
(* texture of the size to stream, and the video encoder                    *)
(* (warp-drive/Encoder/VideoEncoder.cpp) has the GPU encode that texture.  *)
(* Both keep what they made for the last frame and make it anew only when  *)
(* something it depends on has changed.  Each call into the GPU's drivers  *)
(* throws when it fails: the frame is given up (the capture event swallows *)
(* what its handler throws), and the next one finds the fields as they     *)
(* were at the throw.                                                      *)
(*                                                                         *)
(* A size is one number.  Addresses of textures are not used again while   *)
(* the driver has the texture registered.                                  *)
(***************************************************************************)
EXTENDS Naturals, FiniteSets, Codecs

CONSTANTS Sizes,           \* sizes of captured frames
          MinSize,         \* the 256 pixels a stream has at least
          Scales,          \* values of _resolutionScale
          Bitrates,        \* values of _bitrate
          Preferences,     \* values of _codecPreference
          Supported,       \* _supportedCodecs, in the order of the enum
          Textures,        \* addresses of textures
          None,            \* nullptr
          Failures         \* sets of calls into drivers that may fail together

ASSUME NumbersAssumption == Sizes \cup Scales \cup {MinSize} \subseteq Nat
ASSUME SupportedAssumption ==
  Supported \in Seq(ToSet(Supported)) /\ Supported # <<>>
ASSUME PreferencesAssumption ==
  \A wanted \in Preferences : wanted \in Seq(ToSet(wanted))

VARIABLES failing,         \* the calls that may fail
          scale,           \* VideoPreprocessor._resolutionScale
          bitrate,         \* VideoEncoder._bitrate
          preference,      \* VideoEncoder._codecPreference
          targets,         \* VideoPreprocessor._targetProperties
          texture,         \* _outputTexture: its address and size
          properties,      \* VideoEncoder._encoderProperties
          frameResource,   \* _frameResource: the texture registered last
          inputResource,   \* _inputResource: by the texture it stands for
          outputBuffer,    \* whether _outputBuffer is set
          driver,          \* the encoder behind _encoder, or None: what it was
                           \* initialized with, the textures registered with
                           \* it, and whether it has a bitstream buffer
          step             \* how far the frame in progress is

settings == <<failing, scale, bitrate, preference>>
preprocessorVars == <<targets, texture>>
encoderVars == <<properties, frameResource, inputResource, outputBuffer, driver>>
vars == <<settings, preprocessorVars, encoderVars, step>>

\* What the fields refer to; none of it is a null pointer.
Targets == [size : Sizes, scale : Scales]
OutputTextures == [address : Textures, size : Nat]
Properties == [size : Nat, bitrate : Bitrates, codec : ToSet(Supported)]
Encoders == [of : Properties \cup {None}, registered : SUBSET Textures,
             buffer : BOOLEAN]

ASSUME NoneAssumption ==
  /\ None \notin Textures /\ None \notin OutputTextures
  /\ None \notin Targets /\ None \notin Properties /\ None \notin Encoders

Fails(call) == call \in failing

LargerOf(a, b) == IF a > b THEN a ELSE b

OutputSize(target) == LargerOf(MinSize, target.size * target.scale)

Registered == IF driver = None THEN {} ELSE driver.registered

Init ==
  /\ failing \in Failures
  /\ scale \in Scales /\ bitrate \in Bitrates /\ preference \in Preferences
  /\ targets = None /\ texture = None
  /\ properties = None
  /\ frameResource = None /\ inputResource = None /\ outputBuffer = FALSE
  /\ driver = None
  /\ step = "idle"

-----------------------------------------------------------------------------
\* The video quality of a pairing, set by the signaling thread at any time.
SetScale(value) ==
  /\ scale' = value
  /\ UNCHANGED <<failing, bitrate, preference, preprocessorVars, encoderVars, step>>

SetBitrate(value) ==
  /\ bitrate' = value
  /\ UNCHANGED <<failing, scale, preference, preprocessorVars, encoderVars, step>>

\* Mutant: the client's codecs are taken without the session's mutex.
SetPreference_NoLock(value) ==
  /\ preference' = value
  /\ UNCHANGED <<failing, scale, bitrate, preprocessorVars, encoderVars, step>>

\* The client's codecs, set under the session's mutex.
SetPreference(value) ==
  /\ step = "idle"
  /\ preference' = value
  /\ UNCHANGED <<failing, scale, bitrate, preprocessorVars, encoderVars, step>>

-----------------------------------------------------------------------------
\* ProcessFrame and EnsureTargets: _targetProperties is assigned first.  When
\* the targets cannot be made, the old ones may still be there, or be of no
\* use (a texture of None) until the properties change again.
ProcessFrame(size) ==
  LET target == [size |-> size, scale |-> scale]
  IN  /\ step = "idle"
      /\ targets' = target
      /\ \/ target = targets /\ texture # None
            /\ step' = "ensuring" /\ UNCHANGED texture
         \/ /\ target = targets /\ texture = None
            /\ UNCHANGED <<step, texture>>
         \/ /\ target # targets
            /\ step' = "ensuring"
            /\ \E address \in Textures \ Registered :
                 /\ texture # None => address # texture.address
                 /\ texture' = [address |-> address, size |-> OutputSize(target)]
         \/ /\ target # targets /\ Fails("CreateVideoProcessor")
            /\ texture' \in {texture, None}
            /\ UNCHANGED step
      /\ UNCHANGED <<settings, encoderVars>>

GetEncoderProperties ==
  [size    |-> texture.size,
   bitrate |-> bitrate,
   codec   |-> SelectCodec(preference, Supported)]

NewDriver(of) == [of |-> of, registered |-> {}, buffer |-> FALSE]

\* The old session goes with its resources; what the fields name goes too.
ReleaseResources == frameResource' = None /\ inputResource' = None

\* Mutants: the frame is not forgotten with the session it was registered
\* with; a session is kept when only the bitrate and the codec change; the
\* output buffer is not forgotten.
EnsureEncoder_KeepsFrame ==
  /\ step = "ensuring"
  /\ properties' = GetEncoderProperties
  /\ step' = "registering"
  /\ UNCHANGED frameResource
  /\ IF properties' = properties
       THEN UNCHANGED <<inputResource, outputBuffer, driver>>
       ELSE /\ inputResource' = None
            /\ driver' = [NewDriver(properties') EXCEPT !.buffer = TRUE]
            /\ outputBuffer' = TRUE
  /\ UNCHANGED <<settings, preprocessorVars>>

EnsureEncoder_OnlySize ==
  /\ step = "ensuring"
  /\ properties' = GetEncoderProperties
  /\ step' = "registering"
  /\ IF properties # None /\ properties'.size = properties.size
       THEN UNCHANGED <<frameResource, inputResource, outputBuffer, driver>>
       ELSE /\ ReleaseResources
            /\ driver' = [NewDriver(properties') EXCEPT !.buffer = TRUE]
            /\ outputBuffer' = TRUE
  /\ UNCHANGED <<settings, preprocessorVars>>

EnsureEncoder_KeepsBuffer ==
  /\ step = "ensuring"
  /\ properties' = GetEncoderProperties
  /\ properties' # properties
  /\ ReleaseResources
  /\ \/ /\ driver' = [NewDriver(properties') EXCEPT !.buffer = TRUE]
        /\ outputBuffer' = TRUE
        /\ step' = "registering"
     \/ /\ Fails("OpenEncodeSession") /\ driver' = None
        /\ step' = "idle"
        /\ UNCHANGED outputBuffer
  /\ UNCHANGED <<settings, preprocessorVars>>

\* EnsureEncoder: _encoderProperties is assigned first; ReleaseResources
\* destroys the old session with all that belongs to it, and a new one is
\* opened, initialized, and given an output buffer.
EnsureEncoder ==
  /\ step = "ensuring"
  /\ properties' = GetEncoderProperties
  /\ \/ /\ properties' = properties
        /\ step' = "registering"
        /\ UNCHANGED <<frameResource, inputResource, outputBuffer, driver>>
     \/ /\ properties' # properties
        /\ ReleaseResources
        /\ \/ /\ driver' = [NewDriver(properties') EXCEPT !.buffer = TRUE]
              /\ outputBuffer' = TRUE
              /\ step' = "registering"
           \/ /\ \/ Fails("OpenEncodeSession") /\ driver' = None
                 \/ Fails("InitializeEncoder") /\ driver' = NewDriver(None)
                 \/ /\ Fails("CreateBitstreamBuffer")
                    /\ driver' = NewDriver(properties')
              /\ outputBuffer' = FALSE
              /\ step' = "idle"
  /\ UNCHANGED <<settings, preprocessorVars>>

\* Mutants: the resource of the last texture stays registered; a frame is
\* registered only once per session.
RegisterFrame_KeepsOld ==
  /\ step = "registering" /\ driver # None
  /\ frameResource' = texture.address
  /\ inputResource' = texture.address
  /\ driver' = [driver EXCEPT !.registered = @ \cup {texture.address}]
  /\ step' = "mapping"
  /\ UNCHANGED <<settings, preprocessorVars, properties, outputBuffer>>

RegisterFrame_Once ==
  /\ step = "registering" /\ driver # None
  /\ step' = "mapping"
  /\ IF inputResource # None
       THEN UNCHANGED <<frameResource, inputResource, driver>>
       ELSE /\ frameResource' = texture.address
            /\ inputResource' = texture.address
            /\ driver' = [driver EXCEPT !.registered = {texture.address}]
  /\ UNCHANGED <<settings, preprocessorVars, properties, outputBuffer>>

\* RegisterFrame: _frameResource is assigned first; the resource of the last
\* texture is unregistered and that of the present one registered.  Without
\* a session the driver refuses.  _inputResource outlives a registration that
\* failed, so the next call unregisters it once more, which the driver may
\* refuse or not.
RegisterFrame ==
  LET others == Registered \ {inputResource}
  IN  /\ step = "registering"
      /\ frameResource' = texture.address
      /\ \/ /\ frameResource = texture.address
            /\ step' = "mapping"
            /\ UNCHANGED <<inputResource, driver>>
         \/ /\ frameResource # texture.address /\ driver # None
            /\ driver' = [driver EXCEPT !.registered = others \cup {texture.address}]
            /\ inputResource' = texture.address
            /\ step' = "mapping"
         \/ /\ frameResource # texture.address
            /\ driver = None \/ Fails("RegisterResource")
            /\ driver' = IF driver = None THEN None
                         ELSE [driver EXCEPT !.registered = others]
            /\ step' = "idle"
            /\ UNCHANGED inputResource
         \/ /\ frameResource # texture.address /\ inputResource # None
            /\ Fails("UnregisterResource") \/ inputResource \notin Registered
            /\ step' = "idle"
            /\ UNCHANGED <<inputResource, driver>>
      /\ UNCHANGED <<settings, preprocessorVars, properties, outputBuffer>>

\* nvEncMapInputResource: the driver maps what is registered with it.
MapInput ==
  /\ step = "mapping"
  /\ step' = IF inputResource \in Registered THEN "encoding" ELSE "idle"
  /\ UNCHANGED <<settings, preprocessorVars, encoderVars>>

\* The rest of EncodeFrame; without an initialized session and an output
\* buffer the driver refuses.
EncodePicture ==
  /\ step = "encoding"
  /\ step' = IF driver.of # None /\ outputBuffer THEN "encoded" ELSE "idle"
  /\ UNCHANGED <<settings, preprocessorVars, encoderVars>>

\* EncodeFrame returns to the session, which releases its mutex.
ReturnFrame ==
  /\ step = "encoded"
  /\ step' = "idle"
  /\ UNCHANGED <<settings, preprocessorVars, encoderVars>>

Next ==
  \/ \E value \in Scales : SetScale(value)
  \/ \E value \in Bitrates : SetBitrate(value)
  \/ \E value \in Preferences : SetPreference(value)
  \/ \E size \in Sizes : ProcessFrame(size)
  \/ EnsureEncoder \/ RegisterFrame \/ MapInput \/ EncodePicture \/ ReturnFrame

Spec == Init /\ [][Next]_vars

\* A frame in progress goes on: one thread runs it from end to end.
FairSpec == Spec /\ WF_vars(EnsureEncoder \/ RegisterFrame \/ MapInput
                             \/ EncodePicture \/ ReturnFrame)

-----------------------------------------------------------------------------
TypeOK ==
  /\ failing \in Failures
  /\ scale \in Scales /\ bitrate \in Bitrates /\ preference \in Preferences
  /\ targets \in Targets \cup {None}
  /\ texture \in OutputTextures \cup {None}
  /\ properties \in Properties \cup {None}
  /\ frameResource \in Textures \cup {None}
  /\ inputResource \in Textures \cup {None}
  /\ driver \in Encoders \cup {None}
  /\ outputBuffer <=> driver # None /\ driver.buffer
  /\ step \in {"idle", "ensuring", "registering", "mapping", "encoding",
               "encoded"}

\* What is encoded is the texture the frame was drawn into, not one of an
\* earlier frame, although _frameResource and _inputResource outlive frames,
\* sessions and failed calls, but for the one that unregisters
\* (VideoEncoder.cpp:385-441).
EncodesThisFrame ==
  ~ Fails("UnregisterResource") /\ step \in {"encoding", "encoded"} => inputResource = texture.address

\* A frame goes out under the size and the codec it was really encoded in,
\* which are the texture's and the one the client's present preference asks
\* for, whatever failed before (VideoEncoder.cpp:232-234, 256-383).
FrameAsDescribed ==
  step = "encoded" =>
    /\ driver.of = properties
    /\ properties.size = texture.size
    /\ properties.codec = SelectCodec(preference, Supported)

\* The driver has no texture registered that the encoder has lost track of,
\* so old textures do not pile up in it (VideoEncoder.cpp:390, 419-423).
NothingLeaks == Registered \subseteq {inputResource}

\* VideoEncoder.cpp:425 "The frame must be registered again with the new
\* encoder, even if the texture is the same": what is to be mapped is
\* registered with the present encoder, as long as the encoder's calls work.
EncoderWorks == failing \subseteq {"CreateVideoProcessor"}

RegisteredAgain == EncoderWorks /\ step = "mapping" => inputResource \in Registered

\* As long as they do, each frame that was drawn is encoded, however size,
\* scale, bitrate and codec change meanwhile (VideoEncoder.cpp:153-241).
FramesEncoded == EncoderWorks => (step = "ensuring" ~> step = "encoded")
=============================================================================
