-------------------------- MODULE VideoEncoderProofs --------------------------
(***************************************************************************)
(* What the preprocessor and the encoder keep from frame to frame never    *)
(* misleads them about the frame that goes out, for any sizes, scales,     *)
(* bitrates, codecs and textures and whichever calls into drivers fail.    *)
(***************************************************************************)
EXTENDS VideoEncoder, FiniteSetTheorems, WellFoundedInduction, TLAPS

-----------------------------------------------------------------------------
\* A set of naturals has a least element: the intervals up to its elements
\* are finite sets, of which one has no other as its subset.
LEMMA LeastElement ==
  ASSUME NEW T, T \subseteq Nat, T # {}
  PROVE  Min(T) \in T /\ \A m \in T : Min(T) <= m
<1> DEFINE Intervals == {0 .. n : n \in T}
           Order == StrictSubsetOrdering(Nat)
<1>1. Intervals \subseteq FiniteSubsetsOf(Nat) /\ Intervals # {}
  <2>1. ASSUME NEW n \in T PROVE 0 .. n \in FiniteSubsetsOf(Nat)
    <3>1. n \in Nat /\ 0 .. n \subseteq Nat
      OBVIOUS
    <3>2. IsFiniteSet(0 .. n)
      BY <3>1, FS_Interval
    <3> QED
      BY <3>1, <3>2 DEF FiniteSubsetsOf
  <2> QED
    BY <2>1
<1>2. PICK x \in Intervals : \A y \in Intervals : ~ (<<y, x>> \in Order)
  <2> HIDE DEF Intervals, Order
  <2>1. IsWellFoundedOn(Order, FiniteSubsetsOf(Nat))
    BY FS_StrictSubsetOrderingWellFounded DEF Order
  <2> QED
    BY <1>1, <2>1, WFMin
<1>3. PICK n \in T : x = 0 .. n
  OBVIOUS
<1>4. ASSUME NEW m \in T, m < n PROVE FALSE
  <2>1. 0 .. m \in Intervals /\ 0 .. m # x /\ 0 .. m \subseteq x
    BY <1>3, <1>4
  <2>2. <<0 .. m, x>> \in Order
    BY <1>3, <2>1 DEF StrictSubsetOrdering
  <2> QED
    BY <1>2, <2>1, <2>2
<1>5. \E k \in T : \A m \in T : k <= m
  BY <1>4
<1> QED
  BY <1>5 DEF Min

\* The codec chosen is one the GPU supports, and the first such of those the
\* client wants if there is one (VideoEncoder.cpp:127-136).
LEMMA CodecChosen ==
  ASSUME NEW wanted, wanted \in Seq(ToSet(wanted)),
         NEW supported, supported \in Seq(ToSet(supported)), supported # <<>>
  PROVE  /\ SelectCodec(wanted, supported) \in ToSet(supported)
         /\ ToSet(wanted) \cap ToSet(supported) # {} =>
              \E i \in DOMAIN wanted :
                /\ SelectCodec(wanted, supported) = wanted[i]
                /\ \A j \in 1 .. i - 1 : wanted[j] \notin ToSet(supported)
<1> DEFINE usable == {i \in DOMAIN wanted : wanted[i] \in ToSet(supported)}
<1>1. DOMAIN wanted = 1 .. Len(wanted) /\ Len(wanted) \in Nat
  OBVIOUS
<1>2. CASE usable = {}
  <2>1. SelectCodec(wanted, supported) = supported[Len(supported)]
    BY <1>2 DEF SelectCodec, Last
  <2>2. Len(supported) \in DOMAIN supported
    OBVIOUS
  <2>3. SelectCodec(wanted, supported) \in ToSet(supported)
    BY <2>1, <2>2 DEF ToSet
  <2>4. ToSet(wanted) \cap ToSet(supported) = {}
    BY <1>2 DEF ToSet
  <2> QED
    BY <2>3, <2>4
<1>3. CASE usable # {}
  <2>1. Min(usable) \in usable /\ \A m \in usable : Min(usable) <= m
    <3>1. usable \subseteq Nat
      BY <1>1
    <3> HIDE DEF usable
    <3> QED
      BY <1>3, <3>1, LeastElement
  <2>2. SelectCodec(wanted, supported) = wanted[Min(usable)]
    BY <1>3 DEF SelectCodec
  <2>3. ASSUME NEW j \in 1 .. Min(usable) - 1
        PROVE  j \notin usable /\ j \in DOMAIN wanted
    <3> DEFINE least == Min(usable)
    <3>1. least \in 1 .. Len(wanted) /\ \A m \in usable : least <= m
      BY <1>1, <2>1
    <3> HIDE DEF usable, least
    <3>2. j \in 1 .. least - 1
      BY DEF least
    <3>3. j \in 1 .. Len(wanted) /\ j < least
      BY <1>1, <3>1, <3>2
    <3> QED
      BY <1>1, <3>1, <3>3
  <2> QED
    BY <2>1, <2>2, <2>3
<1> QED
  BY <1>2, <1>3

\* With any preference the client may send, that is so for this GPU.
LEMMA CodecSupported ==
  preference \in Preferences =>
    SelectCodec(preference, Supported) \in ToSet(Supported)
BY CodecChosen, SupportedAssumption, PreferencesAssumption

-----------------------------------------------------------------------------
\* A frame in progress has been drawn.
Drawn == step # "idle" => texture # None

(***************************************************************************)
(* _frameResource is assigned before the calls that may fail, so it may    *)
(* name a texture that is not registered.  But only _inputResource may be  *)
(* registered, and where it is, both name the same texture unless the call *)
(* that unregisters the last one failed.                                   *)
(***************************************************************************)
ResourcesAgree ==
  /\ NothingLeaks
  /\ ~ Fails("UnregisterResource") /\ inputResource \in Registered =>
       inputResource = frameResource
  /\ step \in {"mapping", "encoding", "encoded"} =>
       frameResource = texture.address
  /\ step \in {"encoding", "encoded"} => inputResource \in Registered

(***************************************************************************)
(* _encoderProperties is assigned before the session is opened, so it may  *)
(* describe a session that is not there.  One that is there and            *)
(* initialized is as it says.                                              *)
(***************************************************************************)
SessionAsDescribed ==
  /\ driver # None /\ driver.of # None => driver.of = properties
  /\ step \in {"registering", "mapping", "encoding", "encoded"} =>
       /\ properties.size = texture.size
       /\ properties.codec = SelectCodec(preference, Supported)
  /\ step = "encoded" => driver # None /\ driver.of # None

(***************************************************************************)
(* As long as the encoder's calls work, what the fields name is there: an  *)
(* encoder once its properties are set, and the frame registered last with *)
(* that encoder, because all that was registered is forgotten with it.     *)
(***************************************************************************)
WorksAsNamed ==
  EncoderWorks =>
    /\ properties # None => driver # None
    /\ inputResource = frameResource
    /\ frameResource # None => inputResource \in Registered
    /\ step \in {"registering", "mapping", "encoding", "encoded"} =>
         properties # None

EncoderInv ==
  TypeOK /\ Drawn /\ ResourcesAgree /\ SessionAsDescribed /\ WorksAsNamed

-----------------------------------------------------------------------------
\* What a driver's encoder is when it has been opened, and how it changes.
LEMMA DriverOpened ==
  ASSUME NEW of \in Properties \cup {None}
  PROVE  /\ NewDriver(of) \in Encoders
         /\ NewDriver(of).of = of
         /\ NewDriver(of).registered = {}
         /\ NewDriver(of).buffer = FALSE
         /\ LET opened == [NewDriver(of) EXCEPT !.buffer = TRUE]
            IN  /\ opened \in Encoders
                /\ opened.of = of
                /\ opened.registered = {}
                /\ opened.buffer = TRUE
BY DEF NewDriver, Encoders

LEMMA DriverRegisters ==
  ASSUME driver \in Encoders, NEW textures \in SUBSET Textures
  PROVE  LET changed == [driver EXCEPT !.registered = textures]
         IN  /\ changed \in Encoders
             /\ changed.of = driver.of
             /\ changed.buffer = driver.buffer
             /\ changed.registered = textures
BY DEF Encoders

\* The size of a stream is a number.
LEMMA OutputSized ==
  ASSUME NEW target \in Targets
  PROVE  OutputSize(target) \in Nat
<1>1. target.size \in Nat /\ target.scale \in Nat /\ MinSize \in Nat
  BY NumbersAssumption DEF Targets
<1>2. target.size * target.scale \in Nat
  BY <1>1
<1> QED
  BY <1>1, <1>2 DEF OutputSize, LargerOf

\* What an encoder is asked for.
LEMMA PropertiesAsked ==
  ASSUME TypeOK, texture # None
  PROVE  /\ GetEncoderProperties \in Properties
         /\ GetEncoderProperties.size = texture.size
         /\ GetEncoderProperties.codec = SelectCodec(preference, Supported)
<1>1. texture.size \in Nat /\ bitrate \in Bitrates /\ preference \in Preferences
  BY DEF TypeOK, OutputTextures
<1> QED
  BY <1>1, CodecSupported DEF GetEncoderProperties, Properties

LEMMA EncoderInit == Init => EncoderInv
<1> SUFFICES ASSUME Init PROVE EncoderInv
  OBVIOUS
<1>1. TypeOK /\ Drawn
  BY DEF Init, TypeOK, Drawn
<1>2. ResourcesAgree /\ SessionAsDescribed /\ WorksAsNamed
  BY DEF Init, ResourcesAgree, NothingLeaks, Registered, SessionAsDescribed,
         WorksAsNamed
<1> QED
  BY <1>1, <1>2 DEF EncoderInv

\* The settings of a pairing touch nothing the frame in progress depends on.
LEMMA SettingsKeepInv ==
  ASSUME EncoderInv,
         UNCHANGED <<failing, preprocessorVars, encoderVars, step>>,
         step = "idle" \/ UNCHANGED preference,
         scale' \in Scales, bitrate' \in Bitrates, preference' \in Preferences
  PROVE  EncoderInv'
<1> USE DEF preprocessorVars, encoderVars, EncoderInv
<1>1. TypeOK' /\ Drawn'
  BY DEF TypeOK, Drawn
<1>2. ResourcesAgree'
  BY DEF ResourcesAgree, NothingLeaks, Registered, Fails
<1>3. SessionAsDescribed'
  BY DEF SessionAsDescribed
<1>4. WorksAsNamed'
  BY DEF WorksAsNamed, EncoderWorks, Registered
<1> QED
  BY <1>1, <1>2, <1>3, <1>4

\* A texture is made anew only before its frame has reached the encoder.
LEMMA ProcessFrameKeepsInv ==
  ASSUME EncoderInv, NEW size \in Sizes, ProcessFrame(size)
  PROVE  EncoderInv'
<1> DEFINE target == [size |-> size, scale |-> scale]
<1>1. /\ step' \in {"idle", "ensuring"}
      /\ UNCHANGED <<settings, encoderVars>>
  BY DEF ProcessFrame
<1>2. target \in Targets /\ OutputSize(target) \in Nat /\ targets' = target
  <2>1. target \in Targets
    BY DEF EncoderInv, TypeOK, Targets
  <2> QED
    BY <2>1, OutputSized DEF ProcessFrame
<1>3. /\ texture' \in OutputTextures \cup {None}
      /\ step' # "idle" => texture' # None
  <2> HIDE DEF target
  <2>1. CASE /\ texture' = texture
             /\ step' # "idle" => texture # None
    BY <2>1 DEF EncoderInv, TypeOK
  <2>2. CASE \E address \in Textures :
               texture' = [address |-> address, size |-> OutputSize(target)]
    BY <1>2, <2>2, NoneAssumption DEF OutputTextures
  <2>3. CASE texture' = None /\ step' = "idle"
    BY <2>3
  <2>4. step = "idle"
    BY DEF ProcessFrame
  <2> QED
    BY <2>1, <2>2, <2>3, <2>4 DEF ProcessFrame, target
<1>4. TypeOK' /\ Drawn'
  BY <1>1, <1>2, <1>3 DEF EncoderInv, TypeOK, Drawn, settings, encoderVars
<1>5. ResourcesAgree'
  BY <1>1 DEF EncoderInv, ResourcesAgree, NothingLeaks, Registered, Fails,
              settings, encoderVars
<1>6. SessionAsDescribed'
  BY <1>1 DEF EncoderInv, SessionAsDescribed, encoderVars
<1>7. WorksAsNamed'
  BY <1>1 DEF EncoderInv, WorksAsNamed, EncoderWorks, Registered, settings,
              encoderVars
<1> QED
  BY <1>4, <1>5, <1>6, <1>7 DEF EncoderInv

\* A session goes with all that was registered with it, whatever replaces it.
LEMMA EnsureEncoderKeepsInv ==
  ASSUME EncoderInv, EnsureEncoder
  PROVE  EncoderInv'
<1>1. /\ step = "ensuring" /\ texture # None
      /\ properties' = GetEncoderProperties
      /\ UNCHANGED <<settings, targets, texture>>
      /\ step' \in {"registering", "idle"}
  BY DEF EnsureEncoder, preprocessorVars, EncoderInv, Drawn
<1>2. /\ properties' \in Properties
      /\ properties'.size = texture'.size
      /\ properties'.codec = SelectCodec(preference', Supported)
  BY <1>1, PropertiesAsked DEF EncoderInv, settings
<1>3. properties' # None
  BY <1>2, NoneAssumption
<1>4. Drawn'
  BY <1>1 DEF Drawn
<1>5. CASE UNCHANGED <<properties, frameResource, inputResource, outputBuffer,
                       driver>>
  <2>1. TypeOK'
    BY <1>1, <1>5 DEF EncoderInv, TypeOK, settings
  <2>2. ResourcesAgree'
    BY <1>1, <1>5 DEF EncoderInv, ResourcesAgree, NothingLeaks, Registered, Fails,
                      settings
  <2>3. SessionAsDescribed'
    BY <1>1, <1>2, <1>5 DEF EncoderInv, SessionAsDescribed
  <2>4. WorksAsNamed'
    BY <1>1, <1>3, <1>5 DEF EncoderInv, WorksAsNamed, EncoderWorks, Registered,
                            settings
  <2> QED
    BY <1>4, <2>1, <2>2, <2>3, <2>4 DEF EncoderInv
<1>6. CASE /\ ReleaseResources
           /\ \/ /\ driver' = None /\ outputBuffer' = FALSE
                 /\ Fails("OpenEncodeSession")
              \/ driver' = NewDriver(None) /\ outputBuffer' = FALSE
              \/ driver' = NewDriver(properties') /\ outputBuffer' = FALSE
              \/ /\ driver' = [NewDriver(properties') EXCEPT !.buffer = TRUE]
                 /\ outputBuffer' = TRUE
  <2>1. /\ NewDriver(None) \in Encoders
        /\ NewDriver(None).of = None
        /\ NewDriver(None).registered = {}
        /\ NewDriver(None).buffer = FALSE
    BY DriverOpened
  <2>2. /\ NewDriver(properties') \in Encoders
        /\ NewDriver(properties').of = properties'
        /\ NewDriver(properties').registered = {}
        /\ NewDriver(properties').buffer = FALSE
    BY <1>2, DriverOpened
  <2>3. LET opened == [NewDriver(properties') EXCEPT !.buffer = TRUE]
        IN  /\ opened \in Encoders
            /\ opened.of = properties'
            /\ opened.registered = {}
            /\ opened.buffer = TRUE
    BY <1>2, DriverOpened
  <2>4. /\ driver' \in Encoders \cup {None}
        /\ outputBuffer' <=> driver' # None /\ driver'.buffer
        /\ driver' # None /\ driver'.of # None => driver'.of = properties'
    <3>1. CASE driver' = None /\ outputBuffer' = FALSE
      BY <3>1
    <3>2. CASE driver' = NewDriver(None) /\ outputBuffer' = FALSE
      BY <2>1, <3>2
    <3>3. CASE driver' = NewDriver(properties') /\ outputBuffer' = FALSE
      BY <2>2, <3>3
    <3>4. CASE /\ driver' = [NewDriver(properties') EXCEPT !.buffer = TRUE]
               /\ outputBuffer' = TRUE
      BY <2>3, <3>4, NoneAssumption
    <3> QED
      BY <1>6, <3>1, <3>2, <3>3, <3>4
  <2>5. Registered' = {}
    BY <1>6, <2>1, <2>2, <2>3 DEF Registered
  <2>6. TypeOK'
    BY <1>1, <1>2, <1>6, <2>4 DEF EncoderInv, TypeOK, settings, ReleaseResources
  <2>7. ResourcesAgree'
    BY <1>1, <2>5 DEF ResourcesAgree, NothingLeaks
  <2>8. SessionAsDescribed'
    BY <1>1, <1>2, <2>4 DEF SessionAsDescribed
  <2>9. WorksAsNamed'
    <3>1. EncoderWorks' => ~ Fails("OpenEncodeSession")
      BY <1>1 DEF EncoderWorks, Fails, settings
    <3>2. EncoderWorks' => driver' # None
      BY <1>6, <2>1, <2>2, <2>3, <3>1, NoneAssumption
    <3> QED
      BY <1>3, <1>6, <3>2 DEF WorksAsNamed, ReleaseResources
  <2> QED
    BY <1>4, <2>6, <2>7, <2>8, <2>9 DEF EncoderInv
<1> QED
  BY <1>5, <1>6 DEF EnsureEncoder

\* The new texture takes the place of the last one, or, when a call fails,
\* nothing is registered or nothing has changed.
LEMMA RegisterFrameKeepsInv ==
  ASSUME EncoderInv, RegisterFrame
  PROVE  EncoderInv'
<1>1. /\ step = "registering"
      /\ frameResource' = texture.address
      /\ UNCHANGED <<settings, targets, texture, properties, outputBuffer>>
      /\ step' \in {"mapping", "idle"}
  BY DEF RegisterFrame, preprocessorVars
<1>2. /\ Registered \ {inputResource} = {}
      /\ texture # None /\ texture.address \in Textures
  BY <1>1 DEF EncoderInv, ResourcesAgree, NothingLeaks, Drawn, TypeOK, OutputTextures
<1>3. Drawn' /\ texture.address # None
  BY <1>1, <1>2, NoneAssumption DEF Drawn
<1>4. EncoderWorks' => driver # None /\ properties' # None /\ EncoderWorks
  BY <1>1 DEF EncoderInv, WorksAsNamed, EncoderWorks, settings
<1>5. ASSUME UNCHANGED driver
      PROVE  /\ SessionAsDescribed'
             /\ inputResource' \in Textures \cup {None} => TypeOK'
  BY <1>1, <1>2, <1>5 DEF EncoderInv, TypeOK, SessionAsDescribed, settings
<1>6. ASSUME driver # None, NEW textures \in SUBSET Textures,
             driver' = [driver EXCEPT !.registered = textures]
      PROVE  /\ SessionAsDescribed' /\ Registered' = textures /\ driver' # None
             /\ inputResource' \in Textures \cup {None} => TypeOK'
  <2>1. /\ driver' \in Encoders
        /\ driver'.of = driver.of
        /\ driver'.buffer = driver.buffer
        /\ driver'.registered = textures
    BY <1>6, DriverRegisters DEF EncoderInv, TypeOK
  <2>2. SessionAsDescribed'
    BY <1>1, <1>6, <2>1 DEF EncoderInv, SessionAsDescribed, settings
  <2>3. Registered' = textures /\ driver' # None
    BY <2>1, NoneAssumption DEF Registered
  <2>4. inputResource' \in Textures \cup {None} => TypeOK'
    BY <1>1, <1>2, <1>6, <2>1, <2>3 DEF EncoderInv, TypeOK, settings
  <2> QED
    BY <2>2, <2>3, <2>4
<1>7. inputResource \in Textures \cup {None}
  BY DEF EncoderInv, TypeOK
<1>8. CASE frameResource = texture.address /\ UNCHANGED <<inputResource, driver>>
  <2>1. ResourcesAgree'
    BY <1>1, <1>8 DEF EncoderInv, ResourcesAgree, NothingLeaks, Registered, Fails,
                      settings
  <2>2. WorksAsNamed'
    BY <1>1, <1>4, <1>8 DEF EncoderInv, WorksAsNamed, Registered
  <2> QED
    BY <1>3, <1>5, <1>7, <1>8, <2>1, <2>2 DEF EncoderInv
<1>9. CASE /\ driver # None
           /\ driver' = [driver EXCEPT !.registered =
                           (Registered \ {inputResource}) \cup {texture.address}]
           /\ inputResource' = texture.address
  <2>1. driver' = [driver EXCEPT !.registered = {texture.address}]
    BY <1>2, <1>9
  <2>2. {texture.address} \in SUBSET Textures
    BY <1>2
  <2>3. /\ SessionAsDescribed' /\ Registered' = {texture.address}
        /\ TypeOK' /\ driver' # None
    BY <1>2, <1>6, <1>9, <2>1, <2>2
  <2>4. ResourcesAgree'
    BY <1>1, <1>9, <2>3 DEF ResourcesAgree, NothingLeaks
  <2>5. WorksAsNamed'
    BY <1>1, <1>4, <1>9, <2>3 DEF WorksAsNamed
  <2> QED
    BY <1>3, <2>3, <2>4, <2>5 DEF EncoderInv
<1>10. CASE /\ driver = None \/ Fails("RegisterResource")
            /\ driver' = IF driver = None THEN None
                         ELSE [driver EXCEPT !.registered = Registered \ {inputResource}]
            /\ step' = "idle"
            /\ UNCHANGED inputResource
  <2>1. SessionAsDescribed' /\ Registered' = {} /\ TypeOK'
    <3>1. CASE driver = None
      BY <1>5, <1>7, <1>10, <3>1 DEF Registered
    <3>2. CASE driver # None
      <4>1. driver' = [driver EXCEPT !.registered = {}] /\ {} \in SUBSET Textures
        BY <1>2, <1>10, <3>2
      <4> QED
        BY <1>6, <1>7, <1>10, <3>2, <4>1
    <3> QED
      BY <3>1, <3>2
  <2>2. ResourcesAgree'
    BY <1>1, <1>10, <2>1 DEF ResourcesAgree, NothingLeaks
  <2>3. ~ EncoderWorks'
    BY <1>1, <1>4, <1>10 DEF EncoderWorks, Fails, settings
  <2> QED
    BY <1>3, <2>1, <2>2, <2>3 DEF EncoderInv, WorksAsNamed
<1>11. CASE /\ inputResource # None
            /\ Fails("UnregisterResource") \/ inputResource \notin Registered
            /\ step' = "idle"
            /\ UNCHANGED <<inputResource, driver>>
  <2>1. ResourcesAgree'
    BY <1>1, <1>11 DEF EncoderInv, ResourcesAgree, NothingLeaks, Registered, Fails,
                       settings
  <2>2. ~ EncoderWorks'
    BY <1>1, <1>4, <1>11
       DEF EncoderInv, WorksAsNamed, EncoderWorks, Fails, settings
  <2> QED
    BY <1>3, <1>5, <1>7, <1>11, <2>1, <2>2 DEF EncoderInv, WorksAsNamed
<1> QED
  BY <1>8, <1>9, <1>10, <1>11 DEF RegisterFrame

\* From here on nothing changes but how far the frame is.
LEMMA StepsKeepInv ==
  ASSUME EncoderInv, MapInput \/ EncodePicture \/ ReturnFrame
  PROVE  EncoderInv'
<1>1. /\ UNCHANGED <<settings, preprocessorVars, encoderVars>>
      /\ step \in {"mapping", "encoding", "encoded"}
      /\ step' \in {"idle", "encoding", "encoded"}
  BY DEF MapInput, EncodePicture, ReturnFrame
<1>2. TypeOK' /\ Drawn'
  BY <1>1 DEF EncoderInv, TypeOK, Drawn, settings, preprocessorVars, encoderVars
<1>3. ResourcesAgree'
  BY <1>1 DEF EncoderInv, ResourcesAgree, NothingLeaks, Registered, Fails,
              MapInput, EncodePicture, ReturnFrame, settings, preprocessorVars,
              encoderVars
<1>4. step' = "encoded" => driver # None /\ driver.of # None
  BY DEF EncoderInv, ResourcesAgree, Registered, MapInput, EncodePicture, ReturnFrame
<1>5. SessionAsDescribed'
  BY <1>1, <1>4 DEF EncoderInv, SessionAsDescribed, settings, preprocessorVars,
                    encoderVars
<1>6. WorksAsNamed'
  BY <1>1 DEF EncoderInv, WorksAsNamed, EncoderWorks, Registered, settings,
              encoderVars
<1> QED
  BY <1>2, <1>3, <1>5, <1>6 DEF EncoderInv

LEMMA EncoderStep == EncoderInv /\ [Next]_vars => EncoderInv'
<1> SUFFICES ASSUME EncoderInv, [Next]_vars
             PROVE  EncoderInv'
  OBVIOUS
<1> scale \in Scales /\ bitrate \in Bitrates /\ preference \in Preferences
  BY DEF EncoderInv, TypeOK
<1>1. CASE \E value \in Scales : SetScale(value)
  BY <1>1, SettingsKeepInv DEF SetScale
<1>2. CASE \E value \in Bitrates : SetBitrate(value)
  BY <1>2, SettingsKeepInv DEF SetBitrate
<1>3. CASE \E value \in Preferences : SetPreference(value)
  BY <1>3, SettingsKeepInv DEF SetPreference
<1>4. CASE \E size \in Sizes : ProcessFrame(size)
  BY <1>4, ProcessFrameKeepsInv
<1>5. CASE EnsureEncoder
  BY <1>5, EnsureEncoderKeepsInv
<1>6. CASE RegisterFrame
  BY <1>6, RegisterFrameKeepsInv
<1>7. CASE MapInput \/ EncodePicture \/ ReturnFrame
  BY <1>7, StepsKeepInv
<1>8. CASE UNCHANGED vars
  BY <1>8, SettingsKeepInv DEF vars, settings
<1> QED
  BY <1>1, <1>2, <1>3, <1>4, <1>5, <1>6, <1>7, <1>8 DEF Next

(***************************************************************************)
(* The fields agree with the driver in every state.                        *)
(***************************************************************************)
THEOREM EncoderInvariant == Spec => []EncoderInv
BY EncoderInit, EncoderStep, PTL DEF Spec

-----------------------------------------------------------------------------
(***************************************************************************)
(* What is encoded is the texture this frame was drawn into, unless the    *)
(* call that unregisters a texture fails (VideoEncoder.cpp:385-441).       *)
(***************************************************************************)
THEOREM ThisFrameEncoded == Spec => []EncodesThisFrame
<1>1. EncoderInv => EncodesThisFrame
  BY DEF EncoderInv, ResourcesAgree, EncodesThisFrame
<1> QED
  BY <1>1, EncoderInvariant, PTL

(***************************************************************************)
(* A frame goes out under the size and the codec it was encoded in, the    *)
(* codec the client's present preference asks for, whatever failed before  *)
(* (VideoEncoder.cpp:232-234, 256-383).                                    *)
(***************************************************************************)
THEOREM DescribedAsEncoded == Spec => []FrameAsDescribed
<1>1. EncoderInv => FrameAsDescribed
  BY DEF EncoderInv, SessionAsDescribed, FrameAsDescribed
<1> QED
  BY <1>1, EncoderInvariant, PTL

(***************************************************************************)
(* Old textures never pile up in the driver: it has none registered but    *)
(* the one the encoder knows of (VideoEncoder.cpp:390, 419-423).           *)
(***************************************************************************)
THEOREM NoTextureLeaks == Spec => []NothingLeaks
<1>1. EncoderInv => NothingLeaks
  BY DEF EncoderInv, ResourcesAgree
<1> QED
  BY <1>1, EncoderInvariant, PTL

(***************************************************************************)
(* "The frame must be registered again with the new encoder, even if the   *)
(* texture is the same" (VideoEncoder.cpp:425), and it is: what is mapped  *)
(* is registered with the present encoder as long as the encoder's calls   *)
(* work, whichever targets the preprocessor cannot make.                   *)
(***************************************************************************)
THEOREM FramesRegisteredAgain == Spec => []RegisteredAgain
<1>1. EncoderInv => RegisteredAgain
  <2> SUFFICES ASSUME EncoderInv, EncoderWorks, step = "mapping"
               PROVE  inputResource \in Registered
    BY DEF RegisteredAgain
  <2>1. texture.address \in Textures /\ frameResource = texture.address
    BY DEF EncoderInv, TypeOK, Drawn, OutputTextures, ResourcesAgree
  <2> QED
    BY <2>1, NoneAssumption DEF EncoderInv, WorksAsNamed
<1> QED
  BY <1>1, EncoderInvariant, PTL

(***************************************************************************)
(* Type correctness: in particular an encoder is only ever asked for a     *)
(* codec the GPU supports, whatever the client prefers, and the output     *)
(* buffer is set exactly when the driver has one.                          *)
(***************************************************************************)
THEOREM EncoderTypes == Spec => []TypeOK
<1>1. EncoderInv => TypeOK
  BY DEF EncoderInv
<1> QED
  BY <1>1, EncoderInvariant, PTL
=============================================================================
