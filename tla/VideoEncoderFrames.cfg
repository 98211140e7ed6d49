SPECIFICATION FairSpec

CONSTANTS
  Sizes = {1, 2}
  MinSize = 2
  Scales = {1, 2}
  Bitrates = {10, 20}
  Preferences <- ClientPreferences
  Supported <- BothCodecs
  Textures = {t1, t2, t3}
  None = None
  Failures <- FailuresTogether

INVARIANTS
  TypeOK
  EncodesThisFrame
  FrameAsDescribed
  NothingLeaks
  RegisteredAgain

PROPERTY
  FramesEncoded
