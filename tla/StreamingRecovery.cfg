SPECIFICATION FairSpec
CONSTANTS
  CodecOrder <- ViewerOrder
  EncoderCodecs <- EncoderBoth
  SupportedCodecs = {"H264", "H265"}
  BrokenCodecs = {"H265"}
  MaxVideo = 2
  MaxControl = 1
  MaxFramesInDecodeQueue = 1
INVARIANTS TypeOK FramesCounted DecodersStartWithKey WorkingKept
PROPERTY Recovers
