SPECIFICATION FairSpec
CONSTANTS
  CodecOrder <- ViewerOrder
  EncoderCodecs <- EncoderBoth
  SupportedCodecs = {"H264"}
  BrokenCodecs = {}
  MaxVideo = 1
  MaxControl = 1
  MaxFramesInDecodeQueue = 1
PROPERTY CodecSwitches
