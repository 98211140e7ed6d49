---------------------------- MODULE MCStreaming ----------------------------
(***************************************************************************)
(* Instances of Streaming for TLC: the viewer prefers H265, as the stream  *)
(* host's table does; the encoder lists H264 first, as the enum does.      *)
(***************************************************************************)
EXTENDS Streaming

ViewerOrder == <<"H265", "H264">>
EncoderBoth == <<"H264", "H265">>
=============================================================================
