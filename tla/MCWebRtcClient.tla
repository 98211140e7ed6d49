--------------------------- MODULE MCWebRtcClient ---------------------------
(* Instances of WebRtcClient for TLC: the frame thread and one more sender. *)
EXTENDS WebRtcClient

CONSTANTS frames, controls
=============================================================================
