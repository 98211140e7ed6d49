--------------------------- MODULE MCVideoEncoder ---------------------------
(***************************************************************************)
(* An instance of VideoEncoder for TLC.  With MinSize 2 the three smaller  *)
(* of the four products of size and scale give streams of the same size,   *)
(* so textures change with and without a new encoder session.              *)
(***************************************************************************)
EXTENDS VideoEncoder

BothCodecs == <<"H264", "H265">>
ClientPreferences == {<<"H265", "H264">>, <<"H264">>, <<>>}
AllCalls == {"CreateVideoProcessor", "OpenEncodeSession", "InitializeEncoder",
             "CreateBitstreamBuffer", "RegisterResource", "UnregisterResource"}
FailuresTogether == {{"CreateVideoProcessor"}, AllCalls \ {"UnregisterResource"},
                     AllCalls}
=============================================================================
