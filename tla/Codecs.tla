-------------------------------- MODULE Codecs --------------------------------
(***************************************************************************)
(* The choice of a codec, VideoEncoder::SelectCodec.                       *)
(***************************************************************************)
EXTENDS Sequences, SequencesExt

\* `wanted` is the client's preference, `supported` what the GPU supports in
\* the order of the enum VideoCodec, which is the order of a set<VideoCodec>:
\* the first of the wanted that is supported, or else the last supported.
SelectCodec(wanted, supported) ==
  LET usable == {i \in DOMAIN wanted : wanted[i] \in ToSet(supported)}
  IN  IF usable = {} THEN Last(supported) ELSE wanted[Min(usable)]
=============================================================================
