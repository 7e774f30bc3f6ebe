-------------------------- MODULE MCRtcInference --------------------------
(* RtcInference for TLC. *)
EXTENDS RtcInference
=============================================================================
