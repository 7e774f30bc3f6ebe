-------------------------- MODULE MCAsyncInference --------------------------
(* AsyncInference for TLC: its constants get their values in the cfg files. *)
EXTENDS AsyncInference, TLC
=============================================================================
