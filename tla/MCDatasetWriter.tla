---------------------------- MODULE MCDatasetWriter ----------------------------
(***************************************************************************)
(* Instances of DatasetWriter for TLC.                                     *)
(***************************************************************************)
EXTENDS DatasetWriter
=============================================================================
