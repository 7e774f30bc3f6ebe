------------------------------ MODULE MCHighlight ------------------------------
(***************************************************************************)
(* Instances of Highlight for TLC.                                         *)
(***************************************************************************)
EXTENDS Highlight
=============================================================================
