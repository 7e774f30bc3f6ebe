------------------------------- MODULE MCDagger -------------------------------
(***************************************************************************)
(* Instances of Dagger for TLC.                                            *)
(***************************************************************************)
EXTENDS Dagger
=============================================================================
