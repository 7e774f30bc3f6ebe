------------------------------ MODULE MCEpisodic ------------------------------
(* Episodic for TLC. *)
EXTENDS Episodic
=============================================================================
