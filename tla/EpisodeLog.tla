------------------------------ MODULE EpisodeLog ------------------------------
(***************************************************************************)
(* What a dataset promises to who records into it: frames are collected    *)
(* one after the other, and the collected ones become an episode or are    *)
(* dropped; an episode that is in the log never changes.                   *)
(***************************************************************************)
EXTENDS Naturals, Sequences

CONSTANT Frame      \* frames

VARIABLES
    log,        \* the frames of each episode
    pending     \* the frames collected

vars == <<log, pending>>

Init == log = <<>> /\ pending = <<>>

Collect == UNCHANGED log /\ \E f \in Frame : pending' = Append(pending, f)

Record ==
    /\ pending # <<>>
    /\ log' = Append(log, pending)
    /\ pending' = <<>>

Drop == UNCHANGED log /\ pending' = <<>>

Next == Collect \/ Record \/ Drop

Spec == Init /\ [][Next]_vars
=============================================================================
