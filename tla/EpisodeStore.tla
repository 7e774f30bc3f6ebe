----------------------------- MODULE EpisodeStore -----------------------------
(***************************************************************************)
(* What a recording session promises of its dataset, whatever strategy     *)
(* records it: episodes are added one at a time, the Hub is only ever sent *)
(* the whole of what is saved, and a session that closes leaves nothing    *)
(* unsent, unless the last push fails or none was asked for.  It counts    *)
(* episodes: that their files can be read is for each strategy to say.     *)
(***************************************************************************)
EXTENDS Naturals

VARIABLES
    saved,      \* episodes in the dataset
    hub,        \* episodes of the last push
    open,       \* the session runs
    excused     \* the last push failed, or none was asked for

vars == <<saved, hub, open, excused>>

Init == saved = 0 /\ hub = 0 /\ open = TRUE /\ excused \in BOOLEAN

Save ==
    /\ open
    /\ saved' = saved + 1
    /\ UNCHANGED <<hub, open, excused>>

Push ==
    /\ open
    /\ hub' = saved
    /\ UNCHANGED <<saved, open, excused>>

Fail ==
    /\ open
    /\ open' = FALSE /\ excused' = TRUE
    /\ UNCHANGED <<saved, hub>>

Close ==
    /\ open /\ (hub = saved \/ excused)
    /\ open' = FALSE
    /\ UNCHANGED <<saved, hub, excused>>

Next == Save \/ Push \/ Fail \/ Close

Spec == Init /\ [][Next]_vars
=============================================================================
