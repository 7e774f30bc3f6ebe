------------------------------- MODULE Episodic -------------------------------
(***************************************************************************)
(* The episodic rollout strategy (rollout/strategies/episodic.py): the     *)
(* policy is recorded for one attempt after the other, with a phase        *)
(* between them in which the scene is reset, and the operator may end      *)
(* either early, discard an attempt, or stop.                              *)
(*                                                                         *)
(* The operator's keys set the flags of init_keyboard_listener from the    *)
(* listener's thread, one assignment at a time; the main thread reads and  *)
(* clears them wherever it happens to be.                                  *)
(*                                                                         *)
(* The dataset is external: it counts the saved episodes, and its episode  *)
(* buffer is the set of the attempts that its frames come from.  Attempts  *)
(* are told apart by parity.  Time is only known to run out.               *)
(***************************************************************************)
EXTENDS Integers

CONSTANTS
    NumEpisodes,    \* dataset.num_episodes
    UseCompile,     \* use_torch_compile
    PushToHub,      \* dataset.push_to_hub
    MaxFaults       \* bound: calls of robot, dataset or Hub that fail

ASSUME ConfigAssumption ==
    /\ NumEpisodes \in Nat
    /\ UseCompile \in BOOLEAN /\ PushToHub \in BOOLEAN
    /\ MaxFaults \in Nat

VARIABLES
    exitEarly,      \* events["exit_early"]
    rerecord,       \* events["rerecord_episode"]
    stop,           \* events["stop_recording"]
    key,            \* the listener is about to set exit_early, or idle
    shutdown,       \* the shutdown event
    ready,          \* engine.ready
    main,           \* where the main thread is
    attempt,        \* parity of the attempts started
    recorded,       \* recorded_episodes
    buffer,         \* the attempts the frames of the episode buffer are from
    broken,         \* a save failed half-way
    saved,          \* dataset.num_episodes
    finalized,      \* dataset.finalize() was called
    hub,            \* episodes of the last upload
    released,       \* the engine is stopped and the hardware disconnected
    faults,         \* history: calls that failed
    discard,        \* history: this attempt was to be discarded
    blank           \* history: an attempt ended without a frame

flagVars == <<exitEarly, rerecord, stop>>
keyVars == <<key, discard>>
loopVars == <<attempt, recorded, blank>>
dataVars == <<buffer, broken, saved, finalized>>
vars == <<flagVars, keyVars, shutdown, ready, main, loopVars, dataVars,
          hub, released, faults>>
-----------------------------------------------------------------------------

(* setup: the engine was started, the listener is attached. *)
Init ==
    /\ exitEarly = FALSE /\ rerecord = FALSE /\ stop = FALSE
    /\ key = "idle" /\ discard = FALSE
    /\ shutdown = FALSE /\ ready = ~UseCompile
    /\ main = "head" /\ attempt = 0 /\ recorded = 0 /\ blank = FALSE
    /\ buffer = {} /\ broken = FALSE /\ saved = 0 /\ finalized = FALSE
    /\ hub = 0 /\ released = FALSE /\ faults = 0

(* A call of the robot, the engine, the dataset or the Hub raises. *)
CallFails == faults < MaxFaults /\ faults' = faults + 1
-----------------------------------------------------------------------------
(* The operator, until the listener is stopped.                            *)

Listening == main \notin {"push", "release", "ended"}

(* An attempt can be discarded until the main thread looks for the request. *)
Discardable == main \in {"episode", "over", "reset", "check"}

PressRight ==
    /\ exitEarly' = TRUE
    /\ UNCHANGED <<rerecord, stop, keyVars>>

PressLeft ==
    /\ rerecord' = TRUE
    /\ discard' = (discard \/ Discardable)
    /\ key' = "pressed"
    /\ UNCHANGED <<exitEarly, stop>>

PressEscape ==
    /\ stop' = TRUE
    /\ key' = "pressed"
    /\ UNCHANGED <<exitEarly, rerecord, discard>>

PressKey ==
    /\ Listening /\ key = "idle"
    /\ PressRight \/ PressLeft \/ PressEscape
    /\ UNCHANGED <<shutdown, ready, main, loopVars, dataVars, hub, released, faults>>

(* The second assignment of left and escape. *)
FinishPress ==
    /\ Listening /\ key = "pressed"
    /\ exitEarly' = TRUE /\ key' = "idle"
    /\ UNCHANGED <<rerecord, stop, discard, shutdown, ready, main>>
    /\ UNCHANGED <<loopVars, dataVars, hub, released, faults>>

(* A signal, or a failure of the engine. *)
Interrupt ==
    /\ shutdown' = TRUE
    /\ UNCHANGED <<flagVars, keyVars, ready, main, loopVars, dataVars>>
    /\ UNCHANGED <<hub, released, faults>>

Operator == PressKey \/ FinishPress \/ Interrupt

(* The engine has compiled its policy. *)
EngineReady ==
    /\ ~ready /\ ready' = TRUE
    /\ UNCHANGED <<flagVars, keyVars, shutdown, main, loopVars, dataVars>>
    /\ UNCHANGED <<hub, released, faults>>
-----------------------------------------------------------------------------
(* The main thread: run.                                                   *)

(* Mutant: one episode too many. *)
GoesOnOnce == recorded <= NumEpisodes /\ ~stop /\ ~shutdown

(* The condition of the loop and the shutdown event. *)
GoesOn == recorded < NumEpisodes /\ ~stop /\ ~shutdown

LoopEnds ==
    /\ main = "head" /\ ~GoesOn
    /\ main' = "closing"
    /\ UNCHANGED <<flagVars, keyVars, shutdown, ready, loopVars, dataVars>>
    /\ UNCHANGED <<hub, released, faults>>

StartAttempt ==
    /\ main = "head" /\ GoesOn
    /\ attempt' = 1 - attempt
    /\ discard' = FALSE
    /\ main' = "episode"
    /\ UNCHANGED <<flagVars, key, shutdown, ready, recorded, blank, dataVars>>
    /\ UNCHANGED <<hub, released, faults>>

(* A tick of _policy_loop in which the policy has an action. *)
RecordFrame ==
    /\ main = "episode" /\ ready
    /\ buffer' = buffer \union {attempt}
    /\ UNCHANGED <<flagVars, keyVars, shutdown, ready, main, loopVars>>
    /\ UNCHANGED <<broken, saved, finalized, hub, released, faults>>

(* _policy_loop ends: exit_early, which is cleared, the shutdown event, or   *)
(* the time.  While the engine warms up the loop does not look at the time.  *)
EndEpisode ==
    /\ main = "episode"
    /\ \/ exitEarly /\ exitEarly' = FALSE
       \/ (shutdown \/ ready) /\ UNCHANGED exitEarly
    /\ blank' = (blank \/ buffer = {})
    /\ main' = "over"
    /\ UNCHANGED <<rerecord, stop, keyVars, shutdown, ready, attempt, recorded>>
    /\ UNCHANGED <<dataVars, hub, released, faults>>

(* Whether the environment is to be reset, and the handover to the leader or *)
(* back to the initial position.                                             *)
ChooseReset ==
    /\ main = "over"
    /\ main' = IF ~stop /\ (recorded < NumEpisodes - 1 \/ rerecord)
               THEN "reset" ELSE "check"
    /\ UNCHANGED <<flagVars, keyVars, shutdown, ready, loopVars, dataVars>>
    /\ UNCHANGED <<hub, released, faults>>

(* Mutant: a reset loop that ends early forgets the request to discard too. *)
EndResetForgetting ==
    /\ main = "reset"
    /\ \/ exitEarly /\ exitEarly' = FALSE /\ rerecord' = FALSE
       \/ UNCHANGED <<exitEarly, rerecord>>
    /\ main' = "check"
    /\ UNCHANGED <<stop, keyVars, shutdown, ready, loopVars, dataVars>>
    /\ UNCHANGED <<hub, released, faults>>

(* Mutant: the reset loop never looks at the time. *)
EndResetByHand ==
    /\ main = "reset"
    /\ \/ exitEarly /\ exitEarly' = FALSE
       \/ shutdown /\ UNCHANGED exitEarly
    /\ main' = "check"
    /\ UNCHANGED <<rerecord, stop, keyVars, shutdown, ready, loopVars, dataVars>>
    /\ UNCHANGED <<hub, released, faults>>

(* _reset_loop ends: exit_early, the shutdown event, or the time. *)
EndReset ==
    /\ main = "reset"
    /\ \/ exitEarly /\ exitEarly' = FALSE
       \/ UNCHANGED exitEarly
    /\ main' = "check"
    /\ UNCHANGED <<rerecord, stop, keyVars, shutdown, ready, loopVars, dataVars>>
    /\ UNCHANGED <<hub, released, faults>>

(* The attempt is kept, or the request to discard it is taken. *)
CheckRerecord ==
    /\ main = "check"
    /\ main' = IF rerecord THEN "discard" ELSE "save"
    /\ rerecord' = FALSE
    /\ UNCHANGED <<exitEarly, stop, keyVars, shutdown, ready, loopVars, dataVars>>
    /\ UNCHANGED <<hub, released, faults>>

(* Mutant: the frames of a discarded attempt stay in the buffer. *)
DiscardNothing ==
    /\ main = "discard"
    /\ exitEarly' = FALSE
    /\ main' = "head"
    /\ UNCHANGED <<rerecord, stop, keyVars, shutdown, ready, loopVars, dataVars>>
    /\ UNCHANGED <<hub, released, faults>>

(* Mutant: a discarded attempt counts as an episode. *)
DiscardCounted ==
    /\ main = "discard"
    /\ exitEarly' = FALSE
    /\ buffer' = {} /\ broken' = FALSE
    /\ recorded' = recorded + 1
    /\ main' = "head"
    /\ UNCHANGED <<rerecord, stop, keyVars, shutdown, ready, attempt, blank>>
    /\ UNCHANGED <<saved, finalized, hub, released, faults>>

(* exit_early is cleared once more, and the buffer. *)
DiscardAttempt ==
    /\ main = "discard"
    /\ exitEarly' = FALSE
    /\ buffer' = {} /\ broken' = FALSE
    /\ main' = "head"
    /\ UNCHANGED <<rerecord, stop, keyVars, shutdown, ready, loopVars>>
    /\ UNCHANGED <<saved, finalized, hub, released, faults>>

SaveEpisode ==
    /\ main = "save" /\ buffer # {}
    /\ buffer' = {} /\ saved' = saved + 1
    /\ recorded' = recorded + 1
    /\ main' = "head"
    /\ UNCHANGED <<flagVars, keyVars, shutdown, ready, attempt, blank>>
    /\ UNCHANGED <<broken, finalized, hub, released, faults>>

(* save_episode raises: without a frame always, otherwise by some failure    *)
(* half-way, which leaves a buffer that cannot be saved any more.            *)
SaveFails ==
    /\ main = "save"
    /\ \/ buffer = {} /\ UNCHANGED <<broken, faults>>
       \/ buffer # {} /\ CallFails /\ broken' = TRUE
    /\ main' = "closing"
    /\ UNCHANGED <<flagVars, keyVars, shutdown, ready, loopVars, buffer, saved>>
    /\ UNCHANGED <<finalized, hub, released>>

(* Any other call of the loop raises. *)
IterationFails ==
    /\ main \in {"episode", "over", "reset", "discard"} /\ CallFails
    /\ main' = "closing"
    /\ UNCHANGED <<flagVars, keyVars, shutdown, ready, loopVars, dataVars>>
    /\ UNCHANGED <<hub, released>>
-----------------------------------------------------------------------------
(* The end of the session: finally, and teardown.                          *)

(* Mutant: the attempt in progress is dropped. *)
CloseUnsaved ==
    /\ main = "closing"
    /\ main' = "finalize"
    /\ UNCHANGED <<flagVars, keyVars, shutdown, ready, loopVars, dataVars>>
    /\ UNCHANGED <<hub, released, faults>>

(* The attempt in progress is saved, if there is one and that is possible. *)
CloseEpisode ==
    /\ main = "closing"
    /\ \/ /\ buffer # {} /\ ~broken
          /\ buffer' = {} /\ saved' = saved + 1
          /\ UNCHANGED <<broken, faults>>
       \/ /\ buffer # {} /\ ~broken
          /\ CallFails /\ broken' = TRUE
          /\ UNCHANGED <<buffer, saved>>
       \/ /\ buffer = {} \/ broken
          /\ UNCHANGED <<buffer, saved, broken, faults>>
    /\ main' = "finalize"
    /\ UNCHANGED <<flagVars, keyVars, shutdown, ready, loopVars, finalized>>
    /\ UNCHANGED <<hub, released>>

(* VideoEncodingManager.__exit__, and again in teardown. *)
Finalize ==
    /\ main = "finalize"
    /\ finalized' = TRUE
    /\ main' = "push"
    /\ UNCHANGED <<flagVars, keyVars, shutdown, ready, loopVars>>
    /\ UNCHANGED <<buffer, broken, saved, hub, released, faults>>

(* Mutant: an episode saved at the end does not count for the push. *)
PushRecorded ==
    /\ main = "push"
    /\ IF PushToHub /\ recorded > 0 THEN hub' = saved ELSE UNCHANGED hub
    /\ main' = "release"
    /\ UNCHANGED <<flagVars, keyVars, shutdown, ready, loopVars, dataVars>>
    /\ UNCHANGED <<released, faults>>

(* safe_push_to_hub: skipped without a saved episode. *)
Push ==
    /\ main = "push"
    /\ \/ /\ ~PushToHub \/ saved = 0
          /\ main' = "release" /\ UNCHANGED <<hub, faults>>
       \/ /\ PushToHub /\ saved > 0
          /\ hub' = saved
          /\ main' = "release" /\ UNCHANGED faults
       \/ /\ PushToHub /\ saved > 0 /\ CallFails
          /\ main' = "ended" /\ UNCHANGED hub
    /\ UNCHANGED <<flagVars, keyVars, shutdown, ready, loopVars, dataVars, released>>

(* _teardown_hardware. *)
ReleaseHardware ==
    /\ main = "release"
    /\ released' = TRUE
    /\ main' = "ended"
    /\ UNCHANGED <<flagVars, keyVars, shutdown, ready, loopVars, dataVars>>
    /\ UNCHANGED <<hub, faults>>

Main ==
    \/ LoopEnds \/ StartAttempt \/ RecordFrame \/ EndEpisode \/ ChooseReset
    \/ EndReset \/ CheckRerecord \/ DiscardAttempt \/ SaveEpisode \/ SaveFails
    \/ CloseEpisode \/ Finalize \/ Push \/ ReleaseHardware

Terminated == main = "ended" /\ UNCHANGED vars

Next == Operator \/ EngineReady \/ Main \/ IterationFails \/ Terminated

Spec == Init /\ [][Next]_vars

(* The loops of the main thread watch the clock, and the compilation ends;   *)
(* the operator may do nothing, and nothing need fail.                       *)
FairSpec == Spec /\ WF_vars(Main) /\ WF_vars(EngineReady)
-----------------------------------------------------------------------------
(* Every variable keeps the type the code gives it, and no more is recorded  *)
(* than asked for.                                                           *)
TypeOK ==
    /\ exitEarly \in BOOLEAN /\ rerecord \in BOOLEAN /\ stop \in BOOLEAN
    /\ key \in {"idle", "pressed"} /\ discard \in BOOLEAN
    /\ shutdown \in BOOLEAN /\ ready \in BOOLEAN
    /\ main \in {"head", "episode", "over", "reset", "check", "discard", "save",
                 "closing", "finalize", "push", "release", "ended"}
    /\ attempt \in {0, 1} /\ recorded \in 0..NumEpisodes /\ blank \in BOOLEAN
    /\ buffer \in SUBSET {0, 1} /\ broken \in BOOLEAN
    /\ saved \in 0..NumEpisodes /\ finalized \in BOOLEAN
    /\ hub \in 0..NumEpisodes /\ released \in BOOLEAN
    /\ faults \in 0..MaxFaults

(* An episode is one attempt: frames of one that was discarded, or whose end *)
(* the main thread missed, are never recorded with those of the next.        *)
OneAttempt == buffer \subseteq {attempt}

(* "Discard episode and re-record it" (inference.mdx:188): an attempt is not  *)
(* saved once the operator asked to discard it, although the listener and     *)
(* the main thread set and clear the same flags.                              *)
DiscardHonoured == main = "save" => ~discard

(* "Records dataset.num_episodes episodes" (rollout/configs.py:129): only the *)
(* operator, a signal, a failed call or an attempt without a frame, which     *)
(* save_episode does not take, cut a session short; discarding does not.      *)
SessionComplete ==
    main = "ended" /\ ~stop /\ ~shutdown /\ faults = 0 /\ ~blank
        => saved = NumEpisodes

(* "so an unexpected exception or KeyboardInterrupt does not silently drop    *)
(* recorded data" (episodic.py:193): nothing is left in the buffer when the   *)
(* dataset is finalized, unless saving it had failed.                         *)
FramesSaved == finalized => buffer = {} \/ broken

(* Whatever the keys do, a session ends unless attempts are discarded for     *)
(* ever: no stale flag keeps the main thread in a loop.                       *)
SessionEnds == <>[](~rerecord) => <>(main = "ended")

(* The session keeps the promise of EpisodeStore: the Hub gets the whole of   *)
(* what is saved, an attempt saved after a failure too; only when the push    *)
(* itself fails, which keeps the hardware too, is an episode missing.         *)
Store == INSTANCE EpisodeStore WITH
             open <- main # "ended",
             excused <- (main = "ended" /\ ~released) \/ ~PushToHub
StoreSpec == Store!Spec
=============================================================================
