-------------------------------- MODULE Dagger --------------------------------
(***************************************************************************)
(* The DAgger rollout strategy (rollout/strategies/dagger.py): the policy  *)
(* drives the robot until the operator pauses it and takes over, and what  *)
(* is recorded becomes episodes of a dataset that is pushed to the Hub.    *)
(*                                                                         *)
(* Three threads meet here.  The operator's keys go through the slots of   *)
(* DAggerEvents; the main loop applies them, records and saves episodes;   *)
(* a single worker pushes the dataset.  Saving and pushing exclude each    *)
(* other by the episode lock.                                              *)
(*                                                                         *)
(* The dataset is external: it counts the saved episodes, and whether the  *)
(* episode buffer holds frames, none, or the remains of a failed save.     *)
(* The Hub has the episodes of the last upload, whose files are readable   *)
(* only when it was made after finalize().                                 *)
(*                                                                         *)
(* Of the two arms the model keeps how far they are apart: anywhere, at    *)
(* the same place, as far as the leader moved since they met, or following *)
(* each other from one tick to the next.                                   *)
(***************************************************************************)
EXTENDS Integers

CONSTANTS
    Modes,          \* the values of record_autonomous to consider
    Leaders,        \* the kinds of leader arms to consider
    NumEpisodes,    \* num_episodes; with record_autonomous only a bound
    UploadEvery,    \* upload_every_n_episodes
    Stride,         \* record_stride, from interpolation_multiplier
    PushToHub,      \* dataset.push_to_hub
    MaxQueued,      \* bound: pushes waiting when one is requested
    MaxFaults       \* bound: calls of robot, dataset or Hub that fail

(* teleop_supports_feedback: an actuated leader can be driven and held; one  *)
(* whose keys the robot's processors rename is held but driven nowhere.      *)
Kinds == {"passive", "actuated", "renamed"}

ASSUME ConfigAssumption ==
    /\ Modes \subseteq BOOLEAN /\ Leaders \subseteq Kinds
    /\ NumEpisodes \in Nat /\ UploadEvery \in Nat
    /\ Stride \in Nat \ {0}
    /\ PushToHub \in BOOLEAN
    /\ MaxQueued \in Nat /\ MaxFaults \in Nat

VARIABLES
    continuous,     \* record_autonomous
    leader,         \* the kind of the leader arm
    phase,          \* DAggerEvents._phase
    pending,        \* DAggerEvents._pending_transition
    uploadReq,      \* DAggerEvents.upload_requested
    stop,           \* stop_recording, the shutdown event or the duration limit
    main,           \* where the main thread is
    from,           \* old_phase of the transition being applied
    site,           \* which save_episode call the main thread is at
    active,         \* the inference engine is not paused
    lastAction,     \* last_action is not None
    arms,           \* how far leader and follower are apart
    tick,           \* record_tick % record_stride
    recorded,       \* recorded of the corrections-only mode
    since,          \* episodes_since_push of the continuous mode
    buffer,         \* the dataset's episode buffer
    saved,          \* dataset.num_episodes
    finalized,      \* dataset.finalize() was called
    needsPush,      \* _needs_push
    lock,           \* who holds _episode_lock
    queued,         \* pushes submitted and not started
    push,           \* where the worker is
    hub,            \* episodes of the last upload
    sealed,         \* its files were closed by finalize()
    released,       \* the engine is stopped and the hardware disconnected
    faults          \* history: calls that failed

modeVars == <<continuous, leader>>
eventVars == <<phase, pending, uploadReq, stop>>
armVars == <<active, lastAction, arms>>
countVars == <<tick, recorded, since>>
dataVars == <<buffer, saved, finalized>>
pushVars == <<queued, push>>
hubVars == <<hub, sealed>>
vars == <<modeVars, eventVars, main, from, site, armVars, countVars, dataVars,
          needsPush, lock, pushVars, hubVars, released, faults>>
-----------------------------------------------------------------------------

Phases == {"autonomous", "paused", "correcting"}

(* _DAGGER_TRANSITIONS: the phase an event leads to from each phase that     *)
(* takes it.                                                                 *)
Successor(p, event) ==
    CASE p = "autonomous" /\ event = "pause_resume" -> "paused"
      [] p = "paused" /\ event = "pause_resume" -> "autonomous"
      [] p = "paused" /\ event = "correction" -> "correcting"
      [] p = "correcting" /\ event = "correction" -> "paused"
      [] OTHER -> "none"

(* setup, and run up to its loop: the engine was reset and resumed. *)
Init ==
    /\ continuous \in Modes /\ leader \in Leaders
    /\ phase = "autonomous" /\ pending = "none"
    /\ uploadReq = FALSE /\ stop = FALSE
    /\ main = "head" /\ from = "autonomous" /\ site = "rotation"
    /\ active = TRUE /\ lastAction = FALSE /\ arms = "apart"
    /\ tick = 0 /\ recorded = 0 /\ since = 0
    /\ buffer = "empty" /\ saved = 0 /\ finalized = FALSE
    /\ needsPush = FALSE /\ lock = "free"
    /\ queued = 0 /\ push = "idle" /\ hub = 0 /\ sealed = FALSE
    /\ released = FALSE /\ faults = 0

(* A call of the robot, the dataset or the Hub raises. *)
CallFails == faults < MaxFaults /\ faults' = faults + 1
-----------------------------------------------------------------------------
(* The operator: keyboard or pedal threads, until the listener is stopped. *)

Listening == main \notin {"join", "final", "release", "ended"}

(* request_transition: one slot, and only requests the phase allows. *)
RequestTransition(event) ==
    /\ Successor(phase, event) # "none"
    /\ pending' = event
    /\ UNCHANGED <<phase, uploadReq, stop>>

RequestUpload ==
    /\ queued < MaxQueued
    /\ uploadReq' = TRUE
    /\ UNCHANGED <<phase, pending, stop>>

RequestStop ==
    /\ stop' = TRUE
    /\ UNCHANGED <<phase, pending, uploadReq>>

PressKey ==
    /\ Listening
    /\ \/ \E event \in {"pause_resume", "correction"} : RequestTransition(event)
       \/ RequestUpload
       \/ RequestStop
    /\ UNCHANGED <<modeVars, main, from, site, armVars, countVars, dataVars>>
    /\ UNCHANGED <<needsPush, lock, pushVars, hubVars, released, faults>>

(* Torque holds a leader while PAUSED once the pause found an action to meet; *)
(* what a transition does to it comes when the transition is applied.         *)
Actuated == leader # "passive"

Held ==
    /\ Actuated /\ lastAction
    /\ IF main = "apply" THEN from = "paused" ELSE phase = "paused"

Correcting == IF main = "apply" THEN from = "correcting" ELSE phase = "correcting"

(* The operator moves a leader that nothing holds, in the second a slide      *)
(* takes too.  What the follower repeats at the next tick changes nothing.    *)
MoveLeader ==
    /\ ~Held
    /\ arms = "followed" => ~Correcting \/ main = "apply"
    /\ arms' = IF Correcting /\ arms # "apart" THEN "shifted" ELSE "apart"
    /\ UNCHANGED <<modeVars, eventVars, main, from, site, active, lastAction>>
    /\ UNCHANGED <<countVars, dataVars, needsPush, lock, pushVars, hubVars>>
    /\ UNCHANGED <<released, faults>>

Operator == PressKey \/ MoveLeader
-----------------------------------------------------------------------------
(* The main thread: _run_continuous and _run_corrections_only.             *)

(* Mutant: the loop looks at its target only. *)
TargetReached == ~continuous /\ recorded >= NumEpisodes

(* The loop condition does not hold any more. *)
Ending == stop \/ (~continuous /\ recorded >= NumEpisodes)

LoopEnds ==
    /\ main = "head" /\ Ending
    /\ main' = "pausing"
    /\ UNCHANGED <<modeVars, eventVars, from, site, armVars, countVars>>
    /\ UNCHANGED <<dataVars, needsPush, lock, pushVars, hubVars, released, faults>>

(* consume_transition, under the lock of the events. *)
ConsumeTransition ==
    /\ main = "head" /\ ~Ending
    /\ LET next == Successor(phase, pending)
       IN IF next = "none"
          THEN /\ main' = IF continuous THEN "work" ELSE "upload"
               /\ UNCHANGED <<phase, from>>
          ELSE phase' = next /\ from' = phase /\ main' = "apply"
    /\ pending' = "none"
    /\ UNCHANGED <<modeVars, uploadReq, stop, site, armVars, countVars>>
    /\ UNCHANGED <<dataVars, needsPush, lock, pushVars, hubVars, released, faults>>

(* AUTONOMOUS -> PAUSED: an actuated leader is driven to where the follower  *)
(* was last sent, which does nothing when the keys are renamed.              *)
PauseEngine ==
    /\ from = "autonomous"
    /\ active' = FALSE
    /\ arms' = IF leader = "actuated" /\ lastAction THEN "met" ELSE arms
    /\ UNCHANGED lastAction

(* The follower slides to a leader that cannot be driven. *)
Slides == phase = "correcting" /\ ~Actuated /\ lastAction

(* Mutant: the follower does not meet a leader that cannot be driven. *)
StartWithoutSlide ==
    /\ phase = "correcting"
    /\ UNCHANGED <<active, lastAction, arms>>

(* PAUSED -> CORRECTING: the pose to slide to is read once, before the slide; *)
(* a leader that was held where the follower is has not moved since.          *)
StartCorrection ==
    /\ phase = "correcting"
    /\ arms' = IF Slides \/ arms = "followed" THEN "met" ELSE arms
    /\ UNCHANGED <<active, lastAction>>

(* CORRECTING -> PAUSED: an actuated leader holds its position. *)
EndCorrection ==
    /\ from = "correcting"
    /\ UNCHANGED <<active, lastAction, arms>>

(* PAUSED -> AUTONOMOUS: the engine is reset and resumed. *)
ResumePolicy ==
    /\ phase = "autonomous"
    /\ active' = TRUE /\ lastAction' = FALSE
    /\ UNCHANGED arms

(* What follows a transition when there is no correction to save. *)
AfterTransition == IF continuous THEN "work" ELSE "upload"

(* _apply_transition; a correction that ended is then saved. *)
ApplyTransition ==
    /\ main = "apply"
    /\ PauseEngine \/ StartCorrection \/ EndCorrection \/ ResumePolicy
    /\ IF ~continuous /\ from = "correcting"
       THEN main' = "lock" /\ site' = "correction"
       ELSE /\ main' = IF Slides THEN "slide" ELSE AfterTransition
            /\ UNCHANGED site
    /\ UNCHANGED <<modeVars, eventVars, from, countVars, dataVars>>
    /\ UNCHANGED <<needsPush, lock, pushVars, hubVars, released, faults>>

(* follower_smooth_move_to has sent the last of its interpolated actions. *)
EndSlide ==
    /\ main = "slide"
    /\ main' = AfterTransition
    /\ UNCHANGED <<modeVars, eventVars, from, site, armVars, countVars, dataVars>>
    /\ UNCHANGED <<needsPush, lock, pushVars, hubVars, released, faults>>

(* _background_push: skipped while a correction is being recorded. *)
Submit == queued' = IF phase = "correcting" THEN queued ELSE queued + 1

(* The upload key, in the corrections-only mode. *)
CheckUpload ==
    /\ main = "upload"
    /\ IF uploadReq THEN Submit ELSE UNCHANGED queued
    /\ uploadReq' = FALSE
    /\ main' = "work"
    /\ UNCHANGED <<modeVars, phase, pending, stop, from, site, armVars>>
    /\ UNCHANGED <<countVars, dataVars, needsPush, lock, push, hubVars>>
    /\ UNCHANGED <<released, faults>>

(* dataset.add_frame on one tick in record_stride. *)
RecordFrame ==
    /\ buffer' = IF tick = 0 THEN "frames" ELSE buffer
    /\ tick' = (tick + 1) % Stride

(* What follows the work of an iteration. *)
EndOfWork == IF continuous THEN "rotate" ELSE "head"

(* CORRECTING: the follower does what the leader does, and it is recorded. *)
FollowLeader ==
    /\ main = "work" /\ phase = "correcting"
    /\ RecordFrame
    /\ lastAction' = TRUE /\ arms' = "followed"
    /\ main' = EndOfWork
    /\ UNCHANGED <<modeVars, eventVars, from, site, active, recorded, since>>
    /\ UNCHANGED <<saved, finalized, needsPush, lock, pushVars, hubVars>>
    /\ UNCHANGED <<released, faults>>

(* PAUSED: the robot holds its position. *)
HoldPosition ==
    /\ main = "work" /\ phase = "paused"
    /\ main' = EndOfWork
    /\ UNCHANGED <<modeVars, eventVars, from, site, armVars, countVars, dataVars>>
    /\ UNCHANGED <<needsPush, lock, pushVars, hubVars, released, faults>>

(* AUTONOMOUS: the policy has no action yet (and during warmup the rest of   *)
(* the iteration is skipped), or it acts.                                    *)
PolicyTick ==
    /\ main = "work" /\ phase = "autonomous"
    /\ \/ main' \in {"head", EndOfWork}
          /\ UNCHANGED <<lastAction, arms, buffer, tick>>
       \/ /\ lastAction' = TRUE /\ arms' = "apart"
          /\ IF continuous THEN RecordFrame ELSE UNCHANGED <<buffer, tick>>
          /\ main' = EndOfWork
    /\ UNCHANGED <<modeVars, eventVars, from, site, active, recorded, since>>
    /\ UNCHANGED <<saved, finalized, needsPush, lock, pushVars, hubVars>>
    /\ UNCHANGED <<released, faults>>

(* The episode rotation of the continuous mode, when its time has come. *)
Rotate ==
    /\ main = "rotate"
    /\ \/ main' = "head" /\ UNCHANGED site
       \/ /\ phase # "correcting" /\ saved < NumEpisodes
          /\ main' = "lock" /\ site' = "rotation"
    /\ UNCHANGED <<modeVars, eventVars, from, armVars, countVars, dataVars>>
    /\ UNCHANGED <<needsPush, lock, pushVars, hubVars, released, faults>>
-----------------------------------------------------------------------------
(* Saving an episode, at any of the three places that do it.               *)

(* Mutant: a correction is not saved while a push holds the lock. *)
TryEpisodeLock ==
    /\ main = "lock"
    /\ \/ lock = "free" /\ lock' = "main" /\ main' = "save"
       \/ lock = "push" /\ site # "final" /\ main' = "work" /\ UNCHANGED lock
    /\ UNCHANGED <<modeVars, eventVars, from, site, armVars, countVars, dataVars>>
    /\ UNCHANGED <<needsPush, pushVars, hubVars, released, faults>>

TakeEpisodeLock ==
    /\ main = "lock" /\ lock = "free"
    /\ lock' = "main"
    /\ main' = "save"
    /\ UNCHANGED <<modeVars, eventVars, from, site, armVars, countVars, dataVars>>
    /\ UNCHANGED <<needsPush, pushVars, hubVars, released, faults>>

SaveEpisode ==
    /\ main = "save" /\ buffer = "frames"
    /\ buffer' = "empty" /\ saved' = saved + 1
    /\ lock' = "free"
    /\ main' = "saved"
    /\ UNCHANGED <<modeVars, eventVars, from, site, armVars, countVars, finalized>>
    /\ UNCHANGED <<needsPush, pushVars, hubVars, released, faults>>

(* Where an exception leads: out of the loop, or on, where it is suppressed. *)
AfterFailure == IF site = "final" THEN "finalize" ELSE "pausing"

(* Mutant: the episode lock is not released when saving raises. *)
SaveFailsHoldingLock ==
    /\ main = "save"
    /\ \/ buffer # "frames" /\ UNCHANGED <<buffer, faults>>
       \/ buffer = "frames" /\ CallFails /\ buffer' = "broken"
    /\ main' = AfterFailure
    /\ UNCHANGED <<modeVars, eventVars, from, site, armVars, countVars, saved>>
    /\ UNCHANGED <<finalized, needsPush, lock, pushVars, hubVars, released>>

(* save_episode raises: without a frame always, otherwise by some failure    *)
(* half-way, which leaves a buffer that cannot be saved any more.            *)
SaveFails ==
    /\ main = "save"
    /\ \/ buffer # "frames" /\ UNCHANGED <<buffer, faults>>
       \/ buffer = "frames" /\ CallFails /\ buffer' = "broken"
    /\ lock' = "free"
    /\ main' = AfterFailure
    /\ UNCHANGED <<modeVars, eventVars, from, site, armVars, countVars, saved>>
    /\ UNCHANGED <<finalized, needsPush, pushVars, hubVars, released>>

(* The counters, and in the continuous mode a push every                     *)
(* upload_every_n_episodes.                                                  *)
CountEpisode ==
    \/ /\ site = "correction"
       /\ recorded' = recorded + 1 /\ main' = "upload"
       /\ UNCHANGED <<since, queued>>
    \/ /\ site = "rotation"
       /\ IF since + 1 >= UploadEvery
          THEN since' = 0 /\ Submit
          ELSE since' = since + 1 /\ UNCHANGED queued
       /\ main' = "head"
       /\ UNCHANGED recorded
    \/ site = "final" /\ main' = "finalize" /\ UNCHANGED <<since, recorded, queued>>

(* After the lock is released: _needs_push.set(). *)
MarkNeedsPush ==
    /\ main = "saved"
    /\ needsPush' = TRUE
    /\ CountEpisode
    /\ UNCHANGED <<modeVars, eventVars, from, site, armVars, tick, dataVars>>
    /\ UNCHANGED <<lock, push, hubVars, released, faults>>
-----------------------------------------------------------------------------
(* The end of the session.                                                 *)

(* A call in the loop raises. *)
IterationFails ==
    /\ main \in {"apply", "slide", "work"} /\ CallFails
    /\ main' = "pausing"
    /\ UNCHANGED <<modeVars, eventVars, from, site, armVars, countVars, dataVars>>
    /\ UNCHANGED <<needsPush, lock, pushVars, hubVars, released>>

(* finally: the engine is paused and the episode in progress saved. *)
LeaveLoop ==
    /\ main = "pausing"
    /\ active' = FALSE
    /\ main' = "lock" /\ site' = "final"
    /\ UNCHANGED <<modeVars, eventVars, from, lastAction, arms, countVars>>
    /\ UNCHANGED <<dataVars, needsPush, lock, pushVars, hubVars, released, faults>>

(* VideoEncodingManager.__exit__, which does not take the episode lock. *)
Finalize ==
    /\ main = "finalize"
    /\ finalized' = TRUE
    /\ main' = "join"
    /\ UNCHANGED <<modeVars, eventVars, from, site, armVars, countVars, buffer, saved>>
    /\ UNCHANGED <<needsPush, lock, pushVars, hubVars, released, faults>>

(* teardown: the executor finishes every push that was submitted. *)
JoinPusher ==
    /\ main = "join" /\ queued = 0 /\ push = "idle"
    /\ main' = "final"
    /\ UNCHANGED <<modeVars, eventVars, from, site, armVars, countVars, dataVars>>
    /\ UNCHANGED <<needsPush, lock, pushVars, hubVars, released, faults>>

(* Mutant: the last push is left to the pushes in the background. *)
NoFinalPush ==
    /\ main = "final"
    /\ main' = "release"
    /\ UNCHANGED <<modeVars, eventVars, from, site, armVars, countVars, dataVars>>
    /\ UNCHANGED <<needsPush, lock, pushVars, hubVars, released, faults>>

(* teardown: the last push, when anything was saved since the former one. *)
FinalPush ==
    /\ main = "final"
    /\ \/ /\ ~(needsPush /\ PushToHub)
          /\ main' = "release" /\ UNCHANGED <<hubVars, faults>>
       \/ /\ needsPush /\ PushToHub
          /\ hub' = saved /\ sealed' = finalized
          /\ main' = "release" /\ UNCHANGED faults
       \/ /\ needsPush /\ PushToHub /\ CallFails
          /\ main' = "ended" /\ UNCHANGED hubVars
    /\ UNCHANGED <<modeVars, eventVars, from, site, armVars, countVars, dataVars>>
    /\ UNCHANGED <<needsPush, lock, pushVars, released>>

(* _teardown_hardware: the engine is stopped, the robot disconnected. *)
ReleaseHardware ==
    /\ main = "release"
    /\ released' = TRUE /\ active' = FALSE
    /\ main' = "ended"
    /\ UNCHANGED <<modeVars, eventVars, from, site, lastAction, arms, countVars>>
    /\ UNCHANGED <<dataVars, needsPush, lock, pushVars, hubVars, faults>>

Main ==
    \/ LoopEnds \/ ConsumeTransition \/ ApplyTransition \/ EndSlide \/ CheckUpload
    \/ FollowLeader \/ HoldPosition \/ PolicyTick \/ Rotate
    \/ TakeEpisodeLock \/ SaveEpisode \/ SaveFails \/ MarkNeedsPush
    \/ LeaveLoop \/ Finalize \/ JoinPusher
    \/ FinalPush \/ ReleaseHardware
-----------------------------------------------------------------------------
(* The worker of the push executor.                                        *)

StartPush ==
    /\ push = "idle" /\ queued > 0
    /\ queued' = queued - 1
    /\ push' = "waiting"
    /\ UNCHANGED <<modeVars, eventVars, main, from, site, armVars, countVars>>
    /\ UNCHANGED <<dataVars, needsPush, lock, hubVars, released, faults>>

LockForPush ==
    /\ push = "waiting" /\ lock = "free"
    /\ lock' = "push"
    /\ push' = "locked"
    /\ UNCHANGED <<modeVars, eventVars, main, from, site, armVars, countVars>>
    /\ UNCHANGED <<dataVars, needsPush, queued, hubVars, released, faults>>

(* safe_push_to_hub: what is in the dataset's directory is uploaded, with    *)
(* the parquet files still open unless the dataset is finalized.             *)
Upload ==
    /\ push = "locked" /\ saved > 0
    /\ hub' = saved /\ sealed' = finalized
    /\ push' = "uploaded"
    /\ UNCHANGED <<modeVars, eventVars, main, from, site, armVars, countVars>>
    /\ UNCHANGED <<dataVars, needsPush, lock, queued, released, faults>>

(* Nothing to upload, or the upload fails. *)
PushEndsInVain ==
    /\ push = "locked"
    /\ \/ saved = 0 /\ UNCHANGED faults
       \/ saved > 0 /\ CallFails
    /\ lock' = "free"
    /\ push' = "idle"
    /\ UNCHANGED <<modeVars, eventVars, main, from, site, armVars, countVars>>
    /\ UNCHANGED <<dataVars, needsPush, queued, hubVars, released>>

ClearNeedsPush ==
    /\ push = "uploaded"
    /\ needsPush' = FALSE
    /\ lock' = "free"
    /\ push' = "idle"
    /\ UNCHANGED <<modeVars, eventVars, main, from, site, armVars, countVars>>
    /\ UNCHANGED <<dataVars, queued, hubVars, released, faults>>

Pusher == StartPush \/ LockForPush \/ Upload \/ PushEndsInVain \/ ClearNeedsPush

Terminated == main = "ended" /\ UNCHANGED vars

Next == Operator \/ Main \/ IterationFails \/ Pusher \/ Terminated

Spec == Init /\ [][Next]_vars

(* The main loop iterates whatever the operator does, and the worker runs    *)
(* what was submitted: an upload ends, well or with an exception.            *)
FairSpec == Spec /\ WF_vars(Main) /\ WF_vars(Pusher)
-----------------------------------------------------------------------------
Sites == {"rotation", "correction", "final"}

(* Every variable keeps the type the code gives it; the main thread has the  *)
(* episode lock exactly while it saves.                                      *)
TypeOK ==
    /\ continuous \in Modes /\ leader \in Leaders
    /\ phase \in Phases /\ from \in Phases
    /\ pending \in {"none", "pause_resume", "correction"}
    /\ uploadReq \in BOOLEAN /\ stop \in BOOLEAN
    /\ main \in {"head", "apply", "slide", "lock", "save", "saved", "upload", "work",
                 "rotate", "pausing", "finalize", "join", "final", "release", "ended"}
    /\ site \in Sites
    /\ active \in BOOLEAN /\ lastAction \in BOOLEAN
    /\ arms \in {"apart", "met", "shifted", "followed"}
    /\ tick \in 0..(Stride - 1) /\ recorded \in Nat /\ since \in Nat
    /\ buffer \in {"empty", "frames", "broken"}
    /\ saved \in Nat /\ finalized \in BOOLEAN /\ needsPush \in BOOLEAN
    /\ lock \in {"free", "main", "push"} /\ (lock = "main" <=> main = "save")
    /\ queued \in Nat /\ push \in {"idle", "waiting", "locked", "uploaded"}
    /\ hub \in Nat /\ sealed \in BOOLEAN /\ released \in BOOLEAN
    /\ faults \in 0..MaxFaults

(* "Only enqueues the request if it corresponds to a valid transition"        *)
(* (dagger.py:132): the request waiting is valid in the phase that will       *)
(* consume it, not just in the one it was made in.                            *)
PendingValid == pending # "none" => Successor(phase, pending) # "none"

(* When the human drives, the policy is paused and the arms were brought      *)
(* together in this handover: what the first action makes up for is at most   *)
(* what the leader moved since.  That is not the "meets the operator's hand   *)
(* rather than jumping" of dagger.py:644-645: the pose is read before the     *)
(* slide and the first frame reads another after it, so arms may be shifted.  *)
(* Excepted are a policy paused before its first action, which leaves nothing *)
(* to meet, and a leader with renamed keys, which "silently no-ops"           *)
(* (dagger.py:665).                                                           *)
SmoothTakeover ==
    main = "work" /\ phase = "correcting"
        => ~active /\ (lastAction /\ leader # "renamed" => arms # "apart")

(* The frames of a correction do not wait in the buffer for the next one:     *)
(* each correction is an episode of its own, whatever the pusher does.        *)
CorrectionsSeparate ==
    ~continuous /\ buffer = "frames" /\ main \in {"head", "upload", "work"}
        => phase = "correcting"

(* The pusher clears _needs_push under the lock, the main thread sets it      *)
(* after releasing it: no saved episode is ever forgotten by both.            *)
NothingForgotten == ~needsPush /\ main # "saved" => hub = saved

(* The session keeps the promise of EpisodeStore, of what is sent: the Hub    *)
(* is only ever sent all that is saved, nothing is saved after the last push, *)
(* and "Flush any queued/running push cleanly" (dagger.py:291) with the push  *)
(* that follows it (300-307) leave no episode unsent, whatever failed before; *)
(* only when that push fails, which keeps the hardware too, is an episode     *)
(* missing.  Whether what was sent can be read is another matter: see         *)
(* HubReadable.                                                               *)
Store == INSTANCE EpisodeStore WITH
             open <- main # "ended",
             excused <- (main = "ended" /\ ~released) \/ ~PushToHub
StoreSpec == Store!Spec

(* Without finalize() "the dataset will be invalid" (lerobot_dataset.py:      *)
(* 463-464), so the files that stay on the Hub should be those of a finalized *)
(* dataset.  They are when an episode was still unsent at finalize(),         *)
(* whatever the worker does then, unless the last push fails.  They are not   *)
(* when a push in the background had taken every episode before: it cleared   *)
(* the flag the push after finalize() depends on.                             *)
HubReadable ==
    PushToHub /\ finalized /\ hub < saved
        ~> sealed \/ (main = "ended" /\ ~released)

(* No recorded frame is left unsaved when the dataset is finalized, although  *)
(* the loop ends anywhere and its exceptions are suppressed; a save that      *)
(* failed is the exception.                                                   *)
FramesSaved == finalized => buffer # "frames"

(* A session asked to stop ends: neither the episode lock nor the wait for    *)
(* the executor holds up the main thread for ever.                            *)
SessionEnds == stop ~> main = "ended"

=============================================================================
