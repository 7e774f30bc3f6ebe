------------------------------- MODULE Highlight -------------------------------
(***************************************************************************)
(* The highlight rollout strategy (rollout/strategies/highlight.py) with   *)
(* its ring buffer (rollout/ring_buffer.py).  The policy drives the robot  *)
(* and the last frames are kept in memory.  The save key writes them to    *)
(* the dataset and records on, until it is pressed again.                  *)
(*                                                                         *)
(* The main loop meets the thread of the keys by two events and the worker *)
(* that pushes the dataset by the episode lock.  A frame is the number of  *)
(* its action; all have the same size, which is the unit of the ring's     *)
(* account of bytes.  The dataset is external, as in Dagger.               *)
(***************************************************************************)
EXTENDS Integers, SequencesExt

CONSTANTS
    MaxLen,         \* ring_buffer_seconds * fps
    Fits,           \* the numbers of frames max_memory_mb may hold, rounded down
    PushToHub,      \* dataset.push_to_hub
    MaxFrames,      \* bound: actions of the policy
    MaxQueued,      \* bound: pushes waiting when one is requested
    MaxFaults       \* bound: calls of robot, dataset or Hub that fail

ASSUME HighlightAssumption ==
    /\ MaxLen \in Nat /\ Fits \subseteq Nat /\ PushToHub \in BOOLEAN
    /\ MaxFrames \in Nat /\ MaxQueued \in Nat /\ MaxFaults \in Nat

VARIABLES
    fit,            \* _max_bytes of the ring, in frames
    ring,           \* _buffer of the ring
    account,        \* _current_bytes of the ring
    saveReq,        \* _save_requested
    pushReq,        \* _push_requested
    escaping,       \* the thread of the keys is between the assignments of ESC
    stop,           \* the shutdown event or the duration limit
    main,           \* where the main thread is
    live,           \* _recording_live
    frame,          \* the last frame
    buffer,         \* the frames of the dataset's episode buffer
    broken,         \* a frame or a save failed: the buffer cannot be saved
    episodes,       \* the frames of each saved episode
    finalized,      \* dataset.finalize() was called
    lock,           \* who holds _episode_lock
    queued,         \* pushes submitted and not started
    push,           \* where the worker is
    hub,            \* episodes of the last upload
    hubFinal,       \* the last upload was of a finalized dataset
    released,       \* the engine is stopped and the hardware disconnected
    pressed,        \* history: the oldest frame there was when save was pressed
    faults          \* history: calls that failed

ringVars == <<fit, ring, account>>
keyVars == <<saveReq, pushReq, escaping, stop, pressed>>
dataVars == <<buffer, broken, episodes, finalized>>
pushVars == <<queued, push>>
hubVars == <<hub, hubFinal>>
vars == <<ringVars, keyVars, main, live, frame, dataVars, lock, pushVars, hubVars,
          released, faults>>

(* setup, and run up to its loop. *)
Init ==
    /\ fit \in Fits /\ ring = <<>> /\ account = 0
    /\ saveReq = FALSE /\ pushReq = FALSE /\ escaping = FALSE /\ stop = FALSE
    /\ main = "tick" /\ live = FALSE /\ frame = 0
    /\ buffer = <<>> /\ broken = FALSE /\ episodes = <<>> /\ finalized = FALSE
    /\ lock = "free" /\ queued = 0 /\ push = "idle"
    /\ hub = 0 /\ hubFinal = FALSE /\ released = FALSE
    /\ pressed = 0 /\ faults = 0

(* A call of the robot, the dataset or the Hub raises. *)
CallFails == faults < MaxFaults /\ faults' = faults + 1
-----------------------------------------------------------------------------
(* RolloutRingBuffer.                                                      *)

(* How many of the oldest frames go before a new one fits, by the account.   *)
Evicted == Min({Len(ring), Max({0, account + 1 - fit})})

(* A deque with maxlen drops its oldest element when it is full. *)
DequeAppend(q, x) ==
    IF MaxLen = 0 THEN <<>>
    ELSE IF Len(q) = MaxLen THEN Append(Tail(q), x)
    ELSE Append(q, x)

(* Mutant: what is evicted stays in the account. *)
AppendCounting ==
    /\ ring' = DequeAppend(SubSeq(ring, Evicted + 1, Len(ring)), frame)
    /\ account' = account + 1
    /\ UNCHANGED fit

(* append: frames go until the account allows one more; what the deque drops *)
(* itself stays in the account.                                              *)
AppendToRing ==
    /\ ring' = DequeAppend(SubSeq(ring, Evicted + 1, Len(ring)), frame)
    /\ account' = account - Evicted + 1
    /\ UNCHANGED fit

EmptyRing == ring' = <<>> /\ account' = 0 /\ UNCHANGED fit
-----------------------------------------------------------------------------
(* The thread of the keys, until the listener is stopped, and signals.     *)

Listening == main \notin {"join", "final", "release", "ended"}

PressSave ==
    /\ saveReq' = TRUE
    /\ pressed' = IF saveReq THEN pressed ELSE IF ring = <<>> THEN frame ELSE Head(ring)
    /\ UNCHANGED <<pushReq, escaping, stop>>

PressPush ==
    /\ queued < MaxQueued
    /\ pushReq' = TRUE
    /\ UNCHANGED <<saveReq, escaping, stop, pressed>>

(* ESC clears the request to save, then sets the shutdown event. *)
PressEscape ==
    /\ saveReq' = FALSE /\ escaping' = TRUE
    /\ UNCHANGED <<pushReq, stop, pressed>>

FinishEscape ==
    /\ escaping
    /\ stop' = TRUE /\ escaping' = FALSE
    /\ UNCHANGED <<saveReq, pushReq, pressed>>

(* A signal, or the time of the session is over. *)
Interrupt == stop' = TRUE /\ UNCHANGED <<saveReq, pushReq, escaping, pressed>>

Operator ==
    /\ Listening
    /\ \/ ~escaping /\ (PressSave \/ PressPush \/ PressEscape)
       \/ FinishEscape
       \/ Interrupt
    /\ UNCHANGED <<ringVars, main, live, frame, dataVars, lock, pushVars, hubVars>>
    /\ UNCHANGED <<released, faults>>
-----------------------------------------------------------------------------
(* The main thread: run.                                                   *)

(* Mutant: an episode that is being recorded holds up the end. *)
LoopEndsRecorded ==
    /\ main = "tick" /\ stop /\ ~live
    /\ main' = "closing"
    /\ UNCHANGED <<ringVars, keyVars, live, frame, dataVars, lock, pushVars>>
    /\ UNCHANGED <<hubVars, released, faults>>

LoopEnds ==
    /\ main = "tick" /\ stop
    /\ main' = "closing"
    /\ UNCHANGED <<ringVars, keyVars, live, frame, dataVars, lock, pushVars>>
    /\ UNCHANGED <<hubVars, released, faults>>

(* The policy has an action, and there is a frame. *)
NextFrame ==
    /\ main = "tick" /\ ~stop /\ frame < MaxFrames
    /\ frame' = frame + 1
    /\ main' = "frame"
    /\ UNCHANGED <<ringVars, keyVars, live, dataVars, lock, pushVars, hubVars>>
    /\ UNCHANGED <<released, faults>>

(* The request is taken: is_set() and clear() are one step, for a press      *)
(* between them is as lost as one before them.                               *)
TakeRequest ==
    /\ main = "frame" /\ saveReq
    /\ saveReq' = FALSE
    /\ UNCHANGED <<pushReq, escaping, stop, pressed>>

(* Mutant: the newest frame of the ring is written first. *)
StartLiveNewest ==
    /\ TakeRequest /\ ~live
    /\ buffer' = buffer \o Reverse(ring)
    /\ EmptyRing
    /\ live' = TRUE
    /\ main' = "route"
    /\ UNCHANGED <<frame, broken, episodes, finalized, lock, pushVars, hubVars>>
    /\ UNCHANGED <<released, faults>>

(* Mutant: the ring is cleared instead of drained. *)
StartLiveAnew ==
    /\ TakeRequest /\ ~live
    /\ EmptyRing
    /\ live' = TRUE
    /\ main' = "route"
    /\ UNCHANGED <<frame, buffer, broken, episodes, finalized, lock, pushVars, hubVars>>
    /\ UNCHANGED <<released, faults>>

(* The ring is flushed to the dataset, and recording is live. *)
StartLive ==
    /\ TakeRequest /\ ~live
    /\ buffer' = buffer \o ring
    /\ EmptyRing
    /\ live' = TRUE
    /\ main' = "route"
    /\ UNCHANGED <<frame, broken, episodes, finalized, lock, pushVars, hubVars>>
    /\ UNCHANGED <<released, faults>>

(* A frame of the flush raises: the ring was emptied before. *)
FlushFails ==
    /\ TakeRequest /\ ~live /\ ring # <<>> /\ CallFails
    /\ \E n \in 0..Len(ring) - 1 : buffer' = buffer \o SubSeq(ring, 1, n)
    /\ EmptyRing
    /\ broken' = TRUE
    /\ main' = "closing"
    /\ UNCHANGED <<live, frame, episodes, finalized, lock, pushVars, hubVars, released>>

(* The last frame of the episode. *)
StopLive ==
    /\ TakeRequest /\ live
    /\ buffer' = Append(buffer, frame)
    /\ main' = "lock"
    /\ UNCHANGED <<ringVars, live, frame, broken, episodes, finalized, lock, pushVars>>
    /\ UNCHANGED <<hubVars, released, faults>>

NoRequest ==
    /\ main = "frame" /\ ~saveReq
    /\ main' = "route"
    /\ UNCHANGED <<ringVars, keyVars, live, frame, dataVars, lock, pushVars, hubVars>>
    /\ UNCHANGED <<released, faults>>

(* The rest of an iteration: the push key, then the frame goes to the        *)
(* dataset or to the ring.                                                   *)
Route ==
    /\ main = "route"
    /\ queued' = IF pushReq THEN queued + 1 ELSE queued
    /\ pushReq' = FALSE
    /\ IF live THEN buffer' = Append(buffer, frame) /\ UNCHANGED ringVars
       ELSE AppendToRing /\ UNCHANGED buffer
    /\ main' = "tick"
    /\ UNCHANGED <<saveReq, escaping, stop, pressed, live, frame, broken, episodes>>
    /\ UNCHANGED <<finalized, lock, push, hubVars, released, faults>>

TakeEpisodeLock ==
    /\ main \in {"lock", "lastLock"} /\ lock = "free"
    /\ lock' = "main"
    /\ main' = IF main = "lock" THEN "save" ELSE "lastSave"
    /\ UNCHANGED <<ringVars, keyVars, live, frame, dataVars, pushVars, hubVars>>
    /\ UNCHANGED <<released, faults>>

(* save_episode; in the loop the recording is over and the frame consumed.   *)
SaveEpisode ==
    /\ main \in {"save", "lastSave"} /\ ~broken /\ buffer # <<>>
    /\ episodes' = Append(episodes, buffer)
    /\ buffer' = <<>>
    /\ lock' = "free"
    /\ IF main = "save" THEN main' = "tick" /\ live' = FALSE
       ELSE main' = "finalize" /\ UNCHANGED live
    /\ UNCHANGED <<ringVars, keyVars, frame, broken, finalized, pushVars, hubVars>>
    /\ UNCHANGED <<released, faults>>

(* save_episode raises: out of the loop, or on, where it is suppressed. *)
SaveFails ==
    /\ main \in {"save", "lastSave"}
    /\ IF broken \/ buffer = <<>> THEN UNCHANGED faults ELSE CallFails
    /\ broken' = TRUE
    /\ lock' = "free"
    /\ main' = IF main = "save" THEN "closing" ELSE "finalize"
    /\ UNCHANGED <<ringVars, keyVars, live, frame, buffer, episodes, finalized>>
    /\ UNCHANGED <<pushVars, hubVars, released>>

(* Another call in the loop raises; add_frame may leave half of the frame.   *)
IterationFails ==
    /\ main \in {"tick", "frame", "route"} /\ CallFails
    /\ broken' \in {broken, broken \/ (live /\ main # "tick")}
    /\ main' = "closing"
    /\ UNCHANGED <<ringVars, keyVars, live, frame, buffer, episodes, finalized, lock>>
    /\ UNCHANGED <<pushVars, hubVars, released>>

(* finally: an episode that is being recorded is saved. *)
LeaveLoop ==
    /\ main = "closing"
    /\ main' = IF live THEN "lastLock" ELSE "finalize"
    /\ UNCHANGED <<ringVars, keyVars, live, frame, dataVars, lock, pushVars, hubVars>>
    /\ UNCHANGED <<released, faults>>

(* VideoEncodingManager.__exit__, which does not take the episode lock. *)
Finalize ==
    /\ main = "finalize"
    /\ finalized' = TRUE
    /\ main' = "join"
    /\ UNCHANGED <<ringVars, keyVars, live, frame, buffer, broken, episodes, lock>>
    /\ UNCHANGED <<pushVars, hubVars, released, faults>>

(* teardown: the executor finishes every push that was submitted. *)
JoinPusher ==
    /\ main = "join" /\ queued = 0 /\ push = "idle"
    /\ main' = "final"
    /\ UNCHANGED <<ringVars, keyVars, live, frame, dataVars, lock, pushVars, hubVars>>
    /\ UNCHANGED <<released, faults>>

(* Mutant: the last push is left to the pushes in the background. *)
NoFinalPush ==
    /\ main = "final"
    /\ main' = "release"
    /\ UNCHANGED <<ringVars, keyVars, live, frame, dataVars, lock, pushVars, hubVars>>
    /\ UNCHANGED <<released, faults>>

(* Mutant: nothing is pushed when the Hub has all episodes. *)
PushWhatIsNew ==
    /\ main = "final"
    /\ \/ /\ ~PushToHub \/ hub = Len(episodes)
          /\ main' = "release" /\ UNCHANGED <<hubVars, faults>>
       \/ /\ PushToHub /\ hub < Len(episodes)
          /\ hub' = Len(episodes) /\ hubFinal' = finalized
          /\ main' = "release" /\ UNCHANGED faults
       \/ /\ PushToHub /\ hub < Len(episodes) /\ CallFails
          /\ main' = "ended" /\ UNCHANGED hubVars
    /\ UNCHANGED <<ringVars, keyVars, live, frame, dataVars, lock, pushVars, released>>

(* teardown: the last push, of a dataset that has episodes. *)
FinalPush ==
    /\ main = "final"
    /\ \/ /\ ~PushToHub \/ episodes = <<>>
          /\ main' = "release" /\ UNCHANGED <<hubVars, faults>>
       \/ /\ PushToHub /\ episodes # <<>>
          /\ hub' = Len(episodes) /\ hubFinal' = finalized
          /\ main' = "release" /\ UNCHANGED faults
       \/ /\ PushToHub /\ episodes # <<>> /\ CallFails
          /\ main' = "ended" /\ UNCHANGED hubVars
    /\ UNCHANGED <<ringVars, keyVars, live, frame, dataVars, lock, pushVars, released>>

(* _teardown_hardware. *)
ReleaseHardware ==
    /\ main = "release"
    /\ released' = TRUE
    /\ main' = "ended"
    /\ UNCHANGED <<ringVars, keyVars, live, frame, dataVars, lock, pushVars, hubVars>>
    /\ UNCHANGED faults

Main ==
    \/ LoopEnds \/ NextFrame \/ StartLive \/ StopLive \/ NoRequest \/ Route
    \/ TakeEpisodeLock \/ SaveEpisode \/ SaveFails
    \/ LeaveLoop \/ Finalize \/ JoinPusher \/ FinalPush \/ ReleaseHardware
-----------------------------------------------------------------------------
(* The worker of the push executor.                                        *)

StartPush ==
    /\ push = "idle" /\ queued > 0
    /\ queued' = queued - 1
    /\ push' = "waiting"
    /\ UNCHANGED <<ringVars, keyVars, main, live, frame, dataVars, lock, hubVars>>
    /\ UNCHANGED <<released, faults>>

LockForPush ==
    /\ push = "waiting" /\ lock = "free"
    /\ lock' = "push"
    /\ push' = "locked"
    /\ UNCHANGED <<ringVars, keyVars, main, live, frame, dataVars, queued, hubVars>>
    /\ UNCHANGED <<released, faults>>

(* safe_push_to_hub uploads, has nothing to upload, or raises. *)
FinishPush ==
    /\ push = "locked"
    /\ \/ /\ episodes # <<>>
          /\ hub' = Len(episodes) /\ hubFinal' = finalized /\ UNCHANGED faults
       \/ episodes = <<>> /\ UNCHANGED <<hubVars, faults>>
       \/ episodes # <<>> /\ CallFails /\ UNCHANGED hubVars
    /\ lock' = "free"
    /\ push' = "idle"
    /\ UNCHANGED <<ringVars, keyVars, main, live, frame, dataVars, queued, released>>

Pusher == StartPush \/ LockForPush \/ FinishPush

Terminated == main = "ended" /\ UNCHANGED vars

Next == Operator \/ Main \/ FlushFails \/ IterationFails \/ Pusher \/ Terminated

Spec == Init /\ [][Next]_vars

(* The main loop iterates whatever the operator does, and the worker runs    *)
(* what was submitted: an upload ends, well or with an exception.            *)
FairSpec == Spec /\ WF_vars(Main) /\ WF_vars(Pusher)
-----------------------------------------------------------------------------
(* The first n frames from f on. *)
Frames(f, n) == [i \in 1..n |-> f + i - 1]

(* The last frame of the last episode. *)
LastRecorded == IF episodes = <<>> THEN 0 ELSE Last(Last(episodes))

(* Every variable keeps the type the code gives it; the main thread has the  *)
(* episode lock exactly while it saves.                                      *)
TypeOK ==
    /\ fit \in Fits /\ ring \in Seq(Nat) /\ account \in Nat
    /\ saveReq \in BOOLEAN /\ pushReq \in BOOLEAN
    /\ escaping \in BOOLEAN /\ stop \in BOOLEAN
    /\ main \in {"tick", "frame", "route", "lock", "save", "closing", "lastLock",
                 "lastSave", "finalize", "join", "final", "release", "ended"}
    /\ live \in BOOLEAN /\ frame \in 0..MaxFrames
    /\ buffer \in Seq(Nat) /\ broken \in BOOLEAN
    /\ episodes \in Seq(Seq(Nat)) /\ finalized \in BOOLEAN
    /\ lock \in {"free", "main", "push"}
    /\ lock = "main" <=> main \in {"save", "lastSave"}
    /\ queued \in Nat /\ push \in {"idle", "waiting", "locked"}
    /\ lock = "push" <=> push = "locked"
    /\ hub \in Nat /\ hubFinal \in BOOLEAN /\ released \in BOOLEAN
    /\ pressed \in 0..MaxFrames /\ faults \in 0..MaxFaults

(* "Stores the last N seconds of telemetry in memory, bounded by both time   *)
(* and memory" (ring_buffer.py:28), although what the deque drops itself is  *)
(* never taken from the account: while the loop waits for its next frame,    *)
(* the ring is the last frames, as many as both bounds allow, or all since   *)
(* the last episode; one is kept even where the memory has no room for it.   *)
RingKeepsLast ==
    main = "tick" /\ ~live =>
        LET size == Min({frame - LastRecorded, MaxLen, Max({1, fit})})
        IN  ring = Frames(frame - size + 1, size)

(* An episode is one stretch of the robot's time: the flushed frames and the *)
(* live ones follow each other without a gap and without a frame that is     *)
(* there twice, and no frame is in two episodes, whenever keys are pressed.  *)
EpisodesWhole ==
    /\ \A e \in 1..Len(episodes) :
        /\ episodes[e] = Frames(Head(episodes[e]), Len(episodes[e]))
        /\ e > 1 => Last(episodes[e - 1]) < Head(episodes[e])
    /\ buffer # <<>> =>
        /\ buffer = Frames(Head(buffer), Len(buffer))
        /\ LastRecorded < Head(buffer)

(* "When the user presses the save key: the ring buffer is flushed to the    *)
(* dataset (last Z seconds)" (highlight.py:44): the episode has all the      *)
(* frames there were when the key was pressed, but for the oldest, which the *)
(* loop may still evict before it sees the request.                          *)
HistoryKept ==
    main = "route" /\ live =>
        (IF buffer = <<>> THEN frame ELSE Head(buffer)) <= pressed + 1

(* No recorded frame is left unsaved when the dataset is finalized, although *)
(* the loop ends anywhere; a frame or a save that failed is the exception.   *)
FramesSaved == finalized => buffer = <<>> \/ broken

(* "otherwise footer metadata won't be written to the parquet files and the  *)
(* dataset will be invalid" (lerobot_dataset.py:463): what a session that    *)
(* closes leaves on the Hub was uploaded after finalize(), whatever was      *)
(* pushed before it.                                                         *)
HubFinalized == released /\ PushToHub /\ hub > 0 => hubFinal

(* The promise of EpisodeStore, with a push at the end that does not depend  *)
(* on the former ones.                                                       *)
Store == INSTANCE EpisodeStore WITH
             saved <- Len(episodes),
             open <- main # "ended",
             excused <- (main = "ended" /\ ~released) \/ ~PushToHub
StoreSpec == Store!Spec

(* A session asked to stop ends: neither the episode lock nor the wait for   *)
(* the executor holds up the main thread for ever.                           *)
SessionEnds == stop ~> main = "ended"
=============================================================================
