----------------------------- MODULE DaggerProofs -----------------------------
(***************************************************************************)
(* Theorems about Dagger, for every configuration and any number of        *)
(* episodes, pushes and failures.                                          *)
(***************************************************************************)
EXTENDS Dagger, TLAPS

USE DEF modeVars, eventVars, armVars, countVars, dataVars, pushVars, hubVars, vars
-----------------------------------------------------------------------------
(* TypeOK, the flags apart from the rest. *)
Flags ==
    /\ uploadReq \in BOOLEAN /\ stop \in BOOLEAN
    /\ active \in BOOLEAN /\ lastAction \in BOOLEAN
    /\ finalized \in BOOLEAN /\ needsPush \in BOOLEAN
    /\ sealed \in BOOLEAN /\ released \in BOOLEAN

Ranges ==
    /\ continuous \in Modes /\ leader \in Leaders
    /\ phase \in Phases /\ from \in Phases
    /\ pending \in {"none", "pause_resume", "correction"}
    /\ main \in {"head", "apply", "slide", "lock", "save", "saved", "upload", "work",
                 "rotate", "pausing", "finalize", "join", "final", "release", "ended"}
    /\ site \in Sites
    /\ arms \in {"apart", "met", "shifted", "followed"}
    /\ tick \in 0..(Stride - 1) /\ recorded \in Nat /\ since \in Nat
    /\ buffer \in {"empty", "frames", "broken"}
    /\ saved \in Nat
    /\ lock \in {"free", "main", "push"} /\ (lock = "main" <=> main = "save")
    /\ queued \in Nat /\ push \in {"idle", "waiting", "locked", "uploaded"}
    /\ hub \in Nat
    /\ faults \in 0..MaxFaults

(* The worker has the episode lock exactly while it pushes. *)
Owner == lock = "push" <=> push \in {"locked", "uploaded"}

(* The hardware is released last. *)
ReleasedLast == main # "ended" => ~released

LockInv == Ranges /\ Owner /\ ReleasedLast

LEMMA TypeParts == TypeOK <=> Flags /\ Ranges
  BY DEF TypeOK, Flags, Ranges

(* One tick of the record stride. *)
LEMMA TickType ==
    ASSUME NEW t \in 0..(Stride - 1)
    PROVE  (t + 1) % Stride \in 0..(Stride - 1)
  BY ConfigAssumption DEF ConfigAssumption

LEMMA FlagsInit == Init => Flags
  BY DEF Init, Flags

LEMMA FlagsStep == Flags /\ [Next]_vars => Flags'
  <1> SUFFICES ASSUME Flags, [Next]_vars PROVE Flags'
    OBVIOUS
  <1> USE DEF Flags
  <1>1. CASE PressKey
    BY <1>1 DEF PressKey, RequestTransition, RequestUpload, RequestStop
  <1>2. CASE MoveLeader
    BY <1>2 DEF MoveLeader, Held, Correcting, Actuated
  <1>3. CASE LoopEnds
    BY <1>3 DEF LoopEnds
  <1>4. CASE ConsumeTransition
    BY <1>4 DEF ConsumeTransition, Successor
  <1>5. CASE ApplyTransition
    BY <1>5 DEF ApplyTransition, PauseEngine, StartCorrection, EndCorrection, ResumePolicy, Slides, AfterTransition
  <1>6. CASE CheckUpload
    BY <1>6 DEF CheckUpload, Submit
  <1>7. CASE FollowLeader
    BY <1>7 DEF FollowLeader, RecordFrame, EndOfWork
  <1>8. CASE HoldPosition
    BY <1>8 DEF HoldPosition, EndOfWork
  <1>9. CASE PolicyTick
    BY <1>9 DEF PolicyTick, RecordFrame, EndOfWork
  <1>10. CASE Rotate
    BY <1>10 DEF Rotate
  <1>11. CASE TakeEpisodeLock
    BY <1>11 DEF TakeEpisodeLock
  <1>12. CASE SaveEpisode
    BY <1>12 DEF SaveEpisode
  <1>13. CASE SaveFails
    BY <1>13 DEF SaveFails, CallFails, AfterFailure
  <1>14. CASE MarkNeedsPush
    BY <1>14 DEF MarkNeedsPush, CountEpisode, Submit
  <1>15. CASE IterationFails
    BY <1>15 DEF IterationFails, CallFails
  <1>16. CASE LeaveLoop
    BY <1>16 DEF LeaveLoop
  <1>17. CASE Finalize
    BY <1>17 DEF Finalize
  <1>18. CASE JoinPusher
    BY <1>18 DEF JoinPusher
  <1>19. CASE FinalPush
    BY <1>19 DEF FinalPush, CallFails
  <1>20. CASE ReleaseHardware
    BY <1>20 DEF ReleaseHardware
  <1>21. CASE StartPush
    BY <1>21 DEF StartPush
  <1>22. CASE LockForPush
    BY <1>22 DEF LockForPush
  <1>23. CASE Upload
    BY <1>23 DEF Upload
  <1>24. CASE PushEndsInVain
    BY <1>24 DEF PushEndsInVain, CallFails
  <1>25. CASE ClearNeedsPush
    BY <1>25 DEF ClearNeedsPush
  <1>26. CASE EndSlide
    BY <1>26 DEF EndSlide, AfterTransition
  <1>27. CASE UNCHANGED vars
    BY <1>27
  <1>28. QED
    BY <1>1, <1>2, <1>3, <1>4, <1>5, <1>6, <1>7, <1>8, <1>9, <1>10, <1>11, <1>12, <1>13, <1>14, <1>15, <1>16, <1>17, <1>18, <1>19, <1>20, <1>21, <1>22, <1>23, <1>24, <1>25, <1>26, <1>27 DEF Next, Operator, Main, Pusher, Terminated

LEMMA LockInit == Init => LockInv
  <1> SUFFICES ASSUME Init PROVE LockInv
    OBVIOUS
  <1> USE DEF Init
  <1>1. 0 \in 0..(Stride - 1) /\ 0 \in 0..MaxFaults
    BY ConfigAssumption DEF ConfigAssumption
  <1>2. Ranges
    BY <1>1 DEF Ranges, Phases, Sites
  <1> QED
    BY <1>2 DEF LockInv, Owner, ReleasedLast

LEMMA LockStep == LockInv /\ [Next]_vars => LockInv'
  <1> SUFFICES ASSUME LockInv, [Next]_vars PROVE LockInv'
    OBVIOUS
  <1> USE ConfigAssumption, TickType DEF ConfigAssumption, LockInv, Ranges, Owner, ReleasedLast, Phases, Sites
  <1>1. CASE PressKey
    BY <1>1 DEF PressKey, RequestTransition, RequestUpload, RequestStop
  <1>2. CASE MoveLeader
    BY <1>2 DEF MoveLeader, Held, Correcting, Actuated
  <1>3. CASE LoopEnds
    BY <1>3 DEF LoopEnds
  <1>4. CASE ConsumeTransition
    BY <1>4 DEF ConsumeTransition, Successor
  <1>5. CASE ApplyTransition
    BY <1>5 DEF ApplyTransition, PauseEngine, StartCorrection, EndCorrection, ResumePolicy, Slides, AfterTransition
  <1>6. CASE CheckUpload
    BY <1>6 DEF CheckUpload, Submit
  <1>7. CASE FollowLeader
    BY <1>7 DEF FollowLeader, RecordFrame, EndOfWork
  <1>8. CASE HoldPosition
    BY <1>8 DEF HoldPosition, EndOfWork
  <1>9. CASE PolicyTick
    BY <1>9 DEF PolicyTick, RecordFrame, EndOfWork
  <1>10. CASE Rotate
    BY <1>10 DEF Rotate
  <1>11. CASE TakeEpisodeLock
    BY <1>11 DEF TakeEpisodeLock
  <1>12. CASE SaveEpisode
    BY <1>12 DEF SaveEpisode
  <1>13. CASE SaveFails
    BY <1>13 DEF SaveFails, CallFails, AfterFailure
  <1>14. CASE MarkNeedsPush
    BY <1>14 DEF MarkNeedsPush, CountEpisode, Submit
  <1>15. CASE IterationFails
    BY <1>15 DEF IterationFails, CallFails
  <1>16. CASE LeaveLoop
    BY <1>16 DEF LeaveLoop
  <1>17. CASE Finalize
    BY <1>17 DEF Finalize
  <1>18. CASE JoinPusher
    BY <1>18 DEF JoinPusher
  <1>19. CASE FinalPush
    BY <1>19 DEF FinalPush, CallFails
  <1>20. CASE ReleaseHardware
    BY <1>20 DEF ReleaseHardware
  <1>21. CASE StartPush
    BY <1>21 DEF StartPush
  <1>22. CASE LockForPush
    BY <1>22 DEF LockForPush
  <1>23. CASE Upload
    BY <1>23 DEF Upload
  <1>24. CASE PushEndsInVain
    BY <1>24 DEF PushEndsInVain, CallFails
  <1>25. CASE ClearNeedsPush
    BY <1>25 DEF ClearNeedsPush
  <1>26. CASE EndSlide
    BY <1>26 DEF EndSlide, AfterTransition
  <1>27. CASE UNCHANGED vars
    BY <1>27
  <1>28. QED
    BY <1>1, <1>2, <1>3, <1>4, <1>5, <1>6, <1>7, <1>8, <1>9, <1>10, <1>11, <1>12, <1>13, <1>14, <1>15, <1>16, <1>17, <1>18, <1>19, <1>20, <1>21, <1>22, <1>23, <1>24, <1>25, <1>26, <1>27 DEF Next, Operator, Main, Pusher, Terminated
-----------------------------------------------------------------------------
(* A transition being applied is one of the table. *)
Steps == {<<"autonomous", "paused">>, <<"paused", "autonomous">>,
          <<"paused", "correcting">>, <<"correcting", "paused">>}

InLoop ==
    \/ main \in {"head", "slide", "upload", "work", "rotate"}
    \/ main \in {"lock", "save", "saved"} /\ site # "final"

(* Who may move which arm, and where they agree, through a handover. *)
TakeoverInv ==
    /\ main = "apply" => <<from, phase>> \in Steps
    /\ InLoop /\ active => phase = "autonomous"
    /\ main = "apply" /\ active => from = "autonomous"
    /\ InLoop /\ phase = "correcting" /\ lastAction /\ leader # "renamed"
           => arms # "apart"
    /\ InLoop /\ phase = "paused" /\ leader = "actuated" /\ lastAction
           => arms # "apart"
    /\ main = "apply" /\ from = "correcting" /\ lastAction /\ leader # "renamed"
           => arms # "apart"
    /\ main = "apply" /\ from = "paused" /\ leader = "actuated" /\ lastAction
           => arms # "apart"

(* Where the frames of the buffer may be waiting. *)
SaveInv ==
    /\ main = "saved" => buffer = "empty"
    /\ main = "rotate" => continuous
    /\ main = "slide" => phase = "correcting"
    /\ finalized => main \in {"join", "final", "release", "ended"}
    /\ main \in {"finalize", "join", "final", "release", "ended"} => buffer # "frames"
    /\ ~continuous /\ main = "apply" /\ buffer = "frames" => from = "correcting"
    /\ CorrectionsSeparate

(* What the Hub has, and what the flag says of it. *)
PushInv ==
    /\ push = "uploaded" => hub = saved
    /\ ~needsPush /\ main # "saved" => hub = saved
    /\ main = "release" => (PushToHub => hub = saved)
    /\ main \in {"final", "release", "ended"} => push = "idle" /\ queued = 0

LEMMA PendingInit == Init => PendingValid
  BY DEF Init, PendingValid, Successor, CorrectionsSeparate, PendingValid

LEMMA PendingStep == LockInv /\ PendingValid /\ [Next]_vars => PendingValid'
  <1> SUFFICES ASSUME LockInv, PendingValid, [Next]_vars PROVE PendingValid'
    OBVIOUS
  <1> USE DEF LockInv, Ranges, Owner, ReleasedLast, Phases, Sites, PendingValid, Successor
  <1>1. CASE PressKey
    BY <1>1 DEF PressKey, RequestTransition, RequestUpload, RequestStop
  <1>2. CASE MoveLeader
    BY <1>2 DEF MoveLeader, Held, Correcting, Actuated
  <1>3. CASE LoopEnds
    BY <1>3 DEF LoopEnds
  <1>4. CASE ConsumeTransition
    BY <1>4 DEF ConsumeTransition, Successor
  <1>5. CASE ApplyTransition
    BY <1>5 DEF ApplyTransition, PauseEngine, StartCorrection, EndCorrection, ResumePolicy, Slides, AfterTransition
  <1>6. CASE CheckUpload
    BY <1>6 DEF CheckUpload, Submit
  <1>7. CASE FollowLeader
    BY <1>7 DEF FollowLeader, RecordFrame, EndOfWork
  <1>8. CASE HoldPosition
    BY <1>8 DEF HoldPosition, EndOfWork
  <1>9. CASE PolicyTick
    BY <1>9 DEF PolicyTick, RecordFrame, EndOfWork
  <1>10. CASE Rotate
    BY <1>10 DEF Rotate
  <1>11. CASE TakeEpisodeLock
    BY <1>11 DEF TakeEpisodeLock
  <1>12. CASE SaveEpisode
    BY <1>12 DEF SaveEpisode
  <1>13. CASE SaveFails
    BY <1>13 DEF SaveFails, CallFails, AfterFailure
  <1>14. CASE MarkNeedsPush
    BY <1>14 DEF MarkNeedsPush, CountEpisode, Submit
  <1>15. CASE IterationFails
    BY <1>15 DEF IterationFails, CallFails
  <1>16. CASE LeaveLoop
    BY <1>16 DEF LeaveLoop
  <1>17. CASE Finalize
    BY <1>17 DEF Finalize
  <1>18. CASE JoinPusher
    BY <1>18 DEF JoinPusher
  <1>19. CASE FinalPush
    BY <1>19 DEF FinalPush, CallFails
  <1>20. CASE ReleaseHardware
    BY <1>20 DEF ReleaseHardware
  <1>21. CASE StartPush
    BY <1>21 DEF StartPush
  <1>22. CASE LockForPush
    BY <1>22 DEF LockForPush
  <1>23. CASE Upload
    BY <1>23 DEF Upload
  <1>24. CASE PushEndsInVain
    BY <1>24 DEF PushEndsInVain, CallFails
  <1>25. CASE ClearNeedsPush
    BY <1>25 DEF ClearNeedsPush
  <1>26. CASE EndSlide
    BY <1>26 DEF EndSlide, AfterTransition
  <1>27. CASE UNCHANGED vars
    BY <1>27
  <1>28. QED
    BY <1>1, <1>2, <1>3, <1>4, <1>5, <1>6, <1>7, <1>8, <1>9, <1>10, <1>11, <1>12, <1>13, <1>14, <1>15, <1>16, <1>17, <1>18, <1>19, <1>20, <1>21, <1>22, <1>23, <1>24, <1>25, <1>26, <1>27 DEF Next, Operator, Main, Pusher, Terminated

LEMMA TakeoverInit == Init => TakeoverInv
  BY DEF Init, TakeoverInv, Successor, CorrectionsSeparate, PendingValid

LEMMA TakeoverStep == LockInv /\ TakeoverInv /\ [Next]_vars => TakeoverInv'
  <1> SUFFICES ASSUME LockInv, TakeoverInv, [Next]_vars PROVE TakeoverInv'
    OBVIOUS
  <1> USE DEF LockInv, Ranges, Owner, ReleasedLast, Phases, Sites, TakeoverInv, Steps, InLoop
  <1>1. CASE PressKey
    BY <1>1 DEF PressKey, RequestTransition, RequestUpload, RequestStop
  <1>2. CASE MoveLeader
    BY <1>2 DEF MoveLeader, Held, Correcting, Actuated
  <1>3. CASE LoopEnds
    BY <1>3 DEF LoopEnds
  <1>4. CASE ConsumeTransition
    BY <1>4 DEF ConsumeTransition, Successor
  <1>5. CASE ApplyTransition
    <2>1. /\ main = "apply" /\ main' \in {"slide", "work", "lock", "upload"}
          /\ phase' = phase /\ from' = from /\ leader' = leader
          /\ PauseEngine \/ StartCorrection \/ EndCorrection \/ ResumePolicy
      BY <1>5 DEF ApplyTransition, AfterTransition
    <2>2. CASE PauseEngine
      <3>1. phase = "paused" /\ from = "autonomous" /\ ~active'
        BY <2>1, <2>2 DEF PauseEngine
      <3>2. leader' = "actuated" /\ lastAction' => arms' # "apart"
        BY <2>1, <2>2 DEF PauseEngine
      <3>3. QED
        BY <2>1, <3>1, <3>2
    <2>3. CASE StartCorrection
      <3>1. phase = "correcting" /\ from = "paused" /\ ~active'
        BY <2>1, <2>3 DEF StartCorrection
      <3>2. leader \in Kinds
        BY ConfigAssumption DEF ConfigAssumption
      <3>3. lastAction' /\ leader' # "renamed" => arms' # "apart"
        BY <2>1, <2>3, <3>1, <3>2 DEF StartCorrection, Slides, Actuated, Kinds
      <3>4. QED
        BY <2>1, <3>1, <3>3
    <2>4. CASE EndCorrection
      BY <2>1, <2>4 DEF EndCorrection
    <2>5. CASE ResumePolicy
      BY <2>1, <2>5 DEF ResumePolicy
    <2>6. QED
      BY <2>1, <2>2, <2>3, <2>4, <2>5
  <1>6. CASE CheckUpload
    BY <1>6 DEF CheckUpload, Submit
  <1>7. CASE FollowLeader
    BY <1>7 DEF FollowLeader, RecordFrame, EndOfWork
  <1>8. CASE HoldPosition
    BY <1>8 DEF HoldPosition, EndOfWork
  <1>9. CASE PolicyTick
    BY <1>9 DEF PolicyTick, RecordFrame, EndOfWork
  <1>10. CASE Rotate
    BY <1>10 DEF Rotate
  <1>11. CASE TakeEpisodeLock
    BY <1>11 DEF TakeEpisodeLock
  <1>12. CASE SaveEpisode
    BY <1>12 DEF SaveEpisode
  <1>13. CASE SaveFails
    BY <1>13 DEF SaveFails, CallFails, AfterFailure
  <1>14. CASE MarkNeedsPush
    BY <1>14 DEF MarkNeedsPush, CountEpisode, Submit
  <1>15. CASE IterationFails
    BY <1>15 DEF IterationFails, CallFails
  <1>16. CASE LeaveLoop
    BY <1>16 DEF LeaveLoop
  <1>17. CASE Finalize
    BY <1>17 DEF Finalize
  <1>18. CASE JoinPusher
    BY <1>18 DEF JoinPusher
  <1>19. CASE FinalPush
    BY <1>19 DEF FinalPush, CallFails
  <1>20. CASE ReleaseHardware
    BY <1>20 DEF ReleaseHardware
  <1>21. CASE StartPush
    BY <1>21 DEF StartPush
  <1>22. CASE LockForPush
    BY <1>22 DEF LockForPush
  <1>23. CASE Upload
    BY <1>23 DEF Upload
  <1>24. CASE PushEndsInVain
    BY <1>24 DEF PushEndsInVain, CallFails
  <1>25. CASE ClearNeedsPush
    BY <1>25 DEF ClearNeedsPush
  <1>26. CASE EndSlide
    BY <1>26 DEF EndSlide, AfterTransition
  <1>27. CASE UNCHANGED vars
    BY <1>27
  <1>28. QED
    BY <1>1, <1>2, <1>3, <1>4, <1>5, <1>6, <1>7, <1>8, <1>9, <1>10, <1>11, <1>12, <1>13, <1>14, <1>15, <1>16, <1>17, <1>18, <1>19, <1>20, <1>21, <1>22, <1>23, <1>24, <1>25, <1>26, <1>27 DEF Next, Operator, Main, Pusher, Terminated

LEMMA SaveInit == Init => SaveInv
  BY DEF Init, SaveInv, Successor, CorrectionsSeparate, PendingValid

LEMMA SaveStep == LockInv /\ SaveInv /\ [Next]_vars => SaveInv'
  <1> SUFFICES ASSUME LockInv, SaveInv, [Next]_vars PROVE SaveInv'
    OBVIOUS
  <1> USE DEF LockInv, Ranges, Owner, ReleasedLast, Phases, Sites, SaveInv, CorrectionsSeparate
  <1>1. CASE PressKey
    BY <1>1 DEF PressKey, RequestTransition, RequestUpload, RequestStop
  <1>2. CASE MoveLeader
    BY <1>2 DEF MoveLeader, Held, Correcting, Actuated
  <1>3. CASE LoopEnds
    BY <1>3 DEF LoopEnds
  <1>4. CASE ConsumeTransition
    BY <1>4 DEF ConsumeTransition, Successor
  <1>5. CASE ApplyTransition
    BY <1>5 DEF ApplyTransition, PauseEngine, StartCorrection, EndCorrection, ResumePolicy, Slides, AfterTransition
  <1>6. CASE CheckUpload
    BY <1>6 DEF CheckUpload, Submit
  <1>7. CASE FollowLeader
    BY <1>7 DEF FollowLeader, RecordFrame, EndOfWork
  <1>8. CASE HoldPosition
    BY <1>8 DEF HoldPosition, EndOfWork
  <1>9. CASE PolicyTick
    BY <1>9 DEF PolicyTick, RecordFrame, EndOfWork
  <1>10. CASE Rotate
    BY <1>10 DEF Rotate
  <1>11. CASE TakeEpisodeLock
    BY <1>11 DEF TakeEpisodeLock
  <1>12. CASE SaveEpisode
    BY <1>12 DEF SaveEpisode
  <1>13. CASE SaveFails
    BY <1>13 DEF SaveFails, CallFails, AfterFailure
  <1>14. CASE MarkNeedsPush
    BY <1>14 DEF MarkNeedsPush, CountEpisode, Submit
  <1>15. CASE IterationFails
    BY <1>15 DEF IterationFails, CallFails
  <1>16. CASE LeaveLoop
    BY <1>16 DEF LeaveLoop
  <1>17. CASE Finalize
    BY <1>17 DEF Finalize
  <1>18. CASE JoinPusher
    BY <1>18 DEF JoinPusher
  <1>19. CASE FinalPush
    BY <1>19 DEF FinalPush, CallFails
  <1>20. CASE ReleaseHardware
    BY <1>20 DEF ReleaseHardware
  <1>21. CASE StartPush
    BY <1>21 DEF StartPush
  <1>22. CASE LockForPush
    BY <1>22 DEF LockForPush
  <1>23. CASE Upload
    BY <1>23 DEF Upload
  <1>24. CASE PushEndsInVain
    BY <1>24 DEF PushEndsInVain, CallFails
  <1>25. CASE ClearNeedsPush
    BY <1>25 DEF ClearNeedsPush
  <1>26. CASE EndSlide
    BY <1>26 DEF EndSlide, AfterTransition
  <1>27. CASE UNCHANGED vars
    BY <1>27
  <1>28. QED
    BY <1>1, <1>2, <1>3, <1>4, <1>5, <1>6, <1>7, <1>8, <1>9, <1>10, <1>11, <1>12, <1>13, <1>14, <1>15, <1>16, <1>17, <1>18, <1>19, <1>20, <1>21, <1>22, <1>23, <1>24, <1>25, <1>26, <1>27 DEF Next, Operator, Main, Pusher, Terminated

LEMMA PushInit == Init => PushInv
  BY DEF Init, PushInv, Successor, CorrectionsSeparate, PendingValid

LEMMA PushStep == LockInv /\ PushInv /\ [Next]_vars => PushInv'
  <1> SUFFICES ASSUME LockInv, PushInv, [Next]_vars PROVE PushInv'
    OBVIOUS
  <1> USE DEF LockInv, Ranges, Owner, ReleasedLast, Phases, Sites, PushInv
  <1>1. CASE PressKey
    BY <1>1 DEF PressKey, RequestTransition, RequestUpload, RequestStop
  <1>2. CASE MoveLeader
    BY <1>2 DEF MoveLeader, Held, Correcting, Actuated
  <1>3. CASE LoopEnds
    BY <1>3 DEF LoopEnds
  <1>4. CASE ConsumeTransition
    BY <1>4 DEF ConsumeTransition, Successor
  <1>5. CASE ApplyTransition
    BY <1>5 DEF ApplyTransition, PauseEngine, StartCorrection, EndCorrection, ResumePolicy, Slides, AfterTransition
  <1>6. CASE CheckUpload
    BY <1>6 DEF CheckUpload, Submit
  <1>7. CASE FollowLeader
    BY <1>7 DEF FollowLeader, RecordFrame, EndOfWork
  <1>8. CASE HoldPosition
    BY <1>8 DEF HoldPosition, EndOfWork
  <1>9. CASE PolicyTick
    BY <1>9 DEF PolicyTick, RecordFrame, EndOfWork
  <1>10. CASE Rotate
    BY <1>10 DEF Rotate
  <1>11. CASE TakeEpisodeLock
    BY <1>11 DEF TakeEpisodeLock
  <1>12. CASE SaveEpisode
    BY <1>12 DEF SaveEpisode
  <1>13. CASE SaveFails
    BY <1>13 DEF SaveFails, CallFails, AfterFailure
  <1>14. CASE MarkNeedsPush
    BY <1>14 DEF MarkNeedsPush, CountEpisode, Submit
  <1>15. CASE IterationFails
    BY <1>15 DEF IterationFails, CallFails
  <1>16. CASE LeaveLoop
    BY <1>16 DEF LeaveLoop
  <1>17. CASE Finalize
    BY <1>17 DEF Finalize
  <1>18. CASE JoinPusher
    BY <1>18 DEF JoinPusher
  <1>19. CASE FinalPush
    BY <1>19 DEF FinalPush, CallFails
  <1>20. CASE ReleaseHardware
    BY <1>20 DEF ReleaseHardware
  <1>21. CASE StartPush
    BY <1>21 DEF StartPush
  <1>22. CASE LockForPush
    BY <1>22 DEF LockForPush
  <1>23. CASE Upload
    BY <1>23 DEF Upload
  <1>24. CASE PushEndsInVain
    BY <1>24 DEF PushEndsInVain, CallFails
  <1>25. CASE ClearNeedsPush
    BY <1>25 DEF ClearNeedsPush
  <1>26. CASE EndSlide
    BY <1>26 DEF EndSlide, AfterTransition
  <1>27. CASE UNCHANGED vars
    BY <1>27
  <1>28. QED
    BY <1>1, <1>2, <1>3, <1>4, <1>5, <1>6, <1>7, <1>8, <1>9, <1>10, <1>11, <1>12, <1>13, <1>14, <1>15, <1>16, <1>17, <1>18, <1>19, <1>20, <1>21, <1>22, <1>23, <1>24, <1>25, <1>26, <1>27 DEF Next, Operator, Main, Pusher, Terminated
-----------------------------------------------------------------------------
(* The types, and the episode lock: the main thread has it exactly while it  *)
(* saves and the worker exactly while it pushes (dagger.py:542 and 721).     *)
THEOREM TypeCorrect == Spec => []TypeOK
  <1>1. Init => Flags /\ LockInv
    BY FlagsInit, LockInit
  <1>2. Flags /\ LockInv /\ [Next]_vars => (Flags /\ LockInv)'
    BY FlagsStep, LockStep
  <1>3. Flags /\ LockInv => TypeOK
    BY TypeParts DEF LockInv
  <1>4. QED
    BY <1>1, <1>2, <1>3, PTL DEF Spec

(* A request waiting in the slot is valid when it is consumed: the table is  *)
(* looked up a second time (dagger.py:146), and never in vain.               *)
THEOREM RequestsValid == Spec => []PendingValid
  <1>1. QED
    BY LockInit, LockStep, PendingInit, PendingStep, PTL DEF Spec

(* The policy is silent and a handover has brought the arms together when a  *)
(* human takes over, for any sequence of keys and movements of the leader;   *)
(* leaders with renamed keys, and a pause before the policy's first action,  *)
(* are excepted (dagger.py:656-695).                                         *)
THEOREM TakeoverSmooth == Spec => []SmoothTakeover
  <1>1. TakeoverInv => SmoothTakeover
    BY DEF TakeoverInv, SmoothTakeover, InLoop
  <1>2. QED
    BY LockInit, LockStep, TakeoverInit, TakeoverStep, <1>1, PTL DEF Spec

(* No frame is dropped or put in another correction's episode (dagger.py:467 *)
(* and 541-543).                                                             *)
THEOREM FramesKept == Spec => [](CorrectionsSeparate /\ FramesSaved)
  <1>1. SaveInv => CorrectionsSeparate /\ FramesSaved
    BY DEF SaveInv, FramesSaved
  <1>2. QED
    BY LockInit, LockStep, SaveInit, SaveStep, <1>1, PTL DEF Spec

(* Every saved episode was sent to the Hub or is remembered by _needs_push, although  *)
(* the flag is set and cleared by two threads, one of them without the lock  *)
(* (dagger.py:545 and 727).                                                  *)
THEOREM EpisodesPushed == Spec => []NothingForgotten
  <1>1. PushInv => NothingForgotten
    BY DEF PushInv, NothingForgotten
  <1>2. QED
    BY LockInit, LockStep, PushInit, PushStep, <1>1, PTL DEF Spec

(* Each step of a session is a step of EpisodeStore or changes nothing of it. *)
LEMMA StoreStep == LockInv /\ PushInv /\ [Next]_vars => [Store!Next]_Store!vars
  <1> SUFFICES ASSUME LockInv, PushInv, [Next]_vars PROVE [Store!Next]_Store!vars
    OBVIOUS
  <1> USE DEF LockInv, Ranges, Owner, ReleasedLast, PushInv
  <1>1. CASE PressKey
    BY <1>1 DEF PressKey, RequestTransition, RequestUpload, RequestStop, Store!Next, Store!Save, Store!Push, Store!Fail, Store!Close, Store!vars
  <1>2. CASE MoveLeader
    BY <1>2 DEF MoveLeader, Held, Correcting, Actuated, Store!Next, Store!Save, Store!Push, Store!Fail, Store!Close, Store!vars
  <1>3. CASE LoopEnds
    BY <1>3 DEF LoopEnds, Store!Next, Store!Save, Store!Push, Store!Fail, Store!Close, Store!vars
  <1>4. CASE ConsumeTransition
    BY <1>4 DEF ConsumeTransition, Successor, Store!Next, Store!Save, Store!Push, Store!Fail, Store!Close, Store!vars
  <1>5. CASE ApplyTransition
    BY <1>5 DEF ApplyTransition, PauseEngine, StartCorrection, EndCorrection, ResumePolicy, Slides, AfterTransition, Store!Next, Store!Save, Store!Push, Store!Fail, Store!Close, Store!vars
  <1>6. CASE CheckUpload
    BY <1>6 DEF CheckUpload, Submit, Store!Next, Store!Save, Store!Push, Store!Fail, Store!Close, Store!vars
  <1>7. CASE FollowLeader
    BY <1>7 DEF FollowLeader, RecordFrame, EndOfWork, Store!Next, Store!Save, Store!Push, Store!Fail, Store!Close, Store!vars
  <1>8. CASE HoldPosition
    BY <1>8 DEF HoldPosition, EndOfWork, Store!Next, Store!Save, Store!Push, Store!Fail, Store!Close, Store!vars
  <1>9. CASE PolicyTick
    BY <1>9 DEF PolicyTick, RecordFrame, EndOfWork, Store!Next, Store!Save, Store!Push, Store!Fail, Store!Close, Store!vars
  <1>10. CASE Rotate
    BY <1>10 DEF Rotate, Store!Next, Store!Save, Store!Push, Store!Fail, Store!Close, Store!vars
  <1>11. CASE TakeEpisodeLock
    BY <1>11 DEF TakeEpisodeLock, Store!Next, Store!Save, Store!Push, Store!Fail, Store!Close, Store!vars
  <1>12. CASE SaveEpisode
    BY <1>12 DEF SaveEpisode, Store!Next, Store!Save, Store!Push, Store!Fail, Store!Close, Store!vars
  <1>13. CASE SaveFails
    BY <1>13 DEF SaveFails, CallFails, AfterFailure, Store!Next, Store!Save, Store!Push, Store!Fail, Store!Close, Store!vars
  <1>14. CASE MarkNeedsPush
    BY <1>14 DEF MarkNeedsPush, CountEpisode, Submit, Store!Next, Store!Save, Store!Push, Store!Fail, Store!Close, Store!vars
  <1>15. CASE IterationFails
    BY <1>15 DEF IterationFails, CallFails, Store!Next, Store!Save, Store!Push, Store!Fail, Store!Close, Store!vars
  <1>16. CASE LeaveLoop
    BY <1>16 DEF LeaveLoop, Store!Next, Store!Save, Store!Push, Store!Fail, Store!Close, Store!vars
  <1>17. CASE Finalize
    BY <1>17 DEF Finalize, Store!Next, Store!Save, Store!Push, Store!Fail, Store!Close, Store!vars
  <1>18. CASE JoinPusher
    BY <1>18 DEF JoinPusher, Store!Next, Store!Save, Store!Push, Store!Fail, Store!Close, Store!vars
  <1>19. CASE FinalPush
    <2>1. main = "final"
      BY <1>19 DEF FinalPush
    <2>2. CASE main' = "ended" /\ UNCHANGED <<hub, released>>
      BY <1>19, <2>1, <2>2 DEF FinalPush, Store!Next, Store!Fail
    <2>3. CASE main' = "release" /\ UNCHANGED hub
      BY <1>19, <2>1, <2>3 DEF FinalPush, Store!vars
    <2>4. CASE main' = "release" /\ hub' = saved
      BY <1>19, <2>1, <2>4 DEF FinalPush, Store!Next, Store!Push
    <2>5. QED
      BY <1>19, <2>2, <2>3, <2>4 DEF FinalPush
  <1>20. CASE ReleaseHardware
    BY <1>20 DEF ReleaseHardware, Store!Next, Store!Save, Store!Push, Store!Fail, Store!Close, Store!vars
  <1>21. CASE StartPush
    BY <1>21 DEF StartPush, Store!Next, Store!Save, Store!Push, Store!Fail, Store!Close, Store!vars
  <1>22. CASE LockForPush
    BY <1>22 DEF LockForPush, Store!Next, Store!Save, Store!Push, Store!Fail, Store!Close, Store!vars
  <1>23. CASE Upload
    BY <1>23 DEF Upload, Store!Next, Store!Save, Store!Push, Store!Fail, Store!Close, Store!vars
  <1>24. CASE PushEndsInVain
    BY <1>24 DEF PushEndsInVain, CallFails, Store!Next, Store!Save, Store!Push, Store!Fail, Store!Close, Store!vars
  <1>25. CASE ClearNeedsPush
    BY <1>25 DEF ClearNeedsPush, Store!Next, Store!Save, Store!Push, Store!Fail, Store!Close, Store!vars
  <1>26. CASE EndSlide
    BY <1>26 DEF EndSlide, AfterTransition, Store!vars
  <1>27. CASE UNCHANGED vars
    BY <1>27 DEF Store!vars
  <1>28. QED
    BY <1>1, <1>2, <1>3, <1>4, <1>5, <1>6, <1>7, <1>8, <1>9, <1>10, <1>11, <1>12, <1>13, <1>14, <1>15, <1>16, <1>17, <1>18, <1>19, <1>20, <1>21, <1>22, <1>23, <1>24, <1>25, <1>26, <1>27 DEF Next, Operator, Main, Pusher, Terminated

(* A session keeps the promise of EpisodeStore (dagger.py:281-308), of what  *)
(* is sent to the Hub: HubReadable says when it can be read there.           *)
THEOREM StoreImplemented == Spec => StoreSpec
  <1>1. Init => Store!Init
    BY DEF Init, Store!Init
  <1>2. LockInv /\ PushInv /\ [Next]_vars => [Store!Next]_Store!vars
    BY StoreStep
  <1>3. QED
    BY LockInit, LockStep, PushInit, PushStep, <1>1, <1>2, PTL DEF Spec, StoreSpec, Store!Spec
=============================================================================
