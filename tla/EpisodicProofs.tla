---------------------------- MODULE EpisodicProofs ----------------------------
(***************************************************************************)
(* Theorems about Episodic, for every number of episodes and of failures.  *)
(***************************************************************************)
EXTENDS Episodic, TLAPS

USE DEF flagVars, keyVars, loopVars, dataVars, vars
-----------------------------------------------------------------------------
(* TypeOK, the flags apart from the rest. *)
Flags ==
    /\ exitEarly \in BOOLEAN /\ rerecord \in BOOLEAN /\ stop \in BOOLEAN
    /\ discard \in BOOLEAN /\ shutdown \in BOOLEAN /\ ready \in BOOLEAN
    /\ blank \in BOOLEAN /\ broken \in BOOLEAN /\ finalized \in BOOLEAN
    /\ released \in BOOLEAN

Ranges ==
    /\ key \in {"idle", "pressed"}
    /\ main \in {"head", "episode", "over", "reset", "check", "discard", "save",
                 "closing", "finalize", "push", "release", "ended"}
    /\ attempt \in {0, 1} /\ recorded \in 0..NumEpisodes
    /\ buffer \in SUBSET {0, 1}
    /\ saved \in 0..NumEpisodes /\ hub \in 0..NumEpisodes
    /\ faults \in 0..MaxFaults

InAttempt == {"episode", "over", "reset", "check", "discard", "save"}

(* Between two attempts the buffer is empty, and an attempt that is still to *)
(* be saved, in the loop or after it, is one of those asked for.             *)
CountInv ==
    /\ main = "head" => buffer = {}
    /\ main \in InAttempt => recorded < NumEpisodes
    /\ main \in InAttempt \union {"head", "closing"} => saved = recorded
    /\ main = "closing" /\ buffer # {} /\ ~broken => recorded < NumEpisodes

TypeInv == Ranges /\ CountInv

LEMMA TypeParts == TypeOK <=> Flags /\ Ranges
  BY DEF TypeOK, Flags, Ranges

LEMMA FlagsInit == Init => Flags
  BY ConfigAssumption DEF ConfigAssumption, Init, Flags

LEMMA FlagsStep == Flags /\ [Next]_vars => Flags'
  <1> SUFFICES ASSUME Flags, [Next]_vars PROVE Flags'
    OBVIOUS
  <1> USE DEF Flags
  <1>1. CASE PressKey
    BY <1>1 DEF PressKey, PressRight, PressLeft, PressEscape
  <1>2. CASE FinishPress
    BY <1>2 DEF FinishPress
  <1>3. CASE Interrupt
    BY <1>3 DEF Interrupt
  <1>4. CASE EngineReady
    BY <1>4 DEF EngineReady
  <1>5. CASE LoopEnds
    BY <1>5 DEF LoopEnds, GoesOn
  <1>6. CASE StartAttempt
    BY <1>6 DEF StartAttempt, GoesOn
  <1>7. CASE RecordFrame
    BY <1>7 DEF RecordFrame
  <1>8. CASE EndEpisode
    BY <1>8 DEF EndEpisode
  <1>9. CASE ChooseReset
    BY <1>9 DEF ChooseReset
  <1>10. CASE EndReset
    BY <1>10 DEF EndReset
  <1>11. CASE CheckRerecord
    BY <1>11 DEF CheckRerecord
  <1>12. CASE DiscardAttempt
    BY <1>12 DEF DiscardAttempt
  <1>13. CASE SaveEpisode
    BY <1>13 DEF SaveEpisode
  <1>14. CASE SaveFails
    BY <1>14 DEF SaveFails, CallFails
  <1>15. CASE CloseEpisode
    BY <1>15 DEF CloseEpisode, CallFails
  <1>16. CASE Finalize
    BY <1>16 DEF Finalize
  <1>17. CASE Push
    BY <1>17 DEF Push, CallFails
  <1>18. CASE ReleaseHardware
    BY <1>18 DEF ReleaseHardware
  <1>19. CASE IterationFails
    BY <1>19 DEF IterationFails, CallFails
  <1>20. CASE UNCHANGED vars
    BY <1>20
  <1>21. QED
    BY <1>1, <1>2, <1>3, <1>4, <1>5, <1>6, <1>7, <1>8, <1>9, <1>10, <1>11, <1>12, <1>13, <1>14, <1>15, <1>16, <1>17, <1>18, <1>19, <1>20 DEF Next, Operator, Main, Terminated

LEMMA TypeInit == Init => TypeInv
  <1> SUFFICES ASSUME Init PROVE TypeInv
    OBVIOUS
  <1> USE DEF Init
  <1>1. 0 \in 0..NumEpisodes /\ 0 \in 0..MaxFaults
    BY ConfigAssumption DEF ConfigAssumption
  <1>2. Ranges
    BY <1>1 DEF Ranges
  <1>3. QED
    BY <1>2 DEF TypeInv, CountInv, InAttempt

LEMMA TypeStep == TypeInv /\ [Next]_vars => TypeInv'
  <1> SUFFICES ASSUME TypeInv, [Next]_vars PROVE TypeInv'
    OBVIOUS
  <1> USE ConfigAssumption DEF ConfigAssumption, TypeInv, Ranges, CountInv, InAttempt
  <1>1. CASE PressKey
    BY <1>1 DEF PressKey, PressRight, PressLeft, PressEscape
  <1>2. CASE FinishPress
    BY <1>2 DEF FinishPress
  <1>3. CASE Interrupt
    BY <1>3 DEF Interrupt
  <1>4. CASE EngineReady
    BY <1>4 DEF EngineReady
  <1>5. CASE LoopEnds
    BY <1>5 DEF LoopEnds, GoesOn
  <1>6. CASE StartAttempt
    BY <1>6 DEF StartAttempt, GoesOn
  <1>7. CASE RecordFrame
    BY <1>7 DEF RecordFrame
  <1>8. CASE EndEpisode
    BY <1>8 DEF EndEpisode
  <1>9. CASE ChooseReset
    BY <1>9 DEF ChooseReset
  <1>10. CASE EndReset
    BY <1>10 DEF EndReset
  <1>11. CASE CheckRerecord
    BY <1>11 DEF CheckRerecord
  <1>12. CASE DiscardAttempt
    BY <1>12 DEF DiscardAttempt
  <1>13. CASE SaveEpisode
    BY <1>13 DEF SaveEpisode
  <1>14. CASE SaveFails
    BY <1>14 DEF SaveFails, CallFails
  <1>15. CASE CloseEpisode
    <2>1. main = "closing" /\ main' = "finalize" /\ recorded' = recorded /\ saved = recorded
      BY <1>15 DEF CloseEpisode
    <2>2. CASE UNCHANGED <<saved, buffer>>
      BY <1>15, <2>1, <2>2 DEF CloseEpisode, CallFails
    <2>3. CASE buffer # {} /\ ~broken /\ buffer' = {} /\ saved' = saved + 1 /\ UNCHANGED faults
      <3>1. saved' \in 0..NumEpisodes
        BY <2>1, <2>3
      <3>2. QED
        BY <1>15, <2>1, <2>3, <3>1 DEF CloseEpisode
    <2>4. QED
      BY <1>15, <2>2, <2>3 DEF CloseEpisode
  <1>16. CASE Finalize
    BY <1>16 DEF Finalize
  <1>17. CASE Push
    BY <1>17 DEF Push, CallFails
  <1>18. CASE ReleaseHardware
    BY <1>18 DEF ReleaseHardware
  <1>19. CASE IterationFails
    BY <1>19 DEF IterationFails, CallFails
  <1>20. CASE UNCHANGED vars
    BY <1>20
  <1>21. QED
    BY <1>1, <1>2, <1>3, <1>4, <1>5, <1>6, <1>7, <1>8, <1>9, <1>10, <1>11, <1>12, <1>13, <1>14, <1>15, <1>16, <1>17, <1>18, <1>19, <1>20 DEF Next, Operator, Main, Terminated

(* Every variable keeps its type, and no more episodes are saved than asked  *)
(* for, the one saved after a failure included (episodic.py:113, 190-198).   *)
THEOREM TypeCorrect == Spec => []TypeOK
  <1>1. Spec => []Flags
    BY FlagsInit, FlagsStep, PTL DEF Spec
  <1>2. Spec => []TypeInv
    BY TypeInit, TypeStep, PTL DEF Spec
  <1>3. Flags /\ TypeInv => TypeOK
    BY TypeParts DEF TypeInv
  <1>4. QED
    BY <1>1, <1>2, <1>3, PTL
-----------------------------------------------------------------------------
(* A frame is in the buffer for the attempt that is running, or on its way   *)
(* to be saved.                                                              *)
AttemptInv ==
    /\ OneAttempt
    /\ main = "head" => buffer = {}
    /\ main \in {"finalize", "push", "release", "ended"} => buffer = {} \/ broken
    /\ finalized => main \in {"push", "release", "ended"}

LEMMA AttemptInit == Init => AttemptInv
  BY DEF Init, AttemptInv, OneAttempt

LEMMA AttemptStep == AttemptInv /\ [Next]_vars => AttemptInv'
  <1> SUFFICES ASSUME AttemptInv, [Next]_vars PROVE AttemptInv'
    OBVIOUS
  <1> USE DEF AttemptInv, OneAttempt
  <1>1. CASE PressKey
    BY <1>1 DEF PressKey, PressRight, PressLeft, PressEscape
  <1>2. CASE FinishPress
    BY <1>2 DEF FinishPress
  <1>3. CASE Interrupt
    BY <1>3 DEF Interrupt
  <1>4. CASE EngineReady
    BY <1>4 DEF EngineReady
  <1>5. CASE LoopEnds
    BY <1>5 DEF LoopEnds, GoesOn
  <1>6. CASE StartAttempt
    BY <1>6 DEF StartAttempt, GoesOn
  <1>7. CASE RecordFrame
    BY <1>7 DEF RecordFrame
  <1>8. CASE EndEpisode
    BY <1>8 DEF EndEpisode
  <1>9. CASE ChooseReset
    BY <1>9 DEF ChooseReset
  <1>10. CASE EndReset
    BY <1>10 DEF EndReset
  <1>11. CASE CheckRerecord
    BY <1>11 DEF CheckRerecord
  <1>12. CASE DiscardAttempt
    BY <1>12 DEF DiscardAttempt
  <1>13. CASE SaveEpisode
    BY <1>13 DEF SaveEpisode
  <1>14. CASE SaveFails
    BY <1>14 DEF SaveFails, CallFails
  <1>15. CASE CloseEpisode
    BY <1>15 DEF CloseEpisode, CallFails
  <1>16. CASE Finalize
    BY <1>16 DEF Finalize
  <1>17. CASE Push
    BY <1>17 DEF Push, CallFails
  <1>18. CASE ReleaseHardware
    BY <1>18 DEF ReleaseHardware
  <1>19. CASE IterationFails
    BY <1>19 DEF IterationFails, CallFails
  <1>20. CASE UNCHANGED vars
    BY <1>20
  <1>21. QED
    BY <1>1, <1>2, <1>3, <1>4, <1>5, <1>6, <1>7, <1>8, <1>9, <1>10, <1>11, <1>12, <1>13, <1>14, <1>15, <1>16, <1>17, <1>18, <1>19, <1>20 DEF Next, Operator, Main, Terminated

(* Frames of two attempts are never saved as one episode                     *)
(* (episodic.py:182-190).                                                    *)
THEOREM AttemptsApart == Spec => []OneAttempt
  <1>1. AttemptInv => OneAttempt
    BY DEF AttemptInv
  <1>2. QED
    BY AttemptInit, AttemptStep, <1>1, PTL DEF Spec

(* The buffer holds no frame when the dataset is finalized, wherever the     *)
(* loop was left, unless saving it had failed (episodic.py:192-198).         *)
THEOREM FramesKept == Spec => []FramesSaved
  <1>1. AttemptInv => FramesSaved
    BY DEF AttemptInv, FramesSaved
  <1>2. QED
    BY AttemptInit, AttemptStep, <1>1, PTL DEF Spec
-----------------------------------------------------------------------------
(* The request to discard stays with the attempt it was made for. *)
DiscardInv == (Discardable /\ discard => rerecord) /\ DiscardHonoured

LEMMA DiscardInit == Init => DiscardInv
  BY DEF Init, DiscardInv, DiscardHonoured

LEMMA DiscardStep == DiscardInv /\ [Next]_vars => DiscardInv'
  <1> SUFFICES ASSUME DiscardInv, [Next]_vars PROVE DiscardInv'
    OBVIOUS
  <1> USE DEF DiscardInv, DiscardHonoured, Discardable
  <1>1. CASE PressKey
    <2>1. main' = main /\ Listening
      BY <1>1 DEF PressKey
    <2>2. CASE PressLeft
      BY <2>1, <2>2, Zenon DEF PressLeft
    <2>3. CASE PressRight \/ PressEscape
      BY <2>1, <2>3 DEF PressRight, PressEscape
    <2>4. QED
      BY <1>1, <2>2, <2>3 DEF PressKey
  <1>2. CASE FinishPress
    BY <1>2 DEF FinishPress
  <1>3. CASE Interrupt
    BY <1>3 DEF Interrupt
  <1>4. CASE EngineReady
    BY <1>4 DEF EngineReady
  <1>5. CASE LoopEnds
    BY <1>5 DEF LoopEnds, GoesOn
  <1>6. CASE StartAttempt
    BY <1>6 DEF StartAttempt, GoesOn
  <1>7. CASE RecordFrame
    BY <1>7 DEF RecordFrame
  <1>8. CASE EndEpisode
    BY <1>8 DEF EndEpisode
  <1>9. CASE ChooseReset
    BY <1>9 DEF ChooseReset
  <1>10. CASE EndReset
    BY <1>10 DEF EndReset
  <1>11. CASE CheckRerecord
    BY <1>11 DEF CheckRerecord
  <1>12. CASE DiscardAttempt
    BY <1>12 DEF DiscardAttempt
  <1>13. CASE SaveEpisode
    BY <1>13 DEF SaveEpisode
  <1>14. CASE SaveFails
    BY <1>14 DEF SaveFails, CallFails
  <1>15. CASE CloseEpisode
    BY <1>15 DEF CloseEpisode, CallFails
  <1>16. CASE Finalize
    BY <1>16 DEF Finalize
  <1>17. CASE Push
    BY <1>17 DEF Push, CallFails
  <1>18. CASE ReleaseHardware
    BY <1>18 DEF ReleaseHardware
  <1>19. CASE IterationFails
    BY <1>19 DEF IterationFails, CallFails
  <1>20. CASE UNCHANGED vars
    BY <1>20
  <1>21. QED
    BY <1>1, <1>2, <1>3, <1>4, <1>5, <1>6, <1>7, <1>8, <1>9, <1>10, <1>11, <1>12, <1>13, <1>14, <1>15, <1>16, <1>17, <1>18, <1>19, <1>20 DEF Next, Operator, Main, Terminated

(* An attempt the operator asked to discard is not saved by the loop, at     *)
(* whatever point of it the key was pressed (episodic.py:178-190).           *)
THEOREM DiscardsHonoured == Spec => []DiscardHonoured
  <1>1. DiscardInv => DiscardHonoured
    BY DEF DiscardInv
  <1>2. QED
    BY DiscardInit, DiscardStep, <1>1, PTL DEF Spec
-----------------------------------------------------------------------------
(* Nothing was asked to stop and nothing failed. *)
Smooth == ~stop /\ ~shutdown /\ faults = 0 /\ ~blank

(* A smooth session leaves the loop with all its episodes, because only an   *)
(* attempt without a frame cannot be saved.                                  *)
CompleteInv ==
    /\ main \in {"over", "reset", "check", "discard", "save"} /\ buffer = {} => blank
    /\ broken => faults # 0
    /\ main = "closing" /\ buffer # {} => faults # 0
    /\ main \in {"closing", "finalize", "push", "release", "ended"} /\ Smooth
         => saved = NumEpisodes

LEMMA CompleteInit == Init => CompleteInv
  BY DEF Init, CompleteInv

LEMMA CompleteStep == TypeInv /\ CompleteInv /\ [Next]_vars => CompleteInv'
  <1> SUFFICES ASSUME TypeInv, CompleteInv, [Next]_vars PROVE CompleteInv'
    OBVIOUS
  <1> USE DEF TypeInv, Ranges, CountInv, InAttempt, CompleteInv, Smooth
  <1>1. CASE PressKey
    BY <1>1 DEF PressKey, PressRight, PressLeft, PressEscape
  <1>2. CASE FinishPress
    BY <1>2 DEF FinishPress
  <1>3. CASE Interrupt
    BY <1>3 DEF Interrupt
  <1>4. CASE EngineReady
    BY <1>4 DEF EngineReady
  <1>5. CASE LoopEnds
    <2>1. main = "head" /\ main' = "closing" /\ saved = recorded /\ buffer = {}
      BY <1>5 DEF LoopEnds
    <2>2. ASSUME Smooth' PROVE saved' = NumEpisodes
      <3>1. ~stop /\ ~shutdown
        BY <1>5, <2>2, Zenon DEF LoopEnds
      <3>2. ~(recorded < NumEpisodes)
        BY <1>5, <3>1, Zenon DEF LoopEnds, GoesOn
      <3>3. QED
        BY <1>5, <2>1, <3>2, ConfigAssumption DEF LoopEnds, ConfigAssumption
    <2>3. QED
      BY <1>5, <2>1, <2>2 DEF LoopEnds
  <1>6. CASE StartAttempt
    BY <1>6 DEF StartAttempt, GoesOn
  <1>7. CASE RecordFrame
    BY <1>7 DEF RecordFrame
  <1>8. CASE EndEpisode
    BY <1>8 DEF EndEpisode
  <1>9. CASE ChooseReset
    BY <1>9 DEF ChooseReset
  <1>10. CASE EndReset
    BY <1>10 DEF EndReset
  <1>11. CASE CheckRerecord
    BY <1>11 DEF CheckRerecord
  <1>12. CASE DiscardAttempt
    BY <1>12 DEF DiscardAttempt
  <1>13. CASE SaveEpisode
    BY <1>13 DEF SaveEpisode
  <1>14. CASE SaveFails
    <2>1. main = "save" /\ main' = "closing" /\ UNCHANGED <<buffer, blank, stop, shutdown, saved>>
      BY <1>14 DEF SaveFails
    <2>2. CASE buffer = {} /\ UNCHANGED <<broken, faults>>
      BY <2>1, <2>2
    <2>3. CASE buffer # {} /\ CallFails
      <3>1. faults' # 0
        BY <2>3 DEF CallFails
      <3>2. QED
        BY <2>1, <3>1
    <2>4. QED
      BY <1>14, <2>2, <2>3 DEF SaveFails
  <1>15. CASE CloseEpisode
    BY <1>15 DEF CloseEpisode, CallFails
  <1>16. CASE Finalize
    BY <1>16 DEF Finalize
  <1>17. CASE Push
    BY <1>17 DEF Push, CallFails
  <1>18. CASE ReleaseHardware
    BY <1>18 DEF ReleaseHardware
  <1>19. CASE IterationFails
    BY <1>19 DEF IterationFails, CallFails
  <1>20. CASE UNCHANGED vars
    BY <1>20
  <1>21. QED
    BY <1>1, <1>2, <1>3, <1>4, <1>5, <1>6, <1>7, <1>8, <1>9, <1>10, <1>11, <1>12, <1>13, <1>14, <1>15, <1>16, <1>17, <1>18, <1>19, <1>20 DEF Next, Operator, Main, Terminated

(* A session that nobody stops records all its episodes, unless a call fails *)
(* or an attempt ends without a frame (episodic.py:113, 190).                *)
THEOREM SessionsComplete == Spec => []SessionComplete
  <1>1. CompleteInv => SessionComplete
    BY DEF CompleteInv, SessionComplete, Smooth
  <1>2. QED
    BY TypeInit, TypeStep, CompleteInit, CompleteStep, <1>1, PTL DEF Spec
-----------------------------------------------------------------------------
(* What is on the Hub before and after the push, and the hardware last.      *)
HubInv ==
    /\ main \notin {"release", "ended"} => hub = 0
    /\ main = "release" => hub = saved \/ ~PushToHub
    /\ main # "ended" => ~released

LEMMA HubInit == Init => HubInv
  BY DEF Init, HubInv

LEMMA HubStep == HubInv /\ [Next]_vars => HubInv'
  <1> SUFFICES ASSUME HubInv, [Next]_vars PROVE HubInv'
    OBVIOUS
  <1> USE DEF HubInv
  <1>1. CASE PressKey
    BY <1>1 DEF PressKey, PressRight, PressLeft, PressEscape
  <1>2. CASE FinishPress
    BY <1>2 DEF FinishPress
  <1>3. CASE Interrupt
    BY <1>3 DEF Interrupt
  <1>4. CASE EngineReady
    BY <1>4 DEF EngineReady
  <1>5. CASE LoopEnds
    BY <1>5 DEF LoopEnds, GoesOn
  <1>6. CASE StartAttempt
    BY <1>6 DEF StartAttempt, GoesOn
  <1>7. CASE RecordFrame
    BY <1>7 DEF RecordFrame
  <1>8. CASE EndEpisode
    BY <1>8 DEF EndEpisode
  <1>9. CASE ChooseReset
    BY <1>9 DEF ChooseReset
  <1>10. CASE EndReset
    BY <1>10 DEF EndReset
  <1>11. CASE CheckRerecord
    BY <1>11 DEF CheckRerecord
  <1>12. CASE DiscardAttempt
    BY <1>12 DEF DiscardAttempt
  <1>13. CASE SaveEpisode
    BY <1>13 DEF SaveEpisode
  <1>14. CASE SaveFails
    BY <1>14 DEF SaveFails, CallFails
  <1>15. CASE CloseEpisode
    BY <1>15 DEF CloseEpisode, CallFails
  <1>16. CASE Finalize
    BY <1>16 DEF Finalize
  <1>17. CASE Push
    BY <1>17 DEF Push, CallFails
  <1>18. CASE ReleaseHardware
    BY <1>18 DEF ReleaseHardware
  <1>19. CASE IterationFails
    BY <1>19 DEF IterationFails, CallFails
  <1>20. CASE UNCHANGED vars
    BY <1>20
  <1>21. QED
    BY <1>1, <1>2, <1>3, <1>4, <1>5, <1>6, <1>7, <1>8, <1>9, <1>10, <1>11, <1>12, <1>13, <1>14, <1>15, <1>16, <1>17, <1>18, <1>19, <1>20 DEF Next, Operator, Main, Terminated

(* Every step is a step of EpisodeStore, or leaves the store as it is.       *)
LEMMA StoreStep == HubInv /\ [Next]_vars => [Store!Next]_Store!vars
  <1> SUFFICES ASSUME HubInv, [Next]_vars PROVE [Store!Next]_Store!vars
    OBVIOUS
  <1> USE DEF HubInv
  <1>1. CASE PressKey
    BY <1>1 DEF PressKey, PressRight, PressLeft, PressEscape, Store!Next, Store!Save, Store!Push, Store!Fail, Store!Close, Store!vars
  <1>2. CASE FinishPress
    BY <1>2 DEF FinishPress, Store!Next, Store!Save, Store!Push, Store!Fail, Store!Close, Store!vars
  <1>3. CASE Interrupt
    BY <1>3 DEF Interrupt, Store!Next, Store!Save, Store!Push, Store!Fail, Store!Close, Store!vars
  <1>4. CASE EngineReady
    BY <1>4 DEF EngineReady, Store!Next, Store!Save, Store!Push, Store!Fail, Store!Close, Store!vars
  <1>5. CASE LoopEnds
    BY <1>5 DEF LoopEnds, GoesOn, Store!Next, Store!Save, Store!Push, Store!Fail, Store!Close, Store!vars
  <1>6. CASE StartAttempt
    BY <1>6 DEF StartAttempt, GoesOn, Store!Next, Store!Save, Store!Push, Store!Fail, Store!Close, Store!vars
  <1>7. CASE RecordFrame
    BY <1>7 DEF RecordFrame, Store!Next, Store!Save, Store!Push, Store!Fail, Store!Close, Store!vars
  <1>8. CASE EndEpisode
    BY <1>8 DEF EndEpisode, Store!Next, Store!Save, Store!Push, Store!Fail, Store!Close, Store!vars
  <1>9. CASE ChooseReset
    BY <1>9 DEF ChooseReset, Store!Next, Store!Save, Store!Push, Store!Fail, Store!Close, Store!vars
  <1>10. CASE EndReset
    BY <1>10 DEF EndReset, Store!Next, Store!Save, Store!Push, Store!Fail, Store!Close, Store!vars
  <1>11. CASE CheckRerecord
    BY <1>11 DEF CheckRerecord, Store!Next, Store!Save, Store!Push, Store!Fail, Store!Close, Store!vars
  <1>12. CASE DiscardAttempt
    BY <1>12 DEF DiscardAttempt, Store!Next, Store!Save, Store!Push, Store!Fail, Store!Close, Store!vars
  <1>13. CASE SaveEpisode
    BY <1>13 DEF SaveEpisode, Store!Next, Store!Save, Store!Push, Store!Fail, Store!Close, Store!vars
  <1>14. CASE SaveFails
    BY <1>14 DEF SaveFails, CallFails, Store!Next, Store!Save, Store!Push, Store!Fail, Store!Close, Store!vars
  <1>15. CASE CloseEpisode
    BY <1>15 DEF CloseEpisode, CallFails, Store!Next, Store!Save, Store!Push, Store!Fail, Store!Close, Store!vars
  <1>16. CASE Finalize
    BY <1>16 DEF Finalize, Store!Next, Store!Save, Store!Push, Store!Fail, Store!Close, Store!vars
  <1>17. CASE Push
    BY <1>17 DEF Push, CallFails, Store!Next, Store!Save, Store!Push, Store!Fail, Store!Close, Store!vars
  <1>18. CASE ReleaseHardware
    BY <1>18 DEF ReleaseHardware, Store!Next, Store!Save, Store!Push, Store!Fail, Store!Close, Store!vars
  <1>19. CASE IterationFails
    BY <1>19 DEF IterationFails, CallFails, Store!Next, Store!Save, Store!Push, Store!Fail, Store!Close, Store!vars
  <1>20. CASE UNCHANGED vars
    BY <1>20 DEF Store!Next, Store!Save, Store!Push, Store!Fail, Store!Close, Store!vars
  <1>21. QED
    BY <1>1, <1>2, <1>3, <1>4, <1>5, <1>6, <1>7, <1>8, <1>9, <1>10, <1>11, <1>12, <1>13, <1>14, <1>15, <1>16, <1>17, <1>18, <1>19, <1>20 DEF Next, Operator, Main, Terminated

(* A session keeps the promise of EpisodeStore (episodic.py:190-198,         *)
(* 305-335).                                                                 *)
THEOREM StoreImplemented == Spec => StoreSpec
  <1>1. Init => Store!Init
    BY ConfigAssumption DEF ConfigAssumption, Init, Store!Init
  <1>2. HubInv /\ [Next]_vars => [Store!Next]_Store!vars
    BY StoreStep
  <1>3. QED
    BY HubInit, HubStep, <1>1, <1>2, PTL DEF Spec, StoreSpec, Store!Spec
=============================================================================
