------------------------- MODULE RtcInferenceProofs -------------------------
(***************************************************************************)
(* Proofs about RtcInference, for every chunk size, threshold, number of   *)
(* warmups and latency.  QueueBounded is not inductive: the size of the    *)
(* queue is read several steps before a chunk is merged, so the invariant  *)
(* carries what the thread has learnt from it (RefilledLow).  For          *)
(* RepeatsBounded and SkipsAccounted it relates, at each step of the       *)
(* thread, the actions popped since the queue was read to the periods on   *)
(* the engine's clock (Planned), and for appended chunks the chunk that is *)
(* predicted to the end of the queue (PlannedFromQueue).                   *)
(***************************************************************************)
EXTENDS RtcInference, SequenceTheorems, TLAPS

(* The thread stops counting errors when it gives up. *)
ErrorsCounted == errors >= MaxErrors => rtc \in {"failing", "dead"}

(* From its check to the merge the thread is the only one to add actions. *)
RefilledLow == rtc \in {"begin", "infer", "merge"} => Len(queue) <= Threshold

(* An action was popped whose period has not ended yet. *)
Unended == IF main = "sleeping" THEN 1 ELSE 0

(* There is an action to follow, or one was executed in the last period. *)
Following == queue # <<>> \/ ~starved

(* The chunk being predicted continues the plan from where the queue was read, *)
(* `popped' actions ago.                                                       *)
Continues(popped) ==
    IF popped = 0 THEN base = NextOffset ELSE base = 1 - popped /\ NextOffset = 1

(* No gap inside of a queue that is one chunk. *)
Consecutive == \A i \in 1..Len(queue) : queue[i] = NextOffset + i - 1

(* The engine's clock has measured all but the instants around the inference. *)
Clocked ==
    /\ rtc = "begin" => elapsed <= Jitter
    /\ rtc \in {"begin", "infer"} => late = 0
    /\ rtc = "merge" => delay \in {elapsed, elapsed + 1}

(* In each period the clock measured one action was executed, but for those    *)
(* lost, those before the queue was read and the one in progress.              *)
Planned ==
    Following /\ rtc \in {"infer", "merge"} =>
        \E popped \in Nat :
            /\ Continues(popped)
            /\ popped <= elapsed - lost + late + Unended
            /\ elapsed - lost + Unended <= popped + Jitter + 1

(* The next action is not far back. *)
NearPlan == ~starved => NextOffset >= -Jitter

(* The offset the plan ends with. *)
LastOffset == IF queue = <<>> THEN 0 ELSE queue[Len(queue)]

(* How far one appended chunk may go back. *)
Back == (1 - Threshold)..1

(* Appended chunks go back by what was left of the queue, nothing is skipped,  *)
(* and there is no gap in what is left of the last chunk.                      *)
Appended ==
    /\ NextOffset \in Back
    /\ \A i \in 1..(Len(queue) - 1) : queue[i + 1] - queue[i] \in Back
    /\ \A i \in 1..Len(queue) :
          i > Len(queue) - ChunkSize => queue[i] = LastOffset - (Len(queue) - i)

(* The chunk being predicted will be appended that little before the end. *)
PlannedFromQueue == rtc \in {"infer", "merge"} => base - LastOffset \in Back

(* RTCConfig.enabled is read, never written. *)
LEMMA ModeFixed == [Next]_vars => enabled' = enabled
  BY DEF Next, ControlLoop, Operator, Inference, Terminated, vars, mainVars,
         Observe, Notify, WaitForWarmup, FlushWarmup, GetAction, HoldPosition,
         EndPeriod, LoopOverruns, Resume, StopEngine, Pause, BeginReset, RequestShutdown,
         TakeObservation, CheckQueue, ReadLeftOver, Predict, PredictFails,
         GiveUp, Merge, FinishInference, EndThread

(* The queue after a reset. *)
LEMMA EmptyQueue == <<>> \in Seq(Int) /\ Len(<<>>) = 0
  OBVIOUS

(* What is left after the head of a queue is executed. *)
LEMMA PoppedType ==
  ASSUME NEW q \in Seq(Int), q # <<>>
  PROVE  /\ Len(q) \in Nat \ {0}
         /\ Head(q) \in Int
         /\ [i \in 1..(Len(q) - 1) |-> q[i + 1] - Head(q)] \in Seq(Int)
         /\ Len([i \in 1..(Len(q) - 1) |-> q[i + 1] - Head(q)]) = Len(q) - 1
<1>1. Len(q) \in Nat \ {0}
  OBVIOUS
<1>2. Head(q) = q[1] /\ q[1] \in Int
  BY <1>1
<1>3. \A i \in 1..(Len(q) - 1) : q[i + 1] - Head(q) \in Int
  BY <1>1, <1>2
<1>4. Len(q) - 1 \in Nat
  BY <1>1
<1> QED
  BY <1>1, <1>2, <1>3, <1>4

(* A chunk is a sequence of ChunkSize offsets. *)
LEMMA ChunkType ==
  ASSUME NEW b \in Int
  PROVE  /\ ChunkFrom(b) \in Seq(Int)
         /\ Len(ChunkFrom(b)) = ChunkSize
         /\ \A i \in 1..ChunkSize : ChunkFrom(b)[i] = b + i - 1
<1>1. ChunkSize \in Nat \ {0}
  BY ConfigAssumption DEF ConfigAssumption
<1>2. \A i \in 1..ChunkSize : b + i - 1 \in Int
  BY <1>1
<1> QED
  BY <1>1, <1>2 DEF ChunkFrom

(* What is left of a chunk when a delay is cut off it. *)
LEMMA CutType ==
  ASSUME NEW b \in Int, NEW d \in Nat
  PROVE  /\ SubSeq(ChunkFrom(b), Clamped(d) + 1, ChunkSize) \in Seq(Int)
         /\ Len(SubSeq(ChunkFrom(b), Clamped(d) + 1, ChunkSize)) <= ChunkSize
<1>1. ChunkSize \in Nat \ {0}
  BY ConfigAssumption DEF ConfigAssumption
<1>2. Clamped(d) \in 0..ChunkSize
  BY <1>1 DEF Clamped
<1>3. ChunkFrom(b) \in Seq(Int) /\ Len(ChunkFrom(b)) = ChunkSize
  BY ChunkType
<1> DEFINE c == ChunkFrom(b)
           m == Clamped(d) + 1
<1>4. c \in Seq(Int) /\ Len(c) = ChunkSize /\ m \in 1..(ChunkSize + 1)
  BY <1>1, <1>2, <1>3
<1> HIDE DEF c, m
<1>5. SubSeq(c, m, ChunkSize) \in Seq(Int) /\ Len(SubSeq(c, m, ChunkSize)) <= ChunkSize
  BY <1>1, <1>4
<1> QED
  BY <1>5 DEF c, m

(* A chunk put behind a queue. *)
LEMMA ConcatType ==
  ASSUME NEW q \in Seq(Int), NEW c \in Seq(Int)
  PROVE  /\ q \o c \in Seq(Int)
         /\ Len(q \o c) = Len(q) + Len(c)
         /\ \A i \in 1..(Len(q) + Len(c)) :
               (q \o c)[i] = IF i <= Len(q) THEN q[i] ELSE c[i - Len(q)]
  OBVIOUS

(* The periods on the engine's clock. *)
LEMMA PeriodType ==
  ASSUME TypeOK, NEW u \in {0, 1}, PeriodPasses(u)
  PROVE  elapsed' \in 0..MaxLatency /\ late' \in 0..Jitter /\ lost' \in 0..elapsed'
<1>1. /\ elapsed \in Nat /\ late \in Nat /\ lost \in Nat /\ lost <= elapsed
      /\ elapsed <= MaxLatency /\ late <= Jitter
      /\ MaxLatency \in Nat /\ Jitter \in Nat /\ Jitter <= MaxLatency
  BY TimingAssumption DEF TypeOK, TimingAssumption
<1>2. CASE rtc \in {"begin", "infer"}
  BY <1>1, <1>2 DEF PeriodPasses
<1>3. CASE rtc \notin {"begin", "infer"}
  BY <1>1, <1>3 DEF PeriodPasses
<1> QED
  BY <1>2, <1>3
-----------------------------------------------------------------------------
(* Every variable of the engine and of the strategy's control loop keeps    *)
(* its type: the run's clock stays within the bounds and the count of        *)
(* consecutive errors never passes _RTC_MAX_CONSECUTIVE_ERRORS.              *)
THEOREM TypeCorrect == Spec => [](TypeOK /\ ErrorsCounted)
<1> USE ConfigAssumption, TimingAssumption
        DEF ConfigAssumption, TimingAssumption, Ages, mainVars, queueVars,
            threadVars, clockVars, planVars
<1>1. Init => TypeOK /\ ErrorsCounted
  <2>1. /\ 0 \in 0..MaxLatency /\ 0 \in 0..Jitter
        /\ 0 \in 0..Warmups /\ 0 \in 0..MaxErrors
    OBVIOUS
  <2>2. ~(0 >= MaxErrors)
    OBVIOUS
  <2>3. Init => queue \in Seq(Int)
    BY EmptyQueue DEF Init
  <2>4. Init => TypeOK
    <3> SUFFICES ASSUME Init PROVE TypeOK
      OBVIOUS
    <3>1. /\ active \in BOOLEAN /\ shutdown \in BOOLEAN /\ stopping \in BOOLEAN
          /\ flushed \in BOOLEAN /\ warm \in BOOLEAN /\ failed \in BOOLEAN
          /\ starved \in BOOLEAN
      BY DEF Init
    <3>2. /\ base \in Int /\ delay \in Nat
          /\ elapsed = 0 /\ late = 0 /\ lost = 0 /\ count = 0 /\ errors = 0
      BY DEF Init
    <3> QED
      BY <2>1, <2>3, <3>1, <3>2 DEF Init, TypeOK
  <2>5. Init => ErrorsCounted
    BY <2>2 DEF Init, ErrorsCounted
  <2> QED
    BY <2>4, <2>5
<1>2. TypeOK /\ ErrorsCounted /\ [Next]_vars => TypeOK'
  <2> SUFFICES ASSUME TypeOK, ErrorsCounted, [Next]_vars
               PROVE  TypeOK'
    OBVIOUS
  <2> USE DEF TypeOK
  <2>1. CASE Observe
    BY <2>1 DEF Observe
  <2>2. CASE Notify
    BY <2>2 DEF Notify
  <2>3. CASE WaitForWarmup
    BY <2>3, PeriodType DEF WaitForWarmup
  <2>4. CASE FlushWarmup
    BY <2>4, EmptyQueue DEF FlushWarmup, ResetEngine, Aged
  <2>5. CASE GetAction
    <3>2. queue' \in Seq(Int) /\ base' \in Int /\ starved' \in BOOLEAN
      <4>1. CASE queue = <<>>
        BY <2>5, <4>1 DEF GetAction
      <4>2. CASE queue # <<>>
        <5>1. Head(queue) \in Int
          BY <4>2, PoppedType
        <5>2. [i \in 1..(Len(queue) - 1) |-> queue[i + 1] - Head(queue)] \in Seq(Int)
          BY <4>2, PoppedType
        <5>3. /\ queue' = [i \in 1..(Len(queue) - 1) |-> queue[i + 1] - Head(queue)]
              /\ base' \in {base, base - Head(queue)} /\ starved' = FALSE
          BY <2>5, <4>2 DEF GetAction
        <5>4. base' \in Int
          BY <5>1, <5>3
        <5>6. queue' \in Seq(Int)
          BY <5>2, <5>3, Zenon
        <5> QED
          BY <5>3, <5>4, <5>6
      <4> QED
        BY <4>1, <4>2
    <3> QED
      BY <2>5, <3>2 DEF GetAction
  <2>6. CASE HoldPosition
    BY <2>6, PeriodType DEF HoldPosition
  <2>7. CASE Resume
    BY <2>7 DEF Resume
  <2>8. CASE StopEngine
    BY <2>8 DEF StopEngine
  <2>9. CASE Pause
    <3>1. active' \in BOOLEAN /\ main' = "paused"
      BY <2>9 DEF Pause
    <3> QED
      BY <2>9, <3>1 DEF Pause
  <2>10. CASE BeginReset
    BY <2>10, EmptyQueue DEF BeginReset, ResetEngine, Aged
  <2>11. CASE RequestShutdown
    BY <2>11 DEF RequestShutdown
  <2>12. CASE TakeObservation
    BY <2>12 DEF TakeObservation
  <2>13. CASE CheckQueue
    BY <2>13 DEF CheckQueue, Forget
  <2>14. CASE ReadLeftOver
    <3>1. NextOffset \in Int
      BY PoppedType DEF NextOffset
    <3> QED
      BY <2>14, <3>1 DEF ReadLeftOver
  <2>15. CASE Predict
    BY <2>15 DEF Predict, MeasuredDelays
  <2>16. CASE PredictFails
    <3>1. errors < MaxErrors
      BY <2>16 DEF PredictFails, ErrorsCounted
    <3>2. errors' = errors + 1
      BY <2>16 DEF PredictFails
    <3>3. errors' \in 0..MaxErrors
      BY <3>1, <3>2
    <3>4. rtc' \in {"idle", "failing"} /\ warm' \in BOOLEAN /\ failed' \in BOOLEAN
      BY <2>16 DEF PredictFails
    <3> QED
      BY <2>16, <3>3, <3>4 DEF PredictFails, Forget
  <2>17. CASE GiveUp
    BY <2>17 DEF GiveUp
  <2>18. CASE Merge
    <3>1. CASE enabled
      <4>1. queue' = SubSeq(ChunkFrom(base), Clamped(delay) + 1, ChunkSize) /\ origin' = taken
        BY <2>18, <3>1 DEF Merge, Replace
      <4>2. queue' \in Seq(Int)
        BY <4>1, CutType
      <4> QED
        BY <2>18, <4>1, <4>2 DEF Merge
    <3>2. CASE ~enabled
      <4>1. queue' = queue \o ChunkFrom(base) /\ origin' \in {taken, origin}
        BY <2>18, <3>2 DEF Merge, AppendChunk
      <4>2. ChunkFrom(base) \in Seq(Int)
        BY ChunkType
      <4>3. queue' \in Seq(Int)
        BY <4>1, <4>2
      <4> QED
        BY <2>18, <4>1, <4>3 DEF Merge
    <3> QED
      BY <3>1, <3>2
  <2>19. CASE FinishInference
    BY <2>19 DEF FinishInference, Forget
  <2>20. CASE EndThread
    BY <2>20 DEF EndThread
  <2>21. CASE UNCHANGED vars
    BY <2>21 DEF vars
  <2>22. CASE EndPeriod
    BY <2>22, PeriodType DEF EndPeriod
  <2>23. CASE LoopOverruns
    BY <2>23, PeriodType DEF LoopOverruns
  <2> QED
    BY <2>1, <2>2, <2>3, <2>4, <2>5, <2>6, <2>7, <2>8, <2>9, <2>10, <2>11,
       <2>12, <2>13, <2>14, <2>15, <2>16, <2>17, <2>18, <2>19, <2>20, <2>21,
       <2>22, <2>23
       DEF Next, ControlLoop, Operator, Inference, Terminated
<1>3. TypeOK /\ ErrorsCounted /\ [Next]_vars => ErrorsCounted'
  <2> SUFFICES ASSUME TypeOK, ErrorsCounted, [Next]_vars
               PROVE  ErrorsCounted'
    OBVIOUS
  <2> USE DEF TypeOK, ErrorsCounted
  <2>1. CASE Predict
    BY <2>1 DEF Predict
  <2>2. CASE PredictFails
    BY <2>2 DEF PredictFails
  <2>3. CASE GiveUp
    BY <2>3 DEF GiveUp
  <2>4. CASE errors' = errors /\ (rtc' = rtc \/ rtc \notin {"failing", "dead"})
    BY <2>4
  <2>5. CASE ControlLoop \/ LoopOverruns
    BY <2>4, <2>5
       DEF ControlLoop, Observe, Notify, WaitForWarmup, FlushWarmup, GetAction,
           EndPeriod, LoopOverruns, HoldPosition, Resume, StopEngine
  <2>6. CASE Operator
    BY <2>4, <2>6 DEF Operator, Pause, BeginReset, RequestShutdown
  <2>7. CASE TakeObservation \/ CheckQueue \/ ReadLeftOver
    BY <2>4, <2>7 DEF TakeObservation, CheckQueue, ReadLeftOver
  <2>8. CASE Merge \/ FinishInference \/ EndThread
    BY <2>4, <2>8 DEF Merge, FinishInference, EndThread
  <2>9. CASE UNCHANGED vars
    BY <2>4, <2>9 DEF vars
  <2> QED
    BY <2>1, <2>2, <2>3, <2>5, <2>6, <2>7, <2>8, <2>9
       DEF Next, Inference, Terminated
<1> QED
  BY <1>1, <1>2, <1>3, PTL DEF Spec
-----------------------------------------------------------------------------
(* The queue never holds more than a chunk, or, when chunks are appended,    *)
(* than a chunk and rtc_queue_threshold actions: the thread alone adds       *)
(* actions, so the size it read bounds the queue until it merges.            *)
THEOREM QueueNeverOutgrown == Spec => [](RefilledLow /\ QueueBounded)
<1> DEFINE IInv == RefilledLow /\ QueueBounded
<1> USE ConfigAssumption
        DEF ConfigAssumption, mainVars, queueVars, threadVars, clockVars, planVars
<1>1. Init => IInv
  BY EmptyQueue DEF Init, RefilledLow, QueueBounded
<1>2. TypeOK /\ IInv /\ [Next]_vars => IInv'
  <2> SUFFICES ASSUME TypeOK, IInv, [Next]_vars
               PROVE  IInv'
    OBVIOUS
  <2>0. /\ queue \in Seq(Int) /\ Len(queue) \in Nat /\ base \in Int /\ delay \in Nat
        /\ enabled \in BOOLEAN /\ enabled' = enabled
    BY ModeFixed DEF TypeOK
  <2> USE DEF RefilledLow, QueueBounded
  <2>1. CASE UNCHANGED <<queue, rtc>>
    BY <2>0, <2>1
  <2>2. CASE queue' = <<>> /\ UNCHANGED rtc
    BY <2>0, <2>2, EmptyQueue
  <2>3. CASE GetAction
    <3>1. CASE queue = <<>>
      BY <2>1, <2>3, <3>1 DEF GetAction
    <3>2. CASE queue # <<>>
      <4>1. queue' = [i \in 1..(Len(queue) - 1) |-> queue[i + 1] - Head(queue)] /\ rtc' = rtc
        BY <2>3, <3>2 DEF GetAction
      <4>2. Len(queue') = Len(queue) - 1
        BY <2>0, <3>2, <4>1, PoppedType
      <4>3. Len(queue') <= Len(queue) /\ Len(queue') \in Int
        BY <2>0, <4>2
      <4>4. rtc' = rtc
        BY <4>1
      <4> QED
        BY <2>0, <4>3, <4>4
    <3> QED
      BY <3>1, <3>2
  <2>4. CASE \/ Observe \/ Notify \/ WaitForWarmup \/ EndPeriod
             \/ LoopOverruns \/ HoldPosition \/ Resume \/ StopEngine
    BY <2>1, <2>4
       DEF Observe, Notify, WaitForWarmup, EndPeriod, LoopOverruns,
           HoldPosition, Resume, StopEngine
  <2>5. CASE Pause \/ RequestShutdown
    BY <2>1, <2>5 DEF Pause, RequestShutdown
  <2>6. CASE FlushWarmup \/ BeginReset
    BY <2>2, <2>6 DEF FlushWarmup, BeginReset, ResetEngine
  <2>7. CASE CheckQueue
    BY <2>0, <2>7 DEF CheckQueue
  <2>8. CASE ReadLeftOver \/ Predict
    BY <2>0, <2>8 DEF ReadLeftOver, Predict
  <2>9. CASE TakeObservation \/ PredictFails \/ GiveUp \/ FinishInference \/ EndThread
    BY <2>0, <2>9 DEF TakeObservation, PredictFails, GiveUp, FinishInference, EndThread
  <2>10. CASE Merge
    <3>1. rtc' = "finish" /\ Len(queue) <= Threshold
      BY <2>10 DEF Merge
    <3>2. CASE enabled
      <4>1. queue' = SubSeq(ChunkFrom(base), Clamped(delay) + 1, ChunkSize)
        BY <2>10, <3>2 DEF Merge, Replace
      <4>2. Len(queue') <= ChunkSize
        BY <2>0, <4>1, CutType
      <4> QED
        BY <3>1, <3>2, <4>2
    <3>3. CASE ~enabled
      <4>1. queue' = queue \o ChunkFrom(base)
        BY <2>10, <3>3 DEF Merge, AppendChunk
      <4>2. ChunkFrom(base) \in Seq(Int) /\ Len(ChunkFrom(base)) = ChunkSize
        BY <2>0, ChunkType
      <4>3. Len(queue') = Len(queue) + ChunkSize
        BY <2>0, <4>1, <4>2, ConcatType
      <4> QED
        BY <2>0, <3>1, <3>3, <4>3
    <3> QED
      BY <3>2, <3>3
  <2>11. CASE UNCHANGED vars
    BY <2>1, <2>11 DEF vars
  <2> QED
    BY <2>3, <2>4, <2>5, <2>6, <2>7, <2>8, <2>9, <2>10, <2>11
       DEF Next, ControlLoop, Operator, Inference, Terminated
<1>3. Spec => []TypeOK
  BY TypeCorrect, PTL
<1> QED
  BY <1>1, <1>2, <1>3, PTL DEF Spec
-----------------------------------------------------------------------------
(* What executing an action leaves of a queue, counted from that action. *)
LEMMA PoppedQueue ==
  ASSUME queue \in Seq(Int), queue # <<>>,
         queue' = [i \in 1..(Len(queue) - 1) |-> queue[i + 1] - Head(queue)]
  PROVE  /\ Len(queue) \in Nat \ {0} /\ Len(queue') = Len(queue) - 1
         /\ Head(queue) = queue[1] /\ NextOffset = queue[1] /\ queue[1] \in Int
         /\ \A i \in 1..(Len(queue) - 1) : queue'[i] = queue[i + 1] - queue[1]
         /\ LastOffset' = LastOffset - queue[1]
         /\ NextOffset' = IF Len(queue) = 1 THEN 1 ELSE queue[2] - queue[1]
<1>1. Len(queue) \in Nat \ {0} /\ Head(queue) = queue[1] /\ queue[1] \in Int
  OBVIOUS
<1>2. queue' \in Seq(Int) /\ Len(queue') = Len(queue) - 1
  BY PoppedType
<1>3. NextOffset = queue[1] /\ LastOffset = queue[Len(queue)]
  BY <1>1 DEF NextOffset, LastOffset
<1>4. \A i \in 1..(Len(queue) - 1) : queue'[i] = queue[i + 1] - queue[1]
  BY <1>1
<1>5. CASE Len(queue) = 1
  <2>1. queue' = <<>>
    BY <1>2, <1>5
  <2>2. NextOffset' = 1 /\ LastOffset' = 0
    BY <2>1 DEF NextOffset, LastOffset
  <2>3. LastOffset - queue[1] = 0
    BY <1>1, <1>3, <1>5
  <2> QED
    BY <1>1, <1>2, <1>3, <1>4, <1>5, <2>2, <2>3
<1> PICK n \in Nat \ {0} : n = Len(queue)
  BY <1>1
<1>6. CASE Len(queue) # 1
  <2>0. Len(queue) \in Nat /\ Len(queue) >= 2
    <3>1. n # 1
      BY <1>6
    <3>2. n >= 2
      BY <3>1
    <3> QED
      BY <3>2
  <2>1. Len(queue) - 1 \in 1..(Len(queue) - 1) /\ 1 \in 1..(Len(queue) - 1)
    BY <2>0
  <2>2. queue' # <<>> /\ Head(queue') = queue'[1]
    <3>1. Len(queue') # 0
      BY <1>2, <2>0
    <3>2. queue' # <<>>
      BY <3>1, EmptyQueue, Zenon
    <3>3. Head(queue') = queue'[1]
      OBVIOUS
    <3> QED
      BY <3>2, <3>3
  <2>3. queue'[1] = queue[2] - queue[1]
    BY <1>4, <2>1
  <2>4. queue'[Len(queue) - 1] = queue[Len(queue)] - queue[1]
    <3>1. queue'[Len(queue) - 1] = queue[(Len(queue) - 1) + 1] - queue[1]
      BY <1>4, <2>1
    <3>2. (Len(queue) - 1) + 1 = Len(queue)
      BY <1>1
    <3> QED
      BY <3>1, <3>2
  <2>5. NextOffset' = queue[2] - queue[1]
    BY <2>2, <2>3 DEF NextOffset
  <2>6. LastOffset' = LastOffset - queue[1]
    BY <1>2, <1>3, <2>2, <2>4 DEF LastOffset
  <2> QED
    BY <1>1, <1>2, <1>3, <1>4, <1>6, <2>5, <2>6
<1> QED
  BY <1>5, <1>6

(* The head of a queue that is what is left of one chunk. *)
LEMMA OneChunkLeft ==
  ASSUME queue \in Seq(Int), Appended, Len(queue) <= Threshold, Threshold < ChunkSize
  PROVE  NextOffset - LastOffset \in Back
<1>0. ChunkSize \in Nat /\ Threshold \in Nat /\ Len(queue) \in Nat
  BY ConfigAssumption DEF ConfigAssumption
<1>1. CASE queue = <<>>
  BY <1>0, <1>1 DEF NextOffset, LastOffset, Back
<1>2. CASE queue # <<>>
  <2>1. /\ NextOffset = queue[1] /\ LastOffset = queue[Len(queue)] /\ Len(queue) >= 1
        /\ queue[1] \in Int /\ queue[Len(queue)] \in Int
    BY <1>2 DEF NextOffset, LastOffset
  <2>2. queue[1] = LastOffset - (Len(queue) - 1)
    BY <1>0, <2>1 DEF Appended
  <2> QED
    BY <1>0, <2>1, <2>2 DEF Back
<1> QED
  BY <1>1, <1>2

(* Executing an action of a queue of appended chunks. *)
LEMMA AppendedPop ==
  ASSUME queue \in Seq(Int), queue # <<>>, Appended,
         queue' = [i \in 1..(Len(queue) - 1) |-> queue[i + 1] - Head(queue)]
  PROVE  Appended'
<1>0. ChunkSize \in Nat /\ Threshold \in Nat
  BY ConfigAssumption DEF ConfigAssumption
<1>1. /\ Len(queue) \in Nat \ {0} /\ Len(queue') = Len(queue) - 1
      /\ queue[1] \in Int
      /\ \A i \in 1..(Len(queue) - 1) : queue'[i] = queue[i + 1] - queue[1]
      /\ LastOffset' = LastOffset - queue[1]
      /\ NextOffset' = IF Len(queue) = 1 THEN 1 ELSE queue[2] - queue[1]
  BY PoppedQueue
<1>2. \A i \in 1..Len(queue) : queue[i] \in Int
  OBVIOUS
<1> PICK n \in Nat \ {0} : n = Len(queue)
  BY <1>1
<1>3. LastOffset \in Int
  BY <1>1, <1>2 DEF LastOffset
<1>4. NextOffset' \in Back
  <2>1. CASE Len(queue) = 1
    BY <1>0, <1>1, <2>1 DEF Back
  <2>2. CASE Len(queue) # 1
    <3>0. Len(queue) \in Nat /\ Len(queue) >= 2
      <4>1. n # 1
        BY <2>2
      <4>2. n >= 2
        BY <4>1
      <4> QED
        BY <4>2
    <3>1. 1 \in 1..(Len(queue) - 1)
      BY <3>0
    <3>2. queue[1 + 1] - queue[1] \in Back
      BY <3>1 DEF Appended
    <3> QED
      BY <1>1, <2>2, <3>2
  <2> QED
    BY <2>1, <2>2
<1>5. ASSUME NEW i \in 1..(Len(queue) - 2)
      PROVE  queue'[i + 1] - queue'[i] \in Back
  <2>1. /\ i \in 1..(Len(queue) - 1) /\ i + 1 \in 1..(Len(queue) - 1)
        /\ i + 1 \in 1..Len(queue) /\ (i + 1) + 1 \in 1..Len(queue)
    BY <1>1
  <2>2. queue[(i + 1) + 1] - queue[i + 1] \in Back
    BY <2>1 DEF Appended
  <2>3. /\ queue'[i + 1] = queue[(i + 1) + 1] - queue[1]
        /\ queue'[i] = queue[i + 1] - queue[1]
    BY <1>1, <2>1
  <2>4. queue[(i + 1) + 1] \in Int /\ queue[i + 1] \in Int
    BY <1>2, <2>1
  <2>5. queue'[i + 1] - queue'[i] = queue[(i + 1) + 1] - queue[i + 1]
    BY <1>1, <2>3, <2>4
  <2> QED
    BY <2>2, <2>5
<1>6. ASSUME NEW i \in 1..(Len(queue) - 1), i > (Len(queue) - 1) - ChunkSize
      PROVE  queue'[i] = LastOffset' - ((Len(queue) - 1) - i)
  <2>1. i + 1 \in 1..Len(queue) /\ i + 1 > Len(queue) - ChunkSize
    BY <1>0, <1>1, <1>6
  <2>2. queue[i + 1] = LastOffset - (Len(queue) - (i + 1))
    BY <2>1 DEF Appended
  <2>3. queue'[i] = queue[i + 1] - queue[1] /\ i \in Int
    BY <1>1
  <2> QED
    BY <1>1, <1>3, <2>2, <2>3
<1>7. Len(queue') - 1 = Len(queue) - 2
  BY <1>1
<1> QED
  BY <1>1, <1>4, <1>5, <1>6, <1>7 DEF Appended

(* Merging a chunk that was planned from the end of the queue. *)
LEMMA AppendedMerge ==
  ASSUME queue \in Seq(Int), base \in Int, Appended, base - LastOffset \in Back,
         queue' = queue \o ChunkFrom(base)
  PROVE  Appended'
<1>0. ChunkSize \in Nat \ {0} /\ Threshold \in Nat /\ Len(queue) \in Nat
  BY ConfigAssumption DEF ConfigAssumption
<1> PICK n \in Nat : n = Len(queue)
  BY <1>0
<1> DEFINE c == ChunkFrom(base)
<1>1. /\ c \in Seq(Int) /\ Len(c) = ChunkSize
      /\ \A i \in 1..ChunkSize : c[i] = base + i - 1
  BY ChunkType
<1>2. /\ queue' \in Seq(Int) /\ Len(queue') = n + ChunkSize
      /\ \A i \in 1..(n + ChunkSize) :
            queue'[i] = IF i <= n THEN queue[i] ELSE c[i - n]
  <2>1. queue' = queue \o c
    OBVIOUS
  <2> HIDE DEF c
  <2>2. queue \in Seq(Int) /\ c \in Seq(Int)
    BY <1>1
  <2>3. /\ queue \o c \in Seq(Int)
        /\ Len(queue \o c) = Len(queue) + Len(c)
        /\ \A i \in 1..(Len(queue) + Len(c)) :
              (queue \o c)[i] = IF i <= Len(queue) THEN queue[i] ELSE c[i - Len(queue)]
    BY <2>2, ConcatType, Zenon
  <2>4. Len(queue) = n /\ Len(c) = ChunkSize
    BY <1>1
  <2> QED
    BY <2>1, <2>3, <2>4, Zenon
<1>3. \A i \in 1..n : queue[i] \in Int
  OBVIOUS
<1>4. ASSUME NEW i \in (n + 1)..(n + ChunkSize) PROVE queue'[i] = base + (i - n) - 1
  <2>1. i - n \in 1..ChunkSize /\ i \in 1..(n + ChunkSize) /\ ~(i <= n)
    BY <1>0
  <2> QED
    BY <1>1, <1>2, <2>1
<1> HIDE DEF c
<1>5. LastOffset' = base + ChunkSize - 1
  <2>1. n + ChunkSize \in (n + 1)..(n + ChunkSize) /\ queue' # <<>>
    BY <1>0, <1>2
  <2>2. queue'[n + ChunkSize] = base + ((n + ChunkSize) - n) - 1
    BY <1>4, <2>1
  <2> QED
    BY <1>0, <1>2, <2>1, <2>2 DEF LastOffset
<1>6. NextOffset' \in Back
  <2>0. queue' # <<>> /\ NextOffset' = queue'[1]
    BY <1>0, <1>2 DEF NextOffset
  <2>1. CASE n = 0
    <3>0. queue = <<>>
      <4>1. Len(queue) = 0
        BY <2>1
      <4> QED
        BY <4>1
    <3>1. LastOffset = 0 /\ base - 0 = base
      BY <3>0 DEF LastOffset
    <3>2. queue'[1] = base + (1 - n) - 1
      <4>1. 1 \in (n + 1)..(n + ChunkSize)
        BY <1>0, <2>1
      <4> QED
        BY <1>4, <4>1
    <3> QED
      BY <2>0, <2>1, <3>1, <3>2
  <2>2. CASE n # 0
    <3>1. queue'[1] = queue[1] /\ NextOffset = queue[1]
      BY <1>0, <1>2, <2>2 DEF NextOffset
    <3> QED
      BY <2>0, <3>1 DEF Appended
  <2> QED
    BY <2>1, <2>2
<1>7. ASSUME NEW i \in 1..(n + ChunkSize - 1)
      PROVE  queue'[i + 1] - queue'[i] \in Back
  <2>1. CASE i < n
    <3>1. i \in 1..(n - 1) /\ i \in 1..(n + ChunkSize) /\ i + 1 \in 1..(n + ChunkSize)
      BY <1>0, <2>1
    <3>2. queue'[i] = queue[i] /\ queue'[i + 1] = queue[i + 1]
      BY <1>0, <1>2, <3>1
    <3> QED
      BY <3>1, <3>2 DEF Appended
  <2>2. CASE i = n
    <3>1. n \in 1..(n + ChunkSize) /\ n + 1 \in (n + 1)..(n + ChunkSize)
      BY <1>0, <2>2
    <3>2. queue'[n] = queue[n] /\ LastOffset = queue[n]
      BY <1>0, <1>2, <2>2, <3>1 DEF LastOffset
    <3>3. queue'[n + 1] = base + ((n + 1) - n) - 1
      BY <1>4, <3>1
    <3>4. queue'[n + 1] = base
      BY <1>0, <3>3
    <3> QED
      BY <2>2, <3>2, <3>4
  <2>3. CASE i > n
    <3>1. i \in (n + 1)..(n + ChunkSize) /\ i + 1 \in (n + 1)..(n + ChunkSize)
      BY <1>0, <2>3
    <3>2. queue'[i] = base + (i - n) - 1 /\ queue'[i + 1] = base + ((i + 1) - n) - 1
      BY <1>4, <3>1
    <3> QED
      BY <1>0, <3>2 DEF Back
  <2>4. i < n \/ i = n \/ i > n
    <3>1. i \in Int /\ n \in Int
      BY <1>0
    <3> QED
      BY <3>1
  <2> QED
    BY <2>1, <2>2, <2>3, <2>4, Zenon
<1>8. ASSUME NEW i \in 1..(n + ChunkSize), i > (n + ChunkSize) - ChunkSize
      PROVE  queue'[i] = LastOffset' - ((n + ChunkSize) - i)
  <2>1. i \in (n + 1)..(n + ChunkSize)
    BY <1>0, <1>8
  <2>2. queue'[i] = base + (i - n) - 1
    BY <1>4, <2>1
  <2> QED
    BY <1>0, <1>5, <2>2
<1>9. Len(queue') - 1 = n + ChunkSize - 1
  BY <1>0, <1>2
<1> QED
  BY <1>2, <1>6, <1>7, <1>8, <1>9, Zenon DEF Appended

(* Without real-time chunking no action is skipped, whatever the latency, the  *)
(* pauses and the resets, and a chunk goes back by rtc_queue_threshold actions  *)
(* at most: those that were left of the queue when it was asked for, of a       *)
(* single chunk as long as a chunk is longer than the threshold.                *)
THEOREM AppendRepeatsBounded ==
    Spec => [](~enabled /\ Threshold < ChunkSize => RepeatsBounded)
<1> DEFINE Short == ~enabled /\ Threshold < ChunkSize
           IInv == Short => Appended /\ PlannedFromQueue
<1> USE DEF mainVars, queueVars, threadVars, clockVars, planVars
<1>0. ChunkSize \in Nat \ {0} /\ Threshold \in Nat
  BY ConfigAssumption DEF ConfigAssumption
<1>1. Init => IInv
  BY <1>0, EmptyQueue DEF Init, Appended, PlannedFromQueue, NextOffset, Back
<1>2. TypeOK /\ RefilledLow /\ IInv /\ [Next]_vars => IInv'
  <2> SUFFICES ASSUME TypeOK, RefilledLow, Short, Appended, PlannedFromQueue, [Next]_vars
               PROVE  Appended' /\ PlannedFromQueue'
    BY ModeFixed
  <2>0. queue \in Seq(Int) /\ base \in Int /\ LastOffset \in Int
    BY DEF TypeOK, LastOffset
  <2>1. CASE /\ UNCHANGED queue
             /\ UNCHANGED <<base, rtc>> \/ rtc' \notin {"infer", "merge"}
                \/ (base' = base /\ rtc = "infer")
    <3>1. UNCHANGED <<NextOffset, LastOffset, Appended>>
      BY <2>1 DEF NextOffset, LastOffset, Appended
    <3> QED
      BY <2>1, <3>1 DEF PlannedFromQueue
  <2>2. CASE queue' = <<>> /\ base' = 1
    BY <1>0, <2>2, EmptyQueue DEF Appended, PlannedFromQueue, NextOffset, LastOffset, Back
  <2>3. CASE GetAction
    <3>1. CASE queue = <<>>
      BY <2>1, <2>3, <3>1 DEF GetAction
    <3>2. CASE queue # <<>>
      <4>1. /\ queue' = [i \in 1..(Len(queue) - 1) |-> queue[i + 1] - Head(queue)]
            /\ rtc \in {"infer", "merge"} => base' = base - Head(queue)
            /\ rtc' = rtc
        BY <2>3, <3>2 DEF GetAction
      <4>2. /\ LastOffset' = LastOffset - queue[1] /\ queue[1] \in Int
            /\ Head(queue) = queue[1]
        BY <2>0, <3>2, <4>1, PoppedQueue
      <4>3. Appended'
        BY <2>0, <3>2, <4>1, AppendedPop
      <4>4. rtc \in {"infer", "merge"} => base' - LastOffset' = base - LastOffset
        BY <2>0, <4>1, <4>2
      <4> QED
        BY <4>1, <4>3, <4>4 DEF PlannedFromQueue
    <3> QED
      BY <3>1, <3>2
  <2>4. CASE \/ Observe \/ Notify \/ WaitForWarmup \/ EndPeriod
             \/ LoopOverruns \/ HoldPosition \/ Resume \/ StopEngine
    BY <2>1, <2>4
       DEF Observe, Notify, WaitForWarmup, EndPeriod, LoopOverruns,
           HoldPosition, Resume, StopEngine
  <2>5. CASE Pause \/ RequestShutdown
    BY <2>1, <2>5 DEF Pause, RequestShutdown
  <2>6. CASE FlushWarmup \/ BeginReset
    BY <2>2, <2>6 DEF FlushWarmup, BeginReset, ResetEngine
  <2>7. CASE TakeObservation \/ CheckQueue \/ Predict
    BY <2>1, <2>7 DEF TakeObservation, CheckQueue, Predict
  <2>8. CASE PredictFails \/ GiveUp \/ FinishInference \/ EndThread
    BY <2>1, <2>8 DEF PredictFails, GiveUp, FinishInference, EndThread
  <2>9. CASE ReadLeftOver
    <3>1. UNCHANGED queue /\ base' = NextOffset /\ rtc = "begin"
      BY <2>9 DEF ReadLeftOver
    <3>2. UNCHANGED <<NextOffset, LastOffset, Appended>>
      BY <3>1 DEF NextOffset, LastOffset, Appended
    <3>3. NextOffset - LastOffset \in Back
      BY <2>0, <3>1, OneChunkLeft DEF RefilledLow
    <3> QED
      BY <3>1, <3>2, <3>3 DEF PlannedFromQueue
  <2>10. CASE Merge
    <3>1. queue' = queue \o ChunkFrom(base) /\ rtc = "merge" /\ rtc' = "finish"
      BY <2>10 DEF Merge, AppendChunk
    <3>2. Appended'
      BY <2>0, <3>1, AppendedMerge DEF PlannedFromQueue
    <3> QED
      BY <3>1, <3>2 DEF PlannedFromQueue
  <2>11. CASE UNCHANGED vars
    BY <2>1, <2>11 DEF vars
  <2> QED
    BY <2>3, <2>4, <2>5, <2>6, <2>7, <2>8, <2>9, <2>10, <2>11
       DEF Next, ControlLoop, Operator, Inference, Terminated
<1>3. IInv => (Short => RepeatsBounded)
  BY DEF Appended, Back, RepeatsBounded
<1>4. Spec => [](TypeOK /\ RefilledLow)
  BY TypeCorrect, QueueNeverOutgrown, PTL
<1> QED
  BY <1>1, <1>2, <1>3, <1>4, PTL DEF Spec
-----------------------------------------------------------------------------
(* The next offset of a queue is a number. *)
LEMMA NextType == ASSUME queue \in Seq(Int) PROVE NextOffset \in Int
  BY PoppedType DEF NextOffset

(* After an action of a queue without gaps was executed, the next is next. *)
LEMMA PoppedNext ==
  ASSUME queue \in Seq(Int), queue # <<>>, Consecutive,
         queue' = [i \in 1..(Len(queue) - 1) |-> queue[i + 1] - Head(queue)]
  PROVE  NextOffset' = 1 /\ Consecutive'
<1>1. Len(queue) \in Nat \ {0} /\ Head(queue) = queue[1] /\ queue[1] \in Int
  OBVIOUS
<1>2. queue' \in Seq(Int) /\ Len(queue') = Len(queue) - 1
  BY PoppedType
<1>3. NextOffset = queue[1]
  BY <1>1 DEF NextOffset
<1>4. ASSUME NEW i \in 1..(Len(queue) - 1) PROVE queue'[i] = i
  <2>1. i + 1 \in 1..Len(queue) /\ i \in Int
    BY <1>1
  <2>2. queue[i + 1] = queue[1] + (i + 1) - 1
    BY <1>3, <2>1 DEF Consecutive
  <2>3. queue'[i] = queue[i + 1] - Head(queue)
    BY <1>4
  <2> QED
    BY <1>1, <2>1, <2>2, <2>3
<1>5. NextOffset' = 1
  <2>1. CASE queue' = <<>>
    BY <2>1 DEF NextOffset
  <2>2. CASE queue' # <<>>
    <3>1. Head(queue') = queue'[1] /\ 1 \in 1..Len(queue')
      BY <1>2, <2>2
    <3> QED
      BY <1>2, <1>4, <2>2, <3>1 DEF NextOffset
  <2> QED
    BY <2>1, <2>2
<1>6. Consecutive'
  BY <1>1, <1>2, <1>4, <1>5 DEF Consecutive
<1> QED
  BY <1>5, <1>6

(* The offsets of what is left of a chunk when a delay is cut off it. *)
LEMMA CutOffsets ==
  ASSUME NEW b \in Int, NEW d \in Nat,
         NEW q, q = SubSeq(ChunkFrom(b), Clamped(d) + 1, ChunkSize)
  PROVE  /\ q \in Seq(Int) /\ Len(q) = ChunkSize - Clamped(d)
         /\ \A i \in 1..Len(q) : q[i] = b + Clamped(d) + i - 1
         /\ Clamped(d) \in 0..ChunkSize
<1>1. ChunkSize \in Nat \ {0}
  BY ConfigAssumption DEF ConfigAssumption
<1>2. Clamped(d) \in 0..ChunkSize
  BY <1>1 DEF Clamped
<1>3. /\ ChunkFrom(b) \in Seq(Int) /\ Len(ChunkFrom(b)) = ChunkSize
      /\ \A i \in 1..ChunkSize : ChunkFrom(b)[i] = b + i - 1
  BY ChunkType
<1> DEFINE c == ChunkFrom(b)
           k == Clamped(d)
<1>4. /\ c \in Seq(Int) /\ Len(c) = ChunkSize
      /\ \A i \in 1..ChunkSize : c[i] = b + i - 1
      /\ k \in 0..ChunkSize
      /\ q = SubSeq(c, k + 1, ChunkSize)
  BY <1>2, <1>3
<1> HIDE DEF c, k
<1>5. k \in Int /\ ChunkSize \in Int /\ b \in Int /\ k + 1 \in Int
  BY <1>1, <1>4
<1>6. /\ q \in Seq(Int)
      /\ Len(q) = IF k + 1 <= ChunkSize THEN ChunkSize - (k + 1) + 1 ELSE 0
      /\ \A i \in 1..(ChunkSize - (k + 1) + 1) : q[i] = c[(k + 1) + i - 1]
  <2>1. \A i \in (k + 1)..ChunkSize : c[i] \in Int
    BY <1>4, <1>5
  <2>2. /\ SubSeq(c, k + 1, ChunkSize) \in Seq(Int)
        /\ Len(SubSeq(c, k + 1, ChunkSize))
              = IF k + 1 <= ChunkSize THEN ChunkSize - (k + 1) + 1 ELSE 0
        /\ \A i \in 1..(ChunkSize - (k + 1) + 1) :
              SubSeq(c, k + 1, ChunkSize)[i] = c[(k + 1) + i - 1]
    BY <1>5, <2>1, SubSeqProperties
  <2> QED
    BY <1>4, <2>2
<1>7. Len(q) = ChunkSize - k
  BY <1>1, <1>4, <1>6
<1>8. ASSUME NEW i \in 1..Len(q) PROVE q[i] = b + k + i - 1
  <2>1. (k + 1) + i - 1 \in 1..ChunkSize /\ i \in 1..(ChunkSize - (k + 1) + 1) /\ i \in Int
    <3>1. i \in 1..(ChunkSize - k)
      BY <1>7
    <3> QED
      BY <1>4, <1>5, <3>1
  <2>2. q[i] = c[(k + 1) + i - 1]
    BY <1>6, <2>1
  <2>3. c[(k + 1) + i - 1] = b + ((k + 1) + i - 1) - 1
    BY <1>4, <2>1
  <2>4. q[i] = b + ((k + 1) + i - 1) - 1
    BY <2>2, <2>3
  <2>5. i \in Int
    BY <2>1
  <2>6. b + ((k + 1) + i - 1) - 1 = b + k + i - 1
    BY <1>5, <2>5
  <2> QED
    BY <2>4, <2>6, Zenon
<1> QED
  BY <1>4, <1>6, <1>7, <1>8 DEF k

(* The next offset of a chunk that was cut off, and of none when nothing is left. *)
LEMMA MergedNext ==
  ASSUME base \in Int, delay \in Nat, Replace
  PROVE  /\ Consecutive'
         /\ Len(queue') = ChunkSize - Clamped(delay)
         /\ NextOffset' = IF delay < ChunkSize THEN base + delay ELSE 1
<1>1. ChunkSize \in Nat \ {0}
  BY ConfigAssumption DEF ConfigAssumption
<1>2. queue' = SubSeq(ChunkFrom(base), Clamped(delay) + 1, ChunkSize)
  BY DEF Replace
<1> PICK q : q = queue'
  OBVIOUS
<1>3. /\ q \in Seq(Int) /\ Len(q) = ChunkSize - Clamped(delay)
      /\ \A i \in 1..Len(q) : q[i] = base + Clamped(delay) + i - 1
      /\ Clamped(delay) \in 0..ChunkSize
  BY <1>2, CutOffsets
<1>4. CASE delay < ChunkSize
  <2>1. Clamped(delay) = delay /\ Len(q) > 0 /\ Len(q) \in Nat
    BY <1>1, <1>3, <1>4 DEF Clamped
  <2>2. q # <<>> /\ Head(q) = q[1] /\ 1 \in 1..Len(q)
    BY <1>3, <2>1
  <2>3. q[1] = base + delay + 1 - 1
    BY <1>3, <2>1, <2>2
  <2>4. q[1] = base + delay
    BY <2>3
  <2>5. NextOffset' = base + delay
    BY <2>2, <2>4 DEF NextOffset
  <2>6. Consecutive'
    BY <1>3, <2>1, <2>5 DEF Consecutive
  <2> QED
    BY <1>3, <1>4, <2>5, <2>6
<1>5. CASE ~(delay < ChunkSize)
  <2>1. Len(q) = 0 /\ 1..Len(q) = {}
    BY <1>1, <1>3, <1>5 DEF Clamped
  <2>2. q = <<>>
    BY <1>3, <2>1
  <2>3. NextOffset' = 1
    BY <2>2 DEF NextOffset
  <2>4. Consecutive'
    BY <2>1 DEF Consecutive
  <2> QED
    BY <1>3, <1>5, <2>3, <2>4
<1> QED
  BY <1>4, <1>5
-----------------------------------------------------------------------------
(* Each step keeps the engine's clock right. *)
LEMMA ClockedStep == TypeOK /\ Clocked /\ [Next]_vars => Clocked'
<1> SUFFICES ASSUME TypeOK, Clocked, [Next]_vars
             PROVE  Clocked'
  OBVIOUS
<1> USE DEF Clocked, mainVars, queueVars, threadVars, clockVars, planVars
<1>0. elapsed \in Nat /\ late \in Nat /\ Jitter \in Nat /\ delay \in Nat
  BY TimingAssumption DEF TypeOK, TimingAssumption
<1>1. CASE UNCHANGED <<clockVars, delay, rtc>>
  BY <1>1
<1>2. CASE UNCHANGED <<delay, rtc>> /\ \E u \in {0, 1} : PeriodPasses(u)
  BY <1>0, <1>2 DEF PeriodPasses
<1>3. CASE rtc' \notin {"begin", "infer", "merge"}
  BY <1>3
<1>4. CASE Observe \/ Notify \/ Resume \/ StopEngine \/ Pause \/ RequestShutdown
  BY <1>1, <1>4 DEF Observe, Notify, Resume, StopEngine, Pause, RequestShutdown
<1>5. CASE FlushWarmup \/ BeginReset \/ GetAction
  BY <1>1, <1>5 DEF FlushWarmup, BeginReset, GetAction
<1>6. CASE WaitForWarmup \/ HoldPosition \/ EndPeriod \/ LoopOverruns
  <2>1. UNCHANGED <<delay, rtc>> /\ (PeriodPasses(0) \/ PeriodPasses(1))
    BY <1>6 DEF WaitForWarmup, HoldPosition, EndPeriod, LoopOverruns
  <2> QED
    BY <1>2, <2>1
<1>7. CASE TakeObservation \/ PredictFails \/ GiveUp \/ Merge \/ FinishInference \/ EndThread
  BY <1>3, <1>7
     DEF TakeObservation, PredictFails, GiveUp, Merge, FinishInference, EndThread
<1>8. CASE CheckQueue
  BY <1>0, <1>8 DEF CheckQueue
<1>9. CASE ReadLeftOver
  BY <1>9 DEF ReadLeftOver
<1>10. CASE Predict
  BY <1>10 DEF Predict, MeasuredDelays
<1>11. CASE UNCHANGED vars
  BY <1>1, <1>11 DEF vars
<1> QED
  BY <1>4, <1>5, <1>6, <1>7, <1>8, <1>9, <1>10, <1>11
     DEF Next, ControlLoop, Operator, Inference, Terminated

(* The numbers the steps below reckon with. *)
LEMMA PlanTypes ==
  ASSUME TypeOK
  PROVE  /\ queue \in Seq(Int) /\ NextOffset \in Int /\ base \in Int
         /\ elapsed \in Nat /\ lost \in Nat /\ lost <= elapsed
         /\ late \in Nat /\ late <= Jitter /\ Jitter \in Nat /\ delay \in Nat
         /\ Unended \in {0, 1}
<1>1. NextOffset \in Int
  BY NextType DEF TypeOK
<1>2. Unended \in {0, 1}
  BY DEF Unended
<1> QED
  BY <1>1, <1>2, TimingAssumption DEF TypeOK, TimingAssumption

(* A merge moves the robot in its plan by what the clock may err, and never     *)
(* back behind the instants around the inference.                               *)
LEMMA MergeMoves ==
  ASSUME TypeOK, Planned, Clocked, Merge, enabled, ~starved, queue' # <<>>
  PROVE  /\ NextOffset' - NextOffset \in (-1 - Jitter)..(2 + Jitter + lost)
         /\ NextOffset' >= -Jitter \/ NextOffset' >= NextOffset
<1>0. /\ queue \in Seq(Int) /\ NextOffset \in Int /\ base \in Int
      /\ elapsed \in Nat /\ lost \in Nat /\ lost <= elapsed
      /\ late \in Nat /\ late <= Jitter /\ Jitter \in Nat /\ delay \in Nat
      /\ Unended \in {0, 1}
  BY PlanTypes
<1>1. rtc = "merge" /\ Replace
  BY DEF Merge
<1>2. /\ Len(queue') = ChunkSize - Clamped(delay)
      /\ NextOffset' = IF delay < ChunkSize THEN base + delay ELSE 1
  BY <1>0, <1>1, MergedNext
<1>3. NextOffset' = base + delay
  <2>1. queue' \in Seq(Int)
    BY <1>0, <1>1, CutType DEF Replace
  <2>2. Len(queue') # 0
    BY <2>1
  <2>3. ChunkSize \in Nat
    BY ConfigAssumption DEF ConfigAssumption
  <2>4. delay < ChunkSize
    BY <1>0, <1>2, <2>2, <2>3 DEF Clamped
  <2> QED
    BY <1>2, <2>4
<1>4. PICK popped \in Nat :
        /\ Continues(popped)
        /\ popped <= elapsed - lost + late + Unended
        /\ elapsed - lost + Unended <= popped + Jitter + 1
  BY <1>1 DEF Planned, Following
<1>5. delay \in {elapsed, elapsed + 1}
  BY <1>1 DEF Clocked
<1>6. CASE popped = 0
  <2>1. NextOffset' - NextOffset = delay
    BY <1>0, <1>3, <1>4, <1>6 DEF Continues
  <2>2. NextOffset' = NextOffset + delay
    BY <1>0, <1>3, <1>4, <1>6 DEF Continues
  <2> QED
    BY <1>0, <1>4, <1>5, <1>6, <2>1, <2>2
<1>7. CASE popped # 0
  <2>1. NextOffset' = 1 - popped + delay /\ NextOffset = 1
    BY <1>3, <1>4, <1>7 DEF Continues
  <2> QED
    BY <1>0, <1>4, <1>5, <2>1
<1> QED
  BY <1>6, <1>7

(* Executing an action of the queue keeps the chunk being predicted in the plan. *)
LEMMA PlannedPop ==
  ASSUME TypeOK, Consecutive, Planned, GetAction, queue # <<>>
  PROVE  Consecutive' /\ Planned' /\ NextOffset' = 1
<1>0. /\ queue \in Seq(Int) /\ NextOffset \in Int /\ base \in Int
      /\ elapsed \in Nat /\ lost \in Nat /\ late \in Nat
  BY PlanTypes
<1>1. /\ queue' = [i \in 1..(Len(queue) - 1) |-> queue[i + 1] - Head(queue)]
      /\ rtc \in {"infer", "merge"} => base' = base - Head(queue)
      /\ UNCHANGED <<rtc, elapsed, late, lost>>
      /\ main = "acting" /\ main' = "sleeping"
  BY DEF GetAction, clockVars
<1>2. Consecutive' /\ NextOffset' = 1
  BY <1>0, <1>1, PoppedNext
<1>3. Unended = 0 /\ Unended' = 1
  BY <1>1 DEF Unended
<1>4. ASSUME rtc \in {"infer", "merge"} PROVE Planned'
  <2>1. PICK popped \in Nat :
          /\ Continues(popped)
          /\ popped <= elapsed - lost + late + Unended
          /\ elapsed - lost + Unended <= popped + Jitter + 1
    BY <1>4 DEF Planned, Following
  <2>2. base' = base - NextOffset
    BY <1>1, <1>4 DEF NextOffset
  <2>3. base' = 1 - (popped + 1)
    <3>1. CASE popped = 0
      BY <1>0, <2>1, <2>2, <3>1 DEF Continues
    <3>2. CASE popped # 0
      BY <2>1, <2>2, <3>2 DEF Continues
    <3> QED
      BY <3>1, <3>2
  <2>4. popped + 1 # 0 /\ popped + 1 \in Nat
    OBVIOUS
  <2>5. Continues(popped + 1)'
    BY <1>2, <2>3, <2>4 DEF Continues
  <2>6. /\ popped + 1 <= elapsed' - lost' + late' + Unended'
        /\ elapsed' - lost' + Unended' <= (popped + 1) + Jitter + 1
    <3>1. Jitter \in Nat
      BY TimingAssumption DEF TimingAssumption
    <3> QED
      BY <1>0, <1>1, <1>3, <2>1, <3>1
  <2> QED
    BY <2>4, <2>5, <2>6 DEF Planned
<1> QED
  BY <1>1, <1>2, <1>4 DEF Planned

(* A period that passes without a pop or after one. *)
LEMMA PlannedPeriod ==
  ASSUME TypeOK, Planned, Clocked,
         UNCHANGED <<queue, base, starved, rtc>>,
         \/ PeriodPasses(1) /\ Unended' = Unended
         \/ PeriodPasses(0) /\ Unended = 1 /\ Unended' = 0
  PROVE  Planned'
<1>0. /\ elapsed \in Nat /\ lost \in Nat /\ lost <= elapsed
      /\ late \in Nat /\ Jitter \in Nat /\ Unended \in {0, 1}
  BY PlanTypes
<1> SUFFICES ASSUME Following', rtc' \in {"infer", "merge"}
             PROVE  \E popped \in Nat :
                       /\ Continues(popped)'
                       /\ popped <= elapsed' - lost' + late' + Unended'
                       /\ elapsed' - lost' + Unended' <= popped + Jitter + 1
  BY DEF Planned
<1>1. Following /\ rtc \in {"infer", "merge"} /\ NextOffset' = NextOffset
  BY DEF Following, NextOffset
<1>2. PICK popped \in Nat :
        /\ Continues(popped)
        /\ popped <= elapsed - lost + late + Unended
        /\ elapsed - lost + Unended <= popped + Jitter + 1
  BY <1>1 DEF Planned
<1>3. Continues(popped)'
  BY <1>1, <1>2 DEF Continues
<1>4. /\ popped <= elapsed' - lost' + late' + Unended'
      /\ elapsed' - lost' + Unended' <= popped + Jitter + 1
  <2>1. CASE rtc = "infer"
    <3>1. elapsed' = elapsed + 1 /\ late' = late
      BY <2>1 DEF PeriodPasses
    <3>2. CASE lost' = lost + 1 /\ Unended' = Unended
      BY <1>0, <1>2, <3>1, <3>2
    <3>3. CASE lost' = lost /\ Unended = 1 /\ Unended' = 0
      BY <1>0, <1>2, <3>1, <3>3
    <3> QED
      BY <1>0, <2>1, <3>2, <3>3 DEF PeriodPasses
  <2>2. CASE rtc = "merge"
    <3>1. elapsed' = elapsed /\ late' = late + 1 /\ lost' = lost
      BY <2>2 DEF PeriodPasses
    <3>2. Unended' = Unended \/ (Unended = 1 /\ Unended' = 0)
      OBVIOUS
    <3> QED
      BY <1>0, <1>2, <3>1, <3>2
  <2> QED
    BY <1>1, <2>1, <2>2
<1> QED
  BY <1>3, <1>4

(* Each step of the strategy and of the engine's thread keeps the chunk that is *)
(* predicted in the plan, and the next action from going far back.              *)
LEMMA PlannedStep ==
  ASSUME TypeOK, Consecutive, Planned, NearPlan, Clocked, enabled, [Next]_vars
  PROVE  Consecutive' /\ Planned' /\ NearPlan'
<1> USE DEF mainVars, queueVars, threadVars, clockVars, planVars
<1>0. /\ queue \in Seq(Int) /\ NextOffset \in Int /\ base \in Int
      /\ elapsed \in Nat /\ lost \in Nat /\ lost <= elapsed
      /\ late \in Nat /\ Jitter \in Nat /\ delay \in Nat /\ Unended \in {0, 1}
  BY PlanTypes
<1>1. CASE UNCHANGED <<queue, starved, base, elapsed, late, lost, Unended>>
           /\ (rtc' \in {"infer", "merge"} => rtc \in {"infer", "merge"})
  <2>1. UNCHANGED <<NextOffset, Consecutive, NearPlan, Following>>
    BY <1>1 DEF NextOffset, Consecutive, NearPlan, Following
  <2>2. ASSUME NEW p PROVE Continues(p)' = Continues(p)
    BY <1>1, <2>1 DEF Continues
  <2> QED
    BY <1>1, <2>1, <2>2 DEF Planned
<1>2. CASE UNCHANGED <<queue, starved>> /\ rtc' \notin {"infer", "merge"}
  <2>1. UNCHANGED <<NextOffset, Consecutive, NearPlan>>
    BY <1>2 DEF NextOffset, Consecutive, NearPlan
  <2> QED
    BY <1>2, <2>1 DEF Planned
<1>3. CASE queue' = <<>> /\ starved'
  BY <1>3, EmptyQueue DEF Planned, Following, Consecutive, NearPlan
<1>4. CASE Observe \/ Notify \/ Resume \/ RequestShutdown \/ Pause \/ StopEngine
  <2>1. UNCHANGED Unended
    BY <1>4
       DEF Observe, Notify, Resume, RequestShutdown, Pause, StopEngine, Unended
  <2> QED
    BY <1>1, <1>4, <2>1
       DEF Observe, Notify, Resume, RequestShutdown, Pause, StopEngine
<1>5. CASE WaitForWarmup \/ HoldPosition \/ EndPeriod \/ LoopOverruns
  <2>1. UNCHANGED <<queue, base, starved, rtc>>
    BY <1>5 DEF WaitForWarmup, HoldPosition, EndPeriod, LoopOverruns
  <2>2. \/ PeriodPasses(1) /\ Unended' = Unended
        \/ PeriodPasses(0) /\ Unended = 1 /\ Unended' = 0
    BY <1>5 DEF WaitForWarmup, HoldPosition, EndPeriod, LoopOverruns, Unended
  <2>3. Planned'
    BY <2>1, <2>2, PlannedPeriod
  <2>4. UNCHANGED <<NextOffset, Consecutive, NearPlan>>
    BY <2>1 DEF NextOffset, Consecutive, NearPlan
  <2> QED
    BY <2>3, <2>4
<1>6. CASE FlushWarmup \/ BeginReset
  BY <1>3, <1>6 DEF FlushWarmup, BeginReset, ResetEngine
<1>7. CASE GetAction
  <2>1. CASE queue = <<>>
    BY <1>3, <1>7, <2>1 DEF GetAction
  <2>2. CASE queue # <<>>
    <3>1. Consecutive' /\ Planned' /\ NextOffset' = 1
      BY <1>7, <2>2, PlannedPop
    <3> QED
      BY <1>0, <3>1 DEF NearPlan
  <2> QED
    BY <2>1, <2>2
<1>8. CASE \/ TakeObservation \/ CheckQueue \/ PredictFails \/ GiveUp
           \/ FinishInference \/ EndThread
  BY <1>2, <1>8
     DEF TakeObservation, CheckQueue, PredictFails, GiveUp, FinishInference, EndThread
<1>9. CASE ReadLeftOver
  <2>1. /\ UNCHANGED <<queue, starved, elapsed, late, lost, main>>
        /\ base' = NextOffset /\ rtc = "begin" /\ rtc' = "infer"
    BY <1>9 DEF ReadLeftOver
  <2>2. UNCHANGED <<NextOffset, Consecutive, NearPlan, Unended>>
    BY <2>1 DEF NextOffset, Consecutive, NearPlan, Unended
  <2>3. Continues(0)'
    BY <2>1, <2>2 DEF Continues
  <2>4. elapsed <= Jitter
    BY <2>1 DEF Clocked
  <2>5. /\ 0 <= elapsed' - lost' + late' + Unended'
        /\ elapsed' - lost' + Unended' <= 0 + Jitter + 1
    BY <1>0, <2>1, <2>2, <2>4
  <2> QED
    BY <2>2, <2>3, <2>5 DEF Planned
<1>10. CASE Predict
  <2>1. UNCHANGED Unended
    BY <1>10 DEF Predict, Unended
  <2> QED
    BY <1>1, <1>10, <2>1 DEF Predict
<1>11. CASE Merge
  <2>1. /\ UNCHANGED starved /\ rtc' = "finish" /\ Replace
    BY <1>11 DEF Merge
  <2>2. Consecutive'
    BY <1>0, <2>1, MergedNext
  <2>3. NearPlan'
    <3>1. CASE queue' = <<>>
      BY <1>0, <3>1 DEF NearPlan, NextOffset
    <3>2. CASE queue' # <<>> /\ ~starved
      <4>1. NextOffset' >= -Jitter \/ NextOffset' >= NextOffset
        BY <1>11, <3>2, MergeMoves
      <4>2. NextOffset >= -Jitter
        BY <3>2 DEF NearPlan
      <4>3. NextOffset' \in Int
        <5>1. queue' \in Seq(Int)
          BY <1>0, <2>1, CutType DEF Replace
        <5> QED
          BY <3>2, <5>1 DEF NextOffset
      <4> QED
        BY <1>0, <4>1, <4>2, <4>3 DEF NearPlan
    <3> QED
      BY <2>1, <3>1, <3>2 DEF NearPlan
  <2> QED
    BY <2>1, <2>2, <2>3 DEF Planned
<1>12. CASE UNCHANGED vars
  <2>1. UNCHANGED Unended
    BY <1>12 DEF vars, Unended
  <2> QED
    BY <1>1, <1>12, <2>1 DEF vars
<1> QED
  BY <1>4, <1>5, <1>6, <1>7, <1>8, <1>9, <1>10, <1>11, <1>12
     DEF Next, ControlLoop, Operator, Inference, Terminated

(* In every state the clock measures the inference and, with chunks replaced,   *)
(* the chunk being predicted continues the plan.                                *)
THEOREM AlwaysPlanned ==
    Spec => [](Clocked /\ (enabled => Consecutive /\ Planned /\ NearPlan))
<1> DEFINE IInv == Clocked /\ (enabled => Consecutive /\ Planned /\ NearPlan)
<1>1. Init => IInv
  BY EmptyQueue DEF Init, Clocked, Consecutive, Planned, Following, NearPlan
<1>2. TypeOK /\ IInv /\ [Next]_vars => IInv'
  BY ClockedStep, PlannedStep, ModeFixed
<1>3. Spec => []TypeOK
  BY TypeCorrect, PTL
<1> QED
  BY <1>1, <1>2, <1>3, PTL DEF Spec

(* With real-time chunking nothing is executed again but what the instants      *)
(* around an inference let slip, whatever an inference takes, however long an   *)
(* iteration of the loop overruns, and however often the engine fails, is       *)
(* paused or is reset: the delay by the clock is never shorter than the actions *)
(* popped while it was measured.                                                *)
THEOREM ReplaceRepeatsBounded == Spec => [](enabled => RepeatsBounded)
<1>1. NearPlan => (enabled => RepeatsBounded)
  BY DEF NearPlan, RepeatsBounded
<1> QED
  BY <1>1, AlwaysPlanned, PTL

(* A merge moves the robot in its plan by two actions at most, by those the      *)
(* instants around the inference let slip and, forwards, by one for each period  *)
(* in which the loop, late or held, asked for none: for every chunk size,        *)
(* threshold and latency.                                                        *)
THEOREM SkipsAreAccounted == Spec => SkipsAccounted
<1>1. TypeOK /\ Clocked /\ (enabled => Planned) /\ [Next]_vars
        => [rtc = "merge" /\ rtc' = "finish" /\ enabled /\ ~starved /\ queue' # <<>>
              => NextOffset' - NextOffset \in (-1 - Jitter)..(2 + Jitter + lost)]_vars
  <2> SUFFICES ASSUME TypeOK, Clocked, Planned, [Next]_vars, enabled,
                      rtc = "merge", rtc' = "finish", ~starved, queue' # <<>>
               PROVE  NextOffset' - NextOffset \in (-1 - Jitter)..(2 + Jitter + lost)
    OBVIOUS
  <2>1. Merge
    BY DEF Next, ControlLoop, Operator, Inference, Terminated, vars, mainVars,
           Observe, Notify, WaitForWarmup, FlushWarmup, GetAction, EndPeriod,
           LoopOverruns, HoldPosition, Resume, StopEngine, Pause, BeginReset,
           RequestShutdown, TakeObservation, CheckQueue, ReadLeftOver, Predict,
           PredictFails, GiveUp, FinishInference, EndThread
  <2> QED
    BY <2>1, MergeMoves
<1>2. Spec => [](TypeOK /\ Clocked /\ (enabled => Planned))
  BY TypeCorrect, AlwaysPlanned, PTL
<1> QED
  BY <1>1, <1>2, PTL DEF Spec, SkipsAccounted
=============================================================================
