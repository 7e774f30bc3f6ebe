---------------------------- MODULE RtcInference ----------------------------
(***************************************************************************)
(* Real-time chunking: the RTCInferenceEngine (rollout/inference/rtc.py)   *)
(* with its ActionQueue (policies/rtc/action_queue.py), and the control    *)
(* loop of a rollout strategy that drives it.                              *)
(*                                                                         *)
(* The control loop publishes an observation, pops an action and sleeps,   *)
(* once per control period; the engine's thread predicts a chunk whenever  *)
(* the queue runs low and merges it.  The time an inference took is        *)
(* measured with a clock, and that many actions of the chunk are dropped.  *)
(*                                                                         *)
(* An action is its OFFSET: how many control periods after the last        *)
(* executed action the plan has it (1 is the next one).  The engine's      *)
(* clock counts nominal periods: one passes when an iteration of the loop  *)
(* ends, and more when an iteration takes longer than its period.          *)
(*                                                                         *)
(* An observation, and what is predicted from it, is "fresh" when it was   *)
(* captured after the last reset() and "stale" otherwise.  The original    *)
(* and the processed actions always have the same length, so one sequence  *)
(* stands for both, and it holds what is left of the queue from last_index *)
(* on.                                                                     *)
(***************************************************************************)
EXTENDS Integers, Sequences

CONSTANTS
    Modes,          \* the values of RTCConfig.enabled to consider
    ChunkSize,      \* actions in a predicted chunk
    Threshold,      \* rtc_queue_threshold
    Warmups,        \* warmup_required, 0 without torch.compile
    CompileTicks,   \* periods a warmup inference takes at least
    MaxErrors,      \* _RTC_MAX_CONSECUTIVE_ERRORS
    MaxLatency,     \* bound: periods an inference takes at most
    Jitter,         \* bound: periods that end in a window with no inference
    MaxAhead        \* bound: skips after which no iteration overruns again

ASSUME ConfigAssumption ==
    /\ Modes \subseteq BOOLEAN
    /\ ChunkSize \in Nat \ {0}
    /\ Threshold \in Nat
    /\ Warmups \in Nat
    /\ MaxErrors \in Nat \ {0}

ASSUME TimingAssumption ==
    /\ CompileTicks \in Nat /\ MaxLatency \in Nat /\ Jitter \in Nat
    /\ MaxAhead \in Nat
    /\ CompileTicks <= MaxLatency /\ Jitter <= MaxLatency

VARIABLES
    enabled,    \* RTCConfig.enabled: replace the queue, or append to it
    main,       \* where the control loop is
    active,     \* _policy_active
    shutdown,   \* the shutdown event shared with the strategy
    stopping,   \* the engine's own _shutdown_event
    flushed,    \* _warmup_flushed of the strategy
    holder,     \* the age of _obs_holder["obs"]
    queue,      \* ActionQueue: offsets of the actions left
    origin,     \* the age of the oldest observation the queue comes from
    rtc,        \* where the inference thread is
    taken,      \* the age of the observation it predicts from
    base,       \* the offset of the first action of the chunk predicted
    elapsed,    \* periods since current_time was read, by the clock
    delay,      \* new_delay
    count,      \* inference_count, up to Warmups
    errors,     \* consecutive_errors
    warm,       \* _compile_warmup_done
    failed,     \* _rtc_error
    late,       \* history: periods since new_latency was measured
    lost,       \* history: those of elapsed in which no action was asked for
    starved     \* history: nothing was executed in the last period

mainVars == <<main, active, shutdown, stopping, flushed, enabled>>
queueVars == <<queue, origin>>
threadVars == <<taken, count, errors, warm, failed>>
clockVars == <<elapsed, late, lost>>
planVars == <<base, starved>>
vars == <<mainVars, holder, queueVars, rtc, threadVars, delay, clockVars, planVars>>
-----------------------------------------------------------------------------

Aged(age) == IF age = "fresh" THEN "stale" ELSE age

(* The offset of the action get() would return, or of the one it would have *)
(* returned had the plan not run out.                                       *)
NextOffset == IF queue = <<>> THEN 1 ELSE Head(queue)

(* The offsets of a chunk whose first action has offset b. *)
ChunkFrom(b) == [i \in 1..ChunkSize |-> b + i - 1]

(* clamped_delay of _replace_actions_queue, at which the chunk is cut. *)
Clamped(d) == IF d < ChunkSize THEN d ELSE ChunkSize

Init ==
    /\ enabled \in Modes
    /\ main = "loop" /\ active = TRUE /\ shutdown = FALSE /\ stopping = FALSE
    /\ flushed = (Warmups = 0)
    /\ holder = "none" /\ queue = <<>> /\ origin = "none"
    /\ rtc = "idle" /\ taken = "none" /\ base = 1
    /\ elapsed = 0 /\ delay = 0 /\ count = 0 /\ errors = 0
    /\ warm = (Warmups = 0) /\ failed = FALSE
    /\ late = 0 /\ lost = 0 /\ starved = TRUE
-----------------------------------------------------------------------------
(* The control loop.                                                       *)

(* A period passes on the clock.  An inference lasts MaxLatency periods at   *)
(* most, and the instants before and after it are short.                    *)
PeriodPasses(unused) ==
    /\ rtc = "begin" => elapsed < Jitter
    /\ rtc = "infer" => elapsed < MaxLatency
    /\ rtc = "merge" => late < Jitter
    /\ IF rtc \in {"begin", "infer"}
       THEN elapsed' = elapsed + 1 /\ lost' = lost + unused
       ELSE UNCHANGED <<elapsed, lost>>
    /\ late' = IF rtc = "merge" THEN late + 1 ELSE late

(* The loop condition, then robot.get_observation. *)
Observe ==
    /\ main = "loop" /\ ~shutdown
    /\ main' = "observed"
    /\ UNCHANGED <<active, shutdown, stopping, flushed, enabled, holder, queueVars>>
    /\ UNCHANGED <<rtc, threadVars, delay, clockVars, planVars>>

(* notify_observation, under the observation lock. *)
Notify ==
    /\ main = "observed"
    /\ holder' = "fresh"
    /\ main' = "acting"
    /\ UNCHANGED <<active, shutdown, stopping, flushed, enabled, queueVars>>
    /\ UNCHANGED <<rtc, threadVars, delay, clockVars, planVars>>

(* _handle_warmup while the engine is not ready: no action is popped. *)
WaitForWarmup ==
    /\ main = "acting" /\ ~warm
    /\ main' = "loop"
    /\ PeriodPasses(1)
    /\ UNCHANGED <<active, shutdown, stopping, flushed, enabled, holder, queueVars>>
    /\ UNCHANGED <<rtc, threadVars, delay, planVars>>

(* engine.reset() and interpolator.reset(): the queue is cleared and a plan  *)
(* starts anew.  The observation held and a chunk being predicted stay.      *)
ResetEngine ==
    /\ queue' = <<>> /\ origin' = "none" /\ base' = 1
    /\ holder' = Aged(holder) /\ taken' = Aged(taken)
    /\ starved' = TRUE

(* The first iteration after warmup: reset, then resume. *)
FlushWarmup ==
    /\ main = "acting" /\ warm /\ ~flushed
    /\ ResetEngine
    /\ flushed' = TRUE /\ active' = TRUE
    /\ UNCHANGED <<main, shutdown, stopping, enabled, rtc, count, errors, warm, failed>>
    /\ UNCHANGED <<delay, clockVars>>

(* send_next_action with ActionQueue.get. *)
GetAction ==
    /\ main = "acting" /\ warm /\ flushed
    /\ \/ /\ queue = <<>>
          /\ starved' = TRUE
          /\ UNCHANGED <<queue, base>>
       \/ /\ queue # <<>>
          /\ queue' = [i \in 1..(Len(queue) - 1) |-> queue[i + 1] - Head(queue)]
          /\ base' = IF rtc \in {"infer", "merge"} THEN base - Head(queue) ELSE base
          /\ starved' = FALSE
    /\ main' = "sleeping"
    /\ UNCHANGED <<active, shutdown, stopping, flushed, enabled, holder, origin>>
    /\ UNCHANGED <<rtc, threadVars, delay, clockVars>>

(* precise_sleep to the end of the period. *)
EndPeriod ==
    /\ main = "sleeping"
    /\ main' = "loop"
    /\ PeriodPasses(0)
    /\ UNCHANGED <<active, shutdown, stopping, flushed, enabled, holder, queueVars>>
    /\ UNCHANGED <<rtc, threadVars, delay, planVars>>

(* An iteration takes a period more than it has, with the engine active: a    *)
(* slow robot, or a save that waits on the episode lock during an upload.     *)
LoopOverruns ==
    /\ main # "stopped" /\ rtc \in {"begin", "infer"}
    /\ NextOffset <= 1 + MaxAhead
    /\ PeriodPasses(1)
    /\ UNCHANGED <<mainVars, holder, queueVars, rtc, threadVars, delay, planVars>>

(* DAgger, AUTONOMOUS -> PAUSED: engine.pause(). *)
Pause ==
    /\ main = "loop" /\ ~shutdown
    /\ active' = FALSE
    /\ main' = "paused"
    /\ UNCHANGED <<shutdown, stopping, flushed, enabled, holder, queueVars>>
    /\ UNCHANGED <<rtc, threadVars, delay, clockVars, planVars>>

(* A period of DAgger's PAUSED or CORRECTING: the engine is left alone. *)
HoldPosition ==
    /\ main = "paused" /\ ~shutdown
    /\ PeriodPasses(1)
    /\ UNCHANGED <<mainVars, holder, queueVars, rtc, threadVars, delay, planVars>>

(* DAgger, PAUSED -> AUTONOMOUS, and a new episode of the episodic strategy  *)
(* (which does not pause the engine between episodes): engine.reset() ...    *)
BeginReset ==
    /\ main \in {"loop", "paused"} /\ ~shutdown
    /\ ResetEngine
    /\ main' = "resuming"
    /\ UNCHANGED <<active, shutdown, stopping, flushed, enabled, rtc, count, errors>>
    /\ UNCHANGED <<warm, failed, delay, clockVars>>

(* ... and then engine.resume(). *)
Resume ==
    /\ main = "resuming"
    /\ active' = TRUE
    /\ main' = "loop"
    /\ UNCHANGED <<shutdown, stopping, flushed, enabled, holder, queueVars>>
    /\ UNCHANGED <<rtc, threadVars, delay, clockVars, planVars>>

(* The loop ends and the teardown calls engine.stop(), whose join() gives up *)
(* after a timeout: the thread may outlive it.                               *)
StopEngine ==
    /\ main \in {"loop", "paused"} /\ shutdown
    /\ main' = "stopped"
    /\ stopping' = TRUE /\ active' = FALSE
    /\ UNCHANGED <<shutdown, flushed, enabled, holder, queueVars>>
    /\ UNCHANGED <<rtc, threadVars, delay, clockVars, planVars>>

(* The operator, a signal or the duration limit ends the session. *)
RequestShutdown ==
    /\ ~shutdown
    /\ shutdown' = TRUE
    /\ UNCHANGED <<main, active, stopping, flushed, enabled, holder, queueVars>>
    /\ UNCHANGED <<rtc, threadVars, delay, clockVars, planVars>>

ControlLoop ==
    \/ Observe \/ Notify \/ WaitForWarmup \/ FlushWarmup
    \/ GetAction \/ EndPeriod \/ HoldPosition \/ Resume \/ StopEngine

Operator == Pause \/ BeginReset \/ RequestShutdown
-----------------------------------------------------------------------------
(* The inference thread: _rtc_loop.                                        *)

(* The head of the loop, when it is to run and has an observation. *)
TakeObservation ==
    /\ rtc = "idle" /\ ~stopping /\ active /\ holder # "none"
    /\ taken' = holder
    /\ rtc' = "check"
    /\ UNCHANGED <<count, errors, warm, failed, mainVars, holder, queueVars>>
    /\ UNCHANGED <<delay, clockVars, planVars>>

(* The iteration of the thread is over: what it knew is forgotten. *)
Forget ==
    /\ taken' = "none" /\ base' = 1
    /\ delay' = 0 /\ elapsed' = 0 /\ late' = 0 /\ lost' = 0

(* Mutant: the queue is refilled although it is full enough. *)
CheckNothing ==
    /\ rtc = "check"
    /\ rtc' = "begin"
    /\ elapsed' = 0 /\ late' = 0 /\ lost' = 0
    /\ UNCHANGED <<mainVars, holder, queueVars, threadVars, delay, planVars>>

(* The queue is refilled when it is low; the clock starts. *)
CheckQueue ==
    /\ rtc = "check"
    /\ \/ /\ Len(queue) <= Threshold
          /\ rtc' = "begin"
          /\ elapsed' = 0 /\ late' = 0 /\ lost' = 0
          /\ UNCHANGED <<taken, delay, base>>
       \/ /\ Len(queue) > Threshold
          /\ rtc' = "idle"
          /\ Forget
    /\ UNCHANGED <<mainVars, holder, queueVars, count, errors, warm, failed, starved>>

(* get_left_over: the new chunk continues the plan from the action that the  *)
(* queue would give next.                                                    *)
ReadLeftOver ==
    /\ rtc = "begin"
    /\ base' = NextOffset
    /\ rtc' = "infer"
    /\ UNCHANGED <<mainVars, holder, queueVars, threadVars, delay, clockVars, starved>>

(* Mutant: the delay estimated from the longest latency so far, which the      *)
(* policy is given, is used for the merge too.                                 *)
EstimatedDelays == 1..(MaxLatency + 1)

(* new_delay: the latency by the clock in periods, rounded up.  A latency in   *)
(* which n periods ended is longer than n - 1 and shorter than n + 1 of them;  *)
(* it is never zero.                                                           *)
MeasuredDelays == {d \in {elapsed, elapsed + 1} : d >= 1}

(* predict_action_chunk returns and the time it took is measured. *)
Predict ==
    /\ rtc = "infer"
    /\ count < Warmups => elapsed >= CompileTicks
    /\ delay' \in MeasuredDelays
    /\ count' = IF count < Warmups THEN count + 1 ELSE count
    /\ errors' = 0
    /\ rtc' = "merge"
    /\ UNCHANGED <<mainVars, holder, queueVars, taken, warm, failed>>
    /\ UNCHANGED <<clockVars, planVars>>

(* Mutant: the error of the thread is recorded and nobody is told. *)
GiveUpSilently ==
    /\ rtc = "failing"
    /\ rtc' = "dead"
    /\ UNCHANGED <<mainVars, holder, queueVars, threadVars>>
    /\ UNCHANGED <<delay, clockVars, planVars>>

(* Mutant: the consecutive errors are not counted against the limit. *)
RetryForEver ==
    /\ rtc \in {"begin", "infer"}
    /\ errors' = errors + 1
    /\ rtc' = "idle"
    /\ Forget
    /\ UNCHANGED <<mainVars, holder, queueVars, count, warm, failed, starved>>

(* The policy raises.  Up to MaxErrors - 1 times in a row it is retried;     *)
(* then the thread gives up and lets go whoever waits for the warmup ...     *)
PredictFails ==
    /\ rtc \in {"begin", "infer"}
    /\ errors' = errors + 1
    /\ \/ /\ errors + 1 < MaxErrors
          /\ rtc' = "idle"
          /\ UNCHANGED <<warm, failed>>
       \/ /\ errors + 1 >= MaxErrors
          /\ rtc' = "failing"
          /\ failed' = TRUE /\ warm' = TRUE
    /\ Forget
    /\ UNCHANGED <<mainVars, holder, queueVars, count, starved>>

(* ... and ends the session. *)
GiveUp ==
    /\ rtc = "failing"
    /\ shutdown' = TRUE
    /\ rtc' = "dead"
    /\ UNCHANGED <<main, active, stopping, flushed, enabled, holder, queueVars>>
    /\ UNCHANGED <<threadVars, delay, clockVars, planVars>>

(* Mutant: the chunk replaces the queue from its first action on. *)
ReplaceWhole ==
    /\ queue' = ChunkFrom(base)
    /\ origin' = taken

(* _replace_actions_queue: what the inference took is cut off the chunk. *)
Replace ==
    /\ queue' = SubSeq(ChunkFrom(base), Clamped(delay) + 1, ChunkSize)
    /\ origin' = taken

(* _append_actions_queue: the chunk, planned from where the robot was when it  *)
(* was asked for, is put whole behind what is left of the queue.               *)
AppendChunk ==
    /\ queue' = queue \o ChunkFrom(base)
    /\ origin' = IF queue = <<>> \/ taken = "stale" THEN taken ELSE origin

(* ActionQueue.merge, under the queue lock. *)
Merge ==
    /\ rtc = "merge"
    /\ \/ enabled /\ Replace
       \/ ~enabled /\ AppendChunk
    /\ rtc' = "finish"
    /\ UNCHANGED <<mainVars, holder, threadVars, delay, clockVars, planVars>>

(* Mutant: one inference more than is ever counted is waited for. *)
FinishOneLate ==
    /\ rtc = "finish"
    /\ warm' = (warm \/ count > Warmups)
    /\ rtc' = "idle"
    /\ Forget
    /\ UNCHANGED <<mainVars, holder, queueVars, count, errors, failed, starved>>

(* The last warmup inference makes the engine ready. *)
FinishInference ==
    /\ rtc = "finish"
    /\ warm' = (warm \/ count >= Warmups)
    /\ rtc' = "idle"
    /\ Forget
    /\ UNCHANGED <<mainVars, holder, queueVars, count, errors, failed, starved>>

(* stop() was called: the loop ends. *)
EndThread ==
    /\ rtc = "idle" /\ stopping
    /\ rtc' = "ended"
    /\ UNCHANGED <<mainVars, holder, queueVars, threadVars>>
    /\ UNCHANGED <<delay, clockVars, planVars>>

Inference ==
    \/ TakeObservation \/ CheckQueue \/ ReadLeftOver \/ Predict
    \/ PredictFails \/ GiveUp \/ Merge \/ FinishInference \/ EndThread

Terminated == main = "stopped" /\ rtc \in {"ended", "dead"} /\ UNCHANGED vars

Next == ControlLoop \/ Operator \/ LoopOverruns \/ Inference \/ Terminated

Spec == Init /\ [][Next]_vars

(* Both threads keep running: the control loop blocks on no lock for long     *)
(* and the inference thread only sleeps.  Observe is strongly fair because an *)
(* operator presses keys far slower than the loop iterates: the loop is not   *)
(* reset for ever before it can run once.                                     *)
FairSpec ==
    Spec /\ WF_vars(ControlLoop) /\ SF_vars(Observe) /\ WF_vars(Inference)
-----------------------------------------------------------------------------
Ages == {"none", "fresh", "stale"}

(* Every variable keeps the type the code gives it. *)
TypeOK ==
    /\ enabled \in Modes
    /\ main \in {"loop", "observed", "acting", "sleeping", "paused", "resuming", "stopped"}
    /\ active \in BOOLEAN /\ shutdown \in BOOLEAN /\ stopping \in BOOLEAN
    /\ flushed \in BOOLEAN /\ warm \in BOOLEAN /\ failed \in BOOLEAN
    /\ holder \in Ages /\ taken \in Ages /\ origin \in Ages
    /\ queue \in Seq(Int)
    /\ rtc \in {"idle", "check", "begin", "infer", "merge", "finish",
                "failing", "ended", "dead"}
    /\ base \in Int /\ starved \in BOOLEAN
    /\ elapsed \in 0..MaxLatency /\ late \in 0..Jitter
    /\ lost \in 0..elapsed
    /\ delay \in Nat
    /\ count \in 0..Warmups
    /\ errors \in 0..MaxErrors

(* The queue never outgrows a chunk and what may be left when it is refilled, *)
(* although its size is read long before the chunk is merged.                 *)
QueueBounded == Len(queue) <= ChunkSize + (IF enabled THEN 0 ELSE Threshold)

(* How far back an executed action may go.  With chunks replaced, only what    *)
(* the instants around an inference let slip is executed again: the delay is   *)
(* rounded up and includes whatever the loop lost.  With chunks appended, the  *)
(* robot goes back by what was left of the queue when the chunk was asked for, *)
(* and it never skips one (where Threshold < ChunkSize, as with the defaults   *)
(* of 30 and a chunk of 50).  The first action after a starvation is not       *)
(* counted.                                                                    *)
RepeatsBounded ==
    main = "acting" /\ ~starved
        => IF enabled THEN NextOffset >= -Jitter ELSE NextOffset \in (1 - Threshold)..1

(* How far a merge moves the robot in its plan: a delay that the clock          *)
(* measured cuts off two actions more than were executed at most, and the       *)
(* instants around the inference, and one for each period in which the loop     *)
(* asked for none; "Indexes diff is not equal to real delay"                    *)
(* (action_queue.py:238) warns of both.                                         *)
SkipsAccounted ==
    [][rtc = "merge" /\ rtc' = "finish" /\ enabled /\ ~starved /\ queue' # <<>>
          => NextOffset' - NextOffset \in (-1 - Jitter)..(2 + Jitter + lost)]_vars

(* A starved robot gets new actions, through inferences that fail, pauses and *)
(* resets: no chunk is so late that nothing is left of it for ever.           *)
ActionsFlow == queue = <<>> ~> queue # <<>> \/ ~active

(* The engine becomes ready (rtc.py:329): an inference that fails, a pause or  *)
(* a reset lets the warmup go on.  Excepted is a queue above the threshold,    *)
(* which holds the next warmup inference back (rtc.py:270) while the main loop *)
(* waits for it and pops nothing: there the warmup never ends.                 *)
WarmupProgresses == []<>(warm \/ ~active \/ Len(queue) > Threshold)

(* "Signal the top-level shutdown so strategies exit their control loops"     *)
(* (rtc.py:358): after a fatal error of the thread no strategy runs on.       *)
FailureEndsSession == failed ~> main = "stopped"

(* episodic.py:65 "The policy state (hidden state, RTC queue, interpolator)   *)
(* is reset at the start of each recording episode": after the reset nothing  *)
(* predicted for the former episode is executed.                              *)
QueueFresh == queue # <<>> => origin = "fresh"
=============================================================================
