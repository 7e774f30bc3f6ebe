# A verification of LeRobot's control and recording software

This directory holds TLA+ models of the concurrent parts of LeRobot (the robot
learning toolkit under `src/src/lerobot`), the TLC configurations that check them
on small instances, and theorems about them that TLAPS checks for every value of
the constants.

The interesting part of this program is not the neural networks. It is what stands
between a policy and a moving arm: a control loop that must have an action every
33 ms, inference that takes several of these periods, threads and a network between
the two, an operator who presses keys at any moment, and a recording that must not
lose, mix or repeat anything when something fails. A unit test reaches one order of
these steps; the models reach all of them.

| to do | command, in this directory |
| --- | --- |
| check a configuration | `tlc -workers 2 -config AsyncSession.cfg MCAsyncInference.tla` |
| check the proofs | `tlapm DaggerProofs.tla` |

In what follows a path without a directory is the file of that name in the component
table; all of them are under `src/src/lerobot/`.

---

## 1. Inventory

### 1.1 Components with control of their own

| component | code | state it keeps | operations | module |
| --- | --- | --- | --- | --- |
| async robot client | `async_inference/robot_client.py` | `action_queue`, `latest_action`, `must_go`, `action_chunk_size` | control loop (execute an action, send an observation), receiver (merge a chunk), started again | AsyncInference |
| async policy server | `async_inference/policy_server.py` | `observation_queue` (one place), `_predicted_timesteps`, `last_processed_obs` | `Ready`, `SendPolicyInstructions`, `SendObservations`, `GetActions` | AsyncInference |
| RTC engine | `rollout/inference/rtc.py` | `_obs_holder`, `_policy_active`, warmup count, error count | `notify_observation`, `get_action`, `reset`, `pause`, `resume`, `stop`, inference thread | RtcInference |
| RTC action queue | `policies/rtc/action_queue.py` | the queue, the original queue, `last_index` | `get`, `clear`, `get_left_over`, `merge` (replace or append) | RtcInference |
| DAgger strategy | `rollout/strategies/dagger.py` | phase, one pending request, `last_action`, counters, `_needs_push` | keys, handovers, record, rotate, save, push, teardown | Dagger |
| episodic strategy | `rollout/strategies/episodic.py` | three flags of the operator, `recorded_episodes` | attempt, reset phase, discard, save, teardown | Episodic |
| highlight strategy | `rollout/strategies/highlight.py`, `rollout/ring_buffer.py` | frames with a count and a byte account, `recording_live` | append and evict, toggle, flush, save, push | Highlight |
| sentry strategy | `rollout/strategies/sentry.py` | `_needs_push`, episodes since push | rotate, save, push | |
| rollout core | `rollout/strategies/core.py` | interpolator, warmup flag, cached observation | warmup, dispatch, teardown, push | in the strategies |
| dataset writer | `datasets/dataset_writer.py`, `dataset_metadata.py` | episode buffer, files, metadata, counts | `add_frame`, `save_episode`, `clear_episode_buffer`, `finalize`, resuming | DatasetWriter |
| streaming video encoder | `datasets/video_utils.py` | a bounded queue of frames, a thread | start, feed, finish, cancel an episode | DatasetWriter |
| image writer | `datasets/image_writer.py` | a queue, workers | write, wait, stop | |
| RL actor | `rl/actor.py` | transitions of the episode, three queues, shutdown event | act, end an episode, stream, update the policy | ActorLearner |
| RL learner | `rl/learner.py`, `rl/learner_service.py`, `rl/buffer.py` | three queues, replay buffer, worker pool | store, sample, train, push weights, serve calls | ActorLearner |
| transport | `transport/utils.py` | a message cut in chunks | send and receive | in ActorLearner, as far as messages |
| cameras | `cameras/*/camera_*.py` | the latest frame, an event | reader thread, `async_read` | |
| keyboard input | `utils/keyboard_input.py` | the flags of a recording | one assignment after another per key | in Episodic |

The rest of the repository has no control that a model would say anything about:
policies, rewards, training and optimisers are numeric; motor buses, robots and
teleoperators are drivers whose state is the hardware; processors, configuration,
dataset reading and editing, jobs and annotation run step after step in one thread.
Most of the repository's lines are there. `PROJECT.json` lists each of these parts with
its reason.

### 1.2 How they interact

- **Remote inference.** The robot client sends an observation when its queue is short
  (`_ready_to_send_observation`); the server keeps at most one, filters those it need
  not answer, predicts a chunk, and the client's receiver thread merges the chunk into
  the queue that the control loop is popping from. A *must-go* flag on an observation
  overrides the filters when the queue is empty. A client that is started again resets the
  server, in which a handler may still run for the former one.
- **Local inference.** A strategy's control loop publishes an observation, pops an
  action, sends it, and sleeps. The RTC engine's thread refills the queue. The strategy
  pauses, resumes and resets the engine; the engine raises the shared shutdown event when
  it gives up.
- **Recording.** A strategy adds frames to the dataset's episode buffer, saves episodes,
  and pushes the dataset to the Hub (from a worker thread while recording goes on, and
  once more after `finalize()`). Keys reach the main thread through shared flags. The
  writer writes rows, videos and metadata one after the other; with streaming, a thread
  encodes the video while the episode is recorded.
- **Learning on a robot.** An actor streams the transitions of its finished episodes to a
  learner, which streams its weights back. Three gRPC calls that never end by themselves
  share a pool of three workers.

### 1.3 What is hard, and what makes each component correct

| component | hard behaviour | correct when |
| --- | --- | --- |
| async client and server | the queue changes while it is merged; the token is marked and cleared in two steps; the server filters what the client needs answered; a call fails; a client reconnects | actions leave the queue in order; none older than the one executed comes back unless an execution overlapped the merge; a robot without actions is always owed some; the task ends |
| RTC engine and queue | latency is measured by a clock but actions are consumed by the loop; the observation outlives a reset; the warmup, the errors and a pause may leave one side waiting for the other | the queue is bounded; what a merge repeats or skips of the plan is bounded and accounted for; a starved robot gets actions; only a full queue holds the warmup up; a fatal error is told |
| DAgger | one slot for all requests; handover between two arms; saves against background pushes; an exit from any point | a request is still valid when consumed; a takeover has to make up for no more than the leader moved in it; each correction is one episode; no episode and no frame is forgotten; what is pushed at the end can be read; a session asked to stop ends |
| episodic | flags are set and cleared one at a time by two threads, and a key may come at any point | an episode holds one attempt; a discarded attempt is not saved; nothing else than the operator, a failure or a blank attempt cuts the session short |
| highlight, ring buffer | eviction by count and by bytes keep one account; a key is a toggle whose meaning is decided later; a save fails in the middle of a live recording | the ring holds the last frames; an episode is one stretch of frames with the history of the moment the key was pressed; the session ends with everything on the Hub |
| dataset writer, encoder | a failure between two of the steps of a save; positions that several files must agree on, over sessions; a bounded queue and a thread that dies | metadata divides the frames without a gap; no row is lost; an episode is read as it was recorded, and nothing that happens later changes it; a save ends |
| RL actor and learner | transitions and weights pass through queues, streams that end and a pool of workers; actors are stopped or killed | transitions arrive once and in order; a sampled next state is the one that followed, unless that one was left out for a NaN; the newest weights reach the actor |
| image writer | a worker that dies or that fails to write | the wait for the queue ends |
| sentry | pushes against saves, the flag of the final push | as EpisodeStore |
| cameras | the reader thread dies or is late | `async_read` gives a frame captured after the former one, or fails in time |

Every place where one of these bites is listed with its line under `hazards` in
`PROJECT.json`, with the property that would catch it, or why there is none yet.

---

## 2. Modules

```
EpisodeStore  <--refines--  Dagger         <-- DaggerProofs          MCDagger
              <--refines--  Episodic       <-- EpisodicProofs        MCEpisodic
              <--refines--  Highlight      <-- HighlightProofs       MCHighlight
EpisodeLog    <--refines--  DatasetWriter  <-- DatasetWriterProofs   MCDatasetWriter
                                           <-- DatasetReadingProofs
RtcInference                               <-- RtcInferenceProofs    MCRtcInference
AsyncInference                             <-- AsyncInferenceProofs  MCAsyncInference
ActorLearner                               <-- ActorLearnerProofs    MCActorLearner
```

An MC module extends a component for TLC; every constant gets its value in a `.cfg`, and
no symmetry is used. The proof modules extend the same component, so what is proved and
what is checked are the same definitions. Operators whose comment begins with
"Mutant:" are not part of the specification: each is a plausible bug of the definition
right after it, and put in its place, makes one of the properties fail.

### 2.1 AsyncInference

`robot_client.py` and `policy_server.py` as four threads.

| in the model | in the code |
| --- | --- |
| `control` and `CheckActions` ... `ClearMustGo` | `control_loop`, `control_loop_action`, `control_loop_observation`, in the order of its statements |
| `receiver` and `BeginIteration` ... `GrantMustGo` | `receive_actions` and `_aggregate_action_queues` |
| `sender` and `FilterObservation`, `EvictObservation`, `PutObservation` | `SendObservations` with `_enqueue_observation`: `full()`, `get_nowait()`, `put()` |
| `predictor` and `TakeObservation` ... `DeliverChunk` | `GetActions`: the blocking `get`, `_predicted_timesteps.add`, `last_processed_obs`, the reply |
| `CaptureFails`, `SendFails`, `PredictionFails` | the handlers of exceptions of the robot, the call, and the inference |
| `client`, `Restart` | a new client: `start`, `Ready` and `_reset_server` |
| `RecordTimestep(c)`, `Preprocess(c)`, `FailInVain(c)` with `c < client` | a `GetActions` of a former client, which goes on writing to the shared state of the server and whose reply nobody receives |

An action is its timestep; an observation is its timestep, its scene and its must-go
flag; two observations are similar when they show the same scene. `lastProcessed` is the
scene of `last_processed_obs`, all that the filter reads of it. An operation under
`action_queue_lock` or `latest_action_lock` is one step, and an access without a lock
is a step of its own. `answered`, `tokenRaced`, `disturbed`, `overlapped`, `rewinds` (the
times the control loop executed an action older than the last one) and `faults` are history:
no guard of the program reads them.

### 2.2 RtcInference

`rtc.py`, `action_queue.py`, and the control loop of the strategies (`core.py` and the
loops of `dagger.py` and `episodic.py`). An action is its **offset** in the plan: how many
control periods after the last executed action the plan has it. The actions executed follow
the plan when each offset popped is 1; below 1 the robot goes back, above it skips. A chunk
begins where the robot was when it was asked for (`base`, `ChunkFrom`), also when it is
appended behind what was left of the queue. The age of an observation and of what is
predicted from it is fresh or stale: captured after or before the last `reset()`.

The engine measures a latency with a clock and divides it by the nominal period
(`rtc.py:313-314`). The model's clock counts nominal periods: one passes when an iteration of
the loop ends, and another one whenever an iteration overruns (`LoopOverruns`), which a slow
robot or a save that waits for the episode lock (`dagger.py:438-448`) can do with the engine
active. The measured delay is the periods that passed on this clock since `current_time` was
read, or one more, because it is rounded up (`MeasuredDelays`); it is not tied to the actions
executed meanwhile. `lost` is history: the periods of an inference in which no action was
asked for.

| in the model | in the code |
| --- | --- |
| `Observe`, `Notify`, `WaitForWarmup`, `FlushWarmup`, `GetAction`, `HoldPosition` | the control loop of a strategy with `_handle_warmup` and `send_next_action` |
| `EndPeriod`, `LoopOverruns` | `precise_sleep` to the end of the period, and an iteration that took longer than it |
| `Pause`, `Resume`, `BeginReset`, `ResetEngine`, `StopEngine` | `RTCInferenceEngine.pause`, `resume`, `reset`, `stop` |
| `TakeObservation`, `CheckQueue`, `ReadLeftOver`, `Predict`, `Merge`, `FinishInference` | `_rtc_loop` |
| `PredictFails`, `GiveUp` | its two exception handlers |
| `Replace`, `AppendChunk` | `ActionQueue._replace_actions_queue`, `_append_actions_queue` |

### 2.3 Dagger

`dagger.py`. Keys go through `RequestTransition` and the slots of `DAggerEvents`; the main
thread's position `main` walks through one iteration of either loop (`continuous` chooses
`_run_continuous` or `_run_corrections_only`), and `site` says which of the three
`save_episode` calls it is at; `push` is the worker of `_push_executor`.

`arms` is how far leader and follower are apart: anywhere (`apart`), at the same place
(`met`), as far as the leader moved since they met (`shifted`), or following each other from
tick to tick (`followed`). A leader is passive, actuated, or actuated with keys that the
robot's processors rename. An actuated leader is driven to the follower when the policy
pauses, and held; for a renamed one that move "silently no-ops" (`dagger.py:661-665`) and it
is held where it is; to a passive one the follower slides when the correction starts, by a
pose that is read once, for about a second (`main = "slide"`, `EndSlide`). The operator moves
whatever is not held at any moment, in the slide too (`MoveLeader`).

The dataset is external: a count of saved episodes, and a buffer that is empty, has frames,
or holds the remains of a failed save. `hub` is the episodes of the last upload, and `sealed`
whether it was made after `finalize()`: the parquet files of an earlier one have no footer
(`lerobot_dataset.py:463-464`).

### 2.4 Episodic

`episodic.py` with the keys of `keyboard_input.py`, one assignment at a time: Left sets
`rerecord_episode` and then `exit_early`, Escape sets `stop_recording` and then
`exit_early`, and the main thread may be anywhere in between (`key`). The episode buffer is
the set of the attempts its frames come from, by parity; `discard` and `blank` are history.
`EngineReady` ends a compilation during which the loop only waits.

### 2.5 Highlight

`highlight.py` with `ring_buffer.py`. A frame is the number of its action, so an episode is
a sequence of numbers and "one stretch of the robot's time" can be said of it.

| in the model | in the code |
| --- | --- |
| `Evicted`, `DequeAppend`, `AppendToRing`, `EmptyRing` | `RolloutRingBuffer.append` with both bounds, and `drain`; frames of a robot have one size, so `account` counts in frames |
| `PressSave`, `PressPush`, `PressEscape`, `FinishEscape` | the handler of the keys; ESC clears one event and then sets the other |
| `NextFrame`, `StartLive`, `StopLive`, `NoRequest`, `Route`, `LoopEnds` | an iteration of `run`: the toggle, then the push key, then the frame goes to the dataset or to the ring |
| `FlushFails`, `SaveFails`, `IterationFails` | an exception in the flush, in `save_episode`, or anywhere else in the loop |
| `LeaveLoop`, `TakeEpisodeLock`, `SaveEpisode`, `Finalize`, `JoinPusher`, `FinalPush`, `ReleaseHardware` | `finally` and `teardown` |
| `StartPush`, `LockForPush`, `FinishPush` | the worker of the push executor |

`is_set()` and `clear()` of the save request are one step: a press between them is as lost
as one before them. `pressed` is history: the oldest frame there was at the press.

### 2.6 DatasetWriter

`dataset_writer.py`, with the metadata of `dataset_metadata.py`, `LeRobotDataset.resume`
and the streaming encoder of `video_utils.py`. A dataset is three kinds of files that refer
to each other by position: data files of rows, video files in which episodes follow each
other, and the metadata, which says where each episode is found. A frame is a number no
other frame has, so that a row can be compared with the frame of the video shown with it.

| in the model | in the code |
| --- | --- |
| `AddFrame`, `AddFrameFails`, `AddImage` | `add_frame`; a feature that raises leaves the buffer's lists of different lengths (`ragged`) |
| `BeginSave`, `StackFails`, `SaveRows`, `VideoFails`, `FinishSave` | `save_episode` in the order of its steps, with a failure between any two |
| `DataFile`, `DataFiles`, `VideoFile`, `VideoStart`, `EpisodeMeta`, `CountEpisode` | `_save_episode_data`, `_save_episode_video`, `_save_episode_metadata`, `save_episode` of the metadata: which file, at which position, behind what |
| `StartEncoder`, `FeedFrame`, `EncodeFrame`, `FrameEncoded`, `EncoderFails`, `Flushed`, `EncoderOff` | `StreamingVideoEncoder` and its thread: a bounded queue, a frame that finds no place is dropped, a sentinel at the end |
| `ClearBuffer`, `Finalize`, `Resume` | `clear_episode_buffer`, `finalize`, `LeRobotDataset.resume` of what is on disk |
| `Table`, `Readable`, `VideoFrame` | `dataset_reader.py`: the data files one after the other, indexed by the metadata's range of frames |

Whether a file is full depends on sizes and is a choice. `streaming` is chosen in `Init`.
`spoiled` and `intact` are history: a save failed after it had written its rows, and the
episodes saved before that.

### 2.7 ActorLearner

`actor.py`, `learner.py`, `learner_service.py` and `buffer.py`. The state of the robot is a
number: the transition from `n` has `n` as its state and `n + 1` as its next state; the
last state of an episode is not the first of the next. Weights are the optimization step
they were made at. `skipped` is history: the states whose transitions the learner left out because
of a NaN.

| in the model | in the code |
| --- | --- |
| `StartActor`, `Step`, `EndEpisode`, `LeaveLoop`, `ActorEnds` | `act_with_policy` and the joins after it |
| `StreamEpisode`, `EndStream`, `CancelStream` | `transitions_stream`, `interactions_stream`: their generators end at the shutdown event, or raise when their queue was closed |
| `ReceiveWeights`, `EndReceiver`, `UpdatePolicy` | `receive_policy`, which waits in the iteration of its stream, and `update_policy_parameters` |
| `RequestStop`, `KillActor` | a signal or an exception; a process that is gone with what it carried |
| `Dispatch`, `TakeWeights`, `ReceiveEpisode` | the pool of `MAX_WORKERS` threads, `StreamParameters`, `SendTransitions` |
| `zombies`, `ZombieTakes` | `StreamParameters` handlers of actors that are gone: each learns of it when it next sends |
| `AddTransition`, `Stored`, `Train`, `Sampled`, `NextState` | `process_transitions` with the transitions that it leaves out for a NaN, `ReplayBuffer.add`, the optimization step with the push of the weights, `ReplayBuffer.sample` |

### 2.8 EpisodeStore and EpisodeLog

The abstract specifications. EpisodeStore is what a strategy promises of the episodes it
sends: episodes are saved one at a time, a push takes all that is saved, and a session closes
with nothing left to push, unless its last push failed or none was asked for. It counts
episodes and does not say that the files sent can be read (`HubReadable`, `HubFinalized`). `Dagger`, `Episodic` and
`Highlight` implement it with the mapping

    open <- main # "ended"
    excused <- (main = "ended" /\ ~released) \/ ~PushToHub

(in Highlight also `saved <- Len(episodes)`). A session that ends without releasing the
hardware is one whose final push raised: in each strategy the push comes just before the
release, and an exception of it leaves `teardown()`.

EpisodeLog is what a dataset promises to who records into it: frames are collected, the
collected ones become an episode or are dropped, and an episode in the log never changes.
`DatasetWriter` implements it, with the log as it is *read*: the rows the reader finds for
the episodes saved before the first save that failed after it had written its rows.

---

## 3. Runs

| run | instance | distinct states | properties |
| --- | --- | --- | --- |
| `async_session` | chunks of 2, threshold 1/2, 2 scenes, timestep 3, 1 failed call or restart | 2,985,882 | `QueueIncreasing` `FreshUnlessOverlapped` `MustGoPending` `RewindBounded` `TaskEnds` |
| `rtc_session` | both modes, chunks of 6, threshold 3, 2 warmups, latency up to 3, jitter 1, 2 errors, overruns while less than 2 actions are skipped | 138,904 | `TypeOK` `QueueBounded` `RepeatsBounded` `SkipsAccounted` `ActionsFlow` `WarmupProgresses` `FailureEndsSession` |
| `dagger_session` | both modes, three leaders, 2 episodes, stride 2, a push per episode, 1 push waiting, 1 failure | 1,240,379 | `TypeOK` `SmoothTakeover` `CorrectionsSeparate` `SessionEnds` `StoreSpec` `HubReadable` |
| `episodic_session` | 3 episodes, compilation, push, 1 failure | 19,843 | `TypeOK` `OneAttempt` `DiscardHonoured` `SessionComplete` `FramesSaved` `SessionEnds` `StoreSpec` |
| `highlight_session` | a ring of 2 frames, memory for 0, 1 or 3, 5 frames, 1 push waiting, 1 failure | 445,439 | `RingKeepsLast` `EpisodesWhole` `HistoryKept` `HubFinalized` `SessionEnds` `StoreSpec` |
| `writer_sessions` | streaming or not, a queue of 2, 5 frames, 3 sessions, 2 failures | 938,421 | `TypeOK` `RowsKept` `EpisodesReadable` `LogSpec` `SaveEnds` |
| `rl_session` | 3 workers, 2 actors of 2 steps, a buffer of 2, weights 0 to 2, 1 NaN | 673,192 | `TypeOK` `InOrder` `NextStateSound` `WeightsArrive` |
| `async_receiver` | chunks of 3, timestep 4, no failed call | violation | `ReceiverLives` |
| `async_failure` | chunks of 3, timestep 2, 1 failed call | violation | `FailureRecovered` |
| `rtc_reset` | replacing mode, no warmup | violation | `QueueFresh` |
| `writer_orphans` | a queue of 1, 3 frames, 2 sessions, 1 failure | violation | `RowsFound` |
| `rl_workers` | as `rl_session`, weights 0 and 1, no NaN | violation | `CallsServed` |

### 3.1 What the passing runs show

**Asynchronous inference.** What the control loop will pop is strictly increasing
(`QueueIncreasing`), although the receiver selects each action against a `latest_action`
that moves under it. An action already executed is in the queue only if another one was
executed during the merge that made the queue (`FreshUnlessOverlapped`): that race exists
and makes the arm repeat a little of its motion. How far it sets the arm back is bounded
(`RewindBounded`): the first time by less than a chunk, and the n-th time by at most
`n * (ChunkSize - 2) + 1` timesteps. The bound grows because rewinds compound: a chunk
predicted from an observation before one rewind may be merged after it, with an execution in
the middle again. With chunks of 2, as in the run, they cannot; with chunks of 3 and
`MaxStep = 5`, or of 4 and `MaxStep = 7` (the same cfg with these constants, threshold 0 and
no failed call: 2,900,953 and 22.6 million states), they do, a rewind by a chunk and more is
reached, and the bound holds. A client that gave away its must-go token is owed an answer by
one of the four threads, unless a call failed, the receiver died, or a `set()` came between
the mark and the `clear()` (`MustGoPending`). And neither the similarity filter nor those
rewinds hold the robot back for ever (`TaskEnds`), nor what a `GetActions` of the former
client still writes when the client was started again.

**Real-time chunking.** The thread reads the size of the queue several steps before it
merges, and the queue still never exceeds a chunk, or a chunk and the threshold when
chunks are appended (`QueueBounded`). When chunks are replaced, the robot never goes back in
its plan by more than the instants around an inference let slip (`RepeatsBounded`): the delay
is rounded up and contains whatever the loop lost, so it cuts off at least what was executed.
It may cut off more: what a merge skips is at most two actions, those instants, and one for
each period the loop lost (`SkipsAccounted`); "Indexes diff is not equal to real delay"
(`action_queue.py:238`) warns of it and changes nothing. When chunks are appended nothing is
skipped, and each chunk goes back by what was left of the queue when it was asked for, the
threshold at most. Under fair threads a starved robot gets actions unless it is paused
(`ActionsFlow`), the warmup goes on unless the queue is above the threshold
(`WarmupProgresses`; with a full queue it never ends, see 3.3), and the death of the thread
ends the session (`FailureEndsSession`).

**DAgger.** The human never drives while the policy runs, and once the policy has acted the
arms were brought together in every takeover, so that its first action makes up for no more
than the leader moved in it (`SmoothTakeover`). Each correction is an
episode of its own whatever the pusher does (`CorrectionsSeparate`); `_needs_push`, set
after the lock is released and cleared under it, never loses an episode (`StoreSpec`); a
session asked to stop ends (`SessionEnds`). An episode still unsent at `finalize()` brings
readable files to the Hub, by the worker or by the last push, unless that fails
(`HubReadable`); what happens when there is none is in 3.3.

**Episodic.** No episode mixes two attempts (`OneAttempt`), an attempt that was asked to be
discarded is not saved by the loop (`DiscardHonoured`), a session not stopped has all its
episodes unless a call failed or an attempt was blank (`SessionComplete`), no frame is left
in the buffer (`FramesSaved`), and a session ends unless the operator discards for ever
(`SessionEnds`).

**Highlight.** While nothing is recorded the ring is exactly the last frames, as many as
both bounds allow (`RingKeepsLast`). That is not evident: what the deque drops by `maxlen`
stays in the byte account, which runs ahead of the content, and evicts no more than the
deque would have. An episode is one stretch without a gap or a repeated frame, however
keys, flushes, saves and failures interleave (`EpisodesWhole`), and begins with the history
there was when the key was pressed, but for one frame (`HistoryKept`). What stays on the Hub
was uploaded after `finalize()` (`HubFinalized`).

**Recording a dataset.** Over sessions, discarded attempts and failing saves no writer
that opens a file empties one that an episode is in (`RowsKept`); that the metadata divides
the frames is proved (`Contiguous`, section 4). Up to the first save that fails after its
rows were written, each episode is read with its own rows and its own video frames (`EpisodesReadable`,
`LogSpec`), also where an earlier episode of the same video lost frames to a full queue, and
where a discarded attempt left images. A save ends, the streaming thread dead or alive,
except in one state (`SaveEnds`): the thread died with its queue full (`Blocked`).

**Learning on a robot.** What is stored is what the robots did, in order and nothing twice,
and nothing of one actor is skipped on the way to the learner (`InOrder`). A batch gets the
next state that really followed, but for the newest transition of a full buffer while its
episode is still being added, and for a transition whose successor was left out for a NaN
(`NextStateSound`). An actor whose receiver runs gets the newest
weights, although handlers of dead actors take and lose some (`WeightsArrive`).

### 3.2 What the violations show

| run | what the code or the documentation says | what it does |
| --- | --- | --- |
| `async_receiver` | "Protect queue operations" (`robot_client.py:126`) | line 239 iterates the deque outside the lock; a pop in between raises `RuntimeError`, which `receive_actions` does not catch: the thread ends and no action arrives any more |
| `async_failure` | "must-go event will be set again after receiving actions" (`robot_client.py:436`) | when the inference of the must-go observation fails nothing is received, its timestep counts as predicted already, and every later observation of it is filtered out |
| `rtc_reset` | "The policy state (hidden state, RTC queue, interpolator) is reset at the start of each recording episode." (`episodic.py:65`) | `reset()` empties the queue, but the observation held and the chunk in prediction are from before it and fill it again |
| `writer_orphans` | "If an issue occurs or you want to record additional episodes in the same dataset, you can resume by re-running the same command with `--resume=true`." (`docs/source/il_robots.mdx:375`) | a save that fails after its rows were written leaves them in the data file; the next episode takes the same index and range, its rows follow the orphans, and it and all later episodes are read from the wrong rows |
| `rl_workers` | "MAX_WORKERS = 3  # Stream parameters, send transitions and interactions" (`learner_service.py:42`) | the `StreamParameters` handler of a killed actor keeps its worker until it has weights to send; if the call that waits for a worker is `SendTransitions`, the learner never trains and no weights ever come (`PoolExhausted` proves that a call waits for no other reason) |

### 3.3 Behaviour that no property forbids

These came up while reading and modelling. Where they are in the models, the properties are
stated so that they say what remains true.

- Async: an action popped while a chunk is merged is executed again with the new queue; a
  `set()` of `must_go` between the mark and the `clear()` is lost; with one action per
  chunk the robot never advances, as the first action of a chunk is the one of the
  observation itself (`TaskEnds` fails with `ChunkSize = 1`). `Ready` "Flushes server state
  when new client connects", but `last_processed_obs` survives it, and a `GetActions` of the
  former client adds its timestep to the new set.
- RTC: `RepeatsBounded` needs, with chunks appended, a chunk that is longer than the threshold
  (the defaults are 50 and 30; nothing checks them against each other), and `ActionsFlow` a
  latency below the chunk size. The first chunk after a start loses `real_delay` actions
  although none was executed (the comment at `action_queue.py:178` explains the cut by actions
  executed meanwhile). The warmup may never end. With `use_torch_compile` it takes two
  inferences by default (`rtc.py:105`), the second is made when the queue has the threshold at
  most (`rtc.py:270`), and the main loop pops nothing until the warmup is over: it spins for
  ever when the first inference leaves more than the threshold in the queue, always when chunks
  are appended and, when they are replaced, if it was quick. `WarmupProgresses` without its last
  disjunct is refuted in the run's cfg.
- DAgger: a correction so short that no recorded tick falls in it has nothing to save, its
  save raises and the session ends (`dagger.py:575`); a background push clears the flag of
  the final push (`dagger.py:300`, `727`; the same in `sentry.py:225`), and with nothing saved
  after it the Hub keeps files from before `finalize()`, without which "the dataset will be
  invalid" (`lerobot_dataset.py:464`): `HubReadable` with `hub > 0` in place of `hub < saved`
  is refuted in a session of one episode; a passive leader may be moved during the slide to it, and the first
  frame of the correction makes up for that at once, where `dagger.py:644` promises that the
  robot "meets the operator's hand rather than jumping to it on the first frame"; a leader with
  renamed keys is held wherever it was, and the correction starts with a jump to it; a push that waited runs in a later
  correction (the docstring at `dagger.py:706` says pushes are blocked while a correction is
  recorded); a pause before the policy's first action leaves the arms apart; a rotation
  that comes due in a pause with no frame saves an empty buffer and ends the session; a
  failing final push leaves the robot connected and the engine running; a background push
  ignores `push_to_hub = False`; continuous mode ignores `num_episodes`.
- Episodic: an `exit_early` left over from a key pressed while no loop ran ends the next
  attempt before its first frame, whose save raises and ends the session; the time of the
  compilation counts as time of the first attempt; Left during a save discards the next
  attempt and not the saved one; an attempt asked to be discarded is saved by `finally` when
  an exception comes before the discard.
- Highlight: two presses between two actions are one toggle, and a press while the policy
  has no action waits; the comment at `highlight.py:134` speaks of a toggle that is processed
  on the next iteration. With streaming, its docstring calls `add_frame` non-blocking, while
  a full queue holds it up for 0.1 s.
- Dataset writer: after a failing `add_frame` every save of that buffer fails until it is
  cleared; a dataset closed without an episode cannot be resumed; a frame that finds the
  encoder's queue full is missing from the video, and the rows of that episode are shown with
  later frames from there on.
- Actor and learner: the learner leaves out a transition with a NaN (`learner.py:967-974`), and
  the buffer, which stores no next states, takes the one after it as the next state of the one
  before it (`buffer.py:256`): in the middle of the ring, for as long as it is kept, and into
  another episode when the one left out was its last; the last transition of an episode that was cut off, and
  is not `done`, is sampled with the first state of the next episode (`episode_ends` is never
  used, `buffer.py:256`);
  the receiver sees the shutdown event only when weights arrive, and the actor's join waits
  for it; queued episodes are lost when an actor stops; a new actor acts with its initial
  weights until the next push; `interaction_step` of a checkpoint is 0 unless a message came
  in the same iteration; the learner never stops by itself at `online_steps`.

### 3.4 Bounds, and why they are enough

- `MaxStep`, `MaxFaults`, `RestartStep` (async): a merge needs a chunk that overlaps the
  queue and an execution in the middle, and a rewind needs three timesteps; with chunks of 2
  and 3 the queue is replaced several times, runs dry, and rewinds. One failure is enough for
  every failure handler. `RestartStep = 0` lets a client be replaced at any point of its
  first exchange, its handler in the server at any of its positions, and the next client runs
  its whole task.
- `Warmups`, `MaxLatency`, `Jitter`, `CompileTicks`, `MaxAhead` (RTC): two warmup inferences, the
  default of the code; a latency of 0 to 3 with a threshold of 3
  covers an inference that ends before, at and after the queue runs dry. `Jitter` bounds
  the periods that may end between the measurement and the merge, where the code does
  nothing but arithmetic. Overruns stop once the next action skips `MaxAhead` others, since
  each adds a skip: one is enough for a queue that is ahead to meet every other step.
- `Leaders`, `NumEpisodes`, `UploadEvery`, `MaxQueued`, `MaxFaults`, `Stride` (strategies): every
  kind of leader; two (three)
  episodes, so that one can be saved while the former is pushed or discarded; a stride of 2,
  so that ticks without a frame exist; a push waiting behind a running one.
- `MaxLen`, `Fits`, `MaxFrames` (highlight): a memory below one frame, of one frame, and
  beyond the ring, so that either bound evicts first; five frames fill the ring, are flushed,
  recorded, and fill it again.
- `MaxFrames`, `MaxSessions`, `MaxFaults`, `QueueSize` (writer): three sessions, since the
  second resumes a created dataset and the third a resumed one; five frames, so that two
  frames of one episode can be wrong against each other and another episode follows; a second
  failure, after one already spoiled something; a queue of two, full after the thread died
  and full while it encodes.
- `Workers`, `OnlineSteps`, `MinReplay`, `Capacity`, `MaxVersion`, `MaxSkips`, `MaxLives` (RL): the pool
  is the constant of the code; an episode of two transitions in a buffer of two fills it, and
  the next overwrites; one transition left out (`MaxSkips`) can be any of an episode; a second actor meets the handlers of the first; three kinds of weights
  tell the newest from an older one that is still under way.

The passing runs fire every action of the next-state relations.

### 3.5 Fairness

- **AsyncInference**: weak fairness of each thread of the client and of the sender, none
  holds a lock across a blocking call. Strong fairness of `GetActions` of the running client
  (`TakeObservation`, `DeliverChunk`, `Predictor(client)`): it blocks in `Queue.get`; a `put`
  wakes it, and it has a control period before the next observation could evict what was put,
  so it does not miss every one of them. A handler of a former client owes nothing.
- **RtcInference**: weak fairness of the control loop and the inference thread; strong
  fairness of `Observe`, because a loop that is paused and resumed for ever still gets to
  an observation in between.
- **Dagger, Episodic, Highlight**: weak fairness of the main thread and of the push worker,
  and of the end of a compilation. The operator owes nothing, and a failure is never forced:
  the failing iteration is outside of `Main`, so that a loop that could only be left by an
  exception counts as stuck.
- **DatasetWriter**: a save that was begun runs on, and so does the thread of the encoder.
  Nothing says when a frame comes, who saves, or that the thread dies.
- **ActorLearner**: weak fairness of the threads and of the network; strong fairness of a
  training step that pushes, since a push is due every few seconds. Nothing says when a robot
  steps, an episode ends, or a process is started, stopped or killed.

---

## 4. Proofs

Eight proof modules, 9922 obligations, no assumption beyond the named `ASSUME`s about the
constants (naturals, non-zero where the code divides or cuts; TLC evaluates them in each
run) and `NoObs` not being an observation.

| theorem | establishes | inductive invariant |
| --- | --- | --- |
| `AsyncInferenceProofs!TypeCorrect` | `TypeOK`, and the hand-over of observations | `HandOver`: the handler runs exactly while the client waits in its call, a place is free when it puts, and a chunk is predicted only while the receiver waits for it |
| `MustGoNeverLost` | `MustGoPending` | `TokenInv`: while an observation that took the token is handed over, an answer is pending or a `set()` came already |
| `RewindsBounded` | `RewindBounded` | `RewindInv`: no execution has passed some timestep `h`, at most `Gap(rewinds)` ahead of where the robot is (`Executed`); no observation under way is of a later step (`Observed`), so no action is a chunk after it (`Planned`); and no queued action would be a greater rewind than one more allows (`Repeatable`) |
| `QueueOrdered`, `QueueFresh` | `QueueIncreasing`, `FreshUnlessOverlapped` | `MergeInv`: what was selected comes before what is still to be read; `FreshInv`: the action held, the selection and the queue against `latest` |
| `RtcInferenceProofs!TypeCorrect` | `TypeOK` | `ErrorsCounted`: the thread gives up as soon as the errors reach the limit |
| `QueueNeverOutgrown` | `QueueBounded` | `RefilledLow`: between the check of the size and the merge the queue can only shrink, since the thread alone adds to it |
| `AppendRepeatsBounded` | `RepeatsBounded` with appended chunks, where `Threshold < ChunkSize` | `Appended`: no action of the queue skips one or goes back by more than the threshold, and what is left of the last chunk has no gap; `PlannedFromQueue`: the chunk being predicted begins that little before the end of the queue |
| `ReplaceRepeatsBounded` | `RepeatsBounded` with replaced chunks | `Clocked`: the delay is the periods of the clock or one more; `Planned`: in each of these one action was executed, but for those lost, those before the queue was read and the one in progress; `NearPlan`: the next action is not far back |
| `SkipsAreAccounted` | `SkipsAccounted` | the same |
| `DaggerProofs!TypeCorrect` | `TypeOK`, with it the exclusion of saves and pushes | `Owner`: the worker has the lock exactly while it pushes |
| `RequestsValid` | `PendingValid`: a request fits the phase in which it is consumed | itself: the phase changes only where the slot is emptied |
| `TakeoverSmooth` | `SmoothTakeover` | `TakeoverInv`: how far the arms are apart at each step of a handover, for every kind of leader and whatever it does meanwhile |
| `DaggerProofs!FramesKept` | `CorrectionsSeparate`, `FramesSaved` | `SaveInv`: where frames may be waiting, per position of the main thread |
| `EpisodesPushed` | `NothingForgotten` | `PushInv`: an upload under the lock has all that is saved until the flag is cleared |
| `DaggerProofs!StoreImplemented` | `StoreSpec`: what is sent | `PushInv`, and `ReleasedLast`: the hardware is released last |
| `EpisodicProofs!TypeCorrect` | `TypeOK`, with it `saved <= NumEpisodes` | `CountInv`: an attempt in progress, or left for `finally` to save, is one of those asked for |
| `AttemptsApart`, `EpisodicProofs!FramesKept` | `OneAttempt`, `FramesSaved` | `AttemptInv`: the buffer is empty between attempts |
| `DiscardsHonoured` | `DiscardHonoured` | `DiscardInv`: the flag stays set with the attempt it was set in |
| `SessionsComplete` | `SessionComplete` | `CompleteInv`: a smooth session leaves the loop with all its episodes |
| `EpisodicProofs!StoreImplemented` | `StoreSpec` | `HubInv`: what is on the Hub before and after the push |
| `HighlightProofs!TypeCorrect` | `TypeOK`, with it the exclusion of saves and pushes | `Places` |
| `RingSound` | `RingKeepsLast` | `Held`: the ring is the last `Size` frames, and the account, too high by what the deque dropped, never evicts more than that leaves |
| `EpisodesApart` | `EpisodesWhole` | `Recorded`, `Recording`: a stretch ends at the last frame the loop has dealt with |
| `HistoryInEpisode` | `HistoryKept` | `Asked`: between the press and the flush at most one frame goes |
| `HighlightProofs!FramesKept`, `HubSound`, `HighlightProofs!StoreImplemented` | `FramesSaved`, `HubFinalized`, `StoreSpec` | `Ending`: what is true from `finally` on |
| `DatasetWriterProofs!TypeCorrect`, `FramesDivided` | `TypeOK`, `Contiguous` | `Counts`: what is counted and what is in the buffer was added |
| `RowsSafe` | `RowsKept` | `Files`: the file that a writer is opened on is behind every episode's, or is its own; `Written`: the rows are in their file before the metadata |
| `EpisodesRead` | `EpisodesReadable` | `Reading`: until a save fails after its rows, the data files one after the other are the frames of the episodes (`Fresh`), an episode's rows are in its file (`InFiles`), and the videos follow each other (`VideoOrder`); `Images`: the images waiting to be encoded are those of the buffer |
| `LogImplemented` | `LogSpec` | `Reading` and `Images`, with which the log of what is read changes only where a save ends |
| `ActorLearnerProofs!TypeCorrect` | `TypeOK`, with it the bound on the pool | `Pool`: a call in the pool or a handler that stayed behind has its worker |
| `PipelineInOrder` | `InOrder` | `Gone`, `Finished`, `Sequential`, `Gapless`, `Earlier`: the parts of the pipeline, each against those after it |
| `SamplesSound` | `NextStateSound` | `Followed`: each stored transition is followed by the next or by one that was left out, the newest by the one about to be added |
| `PoolExhausted` | `WorkersSuffice`: a call waits only if handlers of actors that are gone hold more than `Workers - 3` workers | `Served`: each call of the actor waits for a worker or has one, and not both |

Each invariant was first checked by TLC. The proof that it is inductive has one case per
action. Where a type invariant is split, Boolean-valued variables (for the first-order
prover) are apart from arithmetic (for the SMT solver). Eight properties are proved without
being checked by a run any more: `TypeOK` of AsyncInference and of Highlight, `PendingValid`,
`NothingForgotten` and `FramesSaved` of Dagger, `FramesSaved` of Highlight, `Contiguous` of
DatasetWriter, and `WorkersSuffice` of ActorLearner, the
safety half of what `rl_workers` refutes.

The readers of a dataset see all data files one after the other, a fold over a sequence of
files (`Table`). What a fold computes can be proved only by induction, and the induction
theorems are out of the provers' reach; `DatasetReadingProofs` therefore takes the least
number of files for which the recursive function of `FlattenSeq` would not exist or not be
the concatenation, and refutes it. From there on `Before(d, i)`, the rows of the first `i`
files, is all that the invariant speaks of.

One invariant turned out to need more than the run shows. `RewindBounded` first said that no
rewind is of a chunk or more, which every instance with chunks of 2 confirms; the proof failed
where a chunk predicted before a rewind is merged after it, and TLC with chunks of 3 has the
counterexample.

**Only model-checked.** Liveness (`TaskEnds`, `ActionsFlow`, `WarmupProgresses`,
`FailureEndsSession`, `HubReadable`, `SaveEnds`, `WeightsArrive`, the three `SessionEnds`): the prover has no
rule for fairness and `ENABLED`. Every invariant, action property and refinement that a
passing run checks is a theorem.

---

## 5. What is not modelled

- In AsyncInference: several clients at once, whose resets undo each other; the server
  itself being started again (its policy is not loaded until a client asks, and the client
  that runs does not ask again); a `SendObservations` of a former client still running at
  `Ready`, whose observation could go to the new queue; and the aggregation function that
  blends two actions of one timestep. A failed call is one failure: the retries that
  `transport/utils.py:167` asks of gRPC, in which the server might run a handler twice, are
  not modelled.
- In RtcInference: the values of actions, the rebasing of a relative prefix, and
  `policy.reset()` racing a prediction inside the network (`rtc.py:222`). `stop()` gives up
  waiting for the thread after a time limit; the model's `StopEngine` never waits for it
  either.
- In Dagger, Episodic and Highlight: the files and the video encoding of the dataset (the
  dataset is a count or a sequence of episodes, and a buffer), the distances between the arms,
  and `batch_encoding_size > 1`, with which a save that fails may have been counted already.
  `IterationFails` stands for any exception of an iteration, and the saves and pushes have
  failures of their own. The writer is not composed with the strategies: its failures are
  their `SaveFails`.
- In DatasetWriter: batch encoding of videos (`batch_encoding_size > 1`), several cameras (a
  later camera's failure is one of the outcomes of `VideoFails`), the buffer of the metadata,
  whose last episodes are lost with the process although `info.json` counts them, and a crash
  of the process itself, which leaves the open data file without its footer. The image
  writer's workers are not told apart from the frames they write: an exception of one is only
  logged, and `wait_until_done` and the joins of `stop` have no time limit. In the streaming
  encoder the join gives up after 120 s, which counts as a failing save, and an error in
  `finish_episode` leaves the encoder marked as active until the next start or cancel, which
  stops it.
- In ActorLearner: the chunks of a message, the statistics that interaction messages carry,
  the offline buffer, checkpoints and their resumption (the directory of a dataset is removed
  before it is written again, `learner.py:461`), the end of the learner, retries of gRPC, the
  mode with processes instead of threads, and the thread that prefetches batches.
- Sentry: its loop, rotation, push flag and teardown are those of the continuous mode that
  Dagger models, without phases and keys; it has no module of its own.
- Cameras and the image writer: one reader thread per camera, and workers on an unbounded
  queue; their interest is in the drivers and the file system.
- Everything else is numeric or runs step after step in one thread (section 1.1). That is
  most of the repository: the models cover the parts in which the order of steps is not
  given by the text of one function, and a model of the rest would only repeat its code.

---

## 6. Plan

Done, in this order: the two engines that feed the robot (AsyncInference, RtcInference), two
strategies and the promise they share (Dagger, Episodic, EpisodeStore), the dataset writer
with its streaming encoder (DatasetWriter, EpisodeLog), the highlight strategy with its ring
buffer (Highlight), actor and learner (ActorLearner), and a client of the async server that
is started again.

Next, the most important first:

1. **Sentry**, as an instance of EpisodeStore with the push worker of Dagger.
2. **Image writer** and **cameras**: `wait_until_done` and `stop` against workers that die;
   `async_read` against the reader thread.
3. DatasetWriter with several cameras and batch encoding, and a crash between two episodes,
   with the buffers of the metadata and of the open data file.
4. AsyncInference with two clients, and the transport's chunks over a stream that ends
   early; ActorLearner with checkpoints.
5. The action interpolator as a function with a reference definition.

Theorems to come: the promises of these modules as they are written, and, for the modules
above, a decreasing measure for what liveness rests on (that a merge brings the queue forward,
that each discarded attempt of an episode costs a key), as far as it can be said without
fairness.
