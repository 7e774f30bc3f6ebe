--------------------------- MODULE AsyncInference ---------------------------
(***************************************************************************)
(* Asynchronous inference: a RobotClient (robot_client.py) and one         *)
(* PolicyServer (policy_server.py).                                        *)
(*                                                                         *)
(* Four threads run concurrently.  On the robot, the control loop pops and *)
(* executes actions and sends observations, while the receiver long-polls  *)
(* GetActions and merges chunks into the action queue.  On the server, one *)
(* worker runs the SendObservations handler (the client sends one          *)
(* observation at a time) and another runs GetActions.  A client that died *)
(* or ended may be started again: it connects anew, while GetActions may    *)
(* still run in the server for the former client.                          *)
(*                                                                         *)
(* An action is its timestep: the joint values and the aggregation         *)
(* function blending them are data no property tells apart.  An            *)
(* observation is [step, scene, mustGo]; two observations are similar      *)
(* (helpers.py) when they show the same scene.  A queue operation under a  *)
(* lock is one step; what the code does outside a lock is split at every   *)
(* read of shared state.                                                   *)
(***************************************************************************)
EXTENDS Integers, Sequences

CONSTANTS
    ChunkSize,      \* actions_per_chunk: actions in one predicted chunk
    ThresholdNum,   \* chunk_size_threshold is ThresholdNum / ThresholdDen
    ThresholdDen,
    Scenes,         \* what the robot's joints can look like, up to similarity
    MaxStep,        \* bound: the operator stops the client after this timestep
    MaxFaults,      \* bound: failed calls and inferences, and restarts of the client
    RestartStep,    \* bound: the last timestep at which a client is started again
    NoObs           \* None in place of an observation

ASSUME ConfigAssumption ==          \* RobotClientConfig.__post_init__
    /\ ChunkSize \in Nat \ {0}
    /\ ThresholdNum \in Nat
    /\ ThresholdDen \in Nat \ {0}
    /\ ThresholdNum <= ThresholdDen

ASSUME BoundAssumption ==
    /\ MaxStep \in Nat
    /\ MaxFaults \in Nat
    /\ RestartStep \in Nat
    /\ Scenes # {}

(* TimedObservation: what the program reads of one. *)
Observation == [step : Nat, scene : Scenes, mustGo : BOOLEAN]

(* The clients of a behaviour, in the order they connect. *)
Clients == 1..(MaxFaults + 1)

ASSUME NoObsAssumption == NoObs \notin Observation \union Scenes

VARIABLES
    client,         \* the client that runs: the last one that connected
    control,        \* where the control-loop thread is
    queue,          \* RobotClient.action_queue: timesteps, head first
    latest,         \* RobotClient.latest_action
    popped,         \* the action control_loop_action holds
    obs,            \* the observation control_loop_observation holds
    mustGo,         \* RobotClient.must_go
    receiver,       \* where the action-receiver thread is
    chunkSize,      \* RobotClient.action_chunk_size
    chunk,          \* the chunk being merged, by its timesteps, still to read
    future,         \* future_action_queue of _aggregate_action_queues
    mutated,        \* the deque under iteration lost an item
    sender,         \* where the server's SendObservations handler is
    pending,        \* PolicyServer.observation_queue (maxsize 1)
    predictor,      \* where the GetActions handler of each client is
    taken,          \* the observation it dequeued
    predicted,      \* PolicyServer._predicted_timesteps
    lastProcessed,  \* PolicyServer.last_processed_obs, by its scene
    faults,         \* failed calls and inferences so far
    answered,       \* history: must_go was set while obs is handed over
    tokenRaced,     \* history: a clear() of must_go undid such a set()
    disturbed,      \* history: an action was executed during the current merge
    overlapped,     \* history: ... during the merge that made the queue
    rewinds         \* history: how often latest_action went back

receiverVars == <<receiver, chunkSize, chunk, future>>
predictorVars == <<predictor, taken, predicted, lastProcessed>>
serverVars == <<sender, pending, predictorVars>>
mergeHistory == <<disturbed, overlapped, rewinds>>
tokenHistory == <<answered, tokenRaced>>
historyVars == <<mergeHistory, tokenHistory>>
clientVars == <<control, queue, latest, popped, obs, mustGo, mutated>>
vars == <<client, clientVars, receiverVars, serverVars, faults, historyVars>>
-----------------------------------------------------------------------------

(* The server cannot tell o from the last one (observations_similar). *)
SimilarToLast(o) == o.scene = lastProcessed

(* Mutant: the policy's chunk is not cut to actions_per_chunk. *)
UncutChunkFor(o) == [i \in 1..(ChunkSize + 1) |-> o.step + i - 1]

(* The timesteps _time_action_chunk gives to the chunk predicted for o. *)
ChunkFor(o) == [i \in 1..ChunkSize |-> o.step + i - 1]

(* Mutant: the comparison turned round, a client without actions is silent. *)
SendWhileFull ==
    chunkSize = -1 \/ Len(queue) * ThresholdDen > chunkSize * ThresholdNum

(* The division of _ready_to_send_observation; before the first chunk the  *)
(* queue is empty and action_chunk_size is -1, so the ratio is not positive. *)
ReadyToSend ==
    chunkSize = -1 \/ Len(queue) * ThresholdDen <= chunkSize * ThresholdNum

Init ==
    /\ client = 1
    /\ control = "check" /\ queue = <<>> /\ latest = -1
    /\ popped = -1 /\ obs = NoObs /\ mustGo = TRUE
    /\ receiver = "call" /\ chunkSize = -1 /\ chunk = <<>>
    /\ future = <<>> /\ mutated = FALSE
    /\ sender = "idle" /\ pending = <<>>
    /\ predictor = [c \in Clients |-> "wait"] /\ taken = [c \in Clients |-> NoObs]
    /\ predicted = {} /\ lastProcessed = NoObs
    /\ faults = 0 /\ answered = FALSE /\ tokenRaced = FALSE
    /\ disturbed = FALSE /\ overlapped = FALSE /\ rewinds = 0

(* The bound on what goes wrong: failures and restarts together. *)
CanFail == faults + client <= MaxFaults
-----------------------------------------------------------------------------
(* The control loop of the robot client.                                   *)

(* actions_available decides whether this iteration executes an action. *)
CheckActions ==
    /\ control = "check" /\ latest < MaxStep
    /\ control' = IF queue = <<>> THEN "ready" ELSE "pop"
    /\ UNCHANGED <<queue, latest, popped, obs, mustGo, mutated>>
    /\ UNCHANGED <<client, receiverVars, serverVars, faults, historyVars>>

(* The operator's stop(): the loop condition `running` becomes false. *)
StopClient ==
    /\ control = "check" /\ latest >= MaxStep
    /\ control' = "stopped"
    /\ UNCHANGED <<queue, latest, popped, obs, mustGo, mutated>>
    /\ UNCHANGED <<client, receiverVars, serverVars, faults, historyVars>>

(* get_nowait under the queue lock, on whatever queue is installed by then: *)
(* an empty one raises queue.Empty out of control_loop.                     *)
PopAction ==
    /\ control = "pop"
    /\ \/ /\ queue = <<>>
          /\ control' = "crashed"
          /\ UNCHANGED <<popped, queue, mutated>>
       \/ /\ queue # <<>>
          /\ control' = "perform"
          /\ popped' = Head(queue)
          /\ queue' = Tail(queue)
          /\ mutated' = (mutated \/ receiver = "iterate")
    /\ UNCHANGED <<latest, obs, mustGo>>
    /\ UNCHANGED <<client, receiverVars, serverVars, faults, historyVars>>

(* send_action, then latest_action takes the timestep just executed. *)
PerformAction ==
    /\ control = "perform"
    /\ latest' = popped /\ popped' = -1
    /\ control' = "ready"
    /\ disturbed' = (disturbed \/ receiver = "select")
    /\ rewinds' = IF popped < latest THEN rewinds + 1 ELSE rewinds
    /\ UNCHANGED <<queue, obs, mustGo, mutated>>
    /\ UNCHANGED <<client, receiverVars, serverVars, faults, overlapped, tokenHistory>>

(* _ready_to_send_observation, read under the queue lock. *)
CheckReady ==
    /\ control = "ready"
    /\ control' = IF ReadyToSend THEN "mark" ELSE "check"
    /\ UNCHANGED <<queue, latest, popped, obs, mustGo, mutated>>
    /\ UNCHANGED <<client, receiverVars, serverVars, faults, historyVars>>

(* get_observation, then the must-go mark under the queue lock.  Only this  *)
(* thread writes latest_action, so its read can be in the same step.       *)
MarkObservation ==
    /\ control = "mark"
    /\ \E scene \in Scenes :
         obs' = [step |-> IF latest > 0 THEN latest ELSE 0, scene |-> scene,
                 mustGo |-> mustGo /\ queue = <<>>]
    /\ control' = "send"
    /\ answered' = FALSE
    /\ UNCHANGED <<queue, latest, popped, mustGo, mutated>>
    /\ UNCHANGED <<client, receiverVars, serverVars, faults, tokenRaced, mergeHistory>>

(* get_observation raises; control_loop_observation logs it and returns. *)
CaptureFails ==
    /\ control = "mark" /\ CanFail
    /\ faults' = faults + 1
    /\ control' = "check"
    /\ UNCHANGED <<queue, latest, popped, obs, mustGo, mutated>>
    /\ UNCHANGED <<client, receiverVars, serverVars, historyVars>>

(* The SendObservations call reaches a worker of the server. *)
SendObservation ==
    /\ control = "send"
    /\ control' = "sending" /\ sender' = "filter"
    /\ UNCHANGED <<queue, latest, popped, obs, mustGo, mutated>>
    /\ UNCHANGED <<client, receiverVars, pending, predictorVars, faults, historyVars>>

(* The call fails before the server sees it; send_observation returns       *)
(* False, which control_loop_observation ignores.                           *)
SendFails ==
    /\ control = "send" /\ CanFail
    /\ faults' = faults + 1
    /\ control' = "sent"
    /\ UNCHANGED <<queue, latest, popped, obs, mustGo, mutated>>
    /\ UNCHANGED <<client, receiverVars, serverVars, historyVars>>

(* A must-go observation takes the token away, delivered or not. *)
ClearMustGo ==
    /\ control = "sent"
    /\ mustGo' = (mustGo /\ ~obs.mustGo)
    /\ tokenRaced' = (tokenRaced \/ (obs.mustGo /\ answered))
    /\ obs' = NoObs /\ answered' = FALSE
    /\ control' = "check"
    /\ UNCHANGED <<queue, latest, popped, mutated>>
    /\ UNCHANGED <<client, receiverVars, serverVars, faults, mergeHistory>>

ControlLoop ==
    \/ CheckActions \/ StopClient \/ PopAction \/ PerformAction
    \/ CheckReady \/ MarkObservation \/ SendObservation \/ ClearMustGo
-----------------------------------------------------------------------------
(* The SendObservations handler of the policy server.                      *)

(* Mutant: the must-go mark no longer bypasses the filter. *)
AcceptedUnlessFiltered(o) ==
    lastProcessed # NoObs => o.step \notin predicted /\ ~SimilarToLast(o)

(* The condition of _enqueue_observation, with _obs_sanity_checks. *)
Accepted(o) ==
    \/ o.mustGo
    \/ lastProcessed # NoObs => o.step \notin predicted /\ ~SimilarToLast(o)

(* A filtered observation ends the call; an accepted one goes on to full(). *)
FilterObservation ==
    /\ sender = "filter"
    /\ \/ /\ Accepted(obs)
          /\ sender' = IF pending # <<>> THEN "evict" ELSE "put"
          /\ UNCHANGED control
       \/ /\ ~Accepted(obs)
          /\ sender' = "idle" /\ control' = "sent"
    /\ UNCHANGED <<queue, latest, popped, obs, mustGo, mutated>>
    /\ UNCHANGED <<client, receiverVars, pending, predictorVars, faults, historyVars>>

(* get_nowait makes room.  GetActions may have emptied the queue since      *)
(* full(): queue.Empty then fails the call and the observation is lost.     *)
EvictObservation ==
    /\ sender = "evict"
    /\ \/ /\ pending # <<>>
          /\ pending' = <<>> /\ sender' = "put"
          /\ UNCHANGED control
       \/ /\ pending = <<>>
          /\ sender' = "idle" /\ control' = "sent"
          /\ UNCHANGED pending
    /\ UNCHANGED <<queue, latest, popped, obs, mustGo, mutated>>
    /\ UNCHANGED <<client, receiverVars, predictorVars, faults, historyVars>>

(* The observation goes in the queue and the call returns to the client.    *)
(* Nothing reads the mark of an observation in the queue.                   *)
PutObservation ==
    /\ sender = "put"
    /\ pending' = Append(pending, [obs EXCEPT !.mustGo = FALSE])
    /\ sender' = "idle" /\ control' = "sent"
    /\ UNCHANGED <<queue, latest, popped, obs, mustGo, mutated>>
    /\ UNCHANGED <<client, receiverVars, predictorVars, faults, historyVars>>

Sender == FilterObservation \/ EvictObservation \/ PutObservation
-----------------------------------------------------------------------------
(* The GetActions handler of the policy server, called by the receiver of   *)
(* client c.  When no observation arrives in obs_queue_timeout it returns   *)
(* Empty and the receiver calls again: nothing changes, so that is no step. *)
(* A handler that waits when its client is replaced does so on the queue    *)
(* that _reset_server threw away.                                           *)

TakeObservation ==
    /\ receiver = "call" /\ predictor[client] = "wait" /\ pending # <<>>
    /\ taken' = [taken EXCEPT ![client] = Head(pending)]
    /\ pending' = <<>>
    /\ predictor' = [predictor EXCEPT ![client] = "record"]
    /\ UNCHANGED <<sender, predicted, lastProcessed>>
    /\ UNCHANGED <<client, clientVars, receiverVars, faults, historyVars>>

(* The timestep counts as predicted before any prediction is made. *)
RecordTimestep(c) ==
    /\ predictor[c] = "record"
    /\ predicted' = predicted \union {taken[c].step}
    /\ predictor' = [predictor EXCEPT ![c] = "preprocess"]
    /\ UNCHANGED <<sender, pending, taken, lastProcessed>>
    /\ UNCHANGED <<client, clientVars, receiverVars, faults, historyVars>>

(* The handler ends. *)
EndPrediction(c) ==
    /\ predictor' = [predictor EXCEPT ![c] = "wait"]
    /\ taken' = [taken EXCEPT ![c] = NoObs]

(* _predict_action_chunk up to last_processed_obs, which is all that a       *)
(* handler of a former client still writes: nobody receives its reply.       *)
Preprocess(c) ==
    /\ predictor[c] = "preprocess"
    /\ lastProcessed' = taken[c].scene
    /\ \/ /\ c = client
          /\ predictor' = [predictor EXCEPT ![c] = "infer"]
          /\ UNCHANGED taken
       \/ c < client /\ EndPrediction(c)
    /\ UNCHANGED <<sender, pending, predicted>>
    /\ UNCHANGED <<client, clientVars, receiverVars, faults, historyVars>>

(* Or it raises before, and nobody receives its error. *)
FailInVain(c) ==
    /\ c < client /\ predictor[c] = "preprocess"
    /\ EndPrediction(c)
    /\ UNCHANGED <<sender, pending, predicted, lastProcessed>>
    /\ UNCHANGED <<client, clientVars, receiverVars, faults, historyVars>>

(* The rest of _predict_action_chunk; the reply reaches the receiver, which *)
(* raises action_chunk_size and starts to merge.                            *)
DeliverChunk ==
    /\ predictor[client] = "infer"
    /\ EndPrediction(client)
    /\ receiver' = "snapshot"
    /\ chunk' = ChunkFor(taken[client])
    /\ chunkSize' = ChunkSize
    /\ UNCHANGED <<future, sender, pending, predicted, lastProcessed>>
    /\ UNCHANGED <<client, clientVars, faults, historyVars>>

(* The handler raises and answers Empty, or the reply is lost and the       *)
(* receiver logs an RpcError: either way it calls again.                    *)
PredictionFails ==
    /\ predictor[client] \in {"preprocess", "infer"} /\ CanFail
    /\ faults' = faults + 1
    /\ EndPrediction(client)
    /\ UNCHANGED <<sender, pending, predicted, lastProcessed>>
    /\ UNCHANGED <<client, clientVars, receiverVars, historyVars>>

Predictor(c) == RecordTimestep(c) \/ Preprocess(c) \/ FailInVain(c)
-----------------------------------------------------------------------------
(* The receiver merges a chunk: _aggregate_action_queues.                  *)

(* The lock protects taking a reference to the deque, not iterating it. *)
BeginIteration ==
    /\ receiver = "snapshot"
    /\ receiver' = "iterate"
    /\ mutated' = FALSE
    /\ UNCHANGED <<control, queue, latest, popped, obs, mustGo>>
    /\ UNCHANGED <<client, chunkSize, chunk, future, serverVars, faults, historyVars>>

(* Iterating a deque that lost an item raises RuntimeError, which           *)
(* receive_actions does not catch: its thread dies.                         *)
EndIteration ==
    /\ receiver = "iterate"
    /\ receiver' = IF mutated THEN "dead" ELSE "select"
    /\ mutated' = FALSE
    /\ UNCHANGED <<control, queue, latest, popped, obs, mustGo>>
    /\ UNCHANGED <<client, chunkSize, chunk, future, serverVars, faults, historyVars>>

(* Mutant: actions older than latest_action are kept. *)
SelectEveryAction ==
    /\ receiver = "select" /\ chunk # <<>>
    /\ chunk' = Tail(chunk)
    /\ future' = Append(future, Head(chunk))
    /\ UNCHANGED <<receiver, chunkSize>>
    /\ UNCHANGED <<client, clientVars, serverVars, faults, historyVars>>

(* One action of the chunk against latest_action, read under its own lock;  *)
(* aggregated with a queued one or not, a newer action is kept.             *)
SelectAction ==
    /\ receiver = "select" /\ chunk # <<>>
    /\ chunk' = Tail(chunk)
    /\ future' = IF Head(chunk) <= latest THEN future
                                          ELSE Append(future, Head(chunk))
    /\ UNCHANGED <<receiver, chunkSize>>
    /\ UNCHANGED <<client, clientVars, serverVars, faults, historyVars>>

(* Mutant: the new actions go behind the old queue. *)
ExtendQueue ==
    /\ receiver = "select" /\ chunk = <<>>
    /\ queue' = queue \o future /\ future' = <<>>
    /\ receiver' = "grant"
    /\ overlapped' = (disturbed \/ control = "perform") /\ disturbed' = FALSE
    /\ UNCHANGED <<control, latest, popped, obs, mustGo, mutated>>
    /\ UNCHANGED <<client, chunkSize, chunk, serverVars, faults, tokenHistory, rewinds>>

(* The new queue replaces the old one, whatever was popped meanwhile. *)
InstallQueue ==
    /\ receiver = "select" /\ chunk = <<>>
    /\ queue' = future /\ future' = <<>>
    /\ receiver' = "grant"
    /\ overlapped' = (disturbed \/ control = "perform") /\ disturbed' = FALSE
    /\ UNCHANGED <<control, latest, popped, obs, mustGo, mutated>>
    /\ UNCHANGED <<client, chunkSize, chunk, serverVars, faults, tokenHistory, rewinds>>

(* After a chunk, the next observation from an empty queue must go. *)
GrantMustGo ==
    /\ receiver = "grant"
    /\ mustGo' = TRUE /\ answered' = (obs # NoObs)
    /\ receiver' = "call"
    /\ UNCHANGED <<control, queue, latest, popped, obs, mutated>>
    /\ UNCHANGED <<client, chunkSize, chunk, future, serverVars, faults, tokenRaced, mergeHistory>>

Receiver ==
    \/ BeginIteration \/ EndIteration \/ SelectAction
    \/ InstallQueue \/ GrantMustGo
-----------------------------------------------------------------------------
(* The client died, or has ended, and is started again.  Ready throws away  *)
(* the queue and the timesteps of the former client (_reset_server), not    *)
(* last_processed_obs; what a GetActions of that client writes afterwards   *)
(* stays.  Its SendObservations has ended long before a new process starts. *)
Restart ==
    /\ CanFail /\ sender = "idle" /\ latest <= RestartStep
    /\ client' = client + 1
    /\ control' = "check" /\ queue' = <<>> /\ latest' = -1
    /\ popped' = -1 /\ obs' = NoObs /\ mustGo' = TRUE /\ mutated' = FALSE
    /\ receiver' = "call" /\ chunkSize' = -1 /\ chunk' = <<>> /\ future' = <<>>
    /\ pending' = <<>> /\ predicted' = {}
    /\ IF predictor[client] = "infer" THEN EndPrediction(client)
                                      ELSE UNCHANGED <<predictor, taken>>
    /\ answered' = FALSE /\ tokenRaced' = FALSE
    /\ disturbed' = FALSE /\ overlapped' = FALSE /\ rewinds' = 0
    /\ UNCHANGED <<sender, lastProcessed, faults>>

(* The control loop has ended: the receiver finishes its call and stops. *)
Terminated == control \in {"stopped", "crashed"} /\ UNCHANGED vars

Faults == CaptureFails \/ SendFails \/ PredictionFails

Next ==
    \/ ControlLoop \/ Sender \/ Receiver \/ Faults \/ Restart \/ Terminated
    \/ TakeObservation \/ DeliverChunk \/ \E c \in Clients : Predictor(c)

Spec == Init /\ [][Next]_vars

(* Every thread keeps running: no lock is held across a blocking call.  A    *)
(* put() wakes the get() GetActions blocks in a whole control period before *)
(* the next observation can evict what was put, hence strong fairness.  The *)
(* handler of a former client owes nothing.                                 *)
FairSpec ==
    /\ Spec
    /\ WF_vars(ControlLoop) /\ WF_vars(Sender) /\ WF_vars(Receiver)
    /\ SF_vars(TakeObservation \/ DeliverChunk \/ Predictor(client))
-----------------------------------------------------------------------------
(* Every variable keeps the type the code gives it. *)
TypeOK ==
    /\ client \in Clients /\ faults + client <= MaxFaults + 1
    /\ control \in {"check", "pop", "perform", "ready", "mark", "send",
                    "sending", "sent", "stopped", "crashed"}
    /\ queue \in Seq(Nat) /\ chunk \in Seq(Nat) /\ future \in Seq(Nat)
    /\ latest \in Int /\ popped \in Int
    /\ obs \in Observation \union {NoObs}
    /\ mustGo \in BOOLEAN /\ mutated \in BOOLEAN
    /\ receiver \in {"call", "snapshot", "iterate", "select", "grant", "dead"}
    /\ chunkSize \in {-1, ChunkSize}
    /\ sender \in {"idle", "filter", "evict", "put"}
    /\ pending \in Seq(Observation) /\ Len(pending) <= 1
    /\ predictor \in [Clients -> {"wait", "record", "preprocess", "infer"}]
    /\ taken \in [Clients -> Observation \union {NoObs}]
    /\ predicted \subseteq Nat
    /\ lastProcessed \in Scenes \union {NoObs}
    /\ faults \in 0..MaxFaults
    /\ answered \in BOOLEAN /\ tokenRaced \in BOOLEAN
    /\ disturbed \in BOOLEAN /\ overlapped \in BOOLEAN /\ rewinds \in Nat

Increasing(s) == \A i \in 1..Len(s) : \A j \in 1..(i-1) : s[j] < s[i]

(* The arm is never commanded two actions of one queue out of order: what   *)
(* the control loop will pop is strictly increasing, although merges drop    *)
(* items one by one against a latest_action that moves underneath them.     *)
QueueIncreasing == Increasing(queue) /\ Increasing(future)

(* Something is on its way that will set must_go again. *)
AnswerPending ==
    \/ pending # <<>> \/ sender = "put"
    \/ predictor[client] # "wait" \/ receiver # "call"

(* "must-go event will be set again after receiving actions"                *)
(* (robot_client.py:436): as long as no call failed, no set() raced a       *)
(* clear() and the receiver lives, a client without the token is owed one.   *)
MustGoPending ==
    faults = 0 /\ ~tokenRaced /\ receiver # "dead" => mustGo \/ AnswerPending

(* An action at or before latest_action is in the queue only when another   *)
(* one was executed while that queue was merged; with no such overlap the    *)
(* skip of robot_client.py:245 keeps every action from being executed twice. *)
FreshUnlessOverlapped == ~overlapped => \A i \in 1..Len(queue) : latest < queue[i]

(* Actions popped while a chunk is merged come back with the new queue, so  *)
(* the arm repeats part of its motion: the first time less than a chunk.     *)
(* An observation made before a rewind is predicted after it, and the next   *)
(* rewind starts from that chunk: each may reach ChunkSize - 2 timesteps     *)
(* further back than the one before.                                        *)
RewindBounded ==
    [][client' = client => latest - latest' <= rewinds' * (ChunkSize - 2) + 1]_latest

(* What the design takes for granted of one run of the client. *)
Undisturbed == faults = 0 /\ ~tokenRaced /\ receiver # "dead" /\ control # "crashed"

(* A robot left without actions always gets new ones and the client reaches *)
(* the end of its task, if nothing failed: neither the similarity filter nor  *)
(* the rewinds of latest_action can hold it back for ever, nor what a         *)
(* GetActions of a former client does to the server after it was reset.      *)
TaskEnds == []<>(control = "stopped" \/ ~Undisturbed)

(* robot_client.py:126 "Protect queue operations": with the queue lock the   *)
(* receiver survives whatever the control loop does to the queue.            *)
ReceiverLives == receiver # "dead"

(* robot_client.py:436 "must-go event will be set again after receiving      *)
(* actions": one failed call or inference does not leave the robot without   *)
(* actions for ever.                                                         *)
FailureRecovered ==
    queue = <<>> ~> \/ queue # <<>> \/ control \in {"stopped", "crashed"}
                    \/ tokenRaced \/ receiver = "dead"
=============================================================================
