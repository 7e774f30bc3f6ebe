---------------------------- MODULE ActorLearner ----------------------------
(***************************************************************************)
(* The actor and the learner of reinforcement learning on a robot:          *)
(* rl/actor.py, rl/learner.py, rl/learner_service.py and rl/buffer.py.       *)
(* The actor runs the policy and streams the transitions of every finished  *)
(* episode; the learner stores them, trains and streams its weights back.   *)
(* An actor can be stopped or killed and another one started; the learner   *)
(* runs on.                                                                 *)
(*                                                                         *)
(* A state of the robot is a number: the transition from state n has n as   *)
(* its state and n + 1 as its next state.  Weights are the optimization     *)
(* step they were made at.  A message is in flight or has arrived; its       *)
(* chunks are not told apart, for an incomplete one is dropped with its      *)
(* stream.  The model is of the default concurrency, "threads".              *)
(***************************************************************************)
EXTENDS Integers, Sequences, FiniteSets

CONSTANTS
    Workers,        \* MAX_WORKERS of the gRPC server
    OnlineSteps,    \* the steps an actor makes
    MinReplay,      \* online_step_before_learning
    Capacity,       \* online_buffer_capacity
    MaxVersion,     \* bound: optimization steps that are told apart
    MaxSkips,       \* bound: transitions with a NaN in them
    MaxLives        \* bound: how often an actor is started

ASSUME ConfigAssumption ==
    /\ Workers \in Nat \ {0} /\ OnlineSteps \in Nat
    /\ MinReplay \in Nat \ {0} /\ Capacity \in Nat \ {0}
    /\ MaxVersion \in Nat /\ MaxSkips \in Nat /\ MaxLives \in Nat

VARIABLES
    actor,      \* where act_with_policy is
    steps,      \* interaction steps of this actor
    first,      \* the state the episode in progress began in
    now,        \* the state the robot is in
    stopping,   \* the shutdown event of the actor
    policy,     \* the weights the actor acts with
    outbox,     \* its transitions_queue: episodes
    inbox,      \* the newest weights of its parameters_queue
    live,       \* which of its three streams run
    lives,      \* actors started so far
    queued,     \* the calls that wait for a worker of the server
    running,    \* the calls of the actor that have a worker
    zombies,    \* StreamParameters handlers of actors that are gone
    wire,       \* the episode in flight
    sending,    \* the weights in flight
    received,   \* the transition_queue of the learner
    replay,     \* the transitions of the replay buffer, oldest first
    version,    \* optimization_step
    params,     \* the newest weights of its parameters_queue
    skipped     \* history: the states whose transitions had a NaN

actorVars == <<actor, steps, first, now, stopping, policy>>
boxVars == <<outbox, inbox>>
callVars == <<live, queued, running, zombies>>
netVars == <<wire, sending>>
learnerVars == <<received, replay, version, params, skipped>>
vars == <<actorVars, boxVars, callVars, netVars, learnerVars, lives>>
-----------------------------------------------------------------------------
None == -1
NoEpisode == [first |-> None, last |-> None]

(* The calls of one actor: StreamParameters, SendTransitions, SendInteractions. *)
Calls == {"parameters", "transitions", "interactions"}

(* The orders in which the three calls can reach the server. *)
Arrivals == {s \in [1..3 -> Calls] : \A i, j \in 1..3 : s[i] = s[j] => i = j}

Init ==
    /\ actor = "off" /\ steps = 0 /\ first = 0 /\ now = 0 /\ stopping = FALSE
    /\ policy = 0 /\ outbox = <<>> /\ inbox = None
    /\ live = {} /\ lives = 0 /\ queued = <<>> /\ running = {} /\ zombies = 0
    /\ wire = NoEpisode /\ sending = None
    /\ received = <<>> /\ replay = <<>> /\ version = 0 /\ params = 0
    /\ skipped = {}
-----------------------------------------------------------------------------
(* The server: a pool of workers serves the calls in the order they arrive. *)

FreeWorker == Cardinality(running) + zombies < Workers

Dispatch ==
    /\ queued # <<>> /\ FreeWorker
    /\ running' = running \union {Head(queued)}
    /\ queued' = Tail(queued)
    /\ UNCHANGED <<actorVars, boxVars, live, zombies, netVars, learnerVars, lives>>

(* get_last_item_from_queue, then the weights are on their way. *)
TakeWeights ==
    /\ "parameters" \in running /\ sending = None /\ params # None
    /\ sending' = params /\ params' = None
    /\ UNCHANGED <<actorVars, boxVars, callVars, wire, received, replay, version>>
    /\ UNCHANGED <<skipped, lives>>

(* Mutant: a handler whose actor is gone goes on sending into the void. *)
ZombieStays ==
    /\ zombies > 0 /\ params # None
    /\ params' = None
    /\ UNCHANGED <<actorVars, boxVars, callVars, netVars, received, replay>>
    /\ UNCHANGED <<version, skipped, lives>>

(* A handler whose actor is gone learns of it when it sends: it takes the    *)
(* weights out of the queue, they are lost, and only then its worker is free. *)
ZombieTakes ==
    /\ zombies > 0 /\ params # None
    /\ params' = None
    /\ zombies' = zombies - 1
    /\ UNCHANGED <<actorVars, boxVars, live, queued, running, netVars, received>>
    /\ UNCHANGED <<replay, version, skipped, lives>>

(* SendTransitions: an episode has arrived whole. *)
ReceiveEpisode ==
    /\ "transitions" \in running /\ wire # NoEpisode
    /\ received' = Append(received, wire)
    /\ wire' = NoEpisode
    /\ UNCHANGED <<actorVars, boxVars, callVars, sending, replay, version, params>>
    /\ UNCHANGED <<skipped, lives>>

Server == Dispatch \/ TakeWeights \/ ZombieTakes \/ ReceiveEpisode
-----------------------------------------------------------------------------
(* The actor. *)

(* An actor starts: Ready is answered, so there is a free worker, and its    *)
(* three threads call the server in no particular order.  The robot is reset. *)
StartActor ==
    /\ actor = "off" /\ lives < MaxLives /\ FreeWorker
    /\ actor' = "acting" /\ steps' = 0 /\ first' = now + 1 /\ now' = now + 1
    /\ stopping' = FALSE /\ policy' = 0
    /\ live' = Calls /\ queued' \in Arrivals
    /\ lives' = lives + 1
    /\ UNCHANGED <<boxVars, running, zombies, netVars, learnerVars>>

(* update_policy_parameters: the newest weights that have arrived. *)
UpdatePolicy ==
    /\ policy' = IF inbox = None THEN policy ELSE inbox
    /\ inbox' = None

(* A step of the robot within an episode. *)
Step ==
    /\ actor = "acting" /\ ~stopping /\ steps < OnlineSteps
    /\ steps' = steps + 1
    /\ now' = now + 1
    /\ UNCHANGED <<actor, first, stopping, policy, boxVars, callVars, netVars>>
    /\ UNCHANGED <<learnerVars, lives>>

(* Mutant: the list of transitions is not emptied when it has been queued. *)
EndEpisodeKeeping ==
    /\ actor = "acting" /\ ~stopping /\ steps < OnlineSteps
    /\ steps' = steps + 1
    /\ UpdatePolicy
    /\ outbox' = Append(outbox, [first |-> first, last |-> now])
    /\ first' = first /\ now' = now + 2
    /\ UNCHANGED <<actor, stopping, callVars, netVars, learnerVars, lives>>

(* The last step of an episode: the policy is updated, the episode is queued  *)
(* and the robot reset.  Its last state is not the first of the next one.    *)
EndEpisode ==
    /\ actor = "acting" /\ ~stopping /\ steps < OnlineSteps
    /\ steps' = steps + 1
    /\ UpdatePolicy
    /\ outbox' = Append(outbox, [first |-> first, last |-> now])
    /\ first' = now + 2 /\ now' = now + 2
    /\ UNCHANGED <<actor, stopping, callVars, netVars, learnerVars, lives>>

(* SIGINT or SIGTERM, or an exception in act_with_policy. *)
RequestStop ==
    /\ actor # "off" /\ ~stopping
    /\ stopping' = TRUE
    /\ UNCHANGED <<actor, steps, first, now, policy, boxVars, callVars, netVars>>
    /\ UNCHANGED <<learnerVars, lives>>

(* The loop ends and the queues are closed.  The transitions of an episode    *)
(* that is not over are never sent.                                          *)
LeaveLoop ==
    /\ actor = "acting"
    /\ stopping \/ steps = OnlineSteps
    /\ actor' = "closing"
    /\ UNCHANGED <<steps, first, now, stopping, policy, boxVars, callVars, netVars>>
    /\ UNCHANGED <<learnerVars, lives>>

Streaming == actor = "acting" /\ ~stopping

(* transitions_stream: get with a timeout, again and again. *)
StreamEpisode ==
    /\ "transitions" \in live /\ Streaming
    /\ outbox # <<>> /\ wire = NoEpisode
    /\ wire' = Head(outbox) /\ outbox' = Tail(outbox)
    /\ UNCHANGED <<actorVars, inbox, callVars, sending, learnerVars, lives>>

(* The generator of a request returns, since the shutdown event is set; its  *)
(* call ends when the handler has read what was sent.  The rest of the queue *)
(* is lost.                                                                 *)
EndStream(call) ==
    /\ call \in (live \intersect running) \ {"parameters"} /\ stopping
    /\ call = "transitions" => wire = NoEpisode
    /\ live' = live \ {call} /\ running' = running \ {call}
    /\ UNCHANGED <<actorVars, boxVars, queued, zombies, netVars, learnerVars, lives>>

(* The queue of the server without a call that is cancelled. *)
Without(call) ==
    IF \E i \in 1..Len(queued) : queued[i] = call
    THEN LET i == CHOOSE i \in 1..Len(queued) : queued[i] = call
         IN  SubSeq(queued, 1, i - 1) \o SubSeq(queued, i + 1, Len(queued))
    ELSE queued

(* The generator raises, since its queue was closed at the end of the loop;  *)
(* the call is cancelled wherever it is, and an episode in flight with it.    *)
CancelStream(call) ==
    /\ call \in live \ {"parameters"} /\ actor = "closing" /\ ~stopping
    /\ live' = live \ {call} /\ running' = running \ {call}
    /\ queued' = Without(call)
    /\ wire' = IF call = "transitions" THEN NoEpisode ELSE wire
    /\ UNCHANGED <<actorVars, boxVars, zombies, sending, learnerVars, lives>>

(* receive_policy gets weights and puts them in its queue. *)
ReceiveWeights ==
    /\ sending # None /\ Streaming
    /\ inbox' = sending /\ sending' = None
    /\ UNCHANGED <<actorVars, outbox, callVars, wire, learnerVars, lives>>

(* It waits in the iteration of the stream: only when weights arrive does it *)
(* see the shutdown event or the closed queue, and ends.  Its handler does   *)
(* not know.                                                                *)
EndReceiver ==
    /\ sending # None /\ ~Streaming
    /\ sending' = None
    /\ live' = live \ {"parameters"} /\ running' = running \ {"parameters"}
    /\ zombies' = zombies + 1
    /\ UNCHANGED <<actorVars, boxVars, queued, wire, learnerVars, lives>>

(* The three threads are joined. *)
ActorEnds ==
    /\ actor = "closing" /\ live = {}
    /\ actor' = "off" /\ outbox' = <<>> /\ inbox' = None
    /\ UNCHANGED <<steps, first, now, stopping, policy, callVars, netVars>>
    /\ UNCHANGED <<learnerVars, lives>>

(* The actor is killed, or forced to exit by a second signal: its calls end  *)
(* and what they carried is lost, but a StreamParameters handler that waits   *)
(* for weights runs on.                                                     *)
KillActor ==
    /\ actor # "off"
    /\ actor' = "off" /\ outbox' = <<>> /\ inbox' = None
    /\ live' = {} /\ queued' = <<>> /\ running' = {}
    /\ wire' = NoEpisode /\ sending' = None
    /\ zombies' = IF "parameters" \in running /\ sending = None
                  THEN zombies + 1 ELSE zombies
    /\ UNCHANGED <<steps, first, now, stopping, policy, learnerVars, lives>>

Actor ==
    \/ StartActor \/ Step \/ EndEpisode
    \/ RequestStop \/ LeaveLoop \/ StreamEpisode
    \/ \E call \in Calls : EndStream(call) \/ CancelStream(call)
    \/ ReceiveWeights \/ EndReceiver \/ ActorEnds \/ KillActor
-----------------------------------------------------------------------------
(* The learner. *)

(* Mutant: nothing is ever overwritten. *)
StoredForEver(t) == Append(replay, t)

(* ReplayBuffer.add: a ring, oldest first. *)
Stored(t) ==
    LET all == Append(replay, t)
    IN  IF Len(all) > Capacity THEN Tail(all) ELSE all

(* process_transitions adds the transitions of an episode one by one, and     *)
(* leaves out those with a NaN in the state, the action or the next state.    *)
AddTransition ==
    LET episode == Head(received)
        last == episode.first = episode.last
        rest == [first |-> episode.first + 1, last |-> episode.last]
    IN  /\ received # <<>>
        /\ \/ /\ replay' = Stored([state |-> episode.first, last |-> last])
              /\ UNCHANGED skipped
           \/ /\ Cardinality(skipped) < MaxSkips
              /\ skipped' = skipped \union {episode.first}
              /\ UNCHANGED replay
        /\ received' = IF last THEN Tail(received)
                       ELSE [received EXCEPT ![1] = rest]
        /\ UNCHANGED <<actorVars, boxVars, callVars, netVars, version, params, lives>>

(* A training step once there is enough to learn from; the weights are pushed *)
(* when the last push is policy_parameters_push_frequency seconds ago.        *)
Train(push) ==
    /\ received = <<>> /\ Len(replay) >= MinReplay
    /\ version' = IF version < MaxVersion THEN version + 1 ELSE version
    /\ params' = IF push THEN version' ELSE params
    /\ UNCHANGED <<actorVars, boxVars, callVars, netVars, received, replay, skipped>>
    /\ UNCHANGED lives

Learner == AddTransition \/ \E push \in BOOLEAN : Train(push)

(* Nobody starts another actor. *)
Terminated == actor = "off" /\ lives = MaxLives /\ UNCHANGED vars

Next == Server \/ Actor \/ Learner \/ Terminated

Spec == Init /\ [][Next]_vars

(* The threads run on and the network delivers.  A push is due every few      *)
(* seconds, so one of infinitely many training steps pushes.  Nothing says    *)
(* when a robot steps, an episode ends or somebody starts or stops a process. *)
FairSpec ==
    /\ Spec
    /\ WF_vars(Dispatch) /\ WF_vars(ZombieTakes) /\ WF_vars(TakeWeights)
    /\ WF_vars(StreamEpisode) /\ WF_vars(ReceiveEpisode) /\ WF_vars(ReceiveWeights)
    /\ WF_vars(AddTransition) /\ SF_vars(Train(TRUE))
    /\ WF_vars(LeaveLoop) /\ WF_vars(EndReceiver) /\ WF_vars(ActorEnds)
    /\ \A call \in Calls : WF_vars(EndStream(call)) /\ WF_vars(CancelStream(call))
-----------------------------------------------------------------------------
Episode == [first : Nat, last : Nat]
Transition == [state : Nat, last : BOOLEAN]

(* Every variable keeps the type the code gives it, and the pool is not       *)
(* exceeded.                                                                *)
TypeOK ==
    /\ actor \in {"off", "acting", "closing"} /\ stopping \in BOOLEAN
    /\ steps \in 0..OnlineSteps /\ lives \in 0..MaxLives
    /\ first \in Nat /\ now \in Nat
    /\ outbox \in Seq(Episode) /\ wire \in Episode \union {NoEpisode}
    /\ received \in Seq(Episode) /\ replay \in Seq(Transition)
    /\ Len(replay) <= Capacity
    /\ policy \in 0..MaxVersion /\ version \in 0..MaxVersion
    /\ {inbox, sending, params} \subseteq 0..MaxVersion \union {None}
    /\ live \subseteq Calls /\ running \subseteq Calls /\ queued \in Seq(Calls)
    /\ zombies \in Nat /\ Cardinality(running) + zombies <= Workers
    /\ skipped \subseteq Nat

(* The finished episodes that are not stored yet, oldest first: in the queue   *)
(* of the learner, on the wire and in the queue of the actor.                 *)
Pipeline == received \o (IF wire = NoEpisode THEN <<>> ELSE <<wire>>) \o outbox

(* What the learner stores is what the robot did, in the order it did it and   *)
(* nothing twice, through actors that are stopped and killed; of what one      *)
(* actor did nothing is skipped on the way to the learner.                   *)
InOrder ==
    /\ \A i \in 1..Len(Pipeline) :
           Pipeline[i].first <= Pipeline[i].last /\ Pipeline[i].last + 1 < first
    /\ \A i, j \in 1..Len(Pipeline) :
           i < j => Pipeline[i].last + 1 < Pipeline[j].first
    /\ \A i \in Len(received) + 1..Len(Pipeline) :
           Pipeline[i].last + 2 =
               IF i = Len(Pipeline) THEN first ELSE Pipeline[i + 1].first
    /\ \A i, j \in 1..Len(replay) : i < j => replay[i].state < replay[j].state
    /\ \A i \in 1..Len(replay) :
           /\ replay[i].state < first
           /\ \A j \in 1..Len(Pipeline) : replay[i].state < Pipeline[j].first

(* Mutant: the transition added last is sampled before its next state is there. *)
SampledAll == 1..Len(replay)

(* ReplayBuffer.sample: the transitions it draws from ... *)
Sampled == 1..(IF Len(replay) < Capacity THEN Len(replay) - 1 ELSE Len(replay))

(* ... and the state it takes as the next state, the one stored after them.  *)
NextState(i) == replay[(i % Len(replay)) + 1].state

(* The state stored next is the next state of a transition that does not end   *)
(* its episode; the newest in a full buffer is excepted, while the rest of its *)
(* episode has still to be added.                                             *)
Derived(i) ==
    \/ replay[i].last
    \/ NextState(i) = replay[i].state + 1
    \/ i = Capacity /\ received # <<>> /\ received[1].first = replay[i].state + 1

(* The buffer of the learner stores no next states: "next_state[i] =            *)
(* state[i+1]" (buffer.py:107).  A transition that is drawn has another's      *)
(* state as its next state only when the one that followed it was left out for  *)
(* a NaN, which nothing marks: neither the ring nor any end of an actor does    *)
(* that.                                                                       *)
NextStateSound ==
    \A i \in Sampled : Derived(i) \/ replay[i].state + 1 \in skipped

(* The newest weights an actor has. *)
Newest == IF inbox = None THEN policy ELSE inbox

(* An actor that has its receiver gets the newest weights: no handler of an    *)
(* actor that is gone takes them for ever, and none keeps the worker that the  *)
(* stream of the new one waits for, while the learner trains.                 *)
WeightsArrive ==
    version = MaxVersion /\ actor = "acting" /\ "parameters" \in live
        ~> Newest = MaxVersion \/ ~Streaming

(* learner_service.py:42 "Stream parameters, send transitions and             *)
(* interactions": three workers are enough for the three calls of an actor.  *)
Queued(call) == \E i \in 1..Len(queued) : queued[i] = call

CallsServed == \A call \in Calls :
    Queued(call) /\ Streaming ~> ~Queued(call) \/ ~Streaming
=============================================================================
