------------------------- MODULE ActorLearnerProofs -------------------------
(***************************************************************************)
(* Proofs about ActorLearner, for any pool of workers, any size of the       *)
(* replay buffer, and any number of steps, of weights and of actors.        *)
(***************************************************************************)
EXTENDS ActorLearner, SequenceTheorems, FiniteSetTheorems, TLAPS

Ranges ==
    /\ steps \in 0..OnlineSteps /\ lives \in 0..MaxLives
    /\ first \in Nat /\ now \in Nat
    /\ policy \in 0..MaxVersion /\ version \in 0..MaxVersion
    /\ inbox \in 0..MaxVersion \union {None}
    /\ sending \in 0..MaxVersion \union {None}
    /\ params \in 0..MaxVersion \union {None}

Messages ==
    /\ outbox \in Seq(Episode) /\ wire \in Episode \union {NoEpisode}
    /\ received \in Seq(Episode) /\ replay \in Seq(Transition)
    /\ Len(replay) <= Capacity
    /\ skipped \subseteq Nat

(* The pool of the server, and whose call has a worker. *)
Pool ==
    /\ live \subseteq Calls /\ running \subseteq Calls /\ queued \in Seq(Calls)
    /\ zombies \in Nat /\ Cardinality(running) + zombies <= Workers
    /\ sending # None => "parameters" \in running

Places == actor \in {"off", "acting", "closing"} /\ stopping \in BOOLEAN

(* An actor that is gone has left nothing behind. *)
Gone ==
    /\ wire # NoEpisode => "transitions" \in live
    /\ actor = "off" => live = {} /\ outbox = <<>>

(* An episode that is over, before the one in progress. *)
Over(e) == e.first <= e.last /\ e.last + 1 < first

(* The parts of the pipeline, each in order, and one after the other. *)
Finished ==
    /\ first <= now
    /\ \A i \in 1..Len(received) : Over(received[i])
    /\ wire # NoEpisode => Over(wire)
    /\ \A i \in 1..Len(outbox) : Over(outbox[i])

Sequential ==
    /\ \A i, j \in 1..Len(received) :
           i < j => received[i].last + 1 < received[j].first
    /\ \A i, j \in 1..Len(outbox) :
           i < j => outbox[i].last + 1 < outbox[j].first
    /\ \A i \in 1..Len(received) :
           /\ wire # NoEpisode => received[i].last + 1 < wire.first
           /\ \A j \in 1..Len(outbox) : received[i].last + 1 < outbox[j].first
    /\ wire # NoEpisode =>
           \A j \in 1..Len(outbox) : wire.last + 1 < outbox[j].first

(* Nothing is missing between the episodes of one actor. *)
Gapless ==
    /\ \A i \in 1..Len(outbox) :
           outbox[i].last + 2 = IF i = Len(outbox) THEN first ELSE outbox[i + 1].first
    /\ wire # NoEpisode =>
           wire.last + 2 = IF outbox = <<>> THEN first ELSE outbox[1].first

(* What is stored comes before what is still to be stored. *)
Earlier ==
    /\ \A i, j \in 1..Len(replay) : i < j => replay[i].state < replay[j].state
    /\ \A i \in 1..Len(replay) :
           /\ replay[i].state < first
           /\ wire # NoEpisode => replay[i].state < wire.first
           /\ \A j \in 1..Len(received) : replay[i].state < received[j].first
           /\ \A j \in 1..Len(outbox) : replay[i].state < outbox[j].first

OrderInv == Gone /\ Finished /\ Sequential /\ Gapless /\ Earlier

(* Every transition that does not end its episode is followed by the next one, *)
(* and the newest by the one that is about to be added, unless that was left   *)
(* out.                                                                       *)
Followed ==
    /\ \A i \in 1..Len(replay) - 1 :
           \/ replay[i].last
           \/ replay[i + 1].state = replay[i].state + 1
           \/ replay[i].state + 1 \in skipped
    /\ replay # <<>> =>
           \/ replay[Len(replay)].last
           \/ replay[Len(replay)].state + 1 \in skipped
           \/ /\ received # <<>>
              /\ received[1].first = replay[Len(replay)].state + 1

(* Each call of the actor waits for a worker or has one, and not both. *)
Served ==
    /\ running \subseteq live
    /\ \A i \in 1..Len(queued) : queued[i] \in live \ running
    /\ \A i, j \in 1..Len(queued) : i # j => queued[i] # queued[j]

(* A call waits only if handlers of actors that are gone leave fewer workers  *)
(* than an actor has calls, and an actor cannot start only if they leave none. *)
WorkersSuffice ==
    /\ queued # <<>> /\ ~FreeWorker => zombies > Workers - 3
    /\ actor = "off" /\ ~FreeWorker => zombies = Workers

TypeInv == Ranges /\ Messages /\ Pool /\ Places
-----------------------------------------------------------------------------
LEMMA RangesStep ==
    ASSUME ConfigAssumption, Ranges, [Next]_vars
    PROVE  Ranges'
<1> USE DEF vars, actorVars, boxVars, callVars, netVars, learnerVars
<1>1. CASE Dispatch
  BY <1>1 DEF Dispatch, Ranges, ConfigAssumption, None
<1>2. CASE TakeWeights
  BY <1>2 DEF TakeWeights, Ranges, ConfigAssumption, None
<1>3. CASE ZombieTakes
  BY <1>3 DEF ZombieTakes, Ranges, ConfigAssumption, None
<1>4. CASE ReceiveEpisode
  BY <1>4 DEF ReceiveEpisode, Ranges, ConfigAssumption, None
<1>5. CASE StartActor
  BY <1>5 DEF StartActor, Ranges, ConfigAssumption, None
<1>6. CASE Step
  BY <1>6 DEF Step, Ranges, ConfigAssumption, None
<1>7. CASE EndEpisode
  BY <1>7 DEF EndEpisode, UpdatePolicy, Ranges, ConfigAssumption, None
<1>8. CASE RequestStop
  BY <1>8 DEF RequestStop, Ranges, ConfigAssumption, None
<1>9. CASE LeaveLoop
  BY <1>9 DEF LeaveLoop, Ranges, ConfigAssumption, None
<1>10. CASE StreamEpisode
  BY <1>10 DEF StreamEpisode, Ranges, ConfigAssumption, None
<1>11. ASSUME NEW call \in Calls, EndStream(call) PROVE Ranges'
  BY <1>11 DEF EndStream, Ranges, ConfigAssumption, None
<1>12. ASSUME NEW call \in Calls, CancelStream(call) PROVE Ranges'
  BY <1>12 DEF CancelStream, Ranges, ConfigAssumption, None
<1>13. CASE ReceiveWeights
  BY <1>13 DEF ReceiveWeights, Ranges, ConfigAssumption, None
<1>14. CASE EndReceiver
  BY <1>14 DEF EndReceiver, Ranges, ConfigAssumption, None
<1>15. CASE ActorEnds
  BY <1>15 DEF ActorEnds, Ranges, ConfigAssumption, None
<1>16. CASE KillActor
  BY <1>16 DEF KillActor, Ranges, ConfigAssumption, None
<1>17. CASE AddTransition
  BY <1>17 DEF AddTransition, Ranges, ConfigAssumption, None
<1>18. ASSUME NEW push \in BOOLEAN, Train(push) PROVE Ranges'
  BY <1>18 DEF Train, Ranges, ConfigAssumption, None
<1>19. CASE UNCHANGED vars
  BY <1>19 DEF Ranges, ConfigAssumption, None
<1> QED
  BY <1>1, <1>2, <1>3, <1>4, <1>5, <1>6, <1>7, <1>8, <1>9, <1>10,
     <1>11, <1>12, <1>13, <1>14, <1>15, <1>16, <1>17, <1>18, <1>19
  DEF Next, Server, Actor, Learner, Terminated

LEMMA PlacesStep ==
    ASSUME ConfigAssumption, Places, [Next]_vars
    PROVE  Places'
<1> USE DEF vars, actorVars, boxVars, callVars, netVars, learnerVars
<1>1. CASE Dispatch
  BY <1>1 DEF Dispatch, Places
<1>2. CASE TakeWeights
  BY <1>2 DEF TakeWeights, Places
<1>3. CASE ZombieTakes
  BY <1>3 DEF ZombieTakes, Places
<1>4. CASE ReceiveEpisode
  BY <1>4 DEF ReceiveEpisode, Places
<1>5. CASE StartActor
  BY <1>5 DEF StartActor, Places
<1>6. CASE Step
  BY <1>6 DEF Step, Places
<1>7. CASE EndEpisode
  BY <1>7 DEF EndEpisode, Places
<1>8. CASE RequestStop
  BY <1>8 DEF RequestStop, Places
<1>9. CASE LeaveLoop
  BY <1>9 DEF LeaveLoop, Places
<1>10. CASE StreamEpisode
  BY <1>10 DEF StreamEpisode, Places
<1>11. ASSUME NEW call \in Calls, EndStream(call) PROVE Places'
  BY <1>11 DEF EndStream, Places
<1>12. ASSUME NEW call \in Calls, CancelStream(call) PROVE Places'
  BY <1>12 DEF CancelStream, Places
<1>13. CASE ReceiveWeights
  BY <1>13 DEF ReceiveWeights, Places
<1>14. CASE EndReceiver
  BY <1>14 DEF EndReceiver, Places
<1>15. CASE ActorEnds
  BY <1>15 DEF ActorEnds, Places
<1>16. CASE KillActor
  BY <1>16 DEF KillActor, Places
<1>17. CASE AddTransition
  BY <1>17 DEF AddTransition, Places
<1>18. ASSUME NEW push \in BOOLEAN, Train(push) PROVE Places'
  BY <1>18 DEF Train, Places
<1>19. CASE UNCHANGED vars
  BY <1>19 DEF Places
<1> QED
  BY <1>1, <1>2, <1>3, <1>4, <1>5, <1>6, <1>7, <1>8, <1>9, <1>10,
     <1>11, <1>12, <1>13, <1>14, <1>15, <1>16, <1>17, <1>18, <1>19
  DEF Next, Server, Actor, Learner, Terminated

LEMMA MessagesStep ==
    ASSUME ConfigAssumption, Ranges, Messages, [Next]_vars
    PROVE  Messages'
<1> USE DEF vars, actorVars, boxVars, callVars, netVars, learnerVars
<1>1. CASE Dispatch
  BY <1>1 DEF Dispatch, Messages
<1>2. CASE TakeWeights
  BY <1>2 DEF TakeWeights, Messages
<1>3. CASE ZombieTakes
  BY <1>3 DEF ZombieTakes, Messages
<1>4. CASE ReceiveEpisode
  <2>1. received' = Append(received, wire) /\ wire \in Episode
    BY <1>4 DEF ReceiveEpisode, Messages
  <2> QED
    BY <1>4, <2>1 DEF ReceiveEpisode, Messages
<1>5. CASE StartActor
  BY <1>5 DEF StartActor, Messages
<1>6. CASE Step
  BY <1>6 DEF Step, Messages
<1>7. CASE EndEpisode
  BY <1>7 DEF EndEpisode, UpdatePolicy, Messages, Episode, Ranges
<1>8. CASE RequestStop
  BY <1>8 DEF RequestStop, Messages
<1>9. CASE LeaveLoop
  BY <1>9 DEF LeaveLoop, Messages
<1>10. CASE StreamEpisode
  <2>1. Head(outbox) \in Episode /\ Tail(outbox) \in Seq(Episode)
    BY <1>10 DEF StreamEpisode, Messages
  <2> QED
    BY <1>10, <2>1 DEF StreamEpisode, Messages
<1>11. ASSUME NEW call \in Calls, EndStream(call) PROVE Messages'
  BY <1>11 DEF EndStream, Messages
<1>12. ASSUME NEW call \in Calls, CancelStream(call) PROVE Messages'
  BY <1>12 DEF CancelStream, Messages
<1>13. CASE ReceiveWeights
  BY <1>13 DEF ReceiveWeights, Messages
<1>14. CASE EndReceiver
  BY <1>14 DEF EndReceiver, Messages
<1>15. CASE ActorEnds
  BY <1>15 DEF ActorEnds, Messages
<1>16. CASE KillActor
  BY <1>16 DEF KillActor, Messages
<1>17. CASE AddTransition
  <2> DEFINE episode == Head(received)
             t == [state |-> episode.first, last |-> episode.first = episode.last]
  <2>1. episode \in Episode /\ Tail(received) \in Seq(Episode) /\ received[1] = episode
    BY <1>17 DEF AddTransition, Messages
  <2>2. t \in Transition
    BY <2>1 DEF Episode, Transition
  <2>3. [first |-> episode.first + 1, last |-> episode.last] \in Episode
    BY <2>1 DEF Episode
  <2>4. received' \in Seq(Episode)
    <3>1. 1 \in 1..Len(received)
      BY <1>17 DEF AddTransition, Messages
    <3>2. [received EXCEPT ![1] = [first |-> episode.first + 1, last |-> episode.last]]
                 \in Seq(Episode)
      BY <2>3, <3>1, ExceptSeq DEF Messages
    <3> QED
      BY <1>17, <2>1, <3>2 DEF AddTransition
  <2>5. Stored(t) \in Seq(Transition) /\ Len(Stored(t)) <= Capacity
    <3>1. /\ replay \in Seq(Transition) /\ Len(replay) <= Capacity
          /\ Capacity \in Nat \ {0}
      BY DEF Messages, ConfigAssumption
    <3> HIDE DEF t
    <3> QED
      BY <2>2, <3>1 DEF Stored
  <2>6. /\ replay' = Stored(t) \/ replay' = replay
        /\ skipped' = skipped \/ skipped' = skipped \union {episode.first}
    BY <1>17 DEF AddTransition
  <2>7. episode.first \in Nat
    BY <2>1 DEF Episode
  <2> QED
    BY <1>17, <2>4, <2>5, <2>6, <2>7 DEF AddTransition, Messages
<1>18. ASSUME NEW push \in BOOLEAN, Train(push) PROVE Messages'
  BY <1>18 DEF Train, Messages
<1>19. CASE UNCHANGED vars
  BY <1>19 DEF Messages
<1> QED
  BY <1>1, <1>2, <1>3, <1>4, <1>5, <1>6, <1>7, <1>8, <1>9, <1>10,
     <1>11, <1>12, <1>13, <1>14, <1>15, <1>16, <1>17, <1>18, <1>19
  DEF Next, Server, Actor, Learner, Terminated

LEMMA CallsFinite == IsFiniteSet(Calls)
<1>1. IsFiniteSet({"parameters"})
  BY FS_Singleton
<1>2. IsFiniteSet({"parameters"} \cup {"transitions"})
  BY <1>1, FS_AddElement
<1>3. IsFiniteSet({"parameters"} \cup {"transitions"} \cup {"interactions"})
  BY <1>2, FS_AddElement
<1>4. Calls = {"parameters"} \cup {"transitions"} \cup {"interactions"}
  BY DEF Calls
<1> QED
  BY <1>3, <1>4

(* An actor makes three calls. *)
LEMMA ThreeCalls == Cardinality(Calls) = 3
<1>1. IsFiniteSet({}) /\ Cardinality({}) = 0
  BY FS_EmptySet
<1>2. IsFiniteSet({} \cup {"parameters"}) /\ Cardinality({} \cup {"parameters"}) = 1
  BY <1>1, FS_AddElement
<1> DEFINE two == {} \cup {"parameters"} \cup {"transitions"}
<1>3. IsFiniteSet(two) /\ Cardinality(two) = 2
  BY <1>2, FS_AddElement
<1>4. IsFiniteSet(two \cup {"interactions"}) /\ Cardinality(two \cup {"interactions"}) = 3
  BY <1>3, FS_AddElement
<1>5. Calls = two \cup {"interactions"}
  BY DEF Calls
<1> QED
  BY <1>4, <1>5

LEMMA WithoutType ==
    ASSUME NEW call, queued \in Seq(Calls)
    PROVE  Without(call) \in Seq(Calls)
<1>1. CASE \E i \in 1..Len(queued) : queued[i] = call
  <2> DEFINE i == CHOOSE i \in 1..Len(queued) : queued[i] = call
  <2>1. i \in 1..Len(queued)
    BY <1>1
  <2> HIDE DEF i
  <2>2. SubSeq(queued, 1, i - 1) \in Seq(Calls)
    <3>1. \A j \in 1..(i - 1) : queued[j] \in Calls
      BY <2>1
    <3> QED
      BY <2>1, <3>1, SubSeqProperties
  <2>3. SubSeq(queued, i + 1, Len(queued)) \in Seq(Calls)
    <3>1. \A j \in (i + 1)..Len(queued) : queued[j] \in Calls
      BY <2>1
    <3> QED
      BY <2>1, <3>1, SubSeqProperties
  <2>4. Without(call) = SubSeq(queued, 1, i - 1) \o SubSeq(queued, i + 1, Len(queued))
    BY <1>1 DEF Without, i
  <2> QED
    BY <2>2, <2>3, <2>4, ConcatProperties
<1>2. CASE ~\E i \in 1..Len(queued) : queued[i] = call
  BY <1>2 DEF Without
<1> QED
  BY <1>1, <1>2

LEMMA PoolStep ==
    ASSUME ConfigAssumption, Ranges, Pool, [Next]_vars
    PROVE  Pool'
<1> USE DEF vars, actorVars, boxVars, callVars, netVars, learnerVars
<1>1. CASE Dispatch
  <2>1. Head(queued) \in Calls /\ Tail(queued) \in Seq(Calls)
    BY <1>1 DEF Dispatch, Pool
  <2>2. IsFiniteSet(running) /\ Cardinality(running) \in Nat
    BY CallsFinite, FS_Subset, FS_CardinalityType DEF Pool
  <2>a. /\ IsFiniteSet(running \union {Head(queued)})
        /\ Cardinality(running \union {Head(queued)}) =
               IF Head(queued) \in running THEN Cardinality(running)
               ELSE Cardinality(running) + 1
    BY <2>2, FS_AddElement
  <2>3. Cardinality(running \union {Head(queued)}) <= Cardinality(running) + 1
    BY <2>2, <2>a
  <2>4. Cardinality(running \union {Head(queued)}) \in Nat
    BY <2>a, FS_CardinalityType
  <2> QED
    BY <1>1, <2>1, <2>2, <2>3, <2>4 DEF Dispatch, FreeWorker, Pool, ConfigAssumption
<1>2. CASE TakeWeights
  BY <1>2 DEF TakeWeights, Pool, Calls
<1>3. CASE ZombieTakes
  <2>1. IsFiniteSet(running) /\ Cardinality(running) \in Nat
    BY CallsFinite, FS_Subset, FS_CardinalityType DEF Pool
  <2> QED
    BY <1>3, <2>1 DEF ZombieTakes, Pool, ConfigAssumption
<1>4. CASE ReceiveEpisode
  BY <1>4 DEF ReceiveEpisode, Pool, Calls
<1>5. CASE StartActor
  <2>1. queued' \in Seq(Calls)
    <3>1. queued' \in [1..3 -> Calls]
      BY <1>5 DEF StartActor, Arrivals
    <3>2. queued' = [i \in 1..3 |-> queued'[i]]
      BY <3>1
    <3>3. \A i \in 1..3 : queued'[i] \in Calls
      BY <3>1
    <3>4. [i \in 1..3 |-> queued'[i]] \in Seq(Calls)
      BY <3>3
    <3> QED
      BY <3>2, <3>4
  <2> QED
    BY <1>5, <2>1 DEF StartActor, Pool, Calls
<1>6. CASE Step
  BY <1>6 DEF Step, Pool, Calls
<1>7. CASE EndEpisode
  BY <1>7 DEF EndEpisode, Pool, Calls
<1>8. CASE RequestStop
  BY <1>8 DEF RequestStop, Pool, Calls
<1>9. CASE LeaveLoop
  BY <1>9 DEF LeaveLoop, Pool, Calls
<1>10. CASE StreamEpisode
  BY <1>10 DEF StreamEpisode, Pool, Calls
<1>11. ASSUME NEW call \in Calls, EndStream(call) PROVE Pool'
  <2>1. IsFiniteSet(running) /\ Cardinality(running) \in Nat
    BY CallsFinite, FS_Subset, FS_CardinalityType DEF Pool
  <2>2. Cardinality(running \ {call}) <= Cardinality(running)
    BY <2>1, FS_RemoveElement
  <2>3. Cardinality(running \ {call}) \in Nat
    BY <2>1, FS_RemoveElement, FS_CardinalityType
  <2>4. queued' \in Seq(Calls)
    BY <1>11 DEF EndStream, Pool, callVars
  <2>5. live' \subseteq Calls /\ running' = running \ {call} /\ zombies' = zombies /\ sending' = sending
    BY <1>11 DEF EndStream, Pool
  <2>6. "parameters" # call
    BY <1>11 DEF EndStream
  <2>7. sending' # None => "parameters" \in running'
    BY <2>5, <2>6 DEF Pool
  <2>8. Cardinality(running') + zombies' <= Workers
    BY <2>1, <2>2, <2>3, <2>5 DEF Pool, ConfigAssumption
  <2> QED
    BY <2>4, <2>5, <2>7, <2>8 DEF Pool
<1>12. ASSUME NEW call \in Calls, CancelStream(call) PROVE Pool'
  <2>1. IsFiniteSet(running) /\ Cardinality(running) \in Nat
    BY CallsFinite, FS_Subset, FS_CardinalityType DEF Pool
  <2>2. Cardinality(running \ {call}) <= Cardinality(running)
    BY <2>1, FS_RemoveElement
  <2>3. Cardinality(running \ {call}) \in Nat
    BY <2>1, FS_RemoveElement, FS_CardinalityType
  <2>4. queued' \in Seq(Calls)
    BY <1>12, WithoutType DEF CancelStream, Pool
  <2>5. live' \subseteq Calls /\ running' = running \ {call} /\ zombies' = zombies /\ sending' = sending
    BY <1>12 DEF CancelStream, Pool
  <2>6. "parameters" # call
    BY <1>12 DEF CancelStream
  <2>7. sending' # None => "parameters" \in running'
    BY <2>5, <2>6 DEF Pool
  <2>8. Cardinality(running') + zombies' <= Workers
    BY <2>1, <2>2, <2>3, <2>5 DEF Pool, ConfigAssumption
  <2> QED
    BY <2>4, <2>5, <2>7, <2>8 DEF Pool
<1>13. CASE ReceiveWeights
  BY <1>13 DEF ReceiveWeights, Pool, Calls
<1>14. CASE EndReceiver
  <2>1. IsFiniteSet(running) /\ Cardinality(running) \in Nat
    BY CallsFinite, FS_Subset, FS_CardinalityType DEF Pool
  <2>2. "parameters" \in running
    BY <1>14 DEF EndReceiver, Pool
  <2>3. Cardinality(running \ {"parameters"}) = Cardinality(running) - 1
    BY <2>1, <2>2, FS_RemoveElement
  <2> QED
    BY <1>14, <2>1, <2>3 DEF EndReceiver, Pool, ConfigAssumption
<1>15. CASE ActorEnds
  BY <1>15 DEF ActorEnds, Pool, Calls
<1>16. CASE KillActor
  <2>1. IsFiniteSet(running) /\ Cardinality(running) \in Nat
    BY CallsFinite, FS_Subset, FS_CardinalityType DEF Pool
  <2>2. Cardinality({}) = 0
    BY FS_EmptySet
  <2>3. "parameters" \in running => Cardinality(running) >= 1
    BY <2>1, FS_EmptySet
  <2>4. zombies' \in Nat /\ zombies' <= Workers
    BY <1>16, <2>1, <2>3 DEF KillActor, Pool, ConfigAssumption
  <2> QED
    BY <1>16, <2>2, <2>4 DEF KillActor, Pool, ConfigAssumption
<1>17. CASE AddTransition
  BY <1>17 DEF AddTransition, Pool, Calls
<1>18. ASSUME NEW push \in BOOLEAN, Train(push) PROVE Pool'
  BY <1>18 DEF Train, Pool, Calls
<1>19. CASE UNCHANGED vars
  BY <1>19 DEF Pool, Calls
<1> QED
  BY <1>1, <1>2, <1>3, <1>4, <1>5, <1>6, <1>7, <1>8, <1>9, <1>10,
     <1>11, <1>12, <1>13, <1>14, <1>15, <1>16, <1>17, <1>18, <1>19
  DEF Next, Server, Actor, Learner, Terminated

(* What the four steps that move episodes do to the parts of the pipeline. *)
LEMMA EndEpisodeEffect ==
    ASSUME Ranges, Messages, EndEpisode
    PROVE  /\ Len(outbox') = Len(outbox) + 1
           /\ \A i \in 1..Len(outbox) : outbox'[i] = outbox[i]
           /\ outbox'[Len(outbox) + 1] = [first |-> first, last |-> now]
           /\ first' = now + 2 /\ now' = now + 2
           /\ received' = received /\ wire' = wire /\ replay' = replay
<1>1. outbox' = Append(outbox, [first |-> first, last |-> now])
  BY DEF EndEpisode
<1>2. [first |-> first, last |-> now] \in Episode
  BY DEF Ranges, Episode
<1> QED
  BY <1>1, <1>2 DEF EndEpisode, Messages, netVars, learnerVars

LEMMA StreamEpisodeEffect ==
    ASSUME Messages, StreamEpisode
    PROVE  /\ wire = NoEpisode /\ wire' = outbox[1] /\ Len(outbox) > 0
           /\ outbox[1] \in Episode
           /\ Len(outbox') = Len(outbox) - 1
           /\ \A i \in 1..Len(outbox') : outbox'[i] = outbox[i + 1]
           /\ received' = received /\ replay' = replay
           /\ first' = first /\ now' = now /\ outbox' \in Seq(Episode)
<1>1. outbox \in Seq(Episode) /\ outbox # <<>>
  BY DEF StreamEpisode, Messages
<1>2. /\ Len(Tail(outbox)) = Len(outbox) - 1
      /\ \A i \in 1..Len(Tail(outbox)) : Tail(outbox)[i] = outbox[i + 1]
  BY <1>1, HeadTailProperties
<1>3. Len(outbox) > 0 /\ outbox[1] \in Episode /\ Head(outbox) = outbox[1]
  BY <1>1
<1> QED
  BY <1>1, <1>2, <1>3 DEF StreamEpisode, actorVars, learnerVars

LEMMA ReceiveEpisodeEffect ==
    ASSUME Messages, ReceiveEpisode
    PROVE  /\ wire \in Episode /\ wire # NoEpisode /\ wire' = NoEpisode
           /\ Len(received') = Len(received) + 1
           /\ \A i \in 1..Len(received) : received'[i] = received[i]
           /\ received'[Len(received) + 1] = wire
           /\ outbox' = outbox /\ replay' = replay /\ first' = first /\ now' = now
  BY DEF ReceiveEpisode, Messages, actorVars, boxVars

(* A transition of the learner's queue is stored, or left out. *)
Adds ==
    /\ AddTransition
    /\ replay' = Stored([state |-> received[1].first,
                         last |-> received[1].first = received[1].last])
    /\ skipped' = skipped

Skips ==
    /\ AddTransition
    /\ replay' = replay
    /\ skipped' = skipped \union {received[1].first}

LEMMA AddsOrSkips ==
    ASSUME Messages, AddTransition
    PROVE  Adds \/ Skips
<1>1. received # <<>> /\ Head(received) = received[1]
  BY DEF AddTransition, Messages
<1> QED
  BY <1>1 DEF AddTransition, Adds, Skips

LEMMA AddTransitionEffect ==
    ASSUME Messages, AddTransition
    PROVE  /\ Len(received) > 0 /\ received[1] \in Episode
           /\ IF received[1].first = received[1].last
              THEN /\ Len(received') = Len(received) - 1
                   /\ \A i \in 1..Len(received') : received'[i] = received[i + 1]
              ELSE /\ Len(received') = Len(received)
                   /\ received'[1].first = received[1].first + 1
                   /\ received'[1].last = received[1].last
                   /\ \A i \in 2..Len(received) : received'[i] = received[i]
           /\ outbox' = outbox /\ wire' = wire /\ first' = first /\ now' = now
<1>1. received \in Seq(Episode) /\ received # <<>>
  BY DEF AddTransition, Messages
<1>2. /\ Len(Tail(received)) = Len(received) - 1
      /\ \A i \in 1..Len(Tail(received)) : Tail(received)[i] = received[i + 1]
  BY <1>1, HeadTailProperties
<1>3. Len(received) > 0 /\ received[1] \in Episode /\ Head(received) = received[1]
  BY <1>1
<1>4. CASE received[1].first = received[1].last
  BY <1>2, <1>3, <1>4 DEF AddTransition, actorVars, boxVars, netVars
<1>5. CASE received[1].first # received[1].last
  <2> DEFINE rest == [first |-> received[1].first + 1, last |-> received[1].last]
  <2>1. rest \in Episode /\ rest.first = received[1].first + 1 /\ rest.last = received[1].last
    BY <1>3 DEF Episode
  <2>2. received' = [received EXCEPT ![1] = rest]
    BY <1>3, <1>5 DEF AddTransition
  <2> HIDE DEF rest
  <2>3. /\ Len(received') = Len(received) /\ received'[1] = rest
        /\ \A i \in 2..Len(received) : received'[i] = received[i]
    BY <1>1, <1>3, <2>1, <2>2
  <2> QED
    BY <1>3, <1>5, <2>1, <2>3 DEF AddTransition, actorVars, boxVars, netVars
<1> QED
  BY <1>4, <1>5

(* The first state of the episode in progress never goes back. *)
LEMMA OverStays ==
    ASSUME Ranges, first' \in Nat, first' >= first, NEW e \in Episode, Over(e)
    PROVE  e.first <= e.last /\ e.last + 1 < first'
  BY DEF Over, Ranges, Episode

LEMMA GoneStep ==
    ASSUME ConfigAssumption, Pool, Gone, [Next]_vars
    PROVE  Gone'
<1> USE DEF vars, actorVars, boxVars, callVars, netVars, learnerVars
<1>1. CASE Dispatch
  BY <1>1 DEF Dispatch, Gone, Pool, Calls
<1>2. CASE TakeWeights
  BY <1>2 DEF TakeWeights, Gone, Pool, Calls
<1>3. CASE ZombieTakes
  BY <1>3 DEF ZombieTakes, Gone, Pool, Calls
<1>4. CASE ReceiveEpisode
  BY <1>4 DEF ReceiveEpisode, Gone, Pool, Calls
<1>5. CASE StartActor
  BY <1>5 DEF StartActor, Gone, Pool, Calls
<1>6. CASE Step
  BY <1>6 DEF Step, Gone, Pool, Calls
<1>7. CASE EndEpisode
  BY <1>7 DEF EndEpisode, Gone, Pool, Calls
<1>8. CASE RequestStop
  BY <1>8 DEF RequestStop, Gone, Pool, Calls
<1>9. CASE LeaveLoop
  BY <1>9 DEF LeaveLoop, Gone, Pool, Calls
<1>10. CASE StreamEpisode
  BY <1>10 DEF StreamEpisode, Gone, Pool, Calls
<1>11. ASSUME NEW call \in Calls, EndStream(call) PROVE Gone'
  BY <1>11 DEF EndStream, Gone, Pool, Calls
<1>12. ASSUME NEW call \in Calls, CancelStream(call) PROVE Gone'
  BY <1>12 DEF CancelStream, Gone, Pool, Calls
<1>13. CASE ReceiveWeights
  BY <1>13 DEF ReceiveWeights, Gone, Pool, Calls
<1>14. CASE EndReceiver
  BY <1>14 DEF EndReceiver, Gone, Pool, Calls
<1>15. CASE ActorEnds
  BY <1>15 DEF ActorEnds, Gone, Pool, Calls
<1>16. CASE KillActor
  BY <1>16 DEF KillActor, Gone, Pool, Calls
<1>17. CASE AddTransition
  BY <1>17 DEF AddTransition, Gone, Pool, Calls
<1>18. ASSUME NEW push \in BOOLEAN, Train(push) PROVE Gone'
  BY <1>18 DEF Train, Gone, Pool, Calls
<1>19. CASE UNCHANGED vars
  BY <1>19 DEF Gone, Pool, Calls
<1> QED
  BY <1>1, <1>2, <1>3, <1>4, <1>5, <1>6, <1>7, <1>8, <1>9, <1>10,
     <1>11, <1>12, <1>13, <1>14, <1>15, <1>16, <1>17, <1>18, <1>19
  DEF Next, Server, Actor, Learner, Terminated

LEMMA FinishedStep ==
    ASSUME ConfigAssumption, Ranges, Messages, Gone, Finished, [Next]_vars
    PROVE  Finished'
<1> USE DEF vars, actorVars, boxVars, callVars, netVars, learnerVars
<1>1. CASE Dispatch
  BY <1>1 DEF Dispatch, Finished, Over, Messages, Ranges, Episode
<1>2. CASE TakeWeights
  BY <1>2 DEF TakeWeights, Finished, Over, Messages, Ranges, Episode
<1>3. CASE ZombieTakes
  BY <1>3 DEF ZombieTakes, Finished, Over, Messages, Ranges, Episode
<1>4. CASE ReceiveEpisode
  BY <1>4, ReceiveEpisodeEffect DEF Finished, Over, Messages
<1>5. CASE StartActor
  <2>1. first' = now + 1 /\ now' = now + 1 /\ outbox' = <<>> /\ wire' = NoEpisode
    BY <1>5 DEF StartActor, Gone, boxVars, netVars
  <2>2. received' = received /\ first' \in Nat /\ first' >= first
    BY <1>5, <2>1 DEF StartActor, Ranges, Finished, learnerVars
  <2>3. \A i \in 1..Len(received) : received[i].first <= received[i].last /\ received[i].last + 1 < first'
    BY <2>2, OverStays DEF Finished, Messages
  <2> QED
    BY <2>1, <2>2, <2>3 DEF Finished, Over, Ranges
<1>6. CASE Step
  BY <1>6 DEF Step, Finished, Over, Messages, Ranges, Episode
<1>7. CASE EndEpisode
  <2>1. first' \in Nat /\ first' >= first
    BY <1>7, EndEpisodeEffect DEF Ranges, Finished
  <2>2. \A i \in 1..Len(received) : received[i].first <= received[i].last /\ received[i].last + 1 < first'
    BY <2>1, OverStays DEF Finished, Messages
  <2>3. wire # NoEpisode => wire.first <= wire.last /\ wire.last + 1 < first'
    BY <2>1, OverStays DEF Finished, Messages
  <2>4. \A i \in 1..Len(outbox) : outbox[i].first <= outbox[i].last /\ outbox[i].last + 1 < first'
    BY <2>1, OverStays DEF Finished, Messages
  <2>5. \A i \in 1..Len(outbox') : outbox'[i].first <= outbox'[i].last /\ outbox'[i].last + 1 < first'
    <3>1. ASSUME NEW i \in 1..Len(outbox')
          PROVE  outbox'[i].first <= outbox'[i].last /\ outbox'[i].last + 1 < first'
      <4>1. CASE i = Len(outbox) + 1
        BY <1>7, <4>1, EndEpisodeEffect DEF Finished, Ranges
      <4>2. CASE i # Len(outbox) + 1
        <5>1. i \in 1..Len(outbox) /\ outbox'[i] = outbox[i]
          BY <1>7, <4>2, EndEpisodeEffect DEF Messages
        <5> QED
          BY <2>4, <5>1
      <4> QED
        BY <4>1, <4>2
    <3> QED
      BY <3>1
  <2> QED
    BY <1>7, <2>2, <2>3, <2>5, EndEpisodeEffect DEF Finished, Over, Ranges
<1>8. CASE RequestStop
  BY <1>8 DEF RequestStop, Finished, Over, Messages, Ranges, Episode
<1>9. CASE LeaveLoop
  BY <1>9 DEF LeaveLoop, Finished, Over, Messages, Ranges, Episode
<1>10. CASE StreamEpisode
  <2>1. \A i \in 1..Len(outbox') : Over(outbox'[i])
    <3>1. \A i \in 1..Len(outbox') : i + 1 \in 1..Len(outbox)
      BY <1>10, StreamEpisodeEffect DEF Messages
    <3> QED
      BY <1>10, <3>1, StreamEpisodeEffect DEF Finished
  <2>2. Over(wire')
    BY <1>10, StreamEpisodeEffect DEF Finished, Messages
  <2> QED
    BY <1>10, <2>1, <2>2, StreamEpisodeEffect DEF Finished, Over
<1>11. ASSUME NEW call \in Calls, EndStream(call) PROVE Finished'
  BY <1>11 DEF EndStream, Finished, Over, Messages, Ranges, Episode
<1>12. ASSUME NEW call \in Calls, CancelStream(call) PROVE Finished'
  BY <1>12 DEF CancelStream, Finished, Over, Messages, Ranges, Episode
<1>13. CASE ReceiveWeights
  BY <1>13 DEF ReceiveWeights, Finished, Over, Messages, Ranges, Episode
<1>14. CASE EndReceiver
  BY <1>14 DEF EndReceiver, Finished, Over, Messages, Ranges, Episode
<1>15. CASE ActorEnds
  BY <1>15 DEF ActorEnds, Finished, Over, Messages, Ranges, Episode
<1>16. CASE KillActor
  BY <1>16 DEF KillActor, Finished, Over, Messages, Ranges, Episode
<1>17. CASE AddTransition
  <2>1. ASSUME NEW i \in 1..Len(received') PROVE Over(received'[i])
    <3>1. CASE received[1].first = received[1].last
      <4>1. i + 1 \in 1..Len(received) /\ received'[i] = received[i + 1]
        BY <1>17, <3>1, AddTransitionEffect DEF Messages
      <4> QED
        BY <4>1 DEF Finished
    <3>2. CASE received[1].first # received[1].last
      <4>1. CASE i = 1
        <5>1. received[1] \in Episode /\ Over(received[1])
          BY <1>17, AddTransitionEffect DEF Finished, Messages
        <5>2. received'[1].first = received[1].first + 1 /\ received'[1].last = received[1].last
          BY <1>17, <3>2, AddTransitionEffect
        <5> QED
          BY <3>2, <4>1, <5>1, <5>2 DEF Over, Episode, Ranges
      <4>2. CASE i # 1
        <5>1. i \in 2..Len(received) /\ received'[i] = received[i]
          BY <1>17, <3>2, <4>2, AddTransitionEffect DEF Messages
        <5> QED
          BY <5>1 DEF Finished, Messages
      <4> QED
        BY <4>1, <4>2
    <3> QED
      BY <3>1, <3>2
  <2> QED
    BY <1>17, <2>1, AddTransitionEffect DEF Finished, Over
<1>18. ASSUME NEW push \in BOOLEAN, Train(push) PROVE Finished'
  BY <1>18 DEF Train, Finished, Over, Messages, Ranges, Episode
<1>19. CASE UNCHANGED vars
  BY <1>19 DEF Finished, Over, Messages, Ranges, Episode
<1> QED
  BY <1>1, <1>2, <1>3, <1>4, <1>5, <1>6, <1>7, <1>8, <1>9, <1>10,
     <1>11, <1>12, <1>13, <1>14, <1>15, <1>16, <1>17, <1>18, <1>19
  DEF Next, Server, Actor, Learner, Terminated

LEMMA SequentialStep ==
    ASSUME ConfigAssumption, Ranges, Messages, Gone, Finished, Sequential, [Next]_vars
    PROVE  Sequential'
<1> USE DEF vars, actorVars, boxVars, callVars, netVars, learnerVars
<1>1. CASE Dispatch
  BY <1>1 DEF Dispatch, Sequential
<1>2. CASE TakeWeights
  BY <1>2 DEF TakeWeights, Sequential
<1>3. CASE ZombieTakes
  BY <1>3 DEF ZombieTakes, Sequential
<1>4. CASE ReceiveEpisode
  <2>1. ASSUME NEW i \in 1..Len(received'), NEW j \in 1..Len(received'), i < j
        PROVE  received'[i].last + 1 < received'[j].first
    <3>1. i \in 1..Len(received) /\ received'[i] = received[i]
      BY <1>4, <2>1, ReceiveEpisodeEffect DEF Messages
    <3>2. CASE j = Len(received) + 1
      BY <1>4, <3>1, <3>2, ReceiveEpisodeEffect DEF Sequential
    <3>3. CASE j # Len(received) + 1
      <4>1. j \in 1..Len(received) /\ received'[j] = received[j]
        BY <1>4, <3>3, ReceiveEpisodeEffect DEF Messages
      <4> QED
        BY <2>1, <3>1, <4>1 DEF Sequential
    <3> QED
      BY <3>2, <3>3
  <2>2. \A i \in 1..Len(received'), j \in 1..Len(outbox) : received'[i].last + 1 < outbox[j].first
    BY <1>4, ReceiveEpisodeEffect DEF Sequential, Messages
  <2> QED
    BY <1>4, <2>1, <2>2, ReceiveEpisodeEffect DEF Sequential
<1>5. CASE StartActor
  BY <1>5 DEF StartActor, Sequential, Gone
<1>6. CASE Step
  BY <1>6 DEF Step, Sequential
<1>7. CASE EndEpisode
  <2>1. \A i, j \in 1..Len(outbox') : i < j => outbox'[i].last + 1 < outbox'[j].first
    BY <1>7, EndEpisodeEffect DEF Sequential, Finished, Over, Messages
  <2>2. \A i \in 1..Len(received), j \in 1..Len(outbox') : received[i].last + 1 < outbox'[j].first
    BY <1>7, EndEpisodeEffect DEF Sequential, Finished, Over, Messages
  <2>3. wire # NoEpisode => \A j \in 1..Len(outbox') : wire.last + 1 < outbox'[j].first
    BY <1>7, EndEpisodeEffect DEF Sequential, Finished, Over, Messages
  <2> QED
    BY <1>7, <2>1, <2>2, <2>3, EndEpisodeEffect DEF Sequential
<1>8. CASE RequestStop
  BY <1>8 DEF RequestStop, Sequential
<1>9. CASE LeaveLoop
  BY <1>9 DEF LeaveLoop, Sequential
<1>10. CASE StreamEpisode
  <2>1. \A i \in 1..Len(outbox') :
            i + 1 \in 1..Len(outbox) /\ outbox'[i] = outbox[i + 1] /\ 1 < i + 1
    BY <1>10, StreamEpisodeEffect DEF Messages
  <2>2. 1 \in 1..Len(outbox)
    BY <1>10, StreamEpisodeEffect DEF Messages
  <2>3. \A i, j \in 1..Len(outbox') : i < j => outbox'[i].last + 1 < outbox'[j].first
    BY <2>1 DEF Sequential
  <2>4. \A j \in 1..Len(outbox') : wire'.last + 1 < outbox'[j].first
    BY <1>10, <2>1, <2>2, StreamEpisodeEffect DEF Sequential
  <2>5. \A i \in 1..Len(received) :
            /\ received[i].last + 1 < wire'.first
            /\ \A j \in 1..Len(outbox') : received[i].last + 1 < outbox'[j].first
    BY <1>10, <2>1, <2>2, StreamEpisodeEffect DEF Sequential
  <2> QED
    BY <1>10, <2>3, <2>4, <2>5, StreamEpisodeEffect DEF Sequential
<1>11. ASSUME NEW call \in Calls, EndStream(call) PROVE Sequential'
  BY <1>11 DEF EndStream, Sequential
<1>12. ASSUME NEW call \in Calls, CancelStream(call) PROVE Sequential'
  BY <1>12 DEF CancelStream, Sequential
<1>13. CASE ReceiveWeights
  BY <1>13 DEF ReceiveWeights, Sequential
<1>14. CASE EndReceiver
  BY <1>14 DEF EndReceiver, Sequential
<1>15. CASE ActorEnds
  BY <1>15 DEF ActorEnds, Sequential, Gone
<1>16. CASE KillActor
  BY <1>16 DEF KillActor, Sequential
<1>17. CASE AddTransition
  <2>1. CASE received[1].first = received[1].last
    <3>1. \A i \in 1..Len(received') :
              i + 1 \in 1..Len(received) /\ received'[i] = received[i + 1]
      BY <1>17, <2>1, AddTransitionEffect DEF Messages
    <3>2. \A i, j \in 1..Len(received') : i < j => i + 1 < j + 1
      BY <1>17, <2>1, AddTransitionEffect DEF Messages
    <3> QED
      BY <1>17, <3>1, <3>2, AddTransitionEffect DEF Sequential
  <2>2. CASE received[1].first # received[1].last
    <3>1. /\ Len(received') = Len(received)
          /\ \A i \in 1..Len(received) : received'[i].last = received[i].last
      BY <1>17, <2>2, AddTransitionEffect DEF Messages
    <3>2. \A i, j \in 1..Len(received) : i < j => received'[j] = received[j]
      BY <1>17, <2>2, AddTransitionEffect DEF Messages
    <3> QED
      BY <1>17, <3>1, <3>2, AddTransitionEffect DEF Sequential
  <2> QED
    BY <2>1, <2>2
<1>18. ASSUME NEW push \in BOOLEAN, Train(push) PROVE Sequential'
  BY <1>18 DEF Train, Sequential
<1>19. CASE UNCHANGED vars
  BY <1>19 DEF Sequential
<1> QED
  BY <1>1, <1>2, <1>3, <1>4, <1>5, <1>6, <1>7, <1>8, <1>9, <1>10,
     <1>11, <1>12, <1>13, <1>14, <1>15, <1>16, <1>17, <1>18, <1>19
  DEF Next, Server, Actor, Learner, Terminated

LEMMA GaplessStep ==
    ASSUME ConfigAssumption, Ranges, Messages, Gone, Gapless, [Next]_vars
    PROVE  Gapless'
<1> USE DEF vars, actorVars, boxVars, callVars, netVars, learnerVars
<1>1. CASE Dispatch
  BY <1>1 DEF Dispatch, Gapless
<1>2. CASE TakeWeights
  BY <1>2 DEF TakeWeights, Gapless
<1>3. CASE ZombieTakes
  BY <1>3 DEF ZombieTakes, Gapless
<1>4. CASE ReceiveEpisode
  BY <1>4, ReceiveEpisodeEffect DEF Gapless
<1>5. CASE StartActor
  BY <1>5 DEF StartActor, Gapless, Gone
<1>6. CASE Step
  BY <1>6 DEF Step, Gapless
<1>7. CASE EndEpisode
  <2> DEFINE n == Len(outbox)
  <2>0. /\ n \in Nat /\ (outbox = <<>> <=> n = 0) /\ outbox' # <<>>
        /\ outbox'[n + 1].first = first /\ outbox'[n + 1].last = now
    BY <1>7, EndEpisodeEffect DEF Messages
  <2>1. ASSUME NEW i \in 1..Len(outbox')
        PROVE  outbox'[i].last + 2 =
                   IF i = Len(outbox') THEN first' ELSE outbox'[i + 1].first
    <3>1. CASE i = n + 1
      BY <1>7, <2>0, <3>1, EndEpisodeEffect DEF Ranges
    <3>2. CASE i = n
      <4>1. i \in 1..n /\ outbox'[i] = outbox[i] /\ outbox[i].last + 2 = first
        BY <1>7, <2>0, <3>2, EndEpisodeEffect DEF Gapless
      <4> QED
        BY <1>7, <2>0, <3>2, <4>1, EndEpisodeEffect
    <3>3. CASE i < n
      <4>1. i \in 1..n /\ i + 1 \in 1..n /\ i # Len(outbox')
        BY <1>7, <2>0, <3>3, EndEpisodeEffect
      <4>2. outbox'[i] = outbox[i] /\ outbox'[i + 1] = outbox[i + 1]
        BY <1>7, <4>1, EndEpisodeEffect
      <4> QED
        BY <3>3, <4>1, <4>2 DEF Gapless
    <3> QED
      BY <1>7, <2>0, <3>1, <3>2, <3>3, EndEpisodeEffect
  <2>2. wire # NoEpisode => wire.last + 2 = outbox'[1].first
    <3>1. CASE n = 0
      BY <1>7, <2>0, <3>1 DEF Gapless
    <3>2. CASE n > 0
      <4>1. outbox'[1] = outbox[1]
        BY <1>7, <2>0, <3>2, EndEpisodeEffect
      <4> QED
        BY <2>0, <3>2, <4>1 DEF Gapless
    <3> QED
      BY <2>0, <3>1, <3>2
  <2> QED
    BY <1>7, <2>0, <2>1, <2>2, EndEpisodeEffect DEF Gapless
<1>8. CASE RequestStop
  BY <1>8 DEF RequestStop, Gapless
<1>9. CASE LeaveLoop
  BY <1>9 DEF LeaveLoop, Gapless
<1>10. CASE StreamEpisode
  <2>1. \A i \in 1..Len(outbox') : outbox'[i].last + 2 =
               IF i = Len(outbox') THEN first' ELSE outbox'[i + 1].first
    <3>1. \A i \in 1..Len(outbox') :
              /\ i + 1 \in 1..Len(outbox) /\ outbox'[i] = outbox[i + 1]
              /\ i = Len(outbox') <=> i + 1 = Len(outbox)
      BY <1>10, StreamEpisodeEffect DEF Messages
    <3>2. \A i \in 1..Len(outbox') : i # Len(outbox') =>
              outbox'[i + 1] = outbox[(i + 1) + 1]
      <4>1. \A i \in 1..Len(outbox') : i # Len(outbox') => i + 1 \in 1..Len(outbox')
        BY <3>1
      <4> QED
        BY <1>10, <4>1, StreamEpisodeEffect
    <3> QED
      BY <1>10, <3>1, <3>2, StreamEpisodeEffect DEF Gapless
  <2>2. wire'.last + 2 = IF Len(outbox) = 1 THEN first ELSE outbox[2].first
    <3>1. 1 \in 1..Len(outbox) /\ 1 + 1 = 2 /\ wire' = outbox[1]
      BY <1>10, StreamEpisodeEffect DEF Messages
    <3>2. outbox[1].last + 2 = IF 1 = Len(outbox) THEN first ELSE outbox[1 + 1].first
      BY <3>1 DEF Gapless
    <3> QED
      BY <3>1, <3>2
  <2>3. outbox' = <<>> <=> Len(outbox) = 1
    <3>1. Len(outbox) \in Nat /\ Len(outbox') = Len(outbox) - 1 /\ outbox' \in Seq(Episode)
      BY <1>10, StreamEpisodeEffect DEF Messages
    <3>2. outbox' = <<>> <=> Len(outbox') = 0
      BY <3>1, EmptySeq, Zenon
    <3> QED
      BY <3>1, <3>2
  <2>4. outbox' # <<>> => outbox'[1] = outbox[2]
    BY <1>10, <2>3, StreamEpisodeEffect DEF Messages
  <2> QED
    BY <1>10, <2>1, <2>2, <2>3, <2>4, StreamEpisodeEffect DEF Gapless
<1>11. ASSUME NEW call \in Calls, EndStream(call) PROVE Gapless'
  BY <1>11 DEF EndStream, Gapless
<1>12. ASSUME NEW call \in Calls, CancelStream(call) PROVE Gapless'
  BY <1>12 DEF CancelStream, Gapless
<1>13. CASE ReceiveWeights
  BY <1>13 DEF ReceiveWeights, Gapless
<1>14. CASE EndReceiver
  BY <1>14 DEF EndReceiver, Gapless
<1>15. CASE ActorEnds
  BY <1>15 DEF ActorEnds, Gapless, Gone
<1>16. CASE KillActor
  BY <1>16 DEF KillActor, Gapless
<1>17. CASE AddTransition
  BY <1>17, AddTransitionEffect DEF Gapless
<1>18. ASSUME NEW push \in BOOLEAN, Train(push) PROVE Gapless'
  BY <1>18 DEF Train, Gapless
<1>19. CASE UNCHANGED vars
  BY <1>19 DEF Gapless
<1> QED
  BY <1>1, <1>2, <1>3, <1>4, <1>5, <1>6, <1>7, <1>8, <1>9, <1>10,
     <1>11, <1>12, <1>13, <1>14, <1>15, <1>16, <1>17, <1>18, <1>19
  DEF Next, Server, Actor, Learner, Terminated

(* The numbers of the messages. *)
LEMMA Numbers ==
    ASSUME Messages
    PROVE  /\ \A i \in 1..Len(received) : received[i].first \in Nat /\ received[i].last \in Nat
           /\ \A i \in 1..Len(outbox) : outbox[i].first \in Nat /\ outbox[i].last \in Nat
           /\ wire # NoEpisode => wire.first \in Nat /\ wire.last \in Nat
           /\ \A i \in 1..Len(replay) : replay[i].state \in Nat
<1>1. \A i \in 1..Len(received) : received[i] \in Episode
  BY DEF Messages
<1>2. \A i \in 1..Len(outbox) : outbox[i] \in Episode
  BY DEF Messages
<1>3. \A i \in 1..Len(replay) : replay[i] \in Transition
  BY DEF Messages
<1> QED
  BY <1>1, <1>2, <1>3 DEF Messages, Episode, Transition

(* A transition that is stored is the newest, and a full buffer loses its oldest. *)
LEMMA StoredEffect ==
    ASSUME ConfigAssumption, Messages, NEW t \in Transition
    PROVE  LET k == IF Len(replay) = Capacity THEN 1 ELSE 0
               n == Len(replay) + 1 - k
           IN  /\ n \in Nat /\ n > 0 /\ Len(Stored(t)) = n /\ Stored(t)[n] = t
               /\ \A i \in 1..(n - 1) :
                      i + k \in 1..Len(replay) /\ Stored(t)[i] = replay[i + k]
<1> DEFINE all == Append(replay, t)
<1>1. /\ replay \in Seq(Transition) /\ Len(replay) \in Nat /\ Len(replay) <= Capacity
      /\ Capacity \in Nat /\ Capacity > 0
  BY DEF Messages, ConfigAssumption
<1>2. /\ all \in Seq(Transition) /\ all # <<>> /\ Len(all) = Len(replay) + 1
      /\ all[Len(replay) + 1] = t
      /\ \A i \in 1..Len(replay) : all[i] = replay[i]
  BY <1>1
<1>3. Stored(t) = IF Len(all) > Capacity THEN Tail(all) ELSE all
  BY DEF Stored
<1> HIDE DEF all
<1>4. Len(Tail(all)) = Len(replay) /\ \A i \in 1..Len(replay) : Tail(all)[i] = all[i + 1]
  BY <1>1, <1>2, HeadTailProperties
<1>5. CASE Len(replay) = Capacity
  <2>1. Stored(t) = Tail(all)
    BY <1>1, <1>2, <1>3, <1>5
  <2>2. Stored(t)[Len(replay)] = t
    BY <1>1, <1>2, <1>4, <1>5, <2>1
  <2>3. \A i \in 1..(Len(replay) - 1) :
            i + 1 \in 1..Len(replay) /\ Stored(t)[i] = replay[i + 1]
    BY <1>1, <1>2, <1>4, <2>1
  <2> QED
    BY <1>1, <1>4, <1>5, <2>1, <2>2, <2>3
<1>6. CASE Len(replay) # Capacity
  <2>1. Stored(t) = all
    BY <1>1, <1>2, <1>3, <1>6
  <2> QED
    BY <1>1, <1>2, <1>6, <2>1
<1> QED
  BY <1>5, <1>6

(* The transition that is added, and where the others are then. *)
LEMMA AddedLast ==
    ASSUME ConfigAssumption, Ranges, Messages, Adds
    PROVE  \E k \in {0, 1}, n \in Nat :
               /\ Len(replay') = n /\ n > 0 /\ n = Len(replay) + 1 - k
               /\ replay'[n].state = received[1].first
               /\ replay'[n].last <=> received[1].first = received[1].last
               /\ \A i \in 1..(n - 1) :
                      i + k \in 1..Len(replay) /\ replay'[i] = replay[i + k]
<1> DEFINE t == [state |-> received[1].first, last |-> received[1].first = received[1].last]
           k == IF Len(replay) = Capacity THEN 1 ELSE 0
           n == Len(replay) + 1 - k
<1>1. t \in Transition /\ t.state = received[1].first
      /\ (t.last <=> received[1].first = received[1].last)
  BY AddTransitionEffect DEF Episode, Transition, Adds
<1>2. replay' = Stored(t)
  BY DEF Adds
<1> HIDE DEF t
<1>3. /\ n \in Nat /\ n > 0 /\ Len(Stored(t)) = n /\ Stored(t)[n] = t
      /\ \A i \in 1..(n - 1) : i + k \in 1..Len(replay) /\ Stored(t)[i] = replay[i + k]
  BY <1>1, StoredEffect
<1>4. k \in {0, 1}
  OBVIOUS
<1>5. n = Len(replay) + 1 - k
  OBVIOUS
<1> HIDE DEF k, n
<1> QED
  BY <1>1, <1>2, <1>3, <1>4, <1>5

LEMMA EarlierStep ==
    ASSUME ConfigAssumption, Ranges, Messages, Gone, Finished, Sequential, Earlier, [Next]_vars
    PROVE  Earlier'
<1> USE DEF vars, actorVars, boxVars, callVars, netVars, learnerVars
<1>1. CASE Dispatch
  BY <1>1 DEF Dispatch, Earlier
<1>2. CASE TakeWeights
  BY <1>2 DEF TakeWeights, Earlier
<1>3. CASE ZombieTakes
  BY <1>3 DEF ZombieTakes, Earlier
<1>4. CASE ReceiveEpisode
  <2>1. \A i \in 1..Len(replay), j \in 1..Len(received') : replay[i].state < received'[j].first
    <3>1. ASSUME NEW i \in 1..Len(replay), NEW j \in 1..Len(received')
          PROVE  replay[i].state < received'[j].first
      <4>1. CASE j = Len(received) + 1
        BY <1>4, <4>1, ReceiveEpisodeEffect DEF Earlier
      <4>2. CASE j # Len(received) + 1
        <5>1. j \in 1..Len(received) /\ received'[j] = received[j]
          BY <1>4, <4>2, ReceiveEpisodeEffect DEF Messages
        <5> QED
          BY <5>1 DEF Earlier
      <4> QED
        BY <4>1, <4>2
    <3> QED
      BY <3>1
  <2> QED
    BY <1>4, <2>1, ReceiveEpisodeEffect DEF Earlier
<1>5. CASE StartActor
  <2>1. wire' = NoEpisode /\ outbox' = <<>> /\ received' = received /\ replay' = replay
    BY <1>5 DEF StartActor, Gone, boxVars, netVars, learnerVars
  <2>2. first' \in Nat /\ first' >= first
    BY <1>5 DEF StartActor, Ranges, Finished
  <2>3. \A i \in 1..Len(replay) : replay[i].state < first'
    BY <2>2, Numbers DEF Earlier, Ranges
  <2> QED
    BY <2>1, <2>3 DEF Earlier
<1>6. CASE Step
  BY <1>6 DEF Step, Earlier
<1>7. CASE EndEpisode
  <2>1. first' \in Nat /\ first' >= first
    BY <1>7, EndEpisodeEffect DEF Ranges, Finished
  <2>2. \A i \in 1..Len(replay) : replay[i].state < first'
    BY <2>1, Numbers DEF Earlier, Ranges
  <2>3. ASSUME NEW i \in 1..Len(replay), NEW j \in 1..Len(outbox')
        PROVE  replay[i].state < outbox'[j].first
    <3>1. CASE j = Len(outbox) + 1
      BY <1>7, <3>1, EndEpisodeEffect DEF Earlier
    <3>2. CASE j # Len(outbox) + 1
      <4>1. j \in 1..Len(outbox) /\ outbox'[j] = outbox[j]
        BY <1>7, <3>2, EndEpisodeEffect DEF Messages
      <4> QED
        BY <4>1 DEF Earlier
    <3> QED
      BY <3>1, <3>2
  <2> QED
    BY <1>7, <2>2, <2>3, EndEpisodeEffect DEF Earlier
<1>8. CASE RequestStop
  BY <1>8 DEF RequestStop, Earlier
<1>9. CASE LeaveLoop
  BY <1>9 DEF LeaveLoop, Earlier
<1>10. CASE StreamEpisode
  <2>1. 1 \in 1..Len(outbox)
    BY <1>10, StreamEpisodeEffect DEF Messages
  <2>2. \A i \in 1..Len(outbox') : i + 1 \in 1..Len(outbox) /\ outbox'[i] = outbox[i + 1]
    BY <1>10, StreamEpisodeEffect DEF Messages
  <2> QED
    BY <1>10, <2>1, <2>2, StreamEpisodeEffect DEF Earlier
<1>11. ASSUME NEW call \in Calls, EndStream(call) PROVE Earlier'
  BY <1>11 DEF EndStream, Earlier
<1>12. ASSUME NEW call \in Calls, CancelStream(call) PROVE Earlier'
  BY <1>12 DEF CancelStream, Earlier
<1>13. CASE ReceiveWeights
  BY <1>13 DEF ReceiveWeights, Earlier
<1>14. CASE EndReceiver
  BY <1>14 DEF EndReceiver, Earlier
<1>15. CASE ActorEnds
  BY <1>15 DEF ActorEnds, Earlier, Gone
<1>16. CASE KillActor
  BY <1>16 DEF KillActor, Earlier
<1>17. CASE Adds
  <2> USE DEF Adds
  <2> DEFINE s == received[1].first
  <2>1. PICK k \in {0, 1}, n \in Nat :
               /\ Len(replay') = n /\ n > 0 /\ n = Len(replay) + 1 - k
               /\ replay'[n].state = s
               /\ replay'[n].last <=> received[1].first = received[1].last
               /\ \A i \in 1..(n - 1) :
                      i + k \in 1..Len(replay) /\ replay'[i] = replay[i + k]
    BY <1>17, AddedLast
  <2>2. 1 \in 1..Len(received) /\ s \in Nat /\ received[1].last \in Nat /\ s <= received[1].last
    BY <1>17, AddTransitionEffect DEF Messages, Finished, Over, Episode
  <2>3. \A i \in 1..Len(replay) : replay[i].state \in Nat /\ replay[i].state < s
    BY <2>2, Numbers DEF Earlier
  <2>4. \A i \in 1..n : replay'[i].state \in Nat /\ replay'[i].state <= s
    <3>1. ASSUME NEW i \in 1..n PROVE replay'[i].state \in Nat /\ replay'[i].state <= s
      <4>1. CASE i = n
        BY <2>1, <2>2, <4>1
      <4>2. CASE i # n
        <5>1. i \in 1..(n - 1)
          BY <4>2
        <5>2. i + k \in 1..Len(replay) /\ replay'[i] = replay[i + k]
          BY <2>1, <5>1
        <5>3. replay[i + k].state \in Nat /\ replay[i + k].state < s
          BY <2>3, <5>2
        <5> QED
          BY <2>2, <5>2, <5>3
      <4> QED
        BY <4>1, <4>2
    <3> QED
      BY <3>1
  <2>5. s < first
    BY <2>2 DEF Finished, Over, Ranges
  <2>6. \A j \in 1..Len(outbox) : outbox[j].first \in Nat /\ s < outbox[j].first
    <3>1. \A j \in 1..Len(outbox) : outbox[j].first \in Nat
      BY Numbers
    <3>2. \A j \in 1..Len(outbox) : received[1].last + 1 < outbox[j].first
      BY <2>2 DEF Sequential
    <3> QED
      BY <2>2, <3>1, <3>2
  <2>7. wire # NoEpisode => wire.first \in Nat /\ s < wire.first
    BY <2>2, Numbers DEF Sequential
  <2>8. \A j \in 2..Len(received) : received[j].first \in Nat /\ s < received[j].first
    <3>1. \A j \in 2..Len(received) : j \in 1..Len(received) /\ 1 < j
      BY <2>2 DEF Messages
    <3>2. \A j \in 2..Len(received) : received[j].first \in Nat
      BY <3>1, Numbers
    <3>3. \A j \in 2..Len(received) : received[1].last + 1 < received[j].first
      BY <2>2, <3>1 DEF Sequential
    <3> QED
      BY <2>2, <3>2, <3>3
  <2>9. \A j \in 1..Len(received') : received'[j].first \in Nat /\ s < received'[j].first
    <3>1. CASE received[1].first = received[1].last
      <4>1. \A j \in 1..Len(received') :
                j + 1 \in 2..Len(received) /\ received'[j] = received[j + 1]
        BY <1>17, <3>1, AddTransitionEffect DEF Messages
      <4> QED
        BY <2>8, <4>1
    <3>2. CASE received[1].first # received[1].last
      BY <1>17, <2>2, <2>8, <3>2, AddTransitionEffect DEF Messages
    <3> QED
      BY <3>1, <3>2
  <2>10. \A i, j \in 1..n : i < j => replay'[i].state < replay'[j].state
    <3>1. ASSUME NEW i \in 1..n, NEW j \in 1..n, i < j
          PROVE  replay'[i].state < replay'[j].state
      <4>1. i + k \in 1..Len(replay) /\ replay'[i] = replay[i + k]
        <5>1. i \in 1..(n - 1)
          BY <3>1
        <5> QED
          BY <2>1, <5>1
      <4>2. CASE j = n
        BY <2>1, <2>3, <4>1, <4>2
      <4>3. CASE j # n
        <5>1. j + k \in 1..Len(replay) /\ replay'[j] = replay[j + k] /\ i + k < j + k
          <6>1. j \in 1..(n - 1)
            BY <4>3
          <6> QED
            BY <2>1, <3>1, <6>1
        <5> QED
          BY <4>1, <5>1 DEF Earlier
      <4> QED
        BY <4>2, <4>3
    <3> QED
      BY <3>1
  <2> HIDE DEF s
  <2>11. \A i \in 1..n :
            /\ replay'[i].state < first
            /\ wire # NoEpisode => replay'[i].state < wire.first
            /\ \A j \in 1..Len(received') : replay'[i].state < received'[j].first
            /\ \A j \in 1..Len(outbox) : replay'[i].state < outbox[j].first
    BY <2>2, <2>4, <2>5, <2>6, <2>7, <2>9 DEF Ranges
  <2> QED
    BY <1>17, <2>1, <2>10, <2>11, AddTransitionEffect DEF Earlier
<1>20. CASE Skips
  <2> DEFINE s == received[1].first
  <2>1. AddTransition /\ replay' = replay
    BY <1>20 DEF Skips
  <2>2. 1 \in 1..Len(received) /\ s \in Nat
    BY <2>1, AddTransitionEffect DEF Messages, Episode
  <2>3. \A i \in 1..Len(replay) : replay[i].state \in Nat /\ replay[i].state < s
    BY <2>2, Numbers DEF Earlier
  <2>4. \A i \in 1..Len(replay), j \in 1..Len(received') :
            replay[i].state < received'[j].first
    <3>1. CASE received[1].first = received[1].last
      <4>1. \A j \in 1..Len(received') :
                j + 1 \in 1..Len(received) /\ received'[j] = received[j + 1]
        BY <2>1, <3>1, AddTransitionEffect DEF Messages
      <4> QED
        BY <4>1 DEF Earlier
    <3>2. CASE received[1].first # received[1].last
      <4>1. ASSUME NEW j \in 1..Len(received')
            PROVE  \/ j = 1 /\ received'[j].first = s + 1
                   \/ j \in 1..Len(received) /\ received'[j] = received[j]
        BY <2>1, <3>2, AddTransitionEffect DEF Messages
      <4> QED
        BY <2>2, <2>3, <4>1 DEF Earlier
    <3> QED
      BY <3>1, <3>2
  <2> QED
    BY <2>1, <2>4, AddTransitionEffect DEF Earlier
<1>21. AddTransition => Adds \/ Skips
  BY AddsOrSkips
<1>18. ASSUME NEW push \in BOOLEAN, Train(push) PROVE Earlier'
  BY <1>18 DEF Train, Earlier
<1>19. CASE UNCHANGED vars
  BY <1>19 DEF Earlier
<1> QED
  BY <1>1, <1>2, <1>3, <1>4, <1>5, <1>6, <1>7, <1>8, <1>9, <1>10,
     <1>11, <1>12, <1>13, <1>14, <1>15, <1>16, <1>17, <1>18, <1>19, <1>20, <1>21
  DEF Next, Server, Actor, Learner, Terminated

LEMMA FollowedStep ==
    ASSUME ConfigAssumption, Ranges, Messages, Followed, [Next]_vars
    PROVE  Followed'
<1> USE DEF vars, actorVars, boxVars, callVars, netVars, learnerVars
<1>1. CASE Dispatch
  BY <1>1 DEF Dispatch, Followed
<1>2. CASE TakeWeights
  BY <1>2 DEF TakeWeights, Followed
<1>3. CASE ZombieTakes
  BY <1>3 DEF ZombieTakes, Followed
<1>4. CASE ReceiveEpisode
  <2>1. received # <<>> => received' # <<>> /\ received'[1] = received[1]
    BY <1>4, ReceiveEpisodeEffect DEF Messages
  <2> QED
    BY <1>4, <2>1, ReceiveEpisodeEffect DEF Followed, ReceiveEpisode
<1>5. CASE StartActor
  BY <1>5 DEF StartActor, Followed
<1>6. CASE Step
  BY <1>6 DEF Step, Followed
<1>7. CASE EndEpisode
  BY <1>7 DEF EndEpisode, Followed
<1>8. CASE RequestStop
  BY <1>8 DEF RequestStop, Followed
<1>9. CASE LeaveLoop
  BY <1>9 DEF LeaveLoop, Followed
<1>10. CASE StreamEpisode
  BY <1>10 DEF StreamEpisode, Followed
<1>11. ASSUME NEW call \in Calls, EndStream(call) PROVE Followed'
  BY <1>11 DEF EndStream, Followed
<1>12. ASSUME NEW call \in Calls, CancelStream(call) PROVE Followed'
  BY <1>12 DEF CancelStream, Followed
<1>13. CASE ReceiveWeights
  BY <1>13 DEF ReceiveWeights, Followed
<1>14. CASE EndReceiver
  BY <1>14 DEF EndReceiver, Followed
<1>15. CASE ActorEnds
  BY <1>15 DEF ActorEnds, Followed
<1>16. CASE KillActor
  BY <1>16 DEF KillActor, Followed
<1>17. CASE Adds
  <2> USE DEF Adds
  <2>1. PICK k \in {0, 1}, n \in Nat :
               /\ Len(replay') = n /\ n > 0 /\ n = Len(replay) + 1 - k
               /\ replay'[n].state = received[1].first
               /\ replay'[n].last <=> received[1].first = received[1].last
               /\ \A i \in 1..(n - 1) :
                      i + k \in 1..Len(replay) /\ replay'[i] = replay[i + k]
    BY <1>17, AddedLast
  <2>2. ASSUME NEW i \in 1..(n - 1)
        PROVE  \/ replay'[i].last
               \/ replay'[i + 1].state = replay'[i].state + 1
               \/ replay'[i].state + 1 \in skipped
    <3>1. i + k \in 1..Len(replay) /\ replay'[i] = replay[i + k]
      BY <2>1
    <3>2. CASE i = n - 1
      <4>1. i + k = Len(replay) /\ i + 1 = n /\ replay # <<>>
        BY <2>1, <3>1, <3>2 DEF Messages
      <4> QED
        BY <2>1, <3>1, <4>1 DEF Followed
    <3>3. CASE i # n - 1
      <4>1. /\ i + 1 \in 1..(n - 1) /\ i + k \in 1..(Len(replay) - 1)
            /\ (i + 1) + k = (i + k) + 1
        BY <2>1, <3>1, <3>3
      <4>2. replay'[i + 1] = replay[(i + k) + 1]
        BY <2>1, <4>1
      <4> QED
        BY <3>1, <4>1, <4>2 DEF Followed
    <3> QED
      BY <3>2, <3>3
  <2>3. \/ replay'[n].last
        \/ received' # <<>> /\ received'[1].first = replay'[n].state + 1
    BY <1>17, <2>1, AddTransitionEffect
  <2>4. skipped' = skipped
    BY <1>17
  <2> QED
    BY <2>1, <2>2, <2>3, <2>4 DEF Followed
<1>20. CASE Skips
  <2>1. AddTransition /\ replay' = replay /\ skipped' = skipped \union {received[1].first}
    BY <1>20 DEF Skips
  <2>2. received # <<>>
    BY <2>1 DEF AddTransition
  <2>3. replay # <<>> => \/ replay[Len(replay)].last
                         \/ replay[Len(replay)].state + 1 \in skipped'
    BY <2>1, <2>2 DEF Followed
  <2> QED
    BY <2>1, <2>3 DEF Followed
<1>21. AddTransition => Adds \/ Skips
  BY AddsOrSkips
<1>18. ASSUME NEW push \in BOOLEAN, Train(push) PROVE Followed'
  BY <1>18 DEF Train, Followed
<1>19. CASE UNCHANGED vars
  BY <1>19 DEF Followed
<1> QED
  BY <1>1, <1>2, <1>3, <1>4, <1>5, <1>6, <1>7, <1>8, <1>9, <1>10,
     <1>11, <1>12, <1>13, <1>14, <1>15, <1>16, <1>17, <1>18, <1>19, <1>20, <1>21
  DEF Next, Server, Actor, Learner, Terminated

-----------------------------------------------------------------------------
LEMMA TypeInvariant == Spec => []TypeInv
<1>1. Init => TypeInv
  <2>1. Cardinality({}) = 0
    BY FS_EmptySet
  <2>2. Init => Ranges
    BY ConfigAssumption DEF Init, Ranges, ConfigAssumption
  <2>5. Init => Places
    BY Zenon DEF Init, Places
  <2>4. Init => Messages
    BY ConfigAssumption DEF Init, Messages, ConfigAssumption
  <2>3. Init => Pool
    BY <2>1, ConfigAssumption DEF Init, Pool, Calls, ConfigAssumption, None
  <2> QED
    BY <2>2, <2>3, <2>4, <2>5 DEF TypeInv
<1>2. TypeInv /\ [Next]_vars => TypeInv'
  BY ConfigAssumption, RangesStep, MessagesStep, PoolStep, PlacesStep DEF TypeInv
<1> QED
  BY <1>1, <1>2, PTL DEF Spec

(* Every variable keeps its type, the pool is never exceeded by the handlers   *)
(* of all the actors there were, and the buffer never outgrows its capacity.   *)
THEOREM TypeCorrect == Spec => []TypeOK
<1>1. TypeInv => TypeOK
  BY DEF TypeInv, Ranges, Messages, Pool, Places, TypeOK
<1> QED
  BY <1>1, TypeInvariant, PTL

LEMMA OrderInvariant == Spec => []OrderInv
<1>1. Init => OrderInv
  BY DEF Init, OrderInv, Gone, Finished, Sequential, Gapless, Earlier
<1>2. TypeInv /\ OrderInv /\ [Next]_vars => OrderInv'
  BY ConfigAssumption, GoneStep, FinishedStep, SequentialStep, GaplessStep, EarlierStep
  DEF TypeInv, OrderInv
<1> QED
  BY <1>1, <1>2, TypeInvariant, PTL DEF Spec

(* The pipeline, element by element. *)
LEMMA PipelineElements ==
    ASSUME Messages
    PROVE  LET r == Len(received)
               w == IF wire = NoEpisode THEN 0 ELSE 1
           IN  /\ Len(Pipeline) = r + w + Len(outbox)
               /\ \A i \in 1..Len(Pipeline) : Pipeline[i] =
                      IF i <= r THEN received[i]
                      ELSE IF i <= r + w THEN wire ELSE outbox[i - r - w]
<1> DEFINE m == IF wire = NoEpisode THEN <<>> ELSE <<wire>>
           w == IF wire = NoEpisode THEN 0 ELSE 1
<1>1. /\ received \in Seq(Episode) /\ outbox \in Seq(Episode)
      /\ m \in Seq(Episode) /\ Len(m) = w /\ (w = 1 => m[1] = wire) /\ w \in {0, 1}
  BY DEF Messages
<1>2. Pipeline = (received \o m) \o outbox
  BY DEF Pipeline
<1> HIDE DEF m, w
<1>3. /\ received \o m \in Seq(Episode) /\ Len(received \o m) = Len(received) + w
      /\ \A i \in 1..Len(received) + w : (received \o m)[i] =
             IF i <= Len(received) THEN received[i] ELSE m[i - Len(received)]
  BY <1>1, ConcatProperties
<1>4. /\ Len(Pipeline) = Len(received) + w + Len(outbox)
      /\ \A i \in 1..Len(received) + w + Len(outbox) : Pipeline[i] =
             IF i <= Len(received) + w THEN (received \o m)[i]
             ELSE outbox[i - (Len(received) + w)]
  <2> DEFINE c == received \o m
  <2>1. c \in Seq(Episode) /\ Len(c) = Len(received) + w
    BY <1>3
  <2> HIDE DEF c
  <2>2. /\ Len(c \o outbox) = Len(c) + Len(outbox)
        /\ \A i \in 1..Len(c) + Len(outbox) : (c \o outbox)[i] =
               IF i <= Len(c) THEN c[i] ELSE outbox[i - Len(c)]
    <3>1. outbox \in Seq(Episode)
      BY <1>1
    <3> QED
      BY <2>1, <3>1, ConcatProperties, Zenon
  <2> QED
    BY <1>2, <2>1, <2>2 DEF c
<1>5. \A i \in 1..Len(Pipeline) : Pipeline[i] =
             IF i <= Len(received) THEN received[i]
             ELSE IF i <= Len(received) + w THEN wire ELSE outbox[i - Len(received) - w]
  <2> TAKE i \in 1..Len(Pipeline)
  <2>1. CASE i <= Len(received)
    BY <1>1, <1>3, <1>4, <2>1
  <2>2. CASE i > Len(received) /\ i <= Len(received) + w
    <3>1. w = 1 /\ i = Len(received) + 1
      BY <1>1, <2>2
    <3> QED
      BY <1>1, <1>3, <1>4, <3>1
  <2>3. CASE i > Len(received) + w
    BY <1>1, <1>4, <2>3
  <2> QED
    BY <1>1, <1>4, <2>1, <2>2, <2>3
<1> QED
  BY <1>4, <1>5 DEF w

(* What the learner stores is what the robots did, in that order, nothing twice  *)
(* and nothing of one actor left out on the way, whoever is stopped or killed.   *)
THEOREM PipelineInOrder == Spec => []InOrder
<1>1. ASSUME TypeInv, OrderInv PROVE InOrder
  <2> DEFINE r == Len(received)
             w == IF wire = NoEpisode THEN 0 ELSE 1
             p == Pipeline
  <2>1. /\ Len(p) = r + w + Len(outbox) /\ r \in Nat /\ w \in {0, 1} /\ Len(outbox) \in Nat
        /\ (w = 1 <=> wire # NoEpisode)
    BY <1>1, PipelineElements DEF TypeInv, Messages
  <2>2. \A i \in 1..Len(p) : p[i] =
            IF i <= r THEN received[i]
            ELSE IF i <= r + w THEN wire ELSE outbox[i - r - w]
    BY <1>1, PipelineElements DEF TypeInv
  <2> HIDE DEF r, w, p
  <2>3. ASSUME NEW i \in 1..Len(p)
        PROVE  \/ i \in 1..r /\ p[i] = received[i]
               \/ w = 1 /\ i = r + 1 /\ p[i] = wire /\ wire # NoEpisode
               \/ i - r - w \in 1..Len(outbox) /\ i > r + w /\ p[i] = outbox[i - r - w]
    BY <2>1, <2>2
  <2>4. \A i \in 1..Len(p) : p[i].first <= p[i].last /\ p[i].last + 1 < first
    BY <1>1, <2>3 DEF OrderInv, Finished, Over, r
  <2>5. ASSUME NEW i \in 1..Len(p), NEW j \in 1..Len(p), i < j
        PROVE  p[i].last + 1 < p[j].first
    <3>1. CASE i \in 1..r /\ p[i] = received[i]
      <4>1. CASE j \in 1..r /\ p[j] = received[j]
        BY <1>1, <2>5, <3>1, <4>1 DEF OrderInv, Sequential, r
      <4>2. CASE p[j] = wire /\ wire # NoEpisode
        BY <1>1, <3>1, <4>2 DEF OrderInv, Sequential, r
      <4>3. CASE j - r - w \in 1..Len(outbox) /\ p[j] = outbox[j - r - w]
        BY <1>1, <3>1, <4>3 DEF OrderInv, Sequential, r
      <4> QED
        BY <2>3, <4>1, <4>2, <4>3
    <3>2. CASE w = 1 /\ i = r + 1 /\ p[i] = wire /\ wire # NoEpisode
      <4>1. j - r - w \in 1..Len(outbox) /\ p[j] = outbox[j - r - w]
        BY <2>1, <2>3, <2>5, <3>2
      <4> QED
        BY <1>1, <3>2, <4>1 DEF OrderInv, Sequential
    <3>3. CASE i - r - w \in 1..Len(outbox) /\ i > r + w /\ p[i] = outbox[i - r - w]
      <4>1. /\ j - r - w \in 1..Len(outbox) /\ p[j] = outbox[j - r - w]
            /\ i - r - w < j - r - w
        BY <2>1, <2>3, <2>5, <3>3
      <4> QED
        BY <1>1, <3>3, <4>1 DEF OrderInv, Sequential
    <3> QED
      BY <2>3, <3>1, <3>2, <3>3
  <2>6. ASSUME NEW i \in r + 1..Len(p)
        PROVE  p[i].last + 2 = IF i = Len(p) THEN first ELSE p[i + 1].first
    <3>0. i \in 1..Len(p)
      BY <2>1
    <3>1. CASE w = 1 /\ i = r + 1 /\ p[i] = wire /\ wire # NoEpisode
      <4>1. outbox = <<>> <=> i = Len(p)
        BY <1>1, <2>1, <3>1 DEF TypeInv, Messages
      <4>2. i # Len(p) => p[i + 1] = outbox[1]
        BY <2>1, <2>2, <3>0, <3>1
      <4> QED
        BY <1>1, <3>1, <4>1, <4>2 DEF OrderInv, Gapless
    <3>2. CASE i - r - w \in 1..Len(outbox) /\ i > r + w /\ p[i] = outbox[i - r - w]
      <4>1. i - r - w = Len(outbox) <=> i = Len(p)
        BY <2>1, <3>0
      <4>2. i # Len(p) => p[i + 1] = outbox[(i - r - w) + 1]
        BY <2>1, <2>2, <3>0, <3>2
      <4> QED
        BY <1>1, <3>2, <4>1, <4>2 DEF OrderInv, Gapless
    <3> QED
      BY <2>1, <2>3, <3>0, <3>1, <3>2
  <2>7. \A i \in 1..Len(replay), j \in 1..Len(p) : replay[i].state < p[j].first
    BY <1>1, <2>3 DEF OrderInv, Earlier, r
  <2> QED
    BY <1>1, <2>4, <2>5, <2>6, <2>7 DEF InOrder, OrderInv, Earlier, r, p
<1> QED
  BY <1>1, TypeInvariant, OrderInvariant, PTL

(* The learner trains on the state that really followed, but where the          *)
(* transition that followed was left out for a NaN, and for the newest of a full *)
(* buffer while its episode is still being stored.                               *)
THEOREM SamplesSound == Spec => []NextStateSound
<1>1. Init => Followed
  BY DEF Init, Followed
<1>2. TypeInv /\ Followed /\ [Next]_vars => Followed'
  BY ConfigAssumption, FollowedStep DEF TypeInv
<1>3. ASSUME TypeInv, Followed PROVE NextStateSound
  <2>1. SUFFICES ASSUME NEW i \in Sampled
                 PROVE  \/ replay[i].last
                        \/ NextState(i) = replay[i].state + 1
                        \/ /\ i = Capacity /\ received # <<>>
                           /\ received[1].first = replay[i].state + 1
                        \/ replay[i].state + 1 \in skipped
    BY DEF NextStateSound, Derived
  <2>2. Len(replay) \in Nat /\ Len(replay) <= Capacity /\ Capacity \in Nat
    BY <1>3, ConfigAssumption DEF TypeInv, Messages, ConfigAssumption
  <2>3. i \in 1..Len(replay) /\ (i = Len(replay) => i = Capacity)
    BY <2>2 DEF Sampled
  <2>4. CASE i < Len(replay)
    <3>1. i % Len(replay) = i
      BY <2>2, <2>3, <2>4
    <3>2. NextState(i) = replay[i + 1].state
      BY <3>1 DEF NextState
    <3> QED
      BY <1>3, <2>2, <2>3, <2>4, <3>2 DEF Followed
  <2>5. CASE i = Len(replay)
    BY <1>3, <2>2, <2>3, <2>5 DEF Followed, TypeInv, Messages
  <2> QED
    BY <2>2, <2>3, <2>4, <2>5
<1> QED
  BY <1>1, <1>2, <1>3, TypeInvariant, PTL DEF Spec
-----------------------------------------------------------------------------
(* What is left of the queue is each call once, and not the one cancelled. *)
LEMMA WithoutCall ==
    ASSUME NEW call, Pool, Served
    PROVE  /\ \A i \in 1..Len(Without(call)) : Without(call)[i] \in (live \ {call}) \ running
           /\ \A i, j \in 1..Len(Without(call)) :
                  i # j => Without(call)[i] # Without(call)[j]
<1>0. queued \in Seq(Calls) /\ Len(queued) \in Nat
  BY DEF Pool
<1>1. CASE \E i \in 1..Len(queued) : queued[i] = call
  <2> DEFINE n == CHOOSE i \in 1..Len(queued) : queued[i] = call
             s == SubSeq(queued, 1, n - 1)
             t == SubSeq(queued, n + 1, Len(queued))
             place(i) == IF i < n THEN i ELSE i + 1
  <2>1. n \in 1..Len(queued) /\ queued[n] = call
    BY <1>1
  <2>2. Without(call) = s \o t
    BY <1>1 DEF Without
  <2> HIDE DEF n
  <2>3. /\ s \in Seq(Calls) /\ Len(s) = n - 1
        /\ \A i \in 1..(n - 1) : s[i] = queued[i]
    <3>1. \A j \in 1..(n - 1) : queued[j] \in Calls
      BY <1>0, <2>1
    <3>2. /\ s \in Seq(Calls)
          /\ Len(s) = IF 1 <= n - 1 THEN (n - 1) - 1 + 1 ELSE 0
          /\ \A i \in 1..((n - 1) - 1 + 1) : s[i] = queued[1 + i - 1]
      BY <1>0, <2>1, <3>1, SubSeqProperties
    <3>3. \A i \in 1..(n - 1) : i \in 1..((n - 1) - 1 + 1) /\ 1 + i - 1 = i
      BY <1>0, <2>1
    <3> QED
      BY <1>0, <2>1, <3>2, <3>3
  <2>4. /\ t \in Seq(Calls) /\ Len(t) = Len(queued) - n
        /\ \A i \in 1..(Len(queued) - n) : t[i] = queued[n + i]
    <3>1. \A j \in (n + 1)..Len(queued) : queued[j] \in Calls
      BY <1>0, <2>1
    <3>2. /\ t \in Seq(Calls)
          /\ Len(t) = IF n + 1 <= Len(queued) THEN Len(queued) - (n + 1) + 1 ELSE 0
          /\ \A i \in 1..(Len(queued) - (n + 1) + 1) : t[i] = queued[(n + 1) + i - 1]
      BY <1>0, <2>1, <3>1, SubSeqProperties
    <3>3. \A i \in 1..(Len(queued) - n) :
             i \in 1..(Len(queued) - (n + 1) + 1) /\ (n + 1) + i - 1 = n + i
      BY <1>0, <2>1
    <3> QED
      BY <1>0, <2>1, <3>2, <3>3
  <2> HIDE DEF s, t
  <2>5. Len(s \o t) = Len(queued) - 1
    BY <1>0, <2>1, <2>3, <2>4, ConcatProperties
  <2>6. ASSUME NEW i \in 1..Len(s \o t)
        PROVE  /\ place(i) \in 1..Len(queued) /\ place(i) # n
               /\ (s \o t)[i] = queued[place(i)]
    <3>1. (s \o t)[i] = IF i <= Len(s) THEN s[i] ELSE t[i - Len(s)]
      BY <2>3, <2>4, ConcatProperties
    <3>2. CASE i < n
      BY <1>0, <2>1, <2>3, <2>5, <3>1, <3>2
    <3>3. CASE ~(i < n)
      <4>1. i - Len(s) \in 1..(Len(queued) - n) /\ n + (i - Len(s)) = i + 1 /\ ~(i <= Len(s))
        BY <1>0, <2>1, <2>3, <2>5, <3>3
      <4>2. t[i - Len(s)] = queued[i + 1]
        BY <2>4, <4>1
      <4> QED
        BY <1>0, <2>1, <2>5, <3>1, <3>3, <4>1, <4>2
    <3> QED
      BY <3>2, <3>3
  <2>7. ASSUME NEW i \in 1..Len(s \o t)
        PROVE  (s \o t)[i] \in (live \ {call}) \ running
    <3>1. queued[place(i)] \in live \ running /\ queued[place(i)] # queued[n]
      BY <2>1, <2>6 DEF Served
    <3> QED
      BY <2>1, <2>6, <3>1
  <2>8. ASSUME NEW i \in 1..Len(s \o t), NEW j \in 1..Len(s \o t), i # j
        PROVE  (s \o t)[i] # (s \o t)[j]
    <3>1. place(i) # place(j)
      BY <2>1, <2>5, <2>8
    <3>2. queued[place(i)] # queued[place(j)]
      BY <2>6, <3>1 DEF Served
    <3> QED
      BY <2>6, <3>2
  <2> QED
    BY <2>2, <2>7, <2>8
<1>2. CASE ~\E i \in 1..Len(queued) : queued[i] = call
  BY <1>2 DEF Without, Served
<1> QED
  BY <1>1, <1>2

(* Each step keeps every call in one place. *)
LEMMA ServedStep ==
    ASSUME Pool, Gone, Served, [Next]_vars
    PROVE  Served'
<1> USE DEF vars, actorVars, boxVars, callVars, netVars, learnerVars
<1>0. queued \in Seq(Calls) /\ Len(queued) \in Nat
  BY DEF Pool
<1>1. CASE Dispatch
  <2>1. /\ running' = running \cup {Head(queued)} /\ queued' = Tail(queued) /\ live' = live
        /\ queued # <<>>
    BY <1>1 DEF Dispatch
  <2>2. /\ Head(queued) = queued[1] /\ 1 \in 1..Len(queued)
        /\ Len(Tail(queued)) = Len(queued) - 1
        /\ \A i \in 1..Len(Tail(queued)) : Tail(queued)[i] = queued[i + 1]
    BY <1>0, <2>1
  <2>3. \A i \in 1..Len(Tail(queued)) : i + 1 \in 1..Len(queued) /\ i + 1 # 1
    BY <1>0, <2>2
  <2>4. \A i, j \in 1..Len(Tail(queued)) : i # j => i + 1 # j + 1
    BY <1>0, <2>2
  <2>5. queued[1] \in live \ running
    BY <2>2 DEF Served
  <2>6. ASSUME NEW i \in 1..Len(Tail(queued))
        PROVE  Tail(queued)[i] \in live \ (running \cup {queued[1]})
    BY <2>2, <2>3 DEF Served
  <2>7. ASSUME NEW i \in 1..Len(Tail(queued)), NEW j \in 1..Len(Tail(queued)), i # j
        PROVE  Tail(queued)[i] # Tail(queued)[j]
    BY <2>2, <2>3, <2>4, <2>7 DEF Served
  <2> QED
    BY <2>1, <2>2, <2>5, <2>6, <2>7 DEF Served
<1>2. CASE StartActor
  <2>1. live' = Calls /\ running' = running /\ running = {} /\ queued' \in Arrivals
    BY <1>2 DEF StartActor, Served, Gone
  <2>2. /\ queued' \in [1..3 -> Calls] /\ Len(queued') = 3
        /\ \A i, j \in 1..3 : queued'[i] = queued'[j] => i = j
    BY <2>1 DEF Arrivals
  <2>3. \A i \in 1..3 : queued'[i] \in Calls
    BY <2>2
  <2> QED
    BY <2>1, <2>2, <2>3 DEF Served
<1>3. ASSUME NEW call \in Calls, EndStream(call) PROVE Served'
  <2>1. /\ live' = live \ {call} /\ running' = running \ {call} /\ queued' = queued
        /\ call \in running
    BY <1>3 DEF EndStream
  <2> QED
    BY <2>1 DEF Served
<1>4. ASSUME NEW call \in Calls, CancelStream(call) PROVE Served'
  <2>1. live' = live \ {call} /\ running' = running \ {call} /\ queued' = Without(call)
    BY <1>4 DEF CancelStream
  <2>2. /\ \A i \in 1..Len(queued') : queued'[i] \in (live \ {call}) \ running
        /\ \A i, j \in 1..Len(queued') : i # j => queued'[i] # queued'[j]
    BY <2>1, WithoutCall
  <2> QED
    BY <2>1, <2>2 DEF Served
<1>5. CASE EndReceiver
  <2>1. /\ live' = live \ {"parameters"} /\ running' = running \ {"parameters"}
        /\ queued' = queued /\ "parameters" \in running
    BY <1>5 DEF EndReceiver, Pool
  <2> QED
    BY <2>1 DEF Served
<1>6. CASE KillActor
  <2>1. queued' = <<>> /\ running' = {} /\ Len(<<>>) = 0
    BY <1>6 DEF KillActor
  <2> QED
    BY <2>1 DEF Served
<1>7. CASE UNCHANGED <<live, queued, running>>
  BY <1>7 DEF Served
<1>8. CASE TakeWeights \/ ZombieTakes \/ ReceiveEpisode
  BY <1>7, <1>8 DEF TakeWeights, ZombieTakes, ReceiveEpisode
<1>9. CASE Step \/ EndEpisode \/ RequestStop \/ LeaveLoop \/ StreamEpisode
  BY <1>7, <1>9 DEF Step, EndEpisode, RequestStop, LeaveLoop, StreamEpisode
<1>10. CASE ReceiveWeights \/ ActorEnds
  BY <1>7, <1>10 DEF ReceiveWeights, ActorEnds
<1>11. CASE AddTransition
  BY <1>7, <1>11 DEF AddTransition
<1>12. ASSUME NEW push \in BOOLEAN, Train(push) PROVE Served'
  BY <1>7, <1>12 DEF Train
<1>13. CASE UNCHANGED vars
  BY <1>7, <1>13
<1> QED
  BY <1>1, <1>2, <1>3, <1>4, <1>5, <1>6, <1>8, <1>9, <1>10, <1>11, <1>12, <1>13
  DEF Next, Server, Actor, Learner, Terminated

(* MAX_WORKERS is three for the three calls of an actor, and that is enough but *)
(* for the StreamParameters handlers that actors leave behind: whenever a call  *)
(* waits, or an actor cannot be answered Ready, they hold the other workers.    *)
THEOREM PoolExhausted == Spec => []WorkersSuffice
<1>1. Init => Served
  BY DEF Init, Served
<1>2. TypeInv /\ OrderInv /\ Served /\ [Next]_vars => Served'
  BY ServedStep DEF TypeInv, OrderInv
<1>3. ASSUME TypeInv, OrderInv, Served PROVE WorkersSuffice
  <2>1. /\ zombies \in Nat /\ Workers \in Nat /\ queued \in Seq(Calls)
        /\ running \subseteq Calls /\ Cardinality(running) + zombies <= Workers
    BY <1>3, ConfigAssumption DEF TypeInv, Pool, ConfigAssumption
  <2>2. IsFiniteSet(running) /\ Cardinality(running) \in Nat
    BY <2>1, CallsFinite, FS_Subset, FS_CardinalityType
  <2>3. ASSUME queued # <<>> PROVE Cardinality(running) <= 2
    <3>1. queued[1] \in Calls \ running
      BY <1>3, <2>1, <2>3 DEF Served
    <3>2. PICK c \in Calls : c = queued[1] /\ running \subseteq Calls \ {c}
      BY <2>1, <3>1
    <3>3. IsFiniteSet(Calls \ {c}) /\ Cardinality(Calls \ {c}) = Cardinality(Calls) - 1
      BY CallsFinite, FS_RemoveElement
    <3>4. Cardinality(running) <= Cardinality(Calls \ {c})
      BY <3>2, <3>3, FS_Subset
    <3> QED
      BY <2>2, <3>3, <3>4, ThreeCalls
  <2>4. actor = "off" => Cardinality(running) = 0
    <3>1. actor = "off" => running = {}
      BY <1>3 DEF OrderInv, Gone, Served
    <3> QED
      BY <3>1, FS_EmptySet
  <2> QED
    BY <2>1, <2>2, <2>3, <2>4 DEF WorkersSuffice, FreeWorker
<1> QED
  BY <1>1, <1>2, <1>3, TypeInvariant, OrderInvariant, PTL DEF Spec
=============================================================================
