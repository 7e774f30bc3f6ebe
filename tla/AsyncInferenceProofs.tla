------------------------ MODULE AsyncInferenceProofs ------------------------
(***************************************************************************)
(* Proofs about AsyncInference, for every chunk size, threshold, set of    *)
(* scenes and bound.                                                       *)
(***************************************************************************)
EXTENDS AsyncInference, SequenceTheorems, TLAPS

(* What the hand-over of an observation between the threads rests on. *)
HandOver ==
    /\ sender # "idle" <=> control = "sending"
    /\ sender = "put" => pending = <<>>
    /\ control \in {"send", "sending", "sent"} => obs \in Observation
    /\ predictor[client] # "wait" => receiver = "call"
    /\ \A c \in Clients : predictor[c] # "wait" => taken[c] \in Observation

(* The chunk predicted for an observation is a sequence of timesteps. *)
LEMMA ChunkType ==
  ASSUME NEW o \in Observation
  PROVE  /\ ChunkFor(o) \in Seq(Nat)
         /\ Len(ChunkFor(o)) = ChunkSize
         /\ \A i \in 1..ChunkSize : ChunkFor(o)[i] = o.step + i - 1
<1> DEFINE f == [i \in 1..ChunkSize |-> o.step + i - 1]
<1>1. ChunkSize \in Nat /\ o.step \in Nat
  BY ConfigAssumption DEF ConfigAssumption, Observation
<1>2. \A i \in 1..ChunkSize : o.step + i - 1 \in Nat
  BY <1>1
<1>3. f \in Seq(Nat) /\ Len(f) = ChunkSize
  BY <1>1, <1>2
<1> QED
  BY <1>1, <1>3 DEF ChunkFor

(* What the operations on sequences used by the queues return. *)
LEMMA EmptyType ==
  ASSUME NEW S
  PROVE  <<>> \in Seq(S) /\ Len(<<>>) = 0
  OBVIOUS

LEMMA TailType ==
  ASSUME NEW S, NEW s \in Seq(S), s # <<>>
  PROVE  /\ Head(s) \in S
         /\ Tail(s) \in Seq(S)
         /\ Len(Tail(s)) = Len(s) - 1
         /\ \A i \in 1..Len(Tail(s)) : Tail(s)[i] = s[i + 1]
  OBVIOUS

LEMMA AppendType ==
  ASSUME NEW S, NEW s \in Seq(S), NEW e \in S
  PROVE  /\ Append(s, e) \in Seq(S) /\ Append(s, e) # <<>>
         /\ Len(Append(s, e)) = Len(s) + 1
         /\ \A i \in 1..Len(s) : Append(s, e)[i] = s[i]
         /\ Append(s, e)[Len(s) + 1] = e
  OBVIOUS

THEOREM TypeCorrect == Spec => [](TypeOK /\ HandOver)
<1> USE DEF clientVars, receiverVars, predictorVars, serverVars, mergeHistory,
            tokenHistory, historyVars
<1>1. Init => TypeOK
  <2> SUFFICES ASSUME Init PROVE TypeOK
    OBVIOUS
  <2>1. <<>> \in Seq(Nat) /\ <<>> \in Seq(Observation) /\ Len(<<>>) = 0
    BY EmptyType
  <2>2. 0 \in 0..MaxFaults /\ 1 \in Clients /\ 0 + 1 <= MaxFaults + 1
    BY BoundAssumption DEF BoundAssumption, Clients
  <2>3. latest \in Int /\ popped \in Int /\ chunkSize \in {-1, ChunkSize}
    BY DEF Init
  <2>4. queue \in Seq(Nat) /\ chunk \in Seq(Nat) /\ future \in Seq(Nat)
    BY <2>1 DEF Init
  <2>5. pending \in Seq(Observation) /\ Len(pending) <= 1
    BY <2>1 DEF Init
  <2>6. client \in Clients /\ faults \in 0..MaxFaults /\ faults + client <= MaxFaults + 1
    BY <2>2 DEF Init
  <2> QED
    BY <2>3, <2>4, <2>5, <2>6 DEF Init, TypeOK
<1>2. Init => HandOver
  BY DEF Init, HandOver
<1>3. TypeOK /\ HandOver /\ [Next]_vars => TypeOK'
  <2> SUFFICES ASSUME TypeOK, HandOver, [Next]_vars
               PROVE  TypeOK'
    OBVIOUS
  <2> USE DEF TypeOK, HandOver
  <2>1. CASE CheckActions
    BY <2>1 DEF CheckActions
  <2>2. CASE StopClient
    BY <2>2 DEF StopClient
  <2>3. CASE PopAction
    <3>1. queue # <<>> => Head(queue) \in Nat /\ Tail(queue) \in Seq(Nat)
      BY TailType
    <3>2. CASE queue = <<>>
      BY <2>3, <3>2 DEF PopAction
    <3>3. CASE queue # <<>>
      <4>1. control' = "perform" /\ popped' = Head(queue) /\ queue' = Tail(queue)
        BY <2>3, <3>3 DEF PopAction
      <4>2. popped' \in Int /\ queue' \in Seq(Nat)
        BY <3>1, <3>3, <4>1
      <4> QED
        BY <2>3, <4>1, <4>2 DEF PopAction
    <3> QED
      BY <3>2, <3>3
  <2>4. CASE PerformAction
    BY <2>4 DEF PerformAction
  <2>5. CASE CheckReady
    BY <2>5 DEF CheckReady
  <2>6. CASE MarkObservation
    <3>1. (IF latest > 0 THEN latest ELSE 0) \in Nat
      OBVIOUS
    <3>2. obs' \in Observation
      BY <2>6, <3>1 DEF MarkObservation, Observation
    <3> QED
      BY <2>6, <3>2 DEF MarkObservation
  <2>7. CASE SendObservation
    BY <2>7 DEF SendObservation
  <2>8. CASE ClearMustGo
    BY <2>8 DEF ClearMustGo
  <2>9. CASE FilterObservation
    BY <2>9 DEF FilterObservation
  <2>10. CASE EvictObservation
    <3>1. <<>> \in Seq(Observation) /\ Len(<<>>) = 0
      BY EmptyType
    <3>2. CASE pending = <<>>
      BY <2>10, <3>2 DEF EvictObservation
    <3>3. CASE pending # <<>>
      <4>1. pending' = <<>>
        BY <2>10, <3>3 DEF EvictObservation
      <4>2. pending' \in Seq(Observation) /\ Len(pending') <= 1
        BY <3>1, <4>1
      <4> QED
        BY <2>10, <4>2 DEF EvictObservation
    <3> QED
      BY <3>2, <3>3
  <2>11. CASE PutObservation
    <3>1. [obs EXCEPT !.mustGo = FALSE] \in Observation
      BY <2>11 DEF PutObservation, Observation
    <3> QED
      BY <2>11, <3>1 DEF PutObservation
  <2>12. CASE TakeObservation
    <3>1. Head(pending) \in Observation
      BY <2>12, TailType DEF TakeObservation
    <3> QED
      BY <2>12, <3>1, EmptyType DEF TakeObservation
  <2>13. CASE \E c \in Clients : RecordTimestep(c)
    <3>1. PICK c \in Clients : RecordTimestep(c)
      BY <2>13
    <3>2. taken[c].step \in Nat
      BY <3>1 DEF RecordTimestep, Observation
    <3>3. predicted' \subseteq Nat
      BY <3>1, <3>2 DEF RecordTimestep
    <3>4. predictor' \in [Clients -> {"wait", "record", "preprocess", "infer"}]
      BY <3>1 DEF RecordTimestep
    <3> QED
      BY <3>1, <3>3, <3>4 DEF RecordTimestep
  <2>14. CASE \E c \in Clients : Preprocess(c) \/ FailInVain(c)
    <3>1. PICK c \in Clients : Preprocess(c) \/ FailInVain(c)
      BY <2>14
    <3>2. lastProcessed' \in Scenes \union {NoObs}
      BY <3>1 DEF Preprocess, FailInVain, Observation
    <3>3. /\ predictor' \in [Clients -> {"wait", "record", "preprocess", "infer"}]
          /\ taken' \in [Clients -> Observation \union {NoObs}]
      BY <3>1 DEF Preprocess, FailInVain, EndPrediction
    <3>4. /\ UNCHANGED <<client, clientVars, receiverVars, faults, historyVars>>
          /\ UNCHANGED <<sender, pending, predicted>>
      BY <3>1 DEF Preprocess, FailInVain
    <3> QED
      BY <3>2, <3>3, <3>4
  <2>15. CASE DeliverChunk
    <3>1. taken[client] \in Observation
      BY <2>15 DEF DeliverChunk
    <3>2. chunk' \in Seq(Nat)
      BY <2>15, <3>1, ChunkType DEF DeliverChunk
    <3> QED
      BY <2>15, <3>2 DEF DeliverChunk, EndPrediction
  <2>16. CASE BeginIteration
    BY <2>16 DEF BeginIteration
  <2>17. CASE EndIteration
    <3>1. /\ receiver' \in {"call", "snapshot", "iterate", "select", "grant", "dead"}
          /\ mutated' = FALSE
      BY <2>17 DEF EndIteration
    <3>2. /\ UNCHANGED <<client, control, queue, latest, popped, obs, mustGo>>
          /\ UNCHANGED <<chunkSize, chunk, future, serverVars, faults, historyVars>>
      BY <2>17 DEF EndIteration
    <3> QED
      BY <3>1, <3>2
  <2>18. CASE SelectAction
    BY <2>18, TailType DEF SelectAction
  <2>19. CASE InstallQueue
    BY <2>19, EmptyType DEF InstallQueue
  <2>20. CASE GrantMustGo
    BY <2>20 DEF GrantMustGo
  <2>21. CASE CaptureFails
    BY <2>21, BoundAssumption DEF CaptureFails, CanFail, BoundAssumption, Clients
  <2>22. CASE SendFails
    BY <2>22, BoundAssumption DEF SendFails, CanFail, BoundAssumption, Clients
  <2>23. CASE PredictionFails
    BY <2>23, BoundAssumption DEF PredictionFails, EndPrediction, CanFail, BoundAssumption, Clients
  <2>24. CASE Terminated \/ UNCHANGED vars
    <3>1. UNCHANGED vars
      BY <2>24 DEF Terminated
    <3> QED
      BY <3>1 DEF vars
  <2>25. CASE Restart
    <3>1. client' \in Clients /\ faults' + client' <= MaxFaults + 1
      BY <2>25, BoundAssumption DEF Restart, CanFail, BoundAssumption, Clients
    <3>2. /\ queue' \in Seq(Nat) /\ chunk' \in Seq(Nat) /\ future' \in Seq(Nat)
          /\ pending' \in Seq(Observation) /\ Len(pending') <= 1
      BY <2>25, EmptyType DEF Restart
    <3>3. /\ predictor' \in [Clients -> {"wait", "record", "preprocess", "infer"}]
          /\ taken' \in [Clients -> Observation \union {NoObs}]
      BY <2>25 DEF Restart, EndPrediction
    <3>4. /\ control' = "check" /\ latest' = -1 /\ popped' = -1 /\ obs' = NoObs
          /\ mustGo' = TRUE /\ mutated' = FALSE /\ receiver' = "call" /\ chunkSize' = -1
          /\ predicted' = {} /\ answered' = FALSE /\ tokenRaced' = FALSE
          /\ disturbed' = FALSE /\ overlapped' = FALSE /\ rewinds' = 0
          /\ UNCHANGED <<sender, lastProcessed, faults>>
      BY <2>25 DEF Restart
    <3>5. /\ mustGo' \in BOOLEAN /\ mutated' \in BOOLEAN
          /\ answered' \in BOOLEAN /\ tokenRaced' \in BOOLEAN
          /\ disturbed' \in BOOLEAN /\ overlapped' \in BOOLEAN /\ rewinds' \in Nat
      BY <3>4
    <3>6. /\ latest' \in Int /\ popped' \in Int /\ chunkSize' \in {-1, ChunkSize}
          /\ predicted' \subseteq Nat /\ faults' \in 0..MaxFaults
      BY <3>4
    <3> QED
      BY <3>1, <3>2, <3>3, <3>4, <3>5, <3>6
  <2> QED
    BY <2>1, <2>2, <2>3, <2>4, <2>5, <2>6, <2>7, <2>8, <2>9, <2>10, <2>11,
       <2>12, <2>13, <2>14, <2>15, <2>16, <2>17, <2>18, <2>19, <2>20,
       <2>21, <2>22, <2>23, <2>24, <2>25
       DEF Next, ControlLoop, Sender, Predictor, Receiver, Faults
<1>4. TypeOK /\ HandOver /\ [Next]_vars => HandOver'
  <2> SUFFICES ASSUME TypeOK, HandOver, [Next]_vars
               PROVE  HandOver'
    OBVIOUS
  <2> USE DEF TypeOK, HandOver
  <2>1. CASE CheckActions
    BY <2>1 DEF CheckActions
  <2>2. CASE StopClient
    BY <2>2 DEF StopClient
  <2>3. CASE PopAction
    BY <2>3 DEF PopAction
  <2>4. CASE PerformAction
    BY <2>4 DEF PerformAction
  <2>5. CASE CheckReady
    BY <2>5 DEF CheckReady
  <2>6. CASE MarkObservation
    BY <2>6 DEF MarkObservation, Observation
  <2>7. CASE SendObservation
    BY <2>7 DEF SendObservation
  <2>8. CASE ClearMustGo
    BY <2>8 DEF ClearMustGo
  <2>9. CASE FilterObservation
    BY <2>9 DEF FilterObservation
  <2>10. CASE EvictObservation
    BY <2>10, EmptyType DEF EvictObservation
  <2>11. CASE PutObservation
    BY <2>11 DEF PutObservation
  <2>12. CASE TakeObservation
    <3>1. Head(pending) \in Observation
      BY <2>12, TailType DEF TakeObservation
    <3> QED
      BY <2>12, <3>1 DEF TakeObservation
  <2>13. CASE \E c \in Clients : RecordTimestep(c)
    BY <2>13 DEF RecordTimestep
  <2>14. CASE \E c \in Clients : Preprocess(c) \/ FailInVain(c)
    BY <2>14 DEF Preprocess, FailInVain, EndPrediction
  <2>15. CASE DeliverChunk
    BY <2>15 DEF DeliverChunk, EndPrediction
  <2>16. CASE BeginIteration
    BY <2>16 DEF BeginIteration
  <2>17. CASE EndIteration
    BY <2>17 DEF EndIteration
  <2>18. CASE SelectAction
    BY <2>18 DEF SelectAction
  <2>19. CASE InstallQueue
    BY <2>19 DEF InstallQueue
  <2>20. CASE GrantMustGo
    BY <2>20 DEF GrantMustGo
  <2>21. CASE CaptureFails
    BY <2>21 DEF CaptureFails
  <2>22. CASE SendFails
    BY <2>22 DEF SendFails
  <2>23. CASE PredictionFails
    BY <2>23 DEF PredictionFails, EndPrediction
  <2>24. CASE Terminated \/ UNCHANGED vars
    BY <2>24 DEF Terminated, vars
  <2>25. CASE Restart
    BY <2>25 DEF Restart, EndPrediction
  <2> QED
    BY <2>1, <2>2, <2>3, <2>4, <2>5, <2>6, <2>7, <2>8, <2>9, <2>10, <2>11,
       <2>12, <2>13, <2>14, <2>15, <2>16, <2>17, <2>18, <2>19, <2>20,
       <2>21, <2>22, <2>23, <2>24, <2>25
       DEF Next, ControlLoop, Sender, Predictor, Receiver, Faults
<1> QED
  BY <1>1, <1>2, <1>3, <1>4, PTL DEF Spec
-----------------------------------------------------------------------------
(* The must-go token.  While an observation that took the token is being     *)
(* handed over, either something will answer or a set() has already come.    *)
TokenInv ==
    faults = 0 /\ ~tokenRaced /\ receiver # "dead" =>
        /\ mustGo \/ AnswerPending
        /\ (control = "sent" \/ sender = "evict") /\ obs.mustGo =>
               AnswerPending \/ answered

LEMMA TokenStep ==
  TypeOK /\ HandOver /\ TokenInv /\ [Next]_vars => TokenInv'
<1> SUFFICES ASSUME TypeOK, HandOver, TokenInv, [Next]_vars,
                    faults' = 0, ~tokenRaced', receiver' # "dead"
             PROVE  /\ mustGo' \/ AnswerPending'
                    /\ (control' = "sent" \/ sender' = "evict") /\ obs'.mustGo =>
                           AnswerPending' \/ answered'
  BY DEF TokenInv
<1> USE DEF TypeOK, HandOver, TokenInv, AnswerPending, clientVars, receiverVars,
            predictorVars, serverVars, mergeHistory, tokenHistory, historyVars
<1>1. CASE CheckActions
  BY <1>1 DEF CheckActions
<1>2. CASE StopClient
  BY <1>2 DEF StopClient
<1>3. CASE PopAction
  BY <1>3 DEF PopAction
<1>4. CASE PerformAction
  BY <1>4 DEF PerformAction
<1>5. CASE CheckReady
  BY <1>5 DEF CheckReady
<1>6. CASE MarkObservation
  BY <1>6 DEF MarkObservation, Observation
<1>7. CASE SendObservation
  BY <1>7 DEF SendObservation
<1>8. CASE ClearMustGo
  BY <1>8 DEF ClearMustGo, Observation
<1>9. CASE FilterObservation
  BY <1>9 DEF FilterObservation, Accepted
<1>10. CASE EvictObservation
  BY <1>10 DEF EvictObservation
<1>11. CASE PutObservation
  <2> DEFINE o == [obs EXCEPT !.mustGo = FALSE]
  <2>1. pending' = Append(pending, o) /\ o \in Observation
    BY <1>11 DEF PutObservation, Observation
  <2>2. pending' # <<>>
    BY <2>1, AppendType
  <2> QED
    BY <1>11, <2>2 DEF PutObservation
<1>12. CASE TakeObservation
  BY <1>12 DEF TakeObservation
<1>13. CASE \E c \in Clients : RecordTimestep(c)
  BY <1>13 DEF RecordTimestep
<1>14. CASE \E c \in Clients : Preprocess(c) \/ FailInVain(c)
  <2>1. PICK c \in Clients : Preprocess(c) \/ FailInVain(c)
    BY <1>14
  <2>2. predictor[client] # "wait" => predictor'[client] # "wait"
    <3>1. c \in Int /\ client \in Int /\ client \in Clients
      BY BoundAssumption DEF Clients, BoundAssumption
    <3>2. predictor \in [Clients -> {"wait", "record", "preprocess", "infer"}]
      OBVIOUS
    <3> QED
      BY <2>1, <3>1, <3>2 DEF Preprocess, FailInVain, EndPrediction
  <2>3. UNCHANGED <<client, clientVars, receiverVars, faults, historyVars, sender, pending>>
    BY <2>1 DEF Preprocess, FailInVain
  <2> QED
    BY <2>2, <2>3
<1>15. CASE DeliverChunk
  BY <1>15 DEF DeliverChunk, EndPrediction
<1>16. CASE BeginIteration
  BY <1>16 DEF BeginIteration
<1>17. CASE EndIteration
  BY <1>17 DEF EndIteration
<1>18. CASE SelectAction
  BY <1>18 DEF SelectAction
<1>19. CASE InstallQueue
  BY <1>19 DEF InstallQueue
<1>20. CASE GrantMustGo
  BY <1>20, NoObsAssumption DEF GrantMustGo
<1>21. CASE CaptureFails
  BY <1>21 DEF CaptureFails
<1>22. CASE SendFails
  BY <1>22 DEF SendFails
<1>23. CASE PredictionFails
  BY <1>23 DEF PredictionFails
<1>24. CASE Terminated \/ UNCHANGED vars
  BY <1>24 DEF Terminated, vars
<1>25. CASE Restart
  BY <1>25 DEF Restart
<1> QED
  BY <1>1, <1>2, <1>3, <1>4, <1>5, <1>6, <1>7, <1>8, <1>9, <1>10, <1>11,
     <1>12, <1>13, <1>14, <1>15, <1>16, <1>17, <1>18, <1>19, <1>20, <1>21,
     <1>22, <1>23, <1>24, <1>25
     DEF Next, ControlLoop, Sender, Predictor, Receiver, Faults

(* As long as no call failed, no set() raced a clear() and the receiver       *)
(* lives, a client without the must-go token is owed an answer that sets it.  *)
THEOREM MustGoNeverLost == Spec => []MustGoPending
<1>1. Init => TokenInv
  BY DEF Init, TokenInv
<1>2. TypeOK /\ HandOver /\ TokenInv /\ [Next]_vars => TokenInv'
  BY TokenStep
<1>3. TokenInv => MustGoPending
  BY DEF TokenInv, MustGoPending
<1> QED
  BY <1>1, <1>2, <1>3, TypeCorrect, PTL DEF Spec
-----------------------------------------------------------------------------
(* The merge.  Chunk and queues are increasing, what was selected comes       *)
(* before what is still to be read, and outside the selection nothing is kept. *)
MergeInv ==
    /\ Increasing(queue) /\ Increasing(future) /\ Increasing(chunk)
    /\ \A i \in 1..Len(future), j \in 1..Len(chunk) : future[i] < chunk[j]
    /\ receiver # "select" => future = <<>>

(* Freshness of what is selected, queued and held while no execution overlaps. *)
FreshInv ==
    /\ receiver = "select" /\ ~disturbed => \A i \in 1..Len(future) : latest < future[i]
    /\ ~overlapped => \A i \in 1..Len(queue) : latest < queue[i]
    /\ ~overlapped /\ control = "perform" => \A i \in 1..Len(queue) : popped < queue[i]

LEMMA TailIncreasing ==
  ASSUME NEW s \in Seq(Nat), s # <<>>, Increasing(s)
  PROVE  /\ Increasing(Tail(s))
         /\ \A i \in 1..Len(Tail(s)) : Head(s) < Tail(s)[i]
<1>1. Head(s) = s[1] /\ Len(s) \in Nat /\ Len(s) > 0
  OBVIOUS
<1>2. Len(Tail(s)) = Len(s) - 1 /\ \A i \in 1..Len(Tail(s)) : Tail(s)[i] = s[i + 1]
  BY TailType
<1> QED
  BY <1>1, <1>2 DEF Increasing

LEMMA AppendIncreasing ==
  ASSUME NEW s \in Seq(Nat), NEW e \in Nat, Increasing(s),
         \A i \in 1..Len(s) : s[i] < e
  PROVE  Increasing(Append(s, e))
<1>1. Len(s) \in Nat /\ Len(Append(s, e)) = Len(s) + 1
  OBVIOUS
<1>2. /\ \A i \in 1..Len(s) : Append(s, e)[i] = s[i]
      /\ Append(s, e)[Len(s) + 1] = e
  BY AppendType
<1> QED
  BY <1>1, <1>2 DEF Increasing

LEMMA ChunkIncreasing ==
  ASSUME NEW o \in Observation
  PROVE  Increasing(ChunkFor(o))
<1>1. o.step \in Nat /\ ChunkSize \in Nat
  BY ConfigAssumption DEF ConfigAssumption, Observation
<1> QED
  BY <1>1, ChunkType DEF Increasing

LEMMA EmptyIncreasing == Increasing(<<>>)
  BY DEF Increasing

LEMMA MergeStep ==
  TypeOK /\ HandOver /\ MergeInv /\ [Next]_vars => MergeInv'
<1> SUFFICES ASSUME TypeOK, HandOver, MergeInv, [Next]_vars
             PROVE  MergeInv'
  OBVIOUS
<1> USE DEF clientVars, receiverVars, predictorVars, serverVars, mergeHistory,
            tokenHistory, historyVars
<1>1. CASE PopAction
  <2>1. queue' = queue \/ (queue # <<>> /\ queue' = Tail(queue))
    BY <1>1 DEF PopAction
  <2>2. Increasing(queue')
    BY <2>1, TailIncreasing DEF TypeOK, MergeInv
  <2> QED
    BY <1>1, <2>2 DEF PopAction, MergeInv, Increasing
<1>2. CASE DeliverChunk
  <2>1. Increasing(chunk') /\ future' = <<>>
    <3>1. taken[client] \in Observation /\ receiver = "call"
      BY <1>2 DEF DeliverChunk, HandOver, TypeOK
    <3> QED
      BY <1>2, <3>1, ChunkIncreasing DEF DeliverChunk, MergeInv
  <2>2. \A i \in 1..Len(future'), j \in 1..Len(chunk') : future'[i] < chunk'[j]
    BY <2>1, EmptyType
  <2> QED
    BY <1>2, <2>1, <2>2 DEF DeliverChunk, MergeInv, Increasing
<1>3. CASE SelectAction
  <2> DEFINE c == Head(chunk)
  <2>1. /\ receiver = "select" /\ receiver' = receiver /\ queue' = queue
        /\ chunk # <<>> /\ chunk' = Tail(chunk)
        /\ \/ c <= latest /\ future' = future
           \/ future' = Append(future, c)
    BY <1>3 DEF SelectAction
  <2>2. /\ chunk \in Seq(Nat) /\ future \in Seq(Nat)
        /\ Increasing(chunk) /\ Increasing(future)
        /\ \A i \in 1..Len(future), j \in 1..Len(chunk) : future[i] < chunk[j]
    BY DEF TypeOK, MergeInv
  <2>3. /\ c \in Nat /\ c = chunk[1] /\ 1 \in 1..Len(chunk)
        /\ Len(Tail(chunk)) = Len(chunk) - 1
        /\ \A i \in 1..Len(Tail(chunk)) : Tail(chunk)[i] = chunk[i + 1]
    BY <2>1, <2>2, TailType
  <2>4. Increasing(Tail(chunk)) /\ \A j \in 1..Len(Tail(chunk)) : c < Tail(chunk)[j]
    BY <2>1, <2>2, TailIncreasing
  <2>5. \A i \in 1..Len(future) : future[i] < c
    BY <2>2, <2>3
  <2>6. \A i \in 1..Len(future), j \in 1..Len(Tail(chunk)) : future[i] < Tail(chunk)[j]
    BY <2>2, <2>3
  <2>7. /\ Increasing(Append(future, c))
        /\ \A i \in 1..Len(Append(future, c)), j \in 1..Len(Tail(chunk)) :
             Append(future, c)[i] < Tail(chunk)[j]
    <3>1. Increasing(Append(future, c))
      BY <2>2, <2>3, <2>5, AppendIncreasing
    <3>2. /\ Len(Append(future, c)) = Len(future) + 1
          /\ \A i \in 1..Len(future) : Append(future, c)[i] = future[i]
          /\ Append(future, c)[Len(future) + 1] = c
      BY <2>2, <2>3, AppendType
    <3>3. \A i \in 1..Len(Append(future, c)) :
             i \in 1..Len(future) \/ i = Len(future) + 1
      BY <2>2, <3>2
    <3> QED
      BY <2>4, <2>6, <3>1, <3>2, <3>3
  <2>8. /\ Increasing(future') /\ Increasing(chunk')
        /\ \A i \in 1..Len(future'), j \in 1..Len(chunk') : future'[i] < chunk'[j]
    BY <2>1, <2>2, <2>4, <2>6, <2>7
  <2> QED
    BY <2>1, <2>8 DEF MergeInv, Increasing
<1>4. CASE InstallQueue
  <2>1. queue' = future /\ future' = <<>> /\ chunk' = chunk
    BY <1>4 DEF InstallQueue
  <2>2. \A i \in 1..Len(future'), j \in 1..Len(chunk') : future'[i] < chunk'[j]
    BY <2>1, EmptyType
  <2> QED
    BY <2>1, <2>2, EmptyIncreasing DEF MergeInv, Increasing
<1>5. CASE EndIteration \/ BeginIteration \/ GrantMustGo
  BY <1>5 DEF EndIteration, BeginIteration, GrantMustGo, MergeInv
<1>6. ASSUME UNCHANGED <<queue, future, chunk, receiver>> PROVE MergeInv'
  BY <1>6 DEF MergeInv, Increasing
<1>7. CASE CheckActions \/ StopClient \/ PerformAction \/ CheckReady \/ MarkObservation
           \/ SendObservation \/ ClearMustGo
  BY <1>6, <1>7 DEF CheckActions, StopClient, PerformAction, CheckReady,
     MarkObservation, SendObservation, ClearMustGo
<1>8. CASE Sender \/ TakeObservation
           \/ \E c \in Clients : RecordTimestep(c) \/ Preprocess(c) \/ FailInVain(c)
  BY <1>6, <1>8 DEF Sender, FilterObservation, EvictObservation, PutObservation,
     TakeObservation, RecordTimestep, Preprocess, FailInVain
<1>9. CASE Faults \/ Terminated \/ UNCHANGED vars
  BY <1>6, <1>9 DEF Faults, CaptureFails, SendFails, PredictionFails, Terminated, vars
<1>10. CASE Restart
  <2>1. queue' = <<>> /\ future' = <<>> /\ chunk' = <<>>
    BY <1>10 DEF Restart
  <2>2. \A i \in 1..Len(future'), j \in 1..Len(chunk') : future'[i] < chunk'[j]
    BY <2>1, EmptyType
  <2>3. Increasing(<<>>)
    BY EmptyIncreasing
  <2> QED
    BY <2>1, <2>2, <2>3 DEF MergeInv, Increasing
<1> QED
  BY <1>1, <1>2, <1>3, <1>4, <1>5, <1>7, <1>8, <1>9, <1>10
     DEF Next, ControlLoop, Predictor, Receiver

LEMMA FreshStep ==
  TypeOK /\ HandOver /\ MergeInv /\ FreshInv /\ [Next]_vars => FreshInv'
<1> SUFFICES ASSUME TypeOK, HandOver, MergeInv, FreshInv, [Next]_vars
             PROVE  FreshInv'
  OBVIOUS
<1> USE DEF clientVars, receiverVars, predictorVars, serverVars, mergeHistory,
            tokenHistory, historyVars
<1>1. CASE PopAction
  <2>1. CASE queue = <<>>
    BY <1>1, <2>1 DEF PopAction, FreshInv
  <2>2. CASE queue # <<>>
    <3>1. /\ popped' = Head(queue) /\ queue' = Tail(queue)
          /\ UNCHANGED <<latest, receiver, future, disturbed, overlapped>>
      BY <1>1, <2>2 DEF PopAction
    <3>2. \A i \in 1..Len(queue') : popped' < queue'[i]
      BY <2>2, <3>1, TailIncreasing DEF TypeOK, MergeInv
    <3>3. ~overlapped => \A i \in 1..Len(queue') : latest < queue'[i]
      <4>1. Len(queue) \in Nat /\ Len(queue') = Len(queue) - 1
        BY <2>2, <3>1, TailType DEF TypeOK
      <4>2. \A i \in 1..Len(queue') : queue'[i] = queue[i + 1]
        BY <2>2, <3>1, TailType DEF TypeOK
      <4> QED
        BY <4>1, <4>2 DEF FreshInv
    <3> QED
      BY <3>1, <3>2, <3>3 DEF FreshInv
  <2> QED
    BY <2>1, <2>2
<1>2. CASE PerformAction
  BY <1>2 DEF PerformAction, FreshInv
<1>3. CASE SelectAction
  <2> DEFINE c == Head(chunk)
  <2>1. /\ receiver = "select" /\ chunk # <<>>
        /\ \/ future' = future
           \/ ~(c <= latest) /\ future' = Append(future, c)
        /\ UNCHANGED <<control, queue, latest, popped, disturbed, overlapped>>
    BY <1>3 DEF SelectAction
  <2>2. c \in Nat /\ latest \in Int /\ future \in Seq(Nat)
    BY <2>1, TailType DEF TypeOK
  <2>3. ~disturbed => \A i \in 1..Len(future') : latest < future'[i]
    BY <2>1, <2>2, AppendType DEF FreshInv
  <2> QED
    BY <2>1, <2>3 DEF FreshInv
<1>4. CASE InstallQueue
  BY <1>4 DEF InstallQueue, FreshInv, MergeInv
<1>5. CASE DeliverChunk \/ EndIteration \/ BeginIteration \/ GrantMustGo
  <2>1. \A i \in 1..Len(<<>>) : latest < <<>>[i]
    BY EmptyType
  <2> QED
    BY <1>5, <2>1 DEF DeliverChunk, EndIteration, BeginIteration, GrantMustGo,
       FreshInv, MergeInv
<1>6. ASSUME UNCHANGED <<queue, future, receiver, latest, popped, disturbed, overlapped>>,
             control' = "perform" => control = "perform"
      PROVE  FreshInv'
  BY <1>6 DEF FreshInv
<1>7. CASE CheckActions \/ StopClient \/ CheckReady \/ MarkObservation
           \/ SendObservation \/ ClearMustGo
  BY <1>6, <1>7 DEF CheckActions, StopClient, CheckReady, MarkObservation,
     SendObservation, ClearMustGo
<1>8. CASE Sender \/ TakeObservation
           \/ \E c \in Clients : RecordTimestep(c) \/ Preprocess(c) \/ FailInVain(c)
  BY <1>6, <1>8 DEF Sender, FilterObservation, EvictObservation, PutObservation,
     TakeObservation, RecordTimestep, Preprocess, FailInVain
<1>9. CASE Faults \/ Terminated \/ UNCHANGED vars
  BY <1>6, <1>9 DEF Faults, CaptureFails, SendFails, PredictionFails, Terminated, vars
<1>10. CASE Restart
  <2>1. /\ queue' = <<>> /\ receiver' = "call" /\ control' = "check"
        /\ \A i \in 1..Len(queue') : FALSE
    BY <1>10, EmptyType DEF Restart
  <2> QED
    BY <2>1 DEF FreshInv
<1> QED
  BY <1>1, <1>2, <1>3, <1>4, <1>5, <1>7, <1>8, <1>9, <1>10
     DEF Next, ControlLoop, Predictor, Receiver

LEMMA MergeInvariant == Spec => [](MergeInv /\ FreshInv)
<1>1. Init => MergeInv /\ FreshInv
  BY EmptyType, EmptyIncreasing DEF Init, MergeInv, FreshInv
<1>2. TypeOK /\ HandOver /\ MergeInv /\ [Next]_vars => MergeInv'
  BY MergeStep
<1>3. TypeOK /\ HandOver /\ MergeInv /\ FreshInv /\ [Next]_vars => FreshInv'
  BY FreshStep
<1> QED
  BY <1>1, <1>2, <1>3, TypeCorrect, PTL DEF Spec

(* What the control loop pops is increasing, whatever is merged meanwhile.     *)
THEOREM QueueOrdered == Spec => []QueueIncreasing
<1>1. MergeInv => QueueIncreasing
  BY DEF MergeInv, QueueIncreasing
<1> QED
  BY <1>1, MergeInvariant, PTL

(* What it pops is newer than the last executed action unless an execution     *)
(* overlapped the merge: the test on latest_action keeps actions from being    *)
(* executed twice in every other interleaving.                                 *)
THEOREM QueueFresh == Spec => []FreshUnlessOverlapped
<1>1. FreshInv => FreshUnlessOverlapped
  BY DEF FreshInv, FreshUnlessOverlapped
<1> QED
  BY <1>1, MergeInvariant, PTL
-----------------------------------------------------------------------------
(* Rewinds.  The step an observation made now would have. *)
Step == IF latest > 0 THEN latest ELSE 0

(* How far latest_action can be behind what was executed, after n rewinds. *)
Gap(n) == IF n = 0 THEN 0 ELSE n * (ChunkSize - 2) + 1

(* h is a timestep no execution has passed. *)
Executed(h) ==
    /\ -1 <= latest /\ latest <= h /\ h - Step <= Gap(rewinds)
    /\ latest = -1 => h = 0 /\ rewinds = 0
    /\ ChunkSize = 1 => rewinds = 0

(* No observation that may still be predicted is of a later step than h. *)
Observed(h) ==
    /\ obs # NoObs => obs.step <= h
    /\ \A i \in 1..Len(pending) : pending[i].step <= h
    /\ predictor[client] # "wait" => taken[client].step <= h

(* So all actions are within a chunk of h. *)
UpTo(m, s) == \A i \in 1..Len(s) : s[i] <= m

Planned(h) ==
    LET m == h + ChunkSize - 1
    IN  /\ UpTo(m, queue) /\ UpTo(m, chunk) /\ UpTo(m, future)
        /\ control = "perform" => popped \in Nat /\ popped <= m

(* An action of s executed after x would be a rewind the bound allows. *)
Behind(x, s) == \A i \in 1..Len(s) : x - s[i] <= Gap(rewinds + 1)

(* What will be executed is not too far behind what comes before it: what was *)
(* executed, what is held, and what is still popped from the old queue.       *)
Repeatable(h) ==
    /\ Behind(h, queue) /\ Behind(h, future)
    /\ control = "perform" =>
           /\ h - popped <= Gap(rewinds + 1)
           /\ Behind(popped, queue) /\ Behind(popped, future)
    /\ \A i \in 1..Len(queue) : Behind(queue[i], future)

Rewindable(h) == Executed(h) /\ Observed(h) /\ Planned(h) /\ Repeatable(h)

RewindInv == \E h \in Nat : Rewindable(h)

(* A client that has not connected yet has no call running. *)
Unconnected == \A c \in Clients : c > client => predictor[c] = "wait"

(* Each rewind adds ChunkSize - 2 to the gap, the first one ChunkSize - 1. *)
LEMMA GapGrows ==
  ASSUME NEW n \in Nat
  PROVE  /\ Gap(n) \in Int /\ Gap(n + 1) \in Int
         /\ Gap(0) = 0 /\ Gap(1) = ChunkSize - 1
         /\ Gap(n) + ChunkSize - 2 <= Gap(n + 1)
         /\ Gap(n + 1) = (n + 1) * (ChunkSize - 2) + 1
         /\ ChunkSize >= 2 => 0 <= Gap(n) /\ Gap(n) <= Gap(n + 1)
<1> DEFINE d == ChunkSize - 2
           p == n * d
<1>1. ChunkSize \in Nat /\ ChunkSize >= 1 /\ d \in Int
  BY ConfigAssumption DEF ConfigAssumption
<1>2. p \in Int /\ (n + 1) * d = p + d /\ 1 * d = d
  BY <1>1
<1>3. d >= 0 => p >= 0
  BY <1>1
<1>4. n = 0 => p = 0
  BY <1>1
<1>5. /\ Gap(n) = IF n = 0 THEN 0 ELSE p + 1
      /\ Gap(n + 1) = IF n + 1 = 0 THEN 0 ELSE (n + 1) * d + 1
      /\ Gap(0) = 0
      /\ Gap(1) = 1 * d + 1
  BY DEF Gap
<1>6. n + 1 # 0 /\ n + 1 \in Nat
  OBVIOUS
<1>7. Gap(n + 1) = p + d + 1 /\ Gap(1) = d + 1
  BY <1>2, <1>5, <1>6
<1>8. Gap(n + 1) = (n + 1) * (ChunkSize - 2) + 1
  BY <1>5, <1>6
<1> HIDE DEF p
<1> QED
  BY <1>1, <1>2, <1>3, <1>4, <1>5, <1>7, <1>8

LEMMA UnconnectedStep ==
  TypeOK /\ Unconnected /\ [Next]_vars => Unconnected'
<1> SUFFICES ASSUME TypeOK, Unconnected, [Next]_vars
             PROVE  Unconnected'
  OBVIOUS
<1> USE DEF clientVars, receiverVars, predictorVars, serverVars, mergeHistory,
            tokenHistory, historyVars
<1>1. \A c \in Clients : c \in Int
  BY DEF Clients
<1>2. ASSUME client' = client,
             \E c \in Clients : /\ c <= client
                                /\ \A b \in Clients : b # c => predictor'[b] = predictor[b]
      PROVE  Unconnected'
  BY <1>1, <1>2 DEF Unconnected, TypeOK
<1>3. CASE TakeObservation \/ DeliverChunk \/ PredictionFails
  <2>1. client' = client /\ \A b \in Clients : b # client => predictor'[b] = predictor[b]
    BY <1>3 DEF TakeObservation, DeliverChunk, PredictionFails, EndPrediction, TypeOK
  <2>2. client \in Clients /\ client <= client
    BY <1>1 DEF TypeOK
  <2> QED
    BY <1>2, <2>1, <2>2
<1>4. CASE \E c \in Clients : RecordTimestep(c) \/ Preprocess(c) \/ FailInVain(c)
  <2>1. PICK c \in Clients : RecordTimestep(c) \/ Preprocess(c) \/ FailInVain(c)
    BY <1>4
  <2>2. predictor[c] # "wait"
    BY <2>1 DEF RecordTimestep, Preprocess, FailInVain
  <2>3. c <= client
    BY <1>1, <2>2 DEF Unconnected, TypeOK
  <2>4. client' = client /\ \A b \in Clients : b # c => predictor'[b] = predictor[b]
    BY <2>1 DEF RecordTimestep, Preprocess, FailInVain, EndPrediction, TypeOK
  <2> QED
    BY <1>2, <2>3, <2>4
<1>5. CASE Restart
  <2>1. client' = client + 1 /\ client \in Int
    BY <1>1, <1>5 DEF Restart, TypeOK
  <2>2. \A b \in Clients : predictor'[b] = predictor[b] \/ predictor'[b] = "wait"
    BY <1>5 DEF Restart, EndPrediction, TypeOK
  <2> QED
    BY <1>1, <2>1, <2>2 DEF Unconnected
<1>6. ASSUME UNCHANGED <<client, predictor>> PROVE Unconnected'
  BY <1>6 DEF Unconnected
<1>7. CASE ControlLoop \/ Sender \/ Receiver
  BY <1>6, <1>7 DEF ControlLoop, CheckActions, StopClient, PopAction, PerformAction,
     CheckReady, MarkObservation, SendObservation, ClearMustGo,
     Sender, FilterObservation, EvictObservation, PutObservation,
     Receiver, BeginIteration, EndIteration, SelectAction, InstallQueue, GrantMustGo
<1>8. CASE CaptureFails \/ SendFails \/ Terminated \/ UNCHANGED vars
  BY <1>6, <1>8 DEF CaptureFails, SendFails, Terminated, vars
<1> QED
  BY <1>3, <1>4, <1>5, <1>7, <1>8 DEF Next, Faults, Predictor

(* The step an observation takes is one that was executed. *)
LEMMA StepExecuted ==
  ASSUME TypeOK, NEW h \in Nat, Executed(h)
  PROVE  Step \in Nat /\ Step <= h
  BY DEF Executed, Step, TypeOK

LEMMA ObservedStep ==
  ASSUME TypeOK, HandOver, NEW h \in Nat, Executed(h), Observed(h),
         [Next]_vars, ~Restart
  PROVE  Observed(h)'
<1> USE DEF clientVars, receiverVars, predictorVars, serverVars, mergeHistory,
            tokenHistory, historyVars
<1>1. ASSUME UNCHANGED <<obs, pending, client, predictor, taken>> PROVE Observed(h)'
  BY <1>1 DEF Observed
<1>2. CASE MarkObservation
  <2>1. obs'.step = Step
    BY <1>2 DEF MarkObservation, Step
  <2> QED
    BY <1>2, <2>1, StepExecuted DEF MarkObservation, Observed
<1>3. CASE ClearMustGo
  BY <1>3 DEF ClearMustGo, Observed
<1>4. CASE EvictObservation
  BY <1>4, EmptyType DEF EvictObservation, Observed
<1>5. CASE PutObservation
  <2> DEFINE o == [obs EXCEPT !.mustGo = FALSE]
  <2>1. obs \in Observation /\ obs # NoObs
    BY <1>5, NoObsAssumption DEF PutObservation, HandOver, NoObsAssumption
  <2>2. o \in Observation /\ o.step = obs.step
    BY <2>1 DEF Observation
  <2> HIDE DEF o
  <2>3. pending' = Append(pending, o) /\ pending \in Seq(Observation) /\ Len(pending) \in Nat
    BY <1>5 DEF PutObservation, TypeOK, o
  <2>4. \A i \in 1..Len(pending') : pending'[i].step <= h
    <3>1. /\ Len(pending') = Len(pending) + 1
          /\ \A i \in 1..Len(pending) : pending'[i] = pending[i]
          /\ pending'[Len(pending) + 1] = o
      BY <2>2, <2>3, AppendType
    <3> QED
      BY <2>1, <2>2, <2>3, <3>1 DEF Observed
  <2> QED
    BY <1>5, <2>4 DEF PutObservation, Observed
<1>6. CASE TakeObservation
  <2>1. Head(pending) = pending[1] /\ 1 \in 1..Len(pending)
    BY <1>6 DEF TakeObservation, TypeOK
  <2>2. client \in Clients /\ taken'[client] = Head(pending) /\ pending' = <<>>
        /\ client' = client /\ obs' = obs
    BY <1>6 DEF TakeObservation, TypeOK
  <2> QED
    BY <2>1, <2>2, EmptyType DEF Observed
<1>7. CASE \E c \in Clients : RecordTimestep(c) \/ Preprocess(c) \/ FailInVain(c)
  <2>1. PICK c \in Clients : RecordTimestep(c) \/ Preprocess(c) \/ FailInVain(c)
    BY <1>7
  <2>2. UNCHANGED <<client, obs, pending>> /\ predictor[c] # "wait"
    BY <2>1 DEF RecordTimestep, Preprocess, FailInVain
  <2>3. c \in Int /\ client \in Int /\ client \in Clients
    BY DEF Clients, TypeOK
  <2>4. \/ taken'[client] = taken[client] /\ (predictor'[client] # "wait"
                                                => predictor[client] # "wait")
        \/ predictor'[client] = "wait"
    BY <2>1, <2>3 DEF RecordTimestep, Preprocess, FailInVain, EndPrediction, TypeOK
  <2> QED
    BY <2>2, <2>4 DEF Observed
<1>8. CASE DeliverChunk \/ PredictionFails
  BY <1>8 DEF DeliverChunk, PredictionFails, EndPrediction, Observed, TypeOK
<1>9. CASE CheckActions \/ StopClient \/ PopAction \/ PerformAction \/ CheckReady
           \/ SendObservation
  BY <1>1, <1>9 DEF CheckActions, StopClient, PopAction, PerformAction, CheckReady,
     SendObservation
<1>10. CASE FilterObservation \/ Receiver
  BY <1>1, <1>10 DEF FilterObservation, Receiver, BeginIteration, EndIteration,
     SelectAction, InstallQueue, GrantMustGo
<1>11. CASE CaptureFails \/ SendFails \/ Terminated \/ UNCHANGED vars
  BY <1>1, <1>11 DEF CaptureFails, SendFails, Terminated, vars
<1> QED
  BY <1>2, <1>3, <1>4, <1>5, <1>6, <1>7, <1>8, <1>9, <1>10, <1>11
     DEF Next, ControlLoop, Sender, Predictor, Faults

LEMMA PlannedStep ==
  ASSUME TypeOK, HandOver, NEW h \in Nat, Observed(h), Planned(h),
         [Next]_vars, ~Restart
  PROVE  Planned(h)'
<1> DEFINE m == h + ChunkSize - 1
<1>1. m \in Int
  BY ConfigAssumption DEF ConfigAssumption
<1>2. /\ UpTo(m, queue) /\ UpTo(m, chunk) /\ UpTo(m, future)
      /\ control = "perform" => popped \in Nat /\ popped <= m
  BY DEF Planned
<1>3. ASSUME UpTo(m, queue'), UpTo(m, chunk'), UpTo(m, future'),
             control' = "perform" => popped' \in Nat /\ popped' <= m
      PROVE  Planned(h)'
  BY <1>3 DEF Planned, UpTo
<1> HIDE DEF m
<1> USE DEF clientVars, receiverVars, predictorVars, serverVars, mergeHistory,
            tokenHistory, historyVars
<1>4. ASSUME UNCHANGED <<queue, chunk, future, popped>>,
             control' = "perform" => control = "perform"
      PROVE  Planned(h)'
  BY <1>2, <1>3, <1>4
<1>5. CASE PopAction
  <2>1. CASE queue = <<>>
    BY <1>2, <1>3, <1>5, <2>1 DEF PopAction
  <2>2. CASE queue # <<>>
    <3>1. popped' = Head(queue) /\ queue' = Tail(queue) /\ UNCHANGED <<chunk, future>>
      BY <1>5, <2>2 DEF PopAction
    <3>2. /\ Head(queue) \in Nat /\ Head(queue) = queue[1] /\ 1 \in 1..Len(queue)
          /\ Len(Tail(queue)) = Len(queue) - 1
          /\ \A i \in 1..Len(Tail(queue)) : Tail(queue)[i] = queue[i + 1]
      BY <2>2, TailType DEF TypeOK
    <3>3. Len(queue) \in Nat
      BY DEF TypeOK
    <3>4. UpTo(m, queue') /\ popped' \in Nat /\ popped' <= m
      BY <1>2, <3>1, <3>2, <3>3 DEF UpTo
    <3> QED
      BY <1>2, <1>3, <3>1, <3>4
  <2> QED
    BY <2>1, <2>2
<1>6. CASE DeliverChunk
  <2>1. /\ chunk' = ChunkFor(taken[client])
        /\ UNCHANGED <<queue, future, popped, control>>
        /\ predictor[client] # "wait" /\ client \in Clients
    BY <1>6 DEF DeliverChunk, TypeOK
  <2>2. taken[client] \in Observation /\ taken[client].step <= h
    BY <2>1 DEF HandOver, Observed
  <2>3. taken[client].step \in Nat /\ ChunkSize \in Nat
    BY <2>2, ConfigAssumption DEF Observation, ConfigAssumption
  <2>4. UpTo(m, chunk')
    BY <2>1, <2>2, <2>3, ChunkType DEF UpTo, m
  <2> QED
    BY <1>2, <1>3, <2>1, <2>4
<1>7. CASE SelectAction
  <2> DEFINE c == Head(chunk)
  <2>1. /\ chunk # <<>> /\ chunk' = Tail(chunk)
        /\ future' = future \/ future' = Append(future, c)
        /\ UNCHANGED <<queue, popped, control>>
    BY <1>7 DEF SelectAction
  <2>2. /\ c \in Nat /\ c = chunk[1] /\ 1 \in 1..Len(chunk) /\ Len(chunk) \in Nat
        /\ Len(Tail(chunk)) = Len(chunk) - 1
        /\ \A i \in 1..Len(Tail(chunk)) : Tail(chunk)[i] = chunk[i + 1]
    BY <2>1, TailType DEF TypeOK
  <2>3. c <= m /\ UpTo(m, chunk')
    BY <1>2, <2>1, <2>2 DEF UpTo
  <2>4. UpTo(m, future')
    <3>1. Len(future) \in Nat /\ future \in Seq(Nat)
      BY DEF TypeOK
    <3>2. UpTo(m, Append(future, c))
      BY <1>2, <2>2, <2>3, <3>1, AppendType DEF UpTo
    <3> QED
      BY <1>2, <2>1, <3>2
  <2> QED
    BY <1>2, <1>3, <2>1, <2>3, <2>4
<1>8. CASE InstallQueue
  <2>1. UpTo(m, <<>>)
    BY EmptyType DEF UpTo
  <2> QED
    BY <1>2, <1>3, <1>8, <2>1 DEF InstallQueue
<1>9. CASE PerformAction
  BY <1>2, <1>3, <1>9 DEF PerformAction
<1>10. CASE CheckActions \/ StopClient \/ CheckReady \/ MarkObservation
            \/ SendObservation \/ ClearMustGo
  BY <1>4, <1>10 DEF CheckActions, StopClient, CheckReady, MarkObservation,
     SendObservation, ClearMustGo
<1>11. CASE Sender \/ BeginIteration \/ EndIteration \/ GrantMustGo
  BY <1>4, <1>11 DEF Sender, FilterObservation, EvictObservation, PutObservation,
     BeginIteration, EndIteration, GrantMustGo
<1>12. CASE TakeObservation \/ \E c \in Clients : RecordTimestep(c) \/ Preprocess(c)
                                                  \/ FailInVain(c)
  BY <1>4, <1>12 DEF TakeObservation, RecordTimestep, Preprocess, FailInVain
<1>13. CASE Faults \/ Terminated \/ UNCHANGED vars
  BY <1>4, <1>13 DEF Faults, CaptureFails, SendFails, PredictionFails, Terminated, vars
<1> QED
  BY <1>5, <1>6, <1>7, <1>8, <1>9, <1>10, <1>11, <1>12, <1>13
     DEF Next, ControlLoop, Receiver, Predictor

(* An action newer than latest_action is not far behind anything planned. *)
LEMMA SelectedBehind ==
  ASSUME TypeOK, NEW h \in Nat, Executed(h), NEW c \in Nat, latest < c,
         NEW x \in Int, x <= h + ChunkSize - 1
  PROVE  x - c <= Gap(rewinds + 1)
<1>1. /\ rewinds \in Nat /\ latest \in Int /\ ChunkSize \in Nat /\ ChunkSize >= 1
  BY ConfigAssumption DEF TypeOK, ConfigAssumption
<1>2. /\ Gap(rewinds) \in Int /\ Gap(rewinds + 1) \in Int
      /\ Gap(rewinds) + ChunkSize - 2 <= Gap(rewinds + 1)
      /\ Gap(1) = ChunkSize - 1
  BY <1>1, GapGrows
<1>3. CASE latest = -1
  <2>1. h = 0 /\ rewinds + 1 = 1
    BY <1>1, <1>3 DEF Executed
  <2>2. Gap(rewinds + 1) = ChunkSize - 1
    BY <1>2, <2>1
  <2> QED
    BY <1>1, <1>2, <2>1, <2>2
<1>4. CASE latest # -1
  <2>1. Step = latest /\ latest <= h /\ h - latest <= Gap(rewinds)
    BY <1>1, <1>4 DEF Executed, Step
  <2> QED
    BY <1>1, <1>2, <2>1
<1> QED
  BY <1>3, <1>4

LEMMA RepeatableStep ==
  ASSUME TypeOK, HandOver, MergeInv, NEW h \in Nat, Rewindable(h),
         [Next]_vars, ~Restart, ~PerformAction
  PROVE  Repeatable(h)'
<1> DEFINE g == Gap(rewinds + 1)
<1>1. rewinds \in Nat /\ g \in Int /\ 0 <= g
  <2>1. rewinds \in Nat /\ ChunkSize \in Nat /\ ChunkSize >= 1
    BY ConfigAssumption DEF TypeOK, ConfigAssumption
  <2>2. CASE ChunkSize >= 2
    <3>1. /\ Gap(rewinds) \in Int /\ Gap(rewinds + 1) \in Int
          /\ 0 <= Gap(rewinds) /\ Gap(rewinds) <= Gap(rewinds + 1)
      BY <2>1, <2>2, GapGrows
    <3> QED
      BY <2>1, <3>1
  <2>3. CASE ChunkSize = 1
    <3>1. rewinds = 0
      BY <2>3 DEF Rewindable, Executed
    <3> QED
      BY <2>3, <3>1, GapGrows
  <2> QED
    BY <2>1, <2>2, <2>3
<1>2. rewinds' = rewinds
  <2> USE DEF clientVars, receiverVars, predictorVars, serverVars, mergeHistory,
              tokenHistory, historyVars
  <2>1. CASE ControlLoop
    BY <2>1 DEF ControlLoop, CheckActions, StopClient, PopAction, CheckReady,
       MarkObservation, SendObservation, ClearMustGo
  <2>2. CASE Sender \/ Receiver
    BY <2>2 DEF Sender, FilterObservation, EvictObservation, PutObservation,
       Receiver, BeginIteration, EndIteration, SelectAction, InstallQueue, GrantMustGo
  <2>3. CASE TakeObservation \/ DeliverChunk
             \/ \E c \in Clients : RecordTimestep(c) \/ Preprocess(c) \/ FailInVain(c)
    BY <2>3 DEF TakeObservation, DeliverChunk, RecordTimestep, Preprocess, FailInVain
  <2>4. CASE Faults \/ Terminated \/ UNCHANGED vars
    BY <2>4 DEF Faults, CaptureFails, SendFails, PredictionFails, Terminated, vars
  <2> QED
    BY <2>1, <2>2, <2>3, <2>4 DEF Next, Predictor
<1>3. g' = g
  BY <1>2 DEF Gap
<1>4. /\ \A i \in 1..Len(queue) : h - queue[i] <= g
      /\ \A i \in 1..Len(future) : h - future[i] <= g
      /\ control = "perform" =>
             /\ popped \in Nat /\ popped <= h + ChunkSize - 1
             /\ h - popped <= g
             /\ \A i \in 1..Len(queue) : popped - queue[i] <= g
             /\ \A i \in 1..Len(future) : popped - future[i] <= g
      /\ \A i \in 1..Len(queue), j \in 1..Len(future) : queue[i] - future[j] <= g
  BY DEF Rewindable, Repeatable, Behind, Planned
<1>5. ASSUME /\ \A i \in 1..Len(queue') : h - queue'[i] <= g
             /\ \A i \in 1..Len(future') : h - future'[i] <= g
             /\ control' = "perform" =>
                    /\ h - popped' <= g
                    /\ \A i \in 1..Len(queue') : popped' - queue'[i] <= g
                    /\ \A i \in 1..Len(future') : popped' - future'[i] <= g
             /\ \A i \in 1..Len(queue'), j \in 1..Len(future') : queue'[i] - future'[j] <= g
      PROVE  Repeatable(h)'
  BY <1>3, <1>5 DEF Repeatable, Behind
<1> HIDE DEF g
<1> USE DEF clientVars, receiverVars, predictorVars, serverVars, mergeHistory,
            tokenHistory, historyVars
<1>6. ASSUME UNCHANGED <<queue, future, popped>>, control' = "perform" => control = "perform"
      PROVE  Repeatable(h)'
  BY <1>4, <1>5, <1>6
<1>7. CASE PopAction
  <2>1. CASE queue = <<>>
    BY <1>4, <1>5, <1>7, <2>1 DEF PopAction
  <2>2. CASE queue # <<>>
    <3>1. popped' = Head(queue) /\ queue' = Tail(queue) /\ future' = future
      BY <1>7, <2>2 DEF PopAction
    <3>2. /\ Head(queue) \in Nat /\ Head(queue) = queue[1] /\ 1 \in 1..Len(queue)
          /\ Len(Tail(queue)) = Len(queue) - 1 /\ Len(queue) \in Nat
          /\ \A i \in 1..Len(Tail(queue)) : Tail(queue)[i] = queue[i + 1]
      BY <2>2, TailType DEF TypeOK
    <3>3. \A i \in 1..Len(Tail(queue)) : Head(queue) < Tail(queue)[i] /\ Tail(queue)[i] \in Nat
      BY <2>2, TailType, TailIncreasing DEF TypeOK, MergeInv
    <3>4. \A i \in 1..Len(queue') : i + 1 \in 1..Len(queue) /\ queue'[i] = queue[i + 1]
      BY <3>1, <3>2
    <3>5. \A i \in 1..Len(queue') : h - queue'[i] <= g
      BY <1>4, <3>4
    <3>6. h - popped' <= g /\ \A i \in 1..Len(future') : popped' - future'[i] <= g
      BY <1>4, <3>1, <3>2
    <3>7. \A i \in 1..Len(queue') : popped' - queue'[i] <= g
      BY <1>1, <3>1, <3>2, <3>3
    <3>8. \A i \in 1..Len(queue'), j \in 1..Len(future') : queue'[i] - future'[j] <= g
      BY <1>4, <3>1, <3>4
    <3> QED
      BY <1>4, <1>5, <3>1, <3>5, <3>6, <3>7, <3>8
  <2> QED
    BY <2>1, <2>2
<1>8. CASE SelectAction
  <2> DEFINE c == Head(chunk)
             m == h + ChunkSize - 1
  <2>1. /\ chunk # <<>> /\ UNCHANGED <<queue, popped, control>>
        /\ \/ future' = future
           \/ ~(c <= latest) /\ future' = Append(future, c)
    BY <1>8 DEF SelectAction
  <2>2. c \in Nat /\ latest \in Int
    BY <2>1, TailType DEF TypeOK
  <2>3. ASSUME future' = future PROVE Repeatable(h)'
    BY <1>6, <2>1, <2>3
  <2>4. ASSUME ~(c <= latest), future' = Append(future, c) PROVE Repeatable(h)'
    <3>1. ASSUME NEW x \in Int, x <= m PROVE x - c <= g
      BY <2>2, <2>4, <3>1, SelectedBehind DEF Rewindable, g
    <3>2. ChunkSize \in Nat /\ ChunkSize >= 1 /\ h <= m
      BY ConfigAssumption DEF ConfigAssumption
    <3>3. h - c <= g
      BY <3>1, <3>2
    <3>4. control = "perform" => popped - c <= g
      BY <1>4, <3>1
    <3>5. \A i \in 1..Len(queue) : queue[i] - c <= g
      <4>1. \A i \in 1..Len(queue) : queue[i] \in Int /\ queue[i] <= m
        BY DEF TypeOK, Rewindable, Planned, UpTo
      <4> QED
        BY <3>1, <4>1
    <3>6. /\ Len(future') = Len(future) + 1 /\ Len(future) \in Nat
          /\ \A i \in 1..Len(future) : future'[i] = future[i]
          /\ future'[Len(future) + 1] = c
      BY <2>2, <2>4, AppendType DEF TypeOK
    <3>7. \A j \in 1..Len(future') : j \in 1..Len(future) \/ future'[j] = c
      BY <3>6
    <3> QED
      BY <1>4, <1>5, <2>1, <3>3, <3>4, <3>5, <3>6, <3>7
  <2> QED
    BY <2>1, <2>3, <2>4
<1>9. CASE InstallQueue
  <2>1. queue' = future /\ future' = <<>> /\ UNCHANGED <<popped, control>>
    BY <1>9 DEF InstallQueue
  <2>2. \A x : x \notin 1..Len(<<>>)
    BY EmptyType
  <2> QED
    BY <1>4, <1>5, <2>1, <2>2
<1>10. CASE CheckActions \/ StopClient \/ CheckReady \/ MarkObservation
            \/ SendObservation \/ ClearMustGo
  BY <1>6, <1>10 DEF CheckActions, StopClient, CheckReady, MarkObservation,
     SendObservation, ClearMustGo
<1>11. CASE Sender \/ BeginIteration \/ EndIteration \/ GrantMustGo
  BY <1>6, <1>11 DEF Sender, FilterObservation, EvictObservation, PutObservation,
     BeginIteration, EndIteration, GrantMustGo
<1>12. CASE TakeObservation \/ DeliverChunk
            \/ \E c \in Clients : RecordTimestep(c) \/ Preprocess(c) \/ FailInVain(c)
  BY <1>6, <1>12 DEF TakeObservation, DeliverChunk, RecordTimestep, Preprocess, FailInVain
<1>13. CASE Faults \/ Terminated \/ UNCHANGED vars
  BY <1>6, <1>13 DEF Faults, CaptureFails, SendFails, PredictionFails, Terminated, vars
<1> QED
  BY <1>7, <1>8, <1>9, <1>10, <1>11, <1>12, <1>13
     DEF Next, ControlLoop, Receiver, Predictor

(* Executing the held action: what was executed reaches it or stays, and the  *)
(* gap to it is one the next rewind is allowed.                              *)
LEMMA PerformStep ==
  ASSUME TypeOK, HandOver, NEW h \in Nat, Rewindable(h), PerformAction
  PROVE  /\ \E k \in Nat : Rewindable(k)'
         /\ latest - latest' <= rewinds' * (ChunkSize - 2) + 1
<1>1. /\ rewinds \in Nat /\ latest \in Int /\ ChunkSize \in Nat /\ ChunkSize >= 1
      /\ popped \in Nat /\ popped <= h + ChunkSize - 1
  BY ConfigAssumption DEF TypeOK, ConfigAssumption, PerformAction, Rewindable, Planned
<1>2. PICK k \in Nat : k = IF popped > h THEN popped ELSE h
  BY <1>1
<1>3. /\ latest' = popped /\ control' = "ready"
      /\ rewinds' = IF popped < latest THEN rewinds + 1 ELSE rewinds
      /\ UNCHANGED <<queue, chunk, future, obs, pending, predictor, taken, client>>
  BY DEF PerformAction, receiverVars, serverVars, predictorVars
<1>4. /\ -1 <= latest /\ latest <= h /\ h - Step <= Gap(rewinds)
      /\ latest = -1 => h = 0 /\ rewinds = 0
      /\ ChunkSize = 1 => rewinds = 0
      /\ h - popped <= Gap(rewinds + 1)
  BY DEF Rewindable, Executed, Repeatable, PerformAction
<1>5. /\ Gap(rewinds) \in Int /\ Gap(rewinds + 1) \in Int
      /\ Gap(0) = 0 /\ Gap(1) = ChunkSize - 1
      /\ Gap(rewinds + 1) = (rewinds + 1) * (ChunkSize - 2) + 1
      /\ ChunkSize >= 2 => 0 <= Gap(rewinds) /\ Gap(rewinds) <= Gap(rewinds + 1)
  BY <1>1, GapGrows
<1>6. /\ Gap(rewinds + 1 + 1) \in Int
      /\ ChunkSize >= 2 => Gap(rewinds + 1) <= Gap(rewinds + 1 + 1)
  <2>1. rewinds + 1 \in Nat
    BY <1>1
  <2> QED
    BY <2>1, GapGrows
<1>7. Gap(rewinds)' = Gap(rewinds') /\ Gap(rewinds + 1)' = Gap(rewinds' + 1)
  BY DEF Gap
<1>8. ChunkSize = 1 => rewinds = 0 /\ Gap(rewinds) = 0 /\ Gap(rewinds + 1) = 0 /\ popped >= latest
  BY <1>1, <1>4, <1>5
<1>9. rewinds' \in {rewinds, rewinds + 1} /\ rewinds' \in Nat /\ (ChunkSize = 1 => rewinds' = 0)
  BY <1>1, <1>3, <1>4, <1>8
<1>10. Gap(rewinds') \in Int /\ 0 <= Gap(rewinds')
  BY <1>1, <1>5, <1>6, <1>8, <1>9
<1>11. Gap(rewinds' + 1) \in Int /\ Gap(rewinds + 1) <= Gap(rewinds' + 1)
  <2>1. CASE ChunkSize = 1
    BY <1>5, <1>8, <1>9, <2>1
  <2>2. CASE ChunkSize >= 2
    BY <1>5, <1>6, <1>9, <2>2
  <2> QED
    BY <1>1, <2>1, <2>2
<1>12. Executed(k)'
  <2>1. Step' = popped
    BY <1>1, <1>3 DEF Step
  <2>2. k - popped <= Gap(rewinds')
    <3>1. CASE popped > h
      BY <1>2, <1>1, <1>10, <3>1
    <3>2. CASE ~(popped > h) /\ popped < latest
      <4>1. k = h /\ rewinds' = rewinds + 1
        BY <1>2, <1>3, <3>2
      <4> QED
        BY <1>4, <4>1
    <3>3. CASE ~(popped > h) /\ ~(popped < latest)
      <4>1. k = h /\ rewinds' = rewinds
        BY <1>2, <1>3, <3>3
      <4>2. Step <= popped /\ Step \in Int
        BY <1>1, <3>3 DEF Step
      <4> QED
        BY <1>1, <1>4, <1>5, <4>1, <4>2
    <3> QED
      BY <3>1, <3>2, <3>3
  <2> QED
    BY <1>2, <1>1, <1>3, <1>7, <1>9, <2>1, <2>2 DEF Executed
<1>13. Observed(k)'
  <2>1. \A i \in 1..Len(pending) : pending[i].step \in Nat /\ pending[i].step <= h
    <3>1. \A i \in 1..Len(pending) : pending[i] \in Observation
      BY DEF TypeOK
    <3> QED
      BY <3>1 DEF Observation, Rewindable, Observed
  <2>2. obs # NoObs => obs.step \in Nat /\ obs.step <= h
    BY DEF TypeOK, Observation, Rewindable, Observed
  <2>3. predictor[client] # "wait" => taken[client].step <= k
    <3>1. predictor[client] # "wait" => taken[client] \in Observation
      BY DEF TypeOK, HandOver
    <3> QED
      BY <1>2, <1>1, <3>1 DEF Observation, Rewindable, Observed
  <2> QED
    BY <1>2, <1>1, <1>3, <2>1, <2>2, <2>3 DEF Observed
<1>14. Planned(k)'
  <2>1. ASSUME NEW s \in Seq(Nat), UpTo(h + ChunkSize - 1, s)
        PROVE  UpTo(k + ChunkSize - 1, s)
    BY <1>2, <1>1, <2>1 DEF UpTo
  <2>2. /\ UpTo(k + ChunkSize - 1, queue) /\ UpTo(k + ChunkSize - 1, chunk)
        /\ UpTo(k + ChunkSize - 1, future)
    BY <2>1 DEF TypeOK, Rewindable, Planned
  <2> QED
    BY <1>3, <2>2 DEF Planned, UpTo
<1>15. Repeatable(k)'
  <2>1. ASSUME NEW s \in Seq(Nat), Behind(h, s), Behind(popped, s)
        PROVE  \A i \in 1..Len(s) : k - s[i] <= Gap(rewinds' + 1)
    BY <1>2, <1>1, <1>5, <1>11, <2>1 DEF Behind
  <2>2. \A i \in 1..Len(queue) : k - queue[i] <= Gap(rewinds' + 1)
    BY <2>1 DEF TypeOK, Rewindable, Repeatable, PerformAction
  <2>3. \A i \in 1..Len(future) : k - future[i] <= Gap(rewinds' + 1)
    BY <2>1 DEF TypeOK, Rewindable, Repeatable, PerformAction
  <2>4. \A i \in 1..Len(queue), j \in 1..Len(future) :
           queue[i] - future[j] <= Gap(rewinds' + 1)
    <3>1. \A i \in 1..Len(queue), j \in 1..Len(future) :
             queue[i] - future[j] <= Gap(rewinds + 1)
      BY DEF Rewindable, Repeatable, Behind
    <3>2. /\ \A i \in 1..Len(queue) : queue[i] \in Nat
          /\ \A i \in 1..Len(future) : future[i] \in Nat
      BY DEF TypeOK
    <3> QED
      BY <1>5, <1>11, <3>1, <3>2
  <2> QED
    BY <1>3, <1>7, <2>2, <2>3, <2>4 DEF Repeatable, Behind
<1>16. latest - latest' <= rewinds' * (ChunkSize - 2) + 1
  <2>1. CASE popped < latest
    <3>1. rewinds' = rewinds + 1 /\ latest - popped <= Gap(rewinds + 1)
      BY <1>1, <1>3, <1>4, <1>5, <2>1
    <3> QED
      BY <1>3, <1>5, <3>1
  <2>2. CASE ~(popped < latest)
    <3>1. latest - latest' <= 0 /\ rewinds' = rewinds
      BY <1>1, <1>3, <2>2
    <3>2. rewinds * (ChunkSize - 2) >= 0 \/ ChunkSize = 1
      BY <1>1
    <3>3. ChunkSize = 1 => rewinds * (ChunkSize - 2) = 0
      BY <1>4
    <3> QED
      BY <1>1, <1>3, <3>1, <3>2, <3>3
  <2> QED
    BY <2>1, <2>2
<1>17. Rewindable(k)'
  BY <1>12, <1>13, <1>14, <1>15 DEF Rewindable
<1> QED
  BY <1>16, <1>17

LEMMA RestartForgets ==
  ASSUME TypeOK, Unconnected, Restart
  PROVE  Rewindable(0)'
<1>1. /\ client' = client + 1 /\ client \in Int /\ client' \in Clients
      /\ control' = "check" /\ queue' = <<>> /\ latest' = -1 /\ obs' = NoObs
      /\ chunk' = <<>> /\ future' = <<>> /\ pending' = <<>> /\ rewinds' = 0
  BY BoundAssumption DEF Restart, CanFail, BoundAssumption, Clients, TypeOK
<1>2. predictor'[client'] = "wait"
  BY <1>1 DEF Restart, EndPrediction, Unconnected, TypeOK
<1>3. \A x : x \notin 1..Len(<<>>)
  BY EmptyType
<1>4. Executed(0)'
  BY <1>1 DEF Executed, Step, Gap
<1>5. Observed(0)'
  BY <1>1, <1>2, <1>3 DEF Observed
<1>6. Planned(0)'
  BY <1>1, <1>3 DEF Planned, UpTo
<1>7. Repeatable(0)'
  BY <1>1, <1>3 DEF Repeatable, Behind
<1> QED
  BY <1>4, <1>5, <1>6, <1>7 DEF Rewindable

LEMMA RewindInitially == Init => RewindInv /\ Unconnected
<1> SUFFICES ASSUME Init PROVE RewindInv /\ Unconnected
  OBVIOUS
<1>1. \A x : x \notin 1..Len(<<>>)
  BY EmptyType
<1>2. 1 \in Clients
  BY BoundAssumption DEF BoundAssumption, Clients
<1>3. Executed(0)
  BY DEF Init, Executed, Step, Gap
<1>4. Observed(0)
  BY <1>1, <1>2 DEF Init, Observed
<1>5. Planned(0)
  BY <1>1 DEF Init, Planned, UpTo
<1>6. Repeatable(0)
  BY <1>1 DEF Init, Repeatable, Behind
<1>7. RewindInv
  BY <1>3, <1>4, <1>5, <1>6 DEF RewindInv, Rewindable
<1>8. Unconnected
  BY DEF Init, Unconnected
<1> QED
  BY <1>7, <1>8

LEMMA ExecutedStep ==
  ASSUME NEW h \in Nat, Executed(h), [Next]_vars, ~Restart, ~PerformAction
  PROVE  Executed(h)' /\ latest' = latest
<1> USE DEF clientVars, receiverVars, predictorVars, serverVars, mergeHistory,
            tokenHistory, historyVars
<1>1. ASSUME UNCHANGED <<latest, rewinds>> PROVE Executed(h)' /\ latest' = latest
  BY <1>1 DEF Executed, Step, Gap
<1>2. CASE ControlLoop
  BY <1>1, <1>2 DEF ControlLoop, CheckActions, StopClient, PopAction, CheckReady,
     MarkObservation, SendObservation, ClearMustGo
<1>3. CASE Sender \/ Receiver
  BY <1>1, <1>3 DEF Sender, FilterObservation, EvictObservation, PutObservation,
     Receiver, BeginIteration, EndIteration, SelectAction, InstallQueue, GrantMustGo
<1>4. CASE TakeObservation \/ DeliverChunk
           \/ \E c \in Clients : RecordTimestep(c) \/ Preprocess(c) \/ FailInVain(c)
  BY <1>1, <1>4 DEF TakeObservation, DeliverChunk, RecordTimestep, Preprocess, FailInVain
<1>5. CASE Faults \/ Terminated \/ UNCHANGED vars
  BY <1>1, <1>5 DEF Faults, CaptureFails, SendFails, PredictionFails, Terminated, vars
<1> QED
  BY <1>2, <1>3, <1>4, <1>5 DEF Next, Predictor

LEMMA RewindStep ==
  ASSUME TypeOK, HandOver, MergeInv, Unconnected, RewindInv, [Next]_vars
  PROVE  /\ RewindInv'
         /\ [client' = client => latest - latest' <= rewinds' * (ChunkSize - 2) + 1]_latest
<1>1. PICK h \in Nat : Rewindable(h)
  BY DEF RewindInv
<1>2. CASE PerformAction
  BY <1>1, <1>2, PerformStep DEF RewindInv
<1>3. CASE Restart
  <2>1. client' = client + 1 /\ client \in Int
    BY <1>3 DEF Restart, TypeOK, Clients
  <2>2. Rewindable(0)'
    BY <1>3, RestartForgets
  <2> QED
    BY <2>1, <2>2 DEF RewindInv
<1>4. CASE ~PerformAction /\ ~Restart
  <2>1. Executed(h)' /\ latest' = latest
    BY <1>1, <1>4, ExecutedStep DEF Rewindable
  <2>2. Observed(h)' /\ Planned(h)'
    BY <1>1, <1>4, ObservedStep, PlannedStep DEF Rewindable
  <2>3. Repeatable(h)'
    BY <1>1, <1>4, RepeatableStep
  <2> QED
    BY <2>1, <2>2, <2>3 DEF RewindInv, Rewindable
<1> QED
  BY <1>2, <1>3, <1>4

(* A merge that races with the execution sets the arm back by less than a      *)
(* chunk the first time, and by ChunkSize - 2 timesteps more each time after:  *)
(* however slow the server, however the threads interleave.                    *)
THEOREM RewindsBounded == Spec => RewindBounded
<1>1. Init => RewindInv /\ Unconnected
  BY RewindInitially
<1>2. TypeOK /\ HandOver /\ MergeInv /\ Unconnected /\ RewindInv /\ [Next]_vars
        => RewindInv' /\ Unconnected'
  BY RewindStep, UnconnectedStep
<1>3. TypeOK /\ HandOver /\ MergeInv /\ Unconnected /\ RewindInv /\ [Next]_vars
        => [client' = client => latest - latest' <= rewinds' * (ChunkSize - 2) + 1]_latest
  BY RewindStep
<1> QED
  BY <1>1, <1>2, <1>3, TypeCorrect, MergeInvariant, PTL DEF Spec, RewindBounded
=============================================================================
