---------------------------- MODULE HighlightProofs ----------------------------
(***************************************************************************)
(* Proofs about Highlight, for any length of the ring, any memory, and any *)
(* number of frames, pushes and failures.                                  *)
(***************************************************************************)
EXTENDS Highlight, SequenceTheorems, TLAPS

Frame == 0..MaxFrames
Loop == {"tick", "frame", "route"}
Closed == {"join", "final", "release", "ended"}

Flags ==
    /\ saveReq \in BOOLEAN /\ pushReq \in BOOLEAN
    /\ escaping \in BOOLEAN /\ stop \in BOOLEAN
    /\ live \in BOOLEAN /\ broken \in BOOLEAN /\ finalized \in BOOLEAN
    /\ hubFinal \in BOOLEAN /\ released \in BOOLEAN

Ranges ==
    /\ fit \in Nat /\ ring \in Seq(Frame) /\ account \in Nat
    /\ frame \in Frame /\ pressed \in Frame /\ faults \in 0..MaxFaults
    /\ buffer \in Seq(Frame) /\ episodes \in Seq(Seq(Frame))
    /\ queued \in Nat /\ hub \in Nat

Places ==
    /\ fit \in Fits
    /\ main \in Loop \cup Closed \cup {"lock", "save", "closing", "lastLock",
                                       "lastSave", "finalize"}
    /\ lock \in {"free", "main", "push"} /\ push \in {"idle", "waiting", "locked"}
    /\ lock = "main" <=> main \in {"save", "lastSave"}
    /\ lock = "push" <=> push = "locked"

(* What the end of the session rests on. *)
Ending ==
    /\ finalized <=> main \in Closed
    /\ main \in {"final", "release", "ended"} => queued = 0 /\ push = "idle"
    /\ released => main = "ended"
    /\ hub <= Len(episodes)
    /\ PushToHub /\ (main = "release" \/ released) =>
        hub = Len(episodes) /\ (hub > 0 => hubFinal)
    /\ main \in Closed \cup {"finalize"} => buffer = <<>> \/ broken
    /\ main = "closing" /\ ~live => buffer = <<>> \/ broken

(* The frames that went to the dataset or to the ring. *)
Past == IF main \in {"frame", "route"} THEN frame - 1 ELSE frame

Stretch(s) == \A i \in 1..Len(s) : s[i] = s[1] + i - 1

Recorded ==
    /\ \A e \in 1..Len(episodes) : episodes[e] # <<>> /\ Stretch(episodes[e])
    /\ \A e \in 2..Len(episodes) :
        episodes[e - 1][Len(episodes[e - 1])] < episodes[e][1]
    /\ Stretch(buffer)
    /\ buffer # <<>> => LastRecorded < buffer[1]

(* What is recorded of the frames of the session, while it goes on. *)
Recording ==
    /\ main \in {"lock", "save"} => live
    /\ live /\ main \in {"tick", "frame", "lock", "save"} => buffer # <<>>
    /\ main \in Loop \cup {"lock", "save"} =>
        /\ LastRecorded <= Past /\ 0 <= Past
        /\ IF live THEN buffer # <<>> => buffer[Len(buffer)] = Past ELSE buffer = <<>>

Smaller(a, b) == IF a <= b THEN a ELSE b

(* The frames the memory allows, of which there is always one. *)
Room == IF fit = 0 THEN 1 ELSE fit

(* The ring after k frames. *)
Size(k) == Smaller(k, Smaller(MaxLen, Room))

Held ==
    /\ live => ring = <<>> /\ account = 0
    /\ ~live /\ main \in Loop =>
        /\ Len(ring) = Size(Past - LastRecorded)
        /\ \A i \in 1..Len(ring) : ring[i] = Past - Len(ring) + i
        /\ MaxLen > 0 => account = Smaller(Past - LastRecorded, Room)

(* How far the loop may go on after save was pressed. *)
Asked ==
    /\ live /\ main \in Loop \cup {"lock", "save"} /\ buffer # <<>> =>
        buffer[1] <= pressed + 1
    /\ live /\ main = "route" /\ buffer = <<>> => frame <= pressed + 1
    /\ main \in {"lock", "save"} /\ saveReq => pressed = frame
    /\ ~live /\ saveReq /\ main \in {"tick", "frame"} =>
        (IF ring = <<>> THEN Past + 1 ELSE ring[1]) <= pressed + 1
    /\ ~live /\ saveReq /\ main = "route" =>
        (IF ring = <<>> THEN frame ELSE ring[1]) <= pressed

Inv ==
    /\ Flags /\ Ranges /\ Places /\ Ending
    /\ Recorded /\ Recording /\ Held /\ Asked
-----------------------------------------------------------------------------
(* The ring is never longer than what went into it. *)
LEMMA Sized ==
    ASSUME NEW k \in Nat, fit \in Nat
    PROVE  Size(k) \in Nat /\ Size(k) <= k
BY HighlightAssumption DEF Size, Smaller, Room

(* A frame that is appended to a stretch that ends before it. *)
LEMMA Appended ==
    ASSUME NEW s \in Seq(Frame), NEW f \in Frame, Stretch(s),
           s # <<>> => s[Len(s)] = f - 1
    PROVE  LET t == Append(s, f)
           IN  /\ t \in Seq(Frame) /\ t # <<>> /\ Stretch(t)
               /\ Len(t) = Len(s) + 1 /\ t[Len(t)] = f
               /\ t[1] = IF s = <<>> THEN f ELSE s[1]
<1>1. Append(s, f) \in Seq(Frame) /\ Len(Append(s, f)) = Len(s) + 1
      /\ \A i \in 1..Len(s) : Append(s, f)[i] = s[i]
      /\ Append(s, f)[Len(s) + 1] = f
  OBVIOUS
<1>2. s # <<>> => f = s[1] + Len(s)
  <2>1. s # <<>> => Len(s) \in 1..Len(s) BY EmptySeq
  <2>2. s # <<>> => s[1] \in Int /\ f \in Int
    <3>1. s # <<>> => s[1] \in Frame BY <2>1
    <3> QED BY <3>1, HighlightAssumption DEF Frame
  <2>3. s # <<>> => s[Len(s)] = s[1] + Len(s) - 1 BY <2>1 DEF Stretch
  <2> QED BY <2>1, <2>2, <2>3
<1>3. Stretch(Append(s, f))
  BY <1>1, <1>2 DEF Stretch, Frame
<1> QED BY <1>1, <1>3

(* The last recorded frame is a frame, or zero. *)
LEMMA LastTyped == ASSUME Inv PROVE LastRecorded \in Nat
<1> USE DEF Inv
<1>1. episodes # <<>> => Len(episodes) \in 1..Len(episodes) BY EmptySeq DEF Ranges
<1>2. episodes # <<>> => episodes[Len(episodes)] \in Seq(Frame) /\ episodes[Len(episodes)] # <<>>
  BY <1>1 DEF Ranges, Recorded
<1>3. episodes # <<>> => episodes[Len(episodes)][Len(episodes[Len(episodes)])] \in Frame
  BY <1>2, EmptySeq
<1> QED BY <1>3 DEF LastRecorded, Last, Frame

(* The invariant holds at first. *)
LEMMA Initially == ASSUME Init PROVE Inv
<1> USE HighlightAssumption DEF Init
<1>1. Flags BY DEF Flags
<1>2. Ranges BY DEF Ranges, Frame
<1>3. Places /\ Ending BY DEF Places, Ending, Loop, Closed
<1>4. Recorded BY DEF Recorded, Stretch
<1>5. Recording BY DEF Recording, Loop, Past, LastRecorded
<1>6. Held BY DEF Held, Past, LastRecorded, Size, Smaller, Room
<1>7. Asked BY DEF Asked
<1> QED BY <1>1, <1>2, <1>3, <1>4, <1>5, <1>6, <1>7 DEF Inv

(* Keys and signals. *)
LEMMA OperatorStep ==
    ASSUME Inv, Operator
    PROVE  Inv'
<1> USE HighlightAssumption DEF Inv, ringVars, keyVars, dataVars, pushVars, hubVars
<1>1. CASE Operator
  <2>1. Flags'
    BY <1>1 DEF Flags, Operator, PressSave, PressPush, PressEscape, FinishEscape,
       Interrupt
  <2>2. Ranges'
    <3>1. ring # <<>> => Head(ring) \in Frame BY HeadTailProperties DEF Ranges
    <3> QED
      BY <1>1, <3>1 DEF Ranges, Frame, Operator, PressSave, PressPush, PressEscape,
         FinishEscape, Interrupt
  <2>3. Places'
    BY <1>1 DEF Places, Flags, Loop, Closed, Operator, PressSave, PressPush,
       PressEscape, FinishEscape, Interrupt
  <2>4. Ending'
    BY <1>1 DEF Ending, Recording, Ranges, Places, Flags, Loop, Closed, Operator,
       PressSave, PressPush, PressEscape, FinishEscape, Interrupt
  <2>5. Recorded'
    BY <1>1 DEF Recorded, Recording, Stretch, LastRecorded, Loop, Past, Operator,
       PressSave, PressPush, PressEscape, FinishEscape, Interrupt
  <2>6. Recording'
    BY <1>1 DEF Recording, Places, LastRecorded, Loop, Closed, Past, Ranges, Frame,
       Operator, PressSave, PressPush, PressEscape, FinishEscape, Interrupt
  <2>7. Held'
    BY <1>1 DEF Held, Recording, Places, Loop, Past, LastRecorded, Closed, Size, Room,
       Smaller, Operator, PressSave, PressPush, PressEscape, FinishEscape, Interrupt
  <2>8. Asked'
    <3>1. UNCHANGED <<ring, main, live, frame, buffer>> /\ Past' = Past
      BY <1>1 DEF Operator, ringVars, dataVars, Past
    <3>2. ring # <<>> => Head(ring) = ring[1] OBVIOUS
    <3>3. CASE UNCHANGED pressed /\ (saveReq' => saveReq)
      BY <3>1, <3>3 DEF Asked
    <3>4. CASE ~saveReq /\ pressed' = IF ring = <<>> THEN frame ELSE ring[1]
      <4>1. CASE live
        <5>1. pressed' = frame BY <3>4, <4>1 DEF Held
        <5>2. main \in Loop \cup {"lock", "save"} /\ buffer # <<>> => buffer[1] <= frame
          <6>1. buffer # <<>> => Len(buffer) \in 1..Len(buffer) BY EmptySeq DEF Ranges
          <6>2. buffer # <<>> => buffer[1] \in Nat /\ buffer[Len(buffer)] = buffer[1] + Len(buffer) - 1
            BY <6>1 DEF Recorded, Stretch, Ranges, Frame
          <6> QED BY <4>1, <6>1, <6>2 DEF Recording, Ranges, Frame, Past
        <5> QED BY <3>1, <4>1, <5>1, <5>2 DEF Asked, Recording, Ranges, Frame
      <4>2. CASE ~live
        BY <3>1, <3>4, <4>2 DEF Asked, Recording, Past, Ranges, Frame
      <4> QED BY <4>1, <4>2
    <3>5. \/ UNCHANGED pressed /\ (saveReq' => saveReq)
          \/ ~saveReq /\ pressed' = IF ring = <<>> THEN frame ELSE ring[1]
      BY <1>1, <3>2 DEF Operator, PressSave, PressPush, PressEscape, FinishEscape,
         Interrupt, Flags
    <3> QED BY <3>3, <3>4, <3>5
  <2> QED BY <2>1, <2>2, <2>3, <2>4, <2>5, <2>6, <2>7, <2>8 DEF Inv
<1> QED BY <1>1

(* The loop, where nothing is recorded. *)
LEMMA LoopSteps ==
    ASSUME Inv, LoopEnds \/ NextFrame \/ NoRequest \/ IterationFails
    PROVE  Inv'
<1> USE HighlightAssumption DEF Inv, ringVars, keyVars, dataVars, pushVars, hubVars
<1>1. CASE LoopEnds
  <2>1. Flags' BY <1>1 DEF Flags, LoopEnds
  <2>2. Ranges' BY <1>1 DEF Ranges, Frame, LoopEnds
  <2>3. Places' BY <1>1 DEF Places, Flags, Loop, Closed, LoopEnds
  <2>4. Ending'
    BY <1>1 DEF Ending, Recording, Ranges, Places, Flags, Loop, Closed, LoopEnds
  <2>5. Recorded'
    BY <1>1 DEF Recorded, Recording, Stretch, LastRecorded, Loop, Past, LoopEnds
  <2>6. Recording'
    BY <1>1 DEF Recording, Places, LastRecorded, Loop, Closed, Past, Ranges, Frame,
       LoopEnds
  <2>7. Held'
    BY <1>1 DEF Held, Recording, Places, Loop, Past, LastRecorded, Closed, Size, Room,
       Smaller, LoopEnds
  <2>8. Asked'
    BY <1>1 DEF Asked, Held, Recording, Ranges, Frame, Places, Past, Loop, Closed,
       LoopEnds
  <2> QED BY <2>1, <2>2, <2>3, <2>4, <2>5, <2>6, <2>7, <2>8 DEF Inv
<1>2. CASE NextFrame
  <2>1. Flags' BY <1>2 DEF Flags, NextFrame
  <2>2. Ranges' BY <1>2 DEF Ranges, Frame, NextFrame
  <2>3. Places' BY <1>2 DEF Places, Flags, Loop, Closed, NextFrame
  <2>4. Ending'
    BY <1>2 DEF Ending, Recording, Ranges, Places, Flags, Loop, Closed, NextFrame
  <2>5. Recorded'
    BY <1>2 DEF Recorded, Recording, Stretch, LastRecorded, Loop, Past, NextFrame
  <2>6. Recording'
    BY <1>2 DEF Recording, Places, LastRecorded, Loop, Closed, Past, Ranges, Frame,
       NextFrame
  <2>7. Held'
    <3>1. /\ Past' = Past /\ UNCHANGED <<LastRecorded, ring, live, account, fit>>
          /\ main = "tick" /\ main' = "frame"
      BY <1>2 DEF NextFrame, Past, LastRecorded, Ranges, Frame
    <3> QED BY <3>1 DEF Held, Loop, Size, Room, Smaller
  <2>8. Asked'
    BY <1>2 DEF Asked, Held, Recording, Ranges, Frame, Places, Past, Loop, Closed,
       NextFrame
  <2> QED BY <2>1, <2>2, <2>3, <2>4, <2>5, <2>6, <2>7, <2>8 DEF Inv
<1>3. CASE NoRequest
  <2>1. Flags' BY <1>3 DEF Flags, NoRequest
  <2>2. Ranges' BY <1>3 DEF Ranges, Frame, NoRequest
  <2>3. Places' BY <1>3 DEF Places, Flags, Loop, Closed, NoRequest
  <2>4. Ending'
    BY <1>3 DEF Ending, Recording, Ranges, Places, Flags, Loop, Closed, NoRequest
  <2>5. Recorded'
    BY <1>3 DEF Recorded, Recording, Stretch, LastRecorded, Loop, Past, NoRequest
  <2>6. Recording'
    BY <1>3 DEF Recording, Places, LastRecorded, Loop, Closed, Past, Ranges, Frame,
       NoRequest
  <2>7. Held'
    BY <1>3 DEF Held, Recording, Places, Loop, Past, LastRecorded, Closed, Size, Room,
       Smaller, NoRequest
  <2>8. Asked'
    BY <1>3 DEF Asked, Held, Recording, Ranges, Frame, Places, Past, Loop, Closed,
       NoRequest
  <2> QED BY <2>1, <2>2, <2>3, <2>4, <2>5, <2>6, <2>7, <2>8 DEF Inv
<1>4. CASE IterationFails
  <2>1. Flags' BY <1>4 DEF Flags, IterationFails, CallFails
  <2>2. Ranges' BY <1>4 DEF Ranges, Frame, IterationFails, CallFails
  <2>3. Places' BY <1>4 DEF Places, Flags, Loop, Closed, IterationFails, CallFails
  <2>4. Ending'
    BY <1>4 DEF Ending, Recording, Ranges, Places, Flags, Loop, Closed, IterationFails,
       CallFails
  <2>5. Recorded'
    BY <1>4 DEF Recorded, Recording, Stretch, LastRecorded, Loop, Past, IterationFails,
       CallFails
  <2>6. Recording'
    BY <1>4 DEF Recording, Places, LastRecorded, Loop, Closed, Past, Ranges, Frame,
       IterationFails, CallFails
  <2>7. Held'
    BY <1>4 DEF Held, Recording, Places, Loop, Past, LastRecorded, Closed, Size, Room,
       Smaller, IterationFails, CallFails
  <2>8. Asked'
    BY <1>4 DEF Asked, Held, Recording, Ranges, Frame, Places, Past, Loop, Closed,
       IterationFails, CallFails
  <2> QED BY <2>1, <2>2, <2>3, <2>4, <2>5, <2>6, <2>7, <2>8 DEF Inv
<1> QED BY <1>1, <1>2, <1>3, <1>4

(* The end of the session. *)
LEMMA EndSteps ==
    ASSUME Inv, LeaveLoop \/ Finalize \/ JoinPusher \/ FinalPush \/ ReleaseHardware
    PROVE  Inv'
<1> USE HighlightAssumption DEF Inv, ringVars, keyVars, dataVars, pushVars, hubVars
<1>1. CASE LeaveLoop
  <2>1. Flags' BY <1>1 DEF Flags, LeaveLoop
  <2>2. Ranges' BY <1>1 DEF Ranges, Frame, LeaveLoop
  <2>3. Places' BY <1>1 DEF Places, Flags, Loop, Closed, LeaveLoop
  <2>4. Ending'
    BY <1>1 DEF Ending, Recording, Ranges, Places, Flags, Loop, Closed, LeaveLoop
  <2>5. Recorded'
    BY <1>1 DEF Recorded, Recording, Stretch, LastRecorded, Loop, Past, LeaveLoop
  <2>6. Recording'
    BY <1>1 DEF Recording, Places, LastRecorded, Loop, Closed, Past, Ranges, Frame,
       LeaveLoop
  <2>7. Held'
    BY <1>1 DEF Held, Recording, Places, Loop, Past, LastRecorded, Closed, Size, Room,
       Smaller, LeaveLoop
  <2>8. Asked'
    BY <1>1 DEF Asked, Held, Recording, Ranges, Frame, Places, Past, Loop, Closed,
       LeaveLoop
  <2> QED BY <2>1, <2>2, <2>3, <2>4, <2>5, <2>6, <2>7, <2>8 DEF Inv
<1>2. CASE Finalize
  <2>1. Flags' BY <1>2 DEF Flags, Finalize
  <2>2. Ranges' BY <1>2 DEF Ranges, Frame, Finalize
  <2>3. Places' BY <1>2 DEF Places, Flags, Loop, Closed, Finalize
  <2>4. Ending'
    BY <1>2 DEF Ending, Recording, Ranges, Places, Flags, Loop, Closed, Finalize
  <2>5. Recorded'
    BY <1>2 DEF Recorded, Recording, Stretch, LastRecorded, Loop, Past, Finalize
  <2>6. Recording'
    BY <1>2 DEF Recording, Places, LastRecorded, Loop, Closed, Past, Ranges, Frame,
       Finalize
  <2>7. Held'
    BY <1>2 DEF Held, Recording, Places, Loop, Past, LastRecorded, Closed, Size, Room,
       Smaller, Finalize
  <2>8. Asked'
    BY <1>2 DEF Asked, Held, Recording, Ranges, Frame, Places, Past, Loop, Closed,
       Finalize
  <2> QED BY <2>1, <2>2, <2>3, <2>4, <2>5, <2>6, <2>7, <2>8 DEF Inv
<1>3. CASE JoinPusher
  <2>1. Flags' BY <1>3 DEF Flags, JoinPusher
  <2>2. Ranges' BY <1>3 DEF Ranges, Frame, JoinPusher
  <2>3. Places' BY <1>3 DEF Places, Flags, Loop, Closed, JoinPusher
  <2>4. Ending'
    BY <1>3 DEF Ending, Recording, Ranges, Places, Flags, Loop, Closed, JoinPusher
  <2>5. Recorded'
    BY <1>3 DEF Recorded, Recording, Stretch, LastRecorded, Loop, Past, JoinPusher
  <2>6. Recording'
    BY <1>3 DEF Recording, Places, LastRecorded, Loop, Closed, Past, Ranges, Frame,
       JoinPusher
  <2>7. Held'
    BY <1>3 DEF Held, Recording, Places, Loop, Past, LastRecorded, Closed, Size, Room,
       Smaller, JoinPusher
  <2>8. Asked'
    BY <1>3 DEF Asked, Held, Recording, Ranges, Frame, Places, Past, Loop, Closed,
       JoinPusher
  <2> QED BY <2>1, <2>2, <2>3, <2>4, <2>5, <2>6, <2>7, <2>8 DEF Inv
<1>4. CASE FinalPush
  <2>1. Flags' BY <1>4 DEF Flags, FinalPush, CallFails
  <2>2. Ranges' BY <1>4 DEF Ranges, Frame, FinalPush, CallFails
  <2>3. Places' BY <1>4 DEF Places, Flags, Loop, Closed, FinalPush, CallFails
  <2>4. Ending'
    <3>1. episodes = <<>> => hub = 0 /\ Len(episodes) = 0 BY DEF Ending, Ranges
    <3>2. finalized = TRUE BY <1>4 DEF FinalPush, Flags, Ending, Closed
    <3>3. main = "final" /\ finalized /\ main' \in {"release", "ended"}
          /\ UNCHANGED <<buffer, broken, episodes, finalized, queued, push, live, released>>
      BY <1>4 DEF FinalPush, Ending, Closed, dataVars, pushVars
    <3>4. ASSUME PushToHub, main' = "release" PROVE hub' = Len(episodes) /\ (hub' > 0 => hubFinal')
      <4>1. CASE episodes = <<>>
        <5>1. UNCHANGED hub BY <1>4, <3>4, <4>1 DEF FinalPush, hubVars
        <5> QED BY <3>1, <4>1, <5>1
      <4>2. CASE episodes # <<>>
        <5>1. hub' = Len(episodes) BY <1>4, <3>4, <4>2 DEF FinalPush
        <5>2. hubFinal' = TRUE BY <1>4, <3>2, <3>4, <4>2 DEF FinalPush
        <5> QED BY <5>1, <5>2
      <4> QED BY <4>1, <4>2
    <3>5. hub' <= Len(episodes)
      BY <1>4 DEF FinalPush, hubVars, Ending, Ranges
    <3> QED BY <3>3, <3>4, <3>5 DEF Ending, Closed
  <2>5. Recorded'
    BY <1>4 DEF Recorded, Recording, Stretch, LastRecorded, Loop, Past, FinalPush,
       CallFails
  <2>6. Recording'
    BY <1>4 DEF Recording, Places, LastRecorded, Loop, Closed, Past, Ranges, Frame,
       FinalPush, CallFails
  <2>7. Held'
    BY <1>4 DEF Held, Recording, Places, Loop, Past, LastRecorded, Closed, Size, Room,
       Smaller, FinalPush, CallFails
  <2>8. Asked'
    BY <1>4 DEF Asked, Held, Recording, Ranges, Frame, Places, Past, Loop, Closed,
       FinalPush, CallFails
  <2> QED BY <2>1, <2>2, <2>3, <2>4, <2>5, <2>6, <2>7, <2>8 DEF Inv
<1>5. CASE ReleaseHardware
  <2>1. Flags' BY <1>5 DEF Flags, ReleaseHardware
  <2>2. Ranges' BY <1>5 DEF Ranges, Frame, ReleaseHardware
  <2>3. Places' BY <1>5 DEF Places, Flags, Loop, Closed, ReleaseHardware
  <2>4. Ending'
    BY <1>5 DEF Ending, Recording, Ranges, Places, Flags, Loop, Closed, ReleaseHardware
  <2>5. Recorded'
    BY <1>5 DEF Recorded, Recording, Stretch, LastRecorded, Loop, Past, ReleaseHardware
  <2>6. Recording'
    BY <1>5 DEF Recording, Places, LastRecorded, Loop, Closed, Past, Ranges, Frame,
       ReleaseHardware
  <2>7. Held'
    BY <1>5 DEF Held, Recording, Places, Loop, Past, LastRecorded, Closed, Size, Room,
       Smaller, ReleaseHardware
  <2>8. Asked'
    BY <1>5 DEF Asked, Held, Recording, Ranges, Frame, Places, Past, Loop, Closed,
       ReleaseHardware
  <2> QED BY <2>1, <2>2, <2>3, <2>4, <2>5, <2>6, <2>7, <2>8 DEF Inv
<1> QED BY <1>1, <1>2, <1>3, <1>4, <1>5

(* The pusher. *)
LEMMA PushSteps ==
    ASSUME Inv, StartPush \/ LockForPush \/ FinishPush
    PROVE  Inv'
<1> USE HighlightAssumption DEF Inv, ringVars, keyVars, dataVars, pushVars, hubVars
<1>1. CASE StartPush
  <2>1. Flags' BY <1>1 DEF Flags, StartPush
  <2>2. Ranges' BY <1>1 DEF Ranges, Frame, StartPush
  <2>3. Places' BY <1>1 DEF Places, Flags, Loop, Closed, StartPush
  <2>4. Ending'
    BY <1>1 DEF Ending, Recording, Ranges, Places, Flags, Loop, Closed, StartPush
  <2>5. Recorded'
    BY <1>1 DEF Recorded, Recording, Stretch, LastRecorded, Loop, Past, StartPush
  <2>6. Recording'
    BY <1>1 DEF Recording, Places, LastRecorded, Loop, Closed, Past, Ranges, Frame,
       StartPush
  <2>7. Held'
    BY <1>1 DEF Held, Recording, Places, Loop, Past, LastRecorded, Closed, Size, Room,
       Smaller, StartPush
  <2>8. Asked'
    BY <1>1 DEF Asked, Held, Recording, Ranges, Frame, Places, Past, Loop, Closed,
       StartPush
  <2> QED BY <2>1, <2>2, <2>3, <2>4, <2>5, <2>6, <2>7, <2>8 DEF Inv
<1>2. CASE LockForPush
  <2>1. Flags' BY <1>2 DEF Flags, LockForPush
  <2>2. Ranges' BY <1>2 DEF Ranges, Frame, LockForPush
  <2>3. Places' BY <1>2 DEF Places, Flags, Loop, Closed, LockForPush
  <2>4. Ending'
    BY <1>2 DEF Ending, Recording, Ranges, Places, Flags, Loop, Closed, LockForPush
  <2>5. Recorded'
    BY <1>2 DEF Recorded, Recording, Stretch, LastRecorded, Loop, Past, LockForPush
  <2>6. Recording'
    BY <1>2 DEF Recording, Places, LastRecorded, Loop, Closed, Past, Ranges, Frame,
       LockForPush
  <2>7. Held'
    BY <1>2 DEF Held, Recording, Places, Loop, Past, LastRecorded, Closed, Size, Room,
       Smaller, LockForPush
  <2>8. Asked'
    BY <1>2 DEF Asked, Held, Recording, Ranges, Frame, Places, Past, Loop, Closed,
       LockForPush
  <2> QED BY <2>1, <2>2, <2>3, <2>4, <2>5, <2>6, <2>7, <2>8 DEF Inv
<1>3. CASE FinishPush
  <2>1. Flags' BY <1>3 DEF Flags, FinishPush, CallFails
  <2>2. Ranges' BY <1>3 DEF Ranges, Frame, FinishPush, CallFails
  <2>3. Places' BY <1>3 DEF Places, Flags, Loop, Closed, FinishPush, CallFails
  <2>4. Ending'
    BY <1>3 DEF Ending, Recording, Ranges, Places, Flags, Loop, Closed, FinishPush,
       CallFails
  <2>5. Recorded'
    BY <1>3 DEF Recorded, Recording, Stretch, LastRecorded, Loop, Past, FinishPush,
       CallFails
  <2>6. Recording'
    BY <1>3 DEF Recording, Places, LastRecorded, Loop, Closed, Past, Ranges, Frame,
       FinishPush, CallFails
  <2>7. Held'
    BY <1>3 DEF Held, Recording, Places, Loop, Past, LastRecorded, Closed, Size, Room,
       Smaller, FinishPush, CallFails
  <2>8. Asked'
    BY <1>3 DEF Asked, Held, Recording, Ranges, Frame, Places, Past, Loop, Closed,
       FinishPush, CallFails
  <2> QED BY <2>1, <2>2, <2>3, <2>4, <2>5, <2>6, <2>7, <2>8 DEF Inv
<1> QED BY <1>1, <1>2, <1>3

(* The ring becomes the beginning of an episode. *)
LEMMA FlushSteps ==
    ASSUME Inv, StartLive \/ FlushFails
    PROVE  Inv'
<1> USE HighlightAssumption DEF Inv, ringVars, keyVars, dataVars, pushVars, hubVars
<1>1. CASE StartLive
  <2>9. /\ \A i \in 1..Len(ring) : ring[i] = Past - Len(ring) + i /\ ring[i] \in Nat
        /\ ring # <<>> => Len(ring) \in 1..Len(ring) /\ LastRecorded < ring[1] /\ ring[1] <= Past
        /\ Len(ring) \in Nat /\ Past = frame - 1 /\ LastRecorded <= Past /\ LastRecorded \in Int
    <3>1. ~live /\ main = "frame" BY <1>1 DEF StartLive, FlushFails, TakeRequest
    <3>2. Past \in Nat /\ LastRecorded <= Past /\ Past = frame - 1
      BY <3>1 DEF Recording, Past, Ranges, Frame, Loop
    <3>3. LastRecorded \in Nat BY LastTyped
    <3>4. Past - LastRecorded \in Nat BY <3>2, <3>3
    <3>5. Len(ring) = Size(Past - LastRecorded) BY <3>1 DEF Held, Loop
    <3>6. Len(ring) \in Nat /\ Len(ring) <= Past - LastRecorded
      BY <3>4, <3>5, Sized DEF Ranges
    <3>7. \A i \in 1..Len(ring) : ring[i] = Past - Len(ring) + i BY <3>1 DEF Held, Loop
    <3>8. ring # <<>> => Len(ring) \in 1..Len(ring) BY EmptySeq DEF Ranges
    <3> QED BY <3>2, <3>3, <3>6, <3>7, <3>8
  <2>10. buffer' = ring
    <3>1. buffer = <<>> BY <1>1 DEF StartLive, TakeRequest, Recording, Loop
    <3> QED BY <1>1, <3>1, ConcatEmptySeq DEF StartLive, Ranges
  <2>1. Flags' BY <1>1 DEF Flags, StartLive, TakeRequest, EmptyRing
  <2>2. Ranges'
    <3> QED
      BY <1>1, <2>10 DEF Ranges, StartLive, TakeRequest, EmptyRing, dataVars, hubVars,
         pushVars
  <2>3. Places'
    BY <1>1 DEF Places, Flags, Loop, Closed, StartLive, TakeRequest, EmptyRing
  <2>4. Ending'
    BY <1>1 DEF Ending, Recording, Ranges, Places, Flags, Loop, Closed, StartLive,
       TakeRequest, EmptyRing
  <2>5. Recorded'
    <3>2. UNCHANGED <<episodes, LastRecorded>> BY <1>1 DEF StartLive, LastRecorded
    <3>3. Stretch(ring) /\ (ring # <<>> => LastRecorded < ring[1])
      BY <2>9 DEF Stretch
    <3> QED BY <2>10, <3>2, <3>3 DEF Recorded, Stretch
  <2>6. Recording'
    <3>2. UNCHANGED <<episodes, LastRecorded, frame>> /\ main' = "route" /\ live' = TRUE
      BY <1>1 DEF StartLive, LastRecorded
    <3>3. Past' = Past BY <1>1, <3>2 DEF StartLive, TakeRequest, Past
    <3>4. buffer' # <<>> => buffer'[Len(buffer')] = Past'
      <4>1. ring # <<>> => ring[Len(ring)] = Past BY <2>9 DEF Recording
      <4> QED BY <2>10, <3>3, <4>1
    <3>5. LastRecorded' <= Past' /\ 0 <= Past'
      BY <1>1, <3>2, <3>3 DEF StartLive, TakeRequest, Recording, Loop
    <3> QED BY <3>2, <3>4, <3>5 DEF Recording
  <2>7. Held'
    BY <1>1 DEF Held, Recording, Places, Loop, Past, LastRecorded, Closed, Size, Room,
       Smaller, StartLive, TakeRequest, EmptyRing
  <2>8. Asked'
    <3>2. /\ ~live /\ saveReq /\ main = "frame" /\ main' = "route"
          /\ UNCHANGED <<pressed, frame>> /\ saveReq' = FALSE /\ live' = TRUE
      BY <1>1 DEF StartLive, TakeRequest
    <3>3. IF ring = <<>> THEN Past + 1 <= pressed + 1 ELSE ring[1] <= pressed + 1
      BY <3>2 DEF Asked
    <3>4. buffer' # <<>> => buffer'[1] <= pressed' + 1 BY <2>10, <3>2, <3>3
    <3>5. buffer' = <<>> => frame' <= pressed' + 1
      BY <2>9, <2>10, <3>2, <3>3 DEF Ranges, Frame
    <3> QED BY <3>2, <3>4, <3>5 DEF Asked
  <2> QED BY <2>1, <2>2, <2>3, <2>4, <2>5, <2>6, <2>7, <2>8 DEF Inv
<1>2. CASE FlushFails
  <2>9. /\ \A i \in 1..Len(ring) : ring[i] = Past - Len(ring) + i /\ ring[i] \in Nat
        /\ ring # <<>> => Len(ring) \in 1..Len(ring) /\ LastRecorded < ring[1] /\ ring[1] <= Past
        /\ Len(ring) \in Nat /\ Past = frame - 1 /\ LastRecorded <= Past /\ LastRecorded \in Int
    <3>1. ~live /\ main = "frame" BY <1>2 DEF StartLive, FlushFails, TakeRequest
    <3>2. Past \in Nat /\ LastRecorded <= Past /\ Past = frame - 1
      BY <3>1 DEF Recording, Past, Ranges, Frame, Loop
    <3>3. LastRecorded \in Nat BY LastTyped
    <3>4. Past - LastRecorded \in Nat BY <3>2, <3>3
    <3>5. Len(ring) = Size(Past - LastRecorded) BY <3>1 DEF Held, Loop
    <3>6. Len(ring) \in Nat /\ Len(ring) <= Past - LastRecorded
      BY <3>4, <3>5, Sized DEF Ranges
    <3>7. \A i \in 1..Len(ring) : ring[i] = Past - Len(ring) + i BY <3>1 DEF Held, Loop
    <3>8. ring # <<>> => Len(ring) \in 1..Len(ring) BY EmptySeq DEF Ranges
    <3> QED BY <3>2, <3>3, <3>6, <3>7, <3>8
  <2>1. Flags' BY <1>2 DEF Flags, FlushFails, TakeRequest, CallFails, EmptyRing
  <2>2. Ranges'
    <3>1. PICK n \in 0..Len(ring) - 1 : buffer' = SubSeq(ring, 1, n)
      <4>1. buffer = <<>> BY <1>2 DEF FlushFails, TakeRequest, Recording, Loop
      <4>2. \A n \in 0..Len(ring) - 1 : SubSeq(ring, 1, n) \in Seq(Frame)
        BY SubSeqProperties DEF Ranges
      <4>3. \A n \in 0..Len(ring) - 1 : buffer \o SubSeq(ring, 1, n) = SubSeq(ring, 1, n)
        BY <4>1, <4>2, ConcatEmptySeq
      <4> QED BY <1>2, <4>3 DEF FlushFails
    <3>2. SubSeq(ring, 1, n) \in Seq(Frame) BY SubSeqProperties DEF Ranges
    <3> QED
      BY <1>2, <3>1, <3>2 DEF Ranges, FlushFails, TakeRequest, CallFails, EmptyRing,
         hubVars, pushVars
  <2>3. Places'
    BY <1>2 DEF Places, Flags, Loop, Closed, FlushFails, TakeRequest, CallFails,
       EmptyRing
  <2>4. Ending'
    BY <1>2 DEF Ending, Recording, Ranges, Places, Flags, Loop, Closed, FlushFails,
       TakeRequest, CallFails, EmptyRing
  <2>5. Recorded'
    <3>1. PICK n \in 0..Len(ring) - 1 : buffer' = SubSeq(ring, 1, n)
      <4>1. buffer = <<>> BY <1>2 DEF FlushFails, TakeRequest, Recording, Loop
      <4>2. \A n \in 0..Len(ring) - 1 : SubSeq(ring, 1, n) \in Seq(Frame)
        BY SubSeqProperties DEF Ranges
      <4>3. \A n \in 0..Len(ring) - 1 : buffer \o SubSeq(ring, 1, n) = SubSeq(ring, 1, n)
        BY <4>1, <4>2, ConcatEmptySeq
      <4> QED BY <1>2, <4>3 DEF FlushFails
    <3>2. Len(buffer') = n /\ \A i \in 1..n : buffer'[i] = ring[i]
      BY <3>1, SubSeqProperties DEF Ranges
    <3>3. UNCHANGED <<episodes, LastRecorded>> BY <1>2 DEF FlushFails, LastRecorded
    <3>4. buffer' # <<>> => n >= 1 BY <2>2, <3>2, EmptySeq DEF Ranges
    <3>5. ring # <<>> BY <1>2 DEF FlushFails
    <3>6. ASSUME NEW i \in 1..n PROVE buffer'[i] = buffer'[1] + i - 1
      <4>1. 1 \in 1..n /\ i \in 1..Len(ring) /\ 1 \in 1..Len(ring) BY <2>9, <3>5
      <4>2. buffer'[1] = ring[1] /\ buffer'[i] = ring[i] BY <3>2, <4>1
      <4>3. ring[1] = Past - Len(ring) + 1 /\ ring[i] = Past - Len(ring) + i
        BY <2>9, <4>1
      <4>4. Past \in Int /\ Len(ring) \in Int BY <2>9 DEF Ranges, Frame
      <4> QED BY <4>2, <4>3, <4>4
    <3>7. buffer' # <<>> => LastRecorded < buffer'[1] BY <2>9, <3>2, <3>4, <3>5
    <3> QED BY <3>2, <3>3, <3>6, <3>7 DEF Recorded, Stretch
  <2>6. Recording'
    BY <1>2 DEF Recording, Places, LastRecorded, Loop, Closed, Past, Ranges, Frame,
       FlushFails, TakeRequest, CallFails, EmptyRing
  <2>7. Held'
    BY <1>2 DEF Held, Recording, Places, Loop, Past, LastRecorded, Closed, Size, Room,
       Smaller, FlushFails, TakeRequest, CallFails, EmptyRing
  <2>8. Asked'
    BY <1>2 DEF Asked, Held, Recording, Ranges, Frame, Places, Past, Loop, Closed,
       FlushFails, TakeRequest, CallFails, EmptyRing
  <2> QED BY <2>1, <2>2, <2>3, <2>4, <2>5, <2>6, <2>7, <2>8 DEF Inv
<1> QED BY <1>1, <1>2

(* The last frame of an episode. *)
LEMMA StopSteps ==
    ASSUME Inv, StopLive
    PROVE  Inv'
<1> USE HighlightAssumption DEF Inv, ringVars, keyVars, dataVars, pushVars, hubVars
<1>1. CASE StopLive
  <2>9. /\ main = "frame" /\ main' = "lock" /\ live /\ Past = frame - 1 /\ Past' = frame
        /\ buffer' = Append(buffer, frame) /\ buffer # <<>> /\ buffer[Len(buffer)] = frame - 1
        /\ UNCHANGED <<live, frame, episodes, LastRecorded, pressed>>
    BY <1>1 DEF StopLive, TakeRequest, Past, LastRecorded, Recording, Loop
  <2>10. /\ buffer' \in Seq(Frame) /\ buffer' # <<>> /\ Stretch(buffer')
         /\ buffer'[Len(buffer')] = frame /\ buffer'[1] = buffer[1]
    BY <2>9, Appended DEF Ranges, Recorded
  <2>1. Flags' BY <1>1 DEF Flags, StopLive, TakeRequest
  <2>2. Ranges'
    BY <1>1, <2>10 DEF StopLive, TakeRequest, Ranges, ringVars, hubVars, pushVars
  <2>3. Places' BY <1>1 DEF Places, Flags, Loop, Closed, StopLive, TakeRequest
  <2>4. Ending'
    BY <1>1 DEF Ending, Recording, Ranges, Places, Flags, Loop, Closed, StopLive,
       TakeRequest
  <2>5. Recorded'
    BY <2>9, <2>10 DEF Recorded, Stretch
  <2>6. Recording'
    BY <2>9, <2>10, LastTyped DEF Recording, Loop, Ranges, Frame
  <2>7. Held'
    BY <1>1 DEF Held, Recording, Places, Loop, Past, LastRecorded, Closed, Size, Room,
       Smaller, StopLive, TakeRequest
  <2>8. Asked'
    BY <1>1 DEF Asked, Held, Recording, Ranges, Frame, Places, Past, Loop, Closed,
       StopLive, TakeRequest
  <2> QED BY <2>1, <2>2, <2>3, <2>4, <2>5, <2>6, <2>7, <2>8 DEF Inv
<1> QED BY <1>1

(* Saving an episode. *)
LEMMA SaveSteps ==
    ASSUME Inv, TakeEpisodeLock \/ SaveEpisode \/ SaveFails
    PROVE  Inv'
<1> USE HighlightAssumption DEF Inv, ringVars, keyVars, dataVars, pushVars, hubVars
<1>1. CASE TakeEpisodeLock
  <2>1. Flags' BY <1>1 DEF Flags, TakeEpisodeLock
  <2>2. Ranges' BY <1>1 DEF Ranges, Frame, TakeEpisodeLock
  <2>3. Places' BY <1>1 DEF Places, Flags, Loop, Closed, TakeEpisodeLock
  <2>4. Ending'
    BY <1>1 DEF Ending, Recording, Ranges, Places, Flags, Loop, Closed, TakeEpisodeLock
  <2>5. Recorded'
    BY <1>1 DEF Recorded, Recording, Stretch, LastRecorded, Loop, Past, TakeEpisodeLock
  <2>6. Recording'
    BY <1>1 DEF Recording, Places, LastRecorded, Loop, Closed, Past, Ranges, Frame,
       TakeEpisodeLock
  <2>7. Held'
    BY <1>1 DEF Held, Recording, Places, Loop, Past, LastRecorded, Closed, Size, Room,
       Smaller, TakeEpisodeLock
  <2>8. Asked'
    BY <1>1 DEF Asked, Held, Recording, Ranges, Frame, Places, Past, Loop, Closed,
       TakeEpisodeLock
  <2> QED BY <2>1, <2>2, <2>3, <2>4, <2>5, <2>6, <2>7, <2>8 DEF Inv
<1>2. CASE SaveEpisode
  <2>9. /\ main \in {"save", "lastSave"} /\ buffer # <<>> /\ buffer' = <<>>
        /\ episodes' = Append(episodes, buffer) /\ UNCHANGED <<frame, ring, account, fit>>
        /\ Past' = frame
        /\ main = "save" => main' = "tick" /\ ~live' /\ buffer[Len(buffer)] = frame /\ live
        /\ main = "lastSave" => main' = "finalize"
    BY <1>2 DEF SaveEpisode, Past, Recording, ringVars
  <2>10. /\ episodes' \in Seq(Seq(Frame)) /\ Len(episodes') = Len(episodes) + 1
         /\ \A e \in 1..Len(episodes) : episodes'[e] = episodes[e]
         /\ episodes'[Len(episodes) + 1] = buffer
    BY <2>9 DEF Ranges
  <2>11. LastRecorded' = buffer[Len(buffer)]
    <3>1. episodes' # <<>> BY <2>10
    <3>2. LastRecorded' = episodes'[Len(episodes')][Len(episodes'[Len(episodes')])]
      BY <3>1 DEF LastRecorded, Last
    <3> QED BY <2>10, <3>2
  <2>1. Flags' BY <1>2 DEF Flags, SaveEpisode
  <2>2. Ranges'
    BY <1>2, <2>9, <2>10 DEF SaveEpisode, Ranges, ringVars, keyVars, hubVars, pushVars
  <2>3. Places' BY <1>2 DEF Places, Flags, Loop, Closed, SaveEpisode
  <2>4. Ending'
    BY <1>2, <2>9, <2>10 DEF SaveEpisode, Ending, Ranges, Places, Closed, Loop, hubVars,
       pushVars
  <2>5. Recorded'
    <3>1. \A e \in 1..Len(episodes') : episodes'[e] # <<>> /\ Stretch(episodes'[e])
      BY <2>9, <2>10 DEF Recorded, Ranges
    <3>2. episodes # <<>> => episodes[Len(episodes)][Len(episodes[Len(episodes)])] < buffer[1]
      BY <2>9 DEF Recorded, LastRecorded, Last
    <3>3. ASSUME NEW e \in 2..Len(episodes')
          PROVE  episodes'[e - 1][Len(episodes'[e - 1])] < episodes'[e][1]
      <4>1. CASE e <= Len(episodes)
        <5>1. e \in 2..Len(episodes) /\ e \in 1..Len(episodes) /\ e - 1 \in 1..Len(episodes)
          BY <3>3, <4>1, <2>10 DEF Ranges
        <5>2. episodes'[e] = episodes[e] /\ episodes'[e - 1] = episodes[e - 1]
          BY <2>10, <5>1
        <5> QED BY <5>1, <5>2 DEF Recorded
      <4>2. CASE ~(e <= Len(episodes))
        <5>1. e = Len(episodes) + 1 /\ Len(episodes) \in 1..Len(episodes) /\ episodes # <<>>
              /\ e - 1 = Len(episodes)
          BY <3>3, <4>2, <2>10 DEF Ranges
        <5>2. episodes'[e] = buffer /\ episodes'[e - 1] = episodes[Len(episodes)]
          BY <2>10, <5>1
        <5> QED BY <3>2, <5>1, <5>2
      <4> QED BY <4>1, <4>2
    <3>4. Stretch(<<>>) BY DEF Stretch
    <3>5. Stretch(buffer') /\ buffer' = <<>> BY <2>9, <3>4
    <3> QED BY <3>1, <3>3, <3>5, Zenon DEF Recorded
  <2>6. Recording'
    BY <2>9, <2>11 DEF Recording, Loop, Ranges, Frame
  <2>7. Held'
    <3>1. CASE main = "save"
      <4>1. ring' = <<>> /\ account' = 0 /\ ~live' /\ main' = "tick" /\ Past' - LastRecorded' = 0
        BY <2>9, <2>11, <3>1 DEF Held, Ranges, Frame
      <4>2. Len(ring') = 0 BY <4>1
      <4>3. Smaller(0, Smaller(MaxLen, Room')) = 0 /\ Smaller(0, Room') = 0
        BY <2>9 DEF Smaller, Room, Ranges
      <4>4. Size(Past - LastRecorded)' = 0 /\ Smaller(Past - LastRecorded, Room)' = 0
        BY <4>1, <4>3 DEF Size
      <4> QED BY <4>1, <4>2, <4>3, <4>4 DEF Held
    <3>2. CASE main = "lastSave"
      BY <1>2, <2>9, <3>2 DEF SaveEpisode, Held, Loop
    <3> QED BY <2>9, <3>1, <3>2
  <2>8. Asked'
    BY <1>2 DEF Asked, Held, Recording, Ranges, Frame, Places, Past, Loop, Closed,
       SaveEpisode
  <2> QED BY <2>1, <2>2, <2>3, <2>4, <2>5, <2>6, <2>7, <2>8 DEF Inv
<1>3. CASE SaveFails
  <2>1. Flags' BY <1>3 DEF Flags, SaveFails, CallFails
  <2>2. Ranges' BY <1>3 DEF Ranges, Frame, SaveFails, CallFails
  <2>3. Places' BY <1>3 DEF Places, Flags, Loop, Closed, SaveFails, CallFails
  <2>4. Ending'
    BY <1>3 DEF Ending, Recording, Ranges, Places, Flags, Loop, Closed, SaveFails,
       CallFails
  <2>5. Recorded'
    BY <1>3 DEF Recorded, Recording, Stretch, LastRecorded, Loop, Past, SaveFails,
       CallFails
  <2>6. Recording'
    BY <1>3 DEF Recording, Places, LastRecorded, Loop, Closed, Past, Ranges, Frame,
       SaveFails, CallFails
  <2>7. Held'
    BY <1>3 DEF Held, Recording, Places, Loop, Past, LastRecorded, Closed, Size, Room,
       Smaller, SaveFails, CallFails
  <2>8. Asked'
    BY <1>3 DEF Asked, Held, Recording, Ranges, Frame, Places, Past, Loop, Closed,
       SaveFails, CallFails
  <2> QED BY <2>1, <2>2, <2>3, <2>4, <2>5, <2>6, <2>7, <2>8 DEF Inv
<1> QED BY <1>1, <1>2, <1>3

(* Appending a frame to the ring: frames are evicted until the account allows *)
(* it, and by the deque; the account is never behind.                        *)
LEMMA RingAppended ==
    ASSUME ring \in Seq(Frame), account \in Nat, fit \in Nat, frame \in Frame,
           NEW k \in Nat, Len(ring) = Size(k),
           \A i \in 1..Len(ring) : ring[i] = frame - 1 - Len(ring) + i,
           MaxLen > 0 => account = Smaller(k, Room),
           AppendToRing
    PROVE  /\ ring' \in Seq(Frame) /\ account' \in Nat /\ fit' = fit
           /\ Len(ring') = Size(k + 1)
           /\ \A i \in 1..Len(ring') : ring'[i] = frame - Len(ring') + i
           /\ MaxLen > 0 => account' = Smaller(k + 1, Room)
<1> USE HighlightAssumption
<1>1. Evicted = Smaller(Len(ring), IF account + 1 - fit <= 0 THEN 0 ELSE account + 1 - fit)
  <2>1. \A a, b \in Int : Max({a, b}) = IF a <= b THEN b ELSE a BY DEF Max
  <2>2. \A a, b \in Int : Min({a, b}) = Smaller(a, b) BY DEF Min, Smaller
  <2>3. Max({0, account + 1 - fit}) = IF account + 1 - fit <= 0 THEN 0 ELSE account + 1 - fit
    <3>1. CASE account + 1 - fit <= 0 BY <2>1, <3>1
    <3>2. CASE ~(account + 1 - fit <= 0) BY <2>1, <3>2
    <3> QED BY <3>1, <3>2
  <2>4. Len(ring) \in Int /\ (IF account + 1 - fit <= 0 THEN 0 ELSE account + 1 - fit) \in Int
    OBVIOUS
  <2> QED BY <2>2, <2>3, <2>4 DEF Evicted
<1>2. Evicted \in 0..Len(ring) /\ Evicted <= account
  <2>1. Evicted \in 0..Len(ring) BY <1>1 DEF Smaller
  <2>2. CASE MaxLen = 0
    BY <2>1, <2>2 DEF Size, Smaller, Room
  <2>3. CASE MaxLen > 0
    BY <1>1, <2>3 DEF Size, Smaller, Room
  <2> QED BY <2>2, <2>3, <2>1
<1>3. account' = account - Evicted + 1 /\ fit' = fit
      /\ ring' = DequeAppend(SubSeq(ring, Evicted + 1, Len(ring)), frame)
  BY DEF AppendToRing
<1>4. CASE MaxLen = 0
  <2>1. ring' = <<>> BY <1>3, <1>4 DEF DequeAppend
  <2>2. Size(k + 1) = 0 BY <1>4 DEF Size, Smaller, Room
  <2>3. Len(ring') = 0 /\ ring' \in Seq(Frame) BY <2>1
  <2>4. account' \in Nat /\ fit' = fit BY <1>2, <1>3
  <2> QED BY <1>4, <2>2, <2>3, <2>4
<1>5. CASE MaxLen > 0
  <2> DEFINE q == SubSeq(ring, Evicted + 1, Len(ring))
  <2>1. /\ q \in Seq(Frame) /\ Len(q) = Len(ring) - Evicted
        /\ \A i \in 1..Len(q) : q[i] = ring[Evicted + i]
    <3>1. \A i \in Evicted + 1 .. Len(ring) : ring[i] \in Frame BY <1>2
    <3>2. Evicted + 1 \in Int /\ Len(ring) \in Int BY <1>2
    <3>3. /\ q \in Seq(Frame)
          /\ Len(q) = IF Evicted + 1 <= Len(ring) THEN Len(ring) - (Evicted + 1) + 1 ELSE 0
          /\ \A i \in 1..Len(ring) - (Evicted + 1) + 1 : q[i] = ring[Evicted + 1 + i - 1]
      BY <3>1, <3>2, SubSeqProperties
    <3> QED BY <1>2, <3>2, <3>3
  <2>2. \A i \in 1..Len(q) : q[i] = frame - 1 - Len(q) + i
    BY <1>2, <2>1 DEF Frame
  <2>6. ring' = IF Len(q) = MaxLen THEN Append(Tail(q), frame) ELSE Append(q, frame)
    <3>1. MaxLen # 0 BY <1>5
    <3> QED BY <1>3, <3>1, Zenon DEF DequeAppend
  <2> HIDE DEF q
  <2>3. account' = Smaller(k + 1, Room) /\ Len(q) <= MaxLen
        /\ Size(k + 1) = IF Len(q) = MaxLen THEN Len(q) ELSE Len(q) + 1
    BY <1>1, <1>3, <1>5, <2>1 DEF Size, Smaller, Room
  <2>4. CASE Len(q) = MaxLen
    <3>1. q # <<>> BY <1>5, <2>4
    <3>2. /\ Tail(q) \in Seq(Frame) /\ Len(Tail(q)) = Len(q) - 1
          /\ \A i \in 1..Len(Tail(q)) : Tail(q)[i] = q[i + 1]
      BY <2>1, <3>1, HeadTailProperties
    <3>3. ring' = Append(Tail(q), frame) BY <2>4, <2>6
    <3>4. /\ ring' \in Seq(Frame) /\ Len(ring') = Len(q)
          /\ \A i \in 1..Len(q) - 1 : ring'[i] = q[i + 1]
          /\ ring'[Len(q)] = frame
      BY <2>1, <3>2, <3>3
    <3>5. \A i \in 1..Len(q) - 1 : i + 1 \in 1..Len(q) /\ q[i + 1] = frame - Len(q) + i
      BY <2>1, <2>2 DEF Frame
    <3>6. ASSUME NEW i \in 1..Len(ring') PROVE ring'[i] = frame - Len(ring') + i
      <4>1. CASE i = Len(q) BY <2>1, <3>4, <4>1 DEF Frame
      <4>2. CASE i # Len(q)
        <5>1. i \in 1..Len(q) - 1 BY <2>1, <3>4, <4>2
        <5> QED BY <3>4, <3>5, <5>1
      <4> QED BY <4>1, <4>2
    <3> QED BY <1>3, <2>3, <2>4, <3>4, <3>6 DEF Smaller, Room
  <2>5. CASE Len(q) # MaxLen
    <3>1. ring' = Append(q, frame) BY <2>5, <2>6
    <3>2. /\ ring' \in Seq(Frame) /\ Len(ring') = Len(q) + 1
          /\ \A i \in 1..Len(q) : ring'[i] = q[i]
          /\ ring'[Len(q) + 1] = frame
      BY <2>1, <3>1
    <3>3. ASSUME NEW i \in 1..Len(ring') PROVE ring'[i] = frame - Len(ring') + i
      <4>1. Len(q) \in Nat /\ frame \in Int BY <2>1 DEF Frame
      <4>2. CASE i = Len(q) + 1 BY <3>2, <4>1, <4>2
      <4>3. CASE i # Len(q) + 1
        <5>1. i \in 1..Len(q) BY <3>2, <4>1, <4>3
        <5>2. ring'[i] = frame - 1 - Len(q) + i BY <2>2, <3>2, <5>1
        <5> QED BY <3>2, <4>1, <5>1, <5>2
      <4> QED BY <4>2, <4>3
    <3> QED BY <1>3, <2>3, <2>5, <3>2, <3>3 DEF Smaller, Room
  <2> QED BY <2>4, <2>5
<1> QED BY <1>4, <1>5

(* A frame goes to the dataset or to the ring. *)
LEMMA RouteStep ==
    ASSUME Inv, Route
    PROVE  Inv'
<1> USE HighlightAssumption DEF Inv, ringVars, keyVars, dataVars, pushVars, hubVars
<1>1. CASE Route
  <2>9. /\ main = "route" /\ main' = "tick" /\ Past = frame - 1 /\ Past' = frame /\ frame \in Nat
        /\ UNCHANGED <<live, frame, episodes, LastRecorded, saveReq, pressed>>
        /\ LastRecorded <= Past /\ 0 <= Past
    BY <1>1 DEF Route, Past, LastRecorded, Recording, Loop, Ranges, Frame
  <2>10. ASSUME live PROVE Ranges' /\ Recorded' /\ Recording' /\ Held' /\ Asked'
    <3>1. /\ buffer' = Append(buffer, frame) /\ UNCHANGED <<ring, account, fit>>
          /\ buffer # <<>> => buffer[Len(buffer)] = frame - 1
      BY <1>1, <2>9, <2>10 DEF Route, ringVars, Recording, Loop
    <3>2. /\ buffer' \in Seq(Frame) /\ buffer' # <<>> /\ Stretch(buffer')
          /\ buffer'[Len(buffer')] = frame
          /\ buffer'[1] = IF buffer = <<>> THEN frame ELSE buffer[1]
      BY <3>1, Appended DEF Ranges, Recorded
    <3>3. Ranges' BY <1>1, <2>9, <3>1, <3>2 DEF Route, Ranges, hubVars
    <3>4. Recorded' BY <2>9, <3>2, LastTyped DEF Recorded, Stretch
    <3>5. Recording' BY <2>9, <2>10, <3>2, LastTyped DEF Recording, Loop
    <3>6. Held' BY <2>9, <2>10, <3>1 DEF Held
    <3>7. Asked' BY <2>9, <2>10, <3>2 DEF Asked, Loop
    <3> QED BY <3>3, <3>4, <3>5, <3>6, <3>7
  <2>11. ASSUME ~live PROVE Ranges' /\ Recorded' /\ Recording' /\ Held' /\ Asked'
    <3> DEFINE k == Past - LastRecorded
    <3>1. AppendToRing /\ UNCHANGED buffer /\ k \in Nat /\ frame = LastRecorded + k + 1 /\ buffer = <<>>
      BY <1>1, <2>9, <2>11, LastTyped DEF Route, Recording, Loop
    <3>2. /\ Len(ring) = Size(k) /\ \A i \in 1..Len(ring) : ring[i] = frame - 1 - Len(ring) + i
          /\ MaxLen > 0 => account = Smaller(k, Room)
      BY <2>9, <2>11 DEF Held, Loop
    <3> HIDE DEF k
    <3>3. /\ ring' \in Seq(Frame) /\ account' \in Nat /\ fit' = fit
          /\ Len(ring') = Size(k + 1)
          /\ \A i \in 1..Len(ring') : ring'[i] = frame - Len(ring') + i
          /\ MaxLen > 0 => account' = Smaller(k + 1, Room)
      BY <3>1, <3>2, RingAppended DEF Ranges
    <3>4. Ranges' BY <1>1, <2>9, <3>1, <3>3 DEF Route, Ranges, hubVars
    <3>5. Recorded' BY <2>9, <3>1 DEF Recorded, Stretch
    <3>6. Recording' BY <2>9, <2>11, <3>1, LastTyped DEF Recording, Loop
    <3>7. Past' - LastRecorded' = k + 1 BY <2>9, LastTyped DEF k
    <3>8. Held'
      <4>1. Size(Past - LastRecorded)' = Size(k + 1) /\ Smaller(Past - LastRecorded, Room)' = Smaller(k + 1, Room)
        BY <3>3, <3>7 DEF Size, Room
      <4> QED BY <2>9, <2>11, <3>3, <4>1 DEF Held
    <3>9. Asked'
      <4>1. saveReq => (IF ring = <<>> THEN frame ELSE ring[1]) <= pressed
        BY <2>9, <2>11 DEF Asked
      <4>2. (IF ring' = <<>> THEN frame + 1 ELSE ring'[1]) <= (IF ring = <<>> THEN frame ELSE ring[1]) + 1
        <5>1. Size(k + 1) \in Nat /\ Size(k) \in Nat /\ Size(k) <= Size(k + 1)
          BY <3>1, HighlightAssumption DEF Size, Smaller, Room, Ranges
        <5>2. ring # <<>> => Len(ring) \in 1..Len(ring) /\ ring[1] = frame - Len(ring)
          BY <2>9, <3>2, EmptySeq DEF Ranges
        <5>3. ring' # <<>> => Len(ring') \in 1..Len(ring') /\ ring'[1] = frame - Len(ring') + 1
          BY <2>9, <3>3, EmptySeq
        <5>4. ring # <<>> => ring' # <<>>
          BY <3>2, <3>3, <5>1, <5>2, EmptySeq
        <5> QED BY <2>9, <3>2, <3>3, <5>1, <5>2, <5>3, <5>4
      <4>3. saveReq => (IF ring' = <<>> THEN frame + 1 ELSE ring'[1]) <= pressed + 1
        <5>1. pressed \in Int /\ (IF ring = <<>> THEN frame ELSE ring[1]) \in Int
          BY <2>9, EmptySeq DEF Ranges, Frame
        <5>2. (IF ring' = <<>> THEN frame + 1 ELSE ring'[1]) \in Int
          BY <2>9, <3>3, EmptySeq DEF Frame
        <5> QED BY <4>1, <4>2, <5>1, <5>2
      <4> QED BY <2>9, <2>11, <4>3 DEF Asked
    <3> QED BY <3>4, <3>5, <3>6, <3>8, <3>9
  <2>1. Flags' BY <1>1 DEF Flags, Route, AppendToRing
  <2>2. Ranges'
    BY <2>10, <2>11
  <2>3. Places' BY <1>1 DEF Places, Flags, Loop, Closed, Route, AppendToRing
  <2>4. Ending'
    BY <1>1 DEF Ending, Recording, Ranges, Places, Flags, Loop, Closed, Route,
       AppendToRing
  <2>5. Recorded'
    BY <2>10, <2>11
  <2>6. Recording'
    BY <2>10, <2>11
  <2>7. Held'
    BY <2>10, <2>11
  <2>8. Asked'
    BY <2>10, <2>11
  <2> QED BY <2>1, <2>2, <2>3, <2>4, <2>5, <2>6, <2>7, <2>8 DEF Inv
<1> QED BY <1>1

(* Every step keeps the invariant. *)
LEMMA Steps == ASSUME Inv, [Next]_vars PROVE Inv'
<1>1. CASE Operator BY <1>1, OperatorStep
<1>2. CASE LoopEnds \/ NextFrame \/ NoRequest \/ IterationFails BY <1>2, LoopSteps
<1>3. CASE StartLive \/ FlushFails BY <1>3, FlushSteps
<1>4. CASE StopLive BY <1>4, StopSteps
<1>5. CASE Route BY <1>5, RouteStep
<1>6. CASE TakeEpisodeLock \/ SaveEpisode \/ SaveFails BY <1>6, SaveSteps
<1>7. CASE LeaveLoop \/ Finalize \/ JoinPusher \/ FinalPush \/ ReleaseHardware
  BY <1>7, EndSteps
<1>8. CASE Pusher BY <1>8, PushSteps DEF Pusher
<1>9. CASE UNCHANGED vars
  <2>1. UNCHANGED <<ringVars, keyVars, main, live, frame, dataVars, lock, pushVars, hubVars,
                    released, faults>>
    BY <1>9 DEF vars
  <2> QED
    BY <2>1 DEF Inv, Flags, Ranges, Places, Ending, Recorded, Recording, Held, Asked,
       Past,
       LastRecorded, Stretch, Size, Room, ringVars, keyVars, dataVars, pushVars, hubVars
<1> QED
  BY <1>1, <1>2, <1>3, <1>4, <1>5, <1>6, <1>7, <1>8, <1>9 DEF Next, Main, Terminated

THEOREM Invariance == Spec => []Inv
<1>1. Init => Inv BY Initially
<1>2. Inv /\ [Next]_vars => Inv' BY Steps
<1> QED BY <1>1, <1>2, PTL DEF Spec
-----------------------------------------------------------------------------
(* A stretch of frames, as a function. *)
LEMMA StretchFrames ==
    ASSUME NEW s \in Seq(Frame), s # <<>>, Stretch(s)
    PROVE  s = Frames(s[1], Len(s)) /\ Head(s) = s[1]
<1>1. Len(s) \in 1..Len(s) BY EmptySeq
<1>2. s[1] \in Frame BY <1>1
<1>3. \A i \in 1..Len(s) : s[i] = Frames(s[1], Len(s))[i]
  BY <1>1, <1>2, HighlightAssumption DEF Stretch, Frames, Frame
<1>4. s = [i \in 1..Len(s) |-> s[i]] OBVIOUS
<1>5. Frames(s[1], Len(s)) = [i \in 1..Len(s) |-> s[i]]
  BY <1>3 DEF Frames
<1>6. Head(s) = s[1] BY <1>1
<1> QED BY <1>4, <1>5, <1>6

(* Every variable keeps its type, for any configuration. *)
THEOREM TypeCorrect == Spec => []TypeOK
<1>1. Inv => TypeOK
  <2> SUFFICES ASSUME Inv PROVE TypeOK OBVIOUS
  <2> USE HighlightAssumption DEF Inv
  <2>1. Frame \subseteq Nat BY DEF Frame
  <2>2. ring \in Seq(Nat) /\ buffer \in Seq(Nat) BY <2>1, SeqMonotonic DEF Ranges
  <2>3. episodes \in Seq(Seq(Nat))
    <3>1. Seq(Frame) \subseteq Seq(Nat) BY <2>1, SeqMonotonic
    <3> QED BY <3>1, SeqMonotonic DEF Ranges
  <2>4. fit \in Fits /\ account \in Nat /\ frame \in 0..MaxFrames /\ pressed \in 0..MaxFrames
        /\ faults \in 0..MaxFaults /\ queued \in Nat /\ hub \in Nat
    BY DEF Ranges, Places, Frame
  <2>5. /\ main \in {"tick", "frame", "route", "lock", "save", "closing", "lastLock",
                     "lastSave", "finalize", "join", "final", "release", "ended"}
        /\ lock \in {"free", "main", "push"} /\ push \in {"idle", "waiting", "locked"}
        /\ lock = "main" <=> main \in {"save", "lastSave"}
        /\ lock = "push" <=> push = "locked"
    BY DEF Places, Loop, Closed
  <2> QED BY <2>2, <2>3, <2>4, <2>5 DEF TypeOK, Flags
<1> QED BY <1>1, Invariance, PTL

(* The ring holds the last frames, as many as both bounds allow, whatever the *)
(* length and the memory are and whatever the account has become.            *)
THEOREM RingSound == Spec => []RingKeepsLast
<1>1. Inv => RingKeepsLast
  <2> SUFFICES ASSUME Inv, main = "tick", ~live
               PROVE  LET size == Min({frame - LastRecorded, MaxLen, Max({1, fit})})
                      IN  ring = Frames(frame - size + 1, size)
    BY DEF RingKeepsLast
  <2> USE HighlightAssumption DEF Inv
  <2> DEFINE k == frame - LastRecorded
  <2>1. Past = frame /\ k \in Nat /\ frame \in Nat
    BY LastTyped DEF Past, Recording, Loop, Ranges, Frame
  <2>2. Len(ring) = Size(k) /\ \A i \in 1..Len(ring) : ring[i] = frame - Len(ring) + i
    BY <2>1 DEF Held, Loop
  <2>3. Max({1, fit}) = Room
    <3>1. fit \in Nat BY DEF Ranges
    <3>2. CASE fit <= 1
      <4>1. Max({1, fit}) = 1 BY <3>1, <3>2 DEF Max
      <4> QED BY <3>1, <3>2, <4>1 DEF Room
    <3>3. CASE ~(fit <= 1)
      <4>1. Max({1, fit}) = fit BY <3>1, <3>3 DEF Max
      <4> QED BY <3>1, <3>3, <4>1 DEF Room
    <3> QED BY <3>2, <3>3
  <2> HIDE DEF k
  <2>4. Min({k, MaxLen, Room}) = Size(k)
    <3>1. Room \in Nat BY DEF Room, Ranges
    <3> QED BY <2>1, <3>1 DEF Min, Size, Smaller
  <2>5. ring = Frames(frame - Size(k) + 1, Size(k))
    <3>1. ring = [i \in 1..Len(ring) |-> ring[i]] BY DEF Ranges
    <3>2. Len(ring) \in Nat BY DEF Ranges
    <3>3. \A i \in 1..Len(ring) : ring[i] = frame - Size(k) + 1 + i - 1
      BY <2>1, <2>2, <3>2
    <3> QED BY <2>2, <3>1, <3>3 DEF Frames
  <2> QED BY <2>3, <2>4, <2>5 DEF k
<1> QED BY <1>1, Invariance, PTL

(* An episode is one stretch of frames, and no frame is in two.              *)
THEOREM EpisodesApart == Spec => []EpisodesWhole
<1>1. Inv => EpisodesWhole
  <2> SUFFICES ASSUME Inv PROVE EpisodesWhole OBVIOUS
  <2> USE DEF Inv
  <2>1. ASSUME NEW e \in 1..Len(episodes)
        PROVE  /\ episodes[e] = Frames(Head(episodes[e]), Len(episodes[e]))
               /\ e > 1 => Last(episodes[e - 1]) < Head(episodes[e])
    <3>1. episodes[e] \in Seq(Frame) /\ episodes[e] # <<>> /\ Stretch(episodes[e])
      BY DEF Recorded, Ranges
    <3>2. episodes[e] = Frames(episodes[e][1], Len(episodes[e])) /\ Head(episodes[e]) = episodes[e][1]
      BY <3>1, StretchFrames
    <3>3. e > 1 => Last(episodes[e - 1]) < episodes[e][1]
      <4>1. e > 1 => e \in 2..Len(episodes) BY DEF Ranges
      <4> QED BY <4>1 DEF Recorded, Last
    <3> QED BY <3>2, <3>3
  <2>2. buffer # <<>> => buffer = Frames(Head(buffer), Len(buffer)) /\ LastRecorded < Head(buffer)
    <3>1. buffer # <<>> => buffer = Frames(buffer[1], Len(buffer)) /\ Head(buffer) = buffer[1]
      BY StretchFrames DEF Recorded, Ranges
    <3> QED BY <3>1 DEF Recorded
  <2> QED BY <2>1, <2>2 DEF EpisodesWhole
<1> QED BY <1>1, Invariance, PTL

(* What was in the ring when the key was pressed is in the episode, but for  *)
(* its oldest frame.                                                         *)
THEOREM HistoryInEpisode == Spec => []HistoryKept
<1>1. Inv => HistoryKept
  <2> SUFFICES ASSUME Inv, main = "route", live
               PROVE  (IF buffer = <<>> THEN frame ELSE Head(buffer)) <= pressed + 1
    BY DEF HistoryKept
  <2>1. buffer # <<>> => Head(buffer) = buffer[1] BY EmptySeq DEF Inv, Ranges
  <2> QED BY <2>1 DEF Inv, Asked, Loop
<1> QED BY <1>1, Invariance, PTL

(* No frame is left in the buffer when the dataset is finalized. *)
THEOREM FramesKept == Spec => []FramesSaved
<1>1. Inv => FramesSaved BY DEF Inv, Ending, Closed, FramesSaved
<1> QED BY <1>1, Invariance, PTL

(* What a session that closes leaves on the Hub is a finalized dataset. *)
THEOREM HubSound == Spec => []HubFinalized
<1>1. Inv => HubFinalized BY DEF Inv, Ending, HubFinalized
<1> QED BY <1>1, Invariance, PTL

(* The strategy implements EpisodeStore. *)
THEOREM StoreImplemented == Spec => StoreSpec
<1>1. Init => Store!Init
  BY HighlightAssumption DEF Init, Store!Init
<1>2. ASSUME Inv, Inv', [Next]_vars PROVE [Store!Next]_Store!vars
  <2> USE DEF Inv
  <2>1. CASE Operator \/ LoopEnds \/ NextFrame \/ StartLive \/ StopLive \/ NoRequest \/ Route
             \/ TakeEpisodeLock \/ SaveFails \/ LeaveLoop \/ Finalize \/ JoinPusher
             \/ FlushFails \/ IterationFails \/ StartPush \/ LockForPush \/ UNCHANGED vars
    <3>1. UNCHANGED <<episodes, hub, released>> /\ (main' = "ended") = (main = "ended")
      BY <2>1 DEF Operator, LoopEnds, NextFrame, StartLive, StopLive, NoRequest, Route,
         TakeEpisodeLock, SaveFails, LeaveLoop, Finalize, JoinPusher, FlushFails,
         IterationFails, StartPush, LockForPush, TakeRequest, vars, dataVars, hubVars
    <3> QED BY <3>1 DEF Store!vars
  <2>2. CASE SaveEpisode
    <3>1. /\ Len(episodes') = Len(episodes) + 1 /\ UNCHANGED <<hub, released>>
          /\ main # "ended" /\ main' # "ended"
      BY <2>2 DEF SaveEpisode, hubVars, Ranges
    <3> QED BY <3>1 DEF Store!Next, Store!Save
  <2>3. CASE FinalPush
    <3>1. main = "final" /\ UNCHANGED <<episodes, released>> /\ released = FALSE
      BY <1>2, <2>3 DEF FinalPush, dataVars, Ending, Flags
    <3>2. CASE main' = "release" /\ UNCHANGED hub
      BY <3>1, <3>2 DEF Store!vars
    <3>3. CASE main' = "release" /\ hub' = Len(episodes)
      BY <3>1, <3>3 DEF Store!Next, Store!Push
    <3>4. CASE main' = "ended" /\ UNCHANGED hub
      BY <3>1, <3>4 DEF Store!Next, Store!Fail
    <3> QED BY <2>3, <3>2, <3>3, <3>4 DEF FinalPush, hubVars
  <2>4. CASE ReleaseHardware
    <3>1. /\ main = "release" /\ main' = "ended" /\ released' = TRUE /\ released = FALSE
          /\ UNCHANGED <<episodes, hub>>
      BY <1>2, <2>4 DEF ReleaseHardware, dataVars, hubVars, Ending, Flags
    <3>2. PushToHub => hub = Len(episodes) BY <1>2, <3>1 DEF Ending
    <3> QED BY <3>1, <3>2 DEF Store!Next, Store!Close
  <2>5. CASE FinishPush
    <3>1. UNCHANGED <<main, episodes, released>> /\ push = "locked"
      BY <2>5 DEF FinishPush, dataVars
    <3>2. main # "ended" BY <1>2, <3>1 DEF Ending
    <3>3. hub' = Len(episodes) \/ UNCHANGED hub BY <2>5 DEF FinishPush, hubVars
    <3> QED BY <3>1, <3>2, <3>3 DEF Store!Next, Store!Push, Store!vars
  <2> QED BY <1>2, <2>1, <2>2, <2>3, <2>4, <2>5 DEF Next, Main, Pusher, Terminated
<1> QED BY <1>1, <1>2, Invariance, PTL DEF Spec, StoreSpec, Store!Spec
=============================================================================
