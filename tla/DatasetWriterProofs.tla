-------------------------- MODULE DatasetWriterProofs --------------------------
(***************************************************************************)
(* Proofs about DatasetWriter: type correctness, the division of the       *)
(* frames among the episodes, and that no row of a saved episode is lost,  *)
(* for any number of frames, sessions and failures.                        *)
(***************************************************************************)
EXTENDS DatasetWriter, TLAPS

Meta == [file : Nat, from : Nat, to : Nat, video : Nat, videoFrom : Nat, videoTo : Nat]
Row == [episode : Nat, index : Nat, frame : Nat]

Flags ==
    /\ streaming \in BOOLEAN /\ latestMeta \in BOOLEAN /\ opened \in BOOLEAN
    /\ ragged \in BOOLEAN /\ taken \in BOOLEAN /\ spoiled \in BOOLEAN
    /\ stage \in {"idle", "rows", "video", "closed"}
    /\ encoder \in {"off", "wait", "encode", "dead"}

FrameQueue == {q \in Seq(Nat) : Len(q) <= QueueSize}

Ranges ==
    /\ info \in [episodes : Nat, frames : Nat]
    /\ metas \in Seq(Meta)
    /\ data \in Seq(Seq(Row)) /\ videos \in Seq(Seq(Nat)) /\ images \in Seq(Nat)
    /\ loaded \in Nat /\ latestFile \in Nat
    /\ buffer \in Seq(Nat) /\ frameQueue \in FrameQueue
    /\ frames \in 0..MaxFrames /\ faults \in 0..MaxFaults
    /\ sessions \in 1..MaxSessions /\ intact \in Nat

(* How the counts bound each other. *)
Counts ==
    /\ info.frames + Len(buffer) <= frames
    /\ info.episodes <= info.frames
    /\ loaded <= Len(metas)
    /\ intact <= info.episodes
    /\ stage \in {"rows", "video"} => buffer # <<>>

(* A writer is open from the first rows of a session to its end; the file it *)
(* writes is behind every file of an episode, or is the last one's.          *)
Files ==
    /\ \A e \in 1..Len(metas) :
        /\ metas[e].file \in 1..Len(data)
        /\ metas[e].video \in 1..Len(videos)
        /\ metas[e].file <= metas[Len(metas)].file
    /\ latestFile = 0 => loaded = Len(metas)
    /\ latestFile # 0 =>
        latestFile <= Len(data) /\ \A e \in 1..Len(metas) : metas[e].file <= latestFile
    /\ stage = "closed" => ~opened
    /\ opened \/ stage = "closed" \/ latestFile = 0
    /\ opened \/ stage = "video" => latestFile # 0
    /\ latestMeta => metas # <<>>

(* The rows of an episode are in its file before its metadata is written. *)
Written ==
    stage = "video" =>
        \A i \in info.frames .. info.frames + Len(buffer) - 1 :
            \E r \in 1..Len(data[latestFile]) :
                /\ data[latestFile][r].episode = info.episodes
                /\ data[latestFile][r].index = i

Sound == Flags /\ Ranges /\ Contiguous /\ Counts /\ Files

Inv == Sound /\ RowsKept /\ Written
-----------------------------------------------------------------------------
(* Writing a file leaves the others as they are. *)
LEMMA PutFile ==
    ASSUME NEW S, NEW files \in Seq(S), NEW c \in S, NEW i \in 1..Len(files) + 1
    PROVE  /\ Put(files, i, c) \in Seq(S)
           /\ Len(files) <= Len(Put(files, i, c)) /\ i <= Len(Put(files, i, c))
           /\ Put(files, i, c)[i] = c
           /\ \A j \in 1..Len(files) : j # i => Put(files, i, c)[j] = files[j]
<1>1. CASE i <= Len(files)
  <2>1. Put(files, i, c) = [files EXCEPT ![i] = c] BY <1>1 DEF Put
  <2>2. [files EXCEPT ![i] = c] \in Seq(S) /\ Len([files EXCEPT ![i] = c]) = Len(files)
    BY <1>1
  <2> QED BY <1>1, <2>1, <2>2
<1>2. CASE ~(i <= Len(files))
  <2>1. Put(files, i, c) = Append(files, c) /\ i = Len(files) + 1 BY <1>2 DEF Put
  <2> QED BY <2>1
<1> QED BY <1>1, <1>2

(* The rows of the episode are numbered from the frames saved before it. *)
LEMMA RowsNumbered ==
    ASSUME Ranges
    PROVE  /\ EpisodeRows \in Seq(Row) /\ Len(EpisodeRows) = Len(buffer)
           /\ \A i \in 1..Len(buffer) :
                /\ EpisodeRows[i].episode = info.episodes
                /\ EpisodeRows[i].index = info.frames + i - 1
<1>1. \A i \in 1..Len(buffer) :
        [episode |-> info.episodes, index |-> info.frames + i - 1, frame |-> buffer[i]] \in Row
  BY DEF Ranges, Row
<1> QED BY <1>1 DEF EpisodeRows, Ranges

LEMMA QueuesTyped ==
    /\ <<>> \in FrameQueue
    /\ \A f \in Nat : <<f>> \in FrameQueue
    /\ \A q \in FrameQueue, f \in Nat : Len(q) < QueueSize => Append(q, f) \in FrameQueue
    /\ \A q \in FrameQueue : q # <<>> => Head(q) \in Nat /\ Tail(q) \in FrameQueue
<1>1. QueueSize \in Nat /\ QueueSize >= 1 BY WriterAssumption
<1>2. \A f \in Nat : <<f>> \in Seq(Nat) /\ Len(<<f>>) = 1 OBVIOUS
<1>3. \A q \in Seq(Nat), f \in Nat :
          Append(q, f) \in Seq(Nat) /\ Len(Append(q, f)) = Len(q) + 1 /\ Len(q) \in Nat
  OBVIOUS
<1>4. \A q \in Seq(Nat) : q # <<>> =>
          Head(q) \in Nat /\ Tail(q) \in Seq(Nat) /\ Len(Tail(q)) = Len(q) - 1 /\ Len(q) \in Nat
  OBVIOUS
<1> QED BY <1>1, <1>2, <1>3, <1>4 DEF FrameQueue

(* The image of a frame is a frame, and so is what the encoder gets. *)
LEMMA ImageTyped ==
    ASSUME Ranges, Flags, NEW f \in Nat, AddImage(f)
    PROVE  /\ images' \in Seq(Nat) /\ frameQueue' \in FrameQueue
           /\ encoder' \in {"off", "wait", "encode", "dead"}
<1>1. images \in Seq(Nat) /\ frameQueue \in FrameQueue BY DEF Ranges
<1>2. CASE streaming /\ buffer = <<>> /\ StartEncoder(<<f>>)
  BY <1>2, QueuesTyped DEF StartEncoder
<1>3. CASE streaming /\ buffer # <<>> /\ FeedFrame(f)
  BY <1>1, <1>3, QueuesTyped DEF FeedFrame, Flags
<1>4. CASE /\ images' = Put(images, Len(buffer) + 1, f)
           /\ UNCHANGED <<encoder, frameQueue>>
  <2>1. CASE Len(buffer) + 1 <= Len(images)
    <3>1. Len(buffer) \in Nat /\ Len(images) \in Nat BY DEF Ranges
    <3>2. Len(buffer) + 1 \in 1..Len(images) + 1 BY <2>1, <3>1
    <3>3. images' \in Seq(Nat) BY <1>1, <1>4, <3>2, PutFile
    <3> QED BY <1>1, <1>4, <3>3 DEF Flags
  <2>2. CASE ~(Len(buffer) + 1 <= Len(images))
    <3>1. images' = Append(images, f) BY <1>4, <2>2 DEF Put
    <3>2. images' \in Seq(Nat) BY <1>1, <3>1
    <3> QED BY <1>1, <1>4, <3>2 DEF Flags
  <2> QED BY <2>1, <2>2
<1> QED BY <1>2, <1>3, <1>4 DEF AddImage

(* A data file is emptied only when no episode is in it. *)
LEMMA FileFree ==
    ASSUME Sound, stage = "rows", NEW full \in BOOLEAN
    PROVE  /\ DataFile(full) \in 1..Len(data) + 1
           /\ \A e \in 1..Len(metas) : metas[e].file <= DataFile(full)
           /\ \/ opened /\ DataFile(full) = latestFile
              \/ \A e \in 1..Len(metas) : metas[e].file < DataFile(full)
<1>1. CASE latestFile = 0
  <2>1. loaded = Len(metas) BY <1>1 DEF Sound, Files
  <2>2. CASE loaded = 0
    BY <1>1, <2>1, <2>2 DEF DataFile, Sound, Ranges
  <2>3. CASE loaded # 0
    <3>1. metas[loaded].file \in 1..Len(data) /\ DataFile(full) = metas[loaded].file + 1
      BY <1>1, <2>1, <2>3 DEF DataFile, Sound, Ranges, Files
    <3>2. \A e \in 1..Len(metas) : metas[e].file \in Nat /\ metas[e].file <= metas[loaded].file
      BY <2>1 DEF Sound, Files
    <3>3. Len(data) \in Nat BY DEF Sound, Ranges
    <3> QED BY <3>1, <3>2, <3>3
  <2> QED BY <2>2, <2>3
<1>2. CASE latestFile # 0
  <2>1. latestFile \in 1..Len(data) /\ opened
    BY <1>2 DEF Sound, Files, Ranges
  <2>2. \A e \in 1..Len(metas) : metas[e].file \in Nat /\ metas[e].file <= latestFile
    BY <1>2 DEF Sound, Files
  <2>3. DataFile(full) = IF full THEN latestFile + 1 ELSE latestFile
    BY <1>2, <2>1 DEF DataFile
  <2>4. Len(data) \in Nat BY DEF Sound, Ranges
  <2>5. CASE full
    <3>1. DataFile(full) = latestFile + 1 BY <2>3, <2>5
    <3> QED BY <2>1, <2>2, <2>4, <3>1
  <2>6. CASE ~full
    <3>1. DataFile(full) = latestFile BY <2>3, <2>6
    <3> QED BY <2>1, <2>2, <2>4, <3>1
  <2> QED BY <2>5, <2>6
<1> QED BY <1>1, <1>2

(* What the data files hold after the rows of an episode are written. *)
LEMMA RowsAdded ==
    ASSUME Sound, stage = "rows", NEW full \in BOOLEAN
    PROVE  /\ DataFiles(full) \in Seq(Seq(Row))
           /\ Len(data) <= Len(DataFiles(full)) /\ DataFile(full) \in 1..Len(DataFiles(full))
           /\ \A i \in info.frames .. info.frames + Len(buffer) - 1 :
                \E r \in 1..Len(DataFiles(full)[DataFile(full)]) :
                    /\ DataFiles(full)[DataFile(full)][r].episode = info.episodes
                    /\ DataFiles(full)[DataFile(full)][r].index = i
           /\ \A e \in 1..Len(metas) :
                /\ Len(data[metas[e].file]) <= Len(DataFiles(full)[metas[e].file])
                /\ \A r \in 1..Len(data[metas[e].file]) :
                    DataFiles(full)[metas[e].file][r] = data[metas[e].file][r]
<1> DEFINE file == DataFile(full)
           old == IF opened /\ file = latestFile THEN data[file] ELSE <<>>
<1>1. Ranges /\ Files BY DEF Sound
<1>2. file \in 1..Len(data) + 1 BY FileFree
<1>3. old \in Seq(Row)
  BY <1>1, <1>2 DEF Ranges, Files
<1>4. EpisodeRows \in Seq(Row) /\ Len(EpisodeRows) = Len(buffer)
      /\ \A i \in 1..Len(buffer) :
            EpisodeRows[i].episode = info.episodes /\ EpisodeRows[i].index = info.frames + i - 1
  BY <1>1, RowsNumbered
<1> DEFINE new == old \o EpisodeRows
<1>5. /\ new \in Seq(Row) /\ Len(new) = Len(old) + Len(buffer)
      /\ \A r \in 1..Len(old) : new[r] = old[r]
      /\ \A i \in 1..Len(buffer) : new[Len(old) + i] = EpisodeRows[i]
  <2> HIDE DEF old
  <2>1. Len(buffer) \in Nat /\ Len(old) \in Nat /\ Len(EpisodeRows) = Len(buffer)
        /\ old \in Seq(Row) /\ EpisodeRows \in Seq(Row)
    BY <1>1, <1>3, <1>4 DEF Ranges
  <2>2. new \in Seq(Row) BY <2>1
  <2>3. Len(new) = Len(old) + Len(buffer) BY <2>1
  <2>4. \A r \in 1..Len(old) : new[r] = old[r] BY <2>1
  <2>5. ASSUME NEW i \in 1..Len(buffer) PROVE new[Len(old) + i] = EpisodeRows[i]
    BY <2>1
  <2> QED BY <2>2, <2>3, <2>4, <2>5
<1>6. DataFiles(full) = Put(data, file, new) BY DEF DataFiles
<1>7. /\ DataFiles(full) \in Seq(Seq(Row)) /\ Len(data) <= Len(DataFiles(full))
      /\ file <= Len(DataFiles(full)) /\ DataFiles(full)[file] = new
      /\ \A j \in 1..Len(data) : j # file => DataFiles(full)[j] = data[j]
  <2> HIDE DEF new, file
  <2>1. data \in Seq(Seq(Row)) /\ new \in Seq(Row) BY <1>1, <1>5 DEF Ranges
  <2> QED BY <1>2, <1>6, <2>1, PutFile
<1>8. ASSUME NEW i \in info.frames .. info.frames + Len(buffer) - 1
      PROVE  \E r \in 1..Len(new) : new[r].episode = info.episodes /\ new[r].index = i
  <2> HIDE DEF old, new
  <2>1. i - info.frames + 1 \in 1..Len(buffer) /\ info.frames \in Nat /\ Len(old) \in Nat
    BY <1>1, <1>3 DEF Ranges
  <2>2. new[Len(old) + (i - info.frames + 1)] = EpisodeRows[i - info.frames + 1] BY <1>5, <2>1
  <2>3. Len(old) + (i - info.frames + 1) \in 1..Len(new) BY <1>5, <2>1
  <2>4. EpisodeRows[i - info.frames + 1].index = i BY <1>4, <2>1
  <2> QED BY <1>4, <2>1, <2>2, <2>3, <2>4
<1>9. ASSUME NEW e \in 1..Len(metas)
      PROVE  /\ Len(data[metas[e].file]) <= Len(DataFiles(full)[metas[e].file])
             /\ \A r \in 1..Len(data[metas[e].file]) :
                    DataFiles(full)[metas[e].file][r] = data[metas[e].file][r]
  <2>1. metas[e].file \in 1..Len(data) BY <1>1 DEF Files
  <2>2. CASE metas[e].file = file
    <3>1. metas[e].file \in Nat /\ ~(metas[e].file < file) BY <2>1, <2>2
    <3>2. old = data[metas[e].file] BY <2>2, <3>1, FileFree
    <3>3. Len(old) \in Nat /\ Len(buffer) \in Nat BY <1>1, <1>3 DEF Ranges
    <3> HIDE DEF old, new, file
    <3> QED BY <1>5, <1>7, <2>2, <3>2, <3>3
  <2>3. CASE metas[e].file # file
    <3>1. DataFiles(full)[metas[e].file] = data[metas[e].file] BY <1>7, <2>1, <2>3
    <3>2. Len(data[metas[e].file]) \in Nat BY <1>1, <2>1 DEF Ranges
    <3> QED BY <3>1, <3>2
  <2> QED BY <2>2, <2>3
<1> QED BY <1>2, <1>7, <1>8, <1>9

(* A video is put into a file that exists, or begins the next one. *)
LEMMA VideoAdded ==
    ASSUME Sound, NEW full \in BOOLEAN
    PROVE  /\ VideoFiles(full) \in Seq(Seq(Nat)) /\ Len(videos) <= Len(VideoFiles(full))
           /\ VideoFile(full) \in 1..Len(VideoFiles(full))
           /\ VideoStart(full) \in Nat
<1>1. /\ videos \in Seq(Seq(Nat)) /\ images \in Seq(Nat) /\ metas \in Seq(Meta)
      /\ Len(videos) \in Nat /\ Len(metas) \in Nat /\ loaded \in 0..Len(metas)
  BY DEF Sound, Ranges, Counts
<1>2. \A e \in 1..Len(metas) : metas[e].video \in 1..Len(videos) /\ metas[e].videoTo \in Nat
  <2>1. ASSUME NEW e \in 1..Len(metas) PROVE metas[e].videoTo \in Nat
    <3>1. metas[e] \in Meta BY <1>1
    <3> QED BY <3>1 DEF Meta
  <2> QED BY <2>1 DEF Sound, Files
<1>3. latestMeta => Last(metas) = metas[Len(metas)] /\ Len(metas) \in 1..Len(metas)
  BY <1>1 DEF Sound, Files, Last
<1>4. VideoFile(full) \in 1..Len(videos) + 1 /\ VideoStart(full) \in Nat
  BY <1>1, <1>2, <1>3 DEF VideoFile, VideoStart
<1>5. latestMeta /\ ~full => VideoFile(full) \in 1..Len(videos)
  BY <1>1, <1>2, <1>3 DEF VideoFile
<1> DEFINE new == IF latestMeta /\ ~full THEN videos[VideoFile(full)] \o images ELSE images
<1>6. new \in Seq(Nat)
  BY <1>1, <1>5
<1>7. VideoFiles(full) = Put(videos, VideoFile(full), new) BY DEF VideoFiles
<1> HIDE DEF new
<1> QED BY <1>1, <1>4, <1>6, <1>7, PutFile
-----------------------------------------------------------------------------
LEMMA Initially ==
    ASSUME Init PROVE Inv
<1>1. Flags BY DEF Init, Flags
<1>2. Ranges BY WriterAssumption, QueuesTyped DEF Init, Ranges
<1>3. Contiguous BY DEF Init, Contiguous
<1>4. Counts /\ Files BY DEF Init, Counts, Files
<1>5. RowsKept /\ Written BY DEF Init, RowsKept, Written
<1> QED BY <1>1, <1>2, <1>3, <1>4, <1>5 DEF Inv, Sound

(* Nothing is lost by a step that leaves the rows and the metadata alone. *)
LEMMA RowsUntouched ==
    ASSUME RowsKept, metas' = metas, data' = data
    PROVE  RowsKept'
<1> DEFINE Kept(m, d) ==
        \A e \in 1..Len(m) :
            /\ m[e].file \in DOMAIN d
            /\ \A i \in m[e].from .. m[e].to - 1 :
                \E r \in 1..Len(d[m[e].file]) :
                    /\ d[m[e].file][r].episode = e - 1
                    /\ d[m[e].file][r].index = i
<1>1. Kept(metas, data) BY DEF RowsKept
<1>2. Kept(metas', data')
  <2> HIDE DEF Kept
  <2> QED BY <1>1
<1> QED BY <1>2, Zenon DEF RowsKept

(* A step that leaves the files, their counts and the metadata alone keeps   *)
(* what is said about them.                                                  *)
LEMMA DiskUntouched ==
    ASSUME Inv, UNCHANGED diskVars, UNCHANGED fileVars, stage' \notin {"video"},
           stage # "closed", stage' # "closed"
    PROVE  Contiguous' /\ Files' /\ RowsKept' /\ Written'
<1>1. Contiguous' BY DEF Inv, Sound, Contiguous, diskVars
<1>2. Files' BY DEF Inv, Sound, Files, diskVars, fileVars
<1>3. RowsKept' BY RowsUntouched DEF Inv, diskVars
<1>4. Written' BY DEF Written
<1> QED BY <1>1, <1>2, <1>3, <1>4

LEMMA CollectSteps ==
    ASSUME Inv, AddFrame \/ AddFrameFails \/ ClearBuffer
    PROVE  Inv'
<1>1. Flags /\ Ranges /\ Counts /\ Contiguous BY DEF Inv, Sound
<1>2. Contiguous' /\ Files' /\ RowsKept' /\ Written'
  <2>1. UNCHANGED diskVars /\ UNCHANGED fileVars /\ stage = "idle" /\ stage' = stage
    BY DEF AddFrame, AddFrameFails, ClearBuffer
  <2> QED BY <2>1, DiskUntouched
<1>3. CASE AddFrame
  <2>1. Flags'
    <3>1. frames + 1 \in Nat BY <1>1 DEF Ranges
    <3>2. encoder' \in {"off", "wait", "encode", "dead"}
      BY <1>1, <1>3, <3>1, ImageTyped DEF AddFrame
    <3> QED BY <1>1, <1>3, <3>2 DEF AddFrame, Flags, diskVars, fileVars, historyVars
  <2>2. /\ images' \in Seq(Nat) /\ frameQueue' \in FrameQueue
        /\ buffer' \in Seq(Nat) /\ frames' \in 0..MaxFrames
        /\ Len(buffer') = Len(buffer) + 1
    <3>1. frames + 1 \in Nat /\ frames + 1 \in 0..MaxFrames
      BY <1>1, <1>3, WriterAssumption DEF AddFrame, Ranges
    <3>2. images' \in Seq(Nat) /\ frameQueue' \in FrameQueue
      BY <1>1, <1>3, <3>1, ImageTyped DEF AddFrame
    <3> QED BY <1>1, <1>3, <3>1, <3>2 DEF AddFrame, Ranges
  <2>3. Ranges' BY <1>1, <1>3, <2>2 DEF AddFrame, Ranges, diskVars, fileVars, historyVars
  <2>4. Counts'
    BY <1>1, <1>3, <2>2 DEF AddFrame, Ranges, Counts, diskVars, fileVars, historyVars
  <2> QED BY <1>2, <2>1, <2>3, <2>4 DEF Inv, Sound
<1>4. CASE AddFrameFails
  <2>1. Flags' /\ images' \in Seq(Nat) /\ frameQueue' \in FrameQueue
    <3>1. frames + 1 \in Nat BY <1>1 DEF Ranges
    <3>2. /\ encoder' \in {"off", "wait", "encode", "dead"}
          /\ images' \in Seq(Nat) /\ frameQueue' \in FrameQueue
      <4>1. CASE AddImage(frames + 1) BY <1>1, <3>1, <4>1, ImageTyped
      <4>2. CASE StartEncoder(<<>>) BY <4>2, QueuesTyped DEF StartEncoder
      <4>3. CASE UNCHANGED <<images, encoder, frameQueue>>
        BY <1>1, <4>3 DEF Flags, Ranges
      <4> QED BY <1>4, <4>1, <4>2, <4>3 DEF AddFrameFails
    <3> QED BY <1>1, <1>4, <3>2 DEF AddFrameFails, Flags, diskVars, fileVars, historyVars
  <2>2. frames' \in 0..MaxFrames /\ frames' = frames + 1 /\ faults' \in 0..MaxFaults
    <3>1. frames + 1 \in 0..MaxFrames /\ frames' = frames + 1
      BY <1>1, <1>4, WriterAssumption DEF AddFrameFails, Ranges
    <3>2. faults' = faults \/ (faults < MaxFaults /\ faults' = faults + 1)
      BY <1>4 DEF AddFrameFails, CallFails
    <3>3. faults \in 0..MaxFaults BY <1>1 DEF Ranges
    <3> QED BY <3>1, <3>2, <3>3, WriterAssumption
  <2>3. Ranges' BY <1>1, <1>4, <2>1, <2>2 DEF AddFrameFails, Ranges, diskVars, fileVars, historyVars
  <2>4. Counts'
    BY <1>1, <1>4, <2>2 DEF AddFrameFails, Ranges, Counts, diskVars, fileVars, historyVars
  <2> QED BY <1>2, <2>1, <2>3, <2>4 DEF Inv, Sound
<1>5. CASE ClearBuffer
  <2>1. Flags' BY <1>1, <1>5 DEF ClearBuffer, EncoderOff, Flags, diskVars, fileVars, historyVars
  <2>2. Ranges' BY <1>1, <1>5, QueuesTyped DEF ClearBuffer, EncoderOff, Ranges, diskVars, fileVars, historyVars
  <2>3. Counts' BY <1>1, <1>5 DEF ClearBuffer, Ranges, Counts, diskVars, fileVars, historyVars
  <2> QED BY <1>2, <2>1, <2>2, <2>3 DEF Inv, Sound
<1> QED BY <1>3, <1>4, <1>5

(* The thread of the encoder touches the frames of the episode only. *)
LEMMA EncoderSteps ==
    ASSUME Inv, Encoder
    PROVE  Inv'
<1>1. Sound /\ Flags /\ Ranges /\ Counts /\ Files BY DEF Inv, Sound
<1>2. /\ UNCHANGED <<streaming, diskVars, fileVars, buffer, ragged, taken, stage, frames>>
      /\ UNCHANGED historyVars
  BY DEF Encoder, EncodeFrame, FrameEncoded, EncoderFails
<1> USE DEF diskVars, fileVars, historyVars
<1>3. Contiguous' /\ Counts' /\ Files' /\ Written'
  <2>1. Contiguous' /\ Counts' BY <1>1, <1>2 DEF Sound, Contiguous, Counts
  <2>2. Files' BY <1>1, <1>2 DEF Files
  <2>3. Written' BY <1>2, Zenon DEF Inv, Written
  <2> QED BY <2>1, <2>2, <2>3
<1>4. RowsKept' BY <1>2, RowsUntouched DEF Inv
<1>5. /\ encoder' \in {"off", "wait", "encode", "dead"}
      /\ images' \in Seq(Nat) /\ frameQueue' \in FrameQueue /\ faults' \in 0..MaxFaults
  <2>1. CASE EncodeFrame
    <3>1. Head(frameQueue) \in Nat /\ Tail(frameQueue) \in FrameQueue
      BY <1>1, <2>1, QueuesTyped DEF EncodeFrame, Ranges
    <3> QED BY <1>1, <2>1, <3>1 DEF EncodeFrame, Ranges
  <2>2. CASE FrameEncoded BY <1>1, <2>2 DEF FrameEncoded, Ranges
  <2>3. CASE EncoderFails
    BY <1>1, <2>3, WriterAssumption DEF EncoderFails, CallFails, Ranges
  <2> QED BY <2>1, <2>2, <2>3 DEF Encoder
<1>6. Flags' BY <1>1, <1>2, <1>5 DEF Flags
<1>7. Ranges' BY <1>1, <1>2, <1>5 DEF Ranges
<1> QED BY <1>3, <1>4, <1>6, <1>7 DEF Inv, Sound

LEMMA RefusedSteps ==
    ASSUME Inv, BeginSave \/ StackFails
    PROVE  Inv'
<1>1. Flags /\ Ranges /\ Counts BY DEF Inv, Sound
<1>2. Contiguous' /\ Files' /\ RowsKept' /\ Written'
  <2>1. /\ UNCHANGED diskVars /\ UNCHANGED fileVars
        /\ stage \in {"idle", "rows"} /\ stage' \in {"idle", "rows"}
    BY DEF BeginSave, StackFails
  <2> QED BY <2>1, DiskUntouched
<1>3. Flags'
  BY <1>1 DEF BeginSave, StackFails, Flags, diskVars, fileVars, bufferVars, historyVars
<1>4. faults' \in 0..MaxFaults
  BY <1>1, WriterAssumption DEF BeginSave, StackFails, CallFails, Ranges
<1>5. Ranges'
  BY <1>1, <1>4 DEF BeginSave, StackFails, Ranges, diskVars, fileVars, bufferVars, historyVars
<1>6. Counts'
  BY <1>1 DEF BeginSave, StackFails, Counts, diskVars, fileVars, bufferVars, historyVars
<1> QED BY <1>2, <1>3, <1>5, <1>6 DEF Inv, Sound

LEMMA RowsStep ==
    ASSUME Inv, SaveRows
    PROVE  Inv'
<1> USE DEF diskVars, fileVars, bufferVars, historyVars
<1>1. Sound /\ Flags /\ Ranges /\ Counts /\ Files /\ RowsKept /\ stage = "rows"
  BY DEF Inv, Sound, SaveRows
<1>2. PICK full \in BOOLEAN : data' = DataFiles(full) /\ latestFile' = DataFile(full)
  BY DEF SaveRows
<1>3. /\ data' \in Seq(Seq(Row)) /\ Len(data) <= Len(data') /\ latestFile' \in 1..Len(data')
      /\ \A i \in info.frames .. info.frames + Len(buffer) - 1 :
            \E r \in 1..Len(data'[latestFile']) :
                /\ data'[latestFile'][r].episode = info.episodes
                /\ data'[latestFile'][r].index = i
      /\ \A e \in 1..Len(metas) :
            /\ Len(data[metas[e].file]) <= Len(data'[metas[e].file])
            /\ \A r \in 1..Len(data[metas[e].file]) :
                    data'[metas[e].file][r] = data[metas[e].file][r]
  BY <1>1, <1>2, RowsAdded
<1>4. Flags' BY <1>1 DEF SaveRows, Flags
<1>5. Ranges' BY <1>1, <1>3 DEF SaveRows, Ranges
<1>6. Contiguous' BY DEF Inv, Sound, SaveRows, Contiguous
<1>7. Counts' BY <1>1 DEF SaveRows, Counts
<1>8. Files'
  <2>1. \A e \in 1..Len(metas) : metas[e].file <= latestFile' BY <1>1, <1>2, FileFree
  <2>2. Len(data) \in Nat /\ Len(data') \in Nat
    <3>1. data \in Seq(Seq(Row)) BY <1>1 DEF Ranges
    <3> QED BY <1>3, <3>1
  <2>3. \A e \in 1..Len(metas) :
            metas[e].file \in 1..Len(data') /\ metas[e].video \in 1..Len(videos)
            /\ metas[e].file <= metas[Len(metas)].file
    BY <1>1, <1>3, <2>2 DEF Files
  <2> QED BY <1>1, <1>3, <2>1, <2>3 DEF SaveRows, Files
<1>9. RowsKept'
  <2>1. SUFFICES ASSUME NEW e \in 1..Len(metas)
                 PROVE  /\ metas[e].file \in DOMAIN data'
                        /\ \A i \in metas[e].from .. metas[e].to - 1 :
                            \E r \in 1..Len(data'[metas[e].file]) :
                                /\ data'[metas[e].file][r].episode = e - 1
                                /\ data'[metas[e].file][r].index = i
    <3>1. metas' = metas BY DEF SaveRows
    <3>2. SUFFICES ASSUME NEW e \in 1..Len(metas')
                   PROVE  /\ metas'[e].file \in DOMAIN data'
                          /\ \A i \in metas'[e].from .. metas'[e].to - 1 :
                              \E r \in 1..Len(data'[metas'[e].file]) :
                                  /\ data'[metas'[e].file][r].episode = e - 1
                                  /\ data'[metas'[e].file][r].index = i
      BY Zenon DEF RowsKept
    <3> QED BY <3>1
  <2>2. metas[e].file \in DOMAIN data'
    <3>1. metas[e].file \in 1..Len(data) /\ Len(data) \in Nat /\ Len(data') \in Nat
      <4>1. data \in Seq(Seq(Row)) BY <1>1 DEF Ranges
      <4>2. metas[e].file \in 1..Len(data) BY <1>1 DEF Files
      <4> QED BY <1>3, <4>1, <4>2
    <3>2. DOMAIN data' = 1..Len(data') BY <1>3
    <3> QED BY <1>3, <3>1, <3>2
  <2>3. ASSUME NEW i \in metas[e].from .. metas[e].to - 1
        PROVE  \E r \in 1..Len(data'[metas[e].file]) :
                  /\ data'[metas[e].file][r].episode = e - 1
                  /\ data'[metas[e].file][r].index = i
    <3>1. PICK r \in 1..Len(data[metas[e].file]) :
              data[metas[e].file][r].episode = e - 1 /\ data[metas[e].file][r].index = i
      BY <1>1 DEF RowsKept
    <3>2. Len(data[metas[e].file]) \in Nat /\ Len(data'[metas[e].file]) \in Nat
      <4>1. metas[e].file \in 1..Len(data) BY <1>1 DEF Files
      <4>2. data[metas[e].file] \in Seq(Row) BY <1>1, <4>1 DEF Ranges
      <4>3. data'[metas[e].file] \in Seq(Row) BY <1>3, <2>2
      <4> QED BY <4>2, <4>3
    <3>3. r \in 1..Len(data'[metas[e].file]) BY <1>3, <3>1, <3>2
    <3>4. data'[metas[e].file][r] = data[metas[e].file][r] BY <1>3, <3>1
    <3> QED BY <3>1, <3>3, <3>4
  <2> QED BY <2>2, <2>3
<1>10. Written' BY <1>3 DEF SaveRows, Written
<1> QED BY <1>4, <1>5, <1>6, <1>7, <1>8, <1>9, <1>10 DEF Inv, Sound

LEMMA VideoFailsStep ==
    ASSUME Inv, VideoFails
    PROVE  Inv'
<1> USE DEF diskVars, fileVars, bufferVars, historyVars
<1>1. Sound /\ Flags /\ Ranges /\ Counts /\ Files /\ stage = "video"
  BY DEF Inv, Sound, VideoFails
<1>2. videos' \in Seq(Seq(Nat)) /\ Len(videos) <= Len(videos') /\ images' \in Seq(Nat)
  <2>1. CASE UNCHANGED <<videos, images>>
    <3>1. videos \in Seq(Seq(Nat)) /\ images \in Seq(Nat) BY <1>1 DEF Ranges
    <3> QED BY <2>1, <3>1
  <2>2. CASE (\E full \in BOOLEAN : videos' = VideoFiles(full)) /\ images' = <<>>
    BY <1>1, <2>2, VideoAdded
  <2> QED BY <2>1, <2>2 DEF VideoFails
<1>3. Flags' BY <1>1 DEF VideoFails, EncoderOff, Flags
<1>4. faults' \in 0..MaxFaults /\ frameQueue' \in FrameQueue
  <2>1. faults' \in 0..MaxFaults BY <1>1, WriterAssumption DEF VideoFails, CallFails, Ranges
  <2>2. frameQueue' \in FrameQueue
    BY <1>1, QueuesTyped DEF VideoFails, EncoderOff, Ranges
  <2> QED BY <2>1, <2>2
<1>5. Ranges' BY <1>1, <1>2, <1>4 DEF VideoFails, Ranges
<1>6. Contiguous' BY DEF Inv, Sound, VideoFails, Contiguous
<1>7. Counts' BY <1>1 DEF VideoFails, Counts
<1>8. Files'
  <2>1. Len(videos) \in Nat /\ Len(videos') \in Nat BY <1>1, <1>2 DEF Ranges
  <2>2. \A e \in 1..Len(metas) : metas[e].video \in 1..Len(videos') BY <1>1, <1>2, <2>1 DEF Files
  <2> QED BY <1>1, <2>2 DEF VideoFails, Files
<1>9. RowsKept'
  <2>1. RowsKept /\ metas' = metas /\ data' = data BY DEF Inv, VideoFails
  <2> QED BY <2>1, RowsUntouched
<1>10. Written' BY DEF VideoFails, Written
<1> QED BY <1>3, <1>5, <1>6, <1>7, <1>8, <1>9, <1>10 DEF Inv, Sound

LEMMA FinishStep ==
    ASSUME Inv, FinishSave
    PROVE  Inv'
<1>1. /\ Sound /\ Flags /\ Ranges /\ Counts /\ Files /\ Contiguous /\ RowsKept /\ Written
      /\ stage = "video"
  BY DEF Inv, Sound, FinishSave
<1>2. PICK full \in BOOLEAN :
          videos' = VideoFiles(full) /\ metas' = Append(metas, EpisodeMeta(full))
  BY DEF FinishSave
<1> DEFINE m == EpisodeMeta(full)
           n == Len(metas)
<1>3. /\ n \in Nat /\ n = info.episodes /\ info.frames \in Nat /\ Len(buffer) \in Nat
      /\ buffer # <<>> /\ Len(buffer) > 0 /\ metas \in Seq(Meta) /\ Len(images) \in Nat
      /\ latestFile \in 1..Len(data) /\ Len(data) \in Nat
  <2>1. latestFile # 0 /\ latestFile <= Len(data) BY <1>1 DEF Files
  <2>2. /\ metas \in Seq(Meta) /\ images \in Seq(Nat) /\ buffer \in Seq(Nat)
        /\ data \in Seq(Seq(Row)) /\ info.frames \in Nat /\ latestFile \in Nat
    BY <1>1 DEF Ranges
  <2>3. buffer # <<>> /\ Len(metas) = info.episodes BY <1>1 DEF Counts, Contiguous
  <2> QED BY <2>1, <2>2, <2>3
<1>4. /\ videos' \in Seq(Seq(Nat)) /\ Len(videos) <= Len(videos')
      /\ VideoFile(full) \in 1..Len(videos') /\ VideoStart(full) \in Nat
      /\ Len(videos) \in Nat /\ Len(videos') \in Nat
  <2>1. videos' \in Seq(Seq(Nat)) /\ Len(videos) <= Len(videos')
        /\ VideoFile(full) \in 1..Len(videos') /\ VideoStart(full) \in Nat
    BY <1>1, <1>2, VideoAdded
  <2> QED BY <1>1, <2>1 DEF Ranges
<1>5. info' = [episodes |-> info.episodes + 1, frames |-> info.frames + Len(buffer)]
  BY DEF FinishSave, CountEpisode
<1>6. /\ m.file = latestFile /\ m.from = info.frames /\ m.to = info.frames + Len(buffer)
      /\ m.video = VideoFile(full) /\ m \in Meta
  <2>1. (IF metas = <<>> THEN 0 ELSE Last(metas).to) = info.frames
    BY <1>1, <1>3 DEF Contiguous, Last
  <2>2. VideoFile(full) \in Nat /\ latestFile \in Nat /\ VideoStart(full) + Len(images) \in Nat
    BY <1>3, <1>4
  <2>3. m = [file |-> latestFile, from |-> info.frames, to |-> info.frames + Len(buffer),
             video |-> VideoFile(full), videoFrom |-> VideoStart(full),
             videoTo |-> VideoStart(full) + Len(images)]
    BY <2>1 DEF EpisodeMeta
  <2>4. info.frames + Len(buffer) \in Nat BY <1>3
  <2> QED BY <1>3, <1>4, <2>2, <2>3, <2>4 DEF Meta
<1> HIDE DEF m
<1>7. /\ metas' \in Seq(Meta) /\ Len(metas') = n + 1 /\ metas'[n + 1] = m
      /\ \A e \in 1..n : metas'[e] = metas[e]
  BY <1>2, <1>3, <1>6 DEF m
<1>8. Flags' BY <1>1 DEF FinishSave, EncoderOff, Flags
<1>9. Ranges'
  <2>1. info' \in [episodes : Nat, frames : Nat] BY <1>3, <1>5
  <2>2. intact' \in Nat BY <1>1 DEF FinishSave, Ranges
  <2>3. frameQueue' \in FrameQueue BY QueuesTyped DEF FinishSave, EncoderOff
  <2> QED BY <1>1, <1>4, <1>7, <2>1, <2>2, <2>3 DEF FinishSave, Ranges
<1>10. Contiguous'
  <2>1. metas' # <<>> /\ metas'[Len(metas')].to = info'.frames /\ Len(metas') = info'.episodes
    BY <1>3, <1>5, <1>6, <1>7
  <2>2. ASSUME NEW e \in 1..Len(metas')
        PROVE  /\ metas'[e].from = IF e = 1 THEN 0 ELSE metas'[e - 1].to
               /\ metas'[e].from < metas'[e].to
    <3>1. CASE e <= n
      <4>1. e \in 1..n /\ (e # 1 => e - 1 \in 1..n) BY <1>3, <1>7, <3>1
      <4>2. metas'[e] = metas[e] /\ (e # 1 => metas'[e - 1] = metas[e - 1]) BY <1>7, <4>1
      <4>3. /\ metas[e].from = IF e = 1 THEN 0 ELSE metas[e - 1].to
            /\ metas[e].from < metas[e].to
        BY <1>1, <4>1 DEF Contiguous
      <4> QED BY <4>2, <4>3
    <3>2. CASE ~(e <= n)
      <4>1. e = n + 1 /\ metas'[e] = m BY <1>3, <1>7, <3>2
      <4>2. n # 0 => metas'[n].to = info.frames
        <5>1. n # 0 => n \in 1..n /\ metas # <<>> BY <1>3
        <5>2. metas # <<>> => info.frames = metas[Len(metas)].to BY <1>1 DEF Contiguous
        <5> QED BY <1>7, <5>1, <5>2
      <4>3. n = 0 => info.frames = 0 BY <1>1, <1>3 DEF Contiguous
      <4> QED BY <1>3, <1>6, <4>1, <4>2, <4>3
    <3> QED BY <3>1, <3>2
  <2> QED BY <2>1, <2>2 DEF Contiguous
<1>11. Counts'
  <2>1. Len(buffer') = 0 /\ frames' = frames /\ loaded' = loaded /\ stage' = "idle"
        /\ intact' = IF spoiled THEN intact ELSE intact + 1
    BY DEF FinishSave
  <2>2. info'.frames <= frames /\ info'.episodes <= info'.frames
    BY <1>1, <1>3, <1>5 DEF Counts, Ranges
  <2> QED BY <1>1, <1>3, <1>5, <1>7, <2>1, <2>2 DEF Counts, Ranges
<1>12. Files'
  <2>1. /\ data' = data /\ latestFile' = latestFile /\ opened' = opened /\ loaded' = loaded
        /\ stage' = "idle"
    BY DEF FinishSave
  <2>2. ASSUME NEW e \in 1..Len(metas')
        PROVE  /\ metas'[e].file \in 1..Len(data') /\ metas'[e].video \in 1..Len(videos')
               /\ metas'[e].file <= latestFile
    <3>1. CASE e <= n
      <4>1. e \in 1..n /\ metas'[e] = metas[e] BY <1>3, <1>7, <3>1
      <4>2. /\ metas[e].file \in 1..Len(data) /\ metas[e].video \in 1..Len(videos)
            /\ metas[e].file <= latestFile
        BY <1>1, <1>3, <4>1 DEF Files
      <4> QED BY <1>4, <2>1, <4>1, <4>2
    <3>2. CASE ~(e <= n)
      <4>1. metas'[e] = m BY <1>3, <1>7, <3>2
      <4> QED BY <1>3, <1>4, <1>6, <2>1, <4>1
    <3> QED BY <3>1, <3>2
  <2>3. metas'[Len(metas')].file = latestFile BY <1>6, <1>7
  <2>4. latestFile <= Len(data') /\ latestFile # 0 /\ metas' # <<>>
    BY <1>3, <1>7, <2>1
  <2>5. opened BY <1>1, <2>4 DEF Files
  <2> QED BY <2>1, <2>2, <2>3, <2>4, <2>5 DEF Files
<1>13. RowsKept'
  <2>1. data' = data BY DEF FinishSave
  <2>2. ASSUME NEW e \in 1..Len(metas')
        PROVE  /\ metas'[e].file \in DOMAIN data
               /\ \A i \in metas'[e].from .. metas'[e].to - 1 :
                    \E r \in 1..Len(data[metas'[e].file]) :
                        /\ data[metas'[e].file][r].episode = e - 1
                        /\ data[metas'[e].file][r].index = i
    <3>1. CASE e <= n
      <4>1. e \in 1..n /\ metas'[e] = metas[e] BY <1>3, <1>7, <3>1
      <4>2. /\ metas[e].file \in DOMAIN data
            /\ \A i \in metas[e].from .. metas[e].to - 1 :
                \E r \in 1..Len(data[metas[e].file]) :
                    /\ data[metas[e].file][r].episode = e - 1
                    /\ data[metas[e].file][r].index = i
        BY <1>1, <4>1 DEF RowsKept
      <4> QED BY <4>1, <4>2, Zenon
    <3>2. CASE ~(e <= n)
      <4>1. e = n + 1 /\ metas'[e] = m BY <1>3, <1>7, <3>2
      <4>2. DOMAIN data = 1..Len(data) BY <1>1 DEF Ranges
      <4>3. e - 1 = info.episodes BY <1>3, <4>1
      <4>4. \A i \in info.frames .. info.frames + Len(buffer) - 1 :
                \E r \in 1..Len(data[latestFile]) :
                    /\ data[latestFile][r].episode = info.episodes
                    /\ data[latestFile][r].index = i
        BY <1>1 DEF Written
      <4>5. latestFile \in DOMAIN data BY <1>3, <4>2
      <4>6. metas'[e].file = latestFile /\ metas'[e].from = info.frames
            /\ metas'[e].to - 1 = info.frames + Len(buffer) - 1
        <5>1. /\ metas'[e].file = m.file /\ metas'[e].from = m.from /\ metas'[e].to = m.to
          BY <4>1, Zenon
        <5> QED BY <1>3, <1>6, <5>1
      <4> QED BY <4>3, <4>4, <4>5, <4>6, Zenon
    <3> QED BY <3>1, <3>2
  <2> QED BY <2>1, <2>2 DEF RowsKept
<1>14. Written' BY DEF FinishSave, Written
<1> QED BY <1>8, <1>9, <1>10, <1>11, <1>12, <1>13, <1>14 DEF Inv, Sound

LEMMA SessionSteps ==
    ASSUME Inv, Finalize \/ Resume \/ UNCHANGED vars
    PROVE  Inv'
<1> USE DEF diskVars, fileVars, bufferVars, historyVars
<1>1. Flags /\ Ranges /\ Counts /\ Files /\ Contiguous /\ RowsKept BY DEF Inv, Sound
<1>2. Contiguous' /\ RowsKept'
  <2>1. UNCHANGED diskVars BY DEF Finalize, Resume, vars
  <2> QED BY <1>1, <2>1, RowsUntouched DEF Contiguous
<1>3. CASE Finalize
  <2>1. Flags' BY <1>1, <1>3 DEF Finalize, EncoderOff, Flags
  <2>2. images' \in Seq(Nat)
    <3>1. images \in Seq(Nat) /\ <<>> \in Seq(Nat) BY <1>1 DEF Ranges
    <3> QED BY <1>3, <3>1 DEF Finalize
  <2>3. Ranges' BY <1>1, <1>3, <2>2, QueuesTyped DEF Finalize, EncoderOff, Ranges
  <2>4. Counts' /\ Files' /\ Written' BY <1>1, <1>3 DEF Finalize, Counts, Files, Written
  <2> QED BY <1>2, <2>1, <2>3, <2>4 DEF Inv, Sound
<1>4. CASE Resume
  <2>1. metas # <<>> /\ Len(metas) \in Nat
    <3>1. metas \in Seq(Meta) /\ info.episodes \in Nat BY <1>1 DEF Ranges
    <3>2. Len(metas) = info.episodes /\ info.episodes > 0 BY <1>1, <1>4 DEF Resume, Contiguous
    <3> QED BY <3>1, <3>2
  <2>2. Flags' BY <1>1, <1>4 DEF Resume, Flags
  <2>3. Ranges' BY <1>1, <1>4, <2>1, WriterAssumption DEF Resume, Ranges
  <2>4. Counts' BY <1>1, <1>4, <2>1 DEF Resume, Counts, Ranges
  <2>5. Files' /\ Written' BY <1>1, <1>4, <2>1 DEF Resume, Files, Written
  <2> QED BY <1>2, <2>2, <2>3, <2>4, <2>5 DEF Inv, Sound
<1>5. CASE UNCHANGED vars
  <2> USE <1>5 DEF vars
  <2>1. Flags' /\ Ranges' BY <1>1 DEF Flags, Ranges
  <2>2. Counts' /\ Files' BY <1>1 DEF Counts, Files
  <2>3. Written' BY DEF Inv, Written
  <2> QED BY <1>2, <2>1, <2>2, <2>3 DEF Inv, Sound
<1> QED BY <1>3, <1>4, <1>5
-----------------------------------------------------------------------------
(* The invariant holds, from the first session on. *)
THEOREM Invariance == Spec => []Inv
<1>1. Init => Inv BY Initially
<1>2. Inv /\ [Next]_vars => Inv'
  BY CollectSteps, EncoderSteps, RefusedSteps, RowsStep, VideoFailsStep, FinishStep, SessionSteps
     DEF Next, SaveEpisode, Terminated
<1> QED BY <1>1, <1>2, PTL DEF Spec

(* Types, and info.json counting no more episodes and frames than were       *)
(* recorded (DatasetWriter.save_episode, DatasetMetadata.save_episode).      *)
THEOREM TypeCorrect == Spec => []TypeOK
<1>1. Inv => TypeOK
  <2>1. SUFFICES ASSUME Inv PROVE TypeOK OBVIOUS
  <2>2. Flags /\ Ranges /\ Counts /\ Contiguous BY <2>1 DEF Inv, Sound
  <2>3. info \in [episodes : 0..MaxFrames, frames : 0..MaxFrames]
        /\ loaded \in 0..MaxFrames /\ intact \in 0..info.episodes
    BY <2>2, WriterAssumption DEF Ranges, Counts, Contiguous
  <2> QED BY <2>2, <2>3 DEF TypeOK, Flags, Ranges, FrameQueue, Meta, Row
<1> QED BY <1>1, Invariance, PTL

(* The ranges of the episodes follow each other up to total_frames, over any *)
(* number of resumptions, failed saves and discarded attempts.               *)
THEOREM FramesDivided == Spec => []Contiguous
<1>1. Inv => Contiguous BY DEF Inv, Sound
<1> QED BY <1>1, Invariance, PTL

(* The data file named by an episode's metadata holds all of its rows: no    *)
(* writer that is opened later empties it.                                   *)
THEOREM RowsSafe == Spec => []RowsKept
<1>1. Inv => RowsKept BY DEF Inv
<1> QED BY <1>1, Invariance, PTL
=============================================================================
