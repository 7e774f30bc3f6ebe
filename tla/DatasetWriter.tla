---------------------------- MODULE DatasetWriter ----------------------------
(***************************************************************************)
(* Recording into a LeRobotDataset: datasets/dataset_writer.py, with the   *)
(* metadata of dataset_metadata.py and the resumption of a dataset on disk *)
(* (lerobot_dataset.py).  A dataset is three kinds of files that refer to  *)
(* each other by position: data files of rows, video files of the frames   *)
(* of one episode after the other, and the episodes' metadata, which says  *)
(* where each of them is found.  save_episode writes them in this order,   *)
(* and may fail between any two.                                           *)
(*                                                                         *)
(* A frame is a number that no other frame has.  There is one camera, the  *)
(* videos are encoded one episode at a time: when the episode is saved, or *)
(* while it is recorded (streaming), by a thread that takes the frames     *)
(* from a bounded queue (StreamingVideoEncoder of video_utils.py).  Files  *)
(* are numbered from one, without chunks; when a file is full depends on   *)
(* sizes, and is a choice here.                                            *)
(***************************************************************************)
EXTENDS Integers, SequencesExt

CONSTANTS
    QueueSize,      \* queue_maxsize of the encoder
    MaxFrames,      \* bound: frames that are ever added
    MaxSessions,    \* bound: recording sessions of the dataset
    MaxFaults       \* bound: steps of the writer that raise

ASSUME WriterAssumption ==
    /\ QueueSize \in Nat \ {0}
    /\ MaxFrames \in Nat /\ MaxSessions \in Nat \ {0} /\ MaxFaults \in Nat

VARIABLES
    streaming,      \* there is a _streaming_encoder
    info,           \* meta.info, in memory and on disk
    metas,          \* the episodes' metadata, in order
    data,           \* the rows of each data file
    videos,         \* the frames of each video file
    loaded,         \* meta.episodes: how many there were when it was loaded
    latestFile,     \* the data file of _latest_episode, or 0
    latestMeta,     \* meta.latest_episode is set
    opened,         \* _pq_writer is set
    buffer,         \* the frames of the episode buffer
    ragged,         \* a feature list of the buffer is shorter than another
    taken,          \* save_episode has popped size and task of the buffer
    images,         \* the frames of the episode's video: image files, or encoded
    encoder,        \* the encoder's thread, or "off" when no episode is active
    frameQueue,     \* the frames that wait for it
    stage,          \* where save_episode is, "idle", or "closed"
    frames,         \* history: frames added
    sessions,       \* history: sessions begun
    faults,         \* history: steps that raised
    spoiled,        \* history: a save failed after it had written its rows
    intact          \* history: the episodes saved before that

diskVars == <<info, metas, data, videos>>
fileVars == <<loaded, latestFile, latestMeta, opened>>
bufferVars == <<buffer, ragged, taken, images, encoder, frameQueue>>
historyVars == <<sessions, spoiled, intact>>
vars == <<streaming, diskVars, fileVars, bufferVars, stage, frames, faults, historyVars>>

-----------------------------------------------------------------------------

(* A dataset that was created. *)
Init ==
    /\ streaming \in BOOLEAN
    /\ info = [episodes |-> 0, frames |-> 0]
    /\ metas = <<>> /\ data = <<>> /\ videos = <<>>
    /\ loaded = 0 /\ latestFile = 0 /\ latestMeta = FALSE /\ opened = FALSE
    /\ buffer = <<>> /\ ragged = FALSE /\ taken = FALSE /\ images = <<>>
    /\ encoder = "off" /\ frameQueue = <<>>
    /\ stage = "idle" /\ frames = 0 /\ sessions = 1 /\ faults = 0
    /\ spoiled = FALSE /\ intact = 0

CallFails == faults < MaxFaults /\ faults' = faults + 1

(* A file is written at a position, after the ones that exist. *)
Put(files, i, content) ==
    IF i <= Len(files) THEN [files EXCEPT ![i] = content] ELSE Append(files, content)
-----------------------------------------------------------------------------
(* add_frame.                                                              *)

(* start_episode of the encoder; an episode that is active is cancelled. *)
StartEncoder(fed) == encoder' = "wait" /\ frameQueue' = fed /\ images' = <<>>

(* feed_frame: a frame that finds no place in the queue is dropped. *)
FeedFrame(f) ==
    /\ encoder # "dead"
    /\ frameQueue' = IF Len(frameQueue) < QueueSize THEN Append(frameQueue, f)
                                                   ELSE frameQueue
    /\ UNCHANGED <<images, encoder>>

(* The image of a frame: fed to the encoder, which is started for the first  *)
(* frame, or written to the file of its number, over an older one.           *)
AddImage(f) ==
    \/ streaming /\ buffer = <<>> /\ StartEncoder(<<f>>)
    \/ streaming /\ buffer # <<>> /\ FeedFrame(f)
    \/ /\ ~streaming
       /\ images' = Put(images, Len(buffer) + 1, f)
       /\ UNCHANGED <<encoder, frameQueue>>

AddFrame ==
    /\ stage = "idle" /\ ~taken /\ frames < MaxFrames
    /\ frames' = frames + 1
    /\ AddImage(frames + 1)
    /\ buffer' = Append(buffer, frames + 1)
    /\ UNCHANGED <<streaming, diskVars, fileVars, ragged, taken, stage, faults, historyVars>>

(* A feature of the frame raises, as feed_frame does when the thread died:   *)
(* its index, timestamp and task stay in the buffer, its size is not         *)
(* counted.  The image may have been taken.                                  *)
AddFrameFails ==
    /\ stage = "idle" /\ ~taken /\ frames < MaxFrames
    /\ IF encoder = "dead" /\ buffer # <<>> THEN UNCHANGED faults ELSE CallFails
    /\ frames' = frames + 1
    /\ \/ AddImage(frames + 1)
       \/ streaming /\ buffer = <<>> /\ StartEncoder(<<>>)
       \/ ~(streaming /\ buffer = <<>>) /\ UNCHANGED <<images, encoder, frameQueue>>
    /\ ragged' = TRUE
    /\ UNCHANGED <<streaming, diskVars, fileVars, buffer, taken, stage, historyVars>>
-----------------------------------------------------------------------------
(* The thread of the encoder.  Its video is looked at when it has ended, so  *)
(* the frame it encodes counts as encoded.                                   *)

EncodeFrame ==
    /\ encoder = "wait" /\ frameQueue # <<>>
    /\ images' = Append(images, Head(frameQueue)) /\ frameQueue' = Tail(frameQueue)
    /\ encoder' = "encode"
    /\ UNCHANGED <<streaming, diskVars, fileVars, buffer, ragged, taken, stage, frames>>
    /\ UNCHANGED <<faults, historyVars>>

FrameEncoded ==
    /\ encoder = "encode"
    /\ encoder' = "wait"
    /\ UNCHANGED <<streaming, diskVars, fileVars, buffer, ragged, taken, images>>
    /\ UNCHANGED <<frameQueue, stage, frames, faults, historyVars>>

(* The sentinel of finish_episode is behind all frames: none is left. *)
Flushed == encoder = "wait" /\ frameQueue = <<>>

(* Encoding a frame raises, or flushing the last ones does: the thread ends. *)
EncoderFails ==
    /\ encoder = "encode" \/ (stage = "video" /\ Flushed)
    /\ CallFails
    /\ encoder' = "dead"
    /\ UNCHANGED <<streaming, diskVars, fileVars, buffer, ragged, taken, images>>
    /\ UNCHANGED <<frameQueue, stage, frames, historyVars>>
-----------------------------------------------------------------------------
(* save_episode.                                                           *)

(* validate_episode_buffer accepts; size and task leave the buffer. *)
BeginSave ==
    /\ stage = "idle" /\ ~taken /\ buffer # <<>>
    /\ taken' = TRUE
    /\ stage' = "rows"
    /\ UNCHANGED <<streaming, diskVars, fileVars, buffer, ragged, images, encoder>>
    /\ UNCHANGED <<frameQueue, frames, faults, historyVars>>

(* The index and episode_index columns are computed from the metadata.       *)
EpisodeRows ==
    [i \in 1..Len(buffer) |->
        [episode |-> info.episodes, index |-> info.frames + i - 1, frame |-> buffer[i]]]

(* Mutant: a resumed dataset goes on in the last data file. *)
SameDataFile(full) ==
    IF latestFile = 0 THEN IF loaded = 0 THEN 1 ELSE metas[loaded].file
    ELSE latestFile + IF full THEN 1 ELSE 0

(* The data file: the next one in a resumed dataset, or when one is full.    *)
DataFile(full) ==
    IF latestFile = 0 THEN IF loaded = 0 THEN 1 ELSE metas[loaded].file + 1
    ELSE latestFile + IF full THEN 1 ELSE 0

(* _save_episode_data: rows go to the open file; a new ParquetWriter empties *)
(* the file.                                                                 *)
DataFiles(full) ==
    LET file == DataFile(full)
        goesOn == opened /\ file = latestFile
    IN  Put(data, file, (IF goesOn THEN data[file] ELSE <<>>) \o EpisodeRows)

SaveRows ==
    /\ stage = "rows" /\ ~ragged
    /\ \E full \in BOOLEAN :
        /\ data' = DataFiles(full)
        /\ latestFile' = DataFile(full)
    /\ opened' = TRUE
    /\ stage' = "video"
    /\ UNCHANGED <<streaming, info, metas, videos, loaded, latestMeta, bufferVars>>
    /\ UNCHANGED <<frames, faults, historyVars>>

(* Mutant: the statistics are computed after the rows are written. *)
StatisticsFail ==
    /\ stage = "rows"
    /\ IF ragged THEN UNCHANGED faults ELSE CallFails
    /\ \E full \in BOOLEAN :
        /\ data' = DataFiles(full)
        /\ latestFile' = DataFile(full)
    /\ opened' = TRUE
    /\ stage' = "idle"
    /\ UNCHANGED <<streaming, info, metas, videos, loaded, latestMeta, bufferVars>>
    /\ UNCHANGED <<frames, historyVars>>

(* The columns cannot be stacked, or a statistic, an image or the file       *)
(* raises: nothing was written.                                              *)
StackFails ==
    /\ stage = "rows"
    /\ IF ragged THEN UNCHANGED faults ELSE CallFails
    /\ stage' = "idle"
    /\ UNCHANGED <<streaming, diskVars, fileVars, bufferVars, frames, historyVars>>

(* Where the next video goes: behind the last one, or to a file of its own.  *)
VideoFile(full) ==
    IF latestMeta THEN Last(metas).video + IF full THEN 1 ELSE 0
    ELSE IF loaded = 0 THEN 1 ELSE metas[loaded].video + 1

(* Where it starts there. *)
VideoStart(full) == IF latestMeta /\ ~full THEN Last(metas).videoTo ELSE 0

(* _save_episode_video: concatenated with the file, or moved over it.        *)
VideoFiles(full) ==
    LET file == VideoFile(full)
    IN  Put(videos, file,
            IF latestMeta /\ ~full THEN videos[file] \o images ELSE images)

(* There is a video to save, at once or when finish_episode returns. *)
VideoReady == streaming => Flushed

EncoderOff == encoder' = "off" /\ frameQueue' = <<>>

(* Mutant: finish_episode waits for a thread that has died. *)
VideoFailsLater ==
    /\ stage = "video" /\ VideoReady /\ CallFails
    /\ \/ UNCHANGED <<videos, images>>
       \/ /\ \E full \in BOOLEAN : videos' = VideoFiles(full)
          /\ images' = <<>>
    /\ EncoderOff
    /\ stage' = "idle"
    /\ spoiled' = TRUE
    /\ UNCHANGED <<streaming, info, metas, data, fileVars, buffer, ragged, taken>>
    /\ UNCHANGED <<frames, sessions, intact>>

(* finish_episode raises, if the thread died and its queue has a place for   *)
(* the sentinel; or an encoder or the concatenation does, for the first      *)
(* camera or for a later one.  The rows stay, and perhaps a video.           *)
VideoFails ==
    /\ stage = "video"
    /\ \/ /\ encoder = "dead" /\ Len(frameQueue) < QueueSize
          /\ UNCHANGED <<videos, images, encoder, frameQueue, faults>>
       \/ /\ VideoReady /\ CallFails
          /\ \/ UNCHANGED <<videos, images>>
             \/ /\ \E full \in BOOLEAN : videos' = VideoFiles(full)
                /\ images' = <<>>
          /\ EncoderOff
    /\ stage' = "idle"
    /\ spoiled' = TRUE
    /\ UNCHANGED <<streaming, info, metas, data, fileVars, buffer, ragged, taken>>
    /\ UNCHANGED <<frames, sessions, intact>>

(* The row of the metadata: its range of frames follows the last one's.      *)
EpisodeMeta(full) ==
    LET from == IF metas = <<>> THEN 0 ELSE Last(metas).to
    IN  [file |-> latestFile,
         from |-> from, to |-> from + Len(buffer),
         video |-> VideoFile(full),
         videoFrom |-> VideoStart(full),
         videoTo |-> VideoStart(full) + Len(images)]

(* Mutant: total_episodes is not increased. *)
CountFrames == [info EXCEPT !.frames = @ + Len(buffer)]

(* update of meta.info, which is written to disk. *)
CountEpisode ==
    [episodes |-> info.episodes + 1, frames |-> info.frames + Len(buffer)]

(* Mutant: the buffer keeps the frames that were saved. *)
FinishKeeping ==
    /\ stage = "video" /\ VideoReady
    /\ \E full \in BOOLEAN :
        /\ videos' = VideoFiles(full)
        /\ metas' = Append(metas, EpisodeMeta(full))
    /\ info' = CountEpisode
    /\ latestMeta' = TRUE
    /\ taken' = FALSE /\ images' = <<>>
    /\ EncoderOff
    /\ stage' = "idle"
    /\ intact' = IF spoiled THEN intact ELSE intact + 1
    /\ UNCHANGED <<streaming, data, loaded, latestFile, opened, buffer, ragged>>
    /\ UNCHANGED <<frames, faults, sessions, spoiled>>

(* The video, meta.save_episode, and an empty buffer for the next episode.   *)
FinishSave ==
    /\ stage = "video" /\ VideoReady
    /\ \E full \in BOOLEAN :
        /\ videos' = VideoFiles(full)
        /\ metas' = Append(metas, EpisodeMeta(full))
    /\ info' = CountEpisode
    /\ latestMeta' = TRUE
    /\ buffer' = <<>> /\ ragged' = FALSE /\ taken' = FALSE /\ images' = <<>>
    /\ EncoderOff
    /\ stage' = "idle"
    /\ intact' = IF spoiled THEN intact ELSE intact + 1
    /\ UNCHANGED <<streaming, data, loaded, latestFile, opened>>
    /\ UNCHANGED <<frames, faults, sessions, spoiled>>
-----------------------------------------------------------------------------
(* The rest of the interface.                                              *)

(* clear_episode_buffer: the streaming encoder is cancelled, whatever state  *)
(* its thread is in; images that wait to be encoded are not deleted.         *)
ClearBuffer ==
    /\ stage = "idle" /\ (buffer # <<>> \/ ragged)
    /\ buffer' = <<>> /\ ragged' = FALSE /\ taken' = FALSE
    /\ images' = IF streaming THEN <<>> ELSE images
    /\ EncoderOff
    /\ UNCHANGED <<streaming, diskVars, fileVars, stage, frames, faults, historyVars>>

(* finalize; VideoEncodingManager also deletes images after an exception.    *)
Finalize ==
    /\ stage = "idle"
    /\ stage' = "closed"
    /\ opened' = FALSE
    /\ images' \in IF streaming THEN {<<>>} ELSE {<<>>, images}
    /\ EncoderOff
    /\ UNCHANGED <<streaming, diskVars, loaded, latestFile, latestMeta>>
    /\ UNCHANGED <<buffer, ragged, taken, frames, faults, historyVars>>

(* LeRobotDataset.resume of a closed dataset; one without an episode cannot  *)
(* be loaded.                                                                *)
Resume ==
    /\ stage = "closed" /\ info.episodes > 0 /\ sessions < MaxSessions
    /\ sessions' = sessions + 1
    /\ loaded' = Len(metas) /\ latestFile' = 0 /\ latestMeta' = FALSE
    /\ buffer' = <<>> /\ ragged' = FALSE /\ taken' = FALSE
    /\ stage' = "idle"
    /\ UNCHANGED <<streaming, diskVars, opened, images, encoder, frameQueue, frames>>
    /\ UNCHANGED <<faults, spoiled, intact>>

SaveEpisode == BeginSave \/ StackFails \/ SaveRows \/ VideoFails \/ FinishSave

Encoder == EncodeFrame \/ FrameEncoded \/ EncoderFails

(* finish_episode puts its sentinel in a full queue that nobody empties.     *)
Blocked == stage = "video" /\ encoder = "dead" /\ Len(frameQueue) = QueueSize

(* The dataset is closed, or the writer waits for a thread that has died. *)
Terminated ==
    /\ stage = "closed" \/ (stage = "video" /\ encoder = "dead")
    /\ UNCHANGED vars

Next ==
    \/ AddFrame \/ AddFrameFails \/ SaveEpisode \/ ClearBuffer
    \/ Encoder \/ Finalize \/ Resume \/ Terminated

Spec == Init /\ [][Next]_vars

(* A save that was begun runs on, and so does the encoder's thread.  Nothing *)
(* says when a frame comes or who saves.                                     *)
FairSpec ==
    /\ Spec
    /\ WF_vars(StackFails \/ SaveRows) /\ WF_vars(VideoFails \/ FinishSave)
    /\ WF_vars(EncodeFrame \/ FrameEncoded)
-----------------------------------------------------------------------------
(* Reading the dataset (dataset_reader.py): the data files one after the     *)
(* other, indexed by the metadata's range of frames.                         *)

Table == FlattenSeq(data)

Readable(e) ==
    /\ metas[e].to <= Len(Table)
    /\ \A i \in metas[e].from .. metas[e].to - 1 :
        /\ Table[i + 1].episode = e - 1
        /\ Table[i + 1].index = i

(* The frame of the video that is shown with a row.                          *)
VideoFrame(e, i) == videos[metas[e].video][metas[e].videoFrom + i - metas[e].from + 1]
-----------------------------------------------------------------------------
(* Every variable keeps the type the code gives it, and the counts of        *)
(* info.json are those of the episodes' metadata.                            *)
TypeOK ==
    /\ streaming \in BOOLEAN /\ latestMeta \in BOOLEAN /\ opened \in BOOLEAN
    /\ info \in [episodes : 0..MaxFrames, frames : 0..MaxFrames]
    /\ metas \in Seq([file : Nat, from : Nat, to : Nat,
                      video : Nat, videoFrom : Nat, videoTo : Nat])
    /\ data \in Seq(Seq([episode : Nat, index : Nat, frame : Nat]))
    /\ videos \in Seq(Seq(Nat)) /\ images \in Seq(Nat)
    /\ loaded \in 0..MaxFrames /\ latestFile \in Nat
    /\ buffer \in Seq(Nat) /\ ragged \in BOOLEAN /\ taken \in BOOLEAN
    /\ encoder \in {"off", "wait", "encode", "dead"}
    /\ frameQueue \in Seq(Nat) /\ Len(frameQueue) <= QueueSize
    /\ stage \in {"idle", "rows", "video", "closed"}
    /\ frames \in 0..MaxFrames /\ faults \in 0..MaxFaults
    /\ sessions \in 1..MaxSessions
    /\ spoiled \in BOOLEAN /\ intact \in 0..info.episodes

(* The metadata divides the frames of the dataset among its episodes, across *)
(* resumptions, failed saves and discarded attempts: ranges follow each      *)
(* other without a gap and without an empty one, up to total_frames.         *)
Contiguous ==
    /\ Len(metas) = info.episodes
    /\ info.frames = IF metas = <<>> THEN 0 ELSE metas[Len(metas)].to
    /\ \A e \in 1..Len(metas) :
        /\ metas[e].from = IF e = 1 THEN 0 ELSE metas[e - 1].to
        /\ metas[e].from < metas[e].to

(* No row of a saved episode is ever lost: the data file that its metadata   *)
(* names holds them all, although every resumed session, and every file that *)
(* is full, begins with a writer that empties its file.                      *)
RowsKept ==
    \A e \in 1..Len(metas) :
        /\ metas[e].file \in DOMAIN data
        /\ \A i \in metas[e].from .. metas[e].to - 1 :
            \E r \in 1..Len(data[metas[e].file]) :
                /\ data[metas[e].file][r].episode = e - 1
                /\ data[metas[e].file][r].index = i

(* The encoder dropped frames of an episode: its video is shorter.           *)
Dropped(e) == metas[e].videoTo - metas[e].videoFrom < metas[e].to - metas[e].from

(* The episodes saved before the first save that failed after its rows were  *)
(* written are read as they were recorded: the reader takes the row at       *)
(* position i of all files for the frame with index i, and shows the frame   *)
(* of the video that was recorded with it, whatever images a discarded       *)
(* attempt left, whether the video was concatenated or begins a file, and    *)
(* whatever frames the encoder dropped in other episodes.                    *)
EpisodesReadable ==
    \A e \in 1..intact :
        /\ Readable(e)
        /\ ~Dropped(e) => \A i \in metas[e].from .. metas[e].to - 1 :
            /\ metas[e].videoFrom + i - metas[e].from < Len(videos[metas[e].video])
            /\ VideoFrame(e, i) = Table[i + 1].frame

(* What is read of those episodes is what was recorded, an episode from the  *)
(* moment its save ends, and no later session, failure or discarded attempt  *)
(* changes it (EpisodeLog).                                                  *)
Log == INSTANCE EpisodeLog WITH
           Frame <- 1..MaxFrames,
           log <- [e \in 1..intact |->
                      [i \in 1..(metas[e].to - metas[e].from) |->
                          Table[metas[e].from + i].frame]],
           pending <- buffer
LogSpec == Log!Spec

(* save_episode returns or raises, although it waits for a thread that may   *)
(* die before or after it began to wait, unless the queue was full when it   *)
(* died: then it never returns.                                              *)
SaveEnds == stage \in {"rows", "video"} ~> stage = "idle" \/ Blocked

(* "If an issue occurs or you want to record additional episodes in the same *)
(* dataset, you can resume" (il_robots.mdx:375): the rows of every episode   *)
(* of a closed dataset are where the reader looks for them.                  *)
RowsFound == stage = "closed" => \A e \in 1..Len(metas) : Readable(e)
=============================================================================
