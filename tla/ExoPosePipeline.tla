--------------------------- MODULE ExoPosePipeline ---------------------------
(***************************************************************************)
(* net::exo_pose_pipeline with the pose_frame_observer of its open source.  *)
(*   loop     the one thread that gives commands and polls;                *)
(*   worker   the open source's polling thread, which detects the tags of  *)
(*            a frame and latches them for the loop to pull.               *)
(* Sources are numbered in the order in which they were opened, their      *)
(* frames in the order of their delivery, so a frame is <<source, number>> *)
(* and stands for its detections and its device timestamp.                 *)
(* A definition marked FAULTY is a defect that one of the properties at the *)
(* end catches; the specification does not use it.                         *)
(***************************************************************************)
EXTENDS Naturals

CONSTANTS
    MaxOpens,          \* bound: sources opened with success
    MaxFrames          \* bound: frames per source

ASSUME PipelineAssumption == MaxOpens \in Nat /\ MaxFrames \in Nat

VARIABLES
    opens,             \* sources opened so far
    source,            \* _provider and _observer: the open source, 0 if none
    isRecording,       \* _is_recording
    paused,            \* the provider's _paused
    worker,            \* where the worker is
    frameId,           \* the provider's _frame_id
    latched,           \* the observer's _seq, and the frame it belongs to
    streamEnded,       \* the observer's _stream_ended: the source that raised it
    lastSeq,           \* _last_seq
    pose,              \* the frame the estimator was last updated with
    tracked,           \* some joint of it has a fresh local rotation
    rest,              \* the source whose rest pose is captured, 0 if none
    recorder,          \* _recorder: the source it records, 0 if none
    statusChanged,     \* _status_changed
    loop,              \* where the loop thread is inside poll()
    newPose,           \* poll()'s r.new_pose
    reported           \* history: the status at the latest status broadcast

streamVars  == <<paused, worker, frameId>>
latchVars   == <<latched, streamEnded>>
sourceVars  == <<opens, source, isRecording>>
pollVars    == <<loop, newPose, reported>>
poseVars    == <<pose, tracked>>
vars == <<opens, source, isRecording, paused, worker, frameId, latched,
          streamEnded, lastSeq, pose, tracked, rest, recorder, statusChanged,
          loop, newPose, reported>>

NoFrame == <<0, 0>>

\* What a ServerStatus says of the pipeline.
Status == <<source, rest # 0>>

\* The PoseFrame that is sent for pose; a frame's number stands for its timestamp.
PoseFrame == [frame_id |-> frameId, timestamp |-> pose[2]]

Init ==
    /\ opens = 0 /\ source = 0 /\ isRecording = FALSE
    /\ paused = FALSE /\ worker = "none" /\ frameId = 0
    /\ latched = 0 /\ streamEnded = 0
    /\ lastSeq = 0 /\ pose = NoFrame /\ tracked = FALSE /\ rest = 0
    /\ recorder = 0 /\ statusChanged = FALSE
    /\ loop = "ready" /\ newPose = FALSE
    /\ reported = <<0, FALSE>>

-----------------------------------------------------------------------------
(* Commands.  The loop gives them between two polls.  Opening and closing   *)
(* take several steps in the code; the old and the new worker that run      *)
(* meanwhile each touch only their own observer, so the steps commute.      *)

\* A provider of its own, running, with a new observer.
InstallSource(s, recording) ==
    /\ source' = s /\ isRecording' = recording
    /\ paused' = FALSE /\ worker' = "top" /\ frameId' = 0
    /\ latched' = 0 /\ streamEnded' = 0

OpenSourceKeepingSeq ==                                         \* FAULTY
    /\ loop = "ready" /\ opens < MaxOpens
    /\ statusChanged' = TRUE
    /\ opens' = opens + 1
    /\ \E recording \in BOOLEAN : InstallSource(opens + 1, recording)
    /\ rest' = 0 /\ recorder' = 0
    /\ UNCHANGED <<lastSeq, poseVars, pollVars>>

OpenSourceWhileRecording ==                                     \* FAULTY
    /\ loop = "ready" /\ opens < MaxOpens
    /\ statusChanged' = TRUE
    /\ opens' = opens + 1
    /\ \E recording \in BOOLEAN : InstallSource(opens + 1, recording)
    /\ lastSeq' = 0 /\ rest' = 0
    /\ UNCHANGED <<recorder, poseVars, pollVars>>

OpenSource ==
    /\ loop = "ready" /\ opens < MaxOpens
    /\ statusChanged' = TRUE
    /\ opens' = opens + 1
    /\ \E recording \in BOOLEAN : InstallSource(opens + 1, recording)
    /\ lastSeq' = 0
    /\ rest' = 0
    /\ recorder' = 0
    /\ UNCHANGED <<poseVars, pollVars>>

\* A failed open leaves the old source, but has stopped its recording.
OpenFails ==
    /\ loop = "ready"
    /\ statusChanged' = TRUE
    /\ recorder' = 0
    /\ UNCHANGED <<sourceVars, streamVars, latchVars, lastSeq, poseVars, rest,
                   pollVars>>

\* The worker is joined; the rest pose stays.
CloseSource ==
    /\ loop = "ready" /\ source # 0
    /\ statusChanged' = TRUE
    /\ recorder' = 0
    /\ source' = 0 /\ isRecording' = FALSE
    /\ paused' = FALSE /\ worker' = "none" /\ frameId' = 0
    /\ latched' = 0 /\ streamEnded' = 0
    /\ lastSeq' = 0
    /\ UNCHANGED <<opens, poseVars, rest, pollVars>>

\* Refused for a playback source, without a source, and while recording; the
\* recorder may fail to start.
StartRecording ==
    /\ loop = "ready"
    /\ statusChanged' = TRUE
    /\ recorder' \in IF isRecording \/ source = 0 \/ recorder # 0
                     THEN {recorder} ELSE {0, source}
    /\ UNCHANGED <<sourceVars, streamVars, latchVars, lastSeq, poseVars, rest,
                   pollVars>>

StopRecording ==
    /\ loop = "ready" /\ recorder # 0
    /\ statusChanged' = TRUE
    /\ recorder' = 0
    /\ UNCHANGED <<sourceVars, streamVars, latchVars, lastSeq, poseVars, rest,
                   pollVars>>

CalibrateQuietly ==                                             \* FAULTY
    /\ loop = "ready"
    /\ statusChanged' = (statusChanged \/ tracked)
    /\ rest' = IF tracked THEN pose[1] ELSE 0
    /\ UNCHANGED <<sourceVars, streamVars, latchVars, lastSeq, poseVars, recorder,
                   pollVars>>

\* Without a fresh joint the calibration fails, and drops the one before it.
CalibrateRestPose ==
    /\ loop = "ready"
    /\ statusChanged' = TRUE
    /\ rest' = IF tracked THEN pose[1] ELSE 0
    /\ UNCHANGED <<sourceVars, streamVars, latchVars, lastSeq, poseVars, recorder,
                   pollVars>>

ClearRestPose ==
    /\ loop = "ready"
    /\ statusChanged' = TRUE
    /\ rest' = 0
    /\ UNCHANGED <<sourceVars, streamVars, latchVars, lastSeq, poseVars, recorder,
                   pollVars>>

SetSourcePaused ==
    /\ loop = "ready" /\ source # 0
    /\ paused' = ~paused
    /\ UNCHANGED <<sourceVars, worker, frameId, latchVars, lastSeq, poseVars, rest,
                   recorder, statusChanged, pollVars>>

-----------------------------------------------------------------------------
(* poll().  The two halves read the observer one after the other.           *)

NothingLatched == source = 0 \/ latched = 0                       \* FAULTY

NothingNew == source = 0 \/ latched = lastSeq

PollConsecutive ==                                              \* FAULTY
    /\ loop = "ready" /\ loop' = "polled"
    /\ IF source = 0 \/ latched # lastSeq + 1
       THEN newPose' = FALSE /\ UNCHANGED <<lastSeq, poseVars>>
       ELSE /\ newPose' = TRUE /\ lastSeq' = latched
            /\ pose' = <<source, latched>>
            /\ tracked' \in BOOLEAN
    /\ UNCHANGED <<sourceVars, streamVars, latchVars, rest, recorder,
                   statusChanged, reported>>

\* try_get() and the estimator's update().
PollFrame ==
    /\ loop = "ready" /\ loop' = "polled"
    /\ \/ /\ NothingNew
          /\ newPose' = FALSE
          /\ UNCHANGED <<lastSeq, poseVars>>
       \/ /\ ~NothingNew
          /\ newPose' = TRUE
          /\ lastSeq' = latched
          /\ pose' = <<source, latched>>
          /\ tracked' \in BOOLEAN
    /\ UNCHANGED <<sourceVars, streamVars, latchVars, rest, recorder,
                   statusChanged, reported>>

\* The two one-shot signals; then the server broadcasts what they and newPose
\* call for, a PoseFrame first.
PollSignals ==
    /\ loop = "polled" /\ loop' = "ready"
    /\ newPose' = FALSE
    /\ streamEnded' = 0
    /\ statusChanged' = FALSE
    /\ reported' = IF statusChanged THEN Status ELSE reported
    /\ UNCHANGED <<sourceVars, streamVars, latched, lastSeq, poseVars, rest,
                   recorder>>

-----------------------------------------------------------------------------
(* Worker: _polling_thread_proc() as far as the observer can tell.          *)

WorkerLocal == UNCHANGED <<sourceVars, lastSeq, poseVars, rest, recorder,
                           statusChanged, pollVars>>

Fetch ==
    /\ worker = "top" /\ ~paused
    /\ worker' = "fetching"
    /\ UNCHANGED <<paused, frameId, latchVars>> /\ WorkerLocal

FetchNothingCounted ==                                          \* FAULTY
    /\ worker = "fetching" /\ ~isRecording
    /\ worker' = "top"
    /\ frameId' = frameId + 1
    /\ UNCHANGED <<paused, latchVars>> /\ WorkerLocal

FetchNothing ==
    /\ worker = "fetching" /\ ~isRecording
    /\ worker' = "top"
    /\ UNCHANGED <<paused, frameId, latchVars>> /\ WorkerLocal

FrameArrives ==
    /\ worker = "fetching" /\ frameId < MaxFrames
    /\ worker' = "detecting"
    /\ frameId' = frameId + 1
    /\ UNCHANGED <<paused, latchVars>> /\ WorkerLocal

\* on_sensor_frame_update(): the latch, when the tags have been detected.
Latch ==
    /\ worker = "detecting"
    /\ worker' = "top"
    /\ latched' = frameId
    /\ UNCHANGED <<paused, frameId, streamEnded>> /\ WorkerLocal

StreamEnds ==
    /\ worker = "fetching" /\ isRecording
    /\ worker' = "top"
    /\ streamEnded' = source
    /\ paused' = TRUE
    /\ UNCHANGED <<frameId, latched>> /\ WorkerLocal

-----------------------------------------------------------------------------
Command == \/ OpenSource \/ OpenFails \/ CloseSource
           \/ StartRecording \/ StopRecording
           \/ CalibrateRestPose \/ ClearRestPose \/ SetSourcePaused
Poll    == PollFrame \/ PollSignals
Worker  == Fetch \/ FetchNothing \/ FrameArrives \/ Latch \/ StreamEnds

Next == Command \/ Poll \/ Worker

Spec == Init /\ [][Next]_vars

(* The loop polls forever, by the listener's timer or the caller's; a frame *)
(* that is being detected is latched.                                       *)
Fairness == WF_vars(PollFrame) /\ WF_vars(PollSignals) /\ WF_vars(Latch)

FairSpec == Spec /\ Fairness

-----------------------------------------------------------------------------
(* Properties *)

Sources == 0..MaxOpens
Frames  == Sources \X (0..MaxFrames)
Flags   == {isRecording, paused, tracked, statusChanged, newPose}

\* Every variable holds a value of its type.
TypeOK ==
    /\ Flags \subseteq BOOLEAN
    /\ opens \in Sources /\ source \in Sources /\ rest \in Sources
    /\ recorder \in Sources /\ streamEnded \in Sources
    /\ worker \in {"none", "top", "fetching", "detecting"}
    /\ loop \in {"ready", "polled"}
    /\ frameId \in 0..MaxFrames /\ latched \in 0..MaxFrames
    /\ lastSeq \in 0..MaxFrames
    /\ pose \in Frames
    /\ reported \in Sources \X BOOLEAN

\* A recorder only ever writes the source that is open, and never a playback.
RecordsOpenDevice == recorder # 0 => recorder = source /\ ~isRecording

\* When the loop has seen what is latched, the estimator's joints are those of
\* that frame: no frame of a new source is taken for one of the old source.
SeenIsPosed == source # 0 /\ lastSeq = latched /\ latched # 0
                  => pose = <<source, latched>>

\* Poses follow the order of the frames; none is computed twice, or from a
\* source that has been replaced.
PosesAdvance ==
    [][loop' # loop /\ loop' = "polled" /\ newPose'
          => /\ pose'[1] = source
             /\ pose'[1] > pose[1] \/ pose'[2] > pose[2]]_vars

\* The end that is reported is that of the source that is open.
EndIsOfOpenSource == streamEnded # 0 => streamEnded = source

\* A status that differs from the last one that was broadcast is about to be
\* broadcast, whichever command changed it, and even if the command failed.
StatusIsFlagged == Status # reported => statusChanged

\* A latched frame is posed, or a later one is, or its source is gone.
LatchedIsPosed == latched # lastSeq ~> latched = lastSeq

\* exo_pose_proto.fbs:59: a PoseFrame is "One estimation step", its frame_id
\* beside the "source (device) timestamp of the frame" (62).
FrameIdOfPose ==
    [][loop' # loop /\ loop' = "ready" /\ newPose
          => PoseFrame.frame_id = PoseFrame.timestamp]_vars

\* exo_pose_pipeline.cc:187: "a new source invalidates the captured rest
\* reference".
RestOfOpenSource == source # 0 /\ rest # 0 => rest = source
=============================================================================
