----------------------- MODULE ExoPosePipeline_proofs -----------------------
(***************************************************************************)
(* Theorems about ExoPosePipeline, for any number of sources and frames:   *)
(* its variables are well typed, only the open device is recorded, the     *)
(* estimator follows what the loop has seen, in the order of the frames,   *)
(* and every change of the status is on its way to the clients.            *)
(***************************************************************************)
EXTENDS ExoPosePipeline, TLAPS

\* Every variable keeps its type.
THEOREM Typing == Spec => []TypeOK
<1> USE PipelineAssumption DEF PipelineAssumption, Sources, Frames, NoFrame
<1>1. Init => TypeOK
  <2> SUFFICES ASSUME Init PROVE TypeOK
    OBVIOUS
  <2>1. Flags \subseteq BOOLEAN
    BY Zenon DEF Init, Flags
  <2>2. NoFrame \in Frames
    OBVIOUS
  <2>4. reported \in Sources \X BOOLEAN
    <3>1. 0 \in Sources
      OBVIOUS
    <3>2. <<0, FALSE>> \in Sources \X BOOLEAN
      BY <3>1
    <3> QED BY <3>2, Zenon DEF Init
  <2>5. pose \in Frames
    BY <2>2 DEF Init
  <2> QED BY <2>1, <2>4, <2>5 DEF Init, TypeOK
<1>2. TypeOK /\ [Next]_vars => TypeOK'
  <2> SUFFICES ASSUME TypeOK, [Next]_vars PROVE TypeOK'
    OBVIOUS
  <2>f. (Flags \subseteq BOOLEAN)'
    <3> USE DEF TypeOK, Flags, sourceVars, streamVars, latchVars, pollVars,
                poseVars, vars, WorkerLocal
    <3>1. CASE OpenSource
      BY <3>1, Zenon DEF OpenSource, InstallSource
    <3>2. CASE OpenFails \/ CloseSource
      BY <3>2, Zenon DEF OpenFails, CloseSource
    <3>3. CASE StartRecording \/ StopRecording
      BY <3>3, Zenon DEF StartRecording, StopRecording
    <3>4. CASE CalibrateRestPose \/ ClearRestPose
      BY <3>4, Zenon DEF CalibrateRestPose, ClearRestPose
    <3>5. CASE SetSourcePaused
      BY <3>5, Zenon DEF SetSourcePaused
    <3>6. CASE PollFrame
      BY <3>6, Zenon DEF PollFrame
    <3>7. CASE PollSignals
      BY <3>7, Zenon DEF PollSignals
    <3>8. CASE Worker
      BY <3>8, Zenon DEF Worker, Fetch, FetchNothing, FrameArrives, Latch,
                         StreamEnds
    <3>9. CASE UNCHANGED vars
      BY <3>9, Zenon
    <3> QED
      BY <3>1, <3>2, <3>3, <3>4, <3>5, <3>6, <3>7, <3>8, <3>9, Zenon
         DEF Next, Command, Poll
  <2> USE <2>f DEF TypeOK, sourceVars, streamVars, latchVars, pollVars,
                   poseVars, WorkerLocal
  <2>1. CASE OpenSource
    BY <2>1 DEF OpenSource, InstallSource
  <2>2. CASE OpenFails \/ CloseSource
    BY <2>2 DEF OpenFails, CloseSource
  <2>3. CASE StartRecording \/ StopRecording
    BY <2>3 DEF StartRecording, StopRecording
  <2>4. CASE CalibrateRestPose \/ ClearRestPose \/ SetSourcePaused
    BY <2>4 DEF CalibrateRestPose, ClearRestPose, SetSourcePaused
  <2>5. CASE PollFrame
    BY <2>5 DEF PollFrame
  <2>6. CASE PollSignals
    <3>1. statusChanged \in BOOLEAN
      BY Zenon DEF Flags
    <3>4. (rest # 0) \in BOOLEAN
      OBVIOUS
    <3>5. reported' \in Sources \X BOOLEAN
      BY <2>6, <3>1, <3>4 DEF PollSignals, Status
    <3>6. /\ loop' = "ready" /\ streamEnded' = 0
          /\ UNCHANGED <<sourceVars, streamVars, latched, lastSeq, pose, rest,
                         recorder>>
      BY <2>6 DEF PollSignals
    <3> QED BY <3>5, <3>6
  <2>7. CASE Worker
    BY <2>7 DEF Worker, Fetch, FetchNothing, FrameArrives, Latch, StreamEnds
  <2>8. CASE UNCHANGED vars
    BY <2>8 DEF vars
  <2> QED
    BY <2>1, <2>2, <2>3, <2>4, <2>5, <2>6, <2>7, <2>8 DEF Next, Command, Poll
<1> QED BY <1>1, <1>2, PTL DEF Spec

-----------------------------------------------------------------------------
(* What belongs to the open source.                                          *)

OwnedInv == RecordsOpenDevice /\ EndIsOfOpenSource

\* Every step leaves the recorder and the end signal to the open source.
LEMMA OwnedStep == OwnedInv /\ [Next]_vars => OwnedInv'
<1> SUFFICES ASSUME OwnedInv, [Next]_vars PROVE OwnedInv'
  OBVIOUS
<1> USE DEF OwnedInv, RecordsOpenDevice, EndIsOfOpenSource, sourceVars,
            streamVars, latchVars, pollVars, poseVars, WorkerLocal
<1>1. CASE OpenSource
  BY <1>1 DEF OpenSource, InstallSource
<1>2. CASE OpenFails \/ CloseSource
  BY <1>2 DEF OpenFails, CloseSource
<1>3. CASE StartRecording
  BY <1>3 DEF StartRecording
<1>4. CASE StopRecording
  BY <1>4 DEF StopRecording
<1>5. CASE CalibrateRestPose \/ ClearRestPose \/ SetSourcePaused
  BY <1>5 DEF CalibrateRestPose, ClearRestPose, SetSourcePaused
<1>6. CASE Poll
  BY <1>6 DEF Poll, PollFrame, PollSignals
<1>7. CASE Worker
  BY <1>7 DEF Worker, Fetch, FetchNothing, FrameArrives, Latch, StreamEnds
<1>8. CASE UNCHANGED vars
  BY <1>8 DEF vars
<1> QED
  BY <1>1, <1>2, <1>3, <1>4, <1>5, <1>6, <1>7, <1>8 DEF Next, Command

\* What is recorded is the open device.
THEOREM RecordingIsLive == Spec => []RecordsOpenDevice
<1>1. Init => OwnedInv
  BY DEF Init, OwnedInv, RecordsOpenDevice, EndIsOfOpenSource
<1>2. OwnedInv => RecordsOpenDevice
  BY DEF OwnedInv
<1> QED BY <1>1, <1>2, OwnedStep, PTL DEF Spec

\* The end that is reported is that of the open source.
THEOREM EndsAreCurrent == Spec => []EndIsOfOpenSource
<1>1. Init => OwnedInv
  BY DEF Init, OwnedInv, RecordsOpenDevice, EndIsOfOpenSource
<1>2. OwnedInv => EndIsOfOpenSource
  BY DEF OwnedInv
<1> QED BY <1>1, <1>2, OwnedStep, PTL DEF Spec

-----------------------------------------------------------------------------
(* Poses.                                                                    *)

\* The loop has seen what the estimator holds, the worker latched at least
\* that, and has counted at least what it latched.
SeqInv ==
  /\ source # 0 => source = opens
  /\ pose[1] <= opens
  /\ lastSeq <= latched /\ latched <= frameId
  /\ worker = "detecting" => latched < frameId
  /\ source = 0 => worker = "none"
  /\ source # 0 /\ pose[1] = source => pose[2] = lastSeq
  /\ source # 0 /\ lastSeq # 0 => pose = <<source, lastSeq>>

\* Every step keeps the loop behind the latch and the latch behind the counter.
LEMMA SeqStep == TypeOK /\ SeqInv /\ [Next]_vars => SeqInv'
<1> SUFFICES ASSUME TypeOK, SeqInv, [Next]_vars PROVE SeqInv'
  OBVIOUS
<1>t. /\ opens \in Nat /\ source \in Nat /\ lastSeq \in Nat /\ latched \in Nat
      /\ frameId \in Nat /\ pose \in Nat \X Nat
  BY PipelineAssumption DEF PipelineAssumption, TypeOK, Sources, Frames
<1> USE <1>t DEF SeqInv, sourceVars, streamVars, latchVars, pollVars, poseVars,
                 WorkerLocal
<1>1. CASE OpenSource
  BY <1>1 DEF OpenSource, InstallSource
<1>2. CASE OpenFails \/ StartRecording \/ StopRecording
  BY <1>2 DEF OpenFails, StartRecording, StopRecording
<1>3. CASE CloseSource
  BY <1>3 DEF CloseSource
<1>4. CASE CalibrateRestPose \/ ClearRestPose \/ SetSourcePaused
  BY <1>4 DEF CalibrateRestPose, ClearRestPose, SetSourcePaused
<1>5. CASE PollFrame
  BY <1>5 DEF PollFrame, NothingNew
<1>6. CASE PollSignals
  BY <1>6 DEF PollSignals
<1>7. CASE Fetch \/ FetchNothing \/ StreamEnds
  BY <1>7 DEF Fetch, FetchNothing, StreamEnds
<1>8. CASE FrameArrives
  BY <1>8 DEF FrameArrives
<1>9. CASE Latch
  BY <1>9 DEF Latch
<1>10. CASE UNCHANGED vars
  BY <1>10 DEF vars
<1> QED
  BY <1>1, <1>2, <1>3, <1>4, <1>5, <1>6, <1>7, <1>8, <1>9, <1>10
     DEF Next, Command, Poll, Worker

\* The loop, the latch and the frame counter stay in step.
THEOREM InStep == Spec => []SeqInv
<1>1. Init => SeqInv
  BY DEF Init, SeqInv, NoFrame
<1> QED BY <1>1, SeqStep, Typing, PTL DEF Spec

\* What the loop has seen is what the estimator holds.
THEOREM SeenPosed == Spec => []SeenIsPosed
<1>1. SeqInv => SeenIsPosed
  BY DEF SeqInv, SeenIsPosed
<1> QED BY <1>1, InStep, PTL

\* Poses follow the frames of the open source, each at most once.
THEOREM PosesInOrder == Spec => PosesAdvance
<1> DEFINE Advance == loop' # loop /\ loop' = "polled" /\ newPose'
                        => /\ pose'[1] = source
                           /\ pose'[1] > pose[1] \/ pose'[2] > pose[2]
<1>1. TypeOK /\ SeqInv /\ [Next]_vars => [Advance]_vars
  <2> SUFFICES ASSUME TypeOK, SeqInv, [Next]_vars PROVE Advance
    OBVIOUS
  <2>t. /\ opens \in Nat /\ source \in Nat /\ lastSeq \in Nat /\ latched \in Nat
        /\ pose \in Nat \X Nat
    BY PipelineAssumption DEF PipelineAssumption, TypeOK, Sources, Frames
  <2>1. CASE PollFrame
    BY <2>1, <2>t DEF PollFrame, NothingNew, SeqInv
  <2>2. CASE PollSignals
    BY <2>2 DEF PollSignals
  <2>3. CASE Command \/ Worker \/ UNCHANGED vars
    BY <2>3 DEF Command, OpenSource, OpenFails, CloseSource, StartRecording,
       StopRecording, CalibrateRestPose, ClearRestPose, SetSourcePaused, Worker,
       Fetch, FetchNothing, FrameArrives, Latch, StreamEnds, WorkerLocal,
       pollVars, vars
  <2> QED BY <2>1, <2>2, <2>3 DEF Next, Poll
<1>2. Spec => [][Advance]_vars
  BY <1>1, Typing, InStep, PTL DEF Spec
<1> QED BY <1>2 DEF PosesAdvance

-----------------------------------------------------------------------------
\* Every step that changes the status flags it, or has broadcast it.
LEMMA StatusStep == StatusIsFlagged /\ [Next]_vars => StatusIsFlagged'
<1> SUFFICES ASSUME StatusIsFlagged, [Next]_vars PROVE StatusIsFlagged'
  OBVIOUS
<1> USE DEF StatusIsFlagged, Status, sourceVars, streamVars, latchVars, pollVars,
            poseVars, WorkerLocal
<1>1. CASE OpenSource \/ OpenFails \/ CloseSource
  BY <1>1 DEF OpenSource, OpenFails, CloseSource
<1>2. CASE StartRecording \/ StopRecording
  BY <1>2 DEF StartRecording, StopRecording
<1>3. CASE CalibrateRestPose \/ ClearRestPose
  BY <1>3 DEF CalibrateRestPose, ClearRestPose
<1>4. CASE SetSourcePaused \/ PollFrame
  BY <1>4 DEF SetSourcePaused, PollFrame
<1>5. CASE PollSignals
  <2>1. CASE statusChanged
    BY <1>5, <2>1 DEF PollSignals
  <2>2. CASE ~statusChanged
    BY <1>5, <2>2 DEF PollSignals
  <2> QED BY <2>1, <2>2
<1>6. CASE Worker
  BY <1>6 DEF Worker, Fetch, FetchNothing, FrameArrives, Latch, StreamEnds
<1>7. CASE UNCHANGED vars
  BY <1>7 DEF vars
<1> QED
  BY <1>1, <1>2, <1>3, <1>4, <1>5, <1>6, <1>7 DEF Next, Command, Poll

\* A status that has not been broadcast is about to be.
THEOREM StatusGetsOut == Spec => []StatusIsFlagged
<1>1. Init => StatusIsFlagged
  BY DEF Init, StatusIsFlagged, Status
<1> QED BY <1>1, StatusStep, PTL DEF Spec

-----------------------------------------------------------------------------
(* What does hold where the runs find FrameIdOfPose and RestOfOpenSource     *)
(* violated.                                                                 *)

\* A pose is announced between the two halves of poll(), where no command comes.
AnnouncedInv == newPose => /\ loop = "polled" /\ source # 0
                           /\ pose = <<source, lastSeq>>

\* exo_pose_pipeline.cc:475: the id of a PoseFrame is never that of an earlier frame of
\* the source than the one that was posed, though it may be of a later one.
FrameIdIsNotEarlier ==
    [][loop' # loop /\ loop' = "ready" /\ newPose
          => PoseFrame.frame_id >= PoseFrame.timestamp]_vars

\* exo_pose_pipeline.cc:187: once a frame of the open source has been posed, a rest pose
\* that is captured is that source's.
RestIsCurrent ==
    [][rest' # rest /\ rest' # 0 /\ source # 0 /\ lastSeq # 0 => rest' = source]_vars

\* Every step keeps what is announced.
LEMMA AnnouncedStep == AnnouncedInv /\ [Next]_vars => AnnouncedInv'
<1> SUFFICES ASSUME AnnouncedInv, [Next]_vars PROVE AnnouncedInv'
  OBVIOUS
<1> USE DEF AnnouncedInv, sourceVars, streamVars, latchVars, pollVars, poseVars,
            WorkerLocal
<1>1. CASE Command
  <2>1. loop = "ready" /\ newPose' = newPose
    BY <1>1 DEF Command, OpenSource, OpenFails, CloseSource, StartRecording,
                StopRecording, CalibrateRestPose, ClearRestPose, SetSourcePaused
  <2> QED BY <2>1
<1>2. CASE PollFrame
  <2>1. CASE NothingNew /\ newPose' = FALSE
    BY <2>1
  <2>2. CASE ~NothingNew /\ lastSeq' = latched /\ pose' = <<source, latched>>
    BY <1>2, <2>2 DEF PollFrame, NothingNew
  <2> QED BY <1>2, <2>1, <2>2 DEF PollFrame
<1>3. CASE PollSignals
  BY <1>3 DEF PollSignals
<1>4. CASE Worker
  BY <1>4 DEF Worker, Fetch, FetchNothing, FrameArrives, Latch, StreamEnds
<1>5. CASE UNCHANGED vars
  BY <1>5 DEF vars
<1> QED
  BY <1>1, <1>2, <1>3, <1>4, <1>5 DEF Next, Poll

\* The provider's counter is at or past the frame that a PoseFrame is of.
THEOREM IdsAreNotEarlier == Spec => FrameIdIsNotEarlier
<1>1. Init => AnnouncedInv
  BY DEF Init, AnnouncedInv
<1>2. TypeOK /\ SeqInv /\ AnnouncedInv =>
        [loop' # loop /\ loop' = "ready" /\ newPose
            => PoseFrame.frame_id >= PoseFrame.timestamp]_vars
  <2> SUFFICES ASSUME TypeOK, SeqInv, AnnouncedInv, newPose
               PROVE  PoseFrame.frame_id >= PoseFrame.timestamp
    OBVIOUS
  <2>1. /\ PoseFrame.frame_id = frameId /\ PoseFrame.timestamp = lastSeq
        /\ lastSeq <= latched /\ latched <= frameId
    BY DEF AnnouncedInv, SeqInv, PoseFrame
  <2>2. lastSeq \in Nat /\ latched \in Nat /\ frameId \in Nat
    BY PipelineAssumption DEF TypeOK
  <2> QED BY <2>1, <2>2
<1> QED BY <1>1, <1>2, AnnouncedStep, InStep, Typing, PTL DEF Spec, FrameIdIsNotEarlier

\* A rest pose is captured from the frame that the estimator holds, which is of the open
\* source as soon as one of its frames was posed.
THEOREM RestsAreCurrent == Spec => RestIsCurrent
<1>1. SeqInv /\ [Next]_vars =>
        [rest' # rest /\ rest' # 0 /\ source # 0 /\ lastSeq # 0 => rest' = source]_vars
  <2> SUFFICES ASSUME SeqInv, Next, rest' # rest, rest' # 0, source # 0, lastSeq # 0
               PROVE  rest' = source
    OBVIOUS
  <2>1. pose[1] = source
    BY DEF SeqInv
  <2>2. rest' = pose[1]
    BY DEF Next, Command, Poll, Worker, OpenSource, OpenFails, CloseSource,
           StartRecording, StopRecording, CalibrateRestPose, ClearRestPose,
           SetSourcePaused, PollFrame, PollSignals, Fetch, FetchNothing,
           FrameArrives, Latch, StreamEnds, WorkerLocal
  <2> QED BY <2>1, <2>2
<1> QED BY <1>1, InStep, PTL DEF Spec, RestIsCurrent
=============================================================================
