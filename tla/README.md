# Verification of exo-skeleton-pose

TLA+ models of the pose server: a Kinect or a recording of one is polled for
frames, the AprilTags on an exoskeleton are detected in them, joint rotations are
estimated, and one WebSocket client is sent them, while a debugger GUI may drive
the same pipeline and a recorder may write the frames to a file. The models are
checked with TLC on small instances and their main properties are proved with
TLAPS for all instances.

## 1. The system

    k4a device ──┐                                  ┌─> frame_recorder ─queue─> worker ─> .mcap
                 ├─ sensor_frame_provider ─observers┤
    .mcap player ┘   (polling thread)               └─> pose_frame_observer (tag_detector, latch)
                                                                │ seq, detections, stream_ended
    client ⇄ exo_pose_server ─commands─> exo_pose_pipeline <────┘ poll()
    (web page)
    GUI (debugger_app) ──────────────────>    └─> exo_pose_estimator
             └─ own pull of the latch -> texture, plots

Threads: the *polling thread* of the provider, the *recorder's worker*, and the
*loop thread*, which runs the WebSocket handlers, the timer, `poll()` and, in
debugger mode, the GUI. All of them log to the sink of the debugger's console. The web
page and the converter from Kinect recordings are programs of their own.

| Component | State it keeps | Operations | What makes it correct |
|---|---|---|---|
| `hw/sensor_frame_provider` | flags running, paused, need-repace; observers; source | open, close, play, pause, seek, speed, auto-repeat, add/remove observer; polling loop | nothing delivered after the end, a pause or a removal beyond one frame; playback keeps time; close() returns |
| `hw/mcap_record_player`, `io/recording_reader` | open file, streams, a cursor for each | open, close, fetch, three seeks, auto-repeat | a seek lands on the first frame at or after; bad frames do not end playback; playback reaches the end |
| `hw/k4a_frame_source` | device handle; the camera's controls | open, controls, start, fetch, close | each open source has a camera of its own, with the controls it asked for |
| `io/recording_writer`, `recording_message`, `recording_reader` as a pair | a file's chunks and summary | open, write, close, decode | what was accepted is read back in order, after a crash too; foreign headers are checked |
| `io/frame_recorder`, `io/recording_writer` | queue, drop counter, stop token, file, statistics | start, stop, stats, frame callback, worker | every frame accounted for; ordered file; stop() drains, returns, and closes last |
| `net/exo_pose_pipeline` | provider, observer's latch, last sequence number, recorder, status flag | open, close, record, calibrate, pause, poll | what is posed belongs to the open source; ends and status changes get out |
| `net/exo_pose_server` | listener, sockets, client count | start, stop, handshake, commands, pump | one client; each client knows the status; no source is left open by a client that went |
| `pose/exo_pose_estimator` | track and filter of every joint, rest pose, latest outputs | update, calibrate, clear, options | local and animation rotation agree; hold is bounded; rest is neutral; no flip |
| `gui/debugger_app`, `gui/plot_buffer` | last sequence number, texture, ring buffers | frame of the window, operator's commands | plots are histories in time order |
| `gui/log_console` | bounded sink shared by all threads, cached rows, filters | log, clear, draw, filter | rows drawn are those the filters let through, counts are the buffer's |
| `webview` | socket, handshake, panel flags, status timer | connect, disconnect, commands, socket events | one command at a time; shows the server's state in the end |
| `tools/mkv_to_mcap` | position, counters, output | run | exit code 0 means a whole recording; any other leaves a prefix |
| `pose/tag_detector`, filters, renderer, scene, command line | data, or state of a library | | see "not modelled" |

What is hard here: the polling thread and the loop thread share a latch and two
one-shot flags across *replacements* of the source; stop() and close() meet
threads that sleep, block or are inside a callback; a recording ends, repeats, is
sought and paused while it is delivered; two drivers (client and operator)
interleave their commands; timestamps go backwards; the window pairs a frame with
joints that were computed at another moment; a process dies with a file open; a socket
drops what its client does not read, or breaks under a click. `PROJECT.json` lists each such
hazard with its line and the properties that would catch it.

## 2. The modules

| Module | Models | Composition |
|---|---|---|
| `FrameRecorder` | recorder, its queue and worker, the writer | refines `LossyRecording` |
| `LossyRecording` | abstract: an ordered, bounded, lossy log | |
| `SensorFrameProvider` | provider and polling thread, device, pacing | its player is `Playback`'s cursor |
| `Playback` | abstract: a cursor over numbered frames | |
| `RecordingPlayer` | player and reader over a file's messages | refines `Playback` |
| `ExoPosePipeline` | pipeline, latch, recorder's source, worker as the latch sees it | |
| `ExoPoseServer` | listener, sockets, client slot, handlers, operator | instances `ExoPosePipeline`, and refines it |
| `ExoPoseEstimator` | the estimator over an abstract group of rotations | |
| `RecordingFile` | what writer, container and reader make of frames, of a crash, and of foreign files | |
| `MkvToMcap` | the converter, `main()` from its checks to its exit code | extends `RecordingFile`, whose writer and reader it uses |
| `K4aDevice` | cameras, their controls, and two capturers while one replaces the other | |
| `DebuggerView` | the window's frame, its plots, the latch it pulls and the joints it finds | refines `PlotHistory`, once for each history |
| `PlotHistory` | abstract: a sliding history in time order | |
| `LogConsole` | the log sink and the console that draws it | |
| `WebClient` | the web page, its socket, and the server as it sees it | |
| `MCExoPoseEstimator` | for TLC: the rotations of a cube | |
| `MCRecordings` | for TLC: all short recordings; hosts player, file, converter and cameras | `RecordingPlayer`, `MkvToMcap`, `K4aDevice` |
| `MCFrontEnds` | for TLC: hosts window, log console and web page | `DebuggerView`, `LogConsole`, `WebClient` |
| `Ordering` | the members of a set of places, in order | `LogConsole`, `RecordingFile` |
| `*_proofs` | theorems and their proofs: one module for each component; `FrameSources_proofs` for `RecordingPlayer` and `K4aDevice`, `RecordingFile_proofs` for `RecordingFile` and `MkvToMcap`, `FrontEnds_proofs` for `DebuggerView`, `LogConsole` and `WebClient` | |

### How state and actions correspond to the code

Every definition that stands for code is in `PROJECT.json` under "map" with its
lines. The conventions are:

* a variable is named after the member it models, and says so where it is declared;
  the variables marked *history* exist only in the models, for the properties;
* an action is what a thread does between two points at which another thread can
  be observed. A member function under one lock, or on a thread that no other can
  interrupt, is one action; `stop()`, `stats()`, the callbacks and both worker
  loops are cut at each shared access;
* the two hosting modules explore each of their components while the others are as
  they were built. That is no composition, and loses nothing: the hosted components
  share no variable, and no property speaks of two of them;
* definitions marked FAULTY are defects that someone might introduce. They are not
  part of any specification; putting one in place of the definition after it makes
  the property listed with it in `PROJECT.json` fail.

**FrameRecorder.** `_is_started` is read outside of the lock and `notify_one()` is
called outside of it, so `FrameArrives`, `Push` and `Notify` are three steps of the
callback. The worker's predicate test and its falling asleep are one step because
the lock is held between them; a stop request and a notification move a sleeper to
the test, and it may wake for nothing. A callback that has passed the check may
push after stop() has returned: that frame is dropped by the next start(), which is
why `LossyRecording` accepts frames after the end of a log. (The comment at
`frame_recorder.cc:61`, "the queue can only shrink", overlooks it; nothing depends
on it.) `WriteFails` covers each exception of `write_frame()`: the frame is lost
and counted nowhere, whereas `recording_writer.hh:43` has statistics for frames
that were dropped.

**SensorFrameProvider.** The owner is one thread, which the code's own callers are.
Commands are atomic stores. The worker's `_paused` test, its fetch, the decision
after it, each observer's call, each step of the end of the stream and of the pacing
are separate. A frame is its number, one time unit after the one before. `DeviceFails`
is the exception of a failed wait that nothing catches: the process ends. A device
therefore never sends an end of stream, though `sensor_frame_source.hh:24` announces
nullptr on disconnect. A recording at its end stays paused through a seek, and a play()
between the end's notification and the store of `_paused` is undone; both are steps
of the model.

**RecordingPlayer.** A file is its messages in file order, each with a channel, a log
time in nanoseconds and whether it decodes. A cursor is the set of messages it has
not reached, which is what a fresh `LinearMessageView` in log-time order is. The
timeline is in microseconds. `SeekFails` and the second branch of `FetchAgain` are
the exceptions that leave a stream without a cursor. Since the container is played in log-time order,
a recording that was written from a seeked or repeated source is re-sorted when it is
played. `camera_id_from_image_topic()` (`recording_reader.cc:25-30`) compares prefix and
suffix of a topic without asking whether they overlap; the model's topics are either an
image's or not.

**RecordingFile.** The container is a library and external: messages gather in a chunk,
full chunks go to the file in order, close() adds the last one and the summary, and a reader without a summary
scans what is whole. What the file holds is one sequence of messages (`stored`) and how many of them are before its
last chunk (`lastChunk`), which is all that a process that is killed can tear; a reader takes the messages that
qualify by their places (`InOrder`). `WriteSucceeds` may or may not fill a chunk. `WriteRefused` is each exception of
`write_frame()`: refused at the calibration, which is then tried again, or after it. `Killed` loses the gathered chunk and may cut the
last one. Images are numbers, but headers are not abstracted: a raw image's are
checked as the code does, with its casts from unsigned to int, scaled down to
`IntLimit`; and each parameter of the calibration is told apart, so that the two orders
in which the coefficients are written and read have to agree. A full disk shows only when a chunk is
written, inside the library, and not at all in close().

**MkvToMcap.** One thread; what it is given is chosen when it is run: usable or not, three kinds of
capture, an end by end of file or by an error. It is left by return, by exception, or killed;
the destructor of the writer closes the file in the first two.

**K4aDevice.** A camera is open once at a time and keeps its controls while it is connected,
so what the last user set by hand would be found by the next; the code sets those that
are not asked for to automatic. `open_source()` opens the new capturer while the replaced one is still there, so
reopening the camera that is open fails and leaves the source as it was (only its recording
has been stopped, see `ExoPosePipeline`). `ReleaseCamera` waits for a fetch to end, which holds the mutex.
A control that the camera refuses is logged and ignored (`refused`).

**ExoPosePipeline.** Opening stops the old provider's thread before anything of the new
one can be observed by the loop, so it is one action; `poll()` is two, as the latch and
the end flag are taken one after the other and the worker may run between them. The end
of a stream may thus be published a poll before the last pose. A `PoseFrame` is made up
after both, from the estimator and from the provider's counter.

**ExoPoseServer.** Handlers run to their end on the loop thread. A client may send any
message at any time, so an incoming message is chosen when its handler runs; what goes to
a client is abstracted to the last status it was told, which is exact as long as messages
to one socket keep their order. Closing by the server and the close handler are two
steps, more than the library needs. Both the operator and the client command the pipeline.

**ExoPoseEstimator.** `update()` is one action, in its passes: joints in the order of
the table are resolved parents first, which the model expresses with `Present`.
Rotations are any group with a twist that can be removed (`RotationsAreAGroup`,
`TwistIsRemovable`), filters any function that yields a rotation. The switches and the hold and
reset times can be edited at any time. `Ranges` is no part of the code: it says among which rotations the body
moves each joint, so that the flip of a tag can be told from it (`RangesExcludeFlips`). The comment at
`exo_pose_estimator.cc:237-241` takes the reseed after a gap to be unchecked against the track; in fact a
near-tie is decided by the track however old it is (`Guided`), and the candidates
that nothing checks are those of joints that are not calibrated or whose parent is lost.
Two more consequences show in the model and in no property: a child that was seen is
calibrated against a parent that is only held, and calibrating again never recaptures the locked
pelvis. The estimator is not reset by a new source.

**DebuggerView.** A window's frame is: the server's poll (where a client's command may
replace the source, and whose pump feeds the estimator), the window's own pull from the
latch, then the panels, where the operator may replace it too. The worker
latches between any two of them. A sample is therefore the frame it was taken for *and* the frame whose
joints it got. All rings of one joint set are pushed together, so two
plots, Euler and quaternion, stand for them. The model follows the code in some oddities: an
observer that has latched nothing yields a sample at time zero when the number the
window saw last is another; a client's new source is missed while its frame's number is the
one last seen; and a dialog whose open fails empties the plots and has the frame that is
shown pulled again.

**LogConsole.** A record is logged in one step, under the sink's lock. Drawing takes the lock three
times, for the buttons, the chips' counts and the list, and records may come and go between them; so
they are three steps. A list that is scrolled out of view is not drawn, and its cached rows may grow old
by any number of records.

**WebClient.** The page is single threaded: a click, a tick of the status timer or an event of the
socket is one step each. Request ids are never used twice, also after a reconnection,
so requests and Acks are named for what was asked, and the comparison with
`_helloRequestId` is whether the Ack is the awaited Hello's. The server is modelled again, by what the page can tell of
it: the slot (free, ours, or another's, which includes a connection of ours whose loss it has not noticed), the
handshake, whether a source is open, and the changed flag. The library may drop anything it
sends after the handshake; the connection may break at any time. What the server answers to a message
that breaks the protocol is left out here, because `OneCommandAtATime` states that the
page never sends one; a Hello of another version ends as `ServerEnds` does. Three consequences that no property is about: when an
Ack is dropped the page's buttons stay disabled until it is disconnected; between the Ack of
an Open and the status that follows, Open is enabled although a source is open; and a page whose
connection broke is refused until the server has noticed.

## 3. Runs

| Run | Instance | Shows |
|---|---|---|
| `recorder` | queue of 2, 4 frames, 2 recordings | accounting, order, drain, no lost wakeup, stop() returns, refinement of `LossyRecording` |
| `recorder_duration` | 1 recording, 2 frames | violation: `stats()` returns a negative duration |
| `provider` | device or recording of 3 frames, one observer, all commands | no frame after an end, a pause, a removal; real-time playback; close() returns; playback ends |
| `provider_repeats` | a repeated recording of 3 frames | violation: only the first loop is paced |
| `recordings` | every recording of up to 3 messages (two cameras, another topic, four instants, two to a microsecond); 4 images written; conversions of 3 captures; 2 cameras | seeks, undecodable frames, refinement of `Playback`; what is written is read back, killed or not; foreign headers; conversions; a camera's controls |
| `front_ends` | rings of 2, three times, two sources of 3 frames; a sink of 2 with 4 changes; 3 messages under way each way | rings are histories, joints never lag behind; rows are the buffer's; one command at a time, status resynchronises |
| `pipeline` | 3 sources of 3 frames | joints, ends and status belong to the open source and get out |
| `pipeline_frame_id` | 1 source of 2 frames | violation: the id of a `PoseFrame` is that of a later frame |
| `pipeline_rest` | 2 sources of 1 frame | violation: the old source's joints are captured as the new one's rest pose |
| `server` | 2 sockets, 2 sources of 1 frame | status, release, refinement of `ExoPosePipeline` |
| `estimator` | pelvis and knee, cube rotations, three times | agreement, hold, neutrality, no flip |
| `estimator_lost` | the same | violation: a joint is held again after time went back |

Why the bounds are enough:

* *recorder*: a queue of two overflows with two frames waiting and one in
  flight; a fourth frame can be a straggler of the first recording and the
  second recording then meets what it left.
* *provider*: with three frames there is a first, a middle and a last one, an
  anchor that is not on the first, and a wrap. One observer is in every snapshot
  or not; the proofs cover any set. The clock stops at the recording's length, which
  is the furthest target. `played` saturates three above it.
* *recordings*: three messages hold a good frame between, before and after a bad one, an equal pair, and a message of
  each other kind before or after; four instants at two to a microsecond put two
  times into one microsecond. Targets lie before, in and behind a recording. Four images make a whole
  chunk, one that is cut short and one that is lost; headers lie at zero, below, at and above what fits an int. Three captures have a good
  one before and after one that ends the conversion. Two capturers are all that live at a time, and
  two cameras let the new one be the same as the old or another.
* *front_ends*: a ring of two wraps, and wraps again after having been emptied; two sources of three frames let a number be
  smaller, equal and greater than the one last seen. A sink of two overflows, and four changes make its version
  differ from its size. Three messages each way hold a command, a poll and a farewell, or an Ack and two statuses.
* *pipeline*: the third source can meet the leftovers of the first two; three frames
  make the sequence number of an old source smaller than, equal to and greater than the new one's.
* *server*: the second socket is the one too many; the slot passes between them.
* *estimator*: a root and a child are the two cases of every pass. Three times put a gap below, at and
  above the hold time, and going back. A still body is enough since what moves is the
  tags' visibility and ambiguity; the rotations of the cube hold twists about the hinge,
  swings off it and flips. The filter goes half way or the whole way. Both switches are on
  or both off in the run, and the times are those of the start or a shorter hold and a longer reset time; the proofs
  take any options.

Deadlock is checked in every run but the provider's two, where a closed provider, or a
process that has terminated, has nothing to do.

### Fairness

Liveness is checked under weak fairness of the threads' own steps only: the
recorder's worker, callback and the rest of stop(); the provider's worker, its closing and
the passing of time; the two halves of `poll()` (the listener's timer and the render
loop call it for ever), and the detection of a frame that has been fetched. No command,
no frame, no client and no device is obliged to do anything, nor is a spurious wakeup. A thread's
steps are fair together and not each by itself, so a run may favour one of the outcomes a
step can have. For the server only polls are fair: no client is obliged to call, to disconnect or to stop
calling. For the web page the timer, its callbacks and the server's handlers are weakly fair; that a status
which is asked for again and again is not dropped every time is strong fairness. It stands for
a client that reads what it is sent: each read makes room in the library's buffer.

## 4. Proofs

No theorem bounds a constant: they hold for any queue depth, length of recording,
number of sources, frames, sockets, observers and cameras, and any skeleton and group.

* **FrameRecorder_proofs.** `TypeOK`. `StopInv` = where the owner is determines the stop flag and the
  worker (`OwnerHolds`), the drain obligation (`DueHolds`) and `NoLostWakeup`; it is needed because none of
  `WritesOnlyOpenFile`, `StopDrains`, `NoLostWakeup` is inductive: that the file is open
  while the worker writes depends on who may have stopped what. `FramesAccounted` is inductive with the types.
  `OrderInv`: timestamps increase along file, frame in flight and queue; `CalibrationFirst` and
  the refinement (`Simulation`, `Refinement`) rest on it, as `LossyRecording` accepts only younger frames.
* **SensorFrameProvider_proofs.** `TypeOK`. `EndedIdle`: an observer has been told of the end only by a worker that
  pauses next, waits paused at the head of its loop, or has left it; hence `NoFrameAfterEnd`. `SnapshotInv`: an observer
  has been called at most once since it was removed, and not at all while it is subscribed or still in the snapshot.
  `PauseInv`: at most one frame follows a pause, and after that one the worker is paused and fetches nothing.
  `PacingInv`: what is fetched next is what follows the frame slept for (`InSequence`), and what comes next after the anchor is not ahead
  of the clock (`NextIsDue`), unless a new anchor is asked for; the clock is compared with one frame at a time, and
  only the two together bound how far the sequence has come. From it `PlaysInRealTime`. `ProviderUsesPlayback`: what the provider does
  with its recording are steps of `Playback` (the owner may choose to repeat it before it plays), so it
  relies on no more than `RecordingPlayer` is shown to keep.
* **FrameSources_proofs.** *RecordingPlayer*: `PlayerTypeOK`. A recording's messages are ordered by their times and places
  (`BeforeIsOrder`), so that a set of them that is not empty has an earliest (`EarliestIsFirst`); finite sets of numbers have a
  least member by well-founded order, and no induction over data is needed. `Landed`: what is to come and what was played since a seek lie behind where
  it landed, the played before the rest, and have every frame from there on between them, or there is nothing of either. It is inductive
  with the types, since `FreshViewLands` says it of a new view and `AdvanceLands` of one that is advanced past frames that
  cannot be decoded; `SeekLandsRight` follows, and `ShownIsFoundAgain` from the same lemmas. For the refinement a frame is numbered by the decodable frames
  up to it; `ViewsGoOnward` and `AdvancePlays` show that an advance moves that number by one or to the end.
  *K4aDevice*: `DeviceInv`: the capturers with a device are the source and the one it replaces (`OwnersHold`),
  a streaming camera is one capturer's and an open one is being opened (`CamerasAreHeld`), and nothing is replaced while
  something is opened (`OpeningHolds`). `CameraIsAsAsked` is not inductive without it: that a camera's controls stay as
  they were asked for depends on no other capturer being opened on it.
* **ExoPosePipeline_proofs.** `TypeOK`; `OwnedInv`; `SeqInv`, that sequence numbers and poses of the open source
  are in step, from which `SeenIsPosed` and the action property `PosesAdvance` follow; `StatusIsFlagged`. Where two runs find a claim
  violated, what is left of it is proved: the id of a `PoseFrame` is never an earlier frame's (`FrameIdIsNotEarlier`), since no
  command comes between the two halves of poll() (`AnnouncedInv`), and once the open source has a pose, a rest
  pose is captured from it (`RestIsCurrent`).
* **ExoPoseServer_proofs.** `Composition`: every step of the server is a step of the
  pipeline or leaves it alone, so the pipeline's theorems carry over. `SInv` = types, slot count, a socket past
  its handshake is subscribed and the server listens, and no socket exists while nobody listens; from it `ReleasedWithClient`, `ClientInformed` and `TypeOK`
  (that the count is a natural number needs that a counted socket exists).
* **ExoPoseEstimator_proofs.** From the group axioms and `TwistIsRemovable`: `TypeOK`,
  `PresentWithinHold`, `RotationsAgree`, and with `RestInv` (a rest pose is what the outputs were when it was
  captured) `RestIsNeutral`, for calibrations over an earlier rest pose too: the lemma
  `ConstrainedIsNeutral` is the algebra of it. It needs the hinge constraint on, as the property says.
  `TrackIsKept` follows from what `RangesExcludeFlips` says of the ranges: of a guided joint a candidate in its range is
  selected (`SelectedInRange`), with or without a reseed, and the filter stays in it. The assumption excludes no
  frames: the rotations all together are a range. Where a run finds `LostStaysLost` violated,
  `LostUntilTimeGoesBack` says what is left of it.

* **FrontEnds_proofs.** *DebuggerView*: `ViewIs` reads a ring from its offset, `KeptIs` and `RingPush` say what a push
  leaves of it whether the ring is full or not. `ViewInv` = types (`ViewTypeOK`), whose joints the estimator has (`PoseInv`), and for
  each plot that its newest sample was taken at its last time (`PlotOK`), that its samples are `Paired` as `JointsAreRecent` asks, and that the sample that comes
  next will follow the newest one (`IsFollowed`): the pump has fed the estimator that frame before the window takes another. `PlotsAreHistories` follows from the same lemmas, step by step.
  *LogConsole*: `CountAppend` and `CountTail` are the cardinalities that a queue's end and start add and remove; `CountsAgree` is
  inductive with the types. `RowsInv` (rows that are marked neither dirty nor old are those that would be collected now) gives the rest of `RowsAreFiltered`;
  that what is collected is every member in its order is `InOrderIs`, by the injection of a member to its place.
  *WebClient*: `OneCommandAtATime` is not inductive. `PanelInv` adds what a socket that is not open has under way (nothing), `SlotInv` that
  the server counts our socket from the upgrade until its end is sent (so nothing is awaited behind a `Closed`), and
  `AwaitedInv` that a server without a handshake has the Hello to come next, and not just before anything else that comes.

* **RecordingFile_proofs.** *RecordingFile*: what was written is not in the state as such, only what the library has gathered
  and stored of it. `RecordingInv` says that this is, message by message, the calibration and then the accepted images (`Gathers`, by
  `Sent`), all of them while the writer is open or once it has closed the file, and else the first ones; that chunk, summary and writer agree
  (`Closes`); and that what has been read is what the file, or a foreign one, holds (`Reads`). Without it
  `ReadsBackWhatWasWritten` is not inductive, as a killed writer's file has to be the beginning of what was accepted *before* it
  was killed. `StoreAppends` makes no difference between a chunk that becomes full and one that does not. Reading rests on
  `InOrder`: what is listed from the least on is the set in order (`ListedInOrder`, `AllListedInOrder`, by the injection of a place to its
  rank and no induction), so the images of a file are the places behind the first (`AllButFirst`) and the calibration the first
  (`OnlyTheFirst`). `CalibrationSurvives`, `ImageSurvives` and `HeaderFits` are what a message keeps: the latter that a raw image whose
  header is accepted has the data its sides ask for, in spite of the casts.
  *MkvToMcap*: `ConverterInv` adds that the accepted images are the colour captures up to the position (`Transcribes`)
  and what each exit code leaves (`Leaves`); `ConversionComplete` follows with `OwnFilePlays`, and `ReadsBackWhatWasWritten` holds
  of the converter's file too.

Assumptions are the ASSUMEs of the modules, each evaluated by TLC on the instances. Some invariants are proved and no
longer part of a run, since others that are checked there rest on them: `WritesOnlyOpenFile`, `CalibrationFirst`,
`EndIsOfOpenSource`, `SlotIsCounted`, and the server's `TypeOK`.

Only model-checked is everything under fairness (`QueueIsServed`, `StopReturns`, `CloseReturns`, `PlaybackEnds`, `LatchedIsPosed`,
`StatusArrives`, `StatusResyncs`): liveness and ENABLED are out of the prover's reach.

Every other property of a passing run is a theorem.

## 5. Findings

Five runs find a disagreement with what the repository says; `PROJECT.json`
quotes the lines. A negative duration from `stats()`; a repeated recording paced in its
first loop only; a `PoseFrame` with the id of a later frame; a rest pose captured from a
source that is gone; a lost joint that is held again after the timeline went back.

## 6. Not modelled

* What libraries do: k4a, apriltag, MCAP's bytes, uWebSockets' limits and its ping timeout. Where a model
  needs them (a camera's controls, chunks and summary, dropped messages) they are external definitions.
* Numerics: tag poses, the one-euro filter's cutoff, the quaternion's sign; JPEG.
* The FlatBuffers encoding, generated; of the wire protocol, what its messages mean to both sides is modelled.
* Command line and source addresses: option declarations, and a parser that tells digits from other texts.
* The renderer, widgets and dialogs' texts, the web page's scene and readouts, the frame logs of the pipeline: drawing
  and wording, without state that the rest reads.
* The choice of a recording's file name: two recordings whose names differ after a last dot only are one file.
* A second `open()` of a player that is open, which would close its reader: the provider never does it.
* A recorder's writer and the converter's are the same code at two levels: `FrameRecorder` has the threads and
  no contents, `RecordingFile` the contents and no threads.

## 7. What could follow

Every module of section 2 is checked, and every safety and action property of a passing run is proved. What remains open:

1. The arithmetic of the filters (the one-euro cutoff, the spherical interpolation): that a filter stays in a joint's range is assumed
   of `Slerp` (`RangesExcludeFlips`), not derived from it.
2. The liveness properties for every value of the constants, which need a prover for WF and SF.
3. When the code is changed where section 5 finds it wrong, `FrameIdOfPose`, `RestOfOpenSource` and `LostStaysLost` move to passing
   runs, and their theorems take the place of `IdsAreNotEarlier`, `RestsAreCurrent` and `LostWithTime`.
