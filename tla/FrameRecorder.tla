---------------------------- MODULE FrameRecorder ----------------------------
(***************************************************************************)
(* io::frame_recorder with the io::recording_writer it owns.  Three        *)
(* threads meet here:                                                      *)
(*   owner     the loop thread: start(), stop(), stats();                  *)
(*   callback  the provider's polling thread in on_sensor_frame_update();  *)
(*   worker    the recorder's own jthread, _worker().                      *)
(* A frame is its device timestamp; a live source's timestamps increase.   *)
(* A definition marked FAULTY is a defect that one of the properties at the *)
(* end catches; the specification does not use it.                         *)
(***************************************************************************)
EXTENDS Integers, Sequences

CONSTANTS
    RequestedDepth,    \* constructor argument queue_depth
    MaxFrames,         \* bound: frames the provider delivers
    MaxStarts          \* bound: successful calls of start()

ASSUME RecorderAssumption ==
    /\ RequestedDepth \in Nat
    /\ MaxFrames \in Nat
    /\ MaxStarts \in Nat

\* std::max<size_t>(1, queue_depth)
QueueDepth == IF RequestedDepth < 1 THEN 1 ELSE RequestedDepth

VARIABLES
    clock,             \* timestamp of the latest frame handed to the callback
    isStarted,         \* _is_started
    queue,             \* _queue
    framesDropped,     \* _frames_dropped
    stopRequested,     \* the jthread's stop token
    worker,            \* where the worker thread is
    taking,            \* its local `frame`
    callback,          \* where the callback is (it carries frame `clock`)
    owner,             \* where the owner is inside stop() or stats()
    writerOpen,        \* _writer # nullptr
    file,              \* image messages in the file
    calibration,       \* timestamp of the calibration message, 0 if none yet
    hasFrames, firstTs, lastTs,   \* the writer's atomics read by stats()
    readFirst, readLast, duration, \* what the last stats() call read, returned
    starts,            \* calls of start() that succeeded
    offered, taken, failed, due    \* history: frames that reached the queue's
                       \* lock, left the queue, failed to be written, and the
                       \* value of `taken` at which stop() has drained

cbVars     == <<clock, callback>>
queueVars  == <<queue, framesDropped, offered, taken>>
fileVars   == <<writerOpen, file, calibration, failed>>
statVars   == <<hasFrames, firstTs, lastTs>>
readVars   == <<readFirst, readLast, duration>>
vars == <<clock, isStarted, queue, framesDropped, stopRequested, worker,
          taking, callback, owner, writerOpen, file, calibration, hasFrames,
          firstTs, lastTs, readFirst, readLast, duration, starts, offered,
          taken, failed, due>>

WorkerStates   == {"none", "testing", "asleep", "writing", "stampFirst",
                   "stampLast", "exited"}
CallbackStates == {"idle", "checked", "notifying"}
OwnerStates    == {"idle", "stopping", "joining", "closing",
                   "statsLast", "statsHas"}

Init ==
    /\ clock = 0
    /\ callback = "idle"
    /\ owner = "idle"
    /\ isStarted = FALSE
    /\ stopRequested = FALSE
    /\ worker = "none"
    /\ taking = 0
    /\ queue = <<>>
    /\ framesDropped = 0
    /\ writerOpen = FALSE
    /\ file = <<>>
    /\ calibration = 0
    /\ hasFrames = FALSE /\ firstTs = 0 /\ lastTs = 0
    /\ readFirst = 0 /\ readLast = 0 /\ duration = 0
    /\ starts = 0
    /\ offered = 0 /\ taken = 0 /\ failed = 0 /\ due = 0

-----------------------------------------------------------------------------
(* Owner.  The steps of start() commute with those of the one callback that *)
(* can be running, except for the clearing of the queue.  start() fails when *)
(* the file cannot be opened, which changes nothing here.  firstTs and      *)
(* lastTs are not reset.                                                    *)

ResetQueue ==
    /\ queue' = <<>>
    /\ framesDropped' = 0
    /\ offered' = 0 /\ taken' = 0 /\ due' = 0

\* The stream's calibration has yet to be written.
AddCameraStream == calibration' = 0

OpenWriter ==
    /\ writerOpen' = TRUE
    /\ file' = <<>>
    /\ failed' = 0
    /\ hasFrames' = FALSE

Start ==
    /\ owner = "idle" /\ ~isStarted /\ starts < MaxStarts
    /\ starts' = starts + 1
    /\ OpenWriter /\ AddCameraStream
    /\ ResetQueue
    /\ isStarted' = TRUE
    /\ worker' = "testing"
    /\ stopRequested' = FALSE
    /\ UNCHANGED <<clock, callback, taking, owner, firstTs, lastTs, readVars>>

\* stop(): the exchange.  A second stop() returns here, having changed nothing.
StopAccepting ==
    /\ owner = "idle" /\ isStarted
    /\ isStarted' = FALSE
    /\ owner' = "stopping"
    /\ due' = taken + Len(queue)
    /\ UNCHANGED <<cbVars, queueVars, stopRequested, worker, taking, fileVars,
                   statVars, readVars, starts>>

\* request_stop() also wakes a worker that waits on _queued.
Woken(w) == IF w = "asleep" THEN "testing" ELSE w

RequestStopWithoutWaking ==                                     \* FAULTY
    /\ owner = "stopping"
    /\ owner' = "joining"
    /\ stopRequested' = TRUE
    /\ UNCHANGED <<cbVars, isStarted, queueVars, worker, taking, fileVars,
                   statVars, readVars, starts, due>>

RequestStop ==
    /\ owner = "stopping"
    /\ owner' = "joining"
    /\ stopRequested' = TRUE
    /\ worker' = Woken(worker)
    /\ UNCHANGED <<cbVars, isStarted, queueVars, taking, fileVars, statVars,
                   readVars, starts, due>>

Join ==
    /\ owner = "joining" /\ worker = "exited"
    /\ owner' = "closing"
    /\ worker' = "none"
    /\ UNCHANGED <<cbVars, isStarted, queueVars, stopRequested, taking,
                   fileVars, statVars, readVars, starts, due>>

CloseWriter ==
    /\ owner = "closing"
    /\ owner' = "idle"
    /\ writerOpen' = FALSE
    /\ UNCHANGED <<cbVars, isStarted, queueVars, stopRequested, worker, taking,
                   file, calibration, failed, statVars, readVars, starts, due>>

\* stats() loads _first_timestamp_ns, _last_timestamp_ns and _has_frames one
\* after the other, with no lock shared with the worker.
StatsFirst ==
    /\ owner = "idle"
    /\ owner' = "statsLast"
    /\ readFirst' = firstTs
    /\ UNCHANGED <<cbVars, isStarted, queueVars, stopRequested, worker, taking,
                   fileVars, statVars, readLast, duration, starts, due>>

StatsLast ==
    /\ owner = "statsLast"
    /\ owner' = "statsHas"
    /\ readLast' = lastTs
    /\ UNCHANGED <<cbVars, isStarted, queueVars, stopRequested, worker, taking,
                   fileVars, statVars, readFirst, duration, starts, due>>

StatsHas ==
    /\ owner = "statsHas"
    /\ owner' = "idle"
    /\ duration' = IF hasFrames THEN readLast - readFirst ELSE 0
    /\ UNCHANGED <<cbVars, isStarted, queueVars, stopRequested, worker, taking,
                   fileVars, statVars, readFirst, readLast, starts, due>>

-----------------------------------------------------------------------------
(* Callback.  It reads _is_started without the lock, takes the lock to push *)
(* or to count a drop, and notifies after it has released the lock.         *)

FrameArrives ==
    /\ callback = "idle" /\ clock < MaxFrames
    /\ clock' = clock + 1
    /\ \E hasImage \in BOOLEAN :
          callback' = IF isStarted /\ hasImage THEN "checked" ELSE "idle"
    /\ UNCHANGED <<isStarted, queueVars, stopRequested, worker, taking, owner,
                   fileVars, statVars, readVars, starts, due>>

PushDroppingOldest ==                                           \* FAULTY
    /\ callback = "checked"
    /\ offered' = offered + 1
    /\ queue' = Append(IF Len(queue) < QueueDepth THEN queue ELSE Tail(queue),
                       clock)
    /\ callback' = "notifying"
    /\ UNCHANGED <<clock, isStarted, framesDropped, taken, stopRequested, worker,
                   taking, owner, fileVars, statVars, readVars, starts, due>>

PushNotifyingOnlyWhenIdle ==                                    \* FAULTY
    /\ callback = "checked" /\ Len(queue) < QueueDepth
    /\ offered' = offered + 1
    /\ queue' = Append(queue, clock)
    /\ callback' = IF worker = "asleep" THEN "idle" ELSE "notifying"
    /\ UNCHANGED <<clock, isStarted, framesDropped, taken, stopRequested, worker,
                   taking, owner, fileVars, statVars, readVars, starts, due>>

PushUncounting ==                                               \* FAULTY
    /\ callback = "checked"
    /\ offered' = offered + 1
    /\ framesDropped' = framesDropped - 1
    /\ callback' = "idle"
    /\ UNCHANGED <<clock, isStarted, queue, taken, stopRequested, worker,
                   taking, owner, fileVars, statVars, readVars, starts, due>>

Push ==
    /\ callback = "checked"
    /\ offered' = offered + 1
    /\ \/ /\ Len(queue) >= QueueDepth
          /\ framesDropped' = framesDropped + 1
          /\ callback' = "idle"
          /\ UNCHANGED queue
       \/ /\ Len(queue) < QueueDepth
          /\ queue' = Append(queue, clock)
          /\ callback' = "notifying"
          /\ UNCHANGED framesDropped
    /\ UNCHANGED <<clock, isStarted, taken, stopRequested, worker, taking,
                   owner, fileVars, statVars, readVars, starts, due>>

NotifyNobody ==                                                 \* FAULTY
    /\ callback = "notifying"
    /\ callback' = "idle"
    /\ UNCHANGED <<clock, isStarted, queueVars, stopRequested, worker, taking,
                   owner, fileVars, statVars, readVars, starts, due>>

Notify ==
    /\ callback = "notifying"
    /\ callback' = "idle"
    /\ worker' = Woken(worker)
    /\ UNCHANGED <<clock, isStarted, queueVars, stopRequested, taking, owner,
                   fileVars, statVars, readVars, starts, due>>

-----------------------------------------------------------------------------
(* Worker.  "testing": it holds the lock and evaluates the wait's predicate. *)

TakeNewest ==                                                   \* FAULTY
    /\ worker = "testing" /\ queue # <<>>
    /\ taking' = queue[Len(queue)]
    /\ queue' = SubSeq(queue, 1, Len(queue) - 1)
    /\ taken' = taken + 1
    /\ worker' = "writing"
    /\ UNCHANGED <<cbVars, isStarted, framesDropped, offered, stopRequested,
                   owner, fileVars, statVars, readVars, starts, due>>

Take ==
    /\ worker = "testing" /\ queue # <<>>
    /\ taking' = Head(queue)
    /\ queue' = Tail(queue)
    /\ taken' = taken + 1
    /\ worker' = "writing"
    /\ UNCHANGED <<cbVars, isStarted, framesDropped, offered, stopRequested,
                   owner, fileVars, statVars, readVars, starts, due>>

Sleep ==
    /\ worker = "testing" /\ queue = <<>> /\ ~stopRequested
    /\ worker' = "asleep"
    /\ UNCHANGED <<cbVars, isStarted, queueVars, stopRequested, taking, owner,
                   fileVars, statVars, readVars, starts, due>>

SpuriousWakeup ==
    /\ worker = "asleep"
    /\ worker' = "testing"
    /\ UNCHANGED <<cbVars, isStarted, queueVars, stopRequested, taking, owner,
                   fileVars, statVars, readVars, starts, due>>

ExitUndrained ==                                                \* FAULTY
    /\ worker = "testing" /\ stopRequested
    /\ worker' = "exited"
    /\ UNCHANGED <<cbVars, isStarted, queueVars, stopRequested, taking, owner,
                   fileVars, statVars, readVars, starts, due>>

Exit ==
    /\ worker = "testing" /\ queue = <<>> /\ stopRequested
    /\ worker' = "exited"
    /\ UNCHANGED <<cbVars, isStarted, queueVars, stopRequested, taking, owner,
                   fileVars, statVars, readVars, starts, due>>

\* The calibration message is written once, before the first frame is encoded.
CalibrationAfter(t) == IF calibration = 0 THEN t ELSE calibration

WriteFrame ==
    /\ worker = "writing"
    /\ calibration' = CalibrationAfter(taking)
    /\ file' = Append(file, taking)
    /\ worker' = "stampFirst"
    /\ UNCHANGED <<cbVars, isStarted, queueVars, stopRequested, taking, owner,
                   writerOpen, failed, statVars, readVars, starts, due>>

\* write_frame() throws: on the calibration message, or after it, on encoding or
\* on the image message.  The worker ignores the result.
WriteFails ==
    /\ worker = "writing"
    /\ calibration' \in {calibration, CalibrationAfter(taking)}
    /\ failed' = failed + 1
    /\ worker' = "testing"
    /\ UNCHANGED <<cbVars, isStarted, queueVars, stopRequested, taking, owner,
                   writerOpen, file, statVars, readVars, starts, due>>

StampFirst ==
    /\ worker = "stampFirst"
    /\ hasFrames' = TRUE
    /\ firstTs' = IF hasFrames THEN firstTs ELSE taking
    /\ worker' = "stampLast"
    /\ UNCHANGED <<cbVars, isStarted, queueVars, stopRequested, taking, owner,
                   fileVars, lastTs, readVars, starts, due>>

StampLast ==
    /\ worker = "stampLast"
    /\ lastTs' = taking
    /\ worker' = "testing"
    /\ UNCHANGED <<cbVars, isStarted, queueVars, stopRequested, taking, owner,
                   fileVars, hasFrames, firstTs, readVars, starts, due>>

-----------------------------------------------------------------------------
OwnerStops == RequestStop \/ Join \/ CloseWriter
OwnerStats == StatsFirst \/ StatsLast \/ StatsHas
Callback   == Push \/ Notify
Worker     == Take \/ Sleep \/ Exit \/ WriteFrame \/ WriteFails
              \/ StampFirst \/ StampLast

Next == \/ Start \/ StopAccepting \/ OwnerStops \/ OwnerStats
        \/ FrameArrives \/ Callback
        \/ Worker \/ SpuriousWakeup

Spec == Init /\ [][Next]_vars

(* Each thread that is running takes its next step; nobody is obliged to   *)
(* start, to stop, to ask for statistics or to deliver another frame.      *)
Fairness ==
    /\ WF_vars(OwnerStops)
    /\ WF_vars(Callback)
    /\ WF_vars(Worker)
    /\ WF_vars(StatsLast) /\ WF_vars(StatsHas)

FairSpec == Spec /\ Fairness

-----------------------------------------------------------------------------
(* Properties *)

Flags == {isStarted, stopRequested, writerOpen, hasFrames}

\* Timestamps and counts.
Counters == {clock, taking, framesDropped, calibration, firstTs, lastTs, readFirst,
             readLast, starts, offered, taken, failed, due}

\* Every variable holds a value of its type.
TypeOK ==
    /\ Flags \subseteq BOOLEAN
    /\ worker \in WorkerStates
    /\ callback \in CallbackStates
    /\ owner \in OwnerStates
    /\ Counters \subseteq Nat
    /\ duration \in Int
    /\ queue \in Seq(Nat)
    /\ file \in Seq(Nat)

\* The worker thread is inside write_frame().
Writing == worker \in {"writing", "stampFirst", "stampLast"}

\* Frames taken from the queue whose fate is not decided yet.
InFlight == IF worker = "writing" THEN 1 ELSE 0

\* No frame vanishes between the threads: each one that reached the queue's
\* lock was counted as dropped, waits, is being written, is in the file, or
\* failed to be written; and the queue never grows beyond its depth.
FramesAccounted ==
    /\ offered = framesDropped + Len(queue) + taken
    /\ taken = Len(file) + failed + InFlight
    /\ Len(queue) <= QueueDepth

\* The file is only written while it is open: stop() finalizes it after the
\* worker has left, however late the worker is.
WritesOnlyOpenFile == Writing => writerOpen

\* "Drains whatever is queued": once stop() has returned, the worker has taken
\* every frame that was queued when stop() began, and is done with the last.
StopDrains ==
    (owner = "idle" /\ ~isStarted) => taken >= due /\ ~Writing /\ ~writerOpen

\* A sleeping worker with frames to write is about to be notified, and a stop
\* request never leaves it asleep: no wakeup is lost between push and wait.
NoLostWakeup ==
    worker = "asleep" => /\ ~stopRequested
                         /\ queue # <<>> => callback = "notifying"

\* What a reader relies on: a file that has frames has the calibration, and it
\* is not younger than the first of them.
CalibrationFirst == file # <<>> => calibration \in 1..file[1]

\* A frame queued while the worker runs is taken off the queue in the end.
QueueIsServed == (queue # <<>> /\ worker \notin {"none", "exited"})
                    ~> (queue = <<>>)

\* stop() returns, with the file finalized.
StopReturns == owner = "stopping" ~> (owner = "idle" /\ ~writerOpen)

\* recording_writer.hh:73 calls stats() thread-safe; a duration is not negative.
DurationNotNegative == duration >= 0

\* The recorder implements the recording it promises.
Backlog == IF worker = "writing" THEN <<taking>> \o queue ELSE queue

Promise == INSTANCE LossyRecording WITH
              Times <- 1..MaxFrames, Capacity <- QueueDepth + 1,
              backlog <- Backlog, log <- file,
              recording <- writerOpen

\* Frames are logged in the order in which they came, none twice, at most the
\* queue and one frame behind, and a finalized file never changes.
ImplementsRecording == Promise!Spec
=============================================================================
