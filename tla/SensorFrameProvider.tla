------------------------- MODULE SensorFrameProvider -------------------------
(***************************************************************************)
(* hw::sensor_frame_provider over a live device or over a recording that  *)
(* hw::mcap_record_player plays.                                           *)
(*   worker   _polling_thread_proc(): fetch, notify, pace;                 *)
(*   owner    the loop thread: every public member function.               *)
(* A recording is its frames 1..RecordingLength, one time unit apart, so a *)
(* frame is its timestamp.  The provider's frame counter and its observers' *)
(* reactions are modelled in ExoPosePipeline and FrameRecorder.            *)
(* A definition marked FAULTY is a defect that one of the properties at the *)
(* end catches; the specification does not use it.                         *)
(***************************************************************************)
EXTENDS Integers, FiniteSets

CONSTANTS
    RecordingLength,   \* decodable frames in a recording
    Observers,         \* those that may subscribe
    Kinds,             \* what the owner opens: subset of {"device", "recording"}
    Commands           \* the commands the owner may give

ASSUME ProviderAssumption ==
    /\ RecordingLength \in Nat
    /\ Kinds \subseteq {"device", "recording"}
    /\ Commands \subseteq {"play", "pause", "seek", "speed", "autoRepeat",
                           "observe"}

VARIABLES
    source,            \* _source and _player: "none", "device" or "recording"
    running, paused, needRepace,      \* _running, _paused, _need_repace
    observers,         \* _observers
    autoRepeat, cursor,               \* the player's: repeat, next frame
    worker,            \* where the polling thread is
    frame,             \* its fetched frame: 0 is nullptr
    toNotify,          \* the rest of its snapshot of the observers
    anchorSet, anchorTs,              \* its pacing anchor
    elapsed,           \* wall clock since the anchor
    owner,             \* where the owner is in the provider's life
    ended,             \* history: observers told of the end since open, play()
    straggled,         \* history: calls to an observer since its removal
    afterPause,        \* history: frames delivered since pause()
    played             \* history: frames delivered since the anchor, and its own

sourceVars == <<source, autoRepeat, cursor>>
flagVars   == <<running, paused, needRepace>>
localVars  == <<frame, toNotify>>
paceVars   == <<anchorSet, anchorTs, elapsed, played>>
tellVars   == <<ended, straggled, afterPause>>
vars == <<source, running, paused, needRepace, observers, autoRepeat, cursor,
          worker, frame, toNotify, anchorSet, anchorTs, elapsed, owner,
          ended, straggled, afterPause, played>>

NoColorImage == -1     \* a frameset whose color image is missing

\* `played` counts no further: more than the recording has are all alike.
MaxPlayed == RecordingLength + 3

WorkerStates == {"none", "top", "fetching", "fetched", "notifying", "ending",
                 "pausing", "pacing", "sleeping", "exited", "terminated"}
OwnerStates  == {"idle", "open", "joining", "joined", "gone"}

Init ==
    /\ source = "none" /\ autoRepeat = FALSE /\ cursor = 1
    /\ running = FALSE /\ paused = FALSE /\ needRepace = FALSE
    /\ observers = {}
    /\ worker = "none" /\ frame = 0 /\ toNotify = {}
    /\ anchorSet = FALSE /\ anchorTs = 0 /\ elapsed = 0 /\ played = 0
    /\ owner = "idle"
    /\ ended = {}
    /\ straggled = [o \in Observers |-> 0]
    /\ afterPause = 0

-----------------------------------------------------------------------------
(* Owner *)

\* open_device(), open_recording() and _install_source(); a failed open leaves
\* the provider closed.  Recordings are opened with auto-repeat on; the
\* observers are told of the reset before the thread starts.
Open ==
    /\ owner = "idle"
    /\ source' \in Kinds
    /\ autoRepeat' = (source' = "recording")
    /\ cursor' = 1
    /\ running' = TRUE /\ paused' = FALSE /\ needRepace' = TRUE
    /\ owner' = "open"
    /\ worker' = "top" /\ frame' = 0 /\ toNotify' = {}
    /\ anchorSet' = FALSE /\ anchorTs' = 0 /\ elapsed' = 0 /\ played' = 0
    /\ ended' = {} /\ afterPause' = 0
    /\ UNCHANGED <<observers, straggled>>

AddObserver(o) ==
    /\ owner = "idle" \/ (owner = "open" /\ "observe" \in Commands)
    /\ o \notin observers
    /\ observers' = observers \cup {o}
    /\ straggled' = [straggled EXCEPT ![o] = 0]
    /\ ended' = ended \ {o}
    /\ UNCHANGED <<sourceVars, flagVars, worker, localVars, paceVars, owner,
                   afterPause>>

RemoveObserver(o) ==
    /\ owner = "open" /\ "observe" \in Commands
    /\ o \in observers
    /\ observers' = observers \ {o}
    /\ UNCHANGED <<sourceVars, flagVars, worker, localVars, paceVars, owner,
                   tellVars>>

Play ==
    /\ owner = "open" /\ "play" \in Commands
    /\ needRepace' = TRUE
    /\ paused' = FALSE
    /\ ended' = {} /\ afterPause' = 0
    /\ UNCHANGED <<sourceVars, running, observers, worker, localVars, paceVars,
                   owner, straggled>>

Pause ==
    /\ owner = "open" /\ "pause" \in Commands
    /\ paused' = TRUE
    /\ UNCHANGED <<sourceVars, running, needRepace, observers, worker, localVars,
                   paceVars, owner, tellVars>>

\* seek_recording_to_begin(), _to_end() and _timeline(): to any frame or behind
\* the last, as RecordingPlayer has it, under the lock that a fetch holds.
Seek ==
    /\ owner = "open" /\ source = "recording" /\ "seek" \in Commands
    /\ cursor' \in 1..(RecordingLength + 1)
    /\ needRepace' = TRUE
    /\ UNCHANGED <<source, autoRepeat, running, paused, observers, worker,
                   localVars, paceVars, owner, tellVars>>

\* Time is counted in frame intervals at the speed that is set.
SetUpdateSpeed ==
    /\ owner = "open" /\ "speed" \in Commands
    /\ needRepace' = TRUE
    /\ UNCHANGED <<sourceVars, running, paused, observers, worker, localVars,
                   paceVars, owner, tellVars>>

SetAutoRepeat ==
    /\ owner = "open" /\ source = "recording" /\ "autoRepeat" \in Commands
    /\ autoRepeat' \in BOOLEAN
    /\ UNCHANGED <<source, cursor, flagVars, observers, worker, localVars,
                   paceVars, owner, tellVars>>

\* close() and the destructor: _stop_thread(), then the source, then the end.
CloseBegins ==
    /\ owner = "open"
    /\ running' = FALSE
    /\ owner' = "joining"
    /\ UNCHANGED <<sourceVars, paused, needRepace, observers, worker, localVars,
                   paceVars, tellVars>>

JoinAtOnce ==                                                   \* FAULTY
    /\ owner = "joining"
    /\ owner' = "joined"
    /\ UNCHANGED <<sourceVars, flagVars, observers, worker, localVars, paceVars,
                   tellVars>>

Join ==
    /\ owner = "joining" /\ worker = "exited"
    /\ owner' = "joined"
    /\ UNCHANGED <<sourceVars, flagVars, observers, worker, localVars, paceVars,
                   tellVars>>

CloseSource ==
    /\ owner = "joined"
    /\ source' = "none"
    /\ ended' = ended \cup observers
    /\ owner' = "idle"
    /\ UNCHANGED <<autoRepeat, cursor, flagVars, observers, worker, localVars,
                   paceVars, straggled, afterPause>>

-----------------------------------------------------------------------------
(* Worker.  Each step reads what the code reads between two of its writes.  *)

LoopHeadPausedFirst ==                                          \* FAULTY
    /\ worker = "top"
    /\ \/ ~paused /\ ~running /\ worker' = "exited" /\ UNCHANGED needRepace
       \/ paused /\ needRepace' = TRUE /\ UNCHANGED worker
       \/ running /\ ~paused /\ worker' = "fetching" /\ UNCHANGED needRepace
    /\ UNCHANGED <<sourceVars, running, paused, observers, localVars, paceVars,
                   owner, tellVars>>

LoopHeadPausingRecordings ==                                    \* FAULTY
    /\ worker = "top"
    /\ worker' = IF ~running THEN "exited"
                 ELSE IF paused /\ source = "recording" THEN "top" ELSE "fetching"
    /\ UNCHANGED <<sourceVars, flagVars, observers, localVars, paceVars, owner,
                   tellVars>>

LoopHead ==
    /\ worker = "top"
    /\ \/ ~running /\ worker' = "exited" /\ UNCHANGED needRepace
       \/ running /\ paused /\ needRepace' = TRUE /\ UNCHANGED worker
       \/ running /\ ~paused /\ worker' = "fetching" /\ UNCHANGED needRepace
    /\ UNCHANGED <<sourceVars, running, paused, observers, localVars, paceVars,
                   owner, tellVars>>

\* A device gives a frame, a frameset without color image, or times out.
FetchFromDevice ==
    /\ worker = "fetching" /\ source = "device"
    /\ frame' \in {1, NoColorImage, 0}
    /\ worker' = "fetched"
    /\ UNCHANGED <<sourceVars, flagVars, observers, toNotify, paceVars, owner,
                   tellVars>>

\* k4a reports a failed wait: fetch throws out of the thread function, and
\* std::terminate() ends the process, the owner with it.
DeviceFails ==
    /\ worker = "fetching" /\ source = "device"
    /\ worker' = "terminated"
    /\ owner' = "gone"
    /\ UNCHANGED <<sourceVars, flagVars, observers, localVars, paceVars, tellVars>>

FetchRepeating ==                                               \* FAULTY
    /\ worker = "fetching" /\ source = "recording"
    /\ frame' = IF cursor > RecordingLength THEN 1 ELSE cursor
    /\ cursor' = frame' + 1
    /\ worker' = "fetched"
    /\ UNCHANGED <<source, autoRepeat, flagVars, observers, toNotify, paceVars,
                   owner, tellVars>>

FetchSkippingAtEnd ==                                           \* FAULTY
    /\ worker = "fetching" /\ source = "recording"
    /\ frame' = IF cursor > RecordingLength THEN 0 ELSE cursor
    /\ cursor' = cursor + 1
    /\ worker' = "fetched"
    /\ UNCHANGED <<source, autoRepeat, flagVars, observers, toNotify, paceVars,
                   owner, tellVars>>

PlayFrom(c) == IF c > RecordingLength THEN frame' = 0 /\ cursor' = c
                                      ELSE frame' = c /\ cursor' = c + 1

\* Playback's Fetch.  Past the last frame the player starts over, or reports the
\* end with nullptr, as it does when starting over fails.
FetchFromRecording ==
    /\ worker = "fetching" /\ source = "recording"
    /\ \/ cursor <= RecordingLength /\ PlayFrom(cursor)
       \/ cursor > RecordingLength /\ ~autoRepeat /\ PlayFrom(cursor)
       \/ /\ cursor > RecordingLength /\ autoRepeat
          /\ \E c \in {1, RecordingLength + 1} : PlayFrom(c)
    /\ worker' = "fetched"
    /\ UNCHANGED <<source, autoRepeat, flagVars, observers, toNotify, paceVars,
                   owner, tellVars>>

\* A color frame is counted by the histories as it goes to the observers.
Deliver ==
    /\ worker' = "notifying"
    /\ afterPause' = IF paused THEN afterPause + 1 ELSE 0
    /\ played' = IF played < MaxPlayed THEN played + 1 ELSE played

\* What was fetched decides; the observers are copied before they are called.
Dispatch ==
    /\ worker = "fetched"
    /\ \/ /\ ~running /\ worker' = "exited"
          /\ UNCHANGED <<toNotify, afterPause, played>>
       \/ /\ running /\ frame = 0 /\ source = "recording"
          /\ worker' = "ending" /\ toNotify' = observers
          /\ UNCHANGED <<afterPause, played>>
       \/ /\ running /\ (frame = NoColorImage \/ (frame = 0 /\ source = "device"))
          /\ worker' = "top"
          /\ UNCHANGED <<toNotify, afterPause, played>>
       \/ /\ running /\ frame > 0
          /\ Deliver /\ toNotify' = observers
    /\ UNCHANGED <<sourceVars, flagVars, observers, frame, anchorSet, anchorTs,
                   elapsed, owner, ended, straggled>>

\* A call that reaches an observer after its removal is held against it.
Called(o) == IF o \in observers THEN straggled
             ELSE [straggled EXCEPT ![o] = @ + 1]

NotifyOverAndOver(o) ==                                         \* FAULTY
    /\ worker = "notifying" /\ o \in toNotify
    /\ toNotify' \in {toNotify, toNotify \ {o}}
    /\ straggled' = Called(o)
    /\ UNCHANGED <<sourceVars, flagVars, observers, worker, frame, paceVars,
                   owner, ended, afterPause>>

\* One observer's on_sensor_frame_update().
Notify(o) ==
    /\ worker = "notifying" /\ o \in toNotify
    /\ toNotify' = toNotify \ {o}
    /\ straggled' = Called(o)
    /\ UNCHANGED <<sourceVars, flagVars, observers, worker, frame, paceVars,
                   owner, ended, afterPause>>

Notified ==
    /\ worker = "notifying" /\ toNotify = {}
    /\ worker' = IF source = "recording" THEN "pacing" ELSE "top"
    /\ UNCHANGED <<sourceVars, flagVars, observers, localVars, paceVars, owner,
                   tellVars>>

\* One observer's on_sensor_stream_end().
NotifyEnd(o) ==
    /\ worker = "ending" /\ o \in toNotify
    /\ toNotify' = toNotify \ {o}
    /\ ended' = ended \cup {o}
    /\ straggled' = Called(o)
    /\ UNCHANGED <<sourceVars, flagVars, observers, worker, frame, paceVars,
                   owner, afterPause>>

EndNotified ==
    /\ worker = "ending" /\ toNotify = {}
    /\ worker' = "pausing"
    /\ UNCHANGED <<sourceVars, flagVars, observers, localVars, paceVars, owner,
                   tellVars>>

GoOnAtEnd ==                                                    \* FAULTY
    /\ worker = "pausing"
    /\ worker' = "top"
    /\ UNCHANGED <<sourceVars, flagVars, observers, localVars, paceVars, owner,
                   tellVars>>

PauseAtEnd ==
    /\ worker = "pausing"
    /\ paused' = TRUE
    /\ worker' = "top"
    /\ UNCHANGED <<sourceVars, running, needRepace, observers, localVars,
                   paceVars, owner, tellVars>>

\* Anchor on this frame, or sleep until the frame's own time; the call of
\* exchange() is skipped while no anchor is set.
Pace ==
    /\ worker = "pacing"
    /\ \/ /\ ~anchorSet \/ needRepace
          /\ needRepace' = (needRepace /\ ~anchorSet)
          /\ anchorSet' = TRUE /\ anchorTs' = frame /\ elapsed' = 0 /\ played' = 1
          /\ worker' = "top"
       \/ /\ anchorSet /\ ~needRepace
          /\ worker' = "sleeping"
          /\ UNCHANGED <<needRepace, paceVars>>
    /\ UNCHANGED <<sourceVars, running, paused, observers, localVars, owner,
                   tellVars>>

WakeEarly ==                                                    \* FAULTY
    /\ worker = "sleeping" /\ elapsed >= frame - anchorTs - 1
    /\ worker' = "top"
    /\ UNCHANGED <<sourceVars, flagVars, observers, localVars, paceVars, owner,
                   tellVars>>

SleepUntil ==
    /\ worker = "sleeping" /\ elapsed >= frame - anchorTs
    /\ worker' = "top"
    /\ UNCHANGED <<sourceVars, flagVars, observers, localVars, paceVars, owner,
                   tellVars>>

\* The wall clock.  No target is further than the recording is long, so more
\* time than that since the anchor makes no difference.
Tick ==
    /\ anchorSet /\ elapsed < RecordingLength
    /\ elapsed' = elapsed + 1
    /\ UNCHANGED <<sourceVars, flagVars, observers, worker, localVars, anchorSet,
                   anchorTs, owner, tellVars, played>>

-----------------------------------------------------------------------------
Command == \/ Open \/ Play \/ Pause \/ Seek \/ SetUpdateSpeed \/ SetAutoRepeat
           \/ CloseBegins
           \/ \E o \in Observers : AddObserver(o) \/ RemoveObserver(o)
Closing == Join \/ CloseSource
Worker  == \/ LoopHead \/ FetchFromDevice \/ FetchFromRecording \/ Dispatch
           \/ Notified \/ EndNotified \/ PauseAtEnd \/ Pace \/ SleepUntil
           \/ \E o \in Observers : Notify(o) \/ NotifyEnd(o)

Next == Command \/ Closing \/ Worker \/ DeviceFails \/ Tick

Spec == Init /\ [][Next]_vars

(* The two threads run and time passes; the owner need not give a command.  *)
Fairness == WF_vars(Worker) /\ WF_vars(Closing) /\ WF_vars(Tick)

FairSpec == Spec /\ Fairness

-----------------------------------------------------------------------------
(* Properties *)

Fetchable == {0, 1, NoColorImage} \cup 1..RecordingLength

Flags == {running, paused, needRepace, autoRepeat, anchorSet}

\* Every variable holds a value of its type.
TypeOK ==
    /\ Flags \subseteq BOOLEAN
    /\ source \in {"none", "device", "recording"}
    /\ cursor \in 1..(RecordingLength + 1)
    /\ frame \in Fetchable /\ anchorTs \in Fetchable
    /\ worker \in WorkerStates /\ owner \in OwnerStates
    /\ observers \subseteq Observers
    /\ toNotify \subseteq Observers
    /\ ended \subseteq Observers
    /\ elapsed \in 0..RecordingLength
    /\ played \in 0..MaxPlayed
    /\ afterPause \in Nat
    /\ straggled \in [Observers -> Nat]

\* A frame never reaches an observer that has been told of the stream's end and
\* saw no play() or open since: neither after the end of a recording, where the
\* worker pauses only when it has told them and seeks are still accepted, nor
\* after close().
NoFrameAfterEnd == worker = "notifying" => toNotify \cap ended = {}

\* remove_observer() can return while the worker still holds a snapshot: the
\* observer is called at most once more.
OneStraggler == \A o \in Observers : o \notin observers => straggled[o] <= 1

\* pause() lets out at most the one frame that is being fetched.
OneFrameAfterPause == afterPause <= 1

\* Counting from the anchor, as long as no wrap and no seek breaks the sequence,
\* playback is at most one frame ahead of the recording's own clock.
PlaysInRealTime ==
    (worker = "notifying" /\ source = "recording" /\ anchorSet /\ ~needRepace
        /\ frame = anchorTs + played - 1) => played <= elapsed + 2

\* close() returns, whatever the worker is doing, unless the process ended.
CloseReturns == owner = "joining" ~> owner \in {"idle", "gone"}

\* A recording that is not repeated comes to its end, unless it is paused or a
\* seek, which unlike a fetch leaves the worker where it is, goes back in it.
PlaybackEnds ==
    <>[](owner = "open" /\ source = "recording" /\ ~autoRepeat)
        => \/ []<>(paused \/ worker = "ending")
           \/ []<><<cursor' < cursor /\ worker' = worker>>_cursor

\* sensor_frame_provider.cc:217: "Pace playback to real-time * speed using
\* device timestamps", a repeated recording too.
RepeatsInRealTime ==
    (worker = "notifying" /\ anchorSet /\ elapsed < RecordingLength)
        => played <= elapsed + 2
=============================================================================
