--------------------- MODULE SensorFrameProvider_proofs ---------------------
(***************************************************************************)
(* Theorems about SensorFrameProvider, for recordings of every length, any *)
(* set of observers and any choice of commands: its variables are well     *)
(* typed, nobody is shown a frame after the end, an observer that was      *)
(* removed is called at most once more, and so is one after pause(); no    *)
(* frame is early; and what the player does here is what Playback promises. *)
(***************************************************************************)
EXTENDS SensorFrameProvider, TLAPS

\* Every variable keeps its type.
THEOREM Typing == Spec => []TypeOK
<1> USE ProviderAssumption DEF ProviderAssumption, WorkerStates, OwnerStates,
        NoColorImage, MaxPlayed, Fetchable
<1>1. Init => TypeOK
  <2> SUFFICES ASSUME Init PROVE TypeOK
    OBVIOUS
  <2>1. Flags \subseteq BOOLEAN
    BY Zenon DEF Init, Flags
  <2> QED BY <2>1 DEF Init, TypeOK
<1>2. TypeOK /\ [Next]_vars => TypeOK'
  <2> SUFFICES ASSUME TypeOK, [Next]_vars PROVE TypeOK'
    OBVIOUS
  <2>f. (Flags \subseteq BOOLEAN)'
    <3> USE DEF TypeOK, Flags, sourceVars, flagVars, localVars, paceVars,
                tellVars, vars
    <3>1. CASE Open
      BY <3>1, Zenon DEF Open
    <3>2. CASE \E o \in Observers : AddObserver(o) \/ RemoveObserver(o)
      BY <3>2, Zenon DEF AddObserver, RemoveObserver
    <3>3. CASE Play \/ Pause \/ Seek \/ SetUpdateSpeed \/ SetAutoRepeat
      BY <3>3, Zenon DEF Play, Pause, Seek, SetUpdateSpeed, SetAutoRepeat
    <3>4. CASE CloseBegins \/ Join \/ CloseSource
      BY <3>4, Zenon DEF CloseBegins, Join, CloseSource
    <3>5. CASE LoopHead
      BY <3>5, Zenon DEF LoopHead
    <3>6. CASE FetchFromDevice \/ DeviceFails \/ FetchFromRecording
      BY <3>6, Zenon DEF FetchFromDevice, DeviceFails, FetchFromRecording
    <3>7. CASE Dispatch
      BY <3>7, Zenon DEF Dispatch
    <3>8. CASE \E o \in Observers : Notify(o) \/ NotifyEnd(o)
      BY <3>8, Zenon DEF Notify, NotifyEnd
    <3>9. CASE Notified \/ EndNotified \/ PauseAtEnd
      BY <3>9, Zenon DEF Notified, EndNotified, PauseAtEnd
    <3>10. CASE Pace
      <4>1. needRepace' \in BOOLEAN /\ anchorSet' \in BOOLEAN
        BY <3>10, Zenon DEF Pace
      <4> QED BY <3>10, <4>1, Zenon DEF Pace
    <3>11. CASE SleepUntil \/ Tick
      BY <3>11, Zenon DEF SleepUntil, Tick
    <3>12. CASE UNCHANGED vars
      BY <3>12, Zenon
    <3> QED
      BY <3>1, <3>2, <3>3, <3>4, <3>5, <3>6, <3>7, <3>8, <3>9, <3>10, <3>11,
         <3>12, Zenon DEF Next, Command, Closing, Worker
  <2> USE <2>f DEF TypeOK, sourceVars, flagVars, localVars, paceVars, tellVars
  <2>1. CASE Open
    BY <2>1 DEF Open
  <2>2. ASSUME NEW o \in Observers, AddObserver(o) \/ RemoveObserver(o)
        PROVE  TypeOK'
    BY <2>2 DEF AddObserver, RemoveObserver
  <2>3. CASE Play \/ Pause \/ Seek \/ SetUpdateSpeed \/ SetAutoRepeat
    BY <2>3 DEF Play, Pause, Seek, SetUpdateSpeed, SetAutoRepeat
  <2>4. CASE CloseBegins \/ Join \/ CloseSource
    BY <2>4 DEF CloseBegins, Join, CloseSource
  <2>5. CASE LoopHead
    BY <2>5 DEF LoopHead
  <2>6. CASE FetchFromDevice \/ DeviceFails
    BY <2>6 DEF FetchFromDevice, DeviceFails
  <2>7. CASE FetchFromRecording
    BY <2>7, ProviderAssumption DEF FetchFromRecording, PlayFrom, Fetchable,
       ProviderAssumption
  <2>8. CASE Dispatch
    BY <2>8 DEF Dispatch, Deliver
  <2>9. ASSUME NEW o \in Observers, Notify(o) \/ NotifyEnd(o)
        PROVE  TypeOK'
    <3>1. straggled' \in [Observers -> Nat]
      <4>1. straggled' = Called(o)
        BY <2>9 DEF Notify, NotifyEnd
      <4>2. [straggled EXCEPT ![o] = @ + 1] \in [Observers -> Nat]
        OBVIOUS
      <4> QED BY <4>1, <4>2, Zenon DEF Called
    <3>2. /\ toNotify' \subseteq Observers /\ ended' \subseteq Observers
          /\ UNCHANGED <<source, cursor, frame, worker, owner, observers,
                         anchorTs, elapsed, played, afterPause>>
      BY <2>9 DEF Notify, NotifyEnd
    <3> QED BY <3>1, <3>2
  <2>10. CASE Notified \/ EndNotified \/ PauseAtEnd
    BY <2>10 DEF Notified, EndNotified, PauseAtEnd
  <2>11. CASE Pace
    BY <2>11 DEF Pace
  <2>12. CASE SleepUntil \/ Tick
    BY <2>12 DEF SleepUntil, Tick
  <2>13. CASE UNCHANGED vars
    BY <2>13 DEF vars
  <2> QED
    BY <2>1, <2>2, <2>3, <2>4, <2>5, <2>6, <2>7, <2>8, <2>9, <2>10, <2>11, <2>12,
       <2>13 DEF Next, Command, Closing, Worker
<1> QED BY <1>1, <1>2, PTL DEF Spec

-----------------------------------------------------------------------------
(* The end of the stream: nothing is fetched between it and play().          *)

\* Whoever has been told of the end is told by a worker that pauses next, that
\* stays paused, or that has left; the owner is idle only without a worker.
EndedIdle ==
  /\ owner = "idle" => worker \in {"none", "exited"}
  /\ owner = "joined" => worker = "exited"
  /\ ended # {} => \/ worker \in {"none", "ending", "pausing", "exited",
                                  "terminated"}
                   \/ worker = "top" /\ paused

\* Every step keeps what the end of the stream relies on.
LEMMA EndedIdleStep == EndedIdle /\ [Next]_vars => EndedIdle'
<1> SUFFICES ASSUME EndedIdle, [Next]_vars PROVE EndedIdle'
  OBVIOUS
<1> USE DEF EndedIdle, sourceVars, flagVars, localVars, paceVars, tellVars
<1>1. CASE Open \/ \E o \in Observers : AddObserver(o) \/ RemoveObserver(o)
  BY <1>1 DEF Open, AddObserver, RemoveObserver
<1>2. CASE Play \/ Pause
  BY <1>2 DEF Play, Pause
<1>3. CASE Seek \/ SetUpdateSpeed \/ SetAutoRepeat \/ Tick
  BY <1>3 DEF Seek, SetUpdateSpeed, SetAutoRepeat, Tick
<1>4. CASE CloseBegins \/ Join \/ CloseSource
  BY <1>4 DEF CloseBegins, Join, CloseSource
<1>5. CASE LoopHead
  BY <1>5 DEF LoopHead
<1>6. CASE FetchFromDevice \/ DeviceFails \/ FetchFromRecording
  BY <1>6 DEF FetchFromDevice, DeviceFails, FetchFromRecording
<1>7. CASE Dispatch
  BY <1>7 DEF Dispatch, Deliver
<1>8. CASE \E o \in Observers : Notify(o) \/ NotifyEnd(o)
  BY <1>8 DEF Notify, NotifyEnd
<1>9. CASE Notified \/ EndNotified \/ PauseAtEnd
  BY <1>9 DEF Notified, EndNotified, PauseAtEnd
<1>10. CASE Pace \/ SleepUntil
  BY <1>10 DEF Pace, SleepUntil
<1>11. CASE UNCHANGED vars
  BY <1>11 DEF vars
<1> QED
  BY <1>1, <1>2, <1>3, <1>4, <1>5, <1>6, <1>7, <1>8, <1>9, <1>10, <1>11
     DEF Next, Command, Closing, Worker

\* No frame reaches an observer that has been told the stream has ended.
THEOREM EndIsFinal == Spec => []NoFrameAfterEnd
<1>1. Init => EndedIdle
  BY DEF Init, EndedIdle
<1>2. EndedIdle => NoFrameAfterEnd
  BY DEF EndedIdle, NoFrameAfterEnd
<1> QED BY <1>1, <1>2, EndedIdleStep, PTL DEF Spec

-----------------------------------------------------------------------------
(* The snapshot of the observers: it holds an observer that was removed once *)
(* at most, and not after that observer has been called.                     *)

SnapshotInv ==
  \A o \in Observers :
     /\ straggled[o] \in {0, 1}
     /\ o \in observers => straggled[o] = 0
     /\ o \in toNotify => straggled[o] = 0

\* Every step keeps the snapshot's promise.
LEMMA SnapshotStep == TypeOK /\ SnapshotInv /\ [Next]_vars => SnapshotInv'
<1> SUFFICES ASSUME TypeOK, SnapshotInv, [Next]_vars PROVE SnapshotInv'
  OBVIOUS
<1>t. straggled \in [Observers -> Nat]
  BY DEF TypeOK
<1> USE <1>t DEF SnapshotInv, sourceVars, flagVars, localVars, paceVars, tellVars
<1>1. CASE Open
  BY <1>1 DEF Open
<1>2. ASSUME NEW o \in Observers, AddObserver(o) \/ RemoveObserver(o)
      PROVE  SnapshotInv'
  BY <1>2 DEF AddObserver, RemoveObserver
<1>3. CASE Play \/ Pause \/ Seek \/ SetUpdateSpeed \/ SetAutoRepeat \/ Tick
  BY <1>3 DEF Play, Pause, Seek, SetUpdateSpeed, SetAutoRepeat, Tick
<1>4. CASE CloseBegins \/ Join \/ CloseSource
  BY <1>4 DEF CloseBegins, Join, CloseSource
<1>5. CASE LoopHead \/ FetchFromDevice \/ DeviceFails \/ FetchFromRecording
  BY <1>5 DEF LoopHead, FetchFromDevice, DeviceFails, FetchFromRecording
<1>6. CASE Dispatch
  BY <1>6 DEF Dispatch
<1>7. ASSUME NEW o \in Observers, Notify(o) \/ NotifyEnd(o)
      PROVE  SnapshotInv'
  <2>1. o \in toNotify /\ toNotify' = toNotify \ {o} /\ observers' = observers
    BY <1>7 DEF Notify, NotifyEnd
  <2>2. straggled' = straggled \/ (/\ o \notin observers
                                   /\ straggled' = [straggled EXCEPT ![o] = @ + 1])
    BY <1>7 DEF Notify, NotifyEnd, Called
  <2> QED BY <2>1, <2>2
<1>8. CASE Notified \/ EndNotified \/ PauseAtEnd \/ Pace \/ SleepUntil
  BY <1>8 DEF Notified, EndNotified, PauseAtEnd, Pace, SleepUntil
<1>9. CASE UNCHANGED vars
  BY <1>9 DEF vars
<1> QED
  BY <1>1, <1>2, <1>3, <1>4, <1>5, <1>6, <1>7, <1>8, <1>9
     DEF Next, Command, Closing, Worker

\* An observer that has been removed is called at most once more.
THEOREM RemovalHolds == Spec => []OneStraggler
<1>1. Init => SnapshotInv
  BY DEF Init, SnapshotInv
<1>2. SnapshotInv => OneStraggler
  BY DEF SnapshotInv, OneStraggler
<1> QED BY <1>1, <1>2, Typing, SnapshotStep, PTL DEF Spec

-----------------------------------------------------------------------------
(* Pausing: a worker that saw the pause fetches nothing.                     *)

PauseInv ==
  /\ afterPause \in {0, 1}
  /\ afterPause = 1 => paused /\ worker \notin {"fetching", "fetched"}

\* Every step keeps the pause.
LEMMA PauseStep == PauseInv /\ [Next]_vars => PauseInv'
<1> SUFFICES ASSUME PauseInv, [Next]_vars PROVE PauseInv'
  OBVIOUS
<1> USE DEF PauseInv, sourceVars, flagVars, localVars, paceVars, tellVars
<1>1. CASE Open \/ \E o \in Observers : AddObserver(o) \/ RemoveObserver(o)
  BY <1>1 DEF Open, AddObserver, RemoveObserver
<1>2. CASE Play \/ Pause \/ Seek \/ SetUpdateSpeed \/ SetAutoRepeat \/ Tick
  BY <1>2 DEF Play, Pause, Seek, SetUpdateSpeed, SetAutoRepeat, Tick
<1>3. CASE CloseBegins \/ Join \/ CloseSource
  BY <1>3 DEF CloseBegins, Join, CloseSource
<1>4. CASE LoopHead
  BY <1>4 DEF LoopHead
<1>5. CASE FetchFromDevice \/ DeviceFails \/ FetchFromRecording
  BY <1>5 DEF FetchFromDevice, DeviceFails, FetchFromRecording
<1>6. CASE Dispatch
  BY <1>6 DEF Dispatch, Deliver
<1>7. CASE \E o \in Observers : Notify(o) \/ NotifyEnd(o)
  BY <1>7 DEF Notify, NotifyEnd
<1>8. CASE Notified \/ EndNotified \/ PauseAtEnd \/ Pace \/ SleepUntil
  BY <1>8 DEF Notified, EndNotified, PauseAtEnd, Pace, SleepUntil
<1>9. CASE UNCHANGED vars
  BY <1>9 DEF vars
<1> QED
  BY <1>1, <1>2, <1>3, <1>4, <1>5, <1>6, <1>7, <1>8, <1>9
     DEF Next, Command, Closing, Worker

\* At most one frame is delivered after pause().
THEOREM PauseHolds == Spec => []OneFrameAfterPause
<1>1. Init => PauseInv
  BY DEF Init, PauseInv
<1>2. PauseInv => OneFrameAfterPause
  BY DEF PauseInv, OneFrameAfterPause
<1> QED BY <1>1, <1>2, PauseStep, PTL DEF Spec

-----------------------------------------------------------------------------
(* Pacing: the clock is compared with one frame at a time, and yet bounds how *)
(* far the sequence has come, because the frame that is fetched next follows  *)
(* the one slept for unless a new anchor is asked for.                        *)

InSequence ==
  /\ worker \in {"notifying", "pacing", "sleeping"} => frame >= 1
  /\ anchorSet => anchorTs >= 1 /\ played >= 1
  /\ (source = "recording" /\ ~needRepace /\ frame >= 1
        /\ worker \in {"fetched", "notifying", "pacing", "sleeping"})
       => cursor = frame + 1

\* What comes next in the sequence is not ahead of the clock.
NextIsDue ==
  (source = "recording" /\ anchorSet /\ ~needRepace) =>
    /\ (\/ worker \in {"top", "fetching", "ending", "pausing"}
        \/ worker = "fetched" /\ frame < 1)
         => (cursor = anchorTs + played => played <= elapsed + 1)
    /\ (worker = "fetched" /\ frame = anchorTs + played) => played <= elapsed + 1
    /\ (worker = "notifying" /\ frame = anchorTs + played - 1)
         => played <= elapsed + 2

PacingInv == InSequence /\ NextIsDue

\* Every step keeps the sequence and what of it is due.
LEMMA PacingStep == TypeOK /\ PacingInv /\ [Next]_vars => PacingInv'
<1> SUFFICES ASSUME TypeOK, PacingInv, [Next]_vars PROVE PacingInv'
  OBVIOUS
<1>t. /\ frame \in Int /\ anchorTs \in Int /\ elapsed \in Int /\ played \in Int
      /\ RecordingLength \in Nat /\ cursor \in 1..(RecordingLength + 1)
      /\ frame <= RecordingLength \/ frame = 1
  BY ProviderAssumption
     DEF TypeOK, Fetchable, NoColorImage, MaxPlayed, ProviderAssumption
<1> USE <1>t DEF PacingInv, InSequence, NextIsDue, sourceVars, flagVars, localVars,
        paceVars, tellVars
<1>1. CASE Open \/ \E o \in Observers : AddObserver(o) \/ RemoveObserver(o)
  BY <1>1 DEF Open, AddObserver, RemoveObserver
<1>2. CASE Play \/ Pause \/ Seek \/ SetUpdateSpeed \/ SetAutoRepeat
  BY <1>2 DEF Play, Pause, Seek, SetUpdateSpeed, SetAutoRepeat
<1>3. CASE CloseBegins \/ Join \/ CloseSource
  BY <1>3 DEF CloseBegins, Join, CloseSource
<1>4. CASE LoopHead
  BY <1>4 DEF LoopHead
<1>5. CASE FetchFromDevice \/ DeviceFails
  BY <1>5 DEF FetchFromDevice, DeviceFails
<1>6. CASE FetchFromRecording
  BY <1>6 DEF FetchFromRecording, PlayFrom
<1>7. CASE Dispatch
  BY <1>7 DEF Dispatch, Deliver, MaxPlayed, NoColorImage
<1>8. CASE \E o \in Observers : Notify(o) \/ NotifyEnd(o)
  BY <1>8 DEF Notify, NotifyEnd
<1>9. CASE Notified \/ EndNotified \/ PauseAtEnd
  BY <1>9 DEF Notified, EndNotified, PauseAtEnd
<1>10. CASE Pace
  BY <1>10 DEF Pace
<1>11. CASE SleepUntil
  BY <1>11 DEF SleepUntil
<1>12. CASE Tick
  BY <1>12 DEF Tick
<1>13. CASE UNCHANGED vars
  BY <1>13 DEF vars
<1> QED
  BY <1>1, <1>2, <1>3, <1>4, <1>5, <1>6, <1>7, <1>8, <1>9, <1>10, <1>11, <1>12,
     <1>13 DEF Next, Command, Closing, Worker

\* As long as no wrap and no seek breaks the sequence, no frame is delivered
\* more than one interval before its own time.
THEOREM PlaybackKeepsTime == Spec => []PlaysInRealTime
<1>1. Init => PacingInv
  BY DEF Init, PacingInv, InSequence, NextIsDue
<1>2. PacingInv => PlaysInRealTime
  BY DEF PacingInv, NextIsDue, PlaysInRealTime
<1> QED BY <1>1, <1>2, Typing, PacingStep, PTL DEF Spec

-----------------------------------------------------------------------------
(* The player that is modelled here is Playback, which RecordingPlayer is    *)
(* shown to implement: the two models meet in it.                            *)

Player == INSTANCE Playback WITH
             length <- IF source = "recording" THEN RecordingLength ELSE 0,
             repeat <- autoRepeat,
             cursor <- IF source = "recording" THEN cursor ELSE 1,
             shown  <- IF source = "recording" THEN frame ELSE 0

\* A source is opened only where there is none, and nothing is fetched without one.
SourceInv ==
  /\ owner = "idle" => source = "none"
  /\ worker = "fetching" => source # "none"
  /\ owner \in {"open", "joining", "joined"} => source # "none"
  /\ owner \in {"joined", "idle"} => worker \in {"none", "exited"}
  /\ owner = "gone" => worker = "terminated"

\* Every step keeps a source under those who use it.
LEMMA SourceStep == SourceInv /\ TypeOK /\ [Next]_vars => SourceInv'
<1> SUFFICES ASSUME SourceInv, TypeOK, [Next]_vars PROVE SourceInv'
  OBVIOUS
<1> USE ProviderAssumption DEF ProviderAssumption, SourceInv, TypeOK, OwnerStates,
        sourceVars, flagVars, localVars, paceVars, tellVars
<1>1. CASE Open
  BY <1>1 DEF Open
<1>2. CASE \E o \in Observers : AddObserver(o) \/ RemoveObserver(o)
  BY <1>2 DEF AddObserver, RemoveObserver
<1>3. CASE Play \/ Pause \/ Seek \/ SetUpdateSpeed \/ SetAutoRepeat \/ Tick
  BY <1>3 DEF Play, Pause, Seek, SetUpdateSpeed, SetAutoRepeat, Tick
<1>4. CASE CloseBegins \/ Join \/ CloseSource
  BY <1>4 DEF CloseBegins, Join, CloseSource
<1>5. CASE LoopHead
  BY <1>5 DEF LoopHead
<1>6. CASE FetchFromDevice \/ DeviceFails \/ FetchFromRecording
  BY <1>6 DEF FetchFromDevice, DeviceFails, FetchFromRecording
<1>7. CASE Dispatch
  BY <1>7 DEF Dispatch, Deliver
<1>8. CASE \E o \in Observers : Notify(o) \/ NotifyEnd(o)
  BY <1>8 DEF Notify, NotifyEnd
<1>9. CASE Notified \/ EndNotified \/ PauseAtEnd \/ Pace \/ SleepUntil
  BY <1>9 DEF Notified, EndNotified, PauseAtEnd, Pace, SleepUntil
<1>10. CASE UNCHANGED vars
  BY <1>10 DEF vars
<1> QED
  BY <1>1, <1>2, <1>3, <1>4, <1>5, <1>6, <1>7, <1>8, <1>9, <1>10
     DEF Next, Command, Closing, Worker

\* Every step of the provider is one of Playback's or leaves the player alone.
LEMMA ProviderRefines ==
  TypeOK /\ SourceInv /\ [Next]_vars => [Player!Next]_(Player!vars)
<1> SUFFICES ASSUME TypeOK, SourceInv, [Next]_vars
             PROVE  Player!Next \/ UNCHANGED Player!vars
  OBVIOUS
<1>t. /\ RecordingLength \in Nat /\ cursor \in 1..(RecordingLength + 1)
      /\ autoRepeat \in BOOLEAN
  BY ProviderAssumption, Zenon DEF ProviderAssumption, TypeOK, Flags
<1>u. ASSUME UNCHANGED <<sourceVars, frame>> PROVE UNCHANGED Player!vars
  BY <1>u DEF sourceVars, Player!vars
<1> USE DEF sourceVars, flagVars, localVars, paceVars, tellVars
<1>1. CASE Open
  <2>1. source = "none" /\ autoRepeat' \in BOOLEAN /\ cursor' = 1 /\ frame' = 0
    BY <1>1 DEF Open, SourceInv
  <2>2. CASE source' = "recording"
    BY <1>t, <2>1, <2>2 DEF Player!Next, Player!Load
  <2>3. CASE source' # "recording"
    BY <2>1, <2>3 DEF Player!Next, Player!SetRepeat
  <2> QED BY <2>2, <2>3
<1>2. CASE Seek
  BY <1>2, <1>t DEF Seek, Player!Next, Player!Seek
<1>3. CASE SetAutoRepeat
  BY <1>3 DEF SetAutoRepeat, Player!Next, Player!SetRepeat
<1>4. CASE CloseSource
  <2>1. source # "none" /\ source' = "none" /\ UNCHANGED autoRepeat
    BY <1>4 DEF CloseSource, SourceInv
  <2> QED BY <2>1 DEF Player!Next, Player!Unload
<1>5. CASE FetchFromRecording
  <2>1. /\ source = "recording" /\ UNCHANGED <<source, autoRepeat>>
        /\ \/ cursor <= RecordingLength /\ PlayFrom(cursor)
           \/ cursor > RecordingLength /\ ~autoRepeat /\ PlayFrom(cursor)
           \/ /\ cursor > RecordingLength /\ autoRepeat
              /\ \E c \in {1, RecordingLength + 1} : PlayFrom(c)
    BY <1>5 DEF FetchFromRecording
  <2>2. \A c : PlayFrom(c) => Player!PlayFrom(c)
    BY <2>1 DEF PlayFrom, Player!PlayFrom
  <2> QED BY <2>1, <2>2 DEF Player!Next, Player!Fetch
<1>6. CASE FetchFromDevice
  BY <1>6 DEF FetchFromDevice, Player!vars
<1>7. CASE \E o \in Observers : AddObserver(o) \/ RemoveObserver(o)
  BY <1>7, <1>u DEF AddObserver, RemoveObserver
<1>8. CASE Play \/ Pause \/ SetUpdateSpeed \/ CloseBegins \/ Join \/ Tick
  BY <1>8, <1>u DEF Play, Pause, SetUpdateSpeed, CloseBegins, Join, Tick
<1>9. CASE LoopHead \/ DeviceFails \/ Dispatch
  BY <1>9, <1>u DEF LoopHead, DeviceFails, Dispatch
<1>10. CASE \E o \in Observers : Notify(o) \/ NotifyEnd(o)
  BY <1>10, <1>u DEF Notify, NotifyEnd
<1>11. CASE Notified \/ EndNotified \/ PauseAtEnd \/ Pace \/ SleepUntil
  BY <1>11, <1>u DEF Notified, EndNotified, PauseAtEnd, Pace, SleepUntil
<1>12. CASE UNCHANGED vars
  BY <1>12, <1>u DEF vars
<1> QED
  BY <1>1, <1>2, <1>3, <1>4, <1>5, <1>6, <1>7, <1>8, <1>9, <1>10, <1>11, <1>12
     DEF Next, Command, Closing, Worker

\* The player that the provider's model plays keeps to Playback: what the polling
\* thread relies on is what RecordingPlayer implements.
THEOREM ProviderUsesPlayback == Spec => Player!Spec
<1>1. Init => Player!Init
  BY DEF Init, Player!Init
<1>2. Init => SourceInv
  BY DEF Init, SourceInv
<1> QED
  BY <1>1, <1>2, Typing, SourceStep, ProviderRefines, PTL DEF Spec, Player!Spec
=============================================================================
