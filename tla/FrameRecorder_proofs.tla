------------------------ MODULE FrameRecorder_proofs ------------------------
(***************************************************************************)
(* Theorems about FrameRecorder, for every queue depth and every bound:    *)
(* its variables are well typed, no frame escapes the accounting, the file *)
(* is written only while it is open, stop() drains what was queued, no     *)
(* wakeup is lost, and the file is in the order of the frames.             *)
(***************************************************************************)
EXTENDS FrameRecorder, SequenceTheorems, TLAPS

\* The queue has room for one frame at least, whatever depth was asked for.
LEMMA DepthPositive == QueueDepth \in Nat \ {0}
  BY RecorderAssumption DEF RecorderAssumption, QueueDepth

\* The facts about sequences of timestamps that the proofs use.
LEMMA TimestampSeq ==
  /\ <<>> \in Seq(Nat) /\ Len(<<>>) = 0
  /\ \A s \in Seq(Nat) : Len(s) \in Nat
  /\ \A s \in Seq(Nat) : s # <<>> =>
        /\ Head(s) \in Nat /\ Head(s) = s[1] /\ Len(s) > 0
        /\ Tail(s) \in Seq(Nat) /\ Len(Tail(s)) = Len(s) - 1
        /\ \A i \in 1..Len(Tail(s)) : Tail(s)[i] = s[i + 1]
  /\ \A s \in Seq(Nat), t \in Nat :
        /\ Append(s, t) \in Seq(Nat) /\ Len(Append(s, t)) = Len(s) + 1
        /\ \A i \in 1..Len(s) : Append(s, t)[i] = s[i]
        /\ Append(s, t)[Len(s) + 1] = t
<1>1. <<>> \in Seq(Nat) /\ Len(<<>>) = 0
  BY EmptySeq
<1>2. \A s \in Seq(Nat) : Len(s) \in Nat
  BY LenProperties
<1>3. ASSUME NEW s \in Seq(Nat), s # <<>>
      PROVE  /\ Head(s) \in Nat /\ Head(s) = s[1] /\ Len(s) > 0
             /\ Tail(s) \in Seq(Nat) /\ Len(Tail(s)) = Len(s) - 1
             /\ \A i \in 1..Len(Tail(s)) : Tail(s)[i] = s[i + 1]
  BY <1>3, HeadTailProperties, EmptySeq
<1>4. ASSUME NEW s \in Seq(Nat), NEW t \in Nat
      PROVE  /\ Append(s, t) \in Seq(Nat) /\ Len(Append(s, t)) = Len(s) + 1
             /\ \A i \in 1..Len(s) : Append(s, t)[i] = s[i]
             /\ Append(s, t)[Len(s) + 1] = t
  BY <1>4, AppendProperties
<1> QED
  BY <1>1, <1>2, <1>3, <1>4

\* The flags stay Booleans.
LEMMA FlagsStep ==
  ASSUME TypeOK, [Next]_vars
  PROVE  (Flags \subseteq BOOLEAN)'
<1> USE DEF TypeOK, Flags, queueVars, fileVars, statVars, vars
<1>1. CASE Start
  BY <1>1, Zenon DEF Start, OpenWriter, AddCameraStream
<1>2. CASE StopAccepting
  BY <1>2, Zenon DEF StopAccepting
<1>3. CASE OwnerStops
  BY <1>3, Zenon DEF OwnerStops, RequestStop, Join, CloseWriter
<1>4. CASE OwnerStats
  BY <1>4, Zenon DEF OwnerStats, StatsFirst, StatsLast, StatsHas
<1>5. CASE FrameArrives
  BY <1>5, Zenon DEF FrameArrives
<1>6. CASE Callback
  BY <1>6, Zenon DEF Callback, Push, Notify
<1>7. CASE Worker
  BY <1>7, Zenon DEF Worker, Take, Sleep, Exit, WriteFrame, WriteFails,
                     StampFirst, StampLast
<1>8. CASE SpuriousWakeup
  BY <1>8, Zenon DEF SpuriousWakeup
<1>9. CASE UNCHANGED vars
  BY <1>9, Zenon
<1> QED
  BY <1>1, <1>2, <1>3, <1>4, <1>5, <1>6, <1>7, <1>8, <1>9 DEF Next

\* The threads stay in their states.
LEMMA StatesStep ==
  ASSUME TypeOK, [Next]_vars
  PROVE  /\ worker' \in WorkerStates
         /\ callback' \in CallbackStates
         /\ owner' \in OwnerStates
<1> USE DEF TypeOK, WorkerStates, CallbackStates, OwnerStates, cbVars, vars
<1>1. worker' \in WorkerStates
  BY Zenon DEF Next, Start, StopAccepting, OwnerStops, RequestStop,
       Join, CloseWriter, OwnerStats, StatsFirst, StatsLast, StatsHas,
       FrameArrives, Callback, Push, Notify, Woken, Worker, Take, Sleep, Exit,
       WriteFrame, WriteFails, StampFirst, StampLast, SpuriousWakeup
<1>2. callback' \in CallbackStates
  BY Zenon DEF Next, Start, StopAccepting, OwnerStops, RequestStop,
       Join, CloseWriter, OwnerStats, StatsFirst, StatsLast, StatsHas,
       FrameArrives, Callback, Push, Notify, Woken, Worker, Take, Sleep, Exit,
       WriteFrame, WriteFails, StampFirst, StampLast, SpuriousWakeup
<1>3. owner' \in OwnerStates
  BY Zenon DEF Next, Start, StopAccepting, OwnerStops, RequestStop,
       Join, CloseWriter, OwnerStats, StatsFirst, StatsLast, StatsHas,
       FrameArrives, Callback, Push, Notify, Woken, Worker, Take, Sleep, Exit,
       WriteFrame, WriteFails, StampFirst, StampLast, SpuriousWakeup
<1> QED BY <1>1, <1>2, <1>3

\* The queue and the file stay sequences of timestamps.
LEMMA SequencesStep ==
  ASSUME TypeOK, [Next]_vars
  PROVE  queue' \in Seq(Nat) /\ file' \in Seq(Nat)
<1>0. queue \in Seq(Nat) /\ file \in Seq(Nat) /\ clock \in Nat /\ taking \in Nat
  BY DEF TypeOK, Counters
<1>1. \/ queue' = queue \/ queue' = <<>> \/ queue' = Append(queue, clock)
      \/ queue # <<>> /\ queue' = Tail(queue)
  BY Zenon DEF Next, Start, ResetQueue, StopAccepting, OwnerStops, RequestStop,
       Join, CloseWriter, OwnerStats, StatsFirst, StatsLast, StatsHas,
       FrameArrives, Callback, Push, Notify, Worker, Take, Sleep, Exit,
       WriteFrame, WriteFails, StampFirst, StampLast, SpuriousWakeup, queueVars, vars
<1>2. file' = file \/ file' = <<>> \/ file' = Append(file, taking)
  BY Zenon DEF Next, Start, OpenWriter, StopAccepting, OwnerStops, RequestStop,
       Join, CloseWriter, OwnerStats, StatsFirst, StatsLast, StatsHas,
       FrameArrives, Callback, Push, Notify, Worker, Take, Sleep, Exit,
       WriteFrame, WriteFails, StampFirst, StampLast, SpuriousWakeup, fileVars, vars
<1>3. queue' \in Seq(Nat)
  <2>1. CASE queue' = queue \/ queue' = <<>>
    BY <1>0, <2>1, EmptySeq, Zenon
  <2>2. CASE queue' = Append(queue, clock)
    BY <1>0, <2>2, TimestampSeq
  <2>3. CASE queue # <<>> /\ queue' = Tail(queue)
    BY ONLY <1>0, <2>3, TimestampSeq
  <2> QED BY <1>1, <2>1, <2>2, <2>3
<1>4. file' \in Seq(Nat)
  <2>1. CASE file' = file \/ file' = <<>>
    BY <1>0, <2>1, EmptySeq, Zenon
  <2>2. CASE file' = Append(file, taking)
    BY <1>0, <2>2, TimestampSeq
  <2> QED BY <1>2, <2>1, <2>2
<1> QED BY <1>3, <1>4

\* Counters only count up, or take another's value.
LEMMA CountersStep ==
  ASSUME TypeOK, [Next]_vars
  PROVE  (Counters \subseteq Nat)' /\ duration' \in Int
<1> USE DEF Counters, cbVars, queueVars, fileVars, statVars, readVars, vars
<1>0. Counters \subseteq Nat /\ duration \in Int
  BY Zenon DEF TypeOK
<1>n. /\ {0, clock + 1, framesDropped + 1, offered + 1, taken + 1, starts + 1,
           failed + 1, taken + Len(queue)} \subseteq Nat
      /\ readLast - readFirst \in Int /\ 0 \in Int
  <2>1. /\ clock \in Nat /\ framesDropped \in Nat /\ offered \in Nat /\ taken \in Nat
        /\ starts \in Nat /\ failed \in Nat /\ readFirst \in Nat /\ readLast \in Nat
    BY ONLY <1>0
  <2>2. Len(queue) \in Nat
    BY TimestampSeq, TypeOK, Zenon DEF TypeOK
  <2> QED BY ONLY <2>1, <2>2
<1>1. CASE Start
  <2>1. Counters' \subseteq Counters \cup {0, starts + 1} /\ duration' = duration
    BY <1>1, Zenon DEF Start, OpenWriter, AddCameraStream, ResetQueue
  <2> QED BY <1>0, <1>n, <2>1, Zenon
<1>2. CASE StopAccepting
  <2>1. Counters' \subseteq Counters \cup {taken + Len(queue)} /\ duration' = duration
    BY <1>2, Zenon DEF StopAccepting
  <2> QED BY <1>0, <1>n, <2>1, Zenon
<1>3. CASE OwnerStops \/ Sleep \/ Exit \/ SpuriousWakeup \/ Notify \/ UNCHANGED vars
  <2>1. Counters' \subseteq Counters /\ duration' = duration
    BY <1>3, Zenon DEF OwnerStops, RequestStop, Join, CloseWriter, Sleep, Exit,
       SpuriousWakeup, Notify
  <2> QED BY <1>0, <2>1, Zenon
<1>4. CASE OwnerStats
  <2>1. /\ Counters' \subseteq Counters
        /\ duration' = duration \/ duration' = readLast - readFirst \/ duration' = 0
    BY <1>4, Zenon DEF OwnerStats, StatsFirst, StatsLast, StatsHas
  <2> QED BY <1>0, <1>n, <2>1, Zenon
<1>5. CASE FrameArrives
  <2>1. Counters' \subseteq Counters \cup {clock + 1} /\ duration' = duration
    BY <1>5, Zenon DEF FrameArrives
  <2> QED BY <1>0, <1>n, <2>1, Zenon
<1>6. CASE Push
  <2>1. /\ Counters' \subseteq Counters \cup {offered + 1, framesDropped + 1}
        /\ duration' = duration
    BY <1>6, Zenon DEF Push
  <2> QED BY <1>0, <1>n, <2>1, Zenon
<1>7. CASE Take
  <2>1. taking' \in Nat
    BY <1>7, TimestampSeq DEF Take, TypeOK
  <2>2. Counters' \subseteq Counters \cup {taking', taken + 1} /\ duration' = duration
    BY <1>7, Zenon DEF Take
  <2> QED BY <1>0, <1>n, <2>1, <2>2, Zenon
<1>8. CASE WriteFrame \/ WriteFails \/ StampFirst \/ StampLast
  <2>1. Counters' \subseteq Counters \cup {failed + 1} /\ duration' = duration
    BY <1>8, Zenon DEF WriteFrame, WriteFails, CalibrationAfter, StampFirst, StampLast
  <2> QED BY <1>0, <1>n, <2>1, Zenon
<1> QED
  BY <1>1, <1>2, <1>3, <1>4, <1>5, <1>6, <1>7, <1>8, Zenon DEF Next, Callback, Worker

\* Every variable keeps its type.
THEOREM Typing == Spec => []TypeOK
<1>1. Init => TypeOK
  <2> SUFFICES ASSUME Init PROVE TypeOK
    OBVIOUS
  <2>1. Flags \subseteq BOOLEAN /\ Counters \subseteq Nat
    <3>1. Flags \subseteq BOOLEAN
      BY Zenon DEF Init, Flags
    <3>2. Counters = {0}
      BY Zenon DEF Init, Counters
    <3> QED BY <3>1, <3>2
  <2>2. /\ worker \in WorkerStates /\ callback \in CallbackStates
        /\ owner \in OwnerStates
    BY Zenon DEF Init, WorkerStates, CallbackStates, OwnerStates
  <2> QED BY <2>1, <2>2, TimestampSeq DEF Init, TypeOK
<1>2. TypeOK /\ [Next]_vars => TypeOK'
  BY FlagsStep, StatesStep, SequencesStep, CountersStep, Zenon DEF TypeOK
<1> QED
  BY <1>1, <1>2, PTL DEF Spec

-----------------------------------------------------------------------------
(* The inductive invariant of stop(): what the owner may rely on at each of *)
(* its steps, whatever the other two threads do meanwhile.                  *)

Stopping == owner \in {"stopping", "joining", "closing"}

OwnerHolds ==
    /\ isStarted => ~Stopping
    /\ isStarted \/ Stopping \/ worker # "none" => writerOpen
    /\ worker = "exited" => owner = "joining"
    /\ worker # "none" /\ stopRequested => owner = "joining"
    /\ owner = "closing" => worker = "none"
    /\ ~isStarted /\ ~Stopping => worker = "none" /\ ~writerOpen

DueHolds ==
    /\ owner \in {"stopping", "joining"} => due <= taken + Len(queue)
    /\ worker = "exited" \/ owner = "closing" \/ (~isStarted /\ ~Stopping)
          => due <= taken

StopInv == OwnerHolds /\ DueHolds /\ NoLostWakeup

\* No stop() is under way in the initial state.
LEMMA StopInitially == Init => StopInv
  BY TimestampSeq DEF Init, StopInv, OwnerHolds, DueHolds, NoLostWakeup, Stopping

\* Every step of the three threads keeps what stop() relies on.
LEMMA StopStep == TypeOK /\ StopInv /\ [Next]_vars => StopInv'
<1> SUFFICES ASSUME TypeOK, StopInv, [Next]_vars PROVE StopInv'
  OBVIOUS
<1> USE DEF StopInv, OwnerHolds, DueHolds, NoLostWakeup, Stopping, cbVars,
            queueVars, fileVars, WorkerStates, OwnerStates
<1>0. /\ queue \in Seq(Nat) /\ Len(queue) \in Nat
      /\ taken \in Nat /\ due \in Nat /\ clock \in Nat
      /\ worker \in WorkerStates /\ owner \in OwnerStates
  BY TimestampSeq DEF TypeOK, Counters
<1>1. CASE Start
  BY <1>0, <1>1 DEF Start, OpenWriter, AddCameraStream, ResetQueue
<1>2. CASE StopAccepting
  BY <1>0, <1>2 DEF StopAccepting
<1>3. CASE RequestStop
  BY <1>0, <1>3 DEF RequestStop, Woken
<1>4. CASE Join
  BY <1>0, <1>4 DEF Join
<1>5. CASE CloseWriter
  BY <1>0, <1>5 DEF CloseWriter
<1>6. CASE OwnerStats
  BY <1>0, <1>6 DEF OwnerStats, StatsFirst, StatsLast, StatsHas
<1>7. CASE FrameArrives
  BY <1>0, <1>7 DEF FrameArrives
<1>8. CASE Push
  <2>1. \/ queue' = queue /\ callback' = "idle" /\ Len(queue) >= QueueDepth
        \/ queue' = Append(queue, clock) /\ callback' = "notifying"
    BY <1>8, Zenon DEF Push
  <2>2. Len(queue') \in Nat /\ Len(queue') >= Len(queue)
    BY ONLY <1>0, <2>1, TimestampSeq
  <2>3. UNCHANGED <<isStarted, taken, stopRequested, worker, owner, writerOpen, due>>
    BY <1>8 DEF Push
  <2>4. OwnerHolds' /\ DueHolds'
    BY <1>0, <2>2, <2>3
  <2>5. NoLostWakeup'
    BY <1>8, <2>1, <2>3 DEF Push
  <2> QED BY <2>4, <2>5
<1>9. CASE Notify
  BY <1>0, <1>9 DEF Notify, Woken
<1>10. CASE Take
  <2>1. taken' + Len(queue') = taken + Len(queue) /\ taken' >= taken
    BY <1>0, <1>10, TimestampSeq DEF Take
  <2>2. /\ worker = "testing" /\ worker' = "writing" /\ taken' \in Nat
        /\ UNCHANGED <<isStarted, stopRequested, owner, writerOpen, due, callback>>
    BY <1>0, <1>10 DEF Take
  <2> QED BY <1>0, <2>1, <2>2
<1>11. CASE Sleep
  BY <1>0, <1>11 DEF Sleep
<1>12. CASE Exit
  BY <1>0, <1>12, TimestampSeq DEF Exit
<1>13. CASE WriteFrame \/ WriteFails
  BY <1>0, <1>13 DEF WriteFrame, WriteFails
<1>14. CASE StampFirst \/ StampLast
  BY <1>0, <1>14 DEF StampFirst, StampLast
<1>15. CASE SpuriousWakeup
  BY <1>0, <1>15 DEF SpuriousWakeup
<1>16. CASE UNCHANGED vars
  BY <1>0, <1>16 DEF vars
<1> QED
  BY <1>1, <1>2, <1>3, <1>4, <1>5, <1>6, <1>7, <1>8, <1>9, <1>10, <1>11, <1>12,
     <1>13, <1>14, <1>15, <1>16 DEF Next, OwnerStops, Callback, Worker

\* What stop() relies on holds throughout: the owner joins before it finalizes,
\* the worker drains before it leaves, and a stop request wakes the worker.
THEOREM Stops == Spec => []StopInv
  BY Typing, StopInitially, StopStep, PTL DEF Spec

\* The file is written only while it is open: no write races the finalization.
THEOREM WritesOnlyWhenOpen == Spec => []WritesOnlyOpenFile
<1>1. StopInv => WritesOnlyOpenFile
  BY DEF StopInv, OwnerHolds, WritesOnlyOpenFile, Writing
<1> QED BY <1>1, Stops, PTL

\* Once stop() has returned, every frame queued before it is written or lost.
THEOREM StopDrainsQueue == Spec => []StopDrains
<1>1. TypeOK /\ StopInv => StopDrains
  BY DEF TypeOK, StopInv, OwnerHolds, DueHolds, StopDrains, Writing, Stopping
<1> QED BY <1>1, Typing, Stops, PTL

\* No wakeup is lost between a push and the worker's wait.
THEOREM WakeupsArrive == Spec => []NoLostWakeup
<1>1. StopInv => NoLostWakeup
  BY DEF StopInv
<1> QED BY <1>1, Stops, PTL

-----------------------------------------------------------------------------
\* Every frame that reached the queue is dropped, queued, in flight, written or
\* failed, and the queue stays within its depth.
LEMMA AccountingStep == TypeOK /\ FramesAccounted /\ [Next]_vars
                          => FramesAccounted'
<1> SUFFICES ASSUME TypeOK, FramesAccounted, [Next]_vars PROVE FramesAccounted'
  OBVIOUS
<1> USE DEF FramesAccounted, InFlight, cbVars, queueVars, fileVars
<1>0. /\ queue \in Seq(Nat) /\ Len(queue) \in Nat
      /\ file \in Seq(Nat) /\ Len(file) \in Nat
      /\ taken \in Nat /\ offered \in Nat /\ framesDropped \in Nat
      /\ failed \in Nat /\ clock \in Nat /\ taking \in Nat
      /\ QueueDepth \in Nat \ {0}
  BY TimestampSeq, DepthPositive DEF TypeOK, Counters
<1>1. CASE Start
  <2>1. /\ Len(queue') = 0 /\ Len(file') = 0 /\ worker' = "testing"
        /\ offered' = 0 /\ framesDropped' = 0 /\ taken' = 0 /\ failed' = 0
    BY <1>1, TimestampSeq DEF Start, OpenWriter, AddCameraStream, ResetQueue
  <2> QED BY <1>0, <2>1
<1>2. CASE Push
  <2>0. /\ offered' = offered + 1
        /\ taken' = taken /\ worker' = worker /\ file' = file /\ failed' = failed
    BY <1>2 DEF Push
  <2>1. /\ \/ queue' = queue /\ framesDropped' = framesDropped + 1
           \/ /\ queue' = Append(queue, clock) /\ framesDropped' = framesDropped
              /\ Len(queue) < QueueDepth
    BY <1>2 DEF Push
  <2>2. CASE queue' = queue /\ framesDropped' = framesDropped + 1
    BY <1>0, <2>0, <2>2
  <2>3. CASE /\ queue' = Append(queue, clock) /\ framesDropped' = framesDropped
             /\ Len(queue) < QueueDepth
    <3>1. Len(queue') = Len(queue) + 1
      BY <1>0, <2>3, TimestampSeq
    <3> QED BY <1>0, <2>0, <2>3, <3>1
  <2> QED BY <2>1, <2>2, <2>3
<1>3. CASE Take
  <2>1. /\ queue # <<>> /\ queue' = Tail(queue) /\ taken' = taken + 1
        /\ worker = "testing" /\ worker' = "writing"
        /\ UNCHANGED <<offered, framesDropped, file, failed>>
    BY <1>3 DEF Take
  <2>2. Len(queue') = Len(queue) - 1
    BY <1>0, <2>1, TimestampSeq
  <2> QED BY <1>0, <2>1, <2>2
<1>4. CASE WriteFrame
  <2>1. /\ worker = "writing" /\ worker' = "stampFirst"
        /\ file' = Append(file, taking)
        /\ UNCHANGED <<queue, offered, framesDropped, taken, failed>>
    BY <1>4 DEF WriteFrame
  <2>2. Len(file') = Len(file) + 1
    BY <1>0, <2>1, TimestampSeq
  <2> QED BY <1>0, <2>1, <2>2
<1>5. CASE WriteFails
  BY <1>0, <1>5 DEF WriteFails
<1>6. CASE RequestStop \/ Notify
  BY <1>0, <1>6 DEF RequestStop, Notify, Woken
<1>7. CASE StopAccepting \/ CloseWriter \/ OwnerStats \/ FrameArrives
  BY <1>0, <1>7 DEF StopAccepting, CloseWriter, OwnerStats, StatsFirst, StatsLast,
                    StatsHas, FrameArrives
<1>8. CASE Join \/ Sleep \/ Exit \/ SpuriousWakeup
  BY <1>0, <1>8 DEF Join, Sleep, Exit, SpuriousWakeup
<1>9. CASE StampFirst \/ StampLast
  BY <1>0, <1>9 DEF StampFirst, StampLast
<1>10. CASE UNCHANGED vars
  BY <1>0, <1>10 DEF vars
<1> QED
  BY <1>1, <1>2, <1>3, <1>4, <1>5, <1>6, <1>7, <1>8, <1>9, <1>10
     DEF Next, OwnerStops, Callback, Worker

\* Frames are accounted for in every reachable state.
THEOREM Accounting == Spec => []FramesAccounted
<1>1. Init => FramesAccounted
  BY TimestampSeq, DepthPositive DEF Init, FramesAccounted, InFlight
<1> QED BY <1>1, AccountingStep, Typing, PTL DEF Spec

-----------------------------------------------------------------------------
(* Timestamps: the frame in the callback is younger than everything queued,  *)
(* what is queued is younger than what the worker took, and that is younger  *)
(* than what is in the file.                                                 *)

QueueOrder ==
    /\ clock <= MaxFrames /\ taking <= clock
    /\ \A i \in 1..Len(queue) : taking < queue[i] /\ queue[i] <= clock
    /\ \A i, j \in 1..Len(queue) : i < j => queue[i] < queue[j]
    /\ callback = "checked" =>
          taking < clock /\ \A i \in 1..Len(queue) : queue[i] < clock

FileOrder ==
    /\ worker = "writing" => taking >= 1
    /\ \A i \in 1..Len(file) :
          /\ 1 <= file[i] /\ file[i] <= taking
          /\ worker = "writing" => file[i] < taking
    /\ \A i, j \in 1..Len(file) : i < j => file[i] < file[j]
    /\ calibration <= taking
    /\ CalibrationFirst

OrderInv == QueueOrder /\ FileOrder

\* Every step keeps the queue in the order of the frames.
LEMMA QueueOrderStep == TypeOK /\ QueueOrder /\ [Next]_vars => QueueOrder'
<1> SUFFICES ASSUME TypeOK, QueueOrder, [Next]_vars PROVE QueueOrder'
  OBVIOUS
<1> USE DEF QueueOrder, cbVars, queueVars
<1>0. /\ queue \in Seq(Nat) /\ Len(queue) \in Nat
      /\ clock \in Nat /\ taking \in Nat /\ MaxFrames \in Nat
      /\ \A i \in 1..Len(queue) : queue[i] \in Nat
  BY TimestampSeq, ElementOfSeq, RecorderAssumption DEF TypeOK, Counters, RecorderAssumption
<1>1. CASE Start
  <2>1. Len(queue') = 0
    BY <1>1, TimestampSeq DEF Start, ResetQueue
  <2>2. UNCHANGED <<clock, taking, callback>>
    BY <1>1 DEF Start
  <2> QED BY <1>0, <2>1, <2>2
<1>2. CASE FrameArrives
  <2>1. clock' = clock + 1 /\ clock < MaxFrames /\ UNCHANGED <<queue, taking>>
    BY <1>2 DEF FrameArrives
  <2> QED BY <1>0, <2>1
<1>3. CASE Push
  <2>1. /\ callback = "checked" /\ callback' # "checked" /\ UNCHANGED <<clock, taking>>
        /\ queue' = queue \/ queue' = Append(queue, clock)
    BY <1>3 DEF Push
  <2>2. CASE queue' = queue
    BY <1>0, <2>1, <2>2
  <2>3. CASE queue' = Append(queue, clock)
    <3>1. /\ Len(queue') = Len(queue) + 1
          /\ \A i \in 1..Len(queue) : queue'[i] = queue[i]
          /\ queue'[Len(queue) + 1] = clock
      BY <1>0, <2>3, TimestampSeq
    <3>2. \A i \in 1..Len(queue') :
             /\ queue'[i] \in Nat /\ taking < queue'[i] /\ queue'[i] <= clock
             /\ i <= Len(queue) => queue'[i] < clock
      BY <1>0, <2>1, <3>1
    <3>3. ASSUME NEW i \in 1..Len(queue'), NEW j \in 1..Len(queue'), i < j
          PROVE  queue'[i] < queue'[j]
      <4>1. i \in 1..Len(queue) /\ queue'[i] = queue[i]
        BY <1>0, <3>1, <3>3
      <4>2. CASE j = Len(queue) + 1
        BY <1>0, <2>1, <3>1, <3>2, <4>1, <4>2
      <4>3. CASE j \in 1..Len(queue)
        BY <1>0, <3>1, <3>3, <4>1, <4>3
      <4> QED BY <1>0, <3>1, <4>2, <4>3
    <3> QED BY <1>0, <2>1, <3>2, <3>3
  <2> QED BY <2>1, <2>2, <2>3
<1>4. CASE Take
  <2>1. /\ queue # <<>> /\ taking' = Head(queue) /\ queue' = Tail(queue)
        /\ UNCHANGED <<clock, callback>>
    BY <1>4 DEF Take
  <2>2. /\ taking' = queue[1] /\ Len(queue) > 0 /\ Len(queue') = Len(queue) - 1
        /\ \A i \in 1..Len(queue') : queue'[i] = queue[i + 1]
    BY <1>0, <2>1, TimestampSeq
  <2> QED BY <1>0, <2>1, <2>2
<1>5. CASE Notify \/ StopAccepting \/ OwnerStops \/ OwnerStats \/ Sleep
           \/ SpuriousWakeup \/ Exit \/ UNCHANGED vars
  <2>1. UNCHANGED <<queue, clock, taking>> /\ callback' \in {callback, "idle"}
    BY <1>5 DEF Notify, StopAccepting, OwnerStops, RequestStop, Join, CloseWriter,
       OwnerStats, StatsFirst, StatsLast, StatsHas, Sleep, SpuriousWakeup, Exit, vars
  <2> QED BY <1>0, <2>1
<1>6. CASE WriteFrame \/ WriteFails \/ StampFirst \/ StampLast
  <2>1. UNCHANGED <<queue, clock, taking, callback>>
    BY <1>6 DEF WriteFrame, WriteFails, StampFirst, StampLast
  <2> QED BY <1>0, <2>1
<1> QED
  BY <1>1, <1>2, <1>3, <1>4, <1>5, <1>6 DEF Next, Callback, Worker

\* Every step keeps the file in the order of the frames, before the queue.
LEMMA FileOrderStep == TypeOK /\ OrderInv /\ [Next]_vars => FileOrder'
<1> SUFFICES ASSUME TypeOK, OrderInv, [Next]_vars PROVE FileOrder'
  OBVIOUS
<1> USE DEF OrderInv, FileOrder, CalibrationFirst, cbVars, fileVars
<1>0. /\ queue \in Seq(Nat) /\ file \in Seq(Nat) /\ Len(file) \in Nat
      /\ taking \in Nat /\ calibration \in Nat
      /\ \A i \in 1..Len(file) : file[i] \in Nat
      /\ file # <<>> => Len(file) > 0
      /\ file = <<>> => Len(file) = 0
  BY TimestampSeq, ElementOfSeq DEF TypeOK, Counters
<1>1. CASE Start
  <2>1. /\ file' = <<>> /\ Len(file') = 0 /\ taking' = taking
        /\ worker' = "testing" /\ calibration' = 0
    BY <1>1, TimestampSeq DEF Start, OpenWriter, AddCameraStream
  <2> QED BY <1>0, <2>1
<1>2. CASE Take
  <2>1. /\ queue # <<>> /\ taking' = Head(queue)
        /\ UNCHANGED <<file, calibration>>
    BY <1>2 DEF Take
  <2>2. taking' \in Nat /\ taking < taking'
    BY <1>0, <2>1, TimestampSeq DEF QueueOrder
  <2> QED BY <1>0, <2>1, <2>2
<1>3. CASE WriteFrame
  <2>1. /\ worker = "writing" /\ worker' = "stampFirst" /\ taking' = taking
        /\ file' = Append(file, taking)
        /\ calibration' = IF calibration = 0 THEN taking ELSE calibration
    BY <1>3 DEF WriteFrame, CalibrationAfter
  <2>2. /\ Len(file') = Len(file) + 1
        /\ \A i \in 1..Len(file) : file'[i] = file[i]
        /\ file'[Len(file) + 1] = taking
    BY <1>0, <2>1, TimestampSeq
  <2>3. /\ \A i \in 1..Len(file') : 1 <= file'[i] /\ file'[i] <= taking
        /\ \A i, j \in 1..Len(file') : i < j => file'[i] < file'[j]
    BY <1>0, <2>1, <2>2
  <2>4. calibration' \in 1..taking /\ calibration' \in 1..file'[1]
    <3>1. CASE file = <<>>
      BY <1>0, <2>1, <2>2, <3>1
    <3>2. CASE file # <<>>
      <4>1. 1 \in 1..Len(file)
        BY ONLY <1>0, <3>2
      <4>2. file'[1] = file[1] /\ file[1] <= taking /\ file[1] \in Nat
        BY <1>0, <2>2, <4>1, Zenon
      <4>3. calibration \in 1..file[1]
        BY <3>2, Zenon
      <4>4. calibration' = calibration
        BY ONLY <2>1, <4>2, <4>3
      <4> QED BY ONLY <1>0, <4>2, <4>3, <4>4
    <3> QED BY <3>1, <3>2
  <2> QED BY ONLY <1>0, <2>1, <2>3, <2>4 DEF FileOrder, CalibrationFirst
<1>4. CASE WriteFails
  <2>1. /\ worker = "writing" /\ worker' = "testing" /\ UNCHANGED <<file, taking>>
        /\ calibration' \in {calibration, IF calibration = 0 THEN taking
                                                             ELSE calibration}
    BY <1>4 DEF WriteFails, CalibrationAfter
  <2> QED BY <1>0, <2>1
<1>5. CASE FrameArrives \/ Callback \/ StopAccepting \/ OwnerStops \/ OwnerStats
           \/ Sleep \/ SpuriousWakeup \/ Exit \/ StampFirst \/ StampLast
           \/ UNCHANGED vars
  <2>1. /\ UNCHANGED <<file, taking, calibration>>
        /\ worker' = "writing" => worker = "writing"
    BY <1>5 DEF FrameArrives, Callback, Push, Notify, StopAccepting, OwnerStops,
       RequestStop, Join, CloseWriter, Woken, OwnerStats, StatsFirst, StatsLast,
       StatsHas, Sleep, SpuriousWakeup, Exit, StampFirst, StampLast, vars
  <2> QED BY <1>0, <2>1
<1> QED
  BY <1>1, <1>2, <1>3, <1>4, <1>5 DEF Next, Worker

\* Timestamps increase along the file, the frame in flight and the queue.
THEOREM Order == Spec => []OrderInv
<1>1. Init => OrderInv
  BY TimestampSeq, RecorderAssumption DEF Init, OrderInv, QueueOrder, FileOrder,
     CalibrationFirst, RecorderAssumption
<1>2. TypeOK /\ OrderInv /\ [Next]_vars => OrderInv'
  BY QueueOrderStep, FileOrderStep DEF OrderInv
<1> QED BY <1>1, <1>2, Typing, PTL DEF Spec

\* A file with frames has its calibration, stamped no later than the first frame.
THEOREM CalibrationLeads == Spec => []CalibrationFirst
<1>1. OrderInv => CalibrationFirst
  BY DEF OrderInv, FileOrder
<1> QED BY <1>1, Order, PTL

-----------------------------------------------------------------------------
(* The recorder implements the recording it promises.                        *)

\* A frame in flight in front of the queue.
LEMMA InFront ==
  ASSUME NEW s \in Seq(Nat), NEW t \in Nat
  PROVE  /\ <<t>> \o s \in Seq(Nat) /\ <<t>> \o s # <<>>
         /\ Len(<<t>> \o s) = Len(s) + 1
         /\ (<<t>> \o s)[1] = t
         /\ \A i \in 1..Len(s) : (<<t>> \o s)[i + 1] = s[i]
         /\ Head(<<t>> \o s) = t
         /\ Tail(<<t>> \o s) = s
<1>1. <<t>> \in Seq(Nat) /\ Len(<<t>>) = 1 /\ <<t>>[1] = t
  OBVIOUS
<1>2. /\ <<t>> \o s \in Seq(Nat)
      /\ Len(<<t>> \o s) = Len(s) + 1
      /\ (<<t>> \o s)[1] = t
      /\ \A i \in 1..Len(s) : (<<t>> \o s)[i + 1] = s[i]
  BY <1>1, ConcatProperties, LenProperties
<1>3. <<t>> \o s # <<>>
  BY <1>2, TimestampSeq
<1>4. Head(<<t>> \o s) = t
  BY <1>2, <1>3, TimestampSeq
<1>5. Tail(<<t>> \o s) = s
  <2>1. /\ Tail(<<t>> \o s) \in Seq(Nat) /\ Len(Tail(<<t>> \o s)) = Len(s)
        /\ \A i \in 1..Len(s) : Tail(<<t>> \o s)[i] = s[i]
    BY <1>2, <1>3, TimestampSeq
  <2> QED BY <2>1, SeqEqual
<1> QED BY <1>2, <1>3, <1>4, <1>5

\* Queueing behind the frame in flight.
LEMMA InFrontAppend ==
  ASSUME NEW s \in Seq(Nat), NEW t \in Nat, NEW u \in Nat
  PROVE  <<t>> \o Append(s, u) = Append(<<t>> \o s, u)
<1>1. <<u>> \in Seq(Nat) /\ <<t>> \in Seq(Nat)
  OBVIOUS
<1>2. Append(s, u) = s \o <<u>>
  BY AppendIsConcat
<1>3. <<t>> \o s \in Seq(Nat)
  BY InFront, Zenon
<1>4. Append(<<t>> \o s, u) = (<<t>> \o s) \o <<u>>
  BY <1>3, AppendIsConcat
<1>5. (<<t>> \o s) \o <<u>> = <<t>> \o (s \o <<u>>)
  BY <1>1, ConcatAssociative
<1> QED BY <1>2, <1>4, <1>5, Zenon

\* Taking the head of a queue into flight leaves the backlog as it is.
LEMMA InFrontHead ==
  ASSUME NEW s \in Seq(Nat), s # <<>>
  PROVE  <<Head(s)>> \o Tail(s) = s
<1>1. /\ Head(s) \in Nat /\ Tail(s) \in Seq(Nat)
      /\ Head(s) = s[1] /\ Len(Tail(s)) = Len(s) - 1 /\ Len(s) \in Nat /\ Len(s) > 0
      /\ \A i \in 1..Len(Tail(s)) : Tail(s)[i] = s[i + 1]
  BY TimestampSeq
<1> DEFINE r == <<Head(s)>> \o Tail(s)
<1>2. /\ r \in Seq(Nat) /\ Len(r) = Len(s) /\ r[1] = s[1]
      /\ \A i \in 1..Len(Tail(s)) : r[i + 1] = Tail(s)[i]
  BY <1>1, InFront
<1>3. ASSUME NEW i \in 1..Len(s) PROVE r[i] = s[i]
  <2>1. CASE i = 1
    BY <1>2, <2>1
  <2>2. CASE i # 1
    <3>1. i - 1 \in 1..Len(Tail(s)) /\ (i - 1) + 1 = i
      BY <1>1, <2>2
    <3> QED BY <1>1, <1>2, <3>1
  <2> QED BY <2>1, <2>2
<1> HIDE DEF r
<1>4. r = s
  BY <1>2, <1>3, SeqEqual
<1> QED BY <1>4 DEF r

\* Every step of the recorder is a step of LossyRecording or leaves it alone.
LEMMA Simulation ==
  TypeOK /\ StopInv /\ OrderInv /\ FramesAccounted /\ [Next]_vars
    => [Promise!Next]_(Promise!vars)
<1> SUFFICES ASSUME TypeOK, StopInv, OrderInv, FramesAccounted, [Next]_vars
             PROVE  [Promise!Next]_(Promise!vars)
  OBVIOUS
<1> USE DEF cbVars, queueVars, fileVars, Promise!vars
<1>0. /\ queue \in Seq(Nat) /\ Len(queue) \in Nat
      /\ file \in Seq(Nat) /\ Len(file) \in Nat
      /\ clock \in Nat /\ taking \in Nat /\ QueueDepth \in Nat
  BY TimestampSeq, DepthPositive DEF TypeOK, Counters
<1>1. CASE Start
  <2>1. /\ ~writerOpen /\ writerOpen' = TRUE /\ queue' = <<>> /\ file' = <<>>
        /\ worker' = "testing"
    BY <1>1 DEF Start, OpenWriter, AddCameraStream, ResetQueue, StopInv, OwnerHolds, Stopping
  <2>2. Backlog' = <<>>
    BY <2>1 DEF Backlog
  <2> QED BY <2>1, <2>2 DEF Promise!Next, Promise!Begin
<1>2. CASE Push
  <2>1. callback = "checked" /\ UNCHANGED <<worker, taking, writerOpen, file>>
    BY <1>2 DEF Push
  <2>2. CASE queue' = queue
    <3>1. Backlog' = Backlog
      BY <2>1, <2>2 DEF Backlog
    <3> QED BY <2>1, <3>1
  <2>3. CASE queue' = Append(queue, clock) /\ Len(queue) < QueueDepth
    <3>1. Backlog' = Append(Backlog, clock)
      BY <1>0, <2>1, <2>3, InFrontAppend DEF Backlog
    <3>2. Len(Backlog) < QueueDepth + 1
      BY <1>0, <2>3, InFront DEF Backlog
    <3>3. /\ taking < clock /\ clock <= MaxFrames /\ clock \in 1..MaxFrames
          /\ \A i \in 1..Len(queue) : queue[i] < clock
          /\ \A i \in 1..Len(file) : file[i] < clock
      <4>1. \A i \in 1..Len(file) : file[i] \in Nat /\ file[i] <= taking
        BY <1>0, ElementOfSeq DEF OrderInv, FileOrder
      <4> QED BY <1>0, <2>1, <4>1, RecorderAssumption
                 DEF OrderInv, QueueOrder, RecorderAssumption
    <3>4. Promise!Younger(clock, file)
      BY <1>0, <3>3, LenProperties DEF Promise!Younger
    <3>5. Promise!Younger(clock, Backlog)
      <4>1. CASE worker # "writing"
        BY <1>0, <3>3, <4>1, LenProperties DEF Promise!Younger, Backlog
      <4>2. CASE worker = "writing"
        <5>1. Backlog = <<taking>> \o queue
          BY <4>2 DEF Backlog
        <5>2. /\ DOMAIN Backlog = 1..Len(queue) + 1 /\ Backlog[1] = taking
              /\ \A i \in 1..Len(queue) : Backlog[i + 1] = queue[i]
          BY <1>0, <5>1, InFront, LenProperties
        <5>3. ASSUME NEW i \in DOMAIN Backlog PROVE Backlog[i] < clock
          <6>1. CASE i = 1
            BY <3>3, <5>2, <6>1
          <6>2. CASE i # 1
            <7>1. i - 1 \in 1..Len(queue) /\ (i - 1) + 1 = i
              BY <1>0, <5>2, <6>2
            <7> QED BY <3>3, <5>2, <7>1
          <6> QED BY <6>1, <6>2
        <5> QED BY <5>3 DEF Promise!Younger
      <4> QED BY <4>1, <4>2
    <3> QED BY <2>1, <3>1, <3>2, <3>3, <3>4, <3>5 DEF Promise!Next, Promise!Accept
  <2> QED BY <1>2, <2>2, <2>3 DEF Push
<1>3. CASE Take
  <2>1. /\ queue # <<>> /\ worker = "testing" /\ worker' = "writing"
        /\ taking' = Head(queue) /\ queue' = Tail(queue)
        /\ UNCHANGED <<writerOpen, file>>
    BY <1>3 DEF Take
  <2>2. Backlog' = Backlog
    BY <1>0, <2>1, InFrontHead DEF Backlog
  <2> QED BY <2>1, <2>2
<1>4. CASE WriteFrame \/ WriteFails
  <2>1. /\ worker = "writing" /\ worker' # "writing"
        /\ queue' = queue /\ writerOpen' = writerOpen /\ writerOpen
        /\ file' = Append(file, taking) \/ file' = file
    BY <1>4 DEF WriteFrame, WriteFails, StopInv, OwnerHolds
  <2>2. Backlog # <<>> /\ Head(Backlog) = taking /\ Backlog' = Tail(Backlog)
    BY <1>0, <2>1, InFront DEF Backlog
  <2> QED BY <2>1, <2>2 DEF Promise!Next, Promise!LogOldest, Promise!LoseOldest
<1>5. CASE CloseWriter
  <2>1. /\ writerOpen /\ writerOpen' = FALSE
        /\ UNCHANGED <<queue, worker, taking, file>>
    BY <1>5, Zenon DEF CloseWriter, StopInv, OwnerHolds, Stopping
  <2>2. Backlog' = Backlog
    BY <2>1 DEF Backlog
  <2> QED BY <2>1, <2>2 DEF Promise!Next, Promise!Finish
<1>6. CASE StopAccepting \/ RequestStop \/ Join \/ OwnerStats \/ FrameArrives
           \/ Notify \/ Sleep \/ Exit \/ SpuriousWakeup \/ StampFirst
           \/ StampLast \/ UNCHANGED vars
  <2>1. /\ UNCHANGED <<queue, taking, writerOpen, file>>
        /\ worker' = "writing" <=> worker = "writing"
    BY <1>6 DEF StopAccepting, RequestStop, Join, Woken, OwnerStats, StatsFirst,
       StatsLast, StatsHas, FrameArrives, Notify, Sleep, Exit, SpuriousWakeup,
       StampFirst, StampLast, vars
  <2>2. Backlog' = Backlog
    BY <2>1 DEF Backlog
  <2> QED BY <2>1, <2>2
<1> QED
  BY <1>1, <1>2, <1>3, <1>4, <1>5, <1>6 DEF Next, OwnerStops, Callback, Worker

\* frame_recorder implements LossyRecording: frames are logged in the order in
\* which they came, each once, and a finalized file never changes.
THEOREM Refinement == Spec => ImplementsRecording
<1>1. Init => Promise!Init
  BY DEF Init, Promise!Init, Backlog
<1> QED
  BY <1>1, Simulation, Typing, Stops, Order, Accounting, PTL
     DEF Spec, ImplementsRecording, Promise!Spec
=============================================================================
