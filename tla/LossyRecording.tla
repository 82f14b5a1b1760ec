--------------------------- MODULE LossyRecording ---------------------------
(***************************************************************************)
(* What a recording promises, with no threads, locks or flags in it: the   *)
(* frames of a live stream are accepted into a bounded backlog or refused, *)
(* the oldest accepted frame is logged or lost, and a finished log never   *)
(* changes until another recording begins.  Frames are identified by their *)
(* device timestamps.  FrameRecorder is shown to implement it.             *)
(***************************************************************************)
EXTENDS Naturals, Sequences

CONSTANTS
    Times,             \* the timestamps a frame can have
    Capacity           \* frames accepted and not yet logged, at most

VARIABLES
    backlog,           \* accepted frames, oldest first
    log,               \* logged frames, oldest first
    recording          \* the log is open

vars == <<backlog, log, recording>>

\* t is younger than every frame of the sequence s.
Younger(t, s) == \A i \in DOMAIN s : s[i] < t

Init ==
    /\ backlog = <<>>
    /\ log = <<>>
    /\ recording = FALSE

Begin ==
    /\ ~recording
    /\ recording' = TRUE
    /\ backlog' = <<>>
    /\ log' = <<>>

\* A frame can still be accepted after the log is finished: it is never logged.
Accept ==
    /\ Len(backlog) < Capacity
    /\ \E t \in Times :
          /\ Younger(t, backlog)
          /\ Younger(t, log)
          /\ backlog' = Append(backlog, t)
    /\ UNCHANGED <<log, recording>>

LogOldest ==
    /\ recording
    /\ backlog # <<>>
    /\ log' = Append(log, Head(backlog))
    /\ backlog' = Tail(backlog)
    /\ UNCHANGED recording

LoseOldest ==
    /\ recording
    /\ backlog # <<>>
    /\ backlog' = Tail(backlog)
    /\ UNCHANGED <<log, recording>>

Finish ==
    /\ recording
    /\ recording' = FALSE
    /\ UNCHANGED <<backlog, log>>

Next == Begin \/ Accept \/ LogOldest \/ LoseOldest \/ Finish

Spec == Init /\ [][Next]_vars
=============================================================================
