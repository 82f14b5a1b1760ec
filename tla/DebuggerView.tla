---------------------------- MODULE DebuggerView ----------------------------
(***************************************************************************)
(* The debugger's view of the pipeline it shares with a client: the        *)
(* annotated frame it shows and the plots it keeps of the joints.          *)
(*   worker   latches frames in the source's observer at any time;         *)
(*   window   one thread: polls the server, whose client may replace the   *)
(*            source and whose pump computes the joints, pulls the frame,  *)
(*            then takes the operator's click.                             *)
(* A frame is its source, its number there and its timestamp; a sample is  *)
(* its rebased time, the frame it was taken for and the frame its joints   *)
(* were computed from.  The rings of a plot_buffer's joints are pushed to  *)
(* together, so one stands for them all.                                   *)
(* A definition marked FAULTY is a defect that one of the properties at    *)
(* the end catches; the specification does not use it.                     *)
(***************************************************************************)
EXTENDS Integers, Sequences

CONSTANTS
    Capacity,          \* samples in a ring
    MaxTime,           \* bound: device timestamps
    MaxOpens,          \* bound: sources opened
    MaxFrames          \* bound: frames latched of one source

ASSUME ViewAssumption ==
    /\ Capacity \in Nat \ {0}
    /\ MaxTime \in Nat /\ MaxOpens \in Nat /\ MaxFrames \in Nat

VARIABLES
    source,            \* the open source, 0 for none, and so its observer
    opens,             \* bound: sources opened so far
    seq, timestamp,    \* _seq, _timestamp of the observer
    poseSeq,           \* the pipeline's _last_seq
    posed,             \* the frame the estimator's joints are computed from
    window,            \* where the window's thread is: "server", "view", "panels"
    lastSeq,           \* the window's _last_seq
    texture,           \* _texture: the number of its frame, 0 for none
    plots              \* _euler_bufs and _quat_bufs

sourceVars == <<source, opens, seq, timestamp>>
poseVars == <<poseSeq, posed>>
viewVars == <<lastSeq, texture, plots>>
vars == <<sourceVars, poseVars, window, viewVars>>

Times == 0..MaxTime

None == -1

-----------------------------------------------------------------------------
(* plot_buffer and its scrolling_buffer                                     *)

EmptyPlot == [data |-> <<>>, offset |-> 0, origin |-> 0, last |-> None]

ClearedKeepingOffset(p) == [p EXCEPT !.data = <<>>, !.last = None]  \* FAULTY

\* The origin is fixed by the next advance().
Cleared(p) == [p EXCEPT !.data = <<>>, !.offset = 0, !.last = None]

\* A full ring overwrites its oldest value.
AddValue(p, x) ==
    IF Len(p.data) < Capacity
    THEN [p EXCEPT !.data = Append(@, x)]
    ELSE [p EXCEPT !.data[p.offset + 1] = x,
                   !.offset = (@ + 1) % Capacity]

\* A backward jump restarts the history.
Advance(p, t) ==
    LET q == IF p.last # None /\ t < p.last THEN Cleared(p) ELSE p
    IN  [q EXCEPT !.origin = IF q.last = None THEN t ELSE @, !.last = t]

Push(p, frame, joints) ==
    AddValue(p, [at |-> p.last - p.origin, of |-> frame, joints |-> joints])

\* The samples from the oldest to the newest, as a strided plot reads them.
View(p) ==
    [i \in DOMAIN p.data |-> p.data[1 + ((p.offset + i - 1) % Len(p.data))]]

-----------------------------------------------------------------------------
\* Number 0 is what an observer holds that has latched nothing; source 0 is none.
Frame(src, n) == [source |-> src, number |-> n]

Init ==
    /\ source = 0 /\ opens = 0 /\ seq = 0 /\ timestamp = 0
    /\ poseSeq = 0 /\ posed = Frame(0, 0)
    /\ window = "server"
    /\ lastSeq = 0
    /\ texture = Frame(0, 0)
    /\ plots = [b \in {"euler", "quat"} |-> EmptyPlot]

\* on_sensor_frame_update(): a device's times go up, a recording's also back.
Latch ==
    /\ source # 0 /\ seq < MaxFrames
    /\ seq' = seq + 1
    /\ timestamp' \in Times
    /\ UNCHANGED <<source, opens, poseVars, window, viewVars>>

\* open_source(): a new observer has latched nothing; the joints stay the old ones.
OpenSource ==
    /\ opens < MaxOpens /\ opens' = opens + 1 /\ source' = opens'
    /\ seq' = 0 /\ timestamp' = 0
    /\ poseSeq' = 0 /\ UNCHANGED posed

\* A source that does not open leaves the open one and its observer in place.
OpenFails == UNCHANGED <<sourceVars, poseVars>>

CloseSource ==
    /\ source # 0
    /\ source' = 0 /\ UNCHANGED opens
    /\ seq' = 0 /\ timestamp' = 0
    /\ poseSeq' = 0 /\ UNCHANGED posed

\* A client's commands come while the server is polled.
ClientCommand ==
    /\ window = "server"
    /\ OpenSource \/ CloseSource
    /\ UNCHANGED <<window, viewVars>>

PolledForClient ==                                              \* FAULTY
    /\ window = "server"
    /\ window' = "view"
    /\ \/ source # 0 /\ poseSeq' = seq /\ posed' = Frame(source, seq)
       \/ UNCHANGED poseVars
    /\ UNCHANGED <<sourceVars, viewVars>>

\* The server has been polled: listening or not, its pump feeds the estimator with
\* a frame it has not seen.
Polled ==
    /\ window = "server"
    /\ window' = "view"
    /\ IF source # 0 /\ seq # poseSeq
       THEN poseSeq' = seq /\ posed' = Frame(source, seq)
       ELSE UNCHANGED poseVars
    /\ UNCHANGED <<sourceVars, viewVars>>

\* try_get_annotated_frame(): any other number than the window's last is a new frame.
HasNewFrame == source # 0 /\ seq # lastSeq

\* _update_pose_frame(): an observer that has latched nothing has an empty image,
\* which the texture does not take, at time zero.  The joints are the estimator's.
UpdatePoseFrame ==
    /\ window = "view"
    /\ IF HasNewFrame
       THEN LET frame == Frame(source, seq)
            IN  /\ lastSeq' = seq
                /\ texture' = IF seq = 0 THEN texture ELSE frame
                /\ plots' = [b \in DOMAIN plots |->
                                Push(Advance(plots[b], timestamp), frame, posed)]
       ELSE UNCHANGED viewVars
    /\ window' = "panels"
    /\ UNCHANGED <<sourceVars, poseVars>>

\* Whether or not a source opened, the view starts over.
ViewStartsOver ==
    /\ lastSeq' = 0
    /\ plots' = [b \in DOMAIN plots |-> Cleared(plots[b])]
    /\ UNCHANGED texture

\* The open dialog's button; without a recording's name it does nothing.
OpenFromDialog ==
    /\ window = "panels"
    /\ OpenSource \/ OpenFails
    /\ ViewStartsOver
    /\ window' = "server"

\* The menu's entry is there for an open source.
CloseFromMenu ==
    /\ window = "panels"
    /\ CloseSource
    /\ ViewStartsOver
    /\ window' = "server"

\* The control panel, there for an open source: another rotation basis empties both
\* histories, another Euler order one.
ChangeBasis ==
    /\ window = "panels"
    /\ source # 0
    /\ \/ plots' = [b \in DOMAIN plots |-> Cleared(plots[b])]
       \/ plots' = [plots EXCEPT !["euler"] = Cleared(@)]
    /\ window' = "server"
    /\ UNCHANGED <<sourceVars, poseVars, lastSeq, texture>>

\* A frame of the window without a click that matters here.
NextFrame ==
    /\ window = "panels"
    /\ window' = "server"
    /\ UNCHANGED <<sourceVars, poseVars, viewVars>>

Next == \/ Latch \/ ClientCommand \/ Polled
        \/ UpdatePoseFrame \/ OpenFromDialog \/ CloseFromMenu \/ ChangeBasis
        \/ NextFrame

Spec == Init /\ [][Next]_vars

-----------------------------------------------------------------------------
(* Properties *)

\* debugger_app.cc:350: the window pulls a frame by itself, after the pump has fed
\* the estimator, and pairs it with the joints it finds.  They may be an older
\* frame's, even the replaced source's, but never lag behind the sample before, and
\* are never ahead of the frame.
JointsAreRecent ==
    \A b \in DOMAIN plots :
        LET history == View(plots[b])
        IN  /\ \A i \in DOMAIN history :
                  LET s == history[i]
                  IN  s.joints.source = s.of.source => s.joints.number <= s.of.number
            /\ \A i \in 1..(Len(history) - 1) :
                  LET s == history[i]
                      t == history[i + 1]
                  IN  s.of.source = t.of.source /\ s.of.number # 0 =>
                          /\ t.joints.source = t.of.source
                          /\ s.of.number <= t.joints.number

EulerHistory == INSTANCE PlotHistory WITH history <- View(plots["euler"])
QuatHistory  == INSTANCE PlotHistory WITH history <- View(plots["quat"])

\* The rings, read from their offset, are sliding histories in the order of their
\* times, whatever source the times come from and whenever a ring was emptied.
PlotsAreHistories == EulerHistory!Spec /\ QuatHistory!Spec
=============================================================================
