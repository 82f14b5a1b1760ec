------------------------------ MODULE K4aDevice ------------------------------
(***************************************************************************)
(* hw::k4a_device_capturer: the live cameras, and who holds them while one *)
(* source replaces another.  A camera is external (the Kinect's library):  *)
(* it is open once at a time, streams or not, and keeps its colour controls *)
(* while it stays connected, from one open to the next.                    *)
(*   owner    opens a capturer of its own for every open_device(), and only *)
(*            then closes the one that it replaces;                        *)
(*   workers  one to a capturer: fetch, up to a second at a time.          *)
(* A definition marked FAULTY is a defect that the property at the end     *)
(* catches; the specification does not use it.                             *)
(***************************************************************************)
EXTENDS Naturals

CONSTANTS
    Cameras,             \* by their indices
    Capturers,           \* as many as live at a time: two
    Values,              \* what a control can be set to by hand
    Automatic,           \* std::nullopt, and the control's automatic mode
    None                 \* nullptr: no capturer, no camera

ASSUME K4aAssumption ==
    /\ Automatic \notin Values
    /\ None \notin Cameras \cup Capturers \cup [capturer : Capturers, camera : Cameras]

VARIABLES
    camera,              \* external: "closed", "open" or "streaming"
    control,             \* external: each camera's modes and values
    device,              \* _device of each capturer
    fetching,            \* its worker is in get_capture(), under _mtx
    source, replaced,    \* the pipeline's capturer, and the one it replaces
    opening,             \* in open(): the capturer and its camera
    asked,               \* history: the controls a capturer was opened with
    refused              \* history: those that the camera would not set

deviceVars == <<camera, control, device, fetching, source, replaced, opening,
                asked, refused>>

Controls == {"exposure", "gain"}

Settings == [Controls -> Values \cup {Automatic}]

NothingAsked == [p \in Capturers |-> [c \in Controls |-> Automatic]]

\* Another program can have left the cameras with any controls.
DeviceInit ==
    /\ camera = [k \in Cameras |-> "closed"] /\ control \in [Cameras -> Settings]
    /\ device = [p \in Capturers |-> None] /\ fetching = [p \in Capturers |-> FALSE]
    /\ source = None /\ replaced = None /\ opening = None
    /\ asked = NothingAsked /\ refused = [p \in Capturers |-> {}]

-----------------------------------------------------------------------------
(* Owner *)

\* k4a_device_open() fails, and changes nothing, for a camera that is held already:
\* by the source to be replaced, too.
OpenDevice(p, k) ==
    /\ opening = None /\ replaced = None
    /\ p # source
    /\ camera[k] = "closed"
    /\ camera' = [camera EXCEPT ![k] = "open"]
    /\ opening' = [capturer |-> p, camera |-> k]
    /\ UNCHANGED <<control, device, fetching, source, replaced, asked, refused>>

\* It gives no calibration or does not start: it is closed again.
OpenFails ==
    /\ opening # None
    /\ camera' = [camera EXCEPT ![opening.camera] = "closed"]
    /\ opening' = None
    /\ UNCHANGED <<control, device, fetching, source, replaced, asked, refused>>

ApplyManualControls(k, settings, failed) ==                     \* FAULTY
    control' = [control EXCEPT ![k] = [c \in Controls |->
        IF c \in failed \/ settings[c] = Automatic THEN @[c] ELSE settings[c]]]

\* apply_color_control(): one that is not asked for is set to automatic.  What the
\* camera will not set stays as it was.
ApplyColorControls(k, settings, failed) ==
    control' = [control EXCEPT ![k] = [c \in Controls |->
        IF c \in failed THEN @[c] ELSE settings[c]]]

\* open() returns, and the pipeline takes the new capturer for its source.
Start(settings, failed) ==
    /\ opening # None
    /\ LET p == opening.capturer
           k == opening.camera
       IN  /\ camera' = [camera EXCEPT ![k] = "streaming"]
           /\ ApplyColorControls(k, settings, failed)
           /\ device' = [device EXCEPT ![p] = k]
           /\ source' = p /\ replaced' = source
           /\ asked' = [asked EXCEPT ![p] = settings]
           /\ refused' = [refused EXCEPT ![p] = failed]
    /\ opening' = None
    /\ UNCHANGED fetching

\* Under the mutex, when the worker's fetch is over: cameras stopped, device closed.
ReleaseCamera(p) ==
    /\ p # None
    /\ ~fetching[p]
    /\ camera' = [camera EXCEPT ![device[p]] = "closed"]
    /\ device' = [device EXCEPT ![p] = None]
    /\ asked' = [asked EXCEPT ![p] = [c \in Controls |-> Automatic]]
    /\ refused' = [refused EXCEPT ![p] = {}]
    /\ UNCHANGED <<control, fetching, opening>>

CloseReplaced == ReleaseCamera(replaced) /\ replaced' = None /\ UNCHANGED source

CloseSource ==
    /\ opening = None /\ replaced = None
    /\ ReleaseCamera(source) /\ source' = None /\ UNCHANGED replaced

-----------------------------------------------------------------------------
(* Workers *)

BeginFetch(p) ==
    /\ device[p] # None /\ ~fetching[p]
    /\ fetching' = [fetching EXCEPT ![p] = TRUE]
    /\ UNCHANGED <<camera, control, device, source, replaced, opening, asked, refused>>

\* A capture, none in time, or one without data.
EndFetch(p) ==
    /\ fetching[p]
    /\ fetching' = [fetching EXCEPT ![p] = FALSE]
    /\ UNCHANGED <<camera, control, device, source, replaced, opening, asked, refused>>

\* A wait that fails throws, which ends the process; it is started anew, the camera
\* perhaps connected anew.
FetchFails(p) ==
    /\ fetching[p]
    /\ camera' = [k \in Cameras |-> "closed"]
    /\ device' = [q \in Capturers |-> None] /\ fetching' = [q \in Capturers |-> FALSE]
    /\ source' = None /\ replaced' = None /\ opening' = None
    /\ asked' = NothingAsked /\ refused' = [q \in Capturers |-> {}]
    /\ \/ UNCHANGED control
       \/ control' = [control EXCEPT ![device[p]] = [c \in Controls |-> Automatic]]

DeviceNext ==
    \/ \E p \in Capturers, k \in Cameras : OpenDevice(p, k)
    \/ \E settings \in Settings, failed \in SUBSET Controls : Start(settings, failed)
    \/ OpenFails \/ CloseReplaced \/ CloseSource
    \/ \E p \in Capturers : BeginFetch(p) \/ EndFetch(p) \/ FetchFails(p)

DeviceSpec == DeviceInit /\ [][DeviceNext]_deviceVars

-----------------------------------------------------------------------------
(* Properties *)

\* k4a_frame_source.cc:88: a capturer that is open streams from a camera of its own
\* with the controls it was opened with, whatever was set before it and whatever is
\* opened, closed or fails to open beside it; and nobody's camera is closed.
CameraIsAsAsked ==
    /\ \A p \in Capturers : device[p] # None =>
          /\ camera[device[p]] = "streaming"
          /\ \A c \in Controls \ refused[p] : control[device[p]][c] = asked[p][c]
          /\ \A q \in Capturers : device[q] = device[p] => q = p
    /\ \A p \in Capturers : fetching[p] => device[p] # None
    /\ \A k \in Cameras : camera[k] # "closed" =>
          \/ \E p \in {source, replaced} \cap Capturers : device[p] = k
          \/ opening # None /\ opening.camera = k
=============================================================================
