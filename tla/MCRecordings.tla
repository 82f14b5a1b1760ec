---------------------------- MODULE MCRecordings ----------------------------
(***************************************************************************)
(* The recordings' side for TLC: the player, the file that a recorder or   *)
(* the converter writes, and the live cameras.  They share no state here,  *)
(* so each is explored while the others are as they were built.            *)
(* The player's recordings are up to three messages of two cameras and a   *)
(* calibration topic, at any of four times that are two to a microsecond,  *)
(* out of order, equal or undecodable.                                     *)
(***************************************************************************)
EXTENDS RecordingPlayer, MkvToMcap, K4aDevice

Instants == 0..3

Image(c) == [channel : {c}, time : Instants, decodes : BOOLEAN]
Other == [channel : {"calibration"}, time : Instants, decodes : {FALSE}]

Logs == {<<>>}
    \cup {<<a>> : a \in Image("color0") \cup Other}
    \cup {<<a, b>> : a \in Image("color0") \cup Other, b \in Image("color0")}
    \cup {<<a, b, c>> : a \in Image("color0") \cup Other, b \in Image("color0"),
                         c \in Image("color0") \cup Image("color1")}

Recordings == [cameras : {{"color0"}, {"color0", "color1"}}, log : Logs]

-----------------------------------------------------------------------------
\* The cameras' initial states differ in what was left in them: the others run from one.
CamerasAtRest == DeviceInit /\ control = [k \in Cameras |-> [c \in Controls |-> Automatic]]

PlayerNext ==
    /\ RecordingInit /\ ConverterInit /\ CamerasAtRest
    /\ Next
    /\ UNCHANGED <<recordingVars, converterVars, deviceVars>>

RecorderNext ==
    /\ Init /\ ConverterInit /\ CamerasAtRest
    /\ RecordingNext
    /\ UNCHANGED <<vars, converterVars, deviceVars>>

ConversionNext ==
    /\ Init /\ CamerasAtRest
    /\ converter = "idle" => RecordingInit
    /\ ConverterNext
    /\ UNCHANGED <<vars, deviceVars>>

CameraNext ==
    /\ Init /\ RecordingInit /\ ConverterInit
    /\ DeviceNext
    /\ UNCHANGED <<vars, recordingVars, converterVars>>

\* A conversion that is over stays over.
ConversionOver ==
    /\ converter \in {"left", "killed"}
    /\ UNCHANGED <<vars, recordingVars, converterVars, deviceVars>>

MCInit == Init /\ RecordingInit /\ ConverterInit /\ DeviceInit

MCNext == PlayerNext \/ RecorderNext \/ ConversionNext \/ CameraNext \/ ConversionOver

MCSpec == MCInit /\ [][MCNext]_<<vars, recordingVars, converterVars, deviceVars>>
=============================================================================
