------------------------------ MODULE MkvToMcap ------------------------------
(***************************************************************************)
(* tools/mkv_to_mcap: one thread that reads the captures of a Kinect       *)
(* recording and writes their colour images with the recording writer.     *)
(* The Kinect's library is external: a recording is whether it can be set  *)
(* up for conversion, its captures, and how reading them ends.  Whatever   *)
(* way main() is left, the writer's destructor closes the file; a process  *)
(* that is killed does not get there.                                      *)
(* A definition marked FAULTY is a defect that the property at the end     *)
(* catches; the specification does not use it.                             *)
(***************************************************************************)
EXTENDS RecordingFile

CONSTANT MaxCaptures    \* bound: captures in a recording

ASSUME MkvAssumption == MaxCaptures \in Nat

VARIABLES
    mkv,               \* the recording that is converted
    converter,         \* main(): "idle", "setup", "transcode", "failed", "left", "killed"
    frames, skipped,   \* its counters
    exitCode           \* what main() returned, -1 while it has not

converterVars == <<mkv, converter, frames, skipped, exitCode>>

\* A capture without a colour image is skipped, one that cannot be turned to BGR throws.
Captures == {"color", "depth", "unusable"}

Mkvs == [usable : BOOLEAN,
         captures : UNION {[1..n -> Captures] : n \in 0..MaxCaptures},
         end : {"eof", "error"}]

ConverterInit ==
    /\ mkv = [usable |-> FALSE, captures |-> <<>>, end |-> "eof"]
    /\ converter = "idle"
    /\ frames = 0 /\ skipped = 0
    /\ exitCode = -1

Exit(code) == converter' = "left" /\ exitCode' = code

Run(m) ==
    /\ converter = "idle"
    /\ mkv' = m
    /\ converter' = "setup"
    /\ UNCHANGED <<recordingVars, frames, skipped, exitCode>>

\* No file, no such codec, no colour track, no calibration, or no output to create.
SetupFails ==
    /\ converter = "setup"
    /\ Exit(1)
    /\ UNCHANGED <<recordingVars, mkv, frames, skipped>>

OpenOutput ==
    /\ converter = "setup" /\ mkv.usable
    /\ \E c \in Codecs : CreateFile(c)
    /\ converter' = "transcode"
    /\ UNCHANGED <<mkv, frames, skipped, exitCode>>

\* The captures that were read.
Position == frames + skipped

NextCapture(kind) ==
    /\ converter = "transcode"
    /\ Position < Len(mkv.captures) /\ mkv.captures[Position + 1] = kind

Skip ==
    /\ NextCapture("depth")
    /\ skipped' = skipped + 1
    /\ UNCHANGED <<recordingVars, mkv, converter, frames, exitCode>>

Transcode ==
    /\ NextCapture("color")
    /\ WriteSucceeds(Position + 1)
    /\ frames' = frames + 1
    /\ UNCHANGED <<mkv, converter, skipped, exitCode>>

WriteFailsAndGoesOn ==                                          \* FAULTY
    /\ NextCapture("color")
    /\ WriteRefused(Position + 1)
    /\ skipped' = skipped + 1
    /\ UNCHANGED <<mkv, converter, frames, exitCode>>

\* The loop ends at the first image that is not written.
WriteFails ==
    /\ NextCapture("color")
    /\ WriteRefused(Position + 1)
    /\ converter' = "failed"
    /\ UNCHANGED <<mkv, frames, skipped, exitCode>>

\* main() is left with an error, or by an exception: the destructor closes the file.
Fail ==
    /\ \/ converter = "failed"
       \/ NextCapture("unusable")
       \/ /\ converter = "transcode"
          /\ Position = Len(mkv.captures) /\ mkv.end = "error"
    /\ FinishFile
    /\ Exit(1)
    /\ UNCHANGED <<mkv, frames, skipped>>

\* The end of the captures; a recording without a colour image is an error too.
Finish ==
    /\ converter = "transcode"
    /\ Position = Len(mkv.captures) /\ mkv.end = "eof"
    /\ FinishFile
    /\ Exit(IF frames = 0 THEN 1 ELSE 0)
    /\ UNCHANGED <<mkv, frames, skipped>>

KillConverter ==
    /\ converter \in {"transcode", "failed"}
    /\ Killed
    /\ converter' = "killed"
    /\ UNCHANGED <<mkv, frames, skipped, exitCode>>

ConverterNext ==
    \/ \E m \in Mkvs : Run(m)
    \/ SetupFails \/ OpenOutput
    \/ Skip \/ Transcode \/ WriteFails \/ Fail \/ Finish \/ KillConverter

ConverterSpec ==
    RecordingInit /\ ConverterInit
    /\ [][ConverterNext]_<<recordingVars, converterVars>>

-----------------------------------------------------------------------------
(* Properties *)

\* The colour captures of the recording, by their places in it.
ColorCaptures ==
    InOrder({i \in DOMAIN mkv.captures : mkv.captures[i] = "color"})

\* mkv_to_mcap.cc: success means a finalized file that plays every colour capture, in
\* order, and at least one; any other way out of main() leaves a file that plays those
\* that came before, or none.
ConversionComplete ==
    converter = "left" =>
        LET played == Read(OwnFile).frames
        IN  /\ codec # "" => finalized
            /\ exitCode = 0 => codec # "" /\ played = ColorCaptures /\ played # <<>>
            /\ exitCode = 1 =>
                  \A i \in DOMAIN played :
                     i \in DOMAIN ColorCaptures /\ played[i] = ColorCaptures[i]
=============================================================================
