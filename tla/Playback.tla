------------------------------ MODULE Playback ------------------------------
(***************************************************************************)
(* What a record player promises to the polling thread, with no file,      *)
(* stream or clock in it: the frames of a recording are numbered 1..length *)
(* in the order they are played, and a cursor stands before one of them or *)
(* behind the last.  It is how SensorFrameProvider models its player;      *)
(* RecordingPlayer is shown to implement it.                               *)
(***************************************************************************)
EXTENDS Naturals

VARIABLES
    length,            \* frames of the open recording, 0 while none is open
    repeat,            \* start over behind the last frame
    cursor,            \* the next frame to play
    shown              \* the frame that was played last, 0 for the end

vars == <<length, repeat, cursor, shown>>

Init ==
    /\ length = 0 /\ repeat = FALSE /\ cursor = 1 /\ shown = 0

\* Whoever opens the recording may choose to repeat it before it is played.
Load ==
    /\ length = 0
    /\ length' \in Nat
    /\ repeat' \in BOOLEAN
    /\ cursor' = 1 /\ shown' = 0

SetRepeat ==
    /\ repeat' \in BOOLEAN
    /\ UNCHANGED <<length, cursor, shown>>

\* A seek can land anywhere, behind the last frame too.
Seek ==
    /\ cursor' \in 1..(length + 1)
    /\ UNCHANGED <<length, repeat, shown>>

PlayFrom(c) ==
    IF c > length THEN shown' = 0 /\ cursor' = c
                  ELSE shown' = c /\ cursor' = c + 1

\* Starting over can fail, which leaves the cursor behind the last frame.
Fetch ==
    /\ \/ cursor <= length /\ PlayFrom(cursor)
       \/ cursor > length /\ ~repeat /\ PlayFrom(cursor)
       \/ cursor > length /\ repeat /\ \E c \in {1, length + 1} : PlayFrom(c)
    /\ UNCHANGED <<length, repeat>>

Unload ==
    /\ length' = 0 /\ cursor' = 1 /\ shown' = 0
    /\ UNCHANGED repeat

Next == Load \/ SetRepeat \/ Seek \/ Fetch \/ Unload

Spec == Init /\ [][Next]_vars
=============================================================================
