---------------------------- MODULE PlotHistory ----------------------------
(***************************************************************************)
(* What a plot shows: the latest samples in the order of their times, the  *)
(* oldest leaving when there are too many.  A time before the newest       *)
(* sample's starts the history over, from time zero.  DebuggerView's rings  *)
(* are shown to implement it.                                              *)
(***************************************************************************)
EXTENDS Naturals, Sequences

CONSTANT Capacity

VARIABLE history       \* the samples, oldest first; each has its time, "at"

Init == history = <<>>

Clear == history' = <<>>

\* The first sample is the reference of the times.
Restart == Len(history') = 1 /\ history'[1].at = 0

Extend ==
    LET kept == IF Len(history) < Capacity THEN history ELSE Tail(history)
        n    == Len(kept)
    IN  /\ history # <<>>
        /\ Len(history') = n + 1
        /\ SubSeq(history', 1, n) = kept
        /\ history'[n + 1].at >= history[Len(history)].at

Next == Clear \/ Restart \/ Extend

Spec == Init /\ [][Next]_history
=============================================================================
