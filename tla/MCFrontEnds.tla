---------------------------- MODULE MCFrontEnds ----------------------------
(***************************************************************************)
(* The debugger's view, its log console and the web client for TLC.  They  *)
(* share no state, so each is explored while the others are as they were   *)
(* built: the steps of one add to the others' instead of multiplying with  *)
(* them.  The web client's fairness stays its own: only where the others   *)
(* have not begun can it be kept.                                          *)
(***************************************************************************)
EXTENDS DebuggerView, LogConsole, WebClient

MCInit == Init /\ LogInit /\ WebInit

MCNext == \/ LogInit /\ WebInit /\ Next /\ UNCHANGED <<logVars, webVars>>
          \/ Init /\ WebInit /\ LogNext /\ UNCHANGED <<vars, webVars>>
          \/ Init /\ LogInit /\ WebNext /\ UNCHANGED <<vars, logVars>>

MCSpec == MCInit /\ [][MCNext]_<<vars, logVars, webVars>> /\ WebFairness
=============================================================================
