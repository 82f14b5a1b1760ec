---------------------------- MODULE ExoPoseServer ----------------------------
(***************************************************************************)
(* net::exo_pose_server: the WebSocket listener, its clients and the        *)
(* pipeline it drives.  One thread runs the handlers, the timer, the poll   *)
(* and the operator's GUI, each to its end; the pipeline's worker runs      *)
(* beside it.  A client may send anything at any time, so a message is      *)
(* chosen when its handler runs.                                           *)
(* What a client is sent is kept as the last status it was told: messages   *)
(* to one socket keep their order.                                         *)
(* A definition marked FAULTY is a defect that one of the properties at the *)
(* end catches; the specification does not use it.                         *)
(***************************************************************************)
EXTENDS Integers

CONSTANTS
    MaxOpens,          \* bound: sources opened with success
    MaxFrames,         \* bound: frames per source
    Sockets            \* those that may be connected at a time

ASSUME ServerAssumption == MaxOpens \in Nat /\ MaxFrames \in Nat

VARIABLES
    \* the pipeline's, as in ExoPosePipeline
    opens, source, isRecording, paused, worker, frameId, latched, streamEnded,
    lastSeq, pose, tracked, rest, recorder, statusChanged, loop, newPose, reported,
    \* the server's
    listening,         \* _is_listening
    socket,            \* what the server holds of each socket
    clientCount,       \* client_count
    subscribed,        \* the sockets that get what is published
    told,              \* history: the last status sent to a socket
    opener             \* history: who opened the source that is open

P == INSTANCE ExoPosePipeline

streamVars   == <<paused, worker, frameId>>
pollVars     == <<loop, newPose, reported>>
pipelineVars == <<opens, source, isRecording, streamVars, latched, streamEnded,
                  lastSeq, pose, tracked, rest, recorder, statusChanged, pollVars>>
socketVars   == <<socket, clientCount, subscribed, told>>
serverVars   == <<listening, socketVars, opener>>
vars         == <<pipelineVars, serverVars>>

\* "rejected": closing without having been accepted; "closing": accepted, and
\* ended by the server.
SocketStates == {"none", "rejected", "accepted", "handshaked", "closing"}
Accepted     == {"accepted", "handshaked", "closing"}

NotTold == <<>>

Init ==
    /\ P!Init
    /\ listening = FALSE
    /\ socket = [s \in Sockets |-> "none"]
    /\ clientCount = 0
    /\ subscribed = {}
    /\ told = [s \in Sockets |-> NotTold]
    /\ opener = "nobody"

\* A handler runs between two polls.
InLoop == loop = "ready"

-----------------------------------------------------------------------------
(* The pipeline's source, as the handlers and the GUI use it                *)

OpensAs(who) == P!OpenSource /\ opener' = who

ClosesSource ==
    \/ source # 0 /\ P!CloseSource /\ opener' = "nobody"
    \/ source = 0 /\ UNCHANGED <<pipelineVars, opener>>

-----------------------------------------------------------------------------
(* Listener *)

\* start(); a port that is taken leaves everything as it was.
StartListening ==
    /\ InLoop /\ ~listening
    /\ listening' = TRUE
    /\ UNCHANGED <<pipelineVars, socketVars, opener>>

NoSockets ==
    /\ socket' = [s \in Sockets |-> "none"]
    /\ clientCount' = 0
    /\ subscribed' = {}
    /\ told' = [s \in Sockets |-> NotTold]

StopKeepingSource ==                                            \* FAULTY
    /\ InLoop /\ listening
    /\ listening' = FALSE
    /\ NoSockets
    /\ UNCHANGED <<pipelineVars, opener>>

StopForgettingStatus ==                                         \* FAULTY
    /\ InLoop /\ listening
    /\ listening' = FALSE
    /\ NoSockets
    /\ statusChanged' = FALSE
    /\ UNCHANGED <<opens, source, isRecording, streamVars, latched, streamEnded,
                   lastSeq, pose, tracked, rest, recorder, pollVars, opener>>

\* stop(): every socket is closed and its close handler runs.
StopListening ==
    /\ InLoop /\ listening
    /\ listening' = FALSE
    /\ NoSockets
    /\ \/ clientCount > 0 /\ ClosesSource
       \/ clientCount = 0 /\ UNCHANGED <<pipelineVars, opener>>

-----------------------------------------------------------------------------
(* Handlers *)

\* The single slot is the first client's until its socket is closed.
Opened(s) ==
    /\ InLoop /\ listening /\ socket[s] = "none"
    /\ \/ /\ clientCount >= 1
          /\ socket' = [socket EXCEPT ![s] = "rejected"]
          /\ UNCHANGED clientCount
       \/ /\ clientCount < 1
          /\ socket' = [socket EXCEPT ![s] = "accepted"]
          /\ clientCount' = clientCount + 1
    /\ UNCHANGED <<pipelineVars, listening, subscribed, told, opener>>

\* Malformed, without request id, of another version, or a command before the
\* handshake: the socket is ended, and its topics with it.
RejectClient(s) ==
    /\ InLoop /\ socket[s] \in {"accepted", "handshaked"}
    /\ socket' = [socket EXCEPT ![s] = "closing"]
    /\ subscribed' = subscribed \ {s}
    /\ UNCHANGED <<pipelineVars, listening, clientCount, told, opener>>

HelloQuietly(s) ==                                              \* FAULTY
    /\ InLoop /\ socket[s] \in {"accepted", "handshaked"}
    /\ socket' = [socket EXCEPT ![s] = "handshaked"]
    /\ subscribed' = subscribed \cup {s}
    /\ UNCHANGED <<pipelineVars, listening, clientCount, told, opener>>

\* A Hello of this version, the first or another: the topics, the Ack, the status.
Hello(s) ==
    /\ InLoop /\ socket[s] \in {"accepted", "handshaked"}
    /\ socket' = [socket EXCEPT ![s] = "handshaked"]
    /\ subscribed' = subscribed \cup {s}
    /\ told' = [told EXCEPT ![s] = P!Status]
    /\ UNCHANGED <<pipelineVars, listening, clientCount, opener>>

GetServerStatus(s) ==
    /\ InLoop /\ socket[s] = "handshaked"
    /\ told' = [told EXCEPT ![s] = P!Status]
    /\ UNCHANGED <<pipelineVars, listening, socket, clientCount, subscribed, opener>>

\* A command of a client that has shaken hands; whatever comes of it is Acked,
\* and an unsupported one or an empty source changes nothing.
ClientCommand(s) ==
    /\ InLoop /\ socket[s] = "handshaked"
    /\ \/ OpensAs("client")
       \/ P!OpenFails /\ UNCHANGED opener
       \/ ClosesSource
       \/ (P!CalibrateRestPose \/ P!ClearRestPose) /\ UNCHANGED opener
    /\ UNCHANGED <<listening, socketVars>>

Gone(s) ==
    /\ socket' = [socket EXCEPT ![s] = "none"]
    /\ subscribed' = subscribed \ {s}
    /\ told' = [told EXCEPT ![s] = NotTold]

\* A socket is gone, by its peer or because the server ended it; the last
\* client's source is released.
Closed(s) ==
    /\ InLoop /\ socket[s] # "none"
    /\ Gone(s)
    /\ \/ /\ socket[s] = "rejected"
          /\ UNCHANGED <<pipelineVars, clientCount, opener>>
       \/ /\ socket[s] \in Accepted
          /\ clientCount' = clientCount - 1
          /\ \/ clientCount' = 0 /\ ClosesSource
             \/ clientCount' # 0 /\ UNCHANGED <<pipelineVars, opener>>
    /\ UNCHANGED listening

-----------------------------------------------------------------------------
(* The poll, by the listener's timer or the render loop                     *)

PollFrame == P!PollFrame /\ UNCHANGED serverVars

PumpQuietly ==                                                  \* FAULTY
    /\ P!PollSignals
    /\ UNCHANGED serverVars

\* What poll() signalled is published while the listener is up, and is lost
\* otherwise.
Pump ==
    /\ P!PollSignals
    /\ told' = [s \in Sockets |->
                   IF listening /\ statusChanged /\ s \in subscribed
                   THEN P!Status ELSE told[s]]
    /\ UNCHANGED <<listening, socket, clientCount, subscribed, opener>>

-----------------------------------------------------------------------------
\* The operator's commands, and the source named on the command line.
Operator ==
    /\ \/ OpensAs("operator")
       \/ ClosesSource
       \/ (P!OpenFails \/ P!StartRecording \/ P!StopRecording
             \/ P!CalibrateRestPose \/ P!ClearRestPose \/ P!SetSourcePaused)
          /\ UNCHANGED opener
    /\ UNCHANGED <<listening, socketVars>>

Client(s) == Opened(s) \/ RejectClient(s) \/ Hello(s) \/ GetServerStatus(s)
                \/ ClientCommand(s) \/ Closed(s)
Listener  == StartListening \/ StopListening
Poll      == PollFrame \/ Pump
Worker    == P!Worker /\ UNCHANGED serverVars

Next == Listener \/ Operator \/ Poll \/ Worker \/ \E s \in Sockets : Client(s)

Spec == Init /\ [][Next]_vars

(* The loop keeps polling, whatever its handlers and the operator do.       *)
Fairness == WF_vars(PollFrame) /\ WF_vars(Pump)

FairSpec == Spec /\ Fairness

-----------------------------------------------------------------------------
(* Properties *)

\* Every variable of the server holds a value of its type.
TypeOK ==
    /\ listening \in BOOLEAN
    /\ socket \in [Sockets -> SocketStates]
    /\ clientCount \in Nat
    /\ subscribed \subseteq Sockets
    /\ told \in [Sockets -> {NotTold} \cup (P!Sources \X BOOLEAN)]
    /\ opener \in {"nobody", "operator", "client"}

Clients == {s \in Sockets : socket[s] \in Accepted}

\* The count is that of the accepted sockets, one at most, through rejections,
\* disconnects and restarts of the listener: the slot is never lost or doubled.
SlotIsCounted ==
    /\ clientCount \in {0, 1}
    /\ clientCount = 0 <=> Clients = {}
    /\ \A s, t \in Clients : s = t

\* A client that has shaken hands knows the status, or a poll is about to tell
\* it, even if the status changed while nobody listened or before it connected.
ClientInformed ==
    \A s \in Sockets : socket[s] = "handshaked" =>
        told[s] = P!Status \/ statusChanged

\* No source stays open that was opened by a client which has gone: closed,
\* rejected, or dropped with the listener.
ReleasedWithClient == opener = "client" => source # 0 /\ clientCount = 1

\* A subscribed client learns of the status, unless it goes first.
StatusArrives ==
    \A s \in Sockets :
        s \in subscribed /\ told[s] # P!Status
            ~> s \notin subscribed \/ told[s] = P!Status

\* The server uses the pipeline only as ExoPosePipeline allows, so what holds of
\* the pipeline alone holds of it under any clients.
ImplementsPipeline == P!Spec
=============================================================================
