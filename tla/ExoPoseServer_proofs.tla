------------------------ MODULE ExoPoseServer_proofs ------------------------
(***************************************************************************)
(* What ExoPoseServer keeps for any set of sockets, sources and frames.    *)
(***************************************************************************)
EXTENDS ExoPoseServer, TLAPS

\* What the safety properties rest on: a handshaked socket is subscribed at a
\* listener that is up.
Connected ==
    \A s \in Sockets : socket[s] = "handshaked" => s \in subscribed /\ listening

SocketType ==
    /\ listening \in BOOLEAN
    /\ socket \in [Sockets -> SocketStates]
    /\ clientCount \in Nat
    /\ subscribed \subseteq Sockets
    /\ told = [s \in Sockets |-> told[s]]

NoneConnected == ~listening => \A s \in Sockets : socket[s] = "none"

-----------------------------------------------------------------------------
(* The pipeline under the server.                                           *)

\* The server's closing of the source is the pipeline's, or nothing is open.
LEMMA ClosingIsClosing ==
    ASSUME ClosesSource
    PROVE  P!CloseSource \/ UNCHANGED pipelineVars
BY DEF ClosesSource

\* Every step of the server is a step of the pipeline, or leaves it alone.
LEMMA PipelineStep == [Next]_vars => [P!Next]_(P!vars)
<1> SUFFICES ASSUME [Next]_vars PROVE [P!Next]_(P!vars)
  OBVIOUS
<1>s. UNCHANGED pipelineVars => UNCHANGED P!vars
  BY DEF pipelineVars, streamVars, pollVars, P!vars
<1>1. CASE Listener
  BY <1>1, <1>s, ClosingIsClosing
     DEF Listener, StartListening, StopListening, P!Next, P!Command
<1>2. CASE Operator
  BY <1>2, <1>s, ClosingIsClosing DEF Operator, OpensAs, P!Next, P!Command
<1>3. CASE Poll
  BY <1>3 DEF Poll, PollFrame, Pump, P!Next, P!Poll
<1>4. CASE Worker
  BY <1>4 DEF Worker, P!Next
<1>5. ASSUME NEW s \in Sockets, Client(s) PROVE [P!Next]_(P!vars)
  <2>1. CASE Opened(s) \/ RejectClient(s) \/ Hello(s) \/ GetServerStatus(s)
    BY <2>1, <1>s DEF Opened, RejectClient, Hello, GetServerStatus
  <2>2. CASE ClientCommand(s)
    BY <2>2, <1>s, ClosingIsClosing DEF ClientCommand, OpensAs, P!Next, P!Command
  <2>3. CASE Closed(s)
    BY <2>3, <1>s, ClosingIsClosing DEF Closed, P!Next, P!Command
  <2> QED BY <1>5, <2>1, <2>2, <2>3 DEF Client
<1>6. CASE UNCHANGED vars
  BY <1>6, <1>s DEF vars
<1> QED BY <1>1, <1>2, <1>3, <1>4, <1>5, <1>6 DEF Next

\* The server uses the pipeline only as ExoPosePipeline allows.
THEOREM Composition == Spec => ImplementsPipeline
<1>1. Init => P!Init
  BY DEF Init
<1> QED BY <1>1, PipelineStep, PTL DEF Spec, ImplementsPipeline, P!Spec

-----------------------------------------------------------------------------
(* The slot.                                                                *)

\* The inductive invariant: the types, the count, and that who has shaken hands
\* is subscribed at a listener that is up.
SInv == SocketType /\ SlotIsCounted /\ Connected /\ NoneConnected

\* Every handler, command and poll keeps the count and the sockets together.
LEMMA SocketStep == SInv /\ [Next]_vars => SInv'
<1> SUFFICES ASSUME SInv, [Next]_vars PROVE SInv'
  OBVIOUS
<1> USE DEF SInv, SocketType, SlotIsCounted, Clients, Connected, NoneConnected,
            Accepted, SocketStates
<1>u. UNCHANGED <<listening, socketVars>> => SInv'
  BY DEF socketVars
<1>1. CASE StartListening
  BY <1>1 DEF StartListening, socketVars
<1>2. CASE StopListening
  <2>1. /\ listening' = FALSE /\ clientCount' = 0 /\ subscribed' = {}
        /\ socket' = [s \in Sockets |-> "none"]
        /\ told' = [s \in Sockets |-> NotTold]
    BY <1>2 DEF StopListening, NoSockets
  <2> QED BY <2>1
<1>3. CASE Operator
  BY <1>3, <1>u DEF Operator
<1>4. CASE Poll
  <2>1. CASE PollFrame
    BY <2>1, <1>u DEF PollFrame, serverVars
  <2>2. CASE Pump
    BY <2>2 DEF Pump
  <2> QED BY <1>4, <2>1, <2>2 DEF Poll
<1>5. CASE Worker
  BY <1>5, <1>u DEF Worker, serverVars
<1>6. ASSUME NEW s \in Sockets, Client(s) PROVE SInv'
  <2>1. CASE Opened(s)
    BY <2>1 DEF Opened
  <2>2. CASE RejectClient(s)
    BY <2>2 DEF RejectClient
  <2>3. CASE Hello(s)
    BY <2>3 DEF Hello
  <2>4. CASE GetServerStatus(s)
    BY <2>4 DEF GetServerStatus
  <2>5. CASE ClientCommand(s)
    BY <2>5, <1>u DEF ClientCommand
  <2>6. CASE Closed(s)
    <3>1. /\ socket' = [socket EXCEPT ![s] = "none"]
          /\ subscribed' = subscribed \ {s}
          /\ listening' = listening
          /\ told' = [told EXCEPT ![s] = NotTold]
      BY <2>6 DEF Closed, Gone
    <3>2. CASE socket[s] = "rejected"
      <4>1. clientCount' = clientCount
        BY <2>6, <3>2 DEF Closed
      <4> QED BY <3>1, <3>2, <4>1
    <3>3. CASE socket[s] \in Accepted
      <4>1. clientCount' = clientCount - 1
        BY <2>6, <3>3 DEF Closed
      <4>2. clientCount' = 0 /\ Clients' = {}
        BY <3>1, <3>3, <4>1
      <4> QED BY <3>1, <3>3, <4>2
    <3> QED BY <2>6, <3>2, <3>3 DEF Closed
  <2> QED BY <1>6, <2>1, <2>2, <2>3, <2>4, <2>5, <2>6 DEF Client
<1>7. CASE UNCHANGED vars
  BY <1>7, <1>u DEF vars, serverVars
<1> QED BY <1>1, <1>2, <1>3, <1>4, <1>5, <1>6, <1>7 DEF Next, Listener

\* The count and the sockets agree in every reachable state.
LEMMA SocketInvariant == Spec => []SInv
<1>1. Init => SInv
  <2> SUFFICES ASSUME Init PROVE SInv
    OBVIOUS
  <2>1. /\ listening = FALSE /\ clientCount = 0 /\ subscribed = {}
        /\ socket = [s \in Sockets |-> "none"]
    BY DEF Init
  <2>2. Clients = {}
    BY <2>1 DEF Clients, Accepted
  <2>3. told = [s \in Sockets |-> NotTold]
    BY DEF Init
  <2> QED BY <2>1, <2>2, <2>3 DEF SInv, SocketType, SlotIsCounted, Connected,
                                 NoneConnected, SocketStates
<1> QED BY <1>1, SocketStep, PTL DEF Spec

\* The count is that of the accepted sockets, one at most: the slot is neither
\* lost nor doubled by rejections, disconnects and restarts of the listener.
THEOREM SlotHolds == Spec => []SlotIsCounted
<1>1. SInv => SlotIsCounted
  BY DEF SInv
<1> QED BY <1>1, SocketInvariant, PTL

-----------------------------------------------------------------------------
(* The source of a client that has gone.                                    *)

\* Sources are numbered from 1: an open source is never 0.
LEMMA OpensStep == opens \in Nat /\ [P!Next]_(P!vars) => opens' \in Nat
BY DEF P!Next, P!Command, P!Poll, P!Worker, P!OpenSource, P!OpenFails, P!CloseSource,
   P!StartRecording, P!StopRecording, P!CalibrateRestPose, P!ClearRestPose,
   P!SetSourcePaused, P!PollFrame, P!PollSignals, P!Fetch, P!FetchNothing,
   P!FrameArrives, P!Latch, P!StreamEnds, P!WorkerLocal, P!sourceVars, P!vars

\* Every step keeps a client's source with its client.
LEMMA ReleaseStep ==
    SInv /\ opens \in Nat /\ ReleasedWithClient /\ [Next]_vars => ReleasedWithClient'
<1> SUFFICES ASSUME SInv, opens \in Nat, ReleasedWithClient, [Next]_vars
             PROVE  ReleasedWithClient'
  OBVIOUS
<1> USE DEF ReleasedWithClient
<1>u. UNCHANGED <<source, clientCount, opener>> => ReleasedWithClient'
  OBVIOUS
<1>c. ClosesSource => opener' # "client"
  BY DEF ClosesSource
<1>1. CASE Listener
  BY <1>1, <1>c DEF Listener, StartListening, StopListening, socketVars,
                    pipelineVars, SInv, SocketType
<1>2. CASE Operator
  <2>1. CASE OpensAs("operator")
    BY <2>1 DEF OpensAs
  <2>2. CASE ClosesSource
    BY <2>2, <1>c
  <2>3. CASE /\ \/ P!OpenFails \/ P!StartRecording \/ P!StopRecording
                \/ P!CalibrateRestPose \/ P!ClearRestPose \/ P!SetSourcePaused
             /\ UNCHANGED <<opener, socketVars>>
    BY <2>3, <1>u DEF socketVars, P!OpenFails, P!StartRecording, P!StopRecording,
       P!CalibrateRestPose, P!ClearRestPose, P!SetSourcePaused, P!sourceVars
  <2> QED BY <1>2, <2>1, <2>2, <2>3 DEF Operator
<1>3. CASE Poll
  BY <1>3, <1>u DEF Poll, PollFrame, Pump, P!PollFrame, P!PollSignals, serverVars,
     socketVars, P!sourceVars
<1>4. CASE Worker
  BY <1>4, <1>u DEF Worker, serverVars, socketVars, P!Worker, P!Fetch,
     P!FetchNothing, P!FrameArrives, P!Latch, P!StreamEnds, P!WorkerLocal,
     P!sourceVars
<1>5. ASSUME NEW s \in Sockets, Client(s) PROVE ReleasedWithClient'
  <2>1. CASE Opened(s)
    BY <2>1 DEF Opened, pipelineVars, SInv, SlotIsCounted
  <2>2. CASE RejectClient(s) \/ Hello(s) \/ GetServerStatus(s)
    BY <2>2, <1>u DEF RejectClient, Hello, GetServerStatus, pipelineVars
  <2>3. CASE ClientCommand(s)
    <3>1. clientCount = 1 /\ clientCount' = clientCount
      BY <2>3 DEF ClientCommand, socketVars, SInv, SlotIsCounted, Clients, Accepted
    <3>2. CASE OpensAs("client")
      <4>1. source' = opens + 1 /\ opens < MaxOpens
        BY <3>2 DEF OpensAs, P!OpenSource, P!InstallSource
      <4> QED BY <3>1, <4>1
    <3>3. CASE ClosesSource
      BY <3>3, <1>c
    <3>4. CASE /\ P!OpenFails \/ P!CalibrateRestPose \/ P!ClearRestPose
               /\ UNCHANGED opener
      BY <3>1, <3>4, <1>u DEF P!OpenFails, P!CalibrateRestPose, P!ClearRestPose,
         P!sourceVars
    <3> QED BY <2>3, <3>2, <3>3, <3>4 DEF ClientCommand
  <2>4. CASE Closed(s)
    <3>1. CASE socket[s] = "rejected"
      BY <2>4, <3>1, <1>u DEF Closed, pipelineVars, Accepted
    <3>2. CASE socket[s] \in Accepted
      <4>1. clientCount' = 0
        BY <2>4, <3>2 DEF Closed, SInv, SlotIsCounted, Clients, Accepted
      <4> QED BY <2>4, <3>2, <4>1, <1>c DEF Closed, Accepted
    <3> QED BY <2>4, <3>1, <3>2 DEF Closed
  <2> QED BY <1>5, <2>1, <2>2, <2>3, <2>4 DEF Client
<1>6. CASE UNCHANGED vars
  BY <1>6, <1>u DEF vars, pipelineVars, serverVars, socketVars
<1> QED BY <1>1, <1>2, <1>3, <1>4, <1>5, <1>6 DEF Next

\* No source stays open that was opened by a client which has gone.
THEOREM SourceReleased == Spec => []ReleasedWithClient
<1>1. Init => opens \in Nat /\ ReleasedWithClient
  BY DEF Init, P!Init, ReleasedWithClient
<1>2. opens \in Nat /\ [Next]_vars => opens' \in Nat
  BY PipelineStep, OpensStep
<1>3. SInv /\ (opens \in Nat /\ ReleasedWithClient) /\ [Next]_vars
         => (opens \in Nat /\ ReleasedWithClient)'
  BY <1>2, ReleaseStep
<1>4. Spec => [](opens \in Nat /\ ReleasedWithClient)
  BY <1>1, <1>3, SocketInvariant, PTL DEF Spec
<1> QED BY <1>4, PTL

-----------------------------------------------------------------------------
(* What a client knows.                                                     *)

\* Whatever moves the status leaves it flagged; only the signals of a poll take
\* the flag down.
LEMMA StatusStep ==
    [P!Next]_(P!vars) => \/ statusChanged' = TRUE
                         \/ source' = source /\ rest' = rest
                               /\ statusChanged' = statusChanged
                         \/ P!PollSignals
<1> SUFFICES ASSUME [P!Next]_(P!vars)
             PROVE  \/ statusChanged' = TRUE
                    \/ source' = source /\ rest' = rest
                          /\ statusChanged' = statusChanged
                    \/ P!PollSignals
  OBVIOUS
<1>1. CASE P!Command
  BY <1>1, Zenon DEF P!Command, P!OpenSource, P!OpenFails, P!CloseSource,
     P!StartRecording, P!StopRecording, P!CalibrateRestPose, P!ClearRestPose,
     P!SetSourcePaused, P!sourceVars
<1>2. CASE P!Worker
  BY <1>2, Zenon DEF P!Worker, P!Fetch, P!FetchNothing, P!FrameArrives, P!Latch,
     P!StreamEnds, P!WorkerLocal, P!sourceVars
<1>3. CASE P!Poll
  BY <1>3, Zenon DEF P!Poll, P!PollFrame, P!sourceVars
<1>4. CASE UNCHANGED P!vars
  BY <1>4, Zenon DEF P!vars
<1> QED BY <1>1, <1>2, <1>3, <1>4 DEF P!Next

\* Every step leaves a client that has shaken hands informed, or flags the status.
LEMMA InformedStep == SInv /\ ClientInformed /\ [Next]_vars => ClientInformed'
<1> SUFFICES ASSUME SInv, ClientInformed, [Next]_vars PROVE ClientInformed'
  OBVIOUS
<1> USE DEF SInv, SocketType
<1>p. [P!Next]_(P!vars)
  BY PipelineStep
<1>k. source' = source /\ rest' = rest => P!Status' = P!Status
  BY DEF P!Status
\* A step that tells nobody anything new and connects nobody.
<1>q. ASSUME ~P!PollSignals,
             \A s \in Sockets : socket'[s] = "handshaked"
                 => socket[s] = "handshaked" /\ told'[s] = told[s]
      PROVE  ClientInformed'
  BY <1>q, <1>p, <1>k, StatusStep DEF ClientInformed
<1>n. InLoop => ~P!PollSignals
  BY DEF InLoop, P!PollSignals
<1>1. CASE StartListening
  BY <1>1, <1>n, <1>q DEF StartListening, socketVars
<1>2. CASE StopListening
  BY <1>2, <1>n, <1>q DEF StopListening, NoSockets
<1>3. CASE Operator
  <2>1. ~P!PollSignals
    BY <1>3, <1>n DEF InLoop, Operator, OpensAs, ClosesSource, P!OpenSource,
       P!OpenFails, P!CloseSource, P!StartRecording, P!StopRecording,
       P!CalibrateRestPose, P!ClearRestPose, P!SetSourcePaused, P!PollSignals,
       pipelineVars, pollVars
  <2> QED BY <2>1, <1>3, <1>q DEF Operator, socketVars
<1>4. CASE PollFrame
  <2>1. ~P!PollSignals
    BY <1>4 DEF PollFrame, P!PollFrame, P!PollSignals
  <2> QED BY <2>1, <1>4, <1>q DEF PollFrame, serverVars, socketVars
<1>5. CASE Pump
  <2>1. P!Status' = P!Status
    BY <1>5, <1>k DEF Pump, P!PollSignals, P!sourceVars
  <2>2. ASSUME NEW s \in Sockets, socket'[s] = "handshaked"
        PROVE  told'[s] = P!Status
    <3>1. socket[s] = "handshaked" /\ s \in subscribed /\ listening
      BY <1>5, <2>2 DEF Pump, Connected
    <3>2. told'[s] = IF statusChanged THEN P!Status ELSE told[s]
      BY <1>5, <3>1, Zenon DEF Pump
    <3> QED BY <3>1, <3>2, Zenon DEF ClientInformed
  <2> QED BY <2>1, <2>2, Zenon DEF ClientInformed
<1>6. CASE Worker
  <2>1. ~P!PollSignals
    BY <1>6 DEF Worker, P!Worker, P!Fetch, P!FetchNothing, P!FrameArrives, P!Latch,
       P!StreamEnds, P!WorkerLocal, P!pollVars, P!PollSignals
  <2> QED BY <2>1, <1>6, <1>q DEF Worker, serverVars, socketVars
<1>7. ASSUME NEW s \in Sockets, Client(s) PROVE ClientInformed'
  <2>1. InLoop
    BY <1>7 DEF Client, Opened, RejectClient, Hello, GetServerStatus,
       ClientCommand, Closed
  <2>2. CASE Opened(s) \/ RejectClient(s) \/ ClientCommand(s)
    BY <2>1, <2>2, <1>n, <1>q DEF Opened, RejectClient, ClientCommand, socketVars
  <2>3. CASE Hello(s) \/ GetServerStatus(s)
    <3>1. /\ source' = source /\ rest' = rest /\ statusChanged' = statusChanged
          /\ told' = [told EXCEPT ![s] = P!Status]
          /\ \A t \in Sockets \ {s} : socket'[t] = socket[t]
      BY <2>3 DEF Hello, GetServerStatus, pipelineVars
    <3> QED BY <3>1, <1>k DEF ClientInformed
  <2>4. CASE Closed(s)
    BY <2>1, <2>4, <1>n, <1>q DEF Closed, Gone
  <2> QED BY <1>7, <2>2, <2>3, <2>4 DEF Client
<1>8. CASE UNCHANGED vars
  BY <1>8, <1>k DEF vars, serverVars, socketVars, pipelineVars, ClientInformed
<1> QED BY <1>1, <1>2, <1>3, <1>4, <1>5, <1>6, <1>7, <1>8 DEF Next, Listener, Poll

\* A client that has shaken hands knows the status, or a poll is about to tell it.
THEOREM InformedHolds == Spec => []ClientInformed
<1>1. Init => ClientInformed
  BY DEF Init, ClientInformed
<1> QED BY <1>1, InformedStep, SocketInvariant, PTL DEF Spec

-----------------------------------------------------------------------------
(* Types *)

SourceType == opens \in P!Sources /\ source \in P!Sources

\* The pipeline's steps keep the number of its source in range.
LEMMA SourceTypeStep == SourceType /\ [P!Next]_(P!vars) => SourceType'
<1> SUFFICES ASSUME SourceType, [P!Next]_(P!vars) PROVE SourceType'
  OBVIOUS
<1> USE ServerAssumption DEF ServerAssumption, SourceType, P!Sources, P!sourceVars
<1>1. CASE P!OpenSource
  BY <1>1 DEF P!OpenSource, P!InstallSource
<1>2. CASE P!Command /\ ~P!OpenSource
  BY <1>2 DEF P!Command, P!OpenFails, P!CloseSource, P!StartRecording,
     P!StopRecording, P!CalibrateRestPose, P!ClearRestPose, P!SetSourcePaused
<1>3. CASE P!Poll \/ P!Worker
  BY <1>3 DEF P!Poll, P!PollFrame, P!PollSignals, P!Worker, P!Fetch,
     P!FetchNothing, P!FrameArrives, P!Latch, P!StreamEnds, P!WorkerLocal
<1>4. CASE UNCHANGED P!vars
  BY <1>4 DEF P!vars
<1> QED BY <1>1, <1>2, <1>3, <1>4 DEF P!Next

\* Every variable of the server keeps its type.
THEOREM Typing == Spec => []TypeOK
<1>1. Init => SourceType /\ TypeOK
  <2> SUFFICES ASSUME Init PROVE SourceType /\ TypeOK
    OBVIOUS
  <2>1. opens = 0 /\ source = 0
    BY DEF Init, P!Init
  <2>2. SourceType
    BY <2>1, ServerAssumption DEF SourceType, P!Sources, ServerAssumption
  <2>3. /\ listening \in BOOLEAN /\ clientCount \in Nat /\ subscribed \subseteq Sockets
        /\ socket \in [Sockets -> SocketStates]
        /\ opener \in {"nobody", "operator", "client"}
    BY DEF Init, SocketStates
  <2>4. told \in [Sockets -> {NotTold} \cup (P!Sources \X BOOLEAN)]
    BY Zenon DEF Init
  <2> QED BY <2>2, <2>3, <2>4 DEF TypeOK
<1>2. SInv /\ SourceType /\ TypeOK /\ SInv' /\ [Next]_vars => TypeOK'
  <2> SUFFICES ASSUME SInv, SourceType, TypeOK, SInv', [Next]_vars PROVE TypeOK'
    OBVIOUS
  <2>1. /\ (listening \in BOOLEAN)' /\ (socket \in [Sockets -> SocketStates])'
        /\ (clientCount \in Nat)' /\ (subscribed \subseteq Sockets)'
    BY DEF SInv, SocketType
  <2>2. opener' \in {"nobody", "operator", "client"}
    BY DEF TypeOK, Next, Listener, StartListening, StopListening, Operator, OpensAs,
       ClosesSource, Poll, PollFrame, Pump, Worker, Client, Opened, RejectClient,
       Hello, GetServerStatus, ClientCommand, Closed, vars, serverVars
  <2>3. P!Status \in P!Sources \X BOOLEAN
    <3>1. source \in P!Sources /\ (rest # 0) \in BOOLEAN
      BY DEF SourceType
    <3> QED BY <3>1, Zenon DEF P!Status
  <2>4. told' \in [Sockets -> {NotTold} \cup (P!Sources \X BOOLEAN)]
    <3> DEFINE Told == {NotTold} \cup (P!Sources \X BOOLEAN)
    <3>1. NotTold \in Told /\ P!Status \in Told
      BY <2>3
    <3>2. told \in [Sockets -> Told]
      BY DEF TypeOK
    <3>3. \/ told' = told
          \/ told' = [s \in Sockets |-> NotTold]
          \/ \E s \in Sockets : \E m \in {NotTold, P!Status} :
                told' = [told EXCEPT ![s] = m]
          \/ told' = [s \in Sockets |->
                         IF listening /\ statusChanged /\ s \in subscribed
                         THEN P!Status ELSE told[s]]
      BY Zenon DEF Next, Listener, StartListening, StopListening, NoSockets, Operator,
         Poll, PollFrame, Pump, Worker, Client, Opened, RejectClient, Hello,
         GetServerStatus, ClientCommand, Closed, Gone, vars, serverVars, socketVars
    <3> HIDE DEF Told
    <3>4. told' \in [Sockets -> Told]
      BY <3>1, <3>2, <3>3, Zenon
    <3> QED BY <3>4 DEF Told
  <2> QED BY <2>1, <2>2, <2>4 DEF TypeOK
<1>3. SourceType /\ [Next]_vars => SourceType'
  BY PipelineStep, SourceTypeStep
<1> QED BY <1>1, <1>2, <1>3, SocketInvariant, PTL DEF Spec
=============================================================================
