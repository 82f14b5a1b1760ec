----------------------------- MODULE WebClient -----------------------------
(***************************************************************************)
(* The web client's connection panel, its socket and the server as it sees *)
(* it.                                                                     *)
(*   browser   runs one callback at a time: a click, the status timer, an  *)
(*             event of the socket;                                        *)
(*   server    handles what the socket brings, in order, and publishes the *)
(*             status when a poll finds it changed;                        *)
(*   others    the operator and other clients of the single slot.          *)
(* Both directions keep their order until the socket is gone.  The socket  *)
(* library drops what it cannot buffer for a slow client.  Request ids are *)
(* never used twice, so a request and its Ack are named for what was asked.*)
(* A definition marked FAULTY is a defect that one of the properties at    *)
(* the end catches; the specification does not use it.                     *)
(***************************************************************************)
EXTENDS Naturals, FiniteSets, Sequences

CONSTANT MaxQueue      \* bound: messages under way in one direction

ASSUME WebAssumption == MaxQueue \in Nat \ {0}

VARIABLES
    \* the page
    readyState,        \* ws.readyState, "closed" when there is none
    helloPending,      \* _helloRequestId # null
    connected, connecting, opened, pending,
    statusPoll,        \* statusPollTimer # null
    \* the socket
    requests, replies,
    \* the server
    slot,              \* whose socket it counts: "free", "ours", "other"
    handshaked,        \* of our socket
    streamOpened,      \* pipeline.is_source_open()
    statusChanged,     \* what the next poll() finds
    ackLost            \* history: an Ack of this connection was dropped

panelVars  == <<connected, connecting, opened, pending, statusPoll>>
pageVars   == <<readyState, helloPending, panelVars>>
socketVars == <<requests, replies, ackLost>>
streamVars == <<streamOpened, statusChanged>>
serverVars == <<slot, handshaked, streamVars>>
webVars    == <<pageVars, socketVars, serverVars>>

Commands == {"Open", "Close", "Rest"}

Status(b) == [is |-> "Status", opened |-> b]
Reply(m)  == [is |-> m]

WebInit ==
    /\ readyState = "closed" /\ helloPending = FALSE
    /\ connected = FALSE /\ connecting = FALSE
    /\ opened = FALSE /\ pending = FALSE /\ statusPoll = FALSE
    /\ requests = <<>> /\ replies = <<>> /\ ackLost = FALSE
    /\ slot = "free" /\ handshaked = FALSE
    /\ streamOpened = FALSE /\ statusChanged = FALSE

-----------------------------------------------------------------------------
(* The page: main.js and pose-client.js                                     *)

\* _send(): without an open socket the request is lost, and nobody is told.
Send(m) ==
    requests' = IF readyState = "open" THEN Append(requests, m) ELSE requests

\* There is room for one more click or tick.
Room == Len(requests) < MaxQueue

DoConnect ==
    /\ ~connected /\ ~connecting
    /\ connecting' = TRUE
    /\ readyState' = "connecting"
    /\ UNCHANGED <<helloPending, connected, opened, pending, statusPoll,
                   socketVars, serverVars>>

\* What is still sent is received; what is still to be received is not.
DoDisconnect ==
    /\ connected /\ readyState = "open"
    /\ readyState' = "closing"
    /\ requests' = Append(requests, "Disconnect")
    /\ UNCHANGED <<helloPending, panelVars, replies, ackLost, serverVars>>

\* The buttons refresh() leaves enabled; their handlers await the Ack.
DoCommand(c) ==
    /\ connected /\ ~pending /\ Room
    /\ c = "Open" <=> ~opened
    /\ pending' = TRUE
    /\ Send(c)
    /\ UNCHANGED <<readyState, helloPending, connected, connecting, opened, statusPoll,
                   replies, ackLost, serverVars>>

StatusPoll ==
    /\ statusPoll /\ Room
    /\ Send("GetServerStatus")
    /\ UNCHANGED <<pageVars, replies, ackLost, serverVars>>

OnOpen ==
    /\ readyState' = "open"
    /\ helloPending' = TRUE
    /\ requests' = Append(requests, "Hello")
    /\ UNCHANGED panelVars

ReadyWithoutPoll ==                                             \* FAULTY
    /\ helloPending' = FALSE
    /\ connecting' = FALSE /\ connected' = TRUE
    /\ UNCHANGED <<readyState, opened, pending, statusPoll, requests>>

OnReady ==
    /\ helloPending' = FALSE
    /\ connecting' = FALSE /\ connected' = TRUE
    /\ statusPoll' = TRUE
    /\ UNCHANGED <<readyState, opened, pending, requests>>

OnAck ==
    /\ pending' = FALSE
    /\ UNCHANGED <<readyState, helloPending, connected, connecting, opened, statusPoll,
                   requests>>

\* The Hello's Ack settles the handshake, any other one a command.
HandleAck(hello) ==
    \/ hello /\ helloPending /\ OnReady
    \/ ~(hello /\ helloPending) /\ OnAck

OnStatus(b) ==
    /\ opened' = b
    /\ UNCHANGED <<readyState, helloPending, connected, connecting, pending, statusPoll,
                   requests>>

CloseKeepingPending ==                                          \* FAULTY
    /\ readyState' = "closed" /\ helloPending' = FALSE
    /\ connected' = FALSE /\ connecting' = FALSE
    /\ opened' = FALSE /\ UNCHANGED pending /\ statusPoll' = FALSE
    /\ requests' = <<>> /\ replies' = <<>> /\ ackLost' = FALSE

\* The socket is gone, with all that was under way.
OnClose ==
    /\ readyState' = "closed" /\ helloPending' = FALSE
    /\ connected' = FALSE /\ connecting' = FALSE
    /\ opened' = FALSE /\ pending' = FALSE /\ statusPoll' = FALSE
    /\ requests' = <<>> /\ replies' = <<>> /\ ackLost' = FALSE

\* An event of the socket.  One that is closing has no use for messages.
Receive ==
    /\ replies # <<>>
    /\ LET m == Head(replies)
       IN  \/ m.is = "Closed" /\ OnClose
           \/ /\ m.is # "Closed"
              /\ replies' = Tail(replies) /\ UNCHANGED ackLost
              /\ \/ readyState = "connecting" /\ m.is = "Upgraded" /\ OnOpen
                 \/ readyState = "open" /\ m.is \in {"HelloAck", "Ack"}
                                        /\ HandleAck(m.is = "HelloAck")
                 \/ readyState = "open" /\ m.is = "Status" /\ OnStatus(m.opened)
                 \/ readyState = "closing" /\ UNCHANGED <<pageVars, requests>>
    /\ UNCHANGED serverVars

-----------------------------------------------------------------------------
(* The server, by what the client can tell of it                            *)

Posted(m)    == replies' = Append(replies, m)
MayBeLost(m) == Posted(m) \/ UNCHANGED replies

\* A source is opened, over an open one or not, or what is open is closed.
Streams(b) ==
    /\ streamOpened' = b
    /\ statusChanged' = (statusChanged \/ b \/ streamOpened)

\* The rest pose is changed, or a command fails.
Flags == statusChanged' \in {statusChanged, TRUE} /\ UNCHANGED streamOpened

\* close_source() by the close handler of the last client.
Released == slot' = "free" /\ handshaked' = FALSE /\ Streams(FALSE)

\* The upgrade; without a free slot the socket is ended at once.
ServerOpens ==
    /\ readyState = "connecting" /\ replies = <<>>
    /\ \/ slot = "free" /\ slot' = "ours" /\ Posted(Reply("Upgraded"))
       \/ slot = "other" /\ UNCHANGED slot
          /\ replies' = <<Reply("Upgraded"), Reply("Closed")>>
    /\ UNCHANGED <<pageVars, requests, ackLost, handshaked, streamVars>>

ServerGreets ==
    /\ handshaked' = TRUE
    /\ replies' = replies \o <<Reply("HelloAck"), Status(streamOpened)>>
    /\ UNCHANGED <<ackLost, slot, streamVars>>

\* Every command is Acked, done or failed; a poll publishes the new status.
ServerObeys(c) ==
    /\ \/ c = "Open"  /\ (Streams(TRUE) \/ Flags)
       \/ c = "Close" /\ Streams(FALSE)
       \/ c = "Rest"  /\ Flags
    /\ \/ Posted(Reply("Ack")) /\ UNCHANGED ackLost
       \/ UNCHANGED replies /\ ackLost' = TRUE
    /\ UNCHANGED <<slot, handshaked>>

ServerTells ==
    /\ MayBeLost(Status(streamOpened))
    /\ UNCHANGED <<ackLost, serverVars>>

ServerDisconnects ==
    /\ Posted(Reply("Closed"))
    /\ Released
    /\ UNCHANGED ackLost

ServerReceives ==
    /\ requests # <<>> /\ slot = "ours" /\ Len(replies) < MaxQueue
    /\ requests' = Tail(requests)
    /\ LET m == Head(requests)
       IN  \/ m = "Hello" /\ ServerGreets
           \/ m \in Commands /\ handshaked /\ ServerObeys(m)
           \/ m = "GetServerStatus" /\ handshaked /\ ServerTells
           \/ m = "Disconnect" /\ ServerDisconnects
    /\ UNCHANGED pageVars

\* The server ends our socket: a Hello of another version, the listener's stop.
ServerEnds ==
    /\ slot = "ours"
    /\ ServerDisconnects
    /\ UNCHANGED <<pageVars, requests>>

\* A poll publishes a changed status to whoever has subscribed.
Publish ==
    /\ statusChanged /\ Len(replies) < MaxQueue
    /\ statusChanged' = FALSE
    /\ IF slot = "ours" /\ handshaked THEN MayBeLost(Status(streamOpened))
                                      ELSE UNCHANGED replies
    /\ UNCHANGED <<pageVars, requests, ackLost, slot, handshaked, streamOpened>>

-----------------------------------------------------------------------------
(* The network and the others                                               *)

\* No such server, or the connection breaks: onerror and onclose.  A server that had
\* accepted the socket counts it until it notices.
Broken ==
    /\ readyState # "closed"
    /\ OnClose
    /\ slot' = IF slot = "ours" THEN "other" ELSE slot
    /\ handshaked' = FALSE
    /\ UNCHANGED streamVars

OtherComes ==
    /\ slot = "free" /\ slot' = "other"
    /\ UNCHANGED <<pageVars, socketVars, handshaked, streamVars>>

OtherLeaves ==
    /\ slot = "other"
    /\ Released
    /\ UNCHANGED <<pageVars, socketVars>>

\* The operator, or another client.
OtherCommand ==
    /\ Flags \/ \E b \in BOOLEAN : Streams(b)
    /\ UNCHANGED <<pageVars, socketVars, slot, handshaked>>

-----------------------------------------------------------------------------
Page   == DoConnect \/ DoDisconnect \/ StatusPoll \/ Receive \/ \E c \in Commands : DoCommand(c)
Server == ServerOpens \/ ServerReceives \/ ServerEnds \/ Publish
Others == Broken \/ OtherComes \/ OtherLeaves \/ OtherCommand

WebNext == Page \/ Server \/ Others

\* A reply that was not dropped.
Answered == ServerReceives /\ Head(requests) = "GetServerStatus" /\ replies' # replies

(* The timer ticks, the browser runs its callbacks and the server its handlers.  A  *)
(* client that reads empties the library's buffer, so an answer that is asked for   *)
(* again and again is not dropped every time.                                       *)
WebFairness ==
    /\ WF_webVars(StatusPoll) /\ WF_webVars(Receive)
    /\ WF_webVars(ServerReceives) /\ SF_webVars(Answered)

WebSpec == WebInit /\ [][WebNext]_webVars /\ WebFairness

-----------------------------------------------------------------------------
(* Properties *)

Count(seq, S) == Cardinality({i \in DOMAIN seq : seq[i] \in S})

\* Commands whose Ack the page has not had.
Outstanding ==
    Count(requests, Commands) + Count(replies, {Reply("Ack")}) + (IF ackLost THEN 1 ELSE 0)

\* main.js:38, pose-client.js:131: while the socket is open the page awaits an Ack
\* exactly when one command is under way, across reconnections, drops and clicks on a
\* dying socket; and what reaches the server first is the Hello, and one Hello only.
OneCommandAtATime ==
    readyState = "open" /\ slot = "ours" =>
        /\ Outstanding = IF pending THEN 1 ELSE 0
        /\ Count(requests, {"Hello"}) + Count(replies, {Reply("HelloAck")})
              = IF helloPending THEN 1 ELSE 0
        /\ ~handshaked /\ requests # <<>> => Head(requests) = "Hello"

\* exo_pose_server.cc:429: what the library drops is not sent again, but a page that
\* stays connected comes to show whether a source is open, once that stays as it is.
StatusResyncs ==
    \A b \in BOOLEAN :
        <>[](connected /\ readyState = "open" /\ slot = "ours" /\ streamOpened = b)
            => <>[](opened = b)
=============================================================================
