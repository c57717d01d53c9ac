---------------------------- MODULE Matchmaking ----------------------------
(***************************************************************************)
(* A chat request from the requester's menu to both users in a chat:       *)
(* Central's handleConnection and requestMatch goroutines, the requester's *)
(* StartMatchmaking and runner, the target's list of chat requests and     *)
(* AcceptMessageRequest, and clients that quit at any time.                *)
(*                                                                         *)
(* TCP connections are FIFO and keep the boundaries of lines.  A request   *)
(* is the number of its handleConnection; its room has the same name.      *)
(***************************************************************************)
EXTENDS Naturals, Sequences

CONSTANTS
  User, Server,
  MayAsk,       \* bound: the users who begin a chat
  MayQuit,      \* the users whose client process may end
  Unregistered, \* the users whose registration at Central may have failed
  MaxRequests,  \* bound: requests made altogether
  None,
  NoName,       \* a name field left empty: nothing is sent
  BlankName     \* a name of white space only

ASSUME UsersAssumption == MayAsk \cup MayQuit \subseteq User /\ Unregistered \subseteq User
ASSUME MaxRequestsAssumption == MaxRequests \in Nat
ASSUME NamesAssumption == None \notin Server \cup User /\ {NoName, BlankName} \cap User = {}

Request == 1..MaxRequests

Name == User \cup {NoName, BlankName}

VARIABLES
  registered,   \* store: the users Central knows
  from, to,     \* per request: requester and requested name
  handler,      \* per request: program counter of handleConnection
  matcher,      \* per request: program counter of requestMatch
  toRequester,  \* per request: lines on the way to the requester
  runner,       \* per request: program counter of the runner's goroutine
  runnerServer, \* per request: the address the runner has read
  toTarget,     \* per request: responses on the way to the target
  targetConn,   \* per request: Central's connection to the target
  acceptSent,   \* per request: the target has written ACCEPT_REQ
  page,         \* per user: what its client shows, "gone" when it has ended
  ChatRequests, \* per user: requester -> request
  accepting,    \* per user: the request it has accepted
  chat          \* per user: its chat

central == <<registered, from, to, handler, matcher>>
requester == <<runner, runnerServer>>
target == <<acceptSent, ChatRequests, accepting>>
vars == <<central, toRequester, requester, toTarget, targetConn, target, page, chat>>

Line(type) == [type |-> type, value |-> None]

Chat(request, server) == [room |-> request, server |-> server]

Init ==
  /\ registered \in {User \ failed : failed \in SUBSET Unregistered}
  /\ from = [a \in Request |-> None]
  /\ to = [a \in Request |-> None]
  /\ handler = [a \in Request |-> "idle"]
  /\ matcher = [a \in Request |-> "none"]
  /\ toRequester = [a \in Request |-> <<>>]
  /\ runner = [a \in Request |-> "none"]
  /\ runnerServer = [a \in Request |-> None]
  /\ toTarget = [a \in Request |-> <<>>]
  /\ targetConn = [a \in Request |-> "none"]
  /\ acceptSent = [a \in Request |-> FALSE]
  /\ page = [u \in User |-> "menu"]
  /\ ChatRequests = [u \in User |-> [v \in User |-> None]]
  /\ accepting = [u \in User |-> None]
  /\ chat = [u \in User |-> None]

Online(u) == page[u] # "gone"

\* Lines written to a requester that has ended are lost.
WriteRequester(a, lines) ==
  toRequester' = IF Online(from[a])
                   THEN [toRequester EXCEPT ![a] = @ \o lines]
                   ELSE toRequester

WriteTarget(a, line) ==
  toTarget' = IF Online(to[a]) THEN [toTarget EXCEPT ![a] = Append(@, line)]
                               ELSE toTarget
----------------------------------------------------------------------------
\* The requester's client.

\* Begin Chat: StartMatchmaking connects and sends the name the user entered.
StartMatchmaking(a, u, v) ==
  /\ handler[a] = "idle"
  /\ \A b \in Request : b < a => handler[b] # "idle"
  /\ page[u] = "menu"
  /\ page' = [page EXCEPT ![u] = "matchmaking"]
  /\ from' = [from EXCEPT ![a] = u]
  /\ to' = [to EXCEPT ![a] = v]
  /\ handler' = [handler EXCEPT ![a] = "read"]
  /\ runner' = [runner EXCEPT ![a] = "ack"]
  /\ UNCHANGED <<registered, matcher, toRequester, runnerServer,
                 toTarget, targetConn, target, chat>>

\* The runner receives the next line from StartMatchmaking.
Receive(a, type) ==
  /\ toRequester[a] # <<>>
  /\ Head(toRequester[a]).type = type
  /\ toRequester' = [toRequester EXCEPT ![a] = Tail(@)]
  /\ UNCHANGED <<central, toTarget, targetConn, target>>

\* The runner goes on to its next state, on the same page.
RunnerGoes(a, state, next) ==
  /\ runner[a] = state
  /\ runner' = [runner EXCEPT ![a] = next]
  /\ UNCHANGED <<page, chat>>

\* The runner gives up: back to the menu, and the channel is closed.
BackToMenu(a) ==
  /\ runner' = [runner EXCEPT ![a] = "ended"]
  /\ page' = [page EXCEPT ![from[a]] = "menu"]
  /\ UNCHANGED <<runnerServer, chat>>

RunnerAck(a) ==
  \/ Receive(a, "ACK") /\ RunnerGoes(a, "ack", "sent") /\ UNCHANGED runnerServer
  \/ /\ runner[a] = "ack"
     /\ \E type \in {"Unauthorized", "USER_NOT_FOUND"} : Receive(a, type)
     /\ BackToMenu(a)

RunnerSent(a) ==
  \/ Receive(a, "REQ_SENT") /\ RunnerGoes(a, "sent", "await") /\ UNCHANGED runnerServer
  \/ runner[a] = "sent" /\ Receive(a, "USER_NOT_FOUND") /\ BackToMenu(a)

MutantRunnerGivesUp(a) ==
  \/ /\ UNCHANGED runnerServer
     /\ \/ \E type \in {"REQ_ACCEPTED", "SERVER_ERROR"} :
             Receive(a, type) /\ RunnerGoes(a, "await", "server")
        \/ Receive(a, "AWAITING_REQ") /\ RunnerGoes(a, "await", "await")
  \/ runner[a] = "await" /\ Receive(a, "USER_NOT_FOUND") /\ BackToMenu(a)

MutantRunnerAwait(a) ==
  /\ UNCHANGED runnerServer
  /\ \/ \E type \in {"REQ_ACCEPTED", "SERVER_ERROR", "USER_NOT_FOUND"} :
          Receive(a, type) /\ RunnerGoes(a, "await", "server")
     \/ \E type \in {"AWAITING_REQ", "IP", "RoomID"} :
          Receive(a, type) /\ RunnerGoes(a, "await", "await")

\* Waiting for the answer.  REQ_ACCEPTED and SERVER_ERROR end the loop; every
\* other line leaves the runner where it is.
RunnerAwait(a) ==
  /\ UNCHANGED runnerServer
  /\ \/ \E type \in {"REQ_ACCEPTED", "SERVER_ERROR"} :
          Receive(a, type) /\ RunnerGoes(a, "await", "server")
     \/ \E type \in {"AWAITING_REQ", "USER_NOT_FOUND", "IP", "RoomID"} :
          Receive(a, type) /\ RunnerGoes(a, "await", "await")

RunnerServer(a) ==
  \/ /\ Receive(a, "IP") /\ RunnerGoes(a, "server", "room")
     /\ runnerServer' = [runnerServer EXCEPT ![a] = Head(toRequester[a]).value]
  \/ /\ runner[a] = "server"
     /\ Receive(a, "SERVER_ERROR")
     /\ BackToMenu(a)

\* The room arrives: chatPage.
RunnerRoom(a) ==
  /\ runner[a] = "room"
  /\ Receive(a, "RoomID")
  /\ chat' = [chat EXCEPT ![from[a]] = Chat(Head(toRequester[a]).value, runnerServer[a])]
  /\ runner' = [runner EXCEPT ![a] = "ended"]
  /\ page' = [page EXCEPT ![from[a]] = "chat"]
  /\ UNCHANGED runnerServer
----------------------------------------------------------------------------
\* Central: handleConnection.

HandlerGoes(a, state, next) ==
  /\ handler[a] = state
  /\ handler' = [handler EXCEPT ![a] = next]
  /\ UNCHANGED <<registered, from, to, requester, target, page, chat>>

\* Central does not know the client's address.
Unauthorized(a) ==
  /\ HandlerGoes(a, "read", "closed")
  /\ from[a] \notin registered
  /\ WriteRequester(a, <<Line("Unauthorized")>>)
  /\ UNCHANGED <<matcher, toTarget, targetConn>>

\* GetRequestedUsername returns a name.
Acknowledge(a) ==
  /\ HandlerGoes(a, "read", "lookup")
  /\ from[a] \in registered
  /\ to[a] \in User
  /\ WriteRequester(a, <<Line("ACK")>>)
  /\ UNCHANGED <<matcher, toTarget, targetConn>>

MutantUserNotFound(a) ==
  /\ \/ /\ HandlerGoes(a, "read", "closed")
        /\ from[a] \in registered
        /\ to[a] = BlankName \/ (to[a] = NoName /\ ~Online(from[a]))
        /\ WriteRequester(a, <<Line("USER_NOT_FOUND")>>)
     \/ /\ HandlerGoes(a, "lookup", "closed")
        /\ to[a] \notin registered
        /\ UNCHANGED toRequester
  /\ UNCHANGED <<matcher, toTarget, targetConn>>

\* The name is blank, or the read fails because the requester has ended, or
\* the store does not know the name.
UserNotFound(a) ==
  /\ \/ /\ HandlerGoes(a, "read", "closed")
        /\ from[a] \in registered
        /\ to[a] = BlankName \/ (to[a] = NoName /\ ~Online(from[a]))
     \/ /\ HandlerGoes(a, "lookup", "closed")
        /\ to[a] \notin registered
  /\ WriteRequester(a, <<Line("USER_NOT_FOUND")>>)
  /\ UNCHANGED <<matcher, toTarget, targetConn>>

\* Central connects to the target and starts requestMatch.
RequestSent(a) ==
  /\ HandlerGoes(a, "lookup", "poll")
  /\ to[a] \in registered
  /\ Online(to[a])
  /\ targetConn' = [targetConn EXCEPT ![a] = "open"]
  /\ matcher' = [matcher EXCEPT ![a] = "write"]
  /\ WriteRequester(a, <<Line("REQ_SENT")>>)
  /\ UNCHANGED <<toTarget>>

\* The target cannot be dialled: the handler returns and says nothing.
DialFails(a) ==
  /\ HandlerGoes(a, "lookup", "closed")
  /\ to[a] \in registered
  /\ ~Online(to[a])
  /\ UNCHANGED <<matcher, toRequester, toTarget, targetConn>>

\* The poll loop finds no answer.  One such line on its way is enough.
AwaitingRequest(a) ==
  /\ HandlerGoes(a, "poll", "poll")
  /\ matcher[a] \notin {"accepted", "declined"}
  /\ \A k \in DOMAIN toRequester[a] : toRequester[a][k].type # "AWAITING_REQ"
  /\ WriteRequester(a, <<Line("AWAITING_REQ")>>)
  /\ UNCHANGED <<matcher, toTarget, targetConn>>

MutantAnswered(a) ==
  /\ HandlerGoes(a, "poll", "poll")
  /\ matcher[a] \in {"accepted", "declined"}
  /\ matcher' = [matcher EXCEPT ![a] = "done"]
  /\ WriteRequester(a, <<Line(IF matcher[a] = "accepted" THEN "REQ_ACCEPTED"
                                                        ELSE "USER_NOT_FOUND")>>)
  /\ UNCHANGED <<toTarget, targetConn>>

\* The poll loop takes the answer off the channel.  It goes on in both cases.
Answered(a) ==
  /\ HandlerGoes(a, "poll", "select")
  /\ matcher[a] \in {"accepted", "declined"}
  /\ matcher' = [matcher EXCEPT ![a] = "done"]
  /\ WriteRequester(a, <<Line(IF matcher[a] = "accepted" THEN "REQ_ACCEPTED"
                                                        ELSE "USER_NOT_FOUND")>>)
  /\ UNCHANGED <<toTarget, targetConn>>

\* No delay list or no common server: both are told; the connection to the
\* target is not closed.
ServerError(a) ==
  /\ HandlerGoes(a, "select", "closed")
  /\ WriteRequester(a, <<Line("SERVER_ERROR")>>)
  /\ WriteTarget(a, Line("SERVER_ERROR"))
  /\ targetConn' = [targetConn EXCEPT ![a] = "leaked"]
  /\ UNCHANGED matcher

MutantSendServer(a) ==
  /\ HandlerGoes(a, "select", "insert")
  /\ \E s1, s2 \in Server :
       /\ WriteRequester(a, <<[type |-> "IP", value |-> s1], [type |-> "RoomID", value |-> a]>>)
       /\ WriteTarget(a, [type |-> "IP", value |-> s2])
  /\ UNCHANGED <<matcher, targetConn>>

\* A server was found: its address and the room go to both.
SendServer(a) ==
  /\ HandlerGoes(a, "select", "insert")
  /\ \E server \in Server :
       LET ip == [type |-> "IP", value |-> server]
       IN  /\ WriteRequester(a, <<ip, [type |-> "RoomID", value |-> a]>>)
           /\ WriteTarget(a, ip)
  /\ UNCHANGED <<matcher, targetConn>>

\* InsertChatInstance, then both connections are closed.  No request reads the
\* table of chats: what the insertion does to it is in ChatTable and, access by
\* access, in ClientStore.
InsertAndClose(a) ==
  /\ HandlerGoes(a, "insert", "closed")
  /\ targetConn' = [targetConn EXCEPT ![a] = "closed"]
  /\ UNCHANGED <<matcher, toRequester, toTarget>>

\* The garbage collector closes a connection that nobody refers to any more.
CollectConn(a) ==
  /\ targetConn[a] = "leaked"
  /\ targetConn' = [targetConn EXCEPT ![a] = "closed"]
  /\ UNCHANGED <<central, toRequester, requester, toTarget, target, page, chat>>
----------------------------------------------------------------------------
\* Central: requestMatch.

MatcherGoes(a, state, next) ==
  /\ matcher[a] = state
  /\ matcher' = [matcher EXCEPT ![a] = next]
  /\ UNCHANGED <<registered, from, to, handler, toRequester,
                 requester, toTarget, targetConn, acceptSent, accepting, page, chat>>

\* The requester's name reaches the target, whose handleChatRequest lists it,
\* in the place of an earlier request of the same user.
DeliverRequest(a) ==
  /\ MatcherGoes(a, "write", "read")
  /\ Online(to[a])
  /\ ChatRequests' = [ChatRequests EXCEPT ![to[a]][from[a]] = a]

\* The target accepted.
ReadAccept(a) ==
  /\ MatcherGoes(a, "read", "accepted")
  /\ acceptSent[a]
  /\ UNCHANGED ChatRequests

\* The target's process ended without an answer: the write or the read fails.
ReadDecline(a) ==
  /\ MatcherGoes(a, "write", "declined") \/ MatcherGoes(a, "read", "declined")
  /\ ~Online(to[a])
  /\ ~acceptSent[a]
  /\ UNCHANGED ChatRequests
----------------------------------------------------------------------------
\* The target's client.

TargetGoes ==
  UNCHANGED <<central, toRequester, requester, targetConn, ChatRequests>>

\* The user accepts a listed request: AcceptMessageRequest writes ACCEPT_REQ
\* and waits.  A connection that is already closed ends the process.
AcceptMessageRequest(v, u) ==
  LET a == ChatRequests[v][u]
  IN  /\ page[v] = "menu"
      /\ a # None
      /\ IF targetConn[a] = "closed"
           THEN /\ page' = [page EXCEPT ![v] = "gone"]
                /\ UNCHANGED <<acceptSent, accepting>>
           ELSE /\ page' = [page EXCEPT ![v] = "accepting"]
                /\ acceptSent' = [acceptSent EXCEPT ![a] = TRUE]
                /\ accepting' = [accepting EXCEPT ![v] = a]
      /\ TargetGoes
      /\ UNCHANGED <<toTarget, chat>>

\* The response arrives: chatPage, or back to the menu after SERVER_ERROR.
ReadServer(v) ==
  LET a == accepting[v]
  IN  /\ page[v] = "accepting"
      /\ toTarget[a] # <<>>
      /\ toTarget' = [toTarget EXCEPT ![a] = Tail(@)]
      /\ accepting' = [accepting EXCEPT ![v] = None]
      /\ IF Head(toTarget[a]).type = "IP"
           THEN /\ page' = [page EXCEPT ![v] = "chat"]
                /\ chat' = [chat EXCEPT ![v] = Chat(a, Head(toTarget[a]).value)]
           ELSE /\ page' = [page EXCEPT ![v] = "menu"]
                /\ UNCHANGED chat
      /\ TargetGoes
      /\ UNCHANGED acceptSent

\* The connection ends before a response arrives: the process ends.
ReadServerFails(v) ==
  /\ page[v] = "accepting"
  /\ toTarget[accepting[v]] = <<>>
  /\ targetConn[accepting[v]] = "closed"
  /\ page' = [page EXCEPT ![v] = "gone"]
  /\ TargetGoes
  /\ UNCHANGED <<toTarget, acceptSent, accepting, chat>>

\* A client process ends, on whatever page it is.  What was on its way to it
\* is lost, and the other ends of its connections see them closed.
Quit(u) ==
  /\ u \in MayQuit
  /\ Online(u)
  /\ page' = [page EXCEPT ![u] = "gone"]
  /\ runner' = [a \in Request |-> IF from[a] = u THEN "ended" ELSE runner[a]]
  /\ toRequester' = [a \in Request |-> IF from[a] = u THEN <<>> ELSE toRequester[a]]
  /\ toTarget' = [a \in Request |-> IF to[a] = u THEN <<>> ELSE toTarget[a]]
  /\ chat' = [chat EXCEPT ![u] = None]
  /\ UNCHANGED <<central, runnerServer, targetConn, target>>
----------------------------------------------------------------------------
RunnerStep(a) ==
  RunnerAck(a) \/ RunnerSent(a) \/ RunnerAwait(a) \/ RunnerServer(a) \/ RunnerRoom(a)

HandlerStep(a) ==
  \/ Unauthorized(a) \/ Acknowledge(a) \/ UserNotFound(a) \/ RequestSent(a)
  \/ DialFails(a) \/ Answered(a) \/ ServerError(a) \/ SendServer(a)
  \/ InsertAndClose(a)

MatcherStep(a) == DeliverRequest(a) \/ ReadAccept(a) \/ ReadDecline(a)

Next ==
  \/ \E a \in Request :
       \/ \E u \in MayAsk : \E v \in Name : StartMatchmaking(a, u, v)
       \/ RunnerStep(a)
       \/ HandlerStep(a) \/ AwaitingRequest(a) \/ MatcherStep(a) \/ CollectConn(a)
  \/ \E v \in User :
       \/ \E u \in User : AcceptMessageRequest(v, u)
       \/ ReadServer(v) \/ ReadServerFails(v)
       \/ Quit(v)

Spec == Init /\ [][Next]_vars

\* Goroutines run on, and the garbage collector runs now and then; what users
\* do (ask, accept, quit) may never happen.
FairSpec ==
  /\ Spec
  /\ \A a \in Request :
       /\ WF_vars(RunnerStep(a))
       /\ WF_vars(HandlerStep(a))
       /\ WF_vars(MatcherStep(a))
       /\ WF_vars(CollectConn(a))
  /\ \A v \in User : WF_vars(ReadServer(v) \/ ReadServerFails(v))
----------------------------------------------------------------------------
LineType ==
  {"ACK", "Unauthorized", "USER_NOT_FOUND", "REQ_SENT", "AWAITING_REQ",
   "REQ_ACCEPTED", "SERVER_ERROR", "IP", "RoomID"}

Lines == [type : LineType, value : Server \cup Request \cup {None}]

Answers == [type : {"IP", "SERVER_ERROR"}, value : Server \cup {None}]

\* Every program counter names a point of its goroutine, and a client shows
\* one page; a user in a chat has a room and the address of a chat server.
TypeOK ==
  /\ registered \subseteq User
  /\ from \in [Request -> User \cup {None}]
  /\ to \in [Request -> Name \cup {None}]
  /\ handler \in [Request -> {"idle", "read", "lookup", "poll", "select", "insert", "closed"}]
  /\ matcher \in [Request -> {"none", "write", "read", "accepted", "declined", "done"}]
  /\ toRequester \in [Request -> Seq(Lines)]
  /\ runner \in [Request -> {"none", "ack", "sent", "await", "server", "room", "ended"}]
  /\ runnerServer \in [Request -> Server \cup {None}]
  /\ toTarget \in [Request -> Seq(Answers)]
  /\ targetConn \in [Request -> {"none", "open", "leaked", "closed"}]
  /\ acceptSent \in [Request -> BOOLEAN]
  /\ page \in [User -> {"menu", "matchmaking", "accepting", "chat", "gone"}]
  /\ ChatRequests \in [User -> [User -> Request \cup {None}]]
  /\ accepting \in [User -> Request \cup {None}]
  /\ chat \in [User -> [room : Request, server : Server] \cup {None}]
  /\ \A u \in User : page[u] # "chat" => chat[u] = None

\* Once the runner has closed the response channel no line reaches
\* StartMatchmaking any more: sending it on would be a send on a closed
\* channel, which ends the client's process.
NoSendOnClosedChannel ==
  \A a \in Request :
    (runner[a] = "ended" /\ Online(from[a])) => toRequester[a] = <<>>

\* A user enters a chat room only after the user who was asked has accepted,
\* although the handler goes on and sends the server's address after a
\* refusal too.
ChatOnlyIfAccepted ==
  \A u \in User : chat[u] # None => acceptSent[chat[u].room]

\* Two users in the same room are the two of its request, and both have gone
\* to the same chat server.
PartnersAgree ==
  \A u, v \in User :
    (u # v /\ chat[u] # None /\ chat[v] # None /\ chat[u].room = chat[v].room)
      => /\ chat[u].server = chat[v].server
         /\ {u, v} = {from[chat[u].room], to[chat[u].room]}

\* An accepted request comes to an end on both sides: the requester gets to a
\* chat or the menu, and who has accepted does not stay on the accepting page.
AcceptedEnds ==
  /\ \A a \in Request : acceptSent[a] ~> runner[a] = "ended"
  /\ \A v \in User : page[v] = "accepting" ~> page[v] # "accepting"

\* When Central has closed the requester's connection the runner comes off
\* the matchmaking page.  One case is left: the user who was asked had gone
\* without accepting, and the requester is told nothing, or something its
\* runner passes over.
StrandedOnlyByGoneTarget ==
  \A a \in Request :
    handler[a] = "closed" ~>
      \/ runner[a] = "ended"
      \/ to[a] \in registered /\ ~Online(to[a]) /\ ~acceptSent[a]
============================================================================
