------------------------- MODULE MatchmakingProofs -------------------------
(***************************************************************************)
(* What users may rely on when they are matched, for any number of users   *)
(* and requests: they enter a chat only when it was accepted, together,    *)
(* and no line comes for a runner that has stopped to listen.              *)
(***************************************************************************)
EXTENDS Matchmaking, SequenceTheorems, TLAPS

USE UsersAssumption, MaxRequestsAssumption, NamesAssumption

\* The runner as an automaton that reads lines.  The address of the server
\* takes it on only when the request was accepted.
Moves(accepted, r, type, next) ==
  \/ r = "ack" /\ type = "ACK" /\ next = "sent"
  \/ r = "ack" /\ type \in {"Unauthorized", "USER_NOT_FOUND"} /\ next = "ended"
  \/ r = "sent" /\ type = "REQ_SENT" /\ next = "await"
  \/ r = "sent" /\ type = "USER_NOT_FOUND" /\ next = "ended"
  \/ r = "await" /\ type \in {"REQ_ACCEPTED", "SERVER_ERROR"} /\ next = "server"
  \/ r = "await" /\ type \in {"AWAITING_REQ", "USER_NOT_FOUND", "IP", "RoomID"} /\ next = "await"
  \/ r = "server" /\ type = "IP" /\ accepted = TRUE /\ next = "room"
  \/ r = "server" /\ type = "SERVER_ERROR" /\ next = "ended"
  \/ r = "room" /\ type = "RoomID" /\ next = "ended"

RunnerState == {"none", "ack", "sent", "await", "server", "room", "ended"}

\* The lines q take the runner from r to e.
Run(accepted, r, q, e) ==
  \E g \in [1..(Len(q) + 1) -> RunnerState] :
    /\ g[1] = r
    /\ g[Len(q) + 1] = e
    /\ \A k \in 1..Len(q) : Moves(accepted, g[k], q[k].type, g[k + 1])

\* Where the lines that the handler has written leave the runner.
EndOK(a, e) ==
  /\ handler[a] = "read" => e = "ack"
  /\ handler[a] = "lookup" => e = "sent"
  /\ handler[a] = "poll" => e = "await"
  /\ handler[a] = "select" => e = "await" \/ (e = "server" /\ acceptSent[a] = TRUE)

\* Handler and runner of a request: the lines between them take the runner to
\* where the handler expects it.
Flow(a) ==
  /\ handler[a] = "idle" => /\ from[a] = None /\ to[a] = None /\ runner[a] = "none"
                            /\ toRequester[a] = <<>>
  /\ handler[a] # "idle" => from[a] \in User /\ to[a] \in Name /\ runner[a] # "none"
  /\ (handler[a] # "idle" /\ Online(from[a])) =>
       \E e \in RunnerState : Run(acceptSent[a], runner[a], toRequester[a], e) /\ EndOK(a, e)
  /\ (handler[a] # "idle" /\ ~Online(from[a])) =>
       runner[a] = "ended" /\ toRequester[a] = <<>>

\* A runner that is at work has its user's page to itself.
Active(a) == runner[a] \notin {"none", "ended"}

PageInv ==
  /\ \A a \in Request : Active(a) => page[from[a]] = "matchmaking"
  /\ \A a, b \in Request : (Active(a) /\ Active(b) /\ from[a] = from[b]) => a = b

\* What the target has been asked and has answered.
AcceptInv ==
  /\ \A a \in Request : matcher[a] = "accepted" => acceptSent[a] = TRUE
  /\ \A a \in Request : matcher[a] # "none" => to[a] \in User /\ handler[a] # "idle"
  /\ \A v, u \in User : ChatRequests[v][u] # None =>
       /\ to[ChatRequests[v][u]] = v /\ from[ChatRequests[v][u]] = u
       /\ handler[ChatRequests[v][u]] # "idle"
  /\ \A v \in User : page[v] = "accepting" =>
       /\ accepting[v] \in Request
       /\ to[accepting[v]] = v /\ handler[accepting[v]] # "idle"
       /\ acceptSent[accepting[v]] = TRUE

\* The server of a request, once the handler has chosen it, is the only one
\* that anybody hears of.
Chosen(a) == handler[a] \in {"insert", "closed"}

OnlyServer(a, server) ==
  /\ \A k \in 1..Len(toRequester[a]) :
       toRequester[a][k].type = "IP" => Chosen(a) /\ toRequester[a][k].value = server
  /\ \A k \in 1..Len(toTarget[a]) :
       toTarget[a][k].type = "IP" => Chosen(a) /\ toTarget[a][k].value = server
  /\ runner[a] = "room" => Chosen(a) /\ acceptSent[a] = TRUE /\ runnerServer[a] = server
  /\ \A u \in User : (chat[u] # None /\ chat[u].room = a) =>
       /\ Chosen(a) /\ acceptSent[a] = TRUE
       /\ chat[u].server = server
       /\ u = from[a] \/ u = to[a]

ServerOK(a) ==
  /\ \E server \in Server \cup {None} : OnlyServer(a, server)
  /\ \A k \in 1..Len(toRequester[a]) :
       /\ toRequester[a][k].type = "RoomID" => toRequester[a][k].value = a
       /\ toRequester[a][k].type = "IP" => toRequester[a][k].value \in Server
  /\ \A k \in 1..Len(toTarget[a]) :
       toTarget[a][k].type = "IP" => toTarget[a][k].value \in Server
  /\ runner[a] = "room" => runnerServer[a] \in Server

ServerInv == \A a \in Request : ServerOK(a)

FlowInv == \A a \in Request : Flow(a)

MatchInv == FlowInv /\ PageInv /\ AcceptInv /\ ServerInv
----------------------------------------------------------------------------
\* No line, no move.
LEMMA RunEmpty ==
  ASSUME NEW acc, NEW r \in RunnerState, NEW e
  PROVE  Run(acc, r, <<>>, e) <=> r = e
<1>1. ASSUME r = e
      PROVE  Run(acc, r, <<>>, e)
  <2> DEFINE g == [k \in 1..(Len(<<>>) + 1) |-> r]
  <2>1. Len(<<>>) = 0 /\ g \in [1..(Len(<<>>) + 1) -> RunnerState] /\ g[1] = r
    OBVIOUS
  <2> HIDE DEF g
  <2> QED
    BY <1>1, <2>1 DEF Run
<1> QED
  BY <1>1 DEF Run

\* A line more takes the run one move further.
LEMMA RunAppend ==
  ASSUME NEW S, NEW acc, NEW r, NEW q \in Seq(S), NEW e \in RunnerState,
         NEW line \in S, NEW f \in RunnerState,
         Run(acc, r, q, e), Moves(acc, e, line.type, f)
  PROVE  Run(acc, r, Append(q, line), f)
<1>1. PICK g \in [1..(Len(q) + 1) -> RunnerState] :
        /\ g[1] = r
        /\ g[Len(q) + 1] = e
        /\ \A k \in 1..Len(q) : Moves(acc, g[k], q[k].type, g[k + 1])
  BY DEF Run
<1> DEFINE p == Append(q, line)
           h == [k \in 1..(Len(p) + 1) |-> IF k = Len(p) + 1 THEN f ELSE g[k]]
<1>2. Len(q) \in Nat /\ Len(p) = Len(q) + 1 /\ p[Len(p)] = line
      /\ \A k \in 1..Len(q) : p[k] = q[k]
  OBVIOUS
<1>3. h \in [1..(Len(p) + 1) -> RunnerState] /\ h[1] = r /\ h[Len(p) + 1] = f
  BY <1>1, <1>2
<1>4. ASSUME NEW k \in 1..Len(p)
      PROVE  Moves(acc, h[k], p[k].type, h[k + 1])
  <2>1. CASE k = Len(p)
    <3>1. h[k] = e /\ h[k + 1] = f /\ p[k] = line
      BY <1>1, <1>2, <2>1
    <3> QED
      BY <3>1
  <2>2. CASE k # Len(p)
    <3>1. k \in 1..Len(q) /\ h[k] = g[k] /\ h[k + 1] = g[k + 1] /\ p[k] = q[k]
      BY <1>1, <1>2, <2>2
    <3> QED
      BY <1>1, <3>1
  <2> QED
    BY <2>1, <2>2
<1> HIDE DEF h, p
<1> QED
  BY <1>3, <1>4 DEF Run, p

\* The first line is the runner's next move.
LEMMA RunTail ==
  ASSUME NEW S, NEW acc, NEW r, NEW q \in Seq(S), q # <<>>, NEW e, Run(acc, r, q, e)
  PROVE  \E n \in RunnerState : Moves(acc, r, Head(q).type, n) /\ Run(acc, n, Tail(q), e)
<1>1. PICK g \in [1..(Len(q) + 1) -> RunnerState] :
        /\ g[1] = r
        /\ g[Len(q) + 1] = e
        /\ \A k \in 1..Len(q) : Moves(acc, g[k], q[k].type, g[k + 1])
  BY DEF Run
<1> DEFINE p == Tail(q)
           h == [k \in 1..(Len(p) + 1) |-> g[k + 1]]
<1>2. Len(q) \in Nat /\ Len(q) > 0 /\ Len(p) = Len(q) - 1 /\ Head(q) = q[1]
      /\ \A k \in 1..Len(p) : p[k] = q[k + 1]
  OBVIOUS
<1>3. h \in [1..(Len(p) + 1) -> RunnerState] /\ h[1] = g[2] /\ h[Len(p) + 1] = e
  BY <1>1, <1>2
<1>4. ASSUME NEW k \in 1..Len(p)
      PROVE  Moves(acc, h[k], p[k].type, h[k + 1])
  <2>1. k + 1 \in 1..Len(q) /\ h[k] = g[k + 1] /\ h[k + 1] = g[(k + 1) + 1] /\ p[k] = q[k + 1]
    BY <1>2
  <2> QED
    BY <1>1, <2>1
<1>5. g[2] \in RunnerState /\ Moves(acc, r, Head(q).type, g[2])
  BY <1>1, <1>2
<1>6. Run(acc, g[2], p, e)
  <2> HIDE DEF h, p
  <2> QED
    BY <1>3, <1>4 DEF Run
<1> QED
  BY <1>5, <1>6

\* An acceptance that comes later takes no move away.
LEMMA RunAccepted ==
  ASSUME NEW acc, NEW r, NEW q, NEW e, Run(acc, r, q, e)
  PROVE  Run(TRUE, r, q, e)
BY DEF Run, Moves

\* A runner that has ended reads nothing.
LEMMA RunEnded ==
  ASSUME NEW S, NEW acc, NEW q \in Seq(S), NEW e, Run(acc, "ended", q, e)
  PROVE  q = <<>>
BY RunTail DEF Moves

\* How lines are put at the end of a connection.
LEMMA Concat ==
  ASSUME NEW S, NEW q \in Seq(S), NEW x \in S
  PROVE  q \o <<x>> = Append(q, x)
OBVIOUS

LEMMA HeadAndTail ==
  ASSUME NEW S, NEW q \in Seq(S), q # <<>>
  PROVE  /\ Head(q) = q[1] /\ 1 \in 1..Len(q) /\ Tail(q) \in Seq(S)
         /\ \A k \in 1..Len(Tail(q)) : k + 1 \in 1..Len(q) /\ Tail(q)[k] = q[k + 1]
OBVIOUS

LEMMA LinesOfAppend ==
  ASSUME NEW S, NEW q \in Seq(S), NEW x \in S
  PROVE  /\ Append(q, x) \in Seq(S)
         /\ \A k \in 1..Len(Append(q, x)) :
              (k \in 1..Len(q) /\ Append(q, x)[k] = q[k]) \/ Append(q, x)[k] = x
OBVIOUS

LEMMA ConcatTwo ==
  ASSUME NEW S, NEW q \in Seq(S), NEW x \in S, NEW y \in S
  PROVE  q \o <<x, y>> = Append(Append(q, x), y)
OBVIOUS
----------------------------------------------------------------------------
\* Types of what the connections carry.
LEMMA LineTypes ==
  /\ \A type \in LineType : Line(type) \in Lines
  /\ \A server \in Server : [type |-> "IP", value |-> server] \in Lines
  /\ \A server \in Server : [type |-> "IP", value |-> server] \in Answers
  /\ \A a \in Request : [type |-> "RoomID", value |-> a] \in Lines
  /\ Line("SERVER_ERROR") \in Answers
BY DEF Line, Lines, Answers, LineType

LEMMA WriteRequesterType ==
  ASSUME TypeOK, NEW a \in Request, NEW lines \in Seq(Lines), WriteRequester(a, lines)
  PROVE  toRequester' \in [Request -> Seq(Lines)]
<1>1. toRequester[a] \o lines \in Seq(Lines)
  BY DEF TypeOK
<1> QED
  BY <1>1 DEF TypeOK, WriteRequester

LEMMA WriteTargetType ==
  ASSUME TypeOK, NEW a \in Request, NEW line \in Answers, WriteTarget(a, line)
  PROVE  toTarget' \in [Request -> Seq(Answers)]
<1>1. Append(toTarget[a], line) \in Seq(Answers)
  BY DEF TypeOK
<1> QED
  BY <1>1 DEF TypeOK, WriteTarget

LEMMA ReceiveType ==
  ASSUME TypeOK, NEW a \in Request, NEW type, Receive(a, type)
  PROVE  toRequester' \in [Request -> Seq(Lines)]
<1>1. Tail(toRequester[a]) \in Seq(Lines)
  BY DEF TypeOK, Receive
<1> QED
  BY <1>1 DEF TypeOK, Receive

\* The runner's actions keep the types.
LEMMA RunnerTypeStep ==
  ASSUME TypeOK, FlowInv, PageInv, ServerInv, NEW a \in Request, RunnerStep(a)
  PROVE  TypeOK'
<1> USE DEF TypeOK
<1>1. PICK type : Receive(a, type)
  BY DEF RunnerStep, RunnerAck, RunnerSent, RunnerAwait, RunnerServer, RunnerRoom
<1>2. /\ UNCHANGED <<registered, from, to, handler, matcher, toTarget, targetConn,
                     acceptSent, ChatRequests, accepting>>
      /\ toRequester' \in [Request -> Seq(Lines)]
  BY <1>1, ReceiveType DEF Receive, central, target
<1>3. from[a] \in User
  BY <1>1 DEF Receive, FlowInv, Flow
<1>4. CASE \E state, next : /\ RunnerGoes(a, state, next) /\ UNCHANGED runnerServer
                            /\ next \in RunnerState
  BY <1>2, <1>4 DEF RunnerGoes, RunnerState
<1>5. CASE BackToMenu(a) /\ page[from[a]] = "matchmaking"
  BY <1>2, <1>3, <1>5 DEF BackToMenu
<1>6. CASE /\ Receive(a, "IP") /\ RunnerGoes(a, "server", "room")
           /\ runnerServer' = [runnerServer EXCEPT ![a] = Head(toRequester[a]).value]
  <2>1. Head(toRequester[a]).value \in Server
    <3>1. /\ toRequester[a] \in Seq(Lines) /\ toRequester[a] # <<>>
          /\ Head(toRequester[a]).type = "IP"
      BY <1>6 DEF Receive
    <3>2. Head(toRequester[a]) = toRequester[a][1] /\ 1 \in 1..Len(toRequester[a])
      BY <3>1, HeadAndTail
    <3> QED
      BY <3>1, <3>2 DEF ServerInv, ServerOK
  <2> QED
    BY <1>2, <1>6, <2>1 DEF RunnerGoes
<1>7. CASE RunnerRoom(a)
  <2>1. Head(toRequester[a]).value = a
    <3>1. /\ toRequester[a] \in Seq(Lines) /\ toRequester[a] # <<>>
          /\ Head(toRequester[a]).type = "RoomID"
      BY <1>7 DEF RunnerRoom, Receive
    <3>2. Head(toRequester[a]) = toRequester[a][1] /\ 1 \in 1..Len(toRequester[a])
      BY <3>1, HeadAndTail
    <3> QED
      BY <3>1, <3>2 DEF ServerInv, ServerOK
  <2>2. runnerServer[a] \in Server
    BY <1>7 DEF RunnerRoom, ServerInv, ServerOK
  <2>3. Chat(a, runnerServer[a]) \in [room : Request, server : Server]
    BY <2>2 DEF Chat
  <2> QED
    BY <1>2, <1>3, <1>7, <2>1, <2>3 DEF RunnerRoom
<1>8. Active(a) => page[from[a]] = "matchmaking"
  BY DEF PageInv
<1>9. CASE RunnerAck(a)
  BY <1>4, <1>5, <1>8, <1>9 DEF RunnerAck, RunnerState, Active
<1>10. CASE RunnerSent(a)
  BY <1>4, <1>5, <1>8, <1>10 DEF RunnerSent, RunnerState, Active
<1>11. CASE RunnerAwait(a)
  BY <1>4, <1>11 DEF RunnerAwait, RunnerState
<1>12. CASE RunnerServer(a)
  BY <1>5, <1>6, <1>8, <1>12 DEF RunnerServer, Active
<1> QED
  BY <1>7, <1>9, <1>10, <1>11, <1>12 DEF RunnerStep

\* A handler's action: it goes on to another point and writes lines to the
\* requester and to the target.
LEMMA HandlerTypeStep ==
  ASSUME TypeOK, NEW a \in Request, HandlerStep(a) \/ AwaitingRequest(a)
  PROVE  TypeOK'
<1> USE DEF TypeOK
<1>1. ASSUME NEW type \in LineType, WriteRequester(a, <<Line(type)>>)
      PROVE  toRequester' \in [Request -> Seq(Lines)]
  <2>1. <<Line(type)>> \in Seq(Lines)
    BY LineTypes
  <2> QED
    BY <1>1, <2>1, WriteRequesterType
<1>2. ASSUME NEW state, NEW next \in {"read", "lookup", "poll", "select", "insert", "closed"},
             HandlerGoes(a, state, next)
      PROVE  /\ handler' \in [Request -> {"idle", "read", "lookup", "poll", "select", "insert", "closed"}]
             /\ UNCHANGED <<registered, from, to, runner, runnerServer, acceptSent, ChatRequests,
                            accepting, page, chat>>
  BY <1>2 DEF HandlerGoes, requester, target
<1>3. CASE Unauthorized(a) \/ Acknowledge(a) \/ UserNotFound(a) \/ AwaitingRequest(a)
  <2>1. \E type \in LineType : WriteRequester(a, <<Line(type)>>)
    BY <1>3 DEF Unauthorized, Acknowledge, UserNotFound, AwaitingRequest, LineType
  <2> QED
    BY <1>1, <1>2, <1>3, <2>1 DEF Unauthorized, Acknowledge, UserNotFound, AwaitingRequest
<1>4. CASE RequestSent(a)
  BY <1>1, <1>2, <1>4 DEF RequestSent, LineType
<1>5. CASE DialFails(a)
  BY <1>2, <1>5 DEF DialFails
<1>6. CASE Answered(a)
  <2>1. \E type \in LineType : WriteRequester(a, <<Line(type)>>)
    BY <1>6 DEF Answered, LineType
  <2> QED
    BY <1>1, <1>2, <1>6, <2>1 DEF Answered
<1>7. CASE ServerError(a)
  <2>1. toTarget' \in [Request -> Seq(Answers)]
    BY <1>7, WriteTargetType, LineTypes DEF ServerError
  <2> QED
    BY <1>1, <1>2, <1>7, <2>1 DEF ServerError, LineType
<1>8. CASE SendServer(a)
  <2>1. PICK server \in Server :
          /\ WriteRequester(a, <<[type |-> "IP", value |-> server], [type |-> "RoomID", value |-> a]>>)
          /\ WriteTarget(a, [type |-> "IP", value |-> server])
    BY <1>8 DEF SendServer
  <2>2. toRequester' \in [Request -> Seq(Lines)]
    <3>1. <<[type |-> "IP", value |-> server], [type |-> "RoomID", value |-> a]>> \in Seq(Lines)
      BY LineTypes
    <3> QED
      BY <2>1, <3>1, WriteRequesterType
  <2>3. toTarget' \in [Request -> Seq(Answers)]
    BY <2>1, WriteTargetType, LineTypes
  <2> QED
    BY <1>2, <1>8, <2>2, <2>3 DEF SendServer
<1>9. CASE InsertAndClose(a)
  BY <1>2, <1>9 DEF InsertAndClose
<1> QED
  BY <1>3, <1>4, <1>5, <1>6, <1>7, <1>8, <1>9 DEF HandlerStep

LEMMA MatcherTypeStep ==
  ASSUME TypeOK, AcceptInv, FlowInv, NEW a \in Request, MatcherStep(a) \/ CollectConn(a)
  PROVE  TypeOK'
<1> USE DEF TypeOK
<1>1. CASE DeliverRequest(a)
  <2>1. to[a] \in User /\ from[a] \in User
    BY <1>1 DEF DeliverRequest, MatcherGoes, AcceptInv, FlowInv, Flow
  <2> QED
    BY <1>1, <2>1 DEF DeliverRequest, MatcherGoes, requester
<1>2. CASE ReadAccept(a)
  BY <1>2 DEF ReadAccept, MatcherGoes, requester
<1>3. CASE ReadDecline(a)
  BY <1>3 DEF ReadDecline, MatcherGoes, requester
<1>4. CASE CollectConn(a)
  BY <1>4 DEF CollectConn, central, requester, target
<1> QED
  BY <1>1, <1>2, <1>3, <1>4 DEF MatcherStep

LEMMA ClientTypeStep ==
  ASSUME TypeOK, AcceptInv, ServerInv, NEW v \in User,
         \/ \E u \in User : AcceptMessageRequest(v, u)
         \/ ReadServer(v) \/ ReadServerFails(v) \/ Quit(v)
  PROVE  TypeOK'
<1> USE DEF TypeOK
<1>1. ASSUME NEW u \in User, AcceptMessageRequest(v, u)
      PROVE  TypeOK'
  <2>1. ChatRequests[v][u] \in Request
    BY <1>1 DEF AcceptMessageRequest
  <2>2. acceptSent' \in [Request -> BOOLEAN]
    BY <1>1, <2>1 DEF AcceptMessageRequest
  <2>3. /\ accepting' \in [User -> Request \cup {None}]
        /\ page' \in [User -> {"menu", "matchmaking", "accepting", "chat", "gone"}]
        /\ page[v] = "menu" /\ \A x \in User : x # v => page'[x] = page[x]
    <3>1. \/ page' = [page EXCEPT ![v] = "gone"] /\ accepting' = accepting
          \/ /\ page' = [page EXCEPT ![v] = "accepting"]
             /\ accepting' = [accepting EXCEPT ![v] = ChatRequests[v][u]]
      BY <1>1 DEF AcceptMessageRequest
    <3>2. page[v] = "menu"
      BY <1>1 DEF AcceptMessageRequest
    <3>3. accepting' \in [User -> Request \cup {None}]
      BY <2>1, <3>1
    <3>4. page' \in [User -> {"menu", "matchmaking", "accepting", "chat", "gone"}]
      BY <3>1
    <3>5. \A x \in User : x # v => page'[x] = page[x]
      BY <3>1
    <3> QED
      BY <3>2, <3>3, <3>4, <3>5
  <2>4. UNCHANGED <<registered, from, to, handler, matcher, toRequester, runner,
                    runnerServer, targetConn, ChatRequests, toTarget, chat>>
    BY <1>1 DEF AcceptMessageRequest, TargetGoes, central, requester
  <2>5. \A x \in User : page'[x] # "chat" => chat'[x] = None
    BY <2>3, <2>4
  <2> QED
    BY <2>2, <2>3, <2>4, <2>5
<1>2. CASE ReadServer(v)
  <2> DEFINE a == accepting[v]  q == toTarget[a]
  <2>1. a \in Request
    BY <1>2 DEF ReadServer, AcceptInv
  <2>2. q \in Seq(Answers) /\ q # <<>> /\ Tail(q) \in Seq(Answers)
    BY <1>2, <2>1 DEF ReadServer
  <2>3. Head(q) = q[1] /\ 1 \in 1..Len(q)
    BY <2>2, HeadAndTail
  <2>4. Head(q).type = "IP" => Chat(a, Head(q).value) \in [room : Request, server : Server]
    BY <2>1, <2>3 DEF ServerInv, ServerOK, Chat
  <2>5. /\ toTarget' \in [Request -> Seq(Answers)]
        /\ accepting' \in [User -> Request \cup {None}]
    BY <1>2, <2>1, <2>2 DEF ReadServer
  <2>6. /\ chat' \in [User -> [room : Request, server : Server] \cup {None}]
        /\ page' \in [User -> {"menu", "matchmaking", "accepting", "chat", "gone"}]
        /\ \A u \in User : page'[u] # "chat" => chat'[u] = None
    <3>1. CASE Head(q).type = "IP"
      <4>1. /\ page' = [page EXCEPT ![v] = "chat"]
            /\ chat' = [chat EXCEPT ![v] = Chat(a, Head(q).value)]
        BY <1>2, <3>1 DEF ReadServer
      <4> QED
        BY <2>4, <3>1, <4>1
    <3>2. CASE Head(q).type # "IP"
      BY <1>2, <3>2 DEF ReadServer
    <3> QED
      BY <3>1, <3>2
  <2> QED
    BY <1>2, <2>5, <2>6 DEF ReadServer, TargetGoes, central, requester
<1>3. CASE ReadServerFails(v)
  BY <1>3 DEF ReadServerFails, TargetGoes, central, requester
<1>4. CASE Quit(v)
  <2>1. toRequester' \in [Request -> Seq(Lines)] /\ toTarget' \in [Request -> Seq(Answers)]
    BY <1>4 DEF Quit
  <2>2. runner' \in [Request -> {"none", "ack", "sent", "await", "server", "room", "ended"}]
    BY <1>4 DEF Quit
  <2> QED
    BY <1>4, <2>1, <2>2 DEF Quit, central, target
<1> QED
  BY <1>1, <1>2, <1>3, <1>4

LEMMA StartTypeStep ==
  ASSUME TypeOK, NEW a \in Request, NEW u \in MayAsk, NEW v \in Name, StartMatchmaking(a, u, v)
  PROVE  TypeOK'
BY DEF TypeOK, StartMatchmaking, target

LEMMA TypeStep ==
  ASSUME TypeOK, MatchInv, [Next]_vars
  PROVE  TypeOK'
<1>1. CASE UNCHANGED vars
  BY <1>1 DEF TypeOK, vars, central, requester, target
<1> QED
  BY <1>1, StartTypeStep, RunnerTypeStep, HandlerTypeStep, MatcherTypeStep, ClientTypeStep
     DEF Next, MatchInv
----------------------------------------------------------------------------
\* Steps elsewhere, and an acceptance, leave the flow of a request alone.
LEMMA FlowSame ==
  ASSUME TypeOK, NEW a \in Request, Flow(a),
         handler'[a] = handler[a], from'[a] = from[a], to'[a] = to[a],
         runner'[a] = runner[a], toRequester'[a] = toRequester[a],
         acceptSent'[a] = acceptSent[a] \/ acceptSent'[a] = TRUE,
         from[a] \in User => (page'[from[a]] = "gone" <=> page[from[a]] = "gone")
  PROVE  Flow(a)'
<1>1. ASSUME NEW e \in RunnerState, Run(acceptSent[a], runner[a], toRequester[a], e), EndOK(a, e)
      PROVE  Run(acceptSent[a], runner[a], toRequester[a], e)' /\ EndOK(a, e)'
  <2>1. Run(acceptSent'[a], runner[a], toRequester[a], e)
    <3>1. CASE acceptSent'[a] = acceptSent[a]
      BY <1>1, <3>1, Zenon
    <3>2. CASE acceptSent'[a] = TRUE
      <4>1. Run(TRUE, runner[a], toRequester[a], e)
        BY <1>1, RunAccepted, Zenon
      <4> QED
        BY <3>2, <4>1, Zenon
    <3> QED
      BY <3>1, <3>2
  <2> QED
    BY <1>1, <2>1 DEF EndOK
<1> QED
  BY <1>1 DEF Flow, Online

\* A user who is not at work on a request can go: its requests have ended.
LEMMA FlowGone ==
  ASSUME TypeOK, PageInv, NEW a \in Request, Flow(a), NEW v \in User,
         page[v] # "matchmaking", page' = [page EXCEPT ![v] = "gone"],
         UNCHANGED <<handler, from, to, runner, toRequester, acceptSent>>
  PROVE  Flow(a)'
<1>1. CASE from[a] # v
  BY <1>1, FlowSame DEF TypeOK
<1>2. CASE from[a] = v
  <2>1. handler[a] # "idle"
    BY <1>2 DEF Flow
  <2>2. runner[a] = "ended"
    BY <1>2, <2>1 DEF PageInv, Active, Flow
  <2>3. toRequester[a] = <<>>
    BY <2>1, <2>2, RunEnded DEF Flow, TypeOK
  <2> QED
    BY <1>2, <2>1, <2>2, <2>3 DEF Flow, Online, TypeOK
<1> QED
  BY <1>1, <1>2

\* The runner makes the move that its next line is for.
LEMMA FlowReceive ==
  ASSUME TypeOK, NEW a \in Request, Flow(a), NEW type, Receive(a, type),
         NEW n, runner'[a] = n,
         \A m \in RunnerState : Moves(acceptSent[a], runner[a], type, m) => m = n,
         from[a] \in User => (page'[from[a]] = "gone" <=> page[from[a]] = "gone")
  PROVE  Flow(a)' /\ Online(from[a]) /\ Moves(acceptSent[a], runner[a], type, n)
<1> DEFINE q == toRequester[a]
<1>1. q \in Seq(Lines) /\ q # <<>> /\ Head(q).type = type /\ toRequester'[a] = Tail(q)
  BY DEF TypeOK, Receive
<1>2. UNCHANGED <<handler, from, to, acceptSent>>
  BY DEF Receive, central, target
<1>3. handler[a] # "idle" /\ Online(from[a]) /\ from[a] \in User
  BY <1>1 DEF Flow
<1>4. PICK e \in RunnerState : Run(acceptSent[a], runner[a], q, e) /\ EndOK(a, e)
  BY <1>3 DEF Flow
<1>5. PICK m \in RunnerState : Moves(acceptSent[a], runner[a], type, m) /\ Run(acceptSent[a], m, Tail(q), e)
  BY <1>1, <1>4, RunTail
<1>6. m = n /\ n # "none"
  BY <1>5 DEF Moves
<1>7. Run(acceptSent[a], runner[a], toRequester[a], e)' /\ EndOK(a, e)'
  BY <1>1, <1>2, <1>4, <1>5, <1>6 DEF EndOK
<1> QED
  BY <1>2, <1>3, <1>5, <1>6, <1>7 DEF Flow, Online

\* The handler writes a line that the runner can take.
LEMMA FlowWrite ==
  ASSUME TypeOK, NEW a \in Request, Flow(a), handler[a] # "idle", handler'[a] # "idle",
         UNCHANGED <<from, to, runner, acceptSent, page>>,
         NEW line \in Lines, WriteRequester(a, <<line>>),
         \A e \in RunnerState : EndOK(a, e) =>
           \E f \in RunnerState : Moves(acceptSent[a], e, line.type, f) /\ EndOK(a, f)'
  PROVE  Flow(a)'
<1> DEFINE q == toRequester[a]
<1>1. q \in Seq(Lines)
  BY DEF TypeOK
<1>2. CASE Online(from[a])
  <2>1. toRequester'[a] = Append(q, line)
    BY <1>1, <1>2, Concat DEF WriteRequester, TypeOK
  <2>2. PICK e \in RunnerState : Run(acceptSent[a], runner[a], q, e) /\ EndOK(a, e)
    BY <1>2 DEF Flow
  <2>3. PICK f \in RunnerState : Moves(acceptSent[a], e, line.type, f) /\ EndOK(a, f)'
    BY <2>2
  <2>4. Run(acceptSent[a], runner[a], Append(q, line), f)
    BY <1>1, <2>2, <2>3, RunAppend
  <2>5. Run(acceptSent[a], runner[a], toRequester[a], f)'
    BY <2>1, <2>4
  <2> QED
    BY <1>2, <2>3, <2>5 DEF Flow, Online
<1>3. CASE ~Online(from[a])
  BY <1>3 DEF Flow, WriteRequester, Online
<1> QED
  BY <1>2, <1>3

\* The runner: one move per line, as the automaton has them.
LEMMA RunnerFlow ==
  ASSUME TypeOK, MatchInv, NEW x \in Request, RunnerStep(x), NEW a \in Request
  PROVE  Flow(a)'
<1>1. Flow(a) /\ Flow(x)
  BY DEF MatchInv, FlowInv
<1>2. PICK type : Receive(x, type)
  BY DEF RunnerStep, RunnerAck, RunnerSent, RunnerAwait, RunnerServer, RunnerRoom
<1>3. UNCHANGED <<handler, from, to, acceptSent>>
  BY <1>2 DEF Receive, central, target
<1>4. from[x] \in User
  BY <1>1, <1>2 DEF Receive, Flow
<1>5. Active(x)
  BY DEF RunnerStep, RunnerAck, RunnerSent, RunnerAwait, RunnerServer, RunnerRoom, RunnerGoes, Active
<1>6. page[from[x]] = "matchmaking"
  BY <1>5 DEF MatchInv, PageInv
<1>7. \A u \in User : page'[u] = "gone" <=> page[u] = "gone"
  BY <1>4, <1>6 DEF TypeOK, RunnerStep, RunnerAck, RunnerSent, RunnerAwait, RunnerServer, RunnerRoom,
                   RunnerGoes, BackToMenu
<1>8. CASE a # x
  <2>1. runner'[a] = runner[a]
    BY <1>8 DEF TypeOK, RunnerStep, RunnerAck, RunnerSent, RunnerAwait, RunnerServer, RunnerRoom,
                RunnerGoes, BackToMenu
  <2>2. toRequester'[a] = toRequester[a]
    BY <1>2, <1>8 DEF TypeOK, Receive
  <2> QED
    BY <1>1, <1>3, <1>7, <2>1, <2>2, FlowSame
<1>9. CASE a = x
  <2>1. ASSUME NEW t, NEW n, Receive(x, t), runner' = [runner EXCEPT ![x] = n],
               \A m \in RunnerState : Moves(acceptSent[x], runner[x], t, m) => m = n
        PROVE  Flow(a)'
    <3>1. runner'[x] = n
      BY <2>1 DEF TypeOK
    <3> QED
      BY <1>1, <1>7, <1>9, <2>1, <3>1, FlowReceive
  <2>2. CASE RunnerAck(x)
    <3>1. CASE Receive(x, "ACK") /\ RunnerGoes(x, "ack", "sent")
      <4>1. \A m \in RunnerState : Moves(acceptSent[x], runner[x], "ACK", m) => m = "sent"
        BY <3>1 DEF RunnerGoes, Moves
      <4> QED
        BY <2>1, <3>1, <4>1 DEF RunnerGoes
    <3>2. ASSUME NEW t \in {"Unauthorized", "USER_NOT_FOUND"}, runner[x] = "ack", Receive(x, t),
                 BackToMenu(x)
          PROVE  Flow(a)'
      <4>1. \A m \in RunnerState : Moves(acceptSent[x], runner[x], t, m) => m = "ended"
        BY <3>2 DEF Moves
      <4> QED
        BY <2>1, <3>2, <4>1 DEF BackToMenu
    <3> QED
      BY <2>2, <3>1, <3>2 DEF RunnerAck
  <2>3. CASE RunnerSent(x)
    <3>1. CASE Receive(x, "REQ_SENT") /\ RunnerGoes(x, "sent", "await")
      <4>1. \A m \in RunnerState : Moves(acceptSent[x], runner[x], "REQ_SENT", m) => m = "await"
        BY <3>1 DEF RunnerGoes, Moves
      <4> QED
        BY <2>1, <3>1, <4>1 DEF RunnerGoes
    <3>2. CASE runner[x] = "sent" /\ Receive(x, "USER_NOT_FOUND") /\ BackToMenu(x)
      <4>1. \A m \in RunnerState : Moves(acceptSent[x], runner[x], "USER_NOT_FOUND", m) => m = "ended"
        BY <3>2 DEF Moves
      <4> QED
        BY <2>1, <3>2, <4>1 DEF BackToMenu
    <3> QED
      BY <2>3, <3>1, <3>2 DEF RunnerSent
  <2>4. CASE RunnerAwait(x)
    BY <2>1, <2>4 DEF RunnerAwait, RunnerGoes, Moves
  <2>5. CASE RunnerServer(x)
    <3>1. CASE Receive(x, "IP") /\ RunnerGoes(x, "server", "room")
      <4>1. \A m \in RunnerState : Moves(acceptSent[x], runner[x], "IP", m) => m = "room"
        BY <3>1 DEF RunnerGoes, Moves
      <4> QED
        BY <2>1, <3>1, <4>1 DEF RunnerGoes
    <3>2. CASE runner[x] = "server" /\ Receive(x, "SERVER_ERROR") /\ BackToMenu(x)
      <4>1. \A m \in RunnerState : Moves(acceptSent[x], runner[x], "SERVER_ERROR", m) => m = "ended"
        BY <3>2 DEF Moves
      <4> QED
        BY <2>1, <3>2, <4>1 DEF BackToMenu
    <3> QED
      BY <2>5, <3>1, <3>2 DEF RunnerServer
  <2>6. CASE RunnerRoom(x)
    BY <2>1, <2>6 DEF RunnerRoom, Moves
  <2> QED
    BY <2>2, <2>3, <2>4, <2>5, <2>6 DEF RunnerStep
<1> QED
  BY <1>8, <1>9

\* The handler: every line it writes is one that the runner can take where the
\* lines before it leave the runner.
LEMMA HandlerFlow ==
  ASSUME TypeOK, MatchInv, NEW x \in Request, HandlerStep(x) \/ AwaitingRequest(x),
         NEW a \in Request
  PROVE  Flow(a)'
<1>1. Flow(a)
  BY DEF MatchInv, FlowInv
<1>2. PICK state \in {"read", "lookup", "poll", "select", "insert"},
           next \in {"read", "lookup", "poll", "select", "insert", "closed"} :
        HandlerGoes(x, state, next)
  BY DEF HandlerStep, AwaitingRequest, Unauthorized, Acknowledge, UserNotFound, RequestSent,
         DialFails, Answered, ServerError, SendServer, InsertAndClose
<1>3. /\ UNCHANGED <<from, to, runner, acceptSent, page>>
      /\ handler[x] = state /\ handler' = [handler EXCEPT ![x] = next]
  BY <1>2 DEF HandlerGoes, requester, target
<1>4. handler[x] # "idle" /\ handler'[x] # "idle"
  BY <1>2, <1>3 DEF TypeOK
<1>5. CASE a # x
  <2>1. toRequester' = toRequester \/ \E lines : WriteRequester(x, lines)
    BY DEF HandlerStep, AwaitingRequest, Unauthorized, Acknowledge, UserNotFound,
           RequestSent, DialFails, Answered, ServerError, SendServer, InsertAndClose
  <2>2. toRequester'[a] = toRequester[a]
    BY <1>5, <2>1 DEF TypeOK, WriteRequester
  <2>3. handler'[a] = handler[a]
    BY <1>3, <1>5 DEF TypeOK
  <2> QED
    BY <1>1, <1>3, <2>2, <2>3, FlowSame
<1>6. CASE a = x
  <2>1. ASSUME NEW type \in LineType, WriteRequester(x, <<Line(type)>>),
               \A e \in RunnerState : EndOK(x, e) =>
                 \E f \in RunnerState : Moves(acceptSent[x], e, type, f) /\ EndOK(x, f)'
        PROVE  Flow(a)'
    <3>1. Line(type) \in Lines /\ Line(type).type = type
      BY LineTypes DEF Line
    <3> QED
      BY <1>1, <1>3, <1>4, <1>6, <2>1, <3>1, FlowWrite
  <2>2. CASE Unauthorized(x)
    <3>1. handler[x] = "read" /\ handler'[x] = "closed"
      BY <2>2 DEF Unauthorized, HandlerGoes, TypeOK
    <3> QED
      BY <2>1, <2>2, <3>1 DEF Unauthorized, EndOK, Moves, LineType, RunnerState
  <2>3. CASE Acknowledge(x)
    <3>1. handler[x] = "read" /\ handler'[x] = "lookup"
      BY <2>3 DEF Acknowledge, HandlerGoes, TypeOK
    <3> QED
      BY <2>1, <2>3, <3>1 DEF Acknowledge, EndOK, Moves, LineType, RunnerState
  <2>4. CASE UserNotFound(x)
    <3>1. handler[x] \in {"read", "lookup"} /\ handler'[x] = "closed"
      BY <2>4 DEF UserNotFound, HandlerGoes, TypeOK
    <3> QED
      BY <2>1, <2>4, <3>1 DEF UserNotFound, EndOK, Moves, LineType, RunnerState
  <2>5. CASE RequestSent(x)
    <3>1. handler[x] = "lookup" /\ handler'[x] = "poll"
      BY <2>5 DEF RequestSent, HandlerGoes, TypeOK
    <3> QED
      BY <2>1, <2>5, <3>1 DEF RequestSent, EndOK, Moves, LineType, RunnerState
  <2>6. CASE AwaitingRequest(x)
    <3>1. handler[x] = "poll" /\ handler'[x] = "poll"
      BY <2>6 DEF AwaitingRequest, HandlerGoes, TypeOK
    <3> QED
      BY <2>1, <2>6, <3>1 DEF AwaitingRequest, EndOK, Moves, LineType, RunnerState
  <2>7. CASE Answered(x)
    <3>1. handler[x] = "poll" /\ handler'[x] = "select"
      BY <2>7 DEF Answered, HandlerGoes, TypeOK
    <3>2. CASE matcher[x] = "accepted"
      <4>1. acceptSent[x] = TRUE /\ acceptSent'[x] = TRUE
        BY <1>3, <3>2 DEF MatchInv, AcceptInv
      <4> QED
        BY <2>1, <2>7, <3>1, <3>2, <4>1 DEF Answered, EndOK, Moves, LineType, RunnerState
    <3>3. CASE matcher[x] # "accepted"
      BY <2>1, <2>7, <3>1, <3>3 DEF Answered, EndOK, Moves, LineType, RunnerState
    <3> QED
      BY <3>2, <3>3
  <2>8. CASE ServerError(x)
    <3>1. handler[x] = "select" /\ handler'[x] = "closed"
      BY <2>8 DEF ServerError, HandlerGoes, TypeOK
    <3> QED
      BY <2>1, <2>8, <3>1 DEF ServerError, EndOK, Moves, LineType, RunnerState
  <2>9. CASE DialFails(x) \/ InsertAndClose(x)
    <3>1. handler'[x] = "closed" /\ toRequester' = toRequester
      BY <2>9 DEF DialFails, InsertAndClose, HandlerGoes, TypeOK
    <3>2. \A e \in RunnerState : EndOK(x, e)'
      BY <3>1 DEF EndOK
    <3> QED
      BY <1>1, <1>3, <1>4, <1>6, <3>1, <3>2 DEF Flow, Online
  <2>10. CASE SendServer(x)
    <3> DEFINE q == toRequester[x]
    <3>1. PICK server \in Server :
            WriteRequester(x, <<[type |-> "IP", value |-> server], [type |-> "RoomID", value |-> x]>>)
      BY <2>10 DEF SendServer
    <3> DEFINE ip == [type |-> "IP", value |-> server]
               room == [type |-> "RoomID", value |-> x]
    <3>2. /\ q \in Seq(Lines) /\ ip \in Lines /\ room \in Lines
          /\ ip.type = "IP" /\ room.type = "RoomID" /\ Append(q, ip) \in Seq(Lines)
      BY LineTypes DEF TypeOK
    <3>3. handler[x] = "select" /\ handler'[x] = "insert"
      BY <2>10 DEF SendServer, HandlerGoes, TypeOK
    <3> HIDE DEF ip, room
    <3>4. CASE Online(from[x])
      <4>1. toRequester'[x] = Append(Append(q, ip), room)
        BY <3>1, <3>2, <3>4, ConcatTwo DEF WriteRequester, TypeOK, ip, room
      <4>2. PICK e \in RunnerState : Run(acceptSent[x], runner[x], q, e) /\ EndOK(x, e)
        BY <1>1, <1>4, <1>6, <3>4 DEF Flow
      <4>3. PICK f \in RunnerState, h \in RunnerState :
              Moves(acceptSent[x], e, "IP", f) /\ Moves(acceptSent[x], f, "RoomID", h)
        BY <3>3, <4>2 DEF EndOK, Moves, RunnerState
      <4>4. Run(acceptSent[x], runner[x], Append(q, ip), f)
        BY <3>2, <4>2, <4>3, RunAppend
      <4>5. Run(acceptSent[x], runner[x], Append(Append(q, ip), room), h)
        BY <3>2, <4>3, <4>4, RunAppend
      <4>6. Run(acceptSent[x], runner[x], toRequester[x], h)' /\ EndOK(x, h)'
        BY <1>3, <3>3, <4>1, <4>5 DEF EndOK
      <4> QED
        BY <1>1, <1>3, <1>4, <1>6, <3>4, <4>6 DEF Flow, Online
    <3>5. CASE ~Online(from[x])
      BY <1>1, <1>3, <1>4, <1>6, <3>1, <3>5 DEF Flow, WriteRequester, Online
    <3> QED
      BY <3>4, <3>5
  <2> QED
    BY <2>2, <2>3, <2>4, <2>5, <2>6, <2>7, <2>8, <2>9, <2>10 DEF HandlerStep
<1> QED
  BY <1>5, <1>6
\* The other actions: a request begins with nothing on its way, and who goes
\* takes the lines to it along.
LEMMA OtherFlow ==
  ASSUME TypeOK, MatchInv, NEW a \in Request,
         \/ \E x \in Request :
              \/ \E u \in MayAsk : \E v \in Name : StartMatchmaking(x, u, v)
              \/ MatcherStep(x) \/ CollectConn(x)
         \/ \E v \in User :
              \/ \E u \in User : AcceptMessageRequest(v, u)
              \/ ReadServer(v) \/ ReadServerFails(v) \/ Quit(v)
  PROVE  Flow(a)'
<1>1. Flow(a) /\ PageInv
  BY DEF MatchInv, FlowInv
<1>2. ASSUME NEW x \in Request, NEW u \in MayAsk, NEW v \in Name, StartMatchmaking(x, u, v)
      PROVE  Flow(a)'
  <2>1. /\ page[u] = "menu" /\ page' = [page EXCEPT ![u] = "matchmaking"] /\ u \in User
        /\ UNCHANGED <<toRequester, acceptSent>>
    BY <1>2 DEF StartMatchmaking, target
  <2>2. \A w \in User : page'[w] = "gone" <=> page[w] = "gone"
    BY <2>1 DEF TypeOK
  <2>3. CASE a # x
    BY <1>1, <1>2, <2>1, <2>2, <2>3, FlowSame DEF StartMatchmaking, TypeOK
  <2>4. CASE a = x
    <3>1. /\ from'[a] = u /\ to'[a] = v /\ handler'[a] = "read" /\ runner'[a] = "ack"
          /\ toRequester'[a] = <<>>
      BY <1>1, <1>2, <2>1, <2>4 DEF StartMatchmaking, TypeOK, Flow
    <3>2. Run(acceptSent'[a], "ack", <<>>, "ack")
      BY RunEmpty DEF RunnerState
    <3>3. EndOK(a, "ack")'
      BY <3>1 DEF EndOK
    <3>4. Online(from[a])'
      BY <2>1, <3>1 DEF Online, TypeOK
    <3>5. \E e \in RunnerState : Run(acceptSent'[a], runner'[a], toRequester'[a], e) /\ EndOK(a, e)'
      BY <3>1, <3>2, <3>3 DEF RunnerState
    <3> QED
      BY <2>1, <3>1, <3>4, <3>5 DEF Flow
  <2> QED
    BY <2>3, <2>4
<1>3. ASSUME NEW x \in Request, MatcherStep(x) \/ CollectConn(x)
      PROVE  Flow(a)'
  <2>1. UNCHANGED <<handler, from, to, runner, toRequester, acceptSent, page>>
    BY <1>3 DEF MatcherStep, CollectConn, DeliverRequest, ReadAccept, ReadDecline, MatcherGoes,
                central, requester, target
  <2> QED
    BY <1>1, <2>1, FlowSame
<1>4. ASSUME NEW v \in User, NEW u \in User, AcceptMessageRequest(v, u)
      PROVE  Flow(a)'
  <2>1. page[v] = "menu" /\ UNCHANGED <<handler, from, to, runner, toRequester>>
    BY <1>4 DEF AcceptMessageRequest, TargetGoes, central, requester
  <2>2. \/ page' = [page EXCEPT ![v] = "gone"] /\ acceptSent' = acceptSent
        \/ /\ page' = [page EXCEPT ![v] = "accepting"]
           /\ acceptSent' = [acceptSent EXCEPT ![ChatRequests[v][u]] = TRUE]
    BY <1>4 DEF AcceptMessageRequest
  <2>3. CASE page' = [page EXCEPT ![v] = "gone"] /\ acceptSent' = acceptSent
    BY <1>1, <2>1, <2>3, FlowGone
  <2>4. CASE /\ page' = [page EXCEPT ![v] = "accepting"]
             /\ acceptSent' = [acceptSent EXCEPT ![ChatRequests[v][u]] = TRUE]
    <3>1. \A w \in User : page'[w] = "gone" <=> page[w] = "gone"
      BY <2>1, <2>4 DEF TypeOK
    <3>2. acceptSent \in [Request -> BOOLEAN]
      BY DEF TypeOK
    <3>3. acceptSent'[a] = acceptSent[a] \/ acceptSent'[a] = TRUE
      BY <2>4, <3>2, Zenon
    <3> QED
      BY <1>1, <2>1, <3>1, <3>3, FlowSame
  <2> QED
    BY <2>2, <2>3, <2>4
<1>5. ASSUME NEW v \in User, ReadServer(v)
      PROVE  Flow(a)'
  <2>1. /\ page[v] = "accepting"
        /\ UNCHANGED <<handler, from, to, runner, toRequester, acceptSent>>
    BY <1>5 DEF ReadServer, TargetGoes, central, requester
  <2>2. page' = [page EXCEPT ![v] = "chat"] \/ page' = [page EXCEPT ![v] = "menu"]
    BY <1>5 DEF ReadServer
  <2>3. \A w \in User : page'[w] = "gone" <=> page[w] = "gone"
    BY <2>1, <2>2 DEF TypeOK
  <2> QED
    BY <1>1, <2>1, <2>3, FlowSame
<1>6. ASSUME NEW v \in User, ReadServerFails(v)
      PROVE  Flow(a)'
  <2>1. /\ page[v] = "accepting" /\ page' = [page EXCEPT ![v] = "gone"]
        /\ UNCHANGED <<handler, from, to, runner, toRequester, acceptSent>>
    BY <1>6 DEF ReadServerFails, TargetGoes, central, requester
  <2> QED
    BY <1>1, <2>1, FlowGone
<1>7. ASSUME NEW v \in User, Quit(v)
      PROVE  Flow(a)'
  <2>1. /\ page' = [page EXCEPT ![v] = "gone"]
        /\ runner'[a] = (IF from[a] = v THEN "ended" ELSE runner[a])
        /\ toRequester'[a] = (IF from[a] = v THEN <<>> ELSE toRequester[a])
        /\ UNCHANGED <<handler, from, to, acceptSent>>
    BY <1>7 DEF Quit, central, target
  <2>2. CASE from[a] # v
    <3>1. from[a] \in User => (page'[from[a]] = "gone" <=> page[from[a]] = "gone")
      BY <2>1, <2>2 DEF TypeOK
    <3> QED
      BY <1>1, <2>1, <2>2, <3>1, FlowSame
  <2>3. CASE from[a] = v
    BY <1>1, <2>1, <2>3 DEF Flow, Online, TypeOK
  <2> QED
    BY <2>2, <2>3
<1> QED
  BY <1>2, <1>3, <1>4, <1>5, <1>6, <1>7

LEMMA FlowStep ==
  ASSUME TypeOK, MatchInv, [Next]_vars
  PROVE  FlowInv'
<1> SUFFICES ASSUME NEW a \in Request
             PROVE  Flow(a)'
  BY DEF FlowInv
<1>1. CASE UNCHANGED vars
  BY <1>1, FlowSame DEF vars, central, requester, target, MatchInv, FlowInv
<1> QED
  BY <1>1, RunnerFlow, HandlerFlow, OtherFlow DEF Next
----------------------------------------------------------------------------
\* Only a user who is not at work on a request changes its page.
LEMMA PageKept ==
  ASSUME TypeOK, PageInv, NEW v \in User, page[v] # "matchmaking",
         \A u \in User : u # v => page'[u] = page[u],
         UNCHANGED <<runner, from>>,
         \A a \in Request : Active(a) => from[a] \in User
  PROVE  PageInv'
BY DEF PageInv, Active

LEMMA PageStep ==
  ASSUME TypeOK, MatchInv, [Next]_vars
  PROVE  PageInv'
<1>1. PageInv /\ \A a \in Request : Active(a) => from[a] \in User
  BY DEF MatchInv, FlowInv, Flow, Active
<1>2. ASSUME UNCHANGED <<runner, from, page>>
      PROVE  PageInv'
  BY <1>1, <1>2 DEF PageInv, Active
<1>3. ASSUME NEW x \in Request, NEW u \in MayAsk, NEW v \in Name, StartMatchmaking(x, u, v)
      PROVE  PageInv'
  <2>1. /\ page[u] = "menu" /\ u \in User
        /\ page'[u] = "matchmaking" /\ \A w \in User : w # u => page'[w] = page[w]
        /\ from'[x] = u /\ \A a \in Request : a # x => from'[a] = from[a] /\ runner'[a] = runner[a]
    BY <1>3 DEF StartMatchmaking, TypeOK
  <2>2. \A a \in Request : (a # x /\ Active(a)') => Active(a) /\ from[a] # u
    BY <1>1, <2>1 DEF Active, PageInv
  <2> QED
    BY <1>1, <2>1, <2>2 DEF PageInv
<1>4. ASSUME NEW x \in Request, RunnerStep(x)
      PROVE  PageInv'
  <2>1. Active(x) /\ from' = from
    BY <1>4 DEF RunnerStep, RunnerAck, RunnerSent, RunnerAwait, RunnerServer, RunnerRoom, RunnerGoes,
                Active, Receive, central
  <2>2. from[x] \in User
    BY <1>1, <2>1
  <2>3. \A a \in Request : a # x => runner'[a] = runner[a]
    BY <1>4 DEF TypeOK, RunnerStep, RunnerAck, RunnerSent, RunnerAwait, RunnerServer, RunnerRoom,
                RunnerGoes, BackToMenu
  <2>4. \/ page' = page
        \/ runner'[x] = "ended" /\ \A u \in User : u # from[x] => page'[u] = page[u]
    BY <1>4, <2>2 DEF TypeOK, RunnerStep, RunnerAck, RunnerSent, RunnerAwait, RunnerServer, RunnerRoom,
                RunnerGoes, BackToMenu
  <2> QED
    BY <1>1, <2>1, <2>2, <2>3, <2>4 DEF PageInv, Active
<1>5. ASSUME NEW x \in Request,
             HandlerStep(x) \/ AwaitingRequest(x) \/ MatcherStep(x) \/ CollectConn(x)
      PROVE  PageInv'
  <2>1. UNCHANGED <<runner, from, page>>
    BY <1>5 DEF HandlerStep, AwaitingRequest, Unauthorized, Acknowledge, UserNotFound, RequestSent,
                DialFails, Answered, ServerError, SendServer, InsertAndClose, HandlerGoes,
                MatcherStep, CollectConn, DeliverRequest, ReadAccept, ReadDecline, MatcherGoes,
                central, requester
  <2> QED
    BY <1>2, <2>1
<1>6. ASSUME NEW v \in User,
             \/ \E u \in User : AcceptMessageRequest(v, u)
             \/ ReadServer(v) \/ ReadServerFails(v)
      PROVE  PageInv'
  <2>1. page[v] \in {"menu", "accepting"} /\ UNCHANGED <<runner, from>>
    BY <1>6 DEF AcceptMessageRequest, ReadServer, ReadServerFails, TargetGoes, central, requester
  <2>2. \E p : page' = [page EXCEPT ![v] = p]
    BY <1>6 DEF AcceptMessageRequest, ReadServer, ReadServerFails
  <2>3. \A u \in User : u # v => page'[u] = page[u]
    BY <2>2 DEF TypeOK
  <2> QED
    BY <1>1, <2>1, <2>3, PageKept
<1>7. ASSUME NEW v \in User, Quit(v)
      PROVE  PageInv'
  <2>1. /\ from' = from /\ \A u \in User : u # v => page'[u] = page[u]
        /\ \A a \in Request : runner'[a] = IF from[a] = v THEN "ended" ELSE runner[a]
    BY <1>7 DEF Quit, central, TypeOK
  <2>2. \A a \in Request : Active(a)' => Active(a) /\ from[a] # v
    BY <2>1 DEF Active
  <2> QED
    BY <1>1, <2>1, <2>2 DEF PageInv
<1>8. CASE UNCHANGED vars
  BY <1>2, <1>8 DEF vars, central, requester
<1> QED
  BY <1>3, <1>4, <1>5, <1>6, <1>7, <1>8 DEF Next
----------------------------------------------------------------------------
\* What may change of what the target was asked and has answered.
LEMMA AcceptKept ==
  ASSUME TypeOK, AcceptInv,
         \A a \in Request : handler[a] # "idle" =>
           handler'[a] # "idle" /\ from'[a] = from[a] /\ to'[a] = to[a],
         \A a \in Request : acceptSent[a] = TRUE => acceptSent'[a] = TRUE,
         \A a \in Request :
           /\ matcher'[a] = "accepted" => matcher[a] = "accepted" \/ acceptSent'[a] = TRUE
           /\ matcher'[a] # "none" => matcher[a] # "none" \/ (to[a] \in User /\ handler[a] # "idle"),
         \A v, u \in User :
           \/ ChatRequests'[v][u] = ChatRequests[v][u]
           \/ \E a \in Request : /\ ChatRequests'[v][u] = a /\ handler[a] # "idle"
                                 /\ to[a] = v /\ from[a] = u,
         \A v \in User : page'[v] = "accepting" =>
           \/ page[v] = "accepting" /\ accepting'[v] = accepting[v]
           \/ \E a \in Request : /\ accepting'[v] = a /\ handler[a] # "idle" /\ to[a] = v
                                 /\ acceptSent'[a] = TRUE
  PROVE  AcceptInv'
<1>1. \A a \in Request : matcher'[a] = "accepted" => acceptSent'[a] = TRUE
  BY DEF AcceptInv
<1>2. \A a \in Request : matcher'[a] # "none" => to'[a] \in User /\ handler'[a] # "idle"
  BY DEF AcceptInv
<1>3. \A v, u \in User : ChatRequests'[v][u] # None =>
        /\ to'[ChatRequests'[v][u]] = v /\ from'[ChatRequests'[v][u]] = u
        /\ handler'[ChatRequests'[v][u]] # "idle"
  <2>1. \A v, u \in User : ChatRequests[v][u] \in Request \cup {None}
    BY DEF TypeOK
  <2> QED
    BY <2>1 DEF AcceptInv
<1>4. \A v \in User : page'[v] = "accepting" =>
        /\ accepting'[v] \in Request
        /\ to'[accepting'[v]] = v /\ handler'[accepting'[v]] # "idle"
        /\ acceptSent'[accepting'[v]] = TRUE
  BY DEF AcceptInv
<1> QED
  BY <1>1, <1>2, <1>3, <1>4 DEF AcceptInv

LEMMA AcceptStep ==
  ASSUME TypeOK, MatchInv, [Next]_vars
  PROVE  AcceptInv'
<1>1. AcceptInv
  BY DEF MatchInv
<1>2. ASSUME NEW x \in Request, NEW u \in MayAsk, NEW v \in Name, StartMatchmaking(x, u, v)
      PROVE  AcceptInv'
  <2>1. /\ handler[x] = "idle" /\ UNCHANGED <<matcher, acceptSent, ChatRequests, accepting>>
        /\ \A a \in Request : a # x =>
             handler'[a] = handler[a] /\ from'[a] = from[a] /\ to'[a] = to[a]
        /\ \A w \in User : page'[w] = "accepting" => page[w] = "accepting"
    BY <1>2 DEF StartMatchmaking, target, TypeOK
  <2> QED
    BY <1>1, <2>1, AcceptKept
<1>3. ASSUME NEW x \in Request, RunnerStep(x)
      PROVE  AcceptInv'
  <2>1. UNCHANGED <<handler, from, to, matcher, acceptSent, ChatRequests, accepting>>
    BY <1>3 DEF RunnerStep, RunnerAck, RunnerSent, RunnerAwait, RunnerServer, RunnerRoom, Receive,
                central, target
  <2>2. page' = page \/ \E p \in {"menu", "chat"} : page' = [page EXCEPT ![from[x]] = p]
    BY <1>3 DEF RunnerStep, RunnerAck, RunnerSent, RunnerAwait, RunnerServer, RunnerRoom,
                RunnerGoes, BackToMenu
  <2>3. \A w \in User : page'[w] = "accepting" => page[w] = "accepting"
    BY <2>2 DEF TypeOK
  <2> QED
    BY <1>1, <2>1, <2>3, AcceptKept
<1>4. ASSUME NEW x \in Request, HandlerStep(x) \/ AwaitingRequest(x)
      PROVE  AcceptInv'
  <2>1. PICK state \in {"read", "lookup", "poll", "select", "insert"},
             next \in {"read", "lookup", "poll", "select", "insert", "closed"} :
          HandlerGoes(x, state, next)
    BY <1>4 DEF HandlerStep, AwaitingRequest, Unauthorized, Acknowledge, UserNotFound, RequestSent,
           DialFails, Answered, ServerError, SendServer, InsertAndClose
  <2>2. /\ UNCHANGED <<from, to, acceptSent, ChatRequests, accepting, page>>
        /\ handler[x] # "idle"
        /\ \A a \in Request : handler[a] # "idle" => handler'[a] # "idle"
    BY <2>1 DEF HandlerGoes, target, TypeOK
  <2>3. \/ matcher' = matcher
        \/ matcher' = [matcher EXCEPT ![x] = "write"] /\ to[x] \in registered
        \/ matcher' = [matcher EXCEPT ![x] = "done"] /\ matcher[x] # "none"
    BY <1>4 DEF HandlerStep, AwaitingRequest, Unauthorized, Acknowledge, UserNotFound, RequestSent,
           DialFails, Answered, ServerError, SendServer, InsertAndClose
  <2>4. \A a \in Request :
           /\ matcher'[a] = "accepted" => matcher[a] = "accepted"
           /\ matcher'[a] # "none" => matcher[a] # "none" \/ (to[a] \in User /\ handler[a] # "idle")
    BY <2>2, <2>3 DEF TypeOK
  <2> QED
    BY <1>1, <2>2, <2>4, AcceptKept
<1>5. ASSUME NEW x \in Request, MatcherStep(x)
      PROVE  AcceptInv'
  <2>1. PICK state \in {"write", "read"}, next \in {"read", "accepted", "declined"} :
          MatcherGoes(x, state, next) /\ (next = "accepted" => acceptSent[x])
    BY <1>5 DEF MatcherStep, DeliverRequest, ReadAccept, ReadDecline
  <2>2. UNCHANGED <<handler, from, to, acceptSent, accepting, page>>
    BY <2>1 DEF MatcherGoes
  <2>3. acceptSent \in [Request -> BOOLEAN]
    BY DEF TypeOK
  <2>4. next = "accepted" => acceptSent[x] = TRUE
    BY <2>1, <2>3, Zenon
  <2>5. matcher[x] = state /\ matcher' = [matcher EXCEPT ![x] = next]
    BY <2>1 DEF MatcherGoes
  <2>6. \A a \in Request :
           /\ matcher'[a] = "accepted" => matcher[a] = "accepted" \/ acceptSent'[a] = TRUE
           /\ matcher'[a] # "none" => matcher[a] # "none"
    BY <2>2, <2>4, <2>5 DEF TypeOK
  <2>7. to[x] \in User /\ from[x] \in User /\ handler[x] # "idle"
    BY <2>5 DEF MatchInv, AcceptInv, FlowInv, Flow
  <2>8. ChatRequests' = ChatRequests \/ ChatRequests' = [ChatRequests EXCEPT ![to[x]][from[x]] = x]
    BY <1>5 DEF MatcherStep, DeliverRequest, ReadAccept, ReadDecline
  <2>9. \A v, u \in User :
           \/ ChatRequests'[v][u] = ChatRequests[v][u]
           \/ ChatRequests'[v][u] = x /\ to[x] = v /\ from[x] = u
    <3>1. \A v \in User : ChatRequests[v] \in [User -> Request \cup {None}]
      BY DEF TypeOK
    <3>2. CASE ChatRequests' = [ChatRequests EXCEPT ![to[x]][from[x]] = x]
      <4>1. \A v \in User :
              ChatRequests'[v] = IF v = to[x] THEN [ChatRequests[v] EXCEPT ![from[x]] = x]
                                              ELSE ChatRequests[v]
        BY <3>2 DEF TypeOK
      <4>2. \A u \in User :
              [ChatRequests[to[x]] EXCEPT ![from[x]] = x][u] =
                IF u = from[x] THEN x ELSE ChatRequests[to[x]][u]
        BY <2>7, <3>1
      <4> QED
        BY <4>1, <4>2
    <3> QED
      BY <2>8, <3>2
  <2>10. \A v, u \in User :
           \/ ChatRequests'[v][u] = ChatRequests[v][u]
           \/ \E a \in Request : /\ ChatRequests'[v][u] = a /\ handler[a] # "idle"
                                 /\ to[a] = v /\ from[a] = u
    BY <2>7, <2>9
  <2> QED
    BY <1>1, <2>2, <2>6, <2>10, AcceptKept
<1>6. ASSUME NEW v \in User, NEW u \in User, AcceptMessageRequest(v, u)
      PROVE  AcceptInv'
  <2> DEFINE a == ChatRequests[v][u]
  <2>1. a \in Request /\ handler[a] # "idle" /\ to[a] = v
    BY <1>1, <1>6 DEF AcceptMessageRequest, AcceptInv, TypeOK
  <2>2. UNCHANGED <<handler, from, to, matcher, ChatRequests>>
    BY <1>6 DEF AcceptMessageRequest, TargetGoes, central
  <2>3. \/ page' = [page EXCEPT ![v] = "gone"] /\ UNCHANGED <<acceptSent, accepting>>
        \/ /\ page' = [page EXCEPT ![v] = "accepting"]
           /\ acceptSent' = [acceptSent EXCEPT ![a] = TRUE]
           /\ accepting' = [accepting EXCEPT ![v] = a]
    BY <1>6 DEF AcceptMessageRequest
  <2>4. acceptSent \in [Request -> BOOLEAN]
    BY DEF TypeOK
  <2> HIDE DEF a
  <2>5. \A b \in Request : acceptSent[b] = TRUE => acceptSent'[b] = TRUE
    BY <2>3, <2>4, Zenon
  <2>6. CASE page' = [page EXCEPT ![v] = "gone"] /\ UNCHANGED <<acceptSent, accepting>>
    <3>1. \A w \in User : page'[w] = "accepting" => page[w] = "accepting"
      BY <2>6 DEF TypeOK
    <3> QED
      BY <1>1, <2>2, <2>5, <2>6, <3>1, AcceptKept
  <2>7. CASE /\ page' = [page EXCEPT ![v] = "accepting"]
             /\ acceptSent' = [acceptSent EXCEPT ![a] = TRUE]
             /\ accepting' = [accepting EXCEPT ![v] = a]
    <3>1. acceptSent'[a] = TRUE
      BY <2>1, <2>4, <2>7, Zenon
    <3>2. \A w \in User : page'[w] = "accepting" =>
            \/ page[w] = "accepting" /\ accepting'[w] = accepting[w]
            \/ accepting'[w] = a /\ w = v
      BY <2>7 DEF TypeOK
    <3> QED
      BY <1>1, <2>1, <2>2, <2>5, <3>1, <3>2, AcceptKept
  <2> QED
    BY <2>3, <2>6, <2>7
<1>7. ASSUME NEW v \in User, ReadServer(v) \/ ReadServerFails(v) \/ Quit(v)
      PROVE  AcceptInv'
  <2>1. UNCHANGED <<handler, from, to, matcher, acceptSent, ChatRequests>>
    BY <1>7 DEF ReadServer, ReadServerFails, Quit, TargetGoes, central, target
  <2>2. \E p \in {"chat", "menu", "gone"} : page' = [page EXCEPT ![v] = p]
    BY <1>7 DEF ReadServer, ReadServerFails, Quit
  <2>3. accepting' = accepting \/ accepting' = [accepting EXCEPT ![v] = None]
    BY <1>7 DEF ReadServer, ReadServerFails, Quit, target
  <2>4. \A w \in User : page'[w] = "accepting" => page[w] = "accepting" /\ accepting'[w] = accepting[w]
    BY <2>2, <2>3 DEF TypeOK
  <2> QED
    BY <1>1, <2>1, <2>4, AcceptKept
<1>8. ASSUME UNCHANGED <<handler, from, to, matcher, acceptSent, ChatRequests, accepting, page>>
      PROVE  AcceptInv'
  BY <1>1, <1>8, AcceptKept
<1>9. ASSUME NEW x \in Request, CollectConn(x)
      PROVE  AcceptInv'
  BY <1>8, <1>9 DEF CollectConn, central, target
<1>10. CASE UNCHANGED vars
  BY <1>8, <1>10 DEF vars, central, target
<1> QED
  BY <1>2, <1>3, <1>4, <1>5, <1>6, <1>7, <1>9, <1>10 DEF Next
----------------------------------------------------------------------------
\* What may change of a request before and after its server is chosen.
LEMMA ServerKept ==
  ASSUME TypeOK, NEW a \in Request, ServerOK(a),
         Chosen(a) => Chosen(a)' /\ from'[a] = from[a] /\ to'[a] = to[a],
         acceptSent[a] = TRUE => acceptSent'[a] = TRUE,
         \A k \in 1..Len(toRequester'[a]) :
           \/ \E j \in 1..Len(toRequester[a]) : toRequester'[a][k] = toRequester[a][j]
           \/ toRequester'[a][k].type \notin {"IP", "RoomID"},
         \A k \in 1..Len(toTarget'[a]) :
           \/ \E j \in 1..Len(toTarget[a]) : toTarget'[a][k] = toTarget[a][j]
           \/ toTarget'[a][k].type # "IP",
         runner'[a] = "room" =>
           \/ runner[a] = "room" /\ runnerServer'[a] = runnerServer[a]
           \/ /\ acceptSent'[a] = TRUE
              /\ \E j \in 1..Len(toRequester[a]) :
                   toRequester[a][j].type = "IP" /\ runnerServer'[a] = toRequester[a][j].value,
         \A u \in User : (chat'[u] # None /\ chat'[u].room = a) =>
           \/ chat'[u] = chat[u]
           \/ u = from[a] /\ runner[a] = "room" /\ chat'[u].server = runnerServer[a]
           \/ /\ u = to[a] /\ acceptSent[a] = TRUE
              /\ \E j \in 1..Len(toTarget[a]) :
                   toTarget[a][j].type = "IP" /\ chat'[u].server = toTarget[a][j].value
  PROVE  ServerOK(a)'
<1>1. PICK server \in Server \cup {None} : OnlyServer(a, server)
  BY DEF ServerOK
<1>2. /\ \A k \in 1..Len(toRequester'[a]) :
           toRequester'[a][k].type = "IP" => Chosen(a)' /\ toRequester'[a][k].value = server
      /\ \A k \in 1..Len(toTarget'[a]) :
           toTarget'[a][k].type = "IP" => Chosen(a)' /\ toTarget'[a][k].value = server
      /\ runner'[a] = "room" => Chosen(a)' /\ acceptSent'[a] = TRUE /\ runnerServer'[a] = server
  BY <1>1 DEF OnlyServer
<1>3. ASSUME NEW u \in User, chat'[u] # None, chat'[u].room = a
      PROVE  /\ Chosen(a)' /\ acceptSent'[a] = TRUE
             /\ chat'[u].server = server
             /\ u = from'[a] \/ u = to'[a]
  BY <1>1, <1>3 DEF OnlyServer
<1>4. OnlyServer(a, server)'
  BY <1>2, <1>3 DEF OnlyServer
<1>5. /\ \A k \in 1..Len(toRequester'[a]) :
           /\ toRequester'[a][k].type = "RoomID" => toRequester'[a][k].value = a
           /\ toRequester'[a][k].type = "IP" => toRequester'[a][k].value \in Server
      /\ \A k \in 1..Len(toTarget'[a]) :
           toTarget'[a][k].type = "IP" => toTarget'[a][k].value \in Server
      /\ runner'[a] = "room" => runnerServer'[a] \in Server
  BY DEF ServerOK
<1> QED
  BY <1>4, <1>5 DEF ServerOK

\* The lines to the requester after a handler's write of one line.
LEMMA WriteOne ==
  ASSUME TypeOK, NEW x \in Request, NEW a \in Request, NEW line \in Lines,
         WriteRequester(x, <<line>>)
  PROVE  \A k \in 1..Len(toRequester'[a]) :
           \/ \E j \in 1..Len(toRequester[a]) : toRequester'[a][k] = toRequester[a][j]
           \/ toRequester'[a][k] = line
<1> DEFINE q == toRequester[a]
<1>1. q \in Seq(Lines)
  BY DEF TypeOK
<1>2. toRequester'[a] = q \/ toRequester'[a] = Append(q, line)
  BY <1>1, Concat DEF WriteRequester, TypeOK
<1>3. \A k \in 1..Len(Append(q, line)) :
         (k \in 1..Len(q) /\ Append(q, line)[k] = q[k]) \/ Append(q, line)[k] = line
  BY <1>1, LinesOfAppend
<1> QED
  BY <1>2, <1>3

LEMMA WriteOneTarget ==
  ASSUME TypeOK, NEW x \in Request, NEW a \in Request, NEW line \in Answers,
         WriteTarget(x, line)
  PROVE  \A k \in 1..Len(toTarget'[a]) :
           \/ \E j \in 1..Len(toTarget[a]) : toTarget'[a][k] = toTarget[a][j]
           \/ toTarget'[a][k] = line
<1> DEFINE q == toTarget[a]
<1>1. q \in Seq(Answers)
  BY DEF TypeOK
<1>2. toTarget'[a] = q \/ toTarget'[a] = Append(q, line)
  BY <1>1 DEF WriteTarget, TypeOK
<1>3. \A k \in 1..Len(Append(q, line)) :
         (k \in 1..Len(q) /\ Append(q, line)[k] = q[k]) \/ Append(q, line)[k] = line
  BY <1>1, LinesOfAppend
<1> QED
  BY <1>2, <1>3

\* The runner.
LEMMA RunnerServerStep ==
  ASSUME TypeOK, MatchInv, NEW x \in Request, RunnerStep(x), NEW a \in Request
  PROVE  ServerOK(a)'
<1> DEFINE q == toRequester[a]
<1>1. ServerOK(a) /\ Flow(x)
  BY DEF MatchInv, ServerInv, FlowInv
<1>2. PICK type : Receive(x, type)
  BY DEF RunnerStep, RunnerAck, RunnerSent, RunnerAwait, RunnerServer, RunnerRoom
<1>3. UNCHANGED <<handler, from, to, acceptSent, toTarget>>
  BY <1>2 DEF Receive, central, target
<1>4. \A k \in 1..Len(toRequester'[a]) :
        \E j \in 1..Len(q) : toRequester'[a][k] = q[j]
  <2>1. q \in Seq(Lines) /\ (toRequester'[a] = q \/ (q # <<>> /\ toRequester'[a] = Tail(q)))
    BY <1>2 DEF Receive, TypeOK
  <2>2. q # <<>> => \A k \in 1..Len(Tail(q)) : k + 1 \in 1..Len(q) /\ Tail(q)[k] = q[k + 1]
    BY <2>1, HeadAndTail
  <2> HIDE DEF q
  <2> QED
    BY <2>1, <2>2
<1>5. CASE RunnerRoom(x)
  <2>1. Head(toRequester[x]).value = x
    <3>1. /\ toRequester[x] \in Seq(Lines) /\ toRequester[x] # <<>>
          /\ Head(toRequester[x]).type = "RoomID"
      BY <1>5 DEF RunnerRoom, Receive, TypeOK
    <3>2. Head(toRequester[x]) = toRequester[x][1] /\ 1 \in 1..Len(toRequester[x])
      BY <3>1, HeadAndTail
    <3> QED
      BY <3>1, <3>2 DEF MatchInv, ServerInv, ServerOK
  <2>2. /\ runner[x] = "room" /\ chat' = [chat EXCEPT ![from[x]] = Chat(x, runnerServer[x])]
        /\ runner' = [runner EXCEPT ![x] = "ended"] /\ runnerServer' = runnerServer
    BY <1>5, <2>1 DEF RunnerRoom
  <2>3. \A u \in User : chat'[u] = chat[u] \/ (u = from[x] /\ chat'[u] = Chat(x, runnerServer[x]))
    BY <2>2 DEF TypeOK
  <2>4. Chat(x, runnerServer[x]).room = x /\ Chat(x, runnerServer[x]).server = runnerServer[x]
    BY DEF Chat
  <2>5. \A u \in User : (chat'[u] # None /\ chat'[u].room = a) =>
           \/ chat'[u] = chat[u]
           \/ u = from[a] /\ runner[a] = "room" /\ chat'[u].server = runnerServer[a]
    BY <2>2, <2>3, <2>4
  <2>6. runner'[a] = "room" => runner[a] = "room"
    BY <2>2 DEF TypeOK
  <2> QED
    BY <1>1, <1>3, <1>4, <2>2, <2>5, <2>6, ServerKept DEF Chosen
<1>6. CASE Receive(x, "IP") /\ RunnerGoes(x, "server", "room")
           /\ runnerServer' = [runnerServer EXCEPT ![x] = Head(toRequester[x]).value]
  <2>1. /\ runner[x] = "server" /\ runner'[x] = "room" /\ UNCHANGED <<page, chat>>
        /\ \A b \in Request : b # x => runner'[b] = runner[b] /\ runnerServer'[b] = runnerServer[b]
        /\ runnerServer'[x] = Head(toRequester[x]).value
    BY <1>6 DEF RunnerGoes, TypeOK
  <2>2. acceptSent[x] = TRUE
    <3>1. \A m \in RunnerState : Moves(acceptSent[x], runner[x], "IP", m) => m = "room"
      BY <2>1 DEF Moves
    <3>2. Moves(acceptSent[x], runner[x], "IP", "room")
      BY <1>1, <1>6, <2>1, <3>1, FlowReceive
    <3> QED
      BY <2>1, <3>2 DEF Moves
  <2>3. /\ toRequester[x] \in Seq(Lines) /\ toRequester[x] # <<>>
        /\ Head(toRequester[x]).type = "IP"
    BY <1>6 DEF Receive, TypeOK
  <2>4. Head(toRequester[x]) = toRequester[x][1] /\ 1 \in 1..Len(toRequester[x])
    BY <2>3, HeadAndTail
  <2>5. runner'[a] = "room" =>
          \/ runner[a] = "room" /\ runnerServer'[a] = runnerServer[a]
          \/ /\ acceptSent'[a] = TRUE
             /\ \E j \in 1..Len(toRequester[a]) :
                  toRequester[a][j].type = "IP" /\ runnerServer'[a] = toRequester[a][j].value
    BY <1>3, <2>1, <2>2, <2>3, <2>4
  <2> QED
    BY <1>1, <1>3, <1>4, <2>1, <2>5, ServerKept DEF Chosen
<1>7. ASSUME chat' = chat, runnerServer' = runnerServer,
             NEW n, n # "room", runner' = [runner EXCEPT ![x] = n]
      PROVE  ServerOK(a)'
  <2>1. runner'[a] = "room" => runner[a] = "room"
    BY <1>7 DEF TypeOK
  <2> QED
    BY <1>1, <1>3, <1>4, <1>7, <2>1, ServerKept DEF Chosen
<1> QED
  BY <1>5, <1>6, <1>7 DEF RunnerStep, RunnerAck, RunnerSent, RunnerAwait, RunnerServer, RunnerGoes,
                          BackToMenu

\* The handler's choice of a server: before it, nobody has heard of one.
LEMMA ChooseStep ==
  ASSUME TypeOK, MatchInv, NEW x \in Request, SendServer(x)
  PROVE  ServerOK(x)'
<1> DEFINE q == toRequester[x]  p == toTarget[x]
<1>1. ServerOK(x)
  BY DEF MatchInv, ServerInv
<1>2. PICK server \in Server :
        /\ WriteRequester(x, <<[type |-> "IP", value |-> server], [type |-> "RoomID", value |-> x]>>)
        /\ WriteTarget(x, [type |-> "IP", value |-> server])
  BY DEF SendServer
<1> DEFINE ip == [type |-> "IP", value |-> server]
           room == [type |-> "RoomID", value |-> x]
<1>3. /\ q \in Seq(Lines) /\ p \in Seq(Answers) /\ ip \in Lines /\ ip \in Answers /\ room \in Lines
      /\ ip.type = "IP" /\ ip.value = server /\ room.type = "RoomID" /\ room.value = x
  BY LineTypes DEF TypeOK
<1>4. handler[x] = "select" /\ handler'[x] = "insert" /\ UNCHANGED <<runner, chat>>
  BY DEF SendServer, HandlerGoes, requester, TypeOK
<1>5. /\ \A k \in 1..Len(q) : q[k].type # "IP"
      /\ \A k \in 1..Len(p) : p[k].type # "IP"
      /\ runner[x] # "room"
      /\ \A u \in User : ~(chat[u] # None /\ chat[u].room = x)
  BY <1>1, <1>4 DEF ServerOK, OnlyServer, Chosen
<1>6. toRequester'[x] = q \/ toRequester'[x] = Append(Append(q, ip), room)
  BY <1>2, <1>3, ConcatTwo DEF WriteRequester, TypeOK
<1>7. toTarget'[x] = p \/ toTarget'[x] = Append(p, ip)
  BY <1>2 DEF WriteTarget, TypeOK
<1> HIDE DEF q, p, ip, room
<1>8. \A k \in 1..Len(toRequester'[x]) :
        \/ k \in 1..Len(q) /\ toRequester'[x][k] = q[k]
        \/ toRequester'[x][k] = ip \/ toRequester'[x][k] = room
  <2>1. /\ Append(q, ip) \in Seq(Lines)
        /\ \A k \in 1..Len(Append(q, ip)) :
             (k \in 1..Len(q) /\ Append(q, ip)[k] = q[k]) \/ Append(q, ip)[k] = ip
    BY <1>3, LinesOfAppend
  <2>2. \A k \in 1..Len(Append(Append(q, ip), room)) :
           \/ k \in 1..Len(Append(q, ip)) /\ Append(Append(q, ip), room)[k] = Append(q, ip)[k]
           \/ Append(Append(q, ip), room)[k] = room
    BY <1>3, <2>1, LinesOfAppend
  <2> QED
    BY <1>6, <2>1, <2>2
<1>9. \A k \in 1..Len(toTarget'[x]) :
        (k \in 1..Len(p) /\ toTarget'[x][k] = p[k]) \/ toTarget'[x][k] = ip
  BY <1>3, <1>7, LinesOfAppend
<1>10. Chosen(x)'
  BY <1>4 DEF Chosen
<1>11. OnlyServer(x, server)'
  BY <1>3, <1>4, <1>5, <1>8, <1>9, <1>10 DEF OnlyServer
<1>12. \A k \in 1..Len(q) : q[k].type = "RoomID" => q[k].value = x
  BY <1>1 DEF ServerOK, q
<1>13. /\ \A k \in 1..Len(toRequester'[x]) :
           /\ toRequester'[x][k].type = "RoomID" => toRequester'[x][k].value = x
           /\ toRequester'[x][k].type = "IP" => toRequester'[x][k].value \in Server
       /\ \A k \in 1..Len(toTarget'[x]) :
           toTarget'[x][k].type = "IP" => toTarget'[x][k].value \in Server
  BY <1>3, <1>5, <1>8, <1>9, <1>12
<1> QED
  BY <1>4, <1>5, <1>11, <1>13 DEF ServerOK

\* The rest of the handler.
LEMMA HandlerServerStep ==
  ASSUME TypeOK, MatchInv, NEW x \in Request, HandlerStep(x) \/ AwaitingRequest(x), NEW a \in Request
  PROVE  ServerOK(a)'
<1>1. ServerOK(a)
  BY DEF MatchInv, ServerInv
<1>2. PICK state \in {"read", "lookup", "poll", "select", "insert"},
           next \in {"read", "lookup", "poll", "select", "insert", "closed"} :
        HandlerGoes(x, state, next) /\ (state = "insert" => next = "closed")
  BY DEF HandlerStep, AwaitingRequest, Unauthorized, Acknowledge, UserNotFound, RequestSent,
         DialFails, Answered, ServerError, SendServer, InsertAndClose
<1>3. UNCHANGED <<from, to, runner, runnerServer, acceptSent, chat>>
  BY <1>2 DEF HandlerGoes, requester, target
<1>4. Chosen(a) => Chosen(a)'
  BY <1>2 DEF HandlerGoes, Chosen, TypeOK
<1>5. ASSUME \A k \in 1..Len(toRequester'[a]) :
               \/ \E j \in 1..Len(toRequester[a]) : toRequester'[a][k] = toRequester[a][j]
               \/ toRequester'[a][k].type \notin {"IP", "RoomID"},
             \A k \in 1..Len(toTarget'[a]) :
               \/ \E j \in 1..Len(toTarget[a]) : toTarget'[a][k] = toTarget[a][j]
               \/ toTarget'[a][k].type # "IP"
      PROVE  ServerOK(a)'
  BY <1>1, <1>3, <1>4, <1>5, ServerKept
<1>6. ASSUME NEW type \in LineType \ {"IP", "RoomID"}, WriteRequester(x, <<Line(type)>>)
      PROVE  \A k \in 1..Len(toRequester'[a]) :
               \/ \E j \in 1..Len(toRequester[a]) : toRequester'[a][k] = toRequester[a][j]
               \/ toRequester'[a][k].type \notin {"IP", "RoomID"}
  <2>1. Line(type) \in Lines /\ Line(type).type = type
    BY LineTypes DEF Line
  <2> QED
    BY <1>6, <2>1, WriteOne
<1>7. CASE \/ Unauthorized(x) \/ Acknowledge(x) \/ UserNotFound(x) \/ RequestSent(x)
           \/ Answered(x) \/ AwaitingRequest(x)
  <2>1. \E type \in LineType \ {"IP", "RoomID"} : WriteRequester(x, <<Line(type)>>)
    BY <1>7 DEF Unauthorized, Acknowledge, UserNotFound, RequestSent, Answered, AwaitingRequest, LineType
  <2>2. toTarget' = toTarget
    BY <1>7 DEF Unauthorized, Acknowledge, UserNotFound, RequestSent, Answered, AwaitingRequest
  <2> QED
    BY <1>5, <1>6, <2>1, <2>2
<1>8. CASE DialFails(x) \/ InsertAndClose(x)
  <2>1. UNCHANGED <<toRequester, toTarget>>
    BY <1>8 DEF DialFails, InsertAndClose
  <2> QED
    BY <1>5, <2>1
<1>9. CASE ServerError(x)
  <2>1. WriteRequester(x, <<Line("SERVER_ERROR")>>) /\ WriteTarget(x, Line("SERVER_ERROR"))
    BY <1>9 DEF ServerError
  <2>2. Line("SERVER_ERROR") \in Answers /\ Line("SERVER_ERROR").type # "IP"
    BY LineTypes DEF Line
  <2> QED
    BY <1>5, <1>6, <2>1, <2>2, WriteOneTarget DEF LineType
<1>10. CASE SendServer(x)
  <2>1. CASE a = x
    BY <1>10, <2>1, ChooseStep
  <2>2. CASE a # x
    <3>1. toRequester'[a] = toRequester[a] /\ toTarget'[a] = toTarget[a]
      BY <1>10, <2>2 DEF SendServer, WriteRequester, WriteTarget, TypeOK
    <3> QED
      BY <1>5, <3>1
  <2> QED
    BY <2>1, <2>2
<1> QED
  BY <1>7, <1>8, <1>9, <1>10 DEF HandlerStep

\* The users.
LEMMA ClientServerStep ==
  ASSUME TypeOK, MatchInv, NEW a \in Request, NEW v \in User,
         \/ \E u \in User : AcceptMessageRequest(v, u)
         \/ ReadServer(v) \/ ReadServerFails(v) \/ Quit(v)
  PROVE  ServerOK(a)'
<1>1. ServerOK(a)
  BY DEF MatchInv, ServerInv
<1>2. UNCHANGED <<handler, from, to, runnerServer>>
  BY DEF AcceptMessageRequest, ReadServer, ReadServerFails, Quit, TargetGoes, central, requester
<1>3. acceptSent[a] = TRUE => acceptSent'[a] = TRUE
  <2>1. acceptSent' = acceptSent \/ \E b : acceptSent' = [acceptSent EXCEPT ![b] = TRUE]
    BY DEF AcceptMessageRequest, ReadServer, ReadServerFails, Quit, target
  <2>2. acceptSent \in [Request -> BOOLEAN]
    BY DEF TypeOK
  <2> QED
    BY <2>1, <2>2, Zenon
<1>4. CASE Quit(v)
  <2>1. /\ toRequester'[a] = toRequester[a] \/ toRequester'[a] = <<>>
        /\ toTarget'[a] = toTarget[a] \/ toTarget'[a] = <<>>
        /\ runner'[a] = "room" => runner[a] = "room"
        /\ \A u \in User : chat'[u] # None => chat'[u] = chat[u]
    BY <1>4 DEF Quit, TypeOK
  <2>2. /\ \A k \in 1..Len(toRequester'[a]) :
             \E j \in 1..Len(toRequester[a]) : toRequester'[a][k] = toRequester[a][j]
        /\ \A k \in 1..Len(toTarget'[a]) :
             \E j \in 1..Len(toTarget[a]) : toTarget'[a][k] = toTarget[a][j]
    BY <2>1
  <2> QED
    BY <1>1, <1>2, <1>3, <2>1, <2>2, ServerKept DEF Chosen
<1>5. CASE (\E u \in User : AcceptMessageRequest(v, u)) \/ ReadServerFails(v)
  <2>1. UNCHANGED <<toRequester, toTarget, runner, chat>>
    BY <1>5 DEF AcceptMessageRequest, ReadServerFails, TargetGoes, requester
  <2> QED
    BY <1>1, <1>2, <1>3, <2>1, ServerKept DEF Chosen
<1>6. CASE ReadServer(v)
  <2> DEFINE b == accepting[v]  p == toTarget[b]
  <2>1. b \in Request /\ to[b] = v /\ acceptSent[b] = TRUE
    BY <1>6 DEF ReadServer, MatchInv, AcceptInv
  <2>2. p \in Seq(Answers) /\ p # <<>> /\ toTarget' = [toTarget EXCEPT ![b] = Tail(p)]
    BY <1>6, <2>1 DEF ReadServer, TypeOK
  <2>3. /\ Head(p) = p[1] /\ 1 \in 1..Len(p)
        /\ \A k \in 1..Len(Tail(p)) : k + 1 \in 1..Len(p) /\ Tail(p)[k] = p[k + 1]
    BY <2>2, HeadAndTail
  <2>4. toTarget'[b] = Tail(p) /\ (a # b => toTarget'[a] = toTarget[a])
    BY <2>1, <2>2 DEF TypeOK
  <2>5. \A k \in 1..Len(toTarget'[a]) :
          \E j \in 1..Len(toTarget[a]) : toTarget'[a][k] = toTarget[a][j]
    <3>1. CASE a = b
      BY <2>3, <2>4, <3>1
    <3>2. CASE a # b
      BY <2>4, <3>2
    <3> QED
      BY <3>1, <3>2
  <2>6. chat' = chat \/ (Head(p).type = "IP" /\ chat' = [chat EXCEPT ![v] = Chat(b, Head(p).value)])
    BY <1>6 DEF ReadServer
  <2>7. \A u \in User : \/ chat'[u] = chat[u]
                        \/ u = v /\ Head(p).type = "IP" /\ chat'[u] = Chat(b, Head(p).value)
    BY <2>6 DEF TypeOK
  <2>8. Chat(b, Head(p).value).room = b /\ Chat(b, Head(p).value).server = Head(p).value
    BY DEF Chat
  <2>9. \A u \in User : (chat'[u] # None /\ chat'[u].room = a) =>
           \/ chat'[u] = chat[u]
           \/ /\ u = to[a] /\ acceptSent[a] = TRUE
              /\ \E j \in 1..Len(toTarget[a]) :
                   toTarget[a][j].type = "IP" /\ chat'[u].server = toTarget[a][j].value
    BY <2>1, <2>3, <2>7, <2>8
  <2>10. UNCHANGED <<toRequester, runner>>
    BY <1>6 DEF ReadServer, TargetGoes, requester
  <2> QED
    BY <1>1, <1>2, <1>3, <2>5, <2>9, <2>10, ServerKept DEF Chosen
<1> QED
  BY <1>4, <1>5, <1>6

LEMMA ServerStep ==
  ASSUME TypeOK, MatchInv, [Next]_vars
  PROVE  ServerInv'
<1> SUFFICES ASSUME NEW a \in Request
             PROVE  ServerOK(a)'
  BY DEF ServerInv
<1>1. ServerOK(a)
  BY DEF MatchInv, ServerInv
<1>2. ASSUME NEW x \in Request, NEW u \in MayAsk, NEW v \in Name, StartMatchmaking(x, u, v)
      PROVE  ServerOK(a)'
  <2>1. /\ UNCHANGED <<acceptSent, toRequester, toTarget, runnerServer, chat>>
        /\ runner'[a] = "room" => runner[a] = "room"
        /\ Chosen(a) => Chosen(a)' /\ from'[a] = from[a] /\ to'[a] = to[a]
    BY <1>2 DEF StartMatchmaking, target, TypeOK, Chosen
  <2> QED
    BY <1>1, <2>1, ServerKept
<1>3. ASSUME UNCHANGED <<handler, from, to, acceptSent, toRequester, toTarget, runner, runnerServer, chat>>
      PROVE  ServerOK(a)'
  BY <1>1, <1>3, ServerKept DEF Chosen
<1>4. ASSUME NEW x \in Request, MatcherStep(x) \/ CollectConn(x)
      PROVE  ServerOK(a)'
  <2>1. UNCHANGED <<handler, from, to, acceptSent, toRequester, toTarget, runner, runnerServer, chat>>
    BY <1>4 DEF MatcherStep, CollectConn, DeliverRequest, ReadAccept, ReadDecline, MatcherGoes,
                central, requester, target
  <2> QED
    BY <1>3, <2>1
<1>5. CASE UNCHANGED vars
  BY <1>3, <1>5 DEF vars, central, requester, target
<1> QED
  BY <1>2, <1>4, <1>5, RunnerServerStep, HandlerServerStep, ClientServerStep DEF Next
----------------------------------------------------------------------------
LEMMA MatchInvariant == Spec => [](TypeOK /\ MatchInv)
<1>1. Init => TypeOK /\ MatchInv
  <2> SUFFICES ASSUME Init
               PROVE  TypeOK /\ MatchInv
    OBVIOUS
  <2>1. acceptSent \in [Request -> BOOLEAN]
    BY Zenon DEF Init
  <2>2. TypeOK
    BY <2>1 DEF Init, TypeOK
  <2>3. FlowInv /\ PageInv
    BY DEF Init, FlowInv, Flow, PageInv, Active
  <2>4. AcceptInv
    BY DEF Init, AcceptInv
  <2>5. ServerInv
    BY DEF Init, ServerInv, ServerOK, OnlyServer
  <2> QED
    BY <2>2, <2>3, <2>4, <2>5 DEF MatchInv
<1>2. TypeOK /\ MatchInv /\ [Next]_vars => (TypeOK /\ MatchInv)'
  BY TypeStep, FlowStep, PageStep, AcceptStep, ServerStep DEF MatchInv
<1> QED
  BY <1>1, <1>2, PTL DEF Spec

\* Every goroutine is at a point of its code and every client on one of its
\* pages; who is in a chat has a room and the address of a chat server.
THEOREM TypeCorrect == Spec => []TypeOK
BY MatchInvariant, PTL

\* When the runner of a client that is still there has closed the response
\* channel, no line is on its way to StartMatchmaking, which would send it to
\* the closed channel.
THEOREM NoLineForClosedChannel == Spec => []NoSendOnClosedChannel
<1>1. TypeOK /\ MatchInv => NoSendOnClosedChannel
  BY RunEnded DEF MatchInv, FlowInv, Flow, NoSendOnClosedChannel, TypeOK
<1> QED
  BY <1>1, MatchInvariant, PTL

\* Nobody enters the room of a request that was not accepted, although the
\* handler chooses a server and sends its address after a refusal too.
THEOREM ChatsAreAccepted == Spec => []ChatOnlyIfAccepted
<1>1. TypeOK /\ MatchInv => ChatOnlyIfAccepted
  <2> SUFFICES ASSUME TypeOK, MatchInv, NEW u \in User, chat[u] # None
               PROVE  acceptSent[chat[u].room]
    BY DEF ChatOnlyIfAccepted
  <2>1. chat[u].room \in Request
    BY DEF TypeOK
  <2>2. acceptSent[chat[u].room] = TRUE
    BY <2>1 DEF MatchInv, ServerInv, ServerOK, OnlyServer
  <2> QED
    BY <2>2
<1> QED
  BY <1>1, MatchInvariant, PTL

\* Two users in one room are the two of its request and on the same server.
THEOREM PartnersTogether == Spec => []PartnersAgree
<1>1. TypeOK /\ MatchInv => PartnersAgree
  <2> SUFFICES ASSUME TypeOK, MatchInv, NEW u \in User, NEW v \in User, u # v,
                      chat[u] # None, chat[v] # None, chat[u].room = chat[v].room
               PROVE  /\ chat[u].server = chat[v].server
                      /\ {u, v} = {from[chat[u].room], to[chat[u].room]}
    BY DEF PartnersAgree
  <2> DEFINE a == chat[u].room
  <2>1. a \in Request
    BY DEF TypeOK
  <2>2. PICK server \in Server \cup {None} : OnlyServer(a, server)
    BY <2>1 DEF MatchInv, ServerInv, ServerOK
  <2>3. /\ chat[u].server = server /\ chat[v].server = server
        /\ u = from[a] \/ u = to[a]
        /\ v = from[a] \/ v = to[a]
    BY <2>2 DEF OnlyServer
  <2> QED
    BY <2>3
<1> QED
  BY <1>1, MatchInvariant, PTL
============================================================================
