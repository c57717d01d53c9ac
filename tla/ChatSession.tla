---------------------------- MODULE ChatSession ----------------------------
(***************************************************************************)
(* One client in a chat: chatPage, StartChat and its two goroutines, and   *)
(* SendMessage of the user, against chat servers and a Central that        *)
(* redirects the client on port 3003.                                      *)
(*                                                                         *)
(* The n-th connection that the client dials is connection n.  It carries  *)
(* tokens: a text or a newline, with the number of the connection.  A Read *)
(* returns as many of them as happen to have arrived.                      *)
(***************************************************************************)
EXTENDS Naturals, SequencesExt

CONSTANTS
  MaxRedirects,   \* bound: how often Central dials the client
  MaxMessages,    \* bound: how many messages the user types
  MaxLines,       \* bound: how many messages the partner sends
  MayCrash        \* the connections whose server may close them

ASSUME BoundsAssumption == {MaxRedirects, MaxMessages, MaxLines} \subseteq Nat
ASSUME MayCrashAssumption == MayCrash \subseteq 1..(MaxRedirects + 1)

VARIABLES
  page,              \* chatPage: "waiting" for START_CHAT or "chat"
  starter,           \* program counter of StartChat
  accepter,          \* the goroutine that accepts: "none", "accept" or "hand"
  loop,              \* program counter of the goroutine that reads
  currentChatConn,   \* number of the connection, 0 for nil
  dialled,           \* number of connections dialled
  backlog,           \* redirects that wait for Accept
  handed,            \* the redirect that waits for the loop (connChan)
  taken,             \* the redirect that the loop is busy with
  silent,            \* redirect connections Central dropped and has yet to close
  redirects,         \* what Central wrote on each: "address" or nothing
  moves,             \* the redirects followed
  incomplete,        \* what has been read of an unfinished line
  pending,           \* lines that the loop has yet to hand to the page
  shown,             \* lines on the page
  heard,             \* every token read so far
  typed,             \* number of messages the user has sent
  spoken,            \* number of messages the partner has sent
  toServer,          \* per connection: lines on their way to the server
  room,              \* per connection: "none", "joined" or "closed" by the server
  fromServer         \* per connection: tokens on their way to the client

startVars == <<page, starter>>
redirectVars == <<accepter, dialled, backlog, handed, taken, silent, redirects, moves>>
textVars == <<incomplete, pending, shown, heard>>
serverVars == <<toServer, room, fromServer>>
userVars == <<typed, spoken>>
vars == <<startVars, redirectVars, loop, currentChatConn, textVars, serverVars, userVars>>

Conn == 1..(MaxRedirects + 1)

NewLine == <<"newline", 0>>
JoinLine == <<"join", 0>>
Token(k, text) == [conn |-> k, text |-> text]

\* broadcastMessage adds a newline to lines that end in one.
Broadcast(k, lines) ==
  [i \in 1..(2 * Len(lines) + 1) |->
     Token(k, IF i % 2 = 1 /\ i < 2 * Len(lines) THEN lines[(i + 1) \div 2] ELSE NewLine)]

Init ==
  /\ page = "waiting"
  /\ starter = "dial"
  /\ accepter = "none"
  /\ loop = "none"
  /\ currentChatConn = 0
  /\ dialled = 0
  /\ backlog = <<>>
  /\ handed = 0
  /\ taken = 0
  /\ silent = {}
  /\ redirects = <<>>
  /\ moves = <<>>
  /\ incomplete = <<>>
  /\ pending = <<>>
  /\ shown = <<>>
  /\ heard = <<>>
  /\ typed = 0
  /\ spoken = 0
  /\ toServer = [k \in Conn |-> <<>>]
  /\ room = [k \in Conn |-> "none"]
  /\ fromServer = [k \in Conn |-> <<>>]
----------------------------------------------------------------------------
\* splitMessages: the parts that end in a newline, and the rest.
NewLines(data) == {i \in DOMAIN data : data[i].text = NewLine}

LastIndex(data, i) == Max({0} \cup {j \in NewLines(data) : j < i})

\* Cuts at the last newline only.
MutantParts(data) ==
  IF NewLines(data) = {} THEN <<>>
  ELSE <<SubSeq(data, 1, LastIndex(data, Len(data) + 1) - 1)>>

NthNewLine(data, n) ==
  CHOOSE i \in NewLines(data) : Cardinality({j \in NewLines(data) : j <= i}) = n

Parts(data) ==
  [n \in 1..Cardinality(NewLines(data)) |->
     LET i == NthNewLine(data, n) IN SubSeq(data, LastIndex(data, i) + 1, i - 1)]

MutantRest(data) == <<>>

Rest(data) == SubSeq(data, LastIndex(data, Len(data) + 1) + 1, Len(data))
----------------------------------------------------------------------------
\* What is written to a connection that the server has closed is lost.
WriteLine(line) ==
  IF room[currentChatConn] = "closed" THEN UNCHANGED toServer
  ELSE toServer' = [toServer EXCEPT ![currentChatConn] = Append(@, line)]

\* SendMessage.  The page has its input field before StartChat has dialled,
\* joined or followed: there may be no connection, or one without its join
\* line.
SendMessage ==
  /\ typed < MaxMessages
  /\ typed' = typed + 1
  /\ IF currentChatConn = 0 THEN UNCHANGED toServer ELSE WriteLine(<<"me", typed'>>)
  /\ UNCHANGED <<startVars, redirectVars, loop, currentChatConn, textVars, room, fromServer, spoken>>
----------------------------------------------------------------------------
\* StartChat.

StarterGoes(from, to) == starter = from /\ starter' = to

Dial ==
  /\ StarterGoes("dial", "join")
  /\ dialled' = 1
  /\ currentChatConn' = 1
  /\ UNCHANGED <<page, accepter, backlog, handed, taken, silent, redirects, moves,
                 loop, textVars, serverVars, userVars>>

\* The page is left waiting.
DialFails ==
  /\ StarterGoes("dial", "ended")
  /\ UNCHANGED <<page, redirectVars, loop, currentChatConn, textVars, serverVars, userVars>>

Join ==
  /\ StarterGoes("join", "announce")
  /\ WriteLine(JoinLine)
  /\ UNCHANGED <<page, redirectVars, loop, currentChatConn, textVars, room, fromServer, userVars>>

JoinFails ==
  /\ StarterGoes("join", "ended")
  /\ room[currentChatConn] = "closed"
  /\ UNCHANGED <<page, redirectVars, loop, currentChatConn, textVars, serverVars, userVars>>

Announce ==
  /\ StarterGoes("announce", "listen")
  /\ page' = "chat"
  /\ UNCHANGED <<redirectVars, loop, currentChatConn, textVars, serverVars, userVars>>

Listen ==
  /\ StarterGoes("listen", "done")
  /\ accepter' = "accept"
  /\ loop' = "select"
  /\ UNCHANGED <<page, dialled, backlog, handed, taken, silent, redirects, moves,
                 currentChatConn, textVars, serverVars, userVars>>

Failed == <<Token(0, <<"FAILED", 0>>)>>

\* The page shows the word FAILED as if it were a message.
ListenFails ==
  /\ StarterGoes("listen", "ended")
  /\ shown' = Append(shown, Failed)
  /\ UNCHANGED <<page, redirectVars, loop, currentChatConn, incomplete, pending, heard,
                 serverVars, userVars>>
----------------------------------------------------------------------------
\* Central, and the goroutine that accepts its connections.

\* Central dials, and writes an address or drops the connection unclosed.
Redirect(written) ==
  /\ starter = "done"
  /\ Len(redirects) < MaxRedirects
  /\ redirects' = Append(redirects, written)
  /\ backlog' = Append(backlog, Len(redirects'))
  /\ silent' = IF written = "nothing" THEN silent \cup {Len(redirects')} ELSE silent
  /\ UNCHANGED <<startVars, accepter, dialled, handed, taken, moves, loop, currentChatConn,
                 textVars, serverVars, userVars>>

CollectRedirect(r) ==
  /\ r \in silent
  /\ silent' = silent \ {r}
  /\ UNCHANGED <<startVars, accepter, dialled, backlog, handed, taken, redirects, moves, loop,
                 currentChatConn, textVars, serverVars, userVars>>

\* Accepts in any order, as a goroutine per connection would.
MutantAccept ==
  \E i \in DOMAIN backlog :
    /\ accepter = "accept"
    /\ accepter' = "hand"
    /\ handed' = backlog[i]
    /\ backlog' = RemoveAt(backlog, i)
    /\ UNCHANGED <<startVars, dialled, taken, silent, redirects, moves, loop, currentChatConn,
                   textVars, serverVars, userVars>>

Accept ==
  /\ accepter = "accept"
  /\ backlog # <<>>
  /\ accepter' = "hand"
  /\ handed' = Head(backlog)
  /\ backlog' = Tail(backlog)
  /\ UNCHANGED <<startVars, dialled, taken, silent, redirects, moves, loop, currentChatConn,
                 textVars, serverVars, userVars>>
----------------------------------------------------------------------------
\* The goroutine that reads.

LoopGoes(from, to) == loop = from /\ loop' = to

\* A redirect that is waiting comes before the default case.
TakeRedirect ==
  /\ LoopGoes("select", "redirect")
  /\ accepter = "hand"
  /\ accepter' = "accept"
  /\ taken' = handed
  /\ handed' = 0
  /\ UNCHANGED <<startVars, dialled, backlog, silent, redirects, moves, currentChatConn,
                 textVars, serverVars, userVars>>

ReadAddress ==
  /\ LoopGoes("redirect", "dial")
  /\ redirects[taken] = "address"
  /\ UNCHANGED <<startVars, redirectVars, currentChatConn, textVars, serverVars, userVars>>

\* The read of a connection without an address blocks until Central's garbage
\* collector has closed it.
ReadAddressFails ==
  /\ LoopGoes("redirect", "select")
  /\ redirects[taken] = "nothing"
  /\ taken \notin silent
  /\ UNCHANGED <<startVars, redirectVars, currentChatConn, textVars, serverVars, userVars>>

\* c.currentChatConn changes without chatLock.
DialNew ==
  /\ LoopGoes("dial", "join")
  /\ dialled' = dialled + 1
  /\ currentChatConn' = dialled'
  /\ moves' = Append(moves, taken)
  /\ UNCHANGED <<startVars, accepter, backlog, handed, taken, silent, redirects,
                 textVars, serverVars, userVars>>

DialNewFails ==
  /\ LoopGoes("dial", "select")
  /\ UNCHANGED <<startVars, redirectVars, currentChatConn, textVars, serverVars, userVars>>

\* Whether the write fails or not.
JoinNew ==
  /\ LoopGoes("join", "select")
  /\ WriteLine(JoinLine)
  /\ UNCHANGED <<startVars, redirectVars, currentChatConn, textVars, room, fromServer, userVars>>

\* The default case: Read blocks, whatever comes to the channel meanwhile.
BeginRead ==
  /\ LoopGoes("select", "read")
  /\ accepter # "hand"
  /\ UNCHANGED <<startVars, redirectVars, currentChatConn, textVars, serverVars, userVars>>

Read ==
  /\ LoopGoes("read", "show")
  /\ \E n \in 1..Len(fromServer[currentChatConn]) :
       LET buffer == SubSeq(fromServer[currentChatConn], 1, n)
           data   == incomplete \o buffer
       IN  /\ fromServer' = [fromServer EXCEPT ![currentChatConn] = SubSeq(@, n + 1, Len(@))]
           /\ heard' = heard \o buffer
           /\ incomplete' = Rest(data)
           /\ pending' = Parts(data)
  /\ UNCHANGED <<startVars, redirectVars, currentChatConn, shown, toServer, room, userVars>>

MutantReadFails ==
  /\ LoopGoes("read", "read")
  /\ room[currentChatConn] = "closed"
  /\ fromServer[currentChatConn] = <<>>
  /\ UNCHANGED <<startVars, redirectVars, currentChatConn, textVars, serverVars, userVars>>

\* The loop goes on, and reads the dead connection again unless it is moved.
ReadFails ==
  /\ LoopGoes("read", "select")
  /\ room[currentChatConn] = "closed"
  /\ fromServer[currentChatConn] = <<>>
  /\ UNCHANGED <<startVars, redirectVars, currentChatConn, textVars, serverVars, userVars>>

Show ==
  /\ loop = "show"
  /\ pending # <<>>
  /\ shown' = Append(shown, Head(pending))
  /\ pending' = Tail(pending)
  /\ UNCHANGED <<startVars, redirectVars, loop, currentChatConn, incomplete, heard,
                 serverVars, userVars>>

EndShow ==
  /\ LoopGoes("show", "select")
  /\ pending = <<>>
  /\ UNCHANGED <<startVars, redirectVars, currentChatConn, textVars, serverVars, userVars>>
----------------------------------------------------------------------------
\* The chat servers, as handleClient serves one connection.

\* The first line must be the join line, or the handler returns and closes the
\* connection; what was read with it is lost.
HandleJoin(k) ==
  /\ room[k] = "none"
  /\ \E n \in 1..Len(toServer[k]) :
       toServer' = [toServer EXCEPT ![k] = SubSeq(@, n + 1, Len(@))]
  /\ room' = [room EXCEPT ![k] = IF Head(toServer[k]) = JoinLine THEN "joined" ELSE "closed"]
  /\ UNCHANGED <<startVars, redirectVars, loop, currentChatConn, textVars, fromServer, userVars>>

MutantHandleMessage(k) ==
  /\ room[k] = "joined"
  /\ toServer[k] # <<>>
  /\ toServer' = [toServer EXCEPT ![k] = Tail(@)]
  /\ UNCHANGED <<startVars, redirectVars, loop, currentChatConn, textVars, room, fromServer, userVars>>

\* What one Read returns is one broadcast, and goes to its sender as well.  It
\* is one or more whole lines: they are taken to fit the server's buffer of
\* 1024 bytes, which would cut a longer line into broadcasts of its own.
HandleMessage(k) ==
  /\ room[k] = "joined"
  /\ \E n \in 1..Len(toServer[k]) :
       /\ toServer' = [toServer EXCEPT ![k] = SubSeq(@, n + 1, Len(@))]
       /\ fromServer' = [fromServer EXCEPT ![k] = @ \o Broadcast(k, SubSeq(toServer[k], 1, n))]
  /\ UNCHANGED <<startVars, redirectVars, loop, currentChatConn, textVars, room, userVars>>

PartnerSpeaks(k) ==
  /\ room[k] = "joined"
  /\ spoken < MaxLines
  /\ spoken' = spoken + 1
  /\ fromServer' = [fromServer EXCEPT ![k] = @ \o Broadcast(k, <<<<"partner", spoken'>>>>)]
  /\ UNCHANGED <<startVars, redirectVars, loop, currentChatConn, textVars, toServer, room, typed>>

ServerCrash(k) ==
  /\ k \in MayCrash
  /\ k <= dialled
  /\ room[k] # "closed"
  /\ room' = [room EXCEPT ![k] = "closed"]
  /\ UNCHANGED <<startVars, redirectVars, loop, currentChatConn, textVars, toServer, fromServer,
                 userVars>>
----------------------------------------------------------------------------
Starter == Dial \/ DialFails \/ Join \/ JoinFails \/ Announce \/ Listen \/ ListenFails

Loop ==
  \/ TakeRedirect \/ ReadAddress \/ ReadAddressFails \/ DialNew \/ DialNewFails \/ JoinNew
  \/ BeginRead \/ Read \/ ReadFails \/ Show \/ EndShow

Handler(k) == HandleJoin(k) \/ HandleMessage(k)

Next ==
  \/ SendMessage
  \/ Starter
  \/ \E written \in {"address", "nothing"} : Redirect(written)
  \/ \E r \in 1..MaxRedirects : CollectRedirect(r)
  \/ Accept
  \/ Loop
  \/ \E k \in Conn : Handler(k) \/ PartnerSpeaks(k) \/ ServerCrash(k)

Spec == Init /\ [][Next]_vars

\* Goroutines of the client and the servers run on, and Central's garbage
\* collector runs now and then.  Nothing is assumed of the user, the partner
\* and Central.
FairSpec ==
  /\ Spec
  /\ WF_vars(Starter)
  /\ WF_vars(Accept)
  /\ WF_vars(Loop)
  /\ \A k \in Conn : WF_vars(Handler(k))
  /\ \A r \in 1..MaxRedirects : WF_vars(CollectRedirect(r))
----------------------------------------------------------------------------
\* Types of the goroutines; a redirect is in one place at a time, and the
\* client reads only connections that it has dialled.
TypeOK ==
  /\ page \in {"waiting", "chat"}
  /\ starter \in {"dial", "join", "announce", "listen", "done", "ended"}
  /\ loop \in {"none", "select", "redirect", "dial", "join", "read", "show"}
  /\ (accepter = "hand") <=> (handed # 0)
  /\ currentChatConn = dialled /\ dialled \in 0..(MaxRedirects + 1)
  /\ handed \notin ToSet(backlog) /\ (handed = taken => handed = 0)
  /\ silent \subseteq 1..Len(redirects)
  /\ (loop = "none") <=> (starter # "done")

\* However the bytes were cut into reads, the page shows the lines of the
\* stream that was read, one after the other, and keeps the rest.  A client
\* that cannot listen for redirects shows FAILED and reads nothing.
ChunkingInvisible ==
  /\ \/ shown \o pending = Parts(heard)
     \/ shown = <<Failed>> /\ pending = <<>> /\ heard = <<>>
  /\ incomplete = Rest(heard)

\* A line on the page is one message of one server, unless a redirect cut it:
\* then the beginning of the old server's line is glued to a line of the new.
LinesWhole ==
  \A i \in DOMAIN shown :
    \A p, q \in DOMAIN shown[i] : p < q => shown[i][p].conn < shown[i][q].conn

\* Redirects are followed in the order in which Central sent them, each once.
MovesInOrder ==
  /\ \A i, j \in DOMAIN moves : i < j => moves[i] < moves[j]
  /\ \A i \in DOMAIN moves : redirects[moves[i]] = "address"

\* A client that hears something, if only its own message from the old server
\* or the end of its connection, turns to the redirect that is waiting.  (One
\* that hears nothing stays in Read.)
FollowsWhenHeard ==
  (/\ accepter = "hand"
   /\ \/ fromServer[currentChatConn] # <<>>
      \/ room[currentChatConn] = "joined" /\ toServer[currentChatConn] # <<>>
      \/ room[currentChatConn] = "closed")
    ~> loop = "redirect"

ShownText(text) == \E i \in DOMAIN shown : \E p \in DOMAIN shown[i] : shown[i][p].text = text

\* What the user sends in a room comes back to the page, unless the client
\* moves or its server closes.
MessageEchoed ==
  \A k \in Conn : \A n \in 1..MaxMessages :
    (/\ loop # "none" /\ room[k] = "joined" /\ currentChatConn = k
     /\ Contains(toServer[k], <<"me", n>>))
      ~> (ShownText(<<"me", n>>) \/ currentChatConn # k \/ room[k] = "closed")
============================================================================
