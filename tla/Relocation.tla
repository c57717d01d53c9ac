---------------------------- MODULE Relocation ----------------------------
(***************************************************************************)
(* Dynamic relocation of chats, composed: Central's chat table and sweep   *)
(* (module ChatTable) with the clients that join a chat, are redirected,   *)
(* and quit.                                                               *)
(***************************************************************************)
EXTENDS ChatTable

CONSTANTS
  MayQuit,     \* the users whose client process may end
  DialMayFail, \* the users whose dial of a chat server may fail
  MaxPending   \* bound: redirect connections waiting at one client

ASSUME ClientsAssumption == MayQuit \subseteq User /\ DialMayFail \subseteq User
ASSUME MaxPendingAssumption == MaxPending \in Nat \ {0}

VARIABLES
  chat,       \* per user: the server of its chat connection
  redirects,  \* per user: connections on port 3003, in order of arrival
  atSelect    \* the users whose loop is about to receive from connChan

clientVars == <<chat, redirects, atSelect>>
vars == <<tableVars, clientVars>>

\* A redirect connection that Central opened and dropped without writing:
\* nothing can be read from it until the garbage collector closes it.
Leaked == "leaked"

\* Values of chat besides servers.  A client listens on port 3003 from the
\* moment it is in a chat.
NotInChat == "not in chat"
Stuck == "stuck"
Gone == "gone"

ASSUME AddressesAssumption == {Leaked, NotInChat, Stuck, Gone} \cap Server = {}

RelocationInit ==
  /\ Init
  /\ chat = [u \in User |-> NotInChat]
  /\ redirects = [u \in User |-> <<>>]
  /\ atSelect = {}
----------------------------------------------------------------------------
\* StartChat: the client connects to the server it was sent and listens for
\* redirects on port 3003.
JoinChat(u, r) ==
  /\ u \in {Users[r][1], Users[r][2]}
  /\ invited[r] # None
  /\ chat[u] = NotInChat
  /\ chat' = [chat EXCEPT ![u] = invited[r]]
  /\ UNCHANGED <<tableVars, redirects, atSelect>>

\* StartChat cannot connect and returns; the chat page waits for it for good.
JoinFails(u, r) ==
  /\ u \in DialMayFail
  /\ u \in {Users[r][1], Users[r][2]}
  /\ invited[r] # None
  /\ chat[u] = NotInChat
  /\ chat' = [chat EXCEPT ![u] = Stuck]
  /\ UNCHANGED <<tableVars, redirects, atSelect>>

\* A redirect connection waits and the loop of StartChat comes to its select.
\* Until then the loop is in the Read of its chat connection, which returns
\* when the server sends something or closes; nothing makes it do either.
ReachSelect(u) ==
  /\ redirects[u] # <<>>
  /\ u \notin atSelect
  /\ atSelect' = atSelect \cup {u}
  /\ UNCHANGED <<tableVars, chat, redirects>>

\* The loop has taken the first redirect connection; it goes on to the next
\* select, or to another Read.
Take(u) ==
  /\ u \in atSelect
  /\ redirects[u] # <<>>
  /\ redirects' = [redirects EXCEPT ![u] = Tail(@)]
  /\ atSelect' = atSelect \ {u}
  /\ UNCHANGED tableVars

\* The client reads the new server's address, connects to it and joins the
\* room there.
Follow(u) ==
  /\ Take(u)
  /\ Head(redirects[u]) # Leaked
  /\ chat' = [chat EXCEPT ![u] = Head(redirects[u])]

\* The new server cannot be reached: the client drops the redirect and stays
\* on its old connection.
FollowFails(u) ==
  /\ Take(u)
  /\ u \in DialMayFail
  /\ Head(redirects[u]) # Leaked
  /\ UNCHANGED chat

\* Central's garbage collector closes a leaked connection: the read fails and
\* the client goes on.
CloseLeaked(u) ==
  /\ Take(u)
  /\ Head(redirects[u]) = Leaked
  /\ UNCHANGED chat

\* The client process ends; nothing tells Central.
Quit(u) ==
  /\ u \in MayQuit
  /\ chat[u] # Gone
  /\ chat' = [chat EXCEPT ![u] = Gone]
  /\ redirects' = [redirects EXCEPT ![u] = <<>>]
  /\ atSelect' = atSelect \ {u}
  /\ UNCHANGED tableVars
----------------------------------------------------------------------------
\* Can Central connect to the client's redirect port?
Listening(u) == chat[u] \in Server

\* Both dials succeed: the server address is written to both clients.
Redirect ==
  /\ EndReroute
  /\ Listening(client1) /\ Listening(client2)
  /\ \A u \in {client1, client2} : Len(redirects[u]) < MaxPending
  /\ redirects' = [u \in User |->
                     IF u \in {client1, client2}
                       THEN Append(redirects[u], sweep.serverIP)
                       ELSE redirects[u]]
  /\ UNCHANGED <<chat, atSelect>>

MutantRedirectFails ==
  /\ EndReroute
  /\ ~(Listening(client1) /\ Listening(client2))
  /\ \A u \in {client1, client2} : Len(redirects[u]) < MaxPending
  /\ redirects' = [u \in User |->
                     IF u \in {client1, client2} /\ Listening(u)
                       THEN Append(redirects[u], sweep.serverIP)
                       ELSE redirects[u]]
  /\ UNCHANGED <<chat, atSelect>>

\* One of the clients cannot be dialled: neither is told, and the connection
\* to the other one stays open with nothing written to it.
RedirectFails ==
  /\ EndReroute
  /\ ~(Listening(client1) /\ Listening(client2))
  /\ \A u \in {client1, client2} : Len(redirects[u]) < MaxPending
  /\ redirects' = [u \in User |->
                     IF u \in {client1, client2} /\ Listening(u)
                       THEN Append(redirects[u], Leaked)
                       ELSE redirects[u]]
  /\ UNCHANGED <<chat, atSelect>>
----------------------------------------------------------------------------
\* The steps of Central that no client takes part in.
CentralStep ==
  /\ \/ AnalysisStep
     \/ \E r \in Room : HandlerStep(r)
  /\ UNCHANGED clientVars

\* A running client reports its delays.
Report(u) ==
  /\ chat[u] # Gone
  /\ \E list \in Lists[u] : UpdateDelayList(u, list)
  /\ UNCHANGED clientVars

\* What the client does without waiting for its chat server.
ClientStep(u) ==
  \/ \E r \in Room : JoinChat(u, r) \/ JoinFails(u, r)
  \/ Follow(u)
  \/ FollowFails(u)
  \/ CloseLeaked(u)

RelocationNext ==
  \/ CentralStep \/ Redirect \/ RedirectFails
  \/ \E u \in User : ClientStep(u) \/ ReachSelect(u) \/ Quit(u) \/ Report(u)

RelocationSpec == RelocationInit /\ [][RelocationNext]_vars

\* Central's goroutines run on whatever the clients do.  A client joins the
\* chat it is sent to, and deals with a redirect that its select has received;
\* a leaked connection ends when the garbage collector closes it.  That the
\* loop comes to its select is not assumed.
RelocationFairSpec ==
  /\ RelocationSpec
  /\ WF_vars((AnalysisStep /\ UNCHANGED clientVars)
               \/ Redirect \/ RedirectFails)
  /\ \A r \in Room : WF_vars(HandlerStep(r) /\ UNCHANGED clientVars)
  /\ \A u \in User : WF_vars(ClientStep(u))
----------------------------------------------------------------------------
\* Types of the clients' state.
ClientsTypeOK ==
  /\ chat \in [User -> Server \cup {NotInChat, Stuck, Gone}]
  /\ redirects \in [User -> Seq(Server \cup {Leaked})]
  /\ atSelect \subseteq User

\* The redirect connections of a queue with an address written to them, and
\* the last of them.
Written(queue) == {k \in 1..Len(queue) : queue[k] # Leaked}

LastWritten(queue) == CHOOSE k \in Written(queue) : \A j \in Written(queue) : j <= k

\* The last address sent to a user of the room that the user still acts on.
LastTold(u, r) ==
  IF Written(redirects[u]) # {} THEN redirects[u][LastWritten(redirects[u])]
  ELSE IF chat[u] \in Server THEN chat[u]
  ELSE invited[r]

DialsSucceed(r) == \A k \in 1..2 : Users[r][k] \notin DialMayFail

Present(r) == \A k \in 1..2 : chat[Users[r][k]] # Gone

\* A redirect reaches both partners or neither, at whatever moment of joining
\* or following the sweep finds them: partners who are still there, and whose
\* dials of chat servers succeed, are on the same server once they have acted
\* on what was sent to them.
PartnersToldSame ==
  \A r \in Room :
    (DialsSucceed(r) /\ Present(r)) =>
      LastTold(Users[r][1], r) = LastTold(Users[r][2], r)

InChat(r) == \A k \in 1..2 : chat[Users[r][k]] \in Server

\* No redirect waits for ever while both partners sit in Read: their servers
\* send them something again and again.
BothHear(r) ==
  \A k \in 1..2 : LET u == Users[r][k] IN []<>(redirects[u] = <<>> \/ u \in atSelect)

\* Partners who stay in their chat and hear something again and again, and
\* whose dials of chat servers succeed, end up on one and the same server,
\* lost redirects and leaked connections notwithstanding, whatever becomes of
\* the other chats.
PartnersMeet ==
  \A r \in Room :
    (DialsSucceed(r) /\ <>[]InChat(r) /\ BothHear(r)) =>
      <>[](chat[Users[r][1]] = chat[Users[r][2]])

\* The report: "a client in a chat system will spend no longer than 4 seconds
\* in a bad state", one of which is "The chat is hosted on a suboptimal
\* server" -- so partners who stay in their chat, and hear something again and
\* again, end up on an optimal server.
ChatsReachOptimal ==
  \A r \in Room :
    (<>[]InChat(r) /\ BothHear(r)) =>
      <>[](\A k \in 1..2 :
             chat[Users[r][k]] \in Candidates(Users[r][1], Users[r][2]))
============================================================================
