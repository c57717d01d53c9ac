----------------------------- MODULE ChatServer -----------------------------
(***************************************************************************)
(* A chat server: one handleClient goroutine per connection, the table of  *)
(* rooms and its mutex, and broadcasts that write to every connection of a *)
(* room while they hold the mutex.  Clients join, send, read, are          *)
(* redirected to another server (and leave their connection behind, open   *)
(* and unread), and quit.                                                  *)
(*                                                                         *)
(* A connection carries messages in order; a Read returns as many of them  *)
(* as happen to have arrived.  A Write blocks while the connection is full.*)
(***************************************************************************)
EXTENDS Naturals, SequencesExt

CONSTANTS
  Conn, Room,
  RoomOf,     \* Conn -> the room its client joins
  Messages,   \* Conn -> bound: how many messages its client sends
  MayQuit,    \* the connections whose client may be redirected or quit
  Capacity,   \* how many broadcasts an unread connection holds
  None

ASSUME RoomOfAssumption == RoomOf \in [Conn -> Room]
ASSUME MessagesAssumption == Messages \in [Conn -> Nat]
ASSUME CapacityAssumption == Capacity \in Nat \ {0} /\ MayQuit \subseteq Conn
ASSUME NoneAssumption == None \notin Conn /\ None \notin Nat

VARIABLES
  client,       \* per connection: "new", "open", "abandoned" or "closed"
  sent,         \* per connection: number of messages sent
  toServer,     \* per connection: what is on its way to the server
  handler,      \* per connection: program counter of handleClient
  message,      \* per connection: what handleClient has read
  clients,      \* Room ID -> list of connections
  clientMutex,  \* the connection whose handler holds the mutex
  next,         \* per connection: the range loop of its broadcast
  toClient,     \* per connection: what is on its way to the client
  received,     \* per connection: the broadcasts its client has read
  log,          \* history: the broadcasts of each room
  start,        \* history: length of the room's log when the connection joined
  said          \* history: number of the connection's last message in the log

clientVars == <<client, sent, received>>
historyVars == <<log, start, said>>
serverVars == <<handler, message, clients, clientMutex, next, historyVars>>
vars == <<clientVars, serverVars, toServer, toClient>>

\* The line username#roomId, and the n-th message of a connection.
JoinLine(c) == <<c, 0>>
Message(c, n) == <<c, n>>

Init ==
  /\ client = [c \in Conn |-> "new"]
  /\ sent = [c \in Conn |-> 0]
  /\ toServer = [c \in Conn |-> <<>>]
  /\ handler = [c \in Conn |-> "none"]
  /\ message = [c \in Conn |-> <<>>]
  /\ clients = [r \in Room |-> <<>>]
  /\ clientMutex = None
  /\ next = [c \in Conn |-> 1]
  /\ toClient = [c \in Conn |-> <<>>]
  /\ received = [c \in Conn |-> <<>>]
  /\ log = [r \in Room |-> <<>>]
  /\ start = [c \in Conn |-> None]
  /\ said = [c \in Conn |-> 0]
----------------------------------------------------------------------------
\* The clients.

\* StartChat: connect and send the join line.
StartChat(c) ==
  /\ client[c] = "new"
  /\ client' = [client EXCEPT ![c] = "open"]
  /\ toServer' = [toServer EXCEPT ![c] = <<JoinLine(c)>>]
  /\ handler' = [handler EXCEPT ![c] = "join"]
  /\ UNCHANGED <<sent, received, message, clients, clientMutex, next, historyVars, toClient>>

SendMessage(c) ==
  /\ client[c] = "open"
  /\ sent[c] < Messages[c]
  /\ sent' = [sent EXCEPT ![c] = @ + 1]
  /\ toServer' = [toServer EXCEPT ![c] = Append(@, Message(c, sent'[c]))]
  /\ UNCHANGED <<client, received, serverVars, toClient>>

\* StartChat's loop reads a broadcast.
Receive(c) ==
  /\ client[c] = "open"
  /\ toClient[c] # <<>>
  /\ received' = [received EXCEPT ![c] = Append(@, Head(toClient[c]))]
  /\ toClient' = [toClient EXCEPT ![c] = Tail(@)]
  /\ UNCHANGED <<client, sent, serverVars, toServer>>

\* StartChat's loop follows a redirect: it drops the connection unclosed.
Abandon(c) ==
  /\ c \in MayQuit
  /\ client[c] = "open"
  /\ client' = [client EXCEPT ![c] = "abandoned"]
  /\ UNCHANGED <<sent, received, serverVars, toServer, toClient>>

Close(c) ==
  /\ client' = [client EXCEPT ![c] = "closed"]
  /\ toClient' = [toClient EXCEPT ![c] = <<>>]
  /\ UNCHANGED <<sent, received, serverVars, toServer>>

\* The client's process ends.
Quit(c) == c \in MayQuit /\ client[c] = "open" /\ Close(c)

\* The garbage collector of the client closes a dropped connection.
CollectConn(c) == client[c] = "abandoned" /\ Close(c)
----------------------------------------------------------------------------
\* The server: handleClient.

HandlerGoes(c, from, to) ==
  handler[c] = from /\ handler' = [handler EXCEPT ![c] = to]

\* ReadString returns the join line.  What the buffered reader has read past
\* it is never looked at again.
ReadJoin(c) ==
  /\ HandlerGoes(c, "join", "add")
  /\ \E k \in 1..Len(toServer[c]) :
       toServer' = [toServer EXCEPT ![c] = SubSeq(@, k + 1, Len(@))]
  /\ UNCHANGED <<clientVars, message, clients, clientMutex, next, historyVars, toClient>>

MutantAddClient(c) ==
  /\ HandlerGoes(c, "add", "read")
  /\ clients' = [clients EXCEPT ![RoomOf[c]] = Append(@, c)]
  /\ start' = [start EXCEPT ![c] = Len(log[RoomOf[c]])]
  /\ UNCHANGED <<clientVars, message, clientMutex, next, log, said, toServer, toClient>>

AddClient(c) ==
  /\ HandlerGoes(c, "add", "read")
  /\ clientMutex = None
  /\ clients' = [clients EXCEPT ![RoomOf[c]] = Append(@, c)]
  /\ start' = [start EXCEPT ![c] = Len(log[RoomOf[c]])]
  /\ UNCHANGED <<clientVars, message, clientMutex, next, log, said, toServer, toClient>>

ReadMessage(c) ==
  /\ HandlerGoes(c, "read", "lock")
  /\ \E k \in 1..Len(toServer[c]) :
       /\ message' = [message EXCEPT ![c] = SubSeq(toServer[c], 1, k)]
       /\ toServer' = [toServer EXCEPT ![c] = SubSeq(@, k + 1, Len(@))]
  /\ UNCHANGED <<clientVars, clients, clientMutex, next, historyVars, toClient>>

\* The read fails: the goroutine ends and closes the connection, which stays
\* in its room.
ReadFails(c) ==
  /\ HandlerGoes(c, "read", "ended")
  /\ client[c] = "closed"
  /\ toServer[c] = <<>>
  /\ UNCHANGED <<clientVars, message, clients, clientMutex, next, historyVars, toServer, toClient>>

\* broadcastMessage takes the mutex ...
LockClients(c) ==
  /\ HandlerGoes(c, "lock", "broadcast")
  /\ clientMutex = None
  /\ clientMutex' = c
  /\ next' = [next EXCEPT ![c] = 1]
  /\ log' = [log EXCEPT ![RoomOf[c]] = Append(@, message[c])]
  /\ said' = [said EXCEPT ![c] = Last(message[c])[2]]
  /\ UNCHANGED <<clientVars, message, clients, start, toServer, toClient>>

Members(c) == clients[RoomOf[c]]

MutantWriteClient(c) ==
  LET d == Members(c)[next[c]]
  IN  /\ handler[c] = "broadcast"
      /\ next[c] <= Len(Members(c))
      /\ IF client[d] = "closed"
           THEN /\ next' = [next EXCEPT ![c] = Len(Members(c)) + 1]
                /\ UNCHANGED toClient
           ELSE /\ Len(toClient[d]) < Capacity
                /\ toClient' = [toClient EXCEPT ![d] = Append(@, message[c])]
                /\ next' = [next EXCEPT ![c] = @ + 1]
      /\ UNCHANGED <<clientVars, handler, message, clients, clientMutex, historyVars, toServer>>

\* ... writes to one connection of the room after the other.  The write to a
\* closed one fails and the loop goes on; a full one blocks it ...
WriteClient(c) ==
  LET d == Members(c)[next[c]]
  IN  /\ handler[c] = "broadcast"
      /\ next[c] <= Len(Members(c))
      /\ IF client[d] = "closed"
           THEN UNCHANGED toClient
           ELSE /\ Len(toClient[d]) < Capacity
                /\ toClient' = [toClient EXCEPT ![d] = Append(@, message[c])]
      /\ next' = [next EXCEPT ![c] = @ + 1]
      /\ UNCHANGED <<clientVars, handler, message, clients, clientMutex, historyVars, toServer>>

\* ... and gives the mutex back.
UnlockClients(c) ==
  /\ next[c] > Len(Members(c))
  /\ HandlerGoes(c, "broadcast", "read")
  /\ message' = [message EXCEPT ![c] = <<>>]
  /\ clientMutex' = None
  /\ next' = [next EXCEPT ![c] = 1]
  /\ UNCHANGED <<clientVars, clients, historyVars, toServer, toClient>>
----------------------------------------------------------------------------
HandlerStep(c) ==
  \/ ReadJoin(c) \/ AddClient(c) \/ ReadMessage(c) \/ ReadFails(c)
  \/ LockClients(c) \/ WriteClient(c) \/ UnlockClients(c)

Next ==
  \E c \in Conn :
    \/ StartChat(c) \/ SendMessage(c) \/ Receive(c)
    \/ Abandon(c) \/ Quit(c) \/ CollectConn(c)
    \/ HandlerStep(c)

Spec == Init /\ [][Next]_vars

\* Goroutines run on, the mutex lets none of them starve, a client in its chat
\* keeps reading and the garbage collector runs now and then.  Clients need
\* not send, join or leave.
FairSpec ==
  /\ Spec
  /\ \A c \in Conn :
       /\ SF_vars(AddClient(c) \/ LockClients(c))
       /\ WF_vars(HandlerStep(c))
       /\ WF_vars(Receive(c))
       /\ WF_vars(CollectConn(c))
----------------------------------------------------------------------------
Sendable(c) == {Message(c, n) : n \in 1..Messages[c]}

\* Types of the clients, the connections and the handlers; the range loop is
\* at one of the room's connections or at the end, and the mutex is held by
\* the handler that is broadcasting.
TypeOK ==
  /\ client \in [Conn -> {"new", "open", "abandoned", "closed"}]
  /\ \A c \in Conn : sent[c] \in 0..Messages[c]
  /\ handler \in [Conn -> {"none", "join", "add", "read", "lock", "broadcast", "ended"}]
  /\ \A c \in Conn : ToSet(message[c]) \subseteq Sendable(c)
  /\ \A r \in Room : ToSet(clients[r]) \subseteq Conn
  /\ clientMutex \in Conn \cup {None}
  /\ \A c \in Conn : handler[c] = "broadcast" <=> clientMutex = c
  /\ \A c \in Conn : next[c] \in 1..(Len(Members(c)) + 1)

\* The messages on the page of a client.
Page(c) == FlattenSeq(received[c])

\* What the server has read from a member it delivers to every member who
\* stays: closed connections, and connections that nobody reads until they
\* are collected, hold it up but do not stop it.
Delivered ==
  \A c \in Conn : \A d \in {x \in Conn : RoomOf[x] = RoomOf[c]} : \A m \in Sendable(c) :
    (handler[c] = "lock" /\ m \in ToSet(message[c]) /\ d \in ToSet(Members(c)))
      ~> (m \in ToSet(Page(d)) \/ client[d] # "open")

Rooms == INSTANCE RoomLog WITH NotJoined <- None, shown <- received

\* The server implements one log per room: what handleClient has read is
\* entered when broadcastMessage gets the mutex, and every member reads on
\* from where it joined, whatever closes, fills up or is left behind.
ImplementsRoomLog == Rooms!LogSpec
============================================================================
