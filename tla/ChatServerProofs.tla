-------------------------- MODULE ChatServerProofs --------------------------
(***************************************************************************)
(* The chat server implements one log per room, for any number of          *)
(* connections, rooms and messages and any capacity of the connections.    *)
(***************************************************************************)
EXTENDS ChatServer, TLAPS

USE RoomOfAssumption, MessagesAssumption, CapacityAssumption, NoneAssumption

\* An entry of a log: what one Read of a handler has returned.
Entry == Seq(Conn \X Nat)

Shape ==
  /\ client \in [Conn -> {"new", "open", "abandoned", "closed"}]
  /\ sent \in [Conn -> Nat]
  /\ toServer \in [Conn -> Entry]
  /\ handler \in [Conn -> {"none", "join", "add", "read", "lock", "broadcast", "ended"}]
  /\ message \in [Conn -> Entry]
  /\ clients \in [Room -> Seq(Conn)]
  /\ clientMutex \in Conn \cup {None}
  /\ next \in [Conn -> Nat]
  /\ toClient \in [Conn -> Seq(Entry)]
  /\ received \in [Conn -> Seq(Entry)]
  /\ log \in [Room -> Seq(Entry)]
  /\ start \in [Conn -> Nat \cup {None}]
  /\ said \in [Conn -> Nat]

\* Number of the last message that has left the stream to the server; the
\* join line counts as number 0.
Taken(c) == sent[c] - Len(toServer[c])

\* The stream holds the messages after that one, in order.
StreamOK(c) ==
  /\ sent[c] <= Messages[c]
  /\ \A i \in 1..Len(toServer[c]) : toServer[c][i] = <<c, Taken(c) + i>>
  /\ client[c] = "new" <=> handler[c] = "none"
  /\ client[c] = "new" => sent[c] = 0
  /\ handler[c] = "join" => Taken(c) = -1
  /\ handler[c] \notin {"none", "join"} => Taken(c) >= 0

\* What the handler has read follows on what it has broadcast, unless it is
\* the first: messages that came with the join line are lost.
SaidOK(c) ==
  /\ start[c] = None <=> handler[c] \in {"none", "join", "add"}
  /\ start[c] = None => said[c] = 0
  /\ handler[c] \in {"read", "broadcast", "ended"} => said[c] = 0 \/ said[c] = Taken(c)
  /\ handler[c] = "lock" =>
       /\ Len(message[c]) >= 1
       /\ Len(message[c]) <= Taken(c)
       /\ said[c] = 0 \/ said[c] = Taken(c) - Len(message[c])
       /\ \A i \in 1..Len(message[c]) :
            message[c][i] = <<c, Taken(c) - Len(message[c]) + i>>

MessageOK(c) == \A i \in 1..Len(message[c]) : message[c][i] \in Sendable(c)

ConnOK(c) == StreamOK(c) /\ SaidOK(c) /\ MessageOK(c)

\* A room lists the connections that have joined it, each one once.
RoomOK(r) ==
  /\ \A i \in 1..Len(clients[r]) : RoomOf[clients[r][i]] = r /\ start[clients[r][i]] # None
  /\ \A i, j \in 1..Len(clients[r]) : clients[r][i] = clients[r][j] => i = j

ListedOK(c) ==
  start[c] # None => \E i \in 1..Len(clients[RoomOf[c]]) : clients[RoomOf[c]][i] = c

\* The mutex is held by the handler that broadcasts, and what it broadcasts is
\* the last entry of its room's log.
MutexOK(c) ==
  /\ handler[c] = "broadcast" <=> clientMutex = c
  /\ next[c] \in 1..(Len(Members(c)) + 1)
  /\ handler[c] = "broadcast" =>
       /\ Len(log[RoomOf[c]]) >= 1
       /\ log[RoomOf[c]][Len(log[RoomOf[c]])] = message[c]

\* The broadcast in progress has yet to come to this connection.
Pending(d) ==
  \E c \in Conn :
    /\ clientMutex = c /\ RoomOf[c] = RoomOf[d]
    /\ \E i \in 1..Len(clients[RoomOf[d]]) : clients[RoomOf[d]][i] = d /\ next[c] <= i

\* A member has read, or has on its way, all of the log since it joined, but
\* for the entry that is being broadcast.
DeliveryOK(d) ==
  /\ start[d] = None => Len(toClient[d]) = 0 /\ Len(received[d]) = 0
  /\ (start[d] # None /\ client[d] # "closed") =>
       /\ start[d] + Len(received[d]) + Len(toClient[d]) =
            IF Pending(d) THEN Len(log[RoomOf[d]]) - 1 ELSE Len(log[RoomOf[d]])
       /\ \A i \in 1..Len(toClient[d]) :
            toClient[d][i] = log[RoomOf[d]][start[d] + Len(received[d]) + i]

ServerInv ==
  /\ Shape
  /\ \A c \in Conn : ConnOK(c) /\ ListedOK(c) /\ MutexOK(c) /\ DeliveryOK(c)
  /\ \A r \in Room : RoomOK(r)
----------------------------------------------------------------------------
LEMMA Types ==
  ASSUME Shape, NEW d \in Conn
  PROVE  /\ Len(toServer[d]) \in Nat /\ Len(message[d]) \in Nat
         /\ Len(received[d]) \in Nat /\ Len(toClient[d]) \in Nat
         /\ Len(log[RoomOf[d]]) \in Nat /\ Len(clients[RoomOf[d]]) \in Nat
         /\ sent[d] \in Nat /\ next[d] \in Nat /\ said[d] \in Nat /\ Messages[d] \in Nat
         /\ start[d] # None => start[d] \in Nat
<1>1. toServer[d] \in Entry /\ message[d] \in Entry
  BY DEF Shape
<1>2. Len(toServer[d]) \in Nat /\ Len(message[d]) \in Nat
  BY <1>1 DEF Entry
<1>3. received[d] \in Seq(Entry) /\ toClient[d] \in Seq(Entry)
  BY DEF Shape
<1>4. RoomOf[d] \in Room /\ log[RoomOf[d]] \in Seq(Entry) /\ clients[RoomOf[d]] \in Seq(Conn)
  BY DEF Shape
<1>5. /\ sent[d] \in Nat /\ next[d] \in Nat /\ said[d] \in Nat /\ Messages[d] \in Nat
      /\ start[d] # None => start[d] \in Nat
  BY DEF Shape
<1> QED
  BY <1>2, <1>3, <1>4, <1>5

\* What a step leaves alone.

LEMMA ConnFrame ==
  ASSUME NEW c \in Conn, ConnOK(c),
         client'[c] = client[c], sent'[c] = sent[c], toServer'[c] = toServer[c],
         handler'[c] = handler[c], message'[c] = message[c], start'[c] = start[c],
         said'[c] = said[c]
  PROVE  ConnOK(c)'
BY DEF ConnOK, StreamOK, SaidOK, MessageOK, Taken, Sendable

LEMMA RoomFrame ==
  ASSUME clients' = clients, start' = start
  PROVE  /\ \A r \in Room : RoomOK(r) => RoomOK(r)'
         /\ \A c \in Conn : ListedOK(c) => ListedOK(c)'
BY DEF RoomOK, ListedOK

LEMMA PendingFrame ==
  ASSUME clients' = clients, clientMutex' = clientMutex, next' = next
  PROVE  \A d \in Conn : Pending(d)' <=> Pending(d)
BY DEF Pending

LEMMA DeliveryFrame ==
  ASSUME NEW d \in Conn, DeliveryOK(d), Pending(d)' <=> Pending(d),
         log'[RoomOf[d]] = log[RoomOf[d]], start'[d] = start[d],
         received'[d] = received[d], toClient'[d] = toClient[d],
         client'[d] # "closed" => client[d] # "closed"
  PROVE  DeliveryOK(d)'
BY DEF DeliveryOK

\* A step of a client or of a handler outside its broadcast.
LEMMA QuietStep ==
  ASSUME ServerInv, Shape', UNCHANGED <<clients, clientMutex, next, historyVars>>,
         \A c \in Conn : /\ ConnOK(c)'
                         /\ handler'[c] = "broadcast" <=> handler[c] = "broadcast"
                         /\ handler'[c] = "broadcast" => message'[c] = message[c]
                         /\ (\/ /\ received'[c] = received[c]
                                /\ toClient'[c] = toClient[c]
                                /\ client'[c] # "closed" => client[c] # "closed"
                             \/ DeliveryOK(c)')
  PROVE  ServerInv'
<1>1. log' = log /\ start' = start /\ said' = said /\ clients' = clients
      /\ clientMutex' = clientMutex /\ next' = next
  BY DEF historyVars
<1>2. \A r \in Room : RoomOK(r)'
  BY <1>1, RoomFrame DEF ServerInv
<1>3. ASSUME NEW c \in Conn
      PROVE  ListedOK(c)' /\ MutexOK(c)' /\ DeliveryOK(c)'
  <2>1. ListedOK(c)'
    BY <1>1, RoomFrame DEF ServerInv
  <2>2. MutexOK(c)'
    BY <1>1 DEF ServerInv, MutexOK, Members
  <2>3. Pending(c)' <=> Pending(c)
    BY <1>1, PendingFrame
  <2>4. DeliveryOK(c)'
    BY <1>1, <2>3, DeliveryFrame DEF ServerInv
  <2> QED
    BY <2>1, <2>2, <2>4
<1> QED
  BY <1>2, <1>3 DEF ServerInv

----------------------------------------------------------------------------
\* The steps.

LEMMA InitInv == Init => ServerInv
<1> SUFFICES ASSUME Init PROVE ServerInv
  OBVIOUS
<1>1. Shape
  BY DEF Init, Shape, Entry
<1>2. ASSUME NEW c \in Conn
      PROVE  ConnOK(c) /\ ListedOK(c) /\ MutexOK(c) /\ DeliveryOK(c)
  <2>1. /\ client[c] = "new" /\ sent[c] = 0 /\ toServer[c] = <<>> /\ handler[c] = "none"
        /\ message[c] = <<>> /\ clients[RoomOf[c]] = <<>> /\ next[c] = 1 /\ toClient[c] = <<>>
        /\ received[c] = <<>> /\ start[c] = None /\ said[c] = 0 /\ clientMutex # c
        /\ Messages[c] \in Nat
    BY DEF Init
  <2>2. ConnOK(c)
    BY <2>1 DEF ConnOK, StreamOK, SaidOK, MessageOK, Taken
  <2>3. ListedOK(c) /\ MutexOK(c) /\ DeliveryOK(c)
    BY <2>1 DEF ListedOK, MutexOK, DeliveryOK, Members
  <2> QED
    BY <2>2, <2>3
<1>3. \A r \in Room : RoomOK(r)
  BY DEF Init, RoomOK
<1> QED
  BY <1>1, <1>2, <1>3 DEF ServerInv

LEMMA StartChatStep == ASSUME NEW c \in Conn, ServerInv, StartChat(c) PROVE ServerInv'
<1>1. Shape /\ ConnOK(c)
  BY DEF ServerInv
<1>2. <<JoinLine(c)>> \in Entry /\ Len(<<JoinLine(c)>>) = 1 /\ <<JoinLine(c)>>[1] = <<c, 0>>
  BY DEF JoinLine, Entry
<1>3. Shape'
  BY <1>1, <1>2 DEF Shape, StartChat, historyVars
<1>4. ConnOK(c)'
  <2>1. /\ client'[c] = "open" /\ sent'[c] = 0 /\ toServer'[c] = <<JoinLine(c)>>
        /\ handler'[c] = "join" /\ message'[c] = message[c] /\ start'[c] = start[c]
        /\ said'[c] = said[c] /\ Messages[c] \in Nat /\ handler[c] = "none"
    BY <1>1 DEF StartChat, Shape, ConnOK, StreamOK, historyVars
  <2>2. Len(toServer'[c]) = 1 /\ toServer'[c][1] = <<c, 0>>
    BY <1>2, <2>1
  <2>3. StreamOK(c)'
    BY <2>1, <2>2 DEF StreamOK, Taken
  <2>4. SaidOK(c)' /\ MessageOK(c)'
    BY <1>1, <2>1 DEF ConnOK, SaidOK, MessageOK, Sendable
  <2> QED
    BY <2>3, <2>4 DEF ConnOK
<1>5. ASSUME NEW d \in Conn, d # c PROVE ConnOK(d)'
  BY <1>1, <1>5, ConnFrame DEF ServerInv, Shape, StartChat, historyVars
<1>6. \A d \in Conn : /\ handler'[d] = "broadcast" <=> handler[d] = "broadcast"
                      /\ message'[d] = message[d] /\ received'[d] = received[d]
                      /\ toClient'[d] = toClient[d]
                      /\ client'[d] # "closed" => client[d] # "closed"
  BY <1>1 DEF Shape, StartChat, ConnOK, StreamOK
<1>7. UNCHANGED <<clients, clientMutex, next, historyVars>>
  BY DEF StartChat
<1> QED
  BY <1>3, <1>4, <1>5, <1>6, <1>7, QuietStep

LEMMA SendMessageStep == ASSUME NEW c \in Conn, ServerInv, SendMessage(c) PROVE ServerInv'
<1>1. Shape /\ ConnOK(c)
  BY DEF ServerInv
<1>2. /\ sent[c] \in Nat /\ sent'[c] = sent[c] + 1 /\ sent'[c] <= Messages[c]
      /\ toServer[c] \in Entry /\ toServer'[c] = Append(toServer[c], <<c, sent[c] + 1>>)
      /\ Messages[c] \in Nat
  <2>1. /\ sent' = [sent EXCEPT ![c] = @ + 1] /\ sent[c] < Messages[c]
        /\ toServer' = [toServer EXCEPT ![c] = Append(@, <<c, sent'[c]>>)]
    BY DEF SendMessage, Message
  <2>2. sent \in [Conn -> Nat] /\ toServer \in [Conn -> Entry] /\ Messages[c] \in Nat
    BY <1>1 DEF Shape
  <2>3. sent'[c] = sent[c] + 1
    BY <2>1, <2>2
  <2> QED
    BY <2>1, <2>2, <2>3
<1>3. /\ Append(toServer[c], <<c, sent[c] + 1>>) \in Entry
      /\ Len(toServer[c]) \in Nat
      /\ Len(toServer'[c]) = Len(toServer[c]) + 1
      /\ \A i \in 1..Len(toServer[c]) : toServer'[c][i] = toServer[c][i]
      /\ toServer'[c][Len(toServer[c]) + 1] = <<c, sent[c] + 1>>
  BY <1>2 DEF Entry
<1>4. Shape'
  <2>1. toServer' \in [Conn -> Entry] /\ sent' \in [Conn -> Nat]
    <3>1. sent' = [sent EXCEPT ![c] = sent'[c]] /\ toServer' = [toServer EXCEPT ![c] = toServer'[c]]
      BY <1>1 DEF Shape, SendMessage
    <3>2. sent'[c] \in Nat /\ toServer'[c] \in Entry
      BY <1>2, <1>3
    <3> QED
      BY <1>1, <3>1, <3>2 DEF Shape
  <2> QED
    BY <1>1, <2>1 DEF Shape, SendMessage, serverVars, historyVars
<1>5. /\ client'[c] = client[c] /\ client[c] = "open" /\ handler'[c] = handler[c]
      /\ message'[c] = message[c] /\ start'[c] = start[c] /\ said'[c] = said[c]
  BY DEF SendMessage, serverVars, historyVars
<1>6. Taken(c)' = Taken(c)
  <2>1. sent[c] \in Nat /\ sent'[c] = sent[c] + 1
    BY <1>2
  <2>2. Len(toServer[c]) \in Nat /\ Len(toServer'[c]) = Len(toServer[c]) + 1
    BY <1>3
  <2> QED
    BY <2>1, <2>2 DEF Taken
<1>7. ConnOK(c)'
  <2>1. StreamOK(c)'
    <3>1. toServer'[c][Len(toServer[c]) + 1] = <<c, Taken(c) + (Len(toServer[c]) + 1)>>
      BY <1>2, <1>3 DEF Taken
    <3>2. \A i \in 1..Len(toServer'[c]) : toServer'[c][i] = <<c, Taken(c) + i>>
      BY <1>1, <1>3, <3>1 DEF ConnOK, StreamOK
    <3> QED
      BY <1>1, <1>2, <1>5, <1>6, <3>2 DEF ConnOK, StreamOK
  <2>2. SaidOK(c)' /\ MessageOK(c)'
    BY <1>1, <1>5, <1>6 DEF ConnOK, SaidOK, MessageOK, Sendable
  <2> QED
    BY <2>1, <2>2 DEF ConnOK
<1>8. ASSUME NEW d \in Conn, d # c PROVE ConnOK(d)'
  BY <1>1, <1>8, ConnFrame DEF ServerInv, Shape, SendMessage, serverVars, historyVars
<1>9. UNCHANGED <<clients, clientMutex, next, historyVars, handler, message, received, toClient, client>>
  BY DEF SendMessage, serverVars
<1> QED
  BY <1>4, <1>7, <1>8, <1>9, QuietStep

\* A Read takes the first k items of a stream.
LEMMA Split ==
  ASSUME NEW s \in Entry, NEW k \in 1..Len(s)
  PROVE  /\ Len(s) \in Nat /\ k \in Nat /\ k >= 1 /\ k <= Len(s)
         /\ SubSeq(s, 1, k) \in Entry
         /\ Len(SubSeq(s, 1, k)) = k
         /\ \A i \in 1..k : SubSeq(s, 1, k)[i] = s[i]
         /\ SubSeq(s, k + 1, Len(s)) \in Entry
         /\ Len(SubSeq(s, k + 1, Len(s))) = Len(s) - k
         /\ \A i \in 1..(Len(s) - k) : SubSeq(s, k + 1, Len(s))[i] = s[k + i]
<1> DEFINE M == Conn \X Nat
<1>1. s \in Seq(M)
  BY DEF Entry
<1> HIDE DEF M
<1>2. Len(s) \in Nat /\ k \in Nat /\ k >= 1 /\ k <= Len(s)
  BY <1>1
<1>3. /\ SubSeq(s, 1, k) \in Seq(M) /\ Len(SubSeq(s, 1, k)) = k
      /\ \A i \in 1..k : SubSeq(s, 1, k)[i] = s[i]
  BY <1>1, <1>2
<1>4. /\ SubSeq(s, k + 1, Len(s)) \in Seq(M) /\ Len(SubSeq(s, k + 1, Len(s))) = Len(s) - k
      /\ \A i \in 1..(Len(s) - k) : SubSeq(s, k + 1, Len(s))[i] = s[k + i]
  BY <1>1, <1>2
<1> QED
  BY <1>2, <1>3, <1>4 DEF Entry, M

LEMMA Pop ==
  ASSUME NEW S, NEW s \in Seq(S), s # <<>>
  PROVE  /\ Head(s) \in S /\ Head(s) = s[1] /\ Len(s) >= 1
         /\ Tail(s) \in Seq(S) /\ Len(Tail(s)) = Len(s) - 1
         /\ \A i \in 1..(Len(s) - 1) : Tail(s)[i] = s[i + 1]
OBVIOUS

LEMMA Push ==
  ASSUME NEW S, NEW s \in Seq(S), NEW x \in S
  PROVE  /\ Append(s, x) \in Seq(S) /\ Len(Append(s, x)) = Len(s) + 1
         /\ \A i \in 1..Len(s) : Append(s, x)[i] = s[i]
         /\ Append(s, x)[Len(s) + 1] = x
OBVIOUS

LEMMA ReceiveStep == ASSUME NEW c \in Conn, ServerInv, Receive(c) PROVE ServerInv'
<1>1. Shape /\ DeliveryOK(c) /\ ConnOK(c)
  BY DEF ServerInv
<1>2. /\ toClient[c] \in Seq(Entry) /\ received[c] \in Seq(Entry) /\ toClient[c] # <<>>
      /\ received' = [received EXCEPT ![c] = Append(received[c], Head(toClient[c]))]
      /\ toClient' = [toClient EXCEPT ![c] = Tail(toClient[c])]
      /\ UNCHANGED <<client, sent, handler, message, clients, clientMutex, next, historyVars, toServer>>
  BY <1>1 DEF Receive, Shape, serverVars
<1> DEFINE x == Head(toClient[c])
           old == toClient[c]
           new == Tail(toClient[c])
           got == Append(received[c], Head(toClient[c]))
<1>3. /\ x \in Entry /\ x = old[1] /\ Len(old) \in Nat /\ Len(old) >= 1
      /\ new \in Seq(Entry) /\ Len(new) = Len(old) - 1
      /\ \A i \in 1..(Len(old) - 1) : new[i] = old[i + 1]
  BY <1>2, Pop
<1>4. got \in Seq(Entry) /\ Len(got) = Len(received[c]) + 1 /\ Len(received[c]) \in Nat
  BY <1>2, <1>3, Push
<1> HIDE DEF x, new, got
<1>5. /\ received' = [received EXCEPT ![c] = got] /\ toClient' = [toClient EXCEPT ![c] = new]
  BY <1>2 DEF got, new
<1>6. Shape'
  BY <1>1, <1>2, <1>3, <1>4, <1>5 DEF Shape, historyVars
<1>7. received'[c] = got /\ toClient'[c] = new
  BY <1>1, <1>5 DEF Shape
<1>8. DeliveryOK(c)'
  <2>1. start[c] # None /\ start[c] \in Nat
    BY <1>1, <1>3 DEF DeliveryOK, Shape
  <2>2. /\ log' = log /\ start' = start /\ client' = client /\ (Pending(c)' <=> Pending(c))
    BY <1>2, PendingFrame DEF historyVars
  <2>3. client[c] # "closed"
    BY DEF Receive
  <2>4. /\ start[c] + Len(received[c]) + Len(old) =
             IF Pending(c) THEN Len(log[RoomOf[c]]) - 1 ELSE Len(log[RoomOf[c]])
        /\ \A i \in 1..Len(old) : old[i] = log[RoomOf[c]][start[c] + Len(received[c]) + i]
    BY <1>1, <2>1, <2>3 DEF DeliveryOK
  <2>5. start[c] + Len(got) + Len(new) = start[c] + Len(received[c]) + Len(old)
    BY <1>3, <1>4, <2>1
  <2>6. PICK m \in Nat : m = start[c] + Len(received[c])
    BY <1>4, <2>1
  <2>7. start[c] + Len(got) = m + 1
    BY <1>4, <2>1, <2>6
  <2>8. ASSUME NEW i \in 1..Len(new)
        PROVE  new[i] = log[RoomOf[c]][start[c] + Len(got) + i]
    <3>1. i \in 1..(Len(old) - 1) /\ i + 1 \in 1..Len(old) /\ i \in Nat
      BY <1>3
    <3>2. new[i] = log[RoomOf[c]][m + (i + 1)]
      BY <1>3, <2>4, <2>6, <3>1
    <3>3. m + (i + 1) = (m + 1) + i
      BY <2>6, <3>1
    <3> QED
      BY <2>7, <3>2, <3>3
  <2> QED
    BY <1>7, <2>1, <2>2, <2>4, <2>5, <2>8 DEF DeliveryOK
<1>9. \A d \in Conn : ConnOK(d)'
  BY <1>2, ConnFrame DEF ServerInv, historyVars
<1>10. \A d \in Conn : d # c => received'[d] = received[d] /\ toClient'[d] = toClient[d]
  BY <1>1, <1>5 DEF Shape
<1>11. client' = client /\ handler' = handler /\ message' = message
       /\ UNCHANGED <<clients, clientMutex, next, historyVars>>
  BY <1>2
<1> QED
  BY <1>6, <1>8, <1>9, <1>10, <1>11, QuietStep

LEMMA AbandonStep == ASSUME NEW c \in Conn, ServerInv, Abandon(c) PROVE ServerInv'
<1>1. Shape /\ ConnOK(c)
  BY DEF ServerInv
<1>2. /\ client[c] = "open" /\ client' = [client EXCEPT ![c] = "abandoned"]
      /\ UNCHANGED <<sent, received, toServer, toClient, handler, message, clients, clientMutex,
                     next, historyVars>>
  BY DEF Abandon, serverVars
<1>3. Shape'
  BY <1>1, <1>2 DEF Shape, historyVars
<1>4. ConnOK(c)'
  BY <1>1, <1>2 DEF Shape, ConnOK, StreamOK, SaidOK, MessageOK, Taken, Sendable, historyVars
<1>5. ASSUME NEW d \in Conn, d # c PROVE ConnOK(d)'
  BY <1>1, <1>2, <1>5, ConnFrame DEF ServerInv, Shape, historyVars
<1>6. \A d \in Conn : client'[d] # "closed" => client[d] # "closed"
  BY <1>1, <1>2 DEF Shape
<1> QED
  BY <1>2, <1>3, <1>4, <1>5, <1>6, QuietStep

\* Quit and CollectConn.
LEMMA CloseStep ==
  ASSUME NEW c \in Conn, ServerInv, client[c] \in {"open", "abandoned"}, Close(c) PROVE ServerInv'
<1>1. Shape /\ ConnOK(c)
  BY DEF ServerInv
<1>2. /\ client' = [client EXCEPT ![c] = "closed"] /\ toClient' = [toClient EXCEPT ![c] = <<>>]
      /\ UNCHANGED <<sent, received, toServer, handler, message, clients, clientMutex, next, historyVars>>
  BY DEF Close, serverVars
<1>3. Shape'
  BY <1>1, <1>2 DEF Shape, historyVars
<1>4. client'[c] = "closed" /\ toClient'[c] = <<>>
  BY <1>1, <1>2 DEF Shape
<1>5. ConnOK(c)'
  BY <1>1, <1>2, <1>4 DEF ConnOK, StreamOK, SaidOK, MessageOK, Taken, Sendable, historyVars
<1>6. ASSUME NEW d \in Conn, d # c PROVE ConnOK(d)'
  BY <1>1, <1>2, <1>6, ConnFrame DEF ServerInv, Shape, historyVars
<1>7. DeliveryOK(c)'
  <2>1. start[c] = None => Len(received[c]) = 0
    BY DEF ServerInv, DeliveryOK
  <2> QED
    BY <1>2, <1>4, <2>1 DEF DeliveryOK, historyVars
<1>8. \A d \in Conn : d # c => client'[d] = client[d] /\ toClient'[d] = toClient[d]
  BY <1>1, <1>2 DEF Shape
<1> QED
  BY <1>2, <1>3, <1>5, <1>6, <1>7, <1>8, QuietStep

LEMMA ReadJoinStep == ASSUME NEW c \in Conn, ServerInv, ReadJoin(c) PROVE ServerInv'
<1>1. Shape /\ ConnOK(c)
  BY DEF ServerInv
<1>2. PICK k \in 1..Len(toServer[c]) :
        toServer' = [toServer EXCEPT ![c] = SubSeq(toServer[c], k + 1, Len(toServer[c]))]
  BY <1>1 DEF ReadJoin, Shape
<1>3. /\ handler[c] = "join" /\ handler' = [handler EXCEPT ![c] = "add"]
      /\ UNCHANGED <<client, sent, received, message, clients, clientMutex, next, historyVars, toClient>>
  BY DEF ReadJoin, HandlerGoes, clientVars
<1> DEFINE q == SubSeq(toServer[c], k + 1, Len(toServer[c]))
<1>4. /\ q \in Entry /\ Len(toServer[c]) \in Nat /\ k \in Nat /\ k >= 1 /\ k <= Len(toServer[c])
      /\ Len(q) = Len(toServer[c]) - k /\ \A i \in 1..Len(q) : q[i] = toServer[c][k + i]
  <2>1. toServer[c] \in Entry
    BY <1>1 DEF Shape
  <2> QED
    BY <1>2, <2>1, Split
<1> HIDE DEF q
<1>5. toServer' = [toServer EXCEPT ![c] = q]
  BY <1>2 DEF q
<1>6. Shape'
  BY <1>1, <1>3, <1>4, <1>5 DEF Shape, historyVars
<1>7. toServer'[c] = q /\ handler'[c] = "add" /\ sent' = sent /\ sent[c] \in Nat
  BY <1>1, <1>3, <1>5 DEF Shape
<1>8. Taken(c) = -1 /\ Taken(c)' = k - 1
  BY <1>1, <1>3, <1>4, <1>7 DEF Taken, ConnOK, StreamOK
<1>9. ConnOK(c)'
  <2>1. \A i \in 1..Len(q) : q[i] = <<c, (k - 1) + i>>
    <3>1. ASSUME NEW i \in 1..Len(q)
          PROVE  q[i] = <<c, (k - 1) + i>>
      <4>1. k + i \in 1..Len(toServer[c])
        BY <1>4
      <4>2. toServer[c][k + i] = <<c, -1 + (k + i)>>
        BY <1>1, <1>8, <4>1 DEF ConnOK, StreamOK
      <4>3. -1 + (k + i) = (k - 1) + i
        BY <1>4
      <4> QED
        BY <1>4, <4>2, <4>3
    <3> QED
      BY <3>1
  <2>2. StreamOK(c)'
    BY <1>1, <1>3, <1>4, <1>7, <1>8, <2>1 DEF ConnOK, StreamOK
  <2>3. SaidOK(c)' /\ MessageOK(c)'
    BY <1>1, <1>3, <1>7 DEF ConnOK, SaidOK, MessageOK, Sendable, historyVars
  <2> QED
    BY <2>2, <2>3 DEF ConnOK
<1>10. ASSUME NEW d \in Conn, d # c PROVE ConnOK(d)'
  BY <1>1, <1>3, <1>5, <1>10, ConnFrame DEF ServerInv, Shape, historyVars
<1>11. \A d \in Conn : handler'[d] = "broadcast" <=> handler[d] = "broadcast"
  BY <1>1, <1>3 DEF Shape
<1> QED
  BY <1>3, <1>6, <1>9, <1>10, <1>11, QuietStep

LEMMA ReadMessageStep == ASSUME NEW c \in Conn, ServerInv, ReadMessage(c) PROVE ServerInv'
<1>1. Shape /\ ConnOK(c)
  BY DEF ServerInv
<1>2. PICK k \in 1..Len(toServer[c]) :
        /\ message' = [message EXCEPT ![c] = SubSeq(toServer[c], 1, k)]
        /\ toServer' = [toServer EXCEPT ![c] = SubSeq(toServer[c], k + 1, Len(toServer[c]))]
  BY <1>1 DEF ReadMessage, Shape
<1>3. /\ handler[c] = "read" /\ handler' = [handler EXCEPT ![c] = "lock"]
      /\ UNCHANGED <<client, sent, received, clients, clientMutex, next, historyVars, toClient>>
  BY DEF ReadMessage, HandlerGoes, clientVars
<1> DEFINE p == SubSeq(toServer[c], 1, k)
           q == SubSeq(toServer[c], k + 1, Len(toServer[c]))
<1>4. /\ Len(toServer[c]) \in Nat /\ k \in Nat /\ k >= 1 /\ k <= Len(toServer[c])
      /\ q \in Entry /\ Len(q) = Len(toServer[c]) - k
      /\ \A i \in 1..(Len(toServer[c]) - k) : q[i] = toServer[c][k + i]
      /\ p \in Entry /\ Len(p) = k /\ \A i \in 1..k : p[i] = toServer[c][i]
  <2>1. toServer[c] \in Entry
    BY <1>1 DEF Shape
  <2> QED
    BY <1>2, <2>1, Split
<1> HIDE DEF p, q
<1>5. toServer' = [toServer EXCEPT ![c] = q] /\ message' = [message EXCEPT ![c] = p]
  BY <1>2 DEF p, q
<1>6. Shape'
  BY <1>1, <1>3, <1>4, <1>5 DEF Shape, historyVars
<1>7. /\ toServer'[c] = q /\ message'[c] = p /\ handler'[c] = "lock" /\ sent' = sent
      /\ sent[c] \in Nat /\ Messages[c] \in Nat
  BY <1>1, <1>3, <1>5 DEF Shape
<1>8. PICK t \in Nat : t = Taken(c)
  BY <1>1, <1>3, <1>4, <1>7 DEF ConnOK, StreamOK, Taken
<1>9. /\ Taken(c)' = t + k /\ t + Len(toServer[c]) = sent[c]
  <2>1. t = sent[c] - Len(toServer[c])
    BY <1>8 DEF Taken
  <2>2. /\ Len(toServer[c]) \in Nat /\ k \in Nat /\ sent[c] \in Nat
        /\ sent'[c] = sent[c] /\ Len(toServer'[c]) = Len(toServer[c]) - k
    BY <1>4, <1>7
  <2> QED
    BY <2>1, <2>2 DEF Taken
<1>10. \A i \in 1..Len(toServer[c]) : toServer[c][i] = <<c, t + i>>
  BY <1>1, <1>8 DEF ConnOK, StreamOK
<1>11. ConnOK(c)'
  <2>1. \A i \in 1..Len(q) : q[i] = <<c, (t + k) + i>>
    <3>1. ASSUME NEW i \in 1..Len(q)
          PROVE  q[i] = <<c, (t + k) + i>>
      <4>1. k + i \in 1..Len(toServer[c]) /\ i \in 1..(Len(toServer[c]) - k) /\ t + (k + i) = (t + k) + i
        BY <1>4
      <4> QED
        BY <1>4, <1>10, <4>1
    <3> QED
      BY <3>1
  <2>2. StreamOK(c)'
    <3>1. /\ client'[c] = client[c] /\ t + k >= 0 /\ sent[c] <= Messages[c]
          /\ client[c] # "new"
      BY <1>1, <1>3, <1>4 DEF ConnOK, StreamOK
    <3> QED
      BY <1>7, <1>9, <2>1, <3>1 DEF StreamOK
  <2>3. \A i \in 1..k : p[i] = <<c, t + i>> /\ t + i \in 1..Messages[c]
    <3>1. ASSUME NEW i \in 1..k
          PROVE  p[i] = <<c, t + i>> /\ t + i \in 1..Messages[c]
      <4>1. i \in 1..Len(toServer[c]) /\ sent[c] <= Messages[c]
        BY <1>1, <1>4 DEF ConnOK, StreamOK
      <4>2. t + i \in 1..Messages[c]
        BY <1>4, <1>7, <1>8, <1>9, <4>1
      <4> QED
        BY <1>4, <1>10, <4>1, <4>2
    <3> QED
      BY <3>1
  <2>4. MessageOK(c)'
    <3>1. \A i \in 1..k : p[i] \in Sendable(c)
      BY <2>3 DEF Sendable, Message
    <3> QED
      BY <1>4, <1>7, <3>1 DEF MessageOK, Sendable
  <2>5. SaidOK(c)'
    <3>1. /\ start'[c] = start[c] /\ said'[c] = said[c] /\ start[c] # None
          /\ said[c] = 0 \/ said[c] = t
      BY <1>1, <1>3, <1>8 DEF ConnOK, SaidOK, historyVars
    <3>2. (t + k) - Len(p) = t /\ Len(p) <= t + k /\ Len(p) >= 1
      BY <1>4
    <3> QED
      BY <1>4, <1>7, <1>9, <2>3, <3>1, <3>2 DEF SaidOK
  <2> QED
    BY <2>2, <2>4, <2>5 DEF ConnOK
<1>12. ASSUME NEW d \in Conn, d # c PROVE ConnOK(d)'
  BY <1>1, <1>3, <1>5, <1>12, ConnFrame DEF ServerInv, Shape, historyVars
<1>13. \A d \in Conn : /\ handler'[d] = "broadcast" <=> handler[d] = "broadcast"
                       /\ handler'[d] = "broadcast" => message'[d] = message[d]
  BY <1>1, <1>3, <1>5 DEF Shape
<1> QED
  BY <1>3, <1>6, <1>11, <1>12, <1>13, QuietStep

LEMMA ReadFailsStep == ASSUME NEW c \in Conn, ServerInv, ReadFails(c) PROVE ServerInv'
<1>1. Shape /\ ConnOK(c)
  BY DEF ServerInv
<1>2. /\ handler[c] = "read" /\ handler' = [handler EXCEPT ![c] = "ended"]
      /\ UNCHANGED <<client, sent, received, message, clients, clientMutex, next, historyVars,
                     toServer, toClient>>
  BY DEF ReadFails, HandlerGoes, clientVars
<1>3. Shape'
  BY <1>1, <1>2 DEF Shape, historyVars
<1>4. handler'[c] = "ended"
  BY <1>1, <1>2 DEF Shape
<1>5. ConnOK(c)'
  BY <1>1, <1>2, <1>4 DEF ConnOK, StreamOK, SaidOK, MessageOK, Taken, Sendable, historyVars
<1>6. ASSUME NEW d \in Conn, d # c PROVE ConnOK(d)'
  BY <1>1, <1>2, <1>6, ConnFrame DEF ServerInv, Shape, historyVars
<1>7. \A d \in Conn : handler'[d] = "broadcast" <=> handler[d] = "broadcast"
  BY <1>1, <1>2 DEF Shape
<1> QED
  BY <1>2, <1>3, <1>5, <1>6, <1>7, QuietStep

LEMMA AddClientStep == ASSUME NEW c \in Conn, ServerInv, AddClient(c) PROVE ServerInv'
<1> DEFINE r == RoomOf[c]
           old == clients[r]
           new == Append(old, c)
<1>1. Shape /\ ConnOK(c) /\ r \in Room /\ \A x \in Room : RoomOK(x)
  BY DEF ServerInv
<1>2. /\ handler[c] = "add" /\ handler' = [handler EXCEPT ![c] = "read"]
      /\ clientMutex = None /\ clients' = [clients EXCEPT ![r] = new]
      /\ start' = [start EXCEPT ![c] = Len(log[r])]
      /\ UNCHANGED <<client, sent, received, message, clientMutex, next, log, said, toServer, toClient>>
  BY <1>1 DEF AddClient, HandlerGoes, clientVars, Shape
<1>3. /\ old \in Seq(Conn) /\ new \in Seq(Conn) /\ Len(old) \in Nat /\ Len(new) = Len(old) + 1
      /\ \A i \in 1..Len(old) : new[i] = old[i]
      /\ new[Len(old) + 1] = c
  <2>1. old \in Seq(Conn)
    BY <1>1 DEF Shape
  <2> QED
    BY <2>1, Push
<1>4. Len(log[r]) \in Nat
  BY <1>1 DEF Shape
<1> HIDE DEF new
<1>5. Shape'
  BY <1>1, <1>2, <1>3, <1>4 DEF Shape
<1>6. handler'[c] = "read" /\ start'[c] = Len(log[r]) /\ start'[c] # None /\ clients'[r] = new
      /\ start[c] = None
  BY <1>1, <1>2, <1>4 DEF Shape, ConnOK, SaidOK
<1>7. \A d \in Conn : d # c => start'[d] = start[d] /\ handler'[d] = handler[d]
  BY <1>1, <1>2 DEF Shape
<1>8. \A x \in Room : x # r => clients'[x] = clients[x]
  BY <1>1, <1>2 DEF Shape
<1>9. \A i \in 1..Len(old) : old[i] # c /\ RoomOf[old[i]] = r /\ start[old[i]] # None /\ old[i] \in Conn
  BY <1>1, <1>3, <1>6 DEF RoomOK
<1>10. ASSUME NEW x \in Room PROVE RoomOK(x)'
  <2>1. CASE x = r
    <3>1. \A i \in 1..Len(new) : RoomOf[new[i]] = r /\ start'[new[i]] # None
      <4>1. ASSUME NEW i \in 1..Len(new)
            PROVE  RoomOf[new[i]] = r /\ start'[new[i]] # None
        <5>1. CASE i \in 1..Len(old)
          BY <1>3, <1>7, <1>9, <5>1
        <5>2. CASE i = Len(old) + 1
          BY <1>3, <1>6, <5>2
        <5> QED
          BY <1>3, <5>1, <5>2
      <4> QED
        BY <4>1
    <3>2. \A i, j \in 1..Len(new) : new[i] = new[j] => i = j
      <4>1. \A i, j \in 1..Len(old) : old[i] = old[j] => i = j
        BY <1>1 DEF RoomOK
      <4>2. \A i \in 1..Len(new) : i \in 1..Len(old) \/ i = Len(old) + 1
        BY <1>3
      <4> QED
        BY <1>3, <1>9, <4>1, <4>2
    <3> QED
      BY <1>6, <2>1, <3>1, <3>2 DEF RoomOK
  <2>2. CASE x # r
    <3>1. \A i \in 1..Len(clients[x]) : clients[x][i] \in Conn /\ clients[x][i] # c
      <4>1. clients[x] \in Seq(Conn)
        BY <1>1 DEF Shape
      <4>2. \A i \in 1..Len(clients[x]) : clients[x][i] \in Conn /\ RoomOf[clients[x][i]] = x
        BY <1>1, <4>1 DEF RoomOK
      <4> QED
        BY <2>2, <4>2
    <3>2. RoomOK(x)
      BY <1>1
    <3>3. clients'[x] = clients[x]
      BY <1>8, <2>2
    <3>4. \A i \in 1..Len(clients[x]) : start'[clients[x][i]] = start[clients[x][i]]
      BY <1>7, <3>1
    <3> QED
      BY <3>2, <3>3, <3>4 DEF RoomOK
  <2> QED
    BY <2>1, <2>2
<1>11. ASSUME NEW d \in Conn
       PROVE  ConnOK(d)' /\ ListedOK(d)' /\ MutexOK(d)' /\ DeliveryOK(d)'
  <2>1. ConnOK(d) /\ ListedOK(d) /\ MutexOK(d) /\ DeliveryOK(d) /\ RoomOf[d] \in Room
    BY DEF ServerInv
  <2>2. ConnOK(d)'
    <3>1. CASE d = c
      <4>1. /\ client'[c] = client[c] /\ sent'[c] = sent[c] /\ toServer'[c] = toServer[c]
            /\ message'[c] = message[c] /\ said'[c] = said[c] /\ handler'[c] = "read"
        BY <1>2, <1>6
      <4>2. StreamOK(c)'
        BY <1>1, <1>2, <4>1 DEF ConnOK, StreamOK, Taken
      <4>3. SaidOK(c)'
        BY <1>1, <1>6, <4>1 DEF ConnOK, SaidOK
      <4>4. MessageOK(c)'
        BY <1>1, <4>1 DEF ConnOK, MessageOK, Sendable
      <4> QED
        BY <3>1, <4>2, <4>3, <4>4 DEF ConnOK
    <3>2. CASE d # c
      BY <1>2, <1>7, <2>1, <3>2, ConnFrame
    <3> QED
      BY <3>1, <3>2
  <2>3. ListedOK(d)'
    <3>1. CASE d = c
      <4>1. Len(old) + 1 \in 1..Len(new)
        BY <1>3
      <4> QED
        BY <1>3, <1>6, <3>1, <4>1 DEF ListedOK
    <3>2. CASE d # c /\ RoomOf[d] = r
      <4>1. start'[d] # None => \E i \in 1..Len(old) : old[i] = d
        BY <1>7, <2>1, <3>2 DEF ListedOK
      <4>2. \A i \in 1..Len(old) : i \in 1..Len(new) /\ new[i] = old[i]
        BY <1>3
      <4> QED
        BY <1>6, <3>2, <4>1, <4>2 DEF ListedOK
    <3>3. CASE d # c /\ RoomOf[d] # r
      BY <1>7, <1>8, <2>1, <3>3 DEF ListedOK
    <3> QED
      BY <3>1, <3>2, <3>3
  <2>4. MutexOK(d)'
    <3>1. handler'[d] # "broadcast" /\ clientMutex' # d
      BY <1>2, <1>6, <1>7, <2>1 DEF MutexOK
    <3>2. next'[d] \in 1..(Len(clients'[RoomOf[d]]) + 1)
      <4>1. next[d] \in 1..(Len(clients[RoomOf[d]]) + 1)
        BY <2>1 DEF MutexOK, Members
      <4> QED
        BY <1>2, <1>3, <1>6, <1>8, <2>1, <4>1
    <3> QED
      BY <3>1, <3>2 DEF MutexOK, Members
  <2>5. DeliveryOK(d)'
    <3>1. ~Pending(d) /\ ~Pending(d)'
      BY <1>2 DEF Pending
    <3>2. CASE d = c
      <4>1. Len(toClient[c]) = 0 /\ Len(received[c]) = 0
        BY <1>6, <2>1, <3>2 DEF DeliveryOK
      <4> QED
        BY <1>2, <1>4, <1>6, <3>1, <3>2, <4>1 DEF DeliveryOK
    <3>3. CASE d # c
      BY <1>2, <1>7, <2>1, <3>1, <3>3, DeliveryFrame
    <3> QED
      BY <3>2, <3>3
  <2> QED
    BY <2>2, <2>3, <2>4, <2>5
<1> QED
  BY <1>5, <1>10, <1>11 DEF ServerInv

\* The handler that gets the mutex enters what it has read in the log: one
\* run of its connection's messages.
LEMMA LockFacts ==
  ASSUME NEW c \in Conn, ServerInv, LockClients(c)
  PROVE  /\ handler[c] = "lock" /\ clientMutex = None
         /\ handler' = [handler EXCEPT ![c] = "broadcast"]
         /\ clientMutex' = c /\ next' = [next EXCEPT ![c] = 1]
         /\ log' = [log EXCEPT ![RoomOf[c]] = Append(log[RoomOf[c]], message[c])]
         /\ said' = [said EXCEPT ![c] = Taken(c)]
         /\ UNCHANGED <<client, sent, received, message, clients, start, toServer, toClient>>
<1>1. Shape /\ ConnOK(c)
  BY DEF ServerInv
<1>2. /\ handler[c] = "lock" /\ clientMutex = None
      /\ handler' = [handler EXCEPT ![c] = "broadcast"]
      /\ clientMutex' = c /\ next' = [next EXCEPT ![c] = 1]
      /\ said' = [said EXCEPT ![c] = message[c][Len(message[c])][2]]
      /\ UNCHANGED <<client, sent, received, message, clients, start, toServer, toClient>>
  BY DEF LockClients, HandlerGoes, clientVars, Last
<1>3. log' = [log EXCEPT ![RoomOf[c]] = Append(log[RoomOf[c]], message[c])]
  BY <1>1 DEF LockClients, Shape
<1>4. /\ Len(message[c]) \in Nat /\ sent[c] \in Nat /\ Len(toServer[c]) \in Nat
  BY <1>1, Types
<1>5. Len(message[c]) >= 1
      /\ \A i \in 1..Len(message[c]) : message[c][i] = <<c, Taken(c) - Len(message[c]) + i>>
  BY <1>1, <1>2 DEF ConnOK, SaidOK
<1>6. message[c][Len(message[c])] = <<c, Taken(c) - Len(message[c]) + Len(message[c])>>
  BY <1>4, <1>5
<1>7. Taken(c) - Len(message[c]) + Len(message[c]) = Taken(c)
  BY <1>4 DEF Taken
<1>8. message[c][Len(message[c])][2] = Taken(c)
  BY <1>6, <1>7
<1> QED
  BY <1>2, <1>3, <1>8

LEMMA LockClientsStep == ASSUME NEW c \in Conn, ServerInv, LockClients(c) PROVE ServerInv'
<1> DEFINE r == RoomOf[c]
           old == log[r]
           new == Append(old, message[c])
<1>1. Shape /\ ConnOK(c) /\ r \in Room
  BY DEF ServerInv
<1>2. /\ handler[c] = "lock" /\ clientMutex = None
      /\ handler' = [handler EXCEPT ![c] = "broadcast"]
      /\ clientMutex' = c /\ next' = [next EXCEPT ![c] = 1]
      /\ log' = [log EXCEPT ![r] = new]
      /\ said' = [said EXCEPT ![c] = Taken(c)]
      /\ UNCHANGED <<client, sent, received, message, clients, start, toServer, toClient>>
  BY LockFacts
<1>3. /\ new \in Seq(Entry) /\ Len(old) \in Nat /\ Len(new) = Len(old) + 1
      /\ \A i \in 1..Len(old) : new[i] = old[i]
      /\ new[Len(old) + 1] = message[c]
  <2>1. old \in Seq(Entry) /\ message[c] \in Entry
    BY <1>1 DEF Shape
  <2> QED
    BY <2>1, Push
<1> HIDE DEF new
<1>4. Taken(c) \in Nat
  <2>1. Len(toServer[c]) \in Nat /\ sent[c] \in Nat
    BY <1>1 DEF Shape, Entry
  <2>2. Taken(c) >= 0
    BY <1>1, <1>2 DEF ConnOK, StreamOK
  <2> QED
    BY <2>1, <2>2 DEF Taken
<1>5. Shape'
  BY <1>1, <1>2, <1>3, <1>4 DEF Shape
<1>6. /\ handler'[c] = "broadcast" /\ next'[c] = 1 /\ said'[c] = Taken(c) /\ log'[r] = new
      /\ \A d \in Conn : d # c => /\ handler'[d] = handler[d] /\ next'[d] = next[d]
                                  /\ said'[d] = said[d]
      /\ \A x \in Room : x # r => log'[x] = log[x]
  BY <1>1, <1>2 DEF Shape
<1>7. ASSUME NEW d \in Conn
      PROVE  ConnOK(d)' /\ ListedOK(d)' /\ MutexOK(d)' /\ DeliveryOK(d)'
  <2>1. ConnOK(d) /\ ListedOK(d) /\ MutexOK(d) /\ DeliveryOK(d) /\ RoomOf[d] \in Room
    BY DEF ServerInv
  <2>2. ConnOK(d)'
    <3>1. CASE d = c
      <4>1. /\ client'[c] = client[c] /\ sent'[c] = sent[c] /\ toServer'[c] = toServer[c]
            /\ message'[c] = message[c] /\ start'[c] = start[c]
        BY <1>2
      <4>2. StreamOK(c)' /\ Taken(c)' = Taken(c)
        BY <1>1, <1>2, <1>6, <4>1 DEF ConnOK, StreamOK, Taken
      <4>3. SaidOK(c)'
        BY <1>1, <1>2, <1>6, <4>1, <4>2 DEF ConnOK, SaidOK
      <4>4. MessageOK(c)'
        BY <1>1, <4>1 DEF ConnOK, MessageOK, Sendable
      <4> QED
        BY <3>1, <4>2, <4>3, <4>4 DEF ConnOK
    <3>2. CASE d # c
      BY <1>2, <1>6, <2>1, <3>2, ConnFrame
    <3> QED
      BY <3>1, <3>2
  <2>3. ListedOK(d)'
    BY <1>2, <2>1, RoomFrame
  <2>4. MutexOK(d)'
    <3>1. CASE d = c
      <4>1. clients'[r] = clients[r] /\ Len(clients[r]) \in Nat
        BY <1>1, <1>2 DEF Shape
      <4>2. /\ clientMutex' = c /\ next'[c] \in 1..(Len(clients'[r]) + 1)
        BY <1>2, <1>6, <4>1
      <4>3. Len(log'[r]) >= 1 /\ log'[r][Len(log'[r])] = message'[c]
        BY <1>2, <1>3, <1>6
      <4> QED
        BY <1>6, <3>1, <4>2, <4>3 DEF MutexOK, Members
    <3>2. CASE d # c
      <4>1. handler'[d] # "broadcast" /\ clientMutex' # d /\ next'[d] = next[d]
        BY <1>2, <1>6, <2>1, <3>2 DEF MutexOK
      <4> QED
        BY <1>2, <2>1, <4>1 DEF MutexOK, Members
    <3> QED
      BY <3>1, <3>2
  <2>5. DeliveryOK(d)'
    <3>1. ~Pending(d)
      BY <1>2 DEF Pending
    <3>2. CASE start[d] = None
      BY <1>2, <2>1, <3>2 DEF DeliveryOK
    <3>3. CASE start[d] # None /\ RoomOf[d] = r
      <4>1. Pending(d)'
        <5>1. PICK i \in 1..Len(clients[r]) : clients[r][i] = d
          BY <2>1, <3>3 DEF ListedOK
        <5>2. next'[c] <= i
          BY <1>6, <5>1
        <5> QED
          BY <1>2, <3>3, <5>1, <5>2 DEF Pending
      <4>2. CASE client[d] # "closed"
        <5>1. PICK m \in Nat : m = start[d] + Len(received[d])
          BY <1>1, <3>3, Types
        <5>2. /\ m + Len(toClient[d]) = Len(old)
              /\ \A i \in 1..Len(toClient[d]) : toClient[d][i] = old[m + i]
          BY <2>1, <3>1, <3>3, <4>2, <5>1 DEF DeliveryOK
        <5>3. Len(toClient[d]) \in Nat
          BY <1>1, Types
        <5>4. m + Len(toClient[d]) = Len(new) - 1
          BY <1>3, <5>2, <5>3
        <5>5. \A i \in 1..Len(toClient[d]) : m + i \in 1..Len(old)
          BY <1>3, <5>2, <5>3
        <5>6. \A i \in 1..Len(toClient[d]) : toClient[d][i] = new[m + i]
          BY <1>3, <5>2, <5>5
        <5>7. /\ start'[d] + Len(received'[d]) = m /\ log'[RoomOf[d]] = new
              /\ toClient'[d] = toClient[d] /\ start'[d] # None
          BY <1>2, <1>6, <3>3, <5>1
        <5> QED
          BY <4>1, <5>4, <5>6, <5>7 DEF DeliveryOK
      <4>3. CASE client[d] = "closed"
        BY <1>2, <3>3, <4>3 DEF DeliveryOK
      <4> QED
        BY <4>2, <4>3
    <3>4. CASE RoomOf[d] # r
      <4>1. ~Pending(d)'
        BY <1>2, <3>4 DEF Pending
      <4> QED
        BY <1>2, <1>6, <2>1, <3>1, <3>4, <4>1, DeliveryFrame
    <3> QED
      BY <3>2, <3>3, <3>4
  <2> QED
    BY <2>2, <2>3, <2>4, <2>5
<1>8. \A x \in Room : RoomOK(x)'
  BY <1>2, RoomFrame DEF ServerInv
<1> QED
  BY <1>5, <1>7, <1>8 DEF ServerInv

LEMMA WriteClientStep == ASSUME NEW c \in Conn, ServerInv, WriteClient(c) PROVE ServerInv'
<1> DEFINE r == RoomOf[c]
<1>1. Shape /\ r \in Room /\ MutexOK(c) /\ RoomOK(r) /\ clients[r] \in Seq(Conn)
      /\ Len(clients[r]) \in Nat
  BY Types DEF ServerInv, Shape
<1>2. PICK n \in Nat : n = next[c]
  BY <1>1, Types
<1>3. /\ handler[c] = "broadcast" /\ clientMutex = c /\ n \in 1..Len(clients[r])
  <2>1. /\ handler[c] = "broadcast" /\ next[c] <= Len(clients[r])
    BY DEF WriteClient, Members
  <2>2. clientMutex = c /\ next[c] \in 1..(Len(clients[r]) + 1)
    BY <1>1, <2>1 DEF MutexOK, Members
  <2> QED
    BY <1>2, <1>1, <2>1, <2>2
<1>4. PICK d \in Conn : d = clients[r][n]
  BY <1>1, <1>3
<1>5. /\ \/ client[d] = "closed" /\ toClient' = toClient
         \/ client[d] # "closed" /\ toClient' = [toClient EXCEPT ![d] = Append(toClient[d], message[c])]
      /\ next' = [next EXCEPT ![c] = n + 1]
      /\ UNCHANGED <<client, sent, received, handler, message, clients, clientMutex, historyVars, toServer>>
  <2>1. /\ IF client[d] = "closed" THEN toClient' = toClient
           ELSE toClient' = [toClient EXCEPT ![d] = Append(@, message[c])]
        /\ next' = [next EXCEPT ![c] = @ + 1]
        /\ UNCHANGED <<client, sent, received, handler, message, clients, clientMutex, historyVars, toServer>>
    BY <1>2, <1>4 DEF WriteClient, Members, clientVars
  <2>2. next \in [Conn -> Nat] /\ toClient \in [Conn -> Seq(Entry)]
    BY <1>1 DEF Shape
  <2> QED
    BY <1>2, <2>1, <2>2
<1>6. RoomOf[d] = r /\ start[d] # None /\ n >= 1
  BY <1>1, <1>3, <1>4 DEF RoomOK
<1>7. log' = log /\ start' = start /\ said' = said
  BY <1>5 DEF historyVars
<1>8. /\ message[c] \in Entry /\ toClient[d] \in Seq(Entry)
  BY <1>1 DEF Shape
<1>9. Shape'
  <2>1. toClient' \in [Conn -> Seq(Entry)]
    <3>1. Append(toClient[d], message[c]) \in Seq(Entry)
      BY <1>8, Push
    <3> QED
      BY <1>1, <1>5, <3>1 DEF Shape
  <2>2. next' \in [Conn -> Nat]
    BY <1>1, <1>5 DEF Shape
  <2> QED
    BY <1>1, <1>5, <1>7, <2>1, <2>2 DEF Shape
<1>10. next'[c] = n + 1 /\ \A e \in Conn : e # c => next'[e] = next[e]
  BY <1>1, <1>5 DEF Shape
<1>11. ASSUME NEW e \in Conn
      PROVE  ConnOK(e)' /\ ListedOK(e)' /\ MutexOK(e)' /\ DeliveryOK(e)'
  <2>1. ConnOK(e) /\ ListedOK(e) /\ MutexOK(e) /\ DeliveryOK(e) /\ RoomOf[e] \in Room
    BY DEF ServerInv
  <2>2. ConnOK(e)'
    BY <1>7, <1>5, <2>1, ConnFrame
  <2>3. ListedOK(e)'
    BY <1>7, <1>5, <2>1, RoomFrame
  <2>4. MutexOK(e)'
    <3>1. next'[e] \in 1..(Len(clients[RoomOf[e]]) + 1)
      <4>1. CASE e = c
        BY <1>1, <1>3, <1>10, <4>1
      <4>2. CASE e # c
        BY <1>10, <2>1, <4>2 DEF MutexOK, Members
      <4> QED
        BY <4>1, <4>2
    <3> QED
      BY <1>7, <1>5, <2>1, <3>1 DEF MutexOK, Members
  <2>5. DeliveryOK(e)'
    <3>1. CASE e # d
      <4>1. Pending(e)' <=> Pending(e)
        <5>1. CASE RoomOf[e] # r
          BY <1>3, <1>5, <5>1 DEF Pending
        <5>2. CASE RoomOf[e] = r
          <6>1. \A i \in 1..Len(clients[r]) : clients[r][i] = e => (n <= i <=> n + 1 <= i)
            BY <1>4, <3>1
          <6> QED
            BY <1>2, <1>3, <1>5, <1>10, <5>2, <6>1 DEF Pending
        <5> QED
          BY <5>1, <5>2
      <4>2. toClient'[e] = toClient[e]
        BY <1>1, <1>5, <3>1 DEF Shape
      <4> QED
        BY <1>7, <1>5, <2>1, <4>1, <4>2, DeliveryFrame
    <3>2. CASE e = d /\ client[d] = "closed"
      BY <1>6, <1>7, <1>5, <3>2 DEF DeliveryOK
    <3>3. CASE e = d /\ client[d] # "closed"
      <4>1. Pending(d)
        <5>1. n <= n
          BY <1>2
        <5> QED
          BY <1>2, <1>3, <1>6, <1>4, <5>1 DEF Pending
      <4>2. ~Pending(d)'
        <5>1. \A i \in 1..Len(clients[r]) : clients[r][i] = d => i = n
          BY <1>1, <1>3, <1>4 DEF RoomOK
        <5>2. \A i \in 1..Len(clients[r]) : clients[r][i] = d => ~(n + 1 <= i)
          BY <1>2, <5>1
        <5> QED
          BY <1>3, <1>6, <1>5, <1>10, <5>2 DEF Pending
      <4>3. PICK m \in Nat : m = start[d] + Len(received[d])
        <5>1. start[d] \in Nat /\ Len(received[d]) \in Nat
          BY <1>1, <1>6, Types
        <5> QED
          BY <5>1
      <4>4. /\ m + Len(toClient[d]) = Len(log[r]) - 1
            /\ \A i \in 1..Len(toClient[d]) : toClient[d][i] = log[r][m + i]
        BY <1>6, <2>1, <3>3, <4>1, <4>3 DEF DeliveryOK
      <4>5. PICK out \in Seq(Entry) : out = Append(toClient[d], message[c])
        BY <1>8, Push
      <4>6. /\ Len(out) = Len(toClient[d]) + 1 /\ Len(toClient[d]) \in Nat
            /\ \A i \in 1..Len(toClient[d]) : out[i] = toClient[d][i]
            /\ out[Len(toClient[d]) + 1] = message[c]
        BY <1>8, <4>5, Push
      <4>7. toClient'[d] = out
        BY <1>1, <1>5, <3>3, <4>5 DEF Shape
      <4>8. Len(log[r]) \in Nat /\ log[r][Len(log[r])] = message[c]
        BY <1>1, <1>3, Types DEF MutexOK
      <4>9. m + Len(out) = Len(log[r])
        <5>1. m + Len(toClient[d]) = Len(log[r]) - 1 /\ Len(out) = Len(toClient[d]) + 1
              /\ Len(toClient[d]) \in Nat /\ Len(log[r]) \in Nat
          BY <4>4, <4>6, <4>8
        <5>2. m \in Nat
          BY <4>3
        <5> QED
          BY <5>1, <5>2
      <4>10. ASSUME NEW i \in 1..Len(out)
            PROVE  out[i] = log[r][m + i]
        <5>1. CASE i \in 1..Len(toClient[d])
          BY <4>4, <4>6, <5>1
        <5>2. CASE i = Len(toClient[d]) + 1
          <6>1. m + i = Len(log[r])
            BY <4>6, <4>9, <5>2
          <6> QED
            BY <4>6, <4>8, <5>2, <6>1
        <5> QED
          BY <4>6, <5>1, <5>2
      <4>11. /\ start'[d] + Len(received'[d]) = m /\ log'[RoomOf[d]] = log[r] /\ start'[d] # None
        BY <1>6, <1>7, <1>5, <4>3
      <4> QED
        BY <3>3, <4>2, <4>7, <4>9, <4>10, <4>11 DEF DeliveryOK
    <3> QED
      BY <3>1, <3>2, <3>3
  <2> QED
    BY <2>2, <2>3, <2>4, <2>5
<1>12. \A x \in Room : RoomOK(x)'
  BY <1>7, <1>5, RoomFrame DEF ServerInv
<1> QED
  BY <1>9, <1>11, <1>12 DEF ServerInv

LEMMA UnlockClientsStep == ASSUME NEW c \in Conn, ServerInv, UnlockClients(c) PROVE ServerInv'
<1>1. Shape /\ MutexOK(c) /\ ConnOK(c) /\ Len(clients[RoomOf[c]]) \in Nat /\ next[c] \in Nat
  BY Types DEF ServerInv
<1>2. /\ handler[c] = "broadcast" /\ handler' = [handler EXCEPT ![c] = "read"]
      /\ next[c] > Len(clients[RoomOf[c]])
      /\ message' = [message EXCEPT ![c] = <<>>]
      /\ clientMutex' = None /\ next' = [next EXCEPT ![c] = 1]
      /\ UNCHANGED <<client, sent, received, clients, historyVars, toServer, toClient>>
  BY DEF UnlockClients, HandlerGoes, Members, clientVars
<1>3. clientMutex = c
  BY <1>1, <1>2 DEF MutexOK
<1>4. log' = log /\ start' = start /\ said' = said
  BY <1>2 DEF historyVars
<1>5. Shape'
  BY <1>1, <1>2, <1>4 DEF Shape, Entry
<1>6. /\ handler'[c] = "read" /\ message'[c] = <<>> /\ next'[c] = 1
      /\ \A d \in Conn : d # c => /\ handler'[d] = handler[d] /\ message'[d] = message[d]
                                  /\ next'[d] = next[d]
  BY <1>1, <1>2 DEF Shape
<1>7. ASSUME NEW d \in Conn
      PROVE  ConnOK(d)' /\ ListedOK(d)' /\ MutexOK(d)' /\ DeliveryOK(d)'
  <2>1. ConnOK(d) /\ ListedOK(d) /\ MutexOK(d) /\ DeliveryOK(d) /\ Len(clients[RoomOf[d]]) \in Nat
    BY <1>1, Types DEF ServerInv
  <2>2. ConnOK(d)'
    <3>1. CASE d = c
      <4>1. /\ client'[c] = client[c] /\ sent'[c] = sent[c] /\ toServer'[c] = toServer[c]
            /\ start'[c] = start[c] /\ said'[c] = said[c]
        BY <1>2, <1>4
      <4>2. StreamOK(c)' /\ Taken(c)' = Taken(c)
        BY <1>1, <1>2, <1>6, <4>1 DEF ConnOK, StreamOK, Taken
      <4>3. SaidOK(c)'
        BY <1>1, <1>2, <1>6, <4>1, <4>2 DEF ConnOK, SaidOK
      <4>4. MessageOK(c)'
        BY <1>6 DEF MessageOK
      <4> QED
        BY <3>1, <4>2, <4>3, <4>4 DEF ConnOK
    <3>2. CASE d # c
      BY <1>2, <1>4, <1>6, <2>1, <3>2, ConnFrame
    <3> QED
      BY <3>1, <3>2
  <2>3. ListedOK(d)'
    BY <1>2, <1>4, <2>1, RoomFrame
  <2>4. MutexOK(d)'
    <3>1. handler'[d] # "broadcast" /\ clientMutex' # d
      BY <1>2, <1>3, <1>6, <2>1 DEF MutexOK
    <3>2. next'[d] \in 1..(Len(clients[RoomOf[d]]) + 1)
      BY <1>6, <2>1 DEF MutexOK, Members
    <3> QED
      BY <1>2, <3>1, <3>2 DEF MutexOK, Members
  <2>5. DeliveryOK(d)'
    <3>1. ~Pending(d)'
      BY <1>2 DEF Pending
    <3>2. ~Pending(d)
      BY <1>1, <1>2, <1>3 DEF Pending
    <3> QED
      BY <1>2, <1>4, <2>1, <3>1, <3>2, DeliveryFrame
  <2> QED
    BY <2>2, <2>3, <2>4, <2>5
<1>8. \A x \in Room : RoomOK(x)'
  BY <1>2, <1>4, RoomFrame DEF ServerInv
<1> QED
  BY <1>5, <1>7, <1>8 DEF ServerInv

LEMMA StutterStep == ASSUME ServerInv, UNCHANGED vars PROVE ServerInv'
<1>1. UNCHANGED <<client, sent, received, handler, message, clients, clientMutex, next,
                  historyVars, toServer, toClient>>
  BY DEF vars, clientVars, serverVars
<1>2. Shape'
  BY <1>1 DEF ServerInv, Shape, historyVars
<1>3. \A c \in Conn : ConnOK(c)'
  BY <1>1, ConnFrame DEF ServerInv, historyVars
<1> QED
  BY <1>1, <1>2, <1>3, QuietStep

LEMMA NextInv == ServerInv /\ [Next]_vars => ServerInv'
<1> SUFFICES ASSUME ServerInv, [Next]_vars PROVE ServerInv'
  OBVIOUS
<1>1. ASSUME NEW c \in Conn,
             StartChat(c) \/ SendMessage(c) \/ Receive(c) \/ Abandon(c) \/ Quit(c) \/ CollectConn(c)
      PROVE  ServerInv'
  <2>1. CASE Quit(c) \/ CollectConn(c)
    BY <2>1, CloseStep DEF Quit, CollectConn
  <2> QED
    BY <1>1, <2>1, StartChatStep, SendMessageStep, ReceiveStep, AbandonStep
<1>2. ASSUME NEW c \in Conn, HandlerStep(c) PROVE ServerInv'
  BY <1>2, ReadJoinStep, AddClientStep, ReadMessageStep, ReadFailsStep, LockClientsStep,
     WriteClientStep, UnlockClientsStep DEF HandlerStep
<1>3. CASE UNCHANGED vars
  BY <1>3, StutterStep
<1> QED
  BY <1>1, <1>2, <1>3 DEF Next

LEMMA ServerInvariant == Spec => []ServerInv
BY InitInv, NextInv, PTL DEF Spec

----------------------------------------------------------------------------
\* Types: the range loop of a broadcast is at one of the room's connections or
\* at the end, the mutex belongs to the handler that broadcasts, and what a
\* handler has read are messages of its own connection.
THEOREM TypeCorrect == Spec => []TypeOK
<1>1. ASSUME ServerInv PROVE TypeOK
  <2>1. ASSUME NEW c \in Conn
        PROVE  /\ sent[c] \in 0..Messages[c]
               /\ ToSet(message[c]) \subseteq Sendable(c)
               /\ handler[c] = "broadcast" <=> clientMutex = c
               /\ next[c] \in 1..(Len(Members(c)) + 1)
    <3>1. Shape /\ ConnOK(c) /\ MutexOK(c)
      BY <1>1 DEF ServerInv
    <3>2. sent[c] \in 0..Messages[c]
      <4>1. sent[c] \in Nat /\ Messages[c] \in Nat
        BY <3>1, Types
      <4> QED
        BY <3>1, <4>1 DEF ConnOK, StreamOK
    <3>3. message[c] \in Entry
      BY <3>1 DEF Shape
    <3>4. DOMAIN message[c] = 1..Len(message[c])
      BY <3>3 DEF Entry
    <3>5. ToSet(message[c]) \subseteq Sendable(c)
      BY <3>1, <3>4 DEF ToSet, ConnOK, MessageOK
    <3> QED
      BY <3>1, <3>2, <3>5 DEF MutexOK
  <2>2. ASSUME NEW r \in Room
        PROVE  ToSet(clients[r]) \subseteq Conn
    <3>1. clients[r] \in Seq(Conn)
      BY <1>1 DEF ServerInv, Shape
    <3> QED
      BY <3>1 DEF ToSet
  <2> QED
    BY <1>1, <2>1, <2>2 DEF ServerInv, Shape, TypeOK
<1> QED
  BY <1>1, ServerInvariant, PTL

----------------------------------------------------------------------------
\* The refinement.

LEMMA SeqIsFunction ==
  ASSUME NEW S, NEW s \in Seq(S)
  PROVE  s = [i \in 1..Len(s) |-> s[i]]
OBVIOUS

LEMMA ReceiveHears == ASSUME NEW c \in Conn, ServerInv, Receive(c) PROVE Rooms!Hear(c)
<1>1. Shape /\ DeliveryOK(c)
  BY DEF ServerInv
<1>2. /\ toClient[c] \in Seq(Entry) /\ toClient[c] # <<>> /\ client[c] = "open"
      /\ received' = [received EXCEPT ![c] = Append(@, Head(toClient[c]))]
      /\ log' = log /\ start' = start /\ said' = said
  BY <1>1 DEF Receive, Shape, serverVars, historyVars
<1>3. Head(toClient[c]) = toClient[c][1] /\ Len(toClient[c]) >= 1
  BY <1>2, Pop
<1>4. start[c] # None
  <2>1. Len(toClient[c]) \in Nat
    BY <1>1, Types
  <2> QED
    BY <1>1, <1>3, <2>1 DEF DeliveryOK
<1>5. PICK m \in Nat : m = start[c] + Len(received[c])
  <2>1. start[c] \in Nat /\ Len(received[c]) \in Nat
    BY <1>1, <1>4, Types
  <2> QED
    BY <2>1
<1>6. /\ m + Len(toClient[c]) = IF Pending(c) THEN Len(log[RoomOf[c]]) - 1 ELSE Len(log[RoomOf[c]])
      /\ \A i \in 1..Len(toClient[c]) : toClient[c][i] = log[RoomOf[c]][m + i]
  BY <1>1, <1>2, <1>4, <1>5 DEF DeliveryOK
<1>7. m \in Nat /\ Len(toClient[c]) \in Nat /\ Len(log[RoomOf[c]]) \in Nat /\ 1 \in 1..Len(toClient[c])
  BY <1>1, <1>3, <1>5, Types
<1>8. m < Len(log[RoomOf[c]])
  BY <1>3, <1>6, <1>7
<1>9. Head(toClient[c]) = log[RoomOf[c]][m + 1]
  BY <1>3, <1>6, <1>7
<1>10. received' = [received EXCEPT ![c] = Append(@, log[RoomOf[c]][start[c] + Len(@) + 1])]
  BY <1>1, <1>2, <1>5, <1>9 DEF Shape
<1>11. start[c] + Len(received[c]) < Len(log[RoomOf[c]])
  BY <1>5, <1>8
<1> QED
  BY <1>2, <1>4, <1>10, <1>11 DEF Rooms!Hear

LEMMA AddClientJoins == ASSUME NEW c \in Conn, ServerInv, AddClient(c) PROVE Rooms!JoinRoom(c)
<1>1. start[c] = None
  BY DEF ServerInv, ConnOK, SaidOK, AddClient, HandlerGoes
<1> QED
  BY <1>1 DEF AddClient, clientVars, Rooms!JoinRoom

LEMMA LockClientsSays == ASSUME NEW c \in Conn, ServerInv, LockClients(c) PROVE Rooms!Say(c)
<1>1. Shape /\ ConnOK(c)
  BY DEF ServerInv
<1>2. /\ handler[c] = "lock"
      /\ log' = [log EXCEPT ![RoomOf[c]] = Append(@, message[c])]
      /\ said' = [said EXCEPT ![c] = Taken(c)]
      /\ start' = start /\ received' = received
  <2>1. log' = [log EXCEPT ![RoomOf[c]] = Append(@, message[c])]
    BY DEF LockClients
  <2> QED
    BY <2>1, LockFacts
<1>3. PICK n \in Nat : n = Len(message[c])
  BY <1>1, Types
<1>4. PICK t \in Nat : t = Taken(c)
  <2>1. Len(toServer[c]) \in Nat /\ sent[c] \in Nat
    BY <1>1, Types
  <2>2. Taken(c) >= 0
    BY <1>1, <1>2 DEF ConnOK, StreamOK
  <2>3. Taken(c) \in Nat
    BY <2>1, <2>2 DEF Taken
  <2> QED
    BY <2>3
<1>5. /\ start[c] # None /\ n >= 1 /\ n <= t /\ (said[c] = 0 \/ said[c] = t - n)
      /\ \A i \in 1..n : message[c][i] = <<c, t - n + i>>
  BY <1>1, <1>2, <1>3, <1>4 DEF ConnOK, SaidOK
<1>6. t <= Messages[c]
  <2>1. Len(toServer[c]) \in Nat /\ sent[c] \in Nat /\ Messages[c] \in Nat /\ sent[c] <= Messages[c]
    BY <1>1, Types DEF ConnOK, StreamOK
  <2>2. t = sent[c] - Len(toServer[c])
    BY <1>4 DEF Taken
  <2> QED
    BY <2>1, <2>2
<1>7. n \in Nat /\ t \in Nat /\ said[c] \in Nat /\ Messages[c] \in Nat
  BY <1>1, <1>3, <1>4, Types
<1> DEFINE from == t - n + 1
<1>8. /\ t \in (said[c] + 1)..Messages[c]
      /\ from \in (IF said[c] = 0 THEN 1..t ELSE {said[c] + 1})
  BY <1>5, <1>6, <1>7
<1>9. message[c] = Rooms!Run(c, from, t)
  <2>1. message[c] \in Entry
    BY <1>1 DEF Shape
  <2>2. message[c] = [i \in 1..n |-> message[c][i]]
    BY <1>3, <2>1, SeqIsFunction DEF Entry
  <2>3. t - from + 1 = n
    BY <1>7
  <2>4. \A i \in 1..n : message[c][i] = <<c, from + i - 1>>
    <3>1. \A i \in 1..n : t - n + i = from + i - 1
      BY <1>7
    <3> QED
      BY <1>5, <3>1
  <2>5. [i \in 1..n |-> message[c][i]] = [i \in 1..n |-> <<c, from + i - 1>>]
    BY <2>4
  <2>6. Rooms!Run(c, from, t) = [i \in 1..(t - from + 1) |-> <<c, from + i - 1>>]
    BY DEF Rooms!Run
  <2> HIDE DEF from
  <2> QED
    BY <2>2, <2>3, <2>5, <2>6
<1> HIDE DEF from
<1>10. /\ log' = [log EXCEPT ![RoomOf[c]] = Append(@, Rooms!Run(c, from, t))]
       /\ said' = [said EXCEPT ![c] = t]
  BY <1>2, <1>4, <1>9
<1> QED
  BY <1>2, <1>5, <1>8, <1>10 DEF Rooms!Say

LEMMA StepImplementsLog ==
  ServerInv /\ [Next]_vars => [Rooms!LogNext]_(Rooms!abstractVars)
<1> SUFFICES ASSUME ServerInv, [Next]_vars
             PROVE  Rooms!LogNext \/ UNCHANGED <<log, start, said, received>>
  BY DEF Rooms!abstractVars
<1>1. CASE UNCHANGED vars
  BY <1>1 DEF vars, clientVars, serverVars, historyVars
<1>2. ASSUME NEW c \in Conn, Receive(c) \/ AddClient(c) \/ LockClients(c)
      PROVE  Rooms!LogNext
  BY <1>2, ReceiveHears, AddClientJoins, LockClientsSays DEF Rooms!LogNext
<1>3. ASSUME NEW c \in Conn,
             \/ StartChat(c) \/ SendMessage(c) \/ Abandon(c) \/ Quit(c) \/ CollectConn(c)
             \/ ReadJoin(c) \/ ReadMessage(c) \/ ReadFails(c) \/ WriteClient(c) \/ UnlockClients(c)
      PROVE  UNCHANGED <<log, start, said, received>>
  BY <1>3 DEF StartChat, SendMessage, Abandon, Quit, CollectConn, Close, ReadJoin, ReadMessage,
              ReadFails, WriteClient, UnlockClients, clientVars, serverVars, historyVars
<1> QED
  BY <1>1, <1>2, <1>3 DEF Next, HandlerStep

\* The chat server implements RoomLog: what handleClient has read is entered in
\* the log of its room when broadcastMessage gets the mutex, in the order in
\* which it was sent and with no gap after the first entry, and every member
\* reads the log on from where it stood when it was added, skipping nothing,
\* whatever closes, fills up or is left behind.
THEOREM ServerKeepsLogs == Spec => ImplementsRoomLog
<1>1. Init => Rooms!LogInit
  BY DEF Init, Rooms!LogInit
<1> QED
  BY <1>1, StepImplementsLog, ServerInvariant, PTL DEF Spec, ImplementsRoomLog, Rooms!LogSpec
=============================================================================
