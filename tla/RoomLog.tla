------------------------------ MODULE RoomLog ------------------------------
(***************************************************************************)
(* What a chat server promises its clients: every room has one log.  What  *)
(* a member sends is entered in the log, in the order in which it was sent *)
(* and with no gap after the first entry; a member reads the log from the  *)
(* place where it stood when the member joined, and skips nothing.         *)
(***************************************************************************)
EXTENDS Naturals, Sequences

CONSTANTS Conn, Room, RoomOf, Messages, NotJoined

VARIABLES
  log,      \* per room: the entries, each one or more messages of a member
  start,    \* per connection: length of the log when it joined, or NotJoined
  said,     \* per connection: number of its last message in the log
  shown     \* per connection: the entries its client has read

abstractVars == <<log, start, said, shown>>

Run(c, from, to) == [i \in 1..(to - from + 1) |-> <<c, from + i - 1>>]

LogInit ==
  /\ log = [r \in Room |-> <<>>]
  /\ start = [c \in Conn |-> NotJoined]
  /\ said = [c \in Conn |-> 0]
  /\ shown = [c \in Conn |-> <<>>]

JoinRoom(c) ==
  /\ start[c] = NotJoined
  /\ start' = [start EXCEPT ![c] = Len(log[RoomOf[c]])]
  /\ UNCHANGED <<log, said, shown>>

Say(c) ==
  /\ start[c] # NotJoined
  /\ \E to \in (said[c] + 1)..Messages[c] :
       \E from \in (IF said[c] = 0 THEN 1..to ELSE {said[c] + 1}) :
         /\ log' = [log EXCEPT ![RoomOf[c]] = Append(@, Run(c, from, to))]
         /\ said' = [said EXCEPT ![c] = to]
  /\ UNCHANGED <<start, shown>>

Hear(c) ==
  /\ start[c] # NotJoined
  /\ start[c] + Len(shown[c]) < Len(log[RoomOf[c]])
  /\ shown' = [shown EXCEPT ![c] = Append(@, log[RoomOf[c]][start[c] + Len(@) + 1])]
  /\ UNCHANGED <<log, start, said>>

LogNext == \E c \in Conn : JoinRoom(c) \/ Say(c) \/ Hear(c)

LogSpec == LogInit /\ [][LogNext]_abstractVars
============================================================================
