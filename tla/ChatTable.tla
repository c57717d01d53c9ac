----------------------------- MODULE ChatTable -----------------------------
(***************************************************************************)
(* Central's table of chats and the goroutines that share it: the end of   *)
(* a match handler (handleConnection after the request is answered), which *)
(* chooses a server and records the chat, and the backgroundAnalysis       *)
(* sweep, which moves chats to the server that has become optimal.         *)
(*                                                                         *)
(* Every call of the client store is one step.  Their read locks do not    *)
(* make them so: two calls that write the table may overlap, and then      *)
(* records are lost or doubled.  Module ClientStore has the calls access   *)
(* by access and shows that they are as if atomic until two have           *)
(* overlapped; what follows is about the table until then.                 *)
(***************************************************************************)
EXTENDS Selection, ChatInstances, FiniteSets

CONSTANTS
  User, Room,
  Users,       \* Room -> <<requester, target>>
  Lists,       \* User -> the delay lists its client may report
  MaxUpdates,  \* bound: delay reports that replace an earlier report
  None         \* no server, no delay list, no room

ASSUME UsersAssumption == Users \in [Room -> User \X User]
ASSUME ListsAssumption == Lists \in [User -> SUBSET DelayList]
ASSUME MaxUpdatesAssumption == MaxUpdates \in Nat
ASSUME NoneAssumption == None \notin Server /\ None \notin DelayList

VARIABLES
  delayLists,     \* store: user -> delay list
  updates,        \* number of replaced delay lists
  handler,        \* per room: where its handleConnection is
  invited,        \* per room: the server sent to both clients
  chatInstances,  \* store: the slice of chat instances
  sweep,          \* the backgroundAnalysis goroutine
  missing         \* history: rooms this sweep has yet to look at

handlerVars == <<handler, invited>>
listVars == <<delayLists, updates>>
sweepVars == <<sweep, missing>>
tableVars == <<listVars, handlerVars, chatInstances, sweepVars>>

NoInstance == [room |-> None, server |-> None, users |-> <<>>]

Instance(room, server) == [room |-> room, server |-> server, users |-> Users[room]]

\* What ranging over the result of GetAllChatInstances reads: the array the
\* slice had at the tick.  It is the table's own array until append moves the
\* table to a new one.
SweepCells == IF sweep.aliased THEN chatInstances.cells ELSE sweep.cells

RecordedRooms == {Entries(chatInstances)[i].room : i \in 1..chatInstances.len}

IdleSweep == [pc |-> "wait", aliased |-> FALSE, cells |-> <<>>, len |-> 0,
              i |-> 0, instance |-> NoInstance, serverIP |-> None]

Init ==
  /\ delayLists = [u \in User |-> None]
  /\ updates = 0
  /\ handler = [r \in Room |-> "answered"]
  /\ invited = [r \in Room |-> None]
  /\ chatInstances = EmptySlice
  /\ sweep = IdleSweep
  /\ missing = {}
----------------------------------------------------------------------------
\* PUT /clients/delays.
UpdateDelayList(u, list) ==
  /\ IF delayLists[u] = None
       THEN UNCHANGED updates
       ELSE updates < MaxUpdates /\ updates' = updates + 1
  /\ delayLists' = [delayLists EXCEPT ![u] = list]
  /\ UNCHANGED <<handlerVars, chatInstances, sweepVars>>

\* The servers compute_optimal_server may return for two users; none when one
\* of them has no delay list or they have no server in common.
Candidates(u1, u2) ==
  IF delayLists[u1] = None \/ delayLists[u2] = None
    THEN {}
    ELSE OptimalServers(delayLists[u1], delayLists[u2])

\* handleConnection chooses the server and writes it to both clients.
MatchServer(r) ==
  /\ handler[r] = "answered"
  /\ \E serverIP \in Candidates(Users[r][1], Users[r][2]) :
       invited' = [invited EXCEPT ![r] = serverIP]
  /\ handler' = [handler EXCEPT ![r] = "insert"]
  /\ UNCHANGED <<listVars, chatInstances, sweepVars>>

\* handleConnection finds no delay list or no server: SERVER_ERROR to both.
MatchFails(r) ==
  /\ handler[r] = "answered"
  /\ Candidates(Users[r][1], Users[r][2]) = {}
  /\ handler' = [handler EXCEPT ![r] = "failed"]
  /\ UNCHANGED <<listVars, invited, chatInstances, sweepVars>>

\* The sweep after an InsertChatInstance: when append moves the table, the
\* range loop goes on over the old array, which nobody writes any more.
AfterInsert ==
  IF sweep.aliased /\ Reallocates(chatInstances)
    THEN [sweep EXCEPT !.aliased = FALSE, !.cells = chatInstances.cells]
    ELSE sweep

\* handleConnection records the chat, after the clients were told.
InsertMatch(r) ==
  /\ handler[r] = "insert"
  /\ handler' = [handler EXCEPT ![r] = "done"]
  /\ chatInstances' = InsertChatInstance(chatInstances, Instance(r, invited[r]))
  /\ sweep' = AfterInsert
  /\ UNCHANGED <<listVars, invited, missing>>
----------------------------------------------------------------------------
MutantTick ==
  /\ sweep.pc = "wait"
  /\ sweep' = [IdleSweep EXCEPT !.pc = "loop", !.aliased = TRUE,
                                !.len = Len(chatInstances.cells), !.i = 1]
  /\ missing' = RecordedRooms
  /\ UNCHANGED <<listVars, handlerVars, chatInstances>>

MutantTickSkipsFirst ==
  /\ sweep.pc = "wait"
  /\ sweep' = [IdleSweep EXCEPT !.pc = "loop", !.aliased = TRUE,
                                !.len = chatInstances.len, !.i = 2]
  /\ missing' = RecordedRooms
  /\ UNCHANGED <<listVars, handlerVars, chatInstances>>

\* The ticker fires: GetAllChatInstances.
Tick ==
  /\ sweep.pc = "wait"
  /\ sweep' = [IdleSweep EXCEPT !.pc = "loop", !.aliased = TRUE,
                                !.len = chatInstances.len, !.i = 1]
  /\ missing' = RecordedRooms
  /\ UNCHANGED <<listVars, handlerVars, chatInstances>>

\* The range loop copies the next cell.
NextInstance ==
  /\ sweep.pc = "loop"
  /\ sweep.i <= sweep.len
  /\ sweep' = [sweep EXCEPT !.pc = "examine", !.i = @ + 1,
                            !.instance = SweepCells[sweep.i]]
  /\ missing' = missing \ {SweepCells[sweep.i].room}
  /\ UNCHANGED <<listVars, handlerVars, chatInstances>>

EndSweep ==
  /\ sweep.pc = "loop"
  /\ sweep.i > sweep.len
  /\ sweep' = IdleSweep
  /\ UNCHANGED <<listVars, handlerVars, chatInstances, missing>>

\* The loop body ends; its locals are gone.
Continue ==
  [sweep EXCEPT !.pc = "loop", !.instance = NoInstance, !.serverIP = None]

client1 == sweep.instance.users[1]
client2 == sweep.instance.users[2]

\* No delay list, no common server, or the chat is where it should be.
Keep ==
  /\ sweep.pc = "examine"
  /\ \/ Candidates(client1, client2) = {}
     \/ sweep.instance.server \in Candidates(client1, client2)
  /\ sweep' = Continue
  /\ UNCHANGED <<listVars, handlerVars, chatInstances, missing>>

\* The selection returned another server than the recorded one.
Reroute ==
  /\ sweep.pc = "examine"
  /\ \E serverIP \in Candidates(client1, client2) \ {sweep.instance.server} :
       sweep' = [sweep EXCEPT !.pc = "remove1", !.serverIP = serverIP]
  /\ UNCHANGED <<listVars, handlerVars, chatInstances, missing>>

\* RemoveChatInstancesForUser(client1)
RemoveFirst ==
  /\ sweep.pc = "remove1"
  /\ chatInstances' = RemoveChatInstancesForUser(chatInstances, client1)
  /\ sweep' = [sweep EXCEPT !.pc = "remove2"]
  /\ UNCHANGED <<listVars, handlerVars, missing>>

\* RemoveChatInstancesForUser(client2)
RemoveSecond ==
  /\ sweep.pc = "remove2"
  /\ chatInstances' = RemoveChatInstancesForUser(chatInstances, client2)
  /\ sweep' = [sweep EXCEPT !.pc = "insert"]
  /\ UNCHANGED <<listVars, handlerVars, missing>>

MutantReinsert ==
  /\ sweep.pc = "insert"
  /\ chatInstances' = InsertChatInstance(chatInstances, sweep.instance)
  /\ sweep' = [AfterInsert EXCEPT !.pc = "redirect"]
  /\ UNCHANGED <<listVars, handlerVars, missing>>

\* InsertChatInstance(instance.RoomId, serverIP, ...)
Reinsert ==
  /\ sweep.pc = "insert"
  /\ chatInstances' =
       InsertChatInstance(chatInstances,
                          [sweep.instance EXCEPT !.server = sweep.serverIP])
  /\ sweep' = [AfterInsert EXCEPT !.pc = "redirect"]
  /\ UNCHANGED <<listVars, handlerVars, missing>>

\* The redirect connections are dealt with, successfully or not; the loop goes
\* on.  (What happens at the clients is in module Relocation.)
EndReroute ==
  /\ sweep.pc = "redirect"
  /\ sweep' = Continue
  /\ UNCHANGED <<listVars, handlerVars, chatInstances, missing>>
----------------------------------------------------------------------------
\* The steps of the sweep that stay inside Central.
AnalysisStep ==
  \/ Tick \/ NextInstance \/ EndSweep \/ Keep \/ Reroute
  \/ RemoveFirst \/ RemoveSecond \/ Reinsert

SweepStep == AnalysisStep \/ EndReroute

HandlerStep(r) == MatchServer(r) \/ MatchFails(r) \/ InsertMatch(r)

Next ==
  \/ SweepStep
  \/ \E r \in Room : HandlerStep(r)
  \/ \E u \in User : \E list \in Lists[u] : UpdateDelayList(u, list)

Spec == Init /\ [][Next]_tableVars

\* The sweep and the handlers are goroutines that wait for nobody here.
FairSpec ==
  /\ Spec
  /\ WF_tableVars(SweepStep)
  /\ \A r \in Room : WF_tableVars(HandlerStep(r))
----------------------------------------------------------------------------
\* The records of the table: a matched room, its users and some server.
Record == {instance \in [room : Room, server : Server, users : User \X User] :
             instance.users = Users[instance.room]}

Cell == Record \cup {ZeroInstance}

Busy == {"examine", "remove1", "remove2", "insert", "redirect"}

SweepState ==
  [pc : {"wait", "loop"} \cup Busy, aliased : BOOLEAN, cells : Seq(Cell),
   len : Nat, i : Nat, instance : Record \cup {NoInstance},
   serverIP : Server \cup {None}]

HandlersOK ==
  /\ delayLists \in [User -> DelayList \cup {None}]
  /\ updates \in 0..MaxUpdates
  /\ handler \in [Room -> {"answered", "insert", "done", "failed"}]
  /\ invited \in [Room -> Server \cup {None}]
  /\ \A r \in Room : handler[r] = "insert" => invited[r] \in Server

TableOK ==
  /\ chatInstances \in [cells : Seq(Cell), len : Nat]
  /\ chatInstances.len <= Len(chatInstances.cells)
  /\ \A k \in 1..chatInstances.len : chatInstances.cells[k] \in Record

SweepOK ==
  /\ sweep \in SweepState
  /\ sweep.pc \in Busy => sweep.instance \in Record
  /\ sweep.pc \in Busy \ {"examine"} => sweep.serverIP \in Server
  /\ missing \subseteq Room

\* The cells the running range loop reads.
WindowOK ==
  sweep.pc # "wait" =>
    /\ sweep.i >= 1
    /\ sweep.len <= Len(SweepCells)
    /\ \A k \in 1..sweep.len : SweepCells[k] \in Record

\* Types of the store, the handlers and the sweep; every cell that the table
\* or the running range loop can reach is the record of a room.
TypeOK == HandlersOK /\ TableOK /\ SweepOK /\ WindowOK

\* The positions of a room's records in the table.
RecordsOf(r) ==
  {k \in 1..chatInstances.len : chatInstances.cells[k].room = r}

\* The sweep has taken the room's record out and not put it back yet.
BeingMoved(r) ==
  sweep.pc \in {"remove2", "insert"} /\ sweep.instance.room = r

\* The range loop never reads a record that is out of date: the instance a
\* sweep examines is the room's current record, also when the array was
\* shifted, overwritten or replaced since the tick.
ExaminesCurrentRecord ==
  sweep.pc \in {"examine", "remove1"} =>
    \E k \in 1..chatInstances.len : chatInstances.cells[k] = sweep.instance

\* The chats the running range loop will not look at any more.  A copy that a
\* removal left behind the end of the table does not count.
Skipped ==
  LET ahead == {k \in sweep.i..sweep.len :
                  sweep.aliased => k <= chatInstances.len}
  IN  IF sweep.pc = "wait" THEN {}
                           ELSE missing \ {SweepCells[k].room : k \in ahead}

\* backgroundAnalysis shifts the array it ranges over.  Only taking the record
\* of a chat out, to re-route it, makes the running loop skip a chat, and one
\* chat at most: putting the record back, the second removal, the inserts of
\* the match handlers and a move of the table to a new array never do.
SkipsOnePerMove ==
  [][\/ Skipped' \subseteq Skipped
     \/ RemoveFirst /\ Cardinality(Skipped' \ Skipped) = 1]_tableVars

Examining(r) == sweep.pc = "examine" /\ sweep.instance.room = r

\* A sweep may skip a chat whose record moves up while it runs, but no chat is
\* skipped for ever: sweeps look at every recorded chat again and again.
EveryChatExamined ==
  \A r \in Room : []<>(handler[r] = "done" => Examining(r))

\* Once the delay lists stay as they are, the table settles on an optimal
\* server for every recorded chat.
TableConverges ==
  \A r \in Room :
    <>[](handler[r] = "done" =>
           LET best == Candidates(Users[r][1], Users[r][2])
           IN  BeingMoved(r) \/ \E k \in RecordsOf(r) :
                 best # {} => chatInstances.cells[k].server \in best)
============================================================================
