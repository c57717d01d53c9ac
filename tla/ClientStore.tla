---------------------------- MODULE ClientStore ----------------------------
(***************************************************************************)
(* Central's client store, call by call: the HTTP handlers, the match      *)
(* handlers and the sweep are goroutines that call it at the same time.    *)
(* The accesses of a call to the store's fields are steps of their own, so *)
(* that what holds in between is what the RWMutex ensures.                 *)
(*                                                                         *)
(* The calls that write the table of chats take the read lock only: they   *)
(* may overlap, and the slice is a header on an array that both write.  A  *)
(* header is read and written in one piece here, and so are the entries    *)
(* that a removal looks through and those that it moves.                   *)
(* RemoveChatInstance and RemoveChatInstancesForServer are never called    *)
(* and are left out.                                                       *)
(***************************************************************************)
EXTENDS RWMutex, ChatInstances

CONSTANTS
  Ip, Username,
  Instances,     \* the chat instances that are inserted
  Sweep,         \* the goroutine of backgroundAnalysis: only it removes
  MaxCalls       \* bound: calls of the store

ASSUME IpAssumption == None \notin Ip /\ None \notin Username
ASSUME SweepAssumption == Sweep \in Thread
ASSUME MaxCallsAssumption == MaxCalls \in Nat

VARIABLES
  data,           \* ip -> username, or None
  delayLists,     \* the usernames that have a delay list
  arrays,         \* the backing arrays that were allocated, in order
  chatInstances,  \* the slice header: which array, and how much of it
  table,          \* history: the slice if every call had been one step
  overlapped,     \* history: two calls that write the slice have overlapped
  calls,          \* number of calls begun
  pc, call,       \* per goroutine: where it is in which call
  loaded,         \* per goroutine: the slice header it works on
  position        \* per goroutine: the entry that the removal has found

maps == <<data, delayLists>>
slices == <<arrays, chatInstances, table, overlapped, loaded, position>>
vars == <<mu, maps, slices, calls, pc, call>>

\* The calls, and their arguments.
Call ==
  [op : {"Create"}, ip : Ip, name : Username]
    \cup [op : {"Read", "Delete"}, ip : Ip]
    \cup [op : {"ReadByUsername", "UpdateDelayList", "GetDelayList"}, name : Username]
    \cup [op : {"InsertChatInstance"}, instance : Instances]
    \cup [op : {"RemoveChatInstancesForUser"}, name : Username]
    \cup [op : {"GetAllChatInstances"}]

MutantWriteLocked == {"Delete", "UpdateDelayList"}

MutantDeleteReadLocked == {"Create", "UpdateDelayList"}

\* The calls that take the write lock: not those that write the slice.
WriteLocked == {"Create", "Delete", "UpdateDelayList"}

WritesSlice == {"InsertChatInstance", "RemoveChatInstancesForUser"}

NoHeader == [array |-> 1, len |-> 0]

Init ==
  /\ mu = Unlocked
  /\ data = [ip \in Ip |-> None]
  /\ delayLists = {}
  /\ arrays = << EmptySlice.cells >>
  /\ chatInstances = NoHeader
  /\ table = EmptySlice
  /\ overlapped = FALSE
  /\ calls = 0
  /\ pc = [t \in Thread |-> "idle"]
  /\ call = [t \in Thread |-> None]
  /\ loaded = [t \in Thread |-> NoHeader]
  /\ position = [t \in Thread |-> 0]

\* The slice that a header stands for at present.
SliceOf(header) == [cells |-> arrays[header.array], len |-> header.len]

Goes(t, from, to) == pc[t] = from /\ pc' = [pc EXCEPT ![t] = to]

Op(t) == call[t].op

At(t, point, op) == pc[t] = point /\ Op(t) = op
----------------------------------------------------------------------------
\* A goroutine calls the store.
Begin(t, c) ==
  /\ Goes(t, "idle", "lock")
  /\ c.op = "RemoveChatInstancesForUser" => t = Sweep
  /\ calls < MaxCalls
  /\ calls' = calls + 1
  /\ call' = [call EXCEPT ![t] = c]
  /\ UNCHANGED <<mu, maps, slices>>

CallLock(t) ==
  /\ Goes(t, "lock", "wait")
  /\ IF Op(t) \in WriteLocked THEN Lock(t) ELSE RLock(t)
  /\ UNCHANGED <<maps, slices, calls, call>>

Enter(t) ==
  /\ Goes(t, "wait", "first")
  /\ IF Op(t) \in WriteLocked THEN Writing(t) ELSE Reading(t)
  /\ UNCHANGED <<mu, maps, slices, calls, call>>

\* An access of the call; the next one is at the point given.
Access(t, op, from, to) ==
  /\ At(t, from, op)
  /\ Goes(t, from, to)
  /\ UNCHANGED <<mu, calls, call>>

\* Create looks for the username among all entries ...
CreateScan(t) ==
  /\ Access(t, "Create", "first",
            IF \E ip \in Ip : data[ip] = call[t].name THEN "unlock" ELSE "second")
  /\ UNCHANGED <<maps, slices>>

\* ... and enters it if it found none, whatever the address had before.
CreateWrite(t) ==
  /\ Access(t, "Create", "second", "unlock")
  /\ data' = [data EXCEPT ![call[t].ip] = call[t].name]
  /\ UNCHANGED <<delayLists, slices>>

DeleteCheck(t) ==
  /\ Access(t, "Delete", "first", IF data[call[t].ip] = None THEN "unlock" ELSE "second")
  /\ UNCHANGED <<maps, slices>>

DeleteWrite(t) ==
  /\ Access(t, "Delete", "second", "unlock")
  /\ data' = [data EXCEPT ![call[t].ip] = None]
  /\ UNCHANGED <<delayLists, slices>>

\* These calls change nothing.
Lookup(t) ==
  /\ \E op \in {"Read", "ReadByUsername", "GetDelayList", "GetAllChatInstances"} :
       Access(t, op, "first", "unlock")
  /\ UNCHANGED <<maps, slices>>

UpdateDelayList(t) ==
  /\ Access(t, "UpdateDelayList", "first", "unlock")
  /\ delayLists' = delayLists \cup {call[t].name}
  /\ UNCHANGED <<data, slices>>
----------------------------------------------------------------------------
\* The calls that have read the slice and not yet written it back.
Rewriting == {t \in Thread : pc[t] \in {"second", "third"} /\ Op(t) \in WritesSlice}

\* s.chatInstances = append(s.chatInstances, newInstance): the header is read;
InsertLoad(t) ==
  /\ Access(t, "InsertChatInstance", "first", "second")
  /\ loaded' = [loaded EXCEPT ![t] = chatInstances]
  /\ overlapped' = (overlapped \/ Rewriting # {})
  /\ UNCHANGED <<maps, arrays, chatInstances, table, position>>

\* the instance is written behind the last entry, in place or in a new array;
InsertWrite(t) ==
  LET slice == SliceOf(loaded[t])
      grown == InsertChatInstance(slice, call[t].instance)
  IN  /\ Access(t, "InsertChatInstance", "second", "third")
      /\ arrays' = IF Reallocates(slice) THEN Append(arrays, grown.cells)
                   ELSE [arrays EXCEPT ![loaded[t].array] = grown.cells]
      /\ loaded' = [loaded EXCEPT ![t] =
                      [array |-> IF Reallocates(slice) THEN Len(arrays) + 1
                                 ELSE loaded[t].array,
                       len   |-> grown.len]]
      /\ UNCHANGED <<maps, chatInstances, table, overlapped, position>>

\* the new header is stored.
InsertStore(t) ==
  /\ Access(t, "InsertChatInstance", "third", "unlock")
  /\ chatInstances' = loaded[t]
  /\ table' = InsertChatInstance(table, call[t].instance)
  /\ UNCHANGED <<maps, arrays, overlapped, loaded, position>>

\* RemoveChatInstancesForUser looks for the first entry that has the user;
RemoveScan(t) ==
  LET found == PositionsOf(SliceOf(chatInstances), call[t].name)
  IN  /\ Access(t, "RemoveChatInstancesForUser", "first",
                IF found = {} THEN "unlock" ELSE "second")
      /\ IF found = {} THEN UNCHANGED position
         ELSE \E i \in found : /\ \A j \in found : i <= j
                               /\ position' = [position EXCEPT ![t] = i]
      /\ overlapped' = (overlapped \/ Rewriting # {})
      /\ UNCHANGED <<maps, arrays, chatInstances, table, loaded>>

\* the header is read again, and the entries behind it move up in place;
RemoveShift(t) ==
  /\ Access(t, "RemoveChatInstancesForUser", "second", "third")
  /\ position[t] <= chatInstances.len
  /\ arrays' = [arrays EXCEPT ![chatInstances.array] =
                  RemoveAt(SliceOf(chatInstances), position[t]).cells]
  /\ loaded' = [loaded EXCEPT ![t] = [array |-> chatInstances.array,
                                       len   |-> chatInstances.len - 1]]
  /\ UNCHANGED <<maps, chatInstances, table, overlapped, position>>

\* if the slice has become too short for that, the bounds check panics and
\* Central is gone;
RemovePanics(t) ==
  /\ At(t, "second", "RemoveChatInstancesForUser")
  /\ position[t] > chatInstances.len
  /\ pc' = [s \in Thread |-> "dead"]
  /\ UNCHANGED <<mu, maps, slices, calls, call>>

MutantRemoveStore(t) ==
  /\ Access(t, "RemoveChatInstancesForUser", "third", "unlock")
  /\ chatInstances' = IF position[t] = chatInstances.len THEN chatInstances ELSE loaded[t]
  /\ table' = RemoveChatInstancesForUser(table, call[t].name)
  /\ UNCHANGED <<maps, arrays, overlapped, loaded, position>>

\* the new header is stored.
RemoveStore(t) ==
  /\ Access(t, "RemoveChatInstancesForUser", "third", "unlock")
  /\ chatInstances' = loaded[t]
  /\ table' = RemoveChatInstancesForUser(table, call[t].name)
  /\ UNCHANGED <<maps, arrays, overlapped, loaded, position>>
----------------------------------------------------------------------------
MutantReturn(t) ==
  /\ Goes(t, "unlock", "idle")
  /\ IF Op(t) = "Delete" /\ data[call[t].ip] = None
       THEN UNCHANGED mu
       ELSE IF Op(t) \in WriteLocked THEN Unlock(t) ELSE RUnlock(t)
  /\ call' = [call EXCEPT ![t] = None]
  /\ loaded' = [loaded EXCEPT ![t] = NoHeader]
  /\ position' = [position EXCEPT ![t] = 0]
  /\ UNCHANGED <<maps, arrays, chatInstances, table, overlapped, calls>>

\* The deferred unlock, on every way out of the call.
Return(t) ==
  /\ Goes(t, "unlock", "idle")
  /\ IF Op(t) \in WriteLocked THEN Unlock(t) ELSE RUnlock(t)
  /\ call' = [call EXCEPT ![t] = None]
  /\ loaded' = [loaded EXCEPT ![t] = NoHeader]
  /\ position' = [position EXCEPT ![t] = 0]
  /\ UNCHANGED <<maps, arrays, chatInstances, table, overlapped, calls>>
----------------------------------------------------------------------------
Body(t) ==
  \/ CreateScan(t) \/ CreateWrite(t) \/ DeleteCheck(t) \/ DeleteWrite(t)
  \/ Lookup(t) \/ UpdateDelayList(t)
  \/ InsertLoad(t) \/ InsertWrite(t) \/ InsertStore(t)
  \/ RemoveScan(t) \/ RemoveShift(t) \/ RemovePanics(t) \/ RemoveStore(t)

Next ==
  \E t \in Thread :
    \/ \E c \in Call : Begin(t, c)
    \/ CallLock(t) \/ Enter(t) \/ Body(t) \/ Return(t)

Spec == Init /\ [][Next]_vars

\* Goroutines run on, and Lock lets no writer starve; the next call may never
\* come.
FairSpec ==
  /\ Spec
  /\ \A t \in Thread :
       /\ SF_vars(CallLock(t))
       /\ WF_vars(Enter(t) \/ Body(t) \/ Return(t))
----------------------------------------------------------------------------
Cell == Instances \cup {ZeroInstance}

Header == [array : Nat, len : Nat]

\* A slice header refers to an array, and is no longer than it.
WithinArray(header) ==
  /\ header.array \in 1..Len(arrays)
  /\ header.len <= Len(arrays[header.array])

\* Types of the store and of the calls in progress: whatever overlaps, every
\* slice header stays within its array.
TypeOK ==
  /\ MutexTypeOK
  /\ data \in [Ip -> Username \cup {None}]
  /\ delayLists \subseteq Username
  /\ arrays \in Seq(Seq(Cell))
  /\ chatInstances \in Header /\ WithinArray(chatInstances)
  /\ loaded \in [Thread -> Header] /\ \A t \in Thread : WithinArray(loaded[t])
  /\ position \in [Thread -> Nat]
  /\ overlapped \in BOOLEAN
  /\ calls \in 0..MaxCalls
  /\ pc \in [Thread -> {"idle", "lock", "wait", "first", "second", "third", "unlock", "dead"}]
  /\ call \in [Thread -> Call \cup {None}]
  /\ \A t \in Thread : pc[t] \notin {"idle", "dead"} => call[t] \in Call

Inside(t) == pc[t] \in {"first", "second"}

\* The map a goroutine is about to access, and whether it writes.
MapOf(t) ==
  CASE Op(t) \in {"Create", "Read", "ReadByUsername", "Delete"} -> "data"
    [] Op(t) \in {"UpdateDelayList", "GetDelayList"}            -> "delayLists"
    [] OTHER                                                    -> "none"

WritesMap(t) == Op(t) \in {"Create", "Delete", "UpdateDelayList"}

\* No goroutine reads or writes one of the store's maps while another one
\* writes it: the Go runtime ends Central's process when that happens.
MapsRaceFree ==
  \A t, s \in Thread :
    (t # s /\ Inside(t) /\ Inside(s) /\ MapOf(t) = MapOf(s) /\ MapOf(t) # "none")
      => ~WritesMap(t)

\* A username belongs to one address at most, however registrations overlap:
\* Create checks all entries and enters the new one under one write lock.
UsernameUnique ==
  \A i, j \in Ip : (i # j /\ data[i] = data[j]) => data[i] = None

\* Every call of the store returns, however many goroutines call it, unless
\* Central dies of a removal's panic.
CallsReturn ==
  \A t \in Thread : pc[t] = "lock" ~> pc[t] \in {"idle", "dead"}

\* As long as no two calls that write the slice have overlapped, the table of
\* chats is, between such calls, what the calls make of it one after another
\* (the operations of ChatInstances), arrays that are shared, shifted and
\* replaced notwithstanding, and no removal panics.  The read lock gives no
\* more: an overlap loses or doubles records, or ends Central.
AsIfAtomic ==
  overlapped \/ /\ \A t \in Thread : pc[t] # "dead"
                /\ Rewriting = {} => SliceOf(chatInstances) = table
============================================================================
