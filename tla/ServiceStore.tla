---------------------------- MODULE ServiceStore ----------------------------
(***************************************************************************)
(* The locks of Central's service store: chat servers register and send    *)
(* heartbeats, and clients ask for the list, in goroutines of their own.   *)
(* Each call ranges over or writes the map data while it holds its lock;   *)
(* what the entries say is the subject of module ServiceRegistry.          *)
(***************************************************************************)
EXTENDS RWMutex

VARIABLES
  pc, op  \* per goroutine: where it is in which call

vars == <<mu, pc, op>>

Calls == {"Create", "Read", "Delete", "Patch"}

\* The calls that take the write lock, and the calls that write the map.
WriteLocked == {"Create", "Delete"}
WritesMap == {"Create", "Delete", "Patch"}

Init ==
  /\ mu = Unlocked
  /\ pc = [t \in Thread |-> "idle"]
  /\ op = [t \in Thread |-> None]

Goes(t, from, to) == pc[t] = from /\ pc' = [pc EXCEPT ![t] = to]

Begin(t, c) ==
  /\ Goes(t, "idle", "lock")
  /\ op' = [op EXCEPT ![t] = c]
  /\ UNCHANGED mu

CallLock(t) ==
  /\ Goes(t, "lock", "wait")
  /\ IF op[t] \in WriteLocked THEN Lock(t) ELSE RLock(t)
  /\ UNCHANGED op

Enter(t) ==
  /\ Goes(t, "wait", "map")
  /\ IF op[t] \in WriteLocked THEN Writing(t) ELSE Reading(t)
  /\ UNCHANGED <<mu, op>>

\* The body of the call is done: the deferred unlock.
Return(t) ==
  /\ Goes(t, "map", "idle")
  /\ IF op[t] \in WriteLocked THEN Unlock(t) ELSE RUnlock(t)
  /\ op' = [op EXCEPT ![t] = None]

Next ==
  \E t \in Thread :
    \/ \E c \in Calls : Begin(t, c)
    \/ CallLock(t) \/ Enter(t) \/ Return(t)

Spec == Init /\ [][Next]_vars
----------------------------------------------------------------------------
\* "InMemoryStore is a thread-safe implementation of the Store interface": no
\* goroutine ranges over the map data or writes it while another one writes
\* it, which would end Central's process.
MapRaceFree ==
  \A t, s \in Thread :
    (t # s /\ pc[t] = "map" /\ pc[s] = "map") => op[t] \notin WritesMap
============================================================================
