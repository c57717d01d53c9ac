-------------------------- MODULE ServiceRegistry --------------------------
(***************************************************************************)
(* Service discovery: chat servers send heartbeats to Central, and Central *)
(* lists the servers whose last heartbeat is recent enough.  Chat servers  *)
(* crash and restart, Central restarts with an empty store, and requests   *)
(* are delayed or lost.                                                    *)
(*                                                                         *)
(* Time passes in seconds; what happens within one second happens in any   *)
(* order.  A call of the store is one step (module ServiceStore has its    *)
(* locks).                                                                 *)
(***************************************************************************)
EXTENDS Naturals

CONSTANTS
  Server,
  Interval,  \* the interval of the heartbeat job: 3 in main
  Window,    \* how old a listed server's heartbeat may be: 10 in Read
  MaxDelay,  \* assumed: a request is handled or fails within this time
  MaxLost,   \* assumed: requests of one server lost in a row while Central runs
  None

ASSUME IntervalAssumption == Interval \in Nat \ {0} /\ Window \in Nat
ASSUME DelayAssumption == MaxDelay \in Nat /\ MaxDelay < Interval
ASSUME MaxLostAssumption == MaxLost \in Nat
ASSUME NoneAssumption ==
  None \notin Nat /\ None \notin [method : {"POST", "PATCH"}, age : Nat, awaited : BOOLEAN]

VARIABLES
  heartbeat,   \* store: age of the server's lastHeartbeat, None if no entry
  centralFor,  \* for how long Central has been running, None if it is not
  serverFor,   \* per server: for how long it has been running, None if not
  downFor,     \* per server: for how long it has been down
  registered,  \* per server: the heartbeat job's flag
  ticker,      \* per server: time since the job's ticker last fired
  request,     \* per server: the request on its way; awaited until the server
               \* that sent it ends
  lost         \* per server: requests lost since one was handled

clocks == <<centralFor, serverFor, downFor>>
job == <<registered, ticker, request, lost>>
vars == <<heartbeat, clocks, job>>

\* Clocks stop here: no property tells later moments apart.
Cap == Window + MaxDelay + Interval

Older(age) == IF age = None \/ age = Cap THEN age ELSE age + 1

Request(method, age, awaited) == [method |-> method, age |-> age, awaited |-> awaited]

OneSecondOn(r) == Request(r.method, r.age + 1, r.awaited)

Unawaited(r) == Request(r.method, r.age, FALSE)

Up(s) == serverFor[s] # None
CentralUp == centralFor # None

Init ==
  /\ heartbeat = [s \in Server |-> None]
  /\ centralFor = 0
  /\ serverFor = [s \in Server |-> 0]
  /\ downFor = [s \in Server |-> 0]
  /\ registered = [s \in Server |-> FALSE]
  /\ ticker = [s \in Server |-> 0]
  /\ request = [s \in Server |-> None]
  /\ lost = [s \in Server |-> 0]

\* A second passes.  No ticker is overdue and no request is.
Second ==
  /\ \A s \in Server : Up(s) => ticker[s] < Interval
  /\ \A s \in Server : request[s] # None => request[s].age < MaxDelay
  /\ heartbeat' = [s \in Server |-> Older(heartbeat[s])]
  /\ centralFor' = Older(centralFor)
  /\ serverFor' = [s \in Server |-> Older(serverFor[s])]
  /\ downFor' = [s \in Server |-> IF Up(s) THEN 0 ELSE Older(downFor[s])]
  /\ ticker' = [s \in Server |-> IF Up(s) THEN ticker[s] + 1 ELSE 0]
  /\ request' = [s \in Server |->
                   IF request[s] = None THEN None ELSE OneSecondOn(request[s])]
  /\ UNCHANGED <<registered, lost>>
----------------------------------------------------------------------------
\* The heartbeat job of a chat server: register until that has succeeded,
\* send heartbeats from then on.
Beat(s) ==
  /\ Up(s)
  /\ ticker[s] = Interval
  /\ request[s] = None
  /\ ticker' = [ticker EXCEPT ![s] = 0]
  /\ request' = [request EXCEPT ![s] =
                   Request(IF registered[s] THEN "PATCH" ELSE "POST", 0, TRUE)]
  /\ UNCHANGED <<heartbeat, clocks, registered, lost>>

\* The request fails: Central is not there, or the network lost it.
Lose(s) ==
  /\ request[s] # None
  /\ request' = [request EXCEPT ![s] = None]
  /\ IF CentralUp THEN lost[s] < MaxLost /\ lost' = [lost EXCEPT ![s] = @ + 1]
                  ELSE UNCHANGED lost
  /\ UNCHANGED <<heartbeat, clocks, registered, ticker>>

\* A handler of Central enters the server with the current time.
Enters(s) ==
  /\ CentralUp
  /\ heartbeat' = [heartbeat EXCEPT ![s] = 0]
  /\ request' = [request EXCEPT ![s] = None]
  /\ lost' = [lost EXCEPT ![s] = 0]
  /\ UNCHANGED <<clocks, ticker>>

\* RegisterService.  The job sets its flag when the response reaches it.
RegisterService(s) ==
  /\ request[s] # None /\ request[s].method = "POST"
  /\ Enters(s)
  /\ \/ /\ request[s].awaited
        /\ registered' = [registered EXCEPT ![s] = TRUE]
     \/ UNCHANGED registered

MutantPatchService(s) ==
  /\ request[s] # None /\ request[s].method = "PATCH"
  /\ IF heartbeat[s] # None
       THEN Enters(s)
       ELSE /\ CentralUp
            /\ request' = [request EXCEPT ![s] = None]
            /\ lost' = [lost EXCEPT ![s] = 0]
            /\ UNCHANGED <<heartbeat, clocks, ticker>>
  /\ UNCHANGED registered

\* PatchService: Create first, "incase central restarts", then Patch.
PatchService(s) ==
  /\ request[s] # None /\ request[s].method = "PATCH"
  /\ Enters(s)
  /\ UNCHANGED registered

\* DeleteService, on a request from the server's address: Delete sets the time
\* of the entry, too.
DeleteService(s) ==
  /\ CentralUp /\ Up(s)
  /\ heartbeat[s] # None
  /\ heartbeat' = [heartbeat EXCEPT ![s] = 0]
  /\ UNCHANGED <<clocks, job>>

MutantReadAll ==
  {s \in Server : heartbeat[s] # None}

\* Read: the servers that clients get from GetServices and measure.
Read ==
  {s \in Server : heartbeat[s] # None /\ heartbeat[s] <= Window}
----------------------------------------------------------------------------
\* Processes end and start again, with empty memory.
ServerCrash(s) ==
  /\ Up(s)
  /\ serverFor' = [serverFor EXCEPT ![s] = None]
  /\ downFor' = [downFor EXCEPT ![s] = 0]
  /\ registered' = [registered EXCEPT ![s] = FALSE]
  /\ ticker' = [ticker EXCEPT ![s] = 0]
  /\ request' = [request EXCEPT ![s] = IF @ = None THEN None ELSE Unawaited(@)]
  /\ UNCHANGED <<heartbeat, centralFor, lost>>

ServerStart(s) ==
  /\ ~Up(s)
  /\ serverFor' = [serverFor EXCEPT ![s] = 0]
  /\ downFor' = [downFor EXCEPT ![s] = 0]
  /\ UNCHANGED <<heartbeat, centralFor, job>>

CentralCrash ==
  /\ CentralUp
  /\ centralFor' = None
  /\ heartbeat' = [s \in Server |-> None]
  /\ UNCHANGED <<serverFor, downFor, job>>

CentralStart ==
  /\ ~CentralUp
  /\ centralFor' = 0
  /\ lost' = [s \in Server |-> 0]
  /\ UNCHANGED <<heartbeat, serverFor, downFor, registered, ticker, request>>

Next ==
  \/ Second \/ CentralCrash \/ CentralStart
  \/ \E s \in Server :
       \/ Beat(s) \/ Lose(s) \/ RegisterService(s) \/ PatchService(s)
       \/ DeleteService(s) \/ ServerCrash(s) \/ ServerStart(s)

Spec == Init /\ [][Next]_vars
----------------------------------------------------------------------------
\* Types of the store, the clocks and the heartbeat jobs.
TypeOK ==
  /\ heartbeat \in [Server -> 0..Cap \cup {None}]
  /\ centralFor \in 0..Cap \cup {None}
  /\ serverFor \in [Server -> 0..Cap \cup {None}]
  /\ downFor \in [Server -> 0..Cap]
  /\ registered \in [Server -> BOOLEAN]
  /\ ticker \in [Server -> 0..Interval]
  /\ request \in [Server ->
       [method : {"POST", "PATCH"}, age : 0..MaxDelay, awaited : BOOLEAN] \cup {None}]
  /\ lost \in [Server -> 0..MaxLost]

\* The longest time between two heartbeats that reach Central.
Gap == (MaxLost + 1) * Interval + MaxDelay

\* A server that has been running for long enough, with a Central that has,
\* is listed: a restart of either, and the losses and delays the window allows
\* for, do not take a live server off the list.
LiveServersListed ==
  \A s \in Server :
    (Up(s) /\ serverFor[s] > Gap /\ CentralUp /\ centralFor > Gap) => s \in Read

\* A server that has been down for longer than the window, and the time its
\* last request may take, is off the list.
DeadServersDropped ==
  \A s \in Server : (~Up(s) /\ downFor[s] > Window + MaxDelay) => s \notin Read
============================================================================
