----------------------- MODULE ServiceRegistryProofs -----------------------
(***************************************************************************)
(* The timing of service discovery for any number of servers, any interval *)
(* of the heartbeat job, any window of Central's list and any delays and   *)
(* losses that fit into it.                                                *)
(***************************************************************************)
EXTENDS ServiceRegistry, TLAPS

USE IntervalAssumption, DelayAssumption, MaxLostAssumption, NoneAssumption

\* A request that is on its way was sent after the ticker last fired, or
\* before the server ended: the ticker is not ahead of its age, and neither is
\* the time for which the server has been down.
RequestOK(s) ==
  request[s] # None =>
    /\ ticker[s] <= request[s].age
    /\ ~Up(s) => downFor[s] <= request[s].age

\* Central's entry of a server that is down is older than the server's end,
\* but for the delay of its last request.
DownOK(s) ==
  (~Up(s) /\ heartbeat[s] # None) => downFor[s] <= heartbeat[s] + MaxDelay

\* What the heartbeat job has let pass: an interval for each request that was
\* lost and for the one on its way, and the time since the ticker fired.
Allowance(s) ==
  lost[s] * Interval + ticker[s] + (IF request[s] # None THEN Interval ELSE 0)

\* While server and Central run, one of three things is no older than that:
\* the server's entry, the server or Central.
LiveOK(s) ==
  (Up(s) /\ CentralUp) =>
    \/ heartbeat[s] # None /\ heartbeat[s] <= Allowance(s)
    \/ serverFor[s] <= Allowance(s)
    \/ centralFor <= Allowance(s)

RegistryInv == \A s \in Server : RequestOK(s) /\ DownOK(s) /\ LiveOK(s)
----------------------------------------------------------------------------
\* A clock goes on by one second, or has stopped at Cap.
LEMMA OlderBounds ==
  ASSUME NEW age \in 0..Cap \cup {None}
  PROVE  /\ Older(age) \in 0..Cap \cup {None}
         /\ Older(age) = None <=> age = None
         /\ age # None => Older(age) <= age + 1 /\ age <= Older(age)
         /\ age # None => Older(age) = age + 1 \/ Older(age) = Cap
BY DEF Older, Cap

\* Products with the interval, as the provers need them.
LEMMA Intervals ==
  ASSUME NEW n \in Nat
  PROVE  n * Interval \in Nat /\ (n + 1) * Interval = n * Interval + Interval
OBVIOUS

LEMMA IntervalsMonotonic ==
  ASSUME NEW n \in Nat, NEW m \in Nat, n <= m
  PROVE  n * Interval <= m * Interval
OBVIOUS

\* Every step keeps the types: no ticker passes its interval and no request
\* its delay.
LEMMA TypeStep ==
  ASSUME TypeOK, [Next]_vars
  PROVE  TypeOK'
<1> USE DEF TypeOK
<1>1. CASE UNCHANGED vars
  BY <1>1 DEF vars, clocks, job
<1>2. CASE Second
  <2>1. /\ \A s \in Server : Older(heartbeat[s]) \in 0..Cap \cup {None}
        /\ \A s \in Server : Older(serverFor[s]) \in 0..Cap \cup {None}
        /\ \A s \in Server : Older(downFor[s]) \in 0..Cap
        /\ Older(centralFor) \in 0..Cap \cup {None}
    <3>1. \A s \in Server : Older(downFor[s]) \in 0..Cap
      <4> TAKE s \in Server
      <4>1. downFor[s] \in 0..Cap /\ downFor[s] # None
        BY DEF Cap
      <4> QED
        BY <4>1, OlderBounds
    <3> QED
      BY <3>1, OlderBounds
  <2>2. heartbeat' \in [Server -> 0..Cap \cup {None}] /\ centralFor' \in 0..Cap \cup {None}
    BY <1>2, <2>1 DEF Second
  <2>3. serverFor' \in [Server -> 0..Cap \cup {None}] /\ downFor' \in [Server -> 0..Cap]
    BY <1>2, <2>1 DEF Second, Cap
  <2>4. ticker' \in [Server -> 0..Interval]
    BY <1>2 DEF Second
  <2>5. request' \in [Server ->
       [method : {"POST", "PATCH"}, age : 0..MaxDelay, awaited : BOOLEAN] \cup {None}]
    BY <1>2 DEF Second, OneSecondOn, Request
  <2> QED
    BY <1>2, <2>2, <2>3, <2>4, <2>5 DEF Second
<1>3. CASE CentralCrash
  BY <1>3 DEF CentralCrash, job
<1>4. CASE CentralStart
  BY <1>4 DEF CentralStart, Cap
<1>5. ASSUME NEW s \in Server, Beat(s)
      PROVE  TypeOK'
  BY <1>5 DEF Beat, Request, clocks
<1>6. ASSUME NEW s \in Server, Lose(s)
      PROVE  TypeOK'
  BY <1>6 DEF Lose, clocks
<1>7. ASSUME NEW s \in Server, RegisterService(s) \/ PatchService(s)
      PROVE  TypeOK'
  <2>1. /\ heartbeat' = [heartbeat EXCEPT ![s] = 0]
        /\ request' = [request EXCEPT ![s] = None]
        /\ lost' = [lost EXCEPT ![s] = 0]
        /\ UNCHANGED <<centralFor, serverFor, downFor, ticker>>
    BY <1>7 DEF RegisterService, PatchService, Enters, clocks
  <2>2. registered' = registered \/ registered' = [registered EXCEPT ![s] = TRUE]
    BY <1>7 DEF RegisterService, PatchService
  <2>3. registered' \in [Server -> BOOLEAN]
    BY <2>2
  <2>4. heartbeat' \in [Server -> 0..Cap \cup {None}] /\ lost' \in [Server -> 0..MaxLost]
    BY <2>1 DEF Cap
  <2>5. request' \in [Server ->
       [method : {"POST", "PATCH"}, age : 0..MaxDelay, awaited : BOOLEAN] \cup {None}]
    BY <2>1
  <2> QED
    BY <2>1, <2>3, <2>4, <2>5
<1>8. ASSUME NEW s \in Server, DeleteService(s)
      PROVE  TypeOK'
  BY <1>8 DEF DeleteService, clocks, job, Cap
<1>9. ASSUME NEW s \in Server, ServerCrash(s)
      PROVE  TypeOK'
  BY <1>9 DEF ServerCrash, Unawaited, Request, Cap
<1>10. ASSUME NEW s \in Server, ServerStart(s)
       PROVE  TypeOK'
  BY <1>10 DEF ServerStart, job, Cap
<1> QED
  BY <1>1, <1>2, <1>3, <1>4, <1>5, <1>6, <1>7, <1>8, <1>9, <1>10 DEF Next

\* A second takes the clocks, the tickers and the requests on together.
LEMMA SecondStep ==
  ASSUME TypeOK, TypeOK', Second, NEW s \in Server, RequestOK(s), DownOK(s), LiveOK(s)
  PROVE  RequestOK(s)' /\ DownOK(s)' /\ LiveOK(s)'
<1> DEFINE h == heartbeat[s]  c == centralFor  f == serverFor[s]  d == downFor[s]
<1>1. /\ h \in 0..Cap \cup {None} /\ c \in 0..Cap \cup {None}
      /\ f \in 0..Cap \cup {None} /\ d \in 0..Cap /\ d \in 0..Cap \cup {None} /\ d # None
      /\ ticker[s] \in Nat /\ lost[s] \in Nat /\ Cap \in Nat
  BY DEF TypeOK, Cap
<1>2. /\ heartbeat'[s] = Older(h) /\ centralFor' = Older(c) /\ serverFor'[s] = Older(f)
      /\ downFor'[s] = IF Up(s) THEN 0 ELSE Older(d)
      /\ ticker'[s] = IF Up(s) THEN ticker[s] + 1 ELSE 0
      /\ request'[s] = IF request[s] = None THEN None ELSE OneSecondOn(request[s])
      /\ lost'[s] = lost[s]
  BY DEF Second, TypeOK
<1>3. (Up(s)' <=> Up(s)) /\ (CentralUp' <=> CentralUp)
  BY <1>1, <1>2, OlderBounds DEF Up, CentralUp
<1>4. request[s] # None => /\ request[s].age \in Nat /\ request[s].age < MaxDelay
                           /\ request'[s] # None
                           /\ request'[s].age = request[s].age + 1
  BY <1>2 DEF TypeOK, Second, OneSecondOn, Request
<1>5. request'[s] # None => request[s] # None
  BY <1>2
<1>6. RequestOK(s)'
  <2>1. ~Up(s) => Older(d) <= d + 1
    BY <1>1, OlderBounds
  <2>2. Older(d) \in Nat
    BY <1>1, OlderBounds
  <2> QED
    BY <1>1, <1>2, <1>3, <1>4, <1>5, <2>1, <2>2 DEF RequestOK
<1>7. DownOK(s)'
  <2> SUFFICES ASSUME ~Up(s), h # None
               PROVE  Older(d) <= Older(h) + MaxDelay
    BY <1>1, <1>2, <1>3, OlderBounds DEF DownOK
  <2>1. /\ Older(d) \in 0..Cap /\ Older(d) <= d + 1
        /\ Older(h) \in 0..Cap /\ (Older(h) = h + 1 \/ Older(h) = Cap)
    BY <1>1, OlderBounds
  <2> QED
    BY <1>1, <2>1 DEF DownOK
<1>8. LiveOK(s)'
  <2> SUFFICES ASSUME Up(s), CentralUp
               PROVE  LiveOK(s)'
    BY <1>3 DEF LiveOK
  <2>1. Allowance(s) \in Nat /\ Allowance(s)' = Allowance(s) + 1
    <3>1. lost[s] * Interval \in Nat
      BY <1>1, Intervals
    <3>2. (request'[s] # None) <=> (request[s] # None)
      BY <1>4, <1>5
    <3> QED
      BY <1>1, <1>2, <3>1, <3>2 DEF Allowance
  <2>2. /\ h # None => Older(h) # None /\ Older(h) \in Nat /\ h \in Nat /\ Older(h) <= h + 1
        /\ Older(f) \in Nat /\ f \in Nat /\ Older(f) <= f + 1
        /\ Older(c) \in Nat /\ c \in Nat /\ Older(c) <= c + 1
    BY <1>1, OlderBounds DEF Up, CentralUp
  <2> QED
    BY <1>2, <2>1, <2>2 DEF LiveOK
<1> QED
  BY <1>6, <1>7, <1>8

\* Heartbeats that are sent, lost or handled: each moves the allowance and the
\* entry's age together.
LEMMA BeatStep ==
  ASSUME TypeOK, NEW s \in Server, NEW x \in Server, Beat(x),
         RequestOK(s), DownOK(s), LiveOK(s)
  PROVE  RequestOK(s)' /\ DownOK(s)' /\ LiveOK(s)'
<1>1. /\ ticker[s] \in Nat /\ lost[s] \in Nat /\ lost[s] * Interval \in Nat
      /\ UNCHANGED <<heartbeat, centralFor, serverFor, downFor, lost>>
  BY Intervals DEF TypeOK, Beat, clocks
<1>2. CASE s # x
  <2>1. ticker'[s] = ticker[s] /\ request'[s] = request[s]
    BY <1>2 DEF Beat, TypeOK
  <2> QED
    BY <1>1, <2>1 DEF RequestOK, DownOK, LiveOK, Allowance, Up, CentralUp
<1>3. CASE s = x
  <2>1. /\ ticker[s] = Interval /\ request[s] = None /\ Up(s)
        /\ ticker'[s] = 0 /\ request'[s] # None /\ request'[s].age = 0
    <3>1. PICK m \in {"POST", "PATCH"} : request'[s] = [method |-> m, age |-> 0, awaited |-> TRUE]
      BY <1>3 DEF Beat, TypeOK, Request
    <3>2. [method |-> m, age |-> 0, awaited |-> TRUE]
            \in [method : {"POST", "PATCH"}, age : Nat, awaited : BOOLEAN]
      BY Zenon
    <3>3. request'[s] # None
      BY <3>1, <3>2, Zenon
    <3>4. request'[s].age = 0
      BY <3>1
    <3> QED
      BY <1>3, <3>3, <3>4 DEF Beat, TypeOK
  <2>2. Allowance(s)' = Allowance(s)
    BY <1>1, <2>1 DEF Allowance
  <2> QED
    BY <1>1, <2>1, <2>2 DEF RequestOK, DownOK, LiveOK, Up, CentralUp
<1> QED
  BY <1>2, <1>3

LEMMA LoseStep ==
  ASSUME TypeOK, NEW s \in Server, NEW x \in Server, Lose(x),
         RequestOK(s), DownOK(s), LiveOK(s)
  PROVE  RequestOK(s)' /\ DownOK(s)' /\ LiveOK(s)'
<1>1. /\ ticker[s] \in Nat /\ lost[s] \in Nat
      /\ lost[s] * Interval \in Nat /\ (lost[s] + 1) * Interval = lost[s] * Interval + Interval
      /\ UNCHANGED <<heartbeat, centralFor, serverFor, downFor, ticker>>
  BY Intervals DEF TypeOK, Lose, clocks
<1>2. CASE s # x
  <2>1. lost'[s] = lost[s] /\ request'[s] = request[s]
    BY <1>2 DEF Lose, TypeOK
  <2> QED
    BY <1>1, <2>1 DEF RequestOK, DownOK, LiveOK, Allowance, Up, CentralUp
<1>3. CASE s = x
  <2>1. request[s] # None /\ request'[s] = None
    BY <1>3 DEF Lose, TypeOK
  <2>2. CentralUp => lost'[s] = lost[s] + 1
    BY <1>3 DEF Lose, TypeOK
  <2>3. CentralUp => Allowance(s)' = Allowance(s)
    BY <1>1, <2>1, <2>2 DEF Allowance
  <2> QED
    BY <1>1, <2>1, <2>3 DEF RequestOK, DownOK, LiveOK, Up, CentralUp
<1> QED
  BY <1>2, <1>3

\* RegisterService and PatchService enter the server with age 0; one that has
\* gone down meanwhile has been down for less than the request took.
LEMMA EntersStep ==
  ASSUME TypeOK, NEW s \in Server, NEW x \in Server, request[x] # None, Enters(x),
         RequestOK(s), DownOK(s), LiveOK(s)
  PROVE  RequestOK(s)' /\ DownOK(s)' /\ LiveOK(s)'
<1>1. /\ ticker[s] \in Nat /\ lost[s] \in Nat /\ downFor[s] \in Nat
      /\ UNCHANGED <<centralFor, serverFor, downFor, ticker>>
  BY DEF TypeOK, Enters, clocks, Cap
<1>2. CASE s # x
  <2>1. lost'[s] = lost[s] /\ request'[s] = request[s] /\ heartbeat'[s] = heartbeat[s]
    BY <1>2 DEF Enters, TypeOK
  <2> QED
    BY <1>1, <2>1 DEF RequestOK, DownOK, LiveOK, Allowance, Up, CentralUp
<1>3. CASE s = x
  <2>1. request'[s] = None /\ heartbeat'[s] = 0 /\ lost'[s] = 0
    BY <1>3 DEF Enters, TypeOK
  <2>2. request[s].age \in Nat /\ request[s].age <= MaxDelay
    BY <1>3 DEF TypeOK
  <2>3. 0 <= Allowance(s)'
    BY <1>1, <2>1 DEF Allowance
  <2> QED
    BY <1>1, <1>3, <2>1, <2>2, <2>3 DEF RequestOK, DownOK, LiveOK, Up
<1> QED
  BY <1>2, <1>3

\* A request to delete a server only makes its entry younger.
LEMMA DeleteStep ==
  ASSUME TypeOK, NEW s \in Server, NEW x \in Server, DeleteService(x),
         RequestOK(s), DownOK(s), LiveOK(s)
  PROVE  RequestOK(s)' /\ DownOK(s)' /\ LiveOK(s)'
<1>1. /\ lost[s] * Interval \in Nat /\ ticker[s] \in Nat
      /\ UNCHANGED <<centralFor, serverFor, downFor, ticker, request, lost>>
  BY Intervals DEF TypeOK, DeleteService, clocks, job
<1>2. Allowance(s)' = Allowance(s) /\ 0 <= Allowance(s)
  BY <1>1 DEF Allowance
<1>3. heartbeat'[s] = heartbeat[s] \/ (heartbeat'[s] = 0 /\ Up(s))
  BY DEF DeleteService, TypeOK
<1> QED
  BY <1>1, <1>2, <1>3 DEF RequestOK, DownOK, LiveOK, Up, CentralUp

\* Ends and starts of a server.
LEMMA ServerStep ==
  ASSUME TypeOK, NEW s \in Server, NEW x \in Server, ServerCrash(x) \/ ServerStart(x),
         RequestOK(s), DownOK(s), LiveOK(s)
  PROVE  RequestOK(s)' /\ DownOK(s)' /\ LiveOK(s)'
<1>1. /\ lost[s] * Interval \in Nat /\ ticker[s] \in Nat
      /\ UNCHANGED <<heartbeat, centralFor, lost>>
  BY Intervals DEF TypeOK, ServerCrash, ServerStart, job
<1>2. CASE s # x
  <2>1. /\ serverFor'[s] = serverFor[s] /\ downFor'[s] = downFor[s]
        /\ ticker'[s] = ticker[s] /\ request'[s] = request[s]
    BY <1>2 DEF ServerCrash, ServerStart, TypeOK, job
  <2> QED
    BY <1>1, <2>1 DEF RequestOK, DownOK, LiveOK, Allowance, Up, CentralUp
<1>3. CASE s = x /\ ServerCrash(x)
  <2>1. /\ serverFor'[s] = None /\ downFor'[s] = 0 /\ ticker'[s] = 0
        /\ request'[s] = IF request[s] = None THEN None ELSE Unawaited(request[s])
    BY <1>3 DEF ServerCrash, TypeOK
  <2>2. request[s] # None => request[s].age \in Nat /\ request'[s].age = request[s].age
    BY <2>1 DEF TypeOK, Unawaited, Request
  <2>3. heartbeat[s] # None => heartbeat[s] \in Nat
    BY DEF TypeOK, Cap
  <2> QED
    BY <1>1, <2>1, <2>2, <2>3 DEF RequestOK, DownOK, LiveOK, Up
<1>4. CASE s = x /\ ServerStart(x)
  <2>1. serverFor'[s] = 0 /\ ticker'[s] = ticker[s] /\ request'[s] = request[s]
    BY <1>4 DEF ServerStart, TypeOK, job
  <2>2. 0 <= Allowance(s)'
    BY <1>1, <2>1 DEF Allowance
  <2> QED
    BY <1>1, <2>1, <2>2 DEF RequestOK, DownOK, LiveOK, Up
<1> QED
  BY <1>2, <1>3, <1>4

\* Ends and starts of Central.
LEMMA CentralStep ==
  ASSUME TypeOK, NEW s \in Server, CentralCrash \/ CentralStart,
         RequestOK(s), DownOK(s), LiveOK(s)
  PROVE  RequestOK(s)' /\ DownOK(s)' /\ LiveOK(s)'
<1>1. ticker[s] \in Nat /\ UNCHANGED <<serverFor, downFor, ticker, request>>
  BY DEF TypeOK, CentralCrash, CentralStart, job
<1>2. CASE CentralCrash
  <2>1. centralFor' = None /\ heartbeat'[s] = None
    BY <1>2 DEF CentralCrash
  <2> QED
    BY <1>1, <2>1 DEF RequestOK, DownOK, LiveOK, Up, CentralUp
<1>3. CASE CentralStart
  <2>1. centralFor' = 0 /\ heartbeat' = heartbeat /\ lost'[s] = 0
    BY <1>3 DEF CentralStart
  <2>2. 0 <= Allowance(s)'
    BY <1>1, <2>1 DEF Allowance
  <2> QED
    BY <1>1, <2>1, <2>2 DEF RequestOK, DownOK, LiveOK, Up
<1> QED
  BY <1>2, <1>3

LEMMA RegistryStep ==
  ASSUME TypeOK, RegistryInv, [Next]_vars
  PROVE  RegistryInv'
<1> SUFFICES ASSUME NEW s \in Server
             PROVE  RequestOK(s)' /\ DownOK(s)' /\ LiveOK(s)'
  BY DEF RegistryInv
<1>1. RequestOK(s) /\ DownOK(s) /\ LiveOK(s)
  BY DEF RegistryInv
<1>2. TypeOK'
  BY TypeStep
<1>3. CASE UNCHANGED vars
  BY <1>1, <1>3 DEF vars, clocks, job, RequestOK, DownOK, LiveOK, Allowance, Up, CentralUp
<1>4. CASE Second
  BY <1>1, <1>2, <1>4, SecondStep
<1>5. CASE CentralCrash \/ CentralStart
  BY <1>1, <1>5, CentralStep
<1>6. ASSUME NEW x \in Server, RegisterService(x) \/ PatchService(x)
      PROVE  RequestOK(s)' /\ DownOK(s)' /\ LiveOK(s)'
  BY <1>1, <1>6, EntersStep DEF RegisterService, PatchService
<1> QED
  BY <1>1, <1>3, <1>4, <1>5, <1>6, BeatStep, LoseStep, DeleteStep, ServerStep DEF Next
----------------------------------------------------------------------------
\* The store, the clocks and the heartbeat jobs keep their types: no request
\* outlives its delay and no ticker its interval.
THEOREM TypeCorrect == Spec => []TypeOK
<1>1. Init => TypeOK
  BY DEF Init, TypeOK, Cap
<1> QED
  BY <1>1, TypeStep, PTL DEF Spec

\* The inductive invariant.
LEMMA RegistryInvariant == Spec => []RegistryInv
<1>1. Init => RegistryInv
  <2> SUFFICES ASSUME Init, NEW s \in Server
               PROVE  RequestOK(s) /\ DownOK(s) /\ LiveOK(s)
    BY DEF RegistryInv
  <2>1. Allowance(s) = 0
    BY DEF Init, Allowance
  <2> QED
    BY <2>1 DEF Init, RequestOK, DownOK, LiveOK
<1> QED
  BY <1>1, TypeCorrect, RegistryStep, PTL DEF Spec

\* A server that has been down for longer than the window and the delay of a
\* request is not listed by Read, whatever was lost or restarted.
THEOREM DeadDropped == Spec => []DeadServersDropped
<1>1. TypeOK /\ RegistryInv => DeadServersDropped
  BY DEF TypeOK, RegistryInv, DownOK, DeadServersDropped, Read, Cap
<1> QED
  BY <1>1, TypeCorrect, RegistryInvariant, PTL

\* If the longest time between two heartbeats that reach Central fits the
\* window, a server that runs with a running Central is listed by Read, however
\* heartbeats are delayed or lost and whoever has restarted before.
THEOREM LiveListed ==
  ASSUME Gap <= Window
  PROVE  Spec => []LiveServersListed
<1>1. TypeOK /\ RegistryInv => LiveServersListed
  <2> SUFFICES ASSUME TypeOK, RegistryInv, NEW s \in Server,
                      Up(s), serverFor[s] > Gap, CentralUp, centralFor > Gap
               PROVE  s \in Read
    BY DEF LiveServersListed
  <2>1. /\ lost[s] \in Nat /\ lost[s] <= MaxLost /\ ticker[s] \in Nat /\ ticker[s] <= Interval
        /\ serverFor[s] \in Nat /\ centralFor \in Nat
        /\ heartbeat[s] # None => heartbeat[s] \in Nat
    BY DEF TypeOK, Up, CentralUp, Cap
  <2>2. request[s] # None => ticker[s] <= MaxDelay
    BY <2>1 DEF TypeOK, RegistryInv, RequestOK
  <2>3. Allowance(s) \in Nat /\ Allowance(s) <= Gap /\ Gap \in Nat
    <3>1. /\ lost[s] * Interval \in Nat /\ MaxLost * Interval \in Nat
          /\ lost[s] * Interval <= MaxLost * Interval
          /\ (MaxLost + 1) * Interval = MaxLost * Interval + Interval
      BY <2>1, Intervals, IntervalsMonotonic
    <3> QED
      BY <2>1, <2>2, <3>1 DEF Allowance, Gap
  <2>4. heartbeat[s] # None /\ heartbeat[s] <= Allowance(s)
    BY <2>1, <2>3 DEF RegistryInv, LiveOK
  <2> QED
    BY <2>1, <2>3, <2>4 DEF Read
<1> QED
  BY <1>1, TypeCorrect, RegistryInvariant, PTL
============================================================================
