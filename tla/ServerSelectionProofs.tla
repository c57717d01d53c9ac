----------------------- MODULE ServerSelectionProofs -----------------------
(***************************************************************************)
(* TLAPS proofs about compute_optimal_server, for every set of servers,    *)
(* every pair of delay lists and every rounding of the sums of measured    *)
(* delays: the loop keeps LoopInv, and therefore the function returns an   *)
(* optimal server.                                                         *)
(***************************************************************************)
EXTENDS ServerSelection, TLAPS

\* A delay list maps the servers it knows to delays.
LEMMA DelayListEntries ==
  ASSUME NEW d \in DelayList
  PROVE  /\ DOMAIN d \subseteq Server
         /\ \A s \in DOMAIN d : d[s] \in Delay
  BY DEF DelayList

LEMMA DelayTypes ==
  ASSUME NEW x \in Delay
  PROVE  /\ x \in Nat
         /\ x <= MaxFloat32
         /\ x = MaxFloat32 \/ x \in Measured
  BY MaxFloat32Assumption, MeasuredAssumption DEF Delay

\* Latencies of a common server: the worst case stays below MaxFloat64 (the
\* start value of minimum_latency); the sum may be +Inf.
LEMMA LatencyTypes ==
  ASSUME NEW c1 \in DelayList, NEW c2 \in DelayList, NEW s \in Common(c1, c2)
  PROVE  /\ ServerLatency(c1, c2, s) \in Nat
         /\ ServerLatency(c1, c2, s) < MaxFloat64
         /\ CombinedLatency(c1, c2, s) \in Nat
  <1>1. c1[s] \in Delay /\ c2[s] \in Delay
    BY DelayListEntries DEF Common
  <1>2. CombinedLatency(c1, c2, s) \in Nat
    <2>1. CASE c1[s] = MaxFloat32 \/ c2[s] = MaxFloat32
      BY <2>1, MaxFloat32Assumption DEF CombinedLatency, MaxFloat64, Inf
    <2>2. CASE c1[s] # MaxFloat32 /\ c2[s] # MaxFloat32
      <3>1. c1[s] \in Measured /\ c2[s] \in Measured
        BY <1>1, <2>2, DelayTypes
      <3>2. Round(c1[s] + c2[s]) \in Nat
        BY <3>1, RoundAssumption, MaxFloat32Assumption
      <3> QED
        BY <3>2, <2>2 DEF CombinedLatency
    <2> QED
      BY <2>1, <2>2
  <1> QED
    BY <1>1, <1>2, DelayTypes, MaxFloat32Assumption
    DEF Common, ServerLatency, MaxFloat64

LEMMA CommonInServer ==
  ASSUME NEW c1 \in DelayList, NEW c2 \in DelayList
  PROVE  Common(c1, c2) \subseteq Server
  BY DelayListEntries DEF Common

\* compute_optimal_server keeps its locals well typed.
THEOREM TypeCorrect == Spec => []TypeOK
  <1>1. Init => TypeOK
    BY MaxFloat32Assumption DEF Init, TypeOK, MaxFloat64
  <1>2. TypeOK /\ [Next]_vars => TypeOK'
    <2> SUFFICES ASSUME TypeOK, [Next]_vars
                 PROVE  TypeOK'
      OBVIOUS
    <2> USE DEF TypeOK
    <2>1. ASSUME NEW server \in Server, Skip(server)
          PROVE  TypeOK'
      BY <2>1 DEF Skip, Visit, minimums
    <2>2. ASSUME NEW server \in Server, NewMinimum(server)
          PROVE  TypeOK'
      BY <2>2, LatencyTypes
      DEF NewMinimum, Visit, latency, combined_latency
    <2>3. ASSUME NEW server \in Server, Tie(server)
          PROVE  TypeOK'
      BY <2>3 DEF Tie, Visit
    <2>4. ASSUME NEW server \in Server, Worse(server)
          PROVE  TypeOK'
      BY <2>4 DEF Worse, Visit, minimums
    <2>5. CASE Return
      BY <2>5, CommonInServer DEF Return, minimums
    <2>6. CASE UNCHANGED vars
      BY <2>6 DEF vars
    <2> QED
      BY <2>1, <2>2, <2>3, <2>4, <2>5, <2>6 DEF Next
  <1> QED
    BY <1>1, <1>2, PTL DEF Spec

\* What a visit does to the servers seen so far.
LEMMA VisitSeen ==
  ASSUME TypeOK, NEW server, Visit(server)
  PROVE  /\ server \in Common(client1, client2)
              => seen' = seen \cup {server} /\ server \notin seen
         /\ server \notin Common(client1, client2) => seen' = seen
  BY DEF TypeOK, Visit, seen, Common

\* The latencies the loop reads, typed.
LEMMA SeenTypes ==
  ASSUME TypeOK, NEW s \in Common(client1, client2)
  PROVE  /\ latency(s) \in Nat
         /\ latency(s) < MaxFloat64
         /\ combined_latency(s) \in Nat
  BY LatencyTypes DEF TypeOK, latency, combined_latency

\* The inductive step of the loop invariant.
LEMMA LoopInvStep ==
  ASSUME TypeOK, LoopInv, [Next]_vars
  PROVE  LoopInv'
  <1>a. seen \subseteq Common(client1, client2)
    BY DEF seen
  <1>b. MaxFloat64 \in Nat /\ minimum_latency \in Nat
          /\ minimum_combined_latency \in Nat
    BY MaxFloat32Assumption DEF MaxFloat64, TypeOK
  <1>1. ASSUME NEW server \in Server, Visit(server)
        PROVE  /\ pc' # "done"
               /\ \A s : latency(s)' = latency(s)
               /\ \A s : combined_latency(s)' = combined_latency(s)
    BY <1>1 DEF Visit, latency, combined_latency
  <1>2. ASSUME NEW server \in Server, Skip(server)
        PROVE  LoopInv'
    <2>1. seen' = seen /\ Visit(server) /\ UNCHANGED minimums
      BY <1>2, VisitSeen DEF Skip
    <2> QED
      BY <2>1, <1>1 DEF LoopInv, minimums
  <1>3. ASSUME NEW server \in Server, NewMinimum(server)
        PROVE  LoopInv'
    <2>1. /\ Visit(server)
          /\ server \in Common(client1, client2)
          /\ seen' = seen \cup {server}
      BY <1>3, VisitSeen DEF NewMinimum
    <2>2. /\ minimum_latency' = latency(server)
          /\ minimum_combined_latency' = combined_latency(server)
          /\ minimized_latency_servers' = {server}
      BY <1>3 DEF NewMinimum
    <2>3. \A s \in seen :
            \/ latency(server) < latency(s)
            \/ /\ latency(server) = latency(s)
               /\ combined_latency(server) < combined_latency(s)
      <3>1. \A s \in seen :
              \/ minimum_latency < latency(s)
              \/ /\ minimum_latency = latency(s)
                 /\ minimum_combined_latency <= combined_latency(s)
        BY DEF LoopInv
      <3>2. \/ latency(server) < minimum_latency
            \/ /\ latency(server) = minimum_latency
               /\ combined_latency(server) < minimum_combined_latency
        BY <1>3 DEF NewMinimum
      <3>3. /\ latency(server) \in Nat
            /\ combined_latency(server) \in Nat
            /\ \A s \in seen : latency(s) \in Nat /\ combined_latency(s) \in Nat
        BY <2>1, <1>a, SeenTypes
      <3> QED
        BY <3>1, <3>2, <3>3, <1>b
    <2>4. /\ latency(server) \in Nat
          /\ combined_latency(server) \in Nat
          /\ \A s \in seen : latency(s) \in Nat /\ combined_latency(s) \in Nat
      BY <2>1, <1>a, SeenTypes
    <2>5. minimized_latency_servers' =
            {s \in seen' : /\ latency(s)' = minimum_latency'
                           /\ combined_latency(s)' = minimum_combined_latency'}
      BY <2>1, <2>2, <2>3, <2>4, <1>1
    <2>6. \A s \in seen' :
            \/ minimum_latency' < latency(s)'
            \/ /\ minimum_latency' = latency(s)'
               /\ minimum_combined_latency' <= combined_latency(s)'
      BY <2>1, <2>2, <2>3, <2>4, <1>1
    <2> QED
      BY <2>1, <2>2, <2>5, <2>6, <1>1 DEF LoopInv
  <1>4. ASSUME NEW server \in Server, Tie(server)
        PROVE  LoopInv'
    <2>1. /\ Visit(server)
          /\ server \in Common(client1, client2)
          /\ seen' = seen \cup {server}
          /\ server \notin seen
      BY <1>4, VisitSeen DEF Tie
    <2>2. /\ minimum_latency' = minimum_latency
          /\ minimum_combined_latency' = minimum_combined_latency
          /\ minimized_latency_servers' = minimized_latency_servers \cup {server}
          /\ latency(server) = minimum_latency
          /\ combined_latency(server) = minimum_combined_latency
      BY <1>4 DEF Tie
    <2>3. latency(server) < MaxFloat64 /\ latency(server) \in Nat
            /\ combined_latency(server) \in Nat
      BY <2>1, SeenTypes
    <2> QED
      BY <2>1, <2>2, <2>3, <1>1, <1>b DEF LoopInv
  <1>5. ASSUME NEW server \in Server, Worse(server)
        PROVE  LoopInv'
    <2>1. /\ Visit(server)
          /\ server \in Common(client1, client2)
          /\ seen' = seen \cup {server}
      BY <1>5, VisitSeen DEF Worse
    <2>2. /\ minimum_latency' = minimum_latency
          /\ minimum_combined_latency' = minimum_combined_latency
          /\ minimized_latency_servers' = minimized_latency_servers
          /\ \/ latency(server) > minimum_latency
             \/ /\ latency(server) = minimum_latency
                /\ combined_latency(server) > minimum_combined_latency
      BY <1>5 DEF Worse, minimums
    <2>3. latency(server) < MaxFloat64 /\ latency(server) \in Nat
            /\ combined_latency(server) \in Nat
      BY <2>1, SeenTypes
    <2>4. seen # {}
      BY <2>2, <2>3, <1>b DEF LoopInv
    <2> QED
      BY <2>1, <2>2, <2>3, <2>4, <1>1, <1>b DEF LoopInv
  <1>6. CASE Return
    <2>1. /\ seen' = seen
          /\ UNCHANGED <<unvisited, minimums>>
          /\ unvisited = {}
          /\ \A s : latency(s)' = latency(s)
          /\ \A s : combined_latency(s)' = combined_latency(s)
          /\ IF minimized_latency_servers = {}
               THEN result' = NoServerFound
               ELSE result' \in minimized_latency_servers
      BY <1>6 DEF Return, seen, latency, combined_latency
    <2> QED
      BY <2>1 DEF LoopInv, minimums
  <1>7. CASE UNCHANGED vars
    <2>1. /\ seen' = seen
          /\ \A s : latency(s)' = latency(s)
          /\ \A s : combined_latency(s)' = combined_latency(s)
      BY <1>7 DEF vars, seen, latency, combined_latency
    <2> QED
      BY <2>1, <1>7 DEF LoopInv, vars
  <1> QED
    BY <1>2, <1>3, <1>4, <1>5, <1>6, <1>7 DEF Next

\* compute_optimal_server's loop keeps LoopInv in whatever order Go ranges
\* over the map.
THEOREM LoopInvariant == Spec => []LoopInv
  <1>1. Init => LoopInv
    BY DEF Init, LoopInv, seen, Common
  <1> QED
    BY <1>1, LoopInvStep, TypeCorrect, PTL DEF Spec

\* Being at least as good is reflexive and the minimum is at least as good as
\* everything seen: after the loop the candidates are the optimal servers.
LEMMA LoopInvGivesOptimal ==
  ASSUME TypeOK, LoopInv
  PROVE  ReturnsOptimal
  <1> SUFFICES ASSUME pc = "done"
               PROVE  /\ minimized_latency_servers
                           = OptimalServers(client1, client2)
                      /\ IF Common(client1, client2) = {}
                           THEN result = NoServerFound
                           ELSE result \in OptimalServers(client1, client2)
    BY DEF ReturnsOptimal
  <1> DEFINE common == Common(client1, client2)
  <1>1. unvisited = {} /\ seen = common
    BY DEF LoopInv, seen
  <1>2. \A s \in common : latency(s) \in Nat /\ combined_latency(s) \in Nat
    BY SeenTypes
  <1>3. /\ minimum_latency \in Nat
        /\ minimum_combined_latency \in Nat
        /\ minimized_latency_servers =
             {s \in common : /\ latency(s) = minimum_latency
                             /\ combined_latency(s) = minimum_combined_latency}
        /\ \A s \in common :
             \/ minimum_latency < latency(s)
             \/ /\ minimum_latency = latency(s)
                /\ minimum_combined_latency <= combined_latency(s)
        /\ common # {} => minimized_latency_servers # {}
    BY <1>1 DEF LoopInv, TypeOK
  <1>4. OptimalServers(client1, client2) =
          {s \in common : \A t \in common :
             \/ latency(s) < latency(t)
             \/ /\ latency(s) = latency(t)
                /\ combined_latency(s) <= combined_latency(t)}
    BY DEF OptimalServers, AtLeastAsGood, latency, combined_latency
  <1> HIDE DEF common
  <1>5. minimized_latency_servers \subseteq OptimalServers(client1, client2)
    BY <1>2, <1>3, <1>4
  <1>6. OptimalServers(client1, client2) \subseteq minimized_latency_servers
    BY <1>2, <1>3, <1>4
  <1>7. minimized_latency_servers = OptimalServers(client1, client2)
    BY <1>5, <1>6
  <1>8. IF minimized_latency_servers = {}
          THEN result = NoServerFound
          ELSE result \in minimized_latency_servers
    BY DEF LoopInv
  <1>9. minimized_latency_servers = {} <=> common = {}
    BY <1>3
  <1> QED
    BY <1>7, <1>8, <1>9 DEF common

\* Whatever the delay lists and the map's iteration order, the function fails
\* exactly when no server is common and otherwise returns an optimal one.
THEOREM SelectionCorrect == Spec => []ReturnsOptimal
  BY TypeCorrect, LoopInvariant, LoopInvGivesOptimal, PTL

\* compute_optimal_server returns a server that one of the clients reports as
\* unreachable only when none is within reach of both, and one unreachable for
\* both only when all are.
THEOREM UnreachableLast == Spec => []UnreachableIsLastResort
  <1>1. TypeOK /\ ReturnsOptimal => UnreachableIsLastResort
    <2> SUFFICES ASSUME TypeOK, ReturnsOptimal, pc = "done",
                        NEW r \in Common(client1, client2)
                 PROVE  /\ result \in Common(client1, client2)
                        /\ client1[r] < MaxFloat32 /\ client2[r] < MaxFloat32
                             => /\ client1[result] < MaxFloat32
                                /\ client2[result] < MaxFloat32
                        /\ client1[r] < MaxFloat32 \/ client2[r] < MaxFloat32
                             => \/ client1[result] < MaxFloat32
                                \/ client2[result] < MaxFloat32
      BY DEF UnreachableIsLastResort
    <2>1. /\ result \in Common(client1, client2)
          /\ AtLeastAsGood(client1, client2, result, r)
      BY DEF ReturnsOptimal, OptimalServers
    <2>2. /\ client1[r] \in Delay /\ client2[r] \in Delay
          /\ client1[result] \in Delay /\ client2[result] \in Delay
      BY <2>1, DelayListEntries DEF TypeOK, Common
    <2>3. ASSUME NEW s \in Common(client1, client2),
                 client1[s] \in Delay, client2[s] \in Delay
          PROVE  /\ latency(s) \in Nat
                 /\ combined_latency(s) \in Nat
                 /\ latency(s) = MaxFloat32
                      <=> client1[s] = MaxFloat32 \/ client2[s] = MaxFloat32
                 /\ latency(s) <= MaxFloat32
                 /\ client1[s] = MaxFloat32 /\ client2[s] = MaxFloat32
                      => combined_latency(s) = Inf
                 /\ client1[s] # MaxFloat32 \/ client2[s] # MaxFloat32
                      => combined_latency(s) <= MaxFloat32
      <3>1. latency(s) \in Nat /\ combined_latency(s) \in Nat
        BY SeenTypes
      <3>2. /\ latency(s) = MaxFloat32
                 <=> client1[s] = MaxFloat32 \/ client2[s] = MaxFloat32
            /\ latency(s) <= MaxFloat32
        BY <2>3, DelayTypes, MaxFloat32Assumption
        DEF latency, ServerLatency, Common
      <3>3. client1[s] = MaxFloat32 /\ client2[s] = MaxFloat32
              => combined_latency(s) = Inf
        BY DEF combined_latency, CombinedLatency
      <3>4. ASSUME client1[s] # MaxFloat32 \/ client2[s] # MaxFloat32
            PROVE  combined_latency(s) <= MaxFloat32
        <4>1. CASE client1[s] = MaxFloat32 \/ client2[s] = MaxFloat32
          BY <3>4, <4>1, MaxFloat32Assumption
          DEF combined_latency, CombinedLatency
        <4>2. CASE client1[s] # MaxFloat32 /\ client2[s] # MaxFloat32
          <5>1. client1[s] \in Measured /\ client2[s] \in Measured
            BY <2>3, <4>2, DelayTypes
          <5>2. Round(client1[s] + client2[s]) <= MaxFloat32
            BY <5>1, RoundAssumption, MaxFloat32Assumption
          <5> QED
            BY <5>2, <4>2 DEF combined_latency, CombinedLatency
        <4> QED
          BY <4>1, <4>2
      <3> QED
        BY <3>1, <3>2, <3>3, <3>4
    <2>4. \/ latency(result) < latency(r)
          \/ /\ latency(result) = latency(r)
             /\ combined_latency(result) <= combined_latency(r)
      BY <2>1 DEF AtLeastAsGood, latency, combined_latency
    <2>5. /\ Inf > MaxFloat32
          /\ \A x \in Delay : x < MaxFloat32 <=> x # MaxFloat32
      BY DelayTypes, MaxFloat32Assumption DEF Inf, MaxFloat64
    <2> HIDE DEF latency, combined_latency
    <2>6. client1[r] # MaxFloat32 /\ client2[r] # MaxFloat32
            => client1[result] # MaxFloat32 /\ client2[result] # MaxFloat32
      <3>1. /\ latency(r) = MaxFloat32
                 <=> client1[r] = MaxFloat32 \/ client2[r] = MaxFloat32
            /\ latency(result) = MaxFloat32
                 <=> client1[result] = MaxFloat32 \/ client2[result] = MaxFloat32
            /\ latency(r) \in Nat /\ latency(result) \in Nat
            /\ latency(r) <= MaxFloat32
        BY <2>1, <2>2, <2>3
      <3> QED
        BY <3>1, <2>4, MaxFloat32Assumption
    <2>7. client1[r] # MaxFloat32 \/ client2[r] # MaxFloat32
            => client1[result] # MaxFloat32 \/ client2[result] # MaxFloat32
      <3>1. /\ client1[r] # MaxFloat32 \/ client2[r] # MaxFloat32
                 => combined_latency(r) <= MaxFloat32
            /\ client1[result] = MaxFloat32 /\ client2[result] = MaxFloat32
                 => /\ combined_latency(result) = Inf
                    /\ latency(result) = MaxFloat32
            /\ latency(r) \in Nat /\ combined_latency(r) \in Nat
            /\ latency(r) <= MaxFloat32
            /\ combined_latency(result) \in Nat
        BY <2>1, <2>2, <2>3
      <3> QED
        BY <3>1, <2>4, <2>5, MaxFloat32Assumption
    <2> QED
      BY <2>1, <2>2, <2>5, <2>6, <2>7
  <1> QED
    BY <1>1, TypeCorrect, SelectionCorrect, PTL
============================================================================
