-------------------------- MODULE ServerSelection --------------------------
(***************************************************************************)
(* compute_optimal_server (Central/internal/matchmaking/matchmaking.go),   *)
(* one step per iteration of its main loop.  Go ranges over a map in an    *)
(* unspecified order: each step takes any server not visited yet.          *)
(***************************************************************************)
EXTENDS Selection

CONSTANT NoServerFound   \* the error value of the function

ASSUME NoServerFoundAssumption == NoServerFound \notin Server

VARIABLES
  client1, client2,           \* the two delay lists
  unvisited,                  \* keys of serverLatency the loop has yet to visit
  minimum_latency,
  minimum_combined_latency,
  minimized_latency_servers,  \* a set: the order of the Go slice is irrelevant
  result,                     \* what the function returned
  pc

vars == <<client1, client2, unvisited, minimum_latency,
          minimum_combined_latency, minimized_latency_servers, result, pc>>

minimums == <<minimum_latency, minimum_combined_latency,
              minimized_latency_servers>>

Init ==
  /\ client1 \in DelayList
  /\ client2 \in DelayList
  /\ unvisited = DOMAIN client1 \cup DOMAIN client2
  /\ minimum_latency = MaxFloat64
  /\ minimum_combined_latency = MaxFloat64
  /\ minimized_latency_servers = {}
  /\ result = NoServerFound
  /\ pc = "loop"

latency(server) == ServerLatency(client1, client2, server)

combined_latency(server) == CombinedLatency(client1, client2, server)

\* The loop takes server next.
Visit(server) ==
  /\ pc = "loop"
  /\ server \in unvisited
  /\ unvisited' = unvisited \ {server}
  /\ UNCHANGED <<client1, client2, result, pc>>

\* One of the clients does not know the server: continue.
Skip(server) ==
  /\ Visit(server)
  /\ server \notin Common(client1, client2)
  /\ UNCHANGED minimums

MutantNewMinimum(server) ==
  /\ Visit(server)
  /\ server \in Common(client1, client2)
  /\ \/ latency(server) < minimum_latency
     \/ /\ latency(server) = minimum_latency
        /\ combined_latency(server) < minimum_combined_latency
  /\ minimum_latency' = latency(server)
  /\ minimum_combined_latency' = combined_latency(server)
  /\ minimized_latency_servers' = minimized_latency_servers \cup {server}

\* A smaller worst case, or the same and a smaller sum: the list starts afresh.
NewMinimum(server) ==
  /\ Visit(server)
  /\ server \in Common(client1, client2)
  /\ \/ latency(server) < minimum_latency
     \/ /\ latency(server) = minimum_latency
        /\ combined_latency(server) < minimum_combined_latency
  /\ minimum_latency' = latency(server)
  /\ minimum_combined_latency' = combined_latency(server)
  /\ minimized_latency_servers' = {server}

\* As good as the best so far: added to the list.
Tie(server) ==
  /\ Visit(server)
  /\ server \in Common(client1, client2)
  /\ latency(server) = minimum_latency
  /\ combined_latency(server) = minimum_combined_latency
  /\ minimized_latency_servers' = minimized_latency_servers \cup {server}
  /\ UNCHANGED <<minimum_latency, minimum_combined_latency>>

\* None of the three branches applies.
Worse(server) ==
  /\ Visit(server)
  /\ server \in Common(client1, client2)
  /\ \/ latency(server) > minimum_latency
     \/ /\ latency(server) = minimum_latency
        /\ combined_latency(server) > minimum_combined_latency
  /\ UNCHANGED minimums

\* The error when the list is empty, else one of its servers at random.
Return ==
  /\ pc = "loop"
  /\ unvisited = {}
  /\ pc' = "done"
  /\ IF minimized_latency_servers = {}
       THEN result' = NoServerFound
       ELSE result' \in minimized_latency_servers
  /\ UNCHANGED <<client1, client2, unvisited, minimums>>

Next ==
  \/ \E server \in Server :
       Skip(server) \/ NewMinimum(server) \/ Tie(server) \/ Worse(server)
  \/ Return

Spec == Init /\ [][Next]_vars
----------------------------------------------------------------------------
\* Types of the locals of compute_optimal_server; the candidates are servers
\* both clients know.
TypeOK ==
  /\ client1 \in DelayList
  /\ client2 \in DelayList
  /\ unvisited \subseteq DOMAIN client1 \cup DOMAIN client2
  /\ minimum_latency \in Nat
  /\ minimum_combined_latency \in Nat
  /\ minimized_latency_servers \subseteq Common(client1, client2)
  /\ result \in Server \cup {NoServerFound}
  /\ pc \in {"loop", "done"}

\* The common servers the loop has visited.
seen == Common(client1, client2) \ unvisited

\* The inductive invariant of the loop: the two minimums bound every server
\* seen so far, and the list holds exactly the seen servers that attain them.
LoopInv ==
  /\ seen = {} => minimum_latency = MaxFloat64
  /\ seen # {} => minimized_latency_servers # {}
  /\ minimized_latency_servers =
       {s \in seen : /\ latency(s) = minimum_latency
                     /\ combined_latency(s) = minimum_combined_latency}
  /\ \A s \in seen :
       \/ minimum_latency < latency(s)
       \/ /\ minimum_latency = latency(s)
          /\ minimum_combined_latency <= combined_latency(s)
  /\ pc = "done" =>
       /\ unvisited = {}
       /\ IF minimized_latency_servers = {}
            THEN result = NoServerFound
            ELSE result \in minimized_latency_servers

\* Whatever the order in which Go ranges over the map, compute_optimal_server
\* fails exactly when the clients have no server in common, and otherwise
\* picks from all of the optimal servers and nothing else.
ReturnsOptimal ==
  pc = "done" =>
    /\ minimized_latency_servers = OptimalServers(client1, client2)
    /\ IF Common(client1, client2) = {}
         THEN result = NoServerFound
         ELSE result \in OptimalServers(client1, client2)

\* A server that one of the clients cannot reach (MaxFloat32) is never returned
\* while another one is within reach of both, and one that neither can reach
\* (MaxFloat32 twice, a sum of +Inf) only when all are out of reach of both.
UnreachableIsLastResort ==
  LET reachable == {s \in Common(client1, client2) :
                      client1[s] < MaxFloat32 /\ client2[s] < MaxFloat32}
      halfReachable == {s \in Common(client1, client2) :
                          client1[s] < MaxFloat32 \/ client2[s] < MaxFloat32}
  IN  pc = "done" =>
        /\ reachable # {} => result \in reachable
        /\ halfReachable # {} => result \in halfReachable
============================================================================
