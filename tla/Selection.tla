----------------------------- MODULE Selection -----------------------------
(***************************************************************************)
(* The data Central's server selection works on, and the reference         *)
(* definition of the servers it may return.                                *)
(*                                                                         *)
(* A delay list is the map a client reports with PUT /clients/delays: chat *)
(* server -> delay, a float32.  Delays are natural numbers here, in a unit *)
(* fine enough for every delay a ping measures (at most the two seconds of *)
(* its timeout); MaxFloat32 is what a client reports for a server it could *)
(* not reach or has not measured yet.                                      *)
(***************************************************************************)
EXTENDS Naturals

CONSTANTS
  Server,      \* addresses of the chat servers
  Measured,    \* the delays a ping may measure
  MaxFloat32,  \* delay of a server that is down or not measured yet
  Round(_)     \* the float32 a sum of two measured delays is rounded to

ASSUME MaxFloat32Assumption == MaxFloat32 \in Nat

ASSUME MeasuredAssumption ==
  /\ Measured \subseteq Nat
  /\ \A d \in Measured : 2 * d < MaxFloat32

ASSUME RoundAssumption ==
  \A d1, d2 \in Measured : Round(d1 + d2) \in 0..(MaxFloat32 - 1)

\* Above every float32.
MaxFloat64 == 2 * MaxFloat32 + 1

\* A float32 sum that overflows is +Inf, which is above MaxFloat64.
Inf == MaxFloat64 + 1

Delay == Measured \cup {MaxFloat32}

DelayList == UNION {[known -> Delay] : known \in SUBSET Server}

\* The servers both clients have in their lists.
Common(client1, client2) == DOMAIN client1 \cap DOMAIN client2

MutantServerLatency(client1, client2, server) ==
  IF server \in DOMAIN client2 THEN client2[server] ELSE client1[server]

\* serverLatency[server], built by the first two loops: the entry of client1,
\* then the maximum with the entry of client2 (0 stands for a missing key).
ServerLatency(client1, client2, server) ==
  LET known1 == IF server \in DOMAIN client1 THEN client1[server] ELSE 0
      known2 == IF server \in DOMAIN client2 THEN client2[server] ELSE 0
  IN  IF known1 < known2 THEN known2 ELSE known1

\* client1[server] + client2[server], added as float32: two measured delays
\* are rounded, MaxFloat32 swallows a measured delay, twice MaxFloat32
\* overflows.
CombinedLatency(client1, client2, server) ==
  LET delays == {client1[server], client2[server]}
  IN  CASE delays = {MaxFloat32} -> Inf
        [] MaxFloat32 \in delays /\ delays # {MaxFloat32} -> MaxFloat32
        [] OTHER -> Round(client1[server] + client2[server])

\* Server a is at least as good as b: smaller worst-case latency, or the same
\* and a combined latency that is not larger.
AtLeastAsGood(client1, client2, a, b) ==
  LET worstA == ServerLatency(client1, client2, a)
      worstB == ServerLatency(client1, client2, b)
  IN  \/ worstA < worstB
      \/ /\ worstA = worstB
         /\ CombinedLatency(client1, client2, a)
              <= CombinedLatency(client1, client2, b)

\* Reference definition: the servers compute_optimal_server may return.  The
\* module ServerSelection shows that the loop of the code computes this set.
OptimalServers(client1, client2) ==
  {s \in Common(client1, client2) :
     \A t \in Common(client1, client2) : AtLeastAsGood(client1, client2, s, t)}
============================================================================
