---------------------------- MODULE MCChatTable ----------------------------
(***************************************************************************)
(* Instances of ChatTable: two or three rooms, two servers.                *)
(***************************************************************************)
EXTENDS ChatTable, TLC

CONSTANTS r1, r2, r3, a, b, c, d, e, f, s1, s2

\* Small delays are added without rounding.
Exact(sum) == sum

TwoChats == r1 :> <<a, b>> @@ r2 :> <<c, d>>

ThreeChats == TwoChats @@ r3 :> <<e, f>>

Near(s) == [t \in {s1, s2} |-> IF t = s THEN 0 ELSE 1]
Between == [t \in {s1, s2} |-> 1]

\* a and c move between the servers; the other clients are as far from the one
\* as from the other, so that the requester's list decides.
MovingRequesters ==
  [u \in User |-> IF u \in {a, c} THEN {Near(s1), Near(s2)} ELSE {Between}]

\* As above, and a may be in between too: then r1 is tied between the servers.
TiedRequester == [MovingRequesters EXCEPT ![a] = @ \cup {Between}]
============================================================================
