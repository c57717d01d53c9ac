--------------------------- MODULE MCChatServer ---------------------------
(***************************************************************************)
(* A chat server with two rooms, and who sends how many messages.          *)
(***************************************************************************)
EXTENDS ChatServer, TLC

CONSTANTS a, b, c, r1, r2

TwoRooms == (a :> r1) @@ (b :> r1) @@ (c :> r2)
ThreeSenders == (a :> 2) @@ (b :> 1) @@ (c :> 1)
============================================================================
