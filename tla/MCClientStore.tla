--------------------------- MODULE MCClientStore ---------------------------
(***************************************************************************)
(* An instance of ClientStore: two goroutines, one of them the sweep, and  *)
(* two chats.  The user n1 of one of them registers and is looked up; n2   *)
(* is only ever a partner.  An insertion may find the array empty, full or *)
(* with a cell to spare, and a removal takes off the last entry or another.*)
(***************************************************************************)
EXTENDS ClientStore

CONSTANTS r1, r2, s1, n1, n2

TwoChats ==
  {[room |-> r1, server |-> s1, users |-> <<n1, n2>>],
   [room |-> r2, server |-> s1, users |-> <<n2, n2>>]}
============================================================================
