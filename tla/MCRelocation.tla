---------------------------- MODULE MCRelocation ----------------------------
(***************************************************************************)
(* Instances of Relocation, with the chats and delay lists of MCChatTable. *)
(***************************************************************************)
EXTENDS MCChatTable, Relocation
=============================================================================
