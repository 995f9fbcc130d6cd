----------------------------- MODULE MCChatList -----------------------------
(* Small instances of ChatList for TLC. *)
EXTENDS ChatList

CONSTANTS u1, u2, l1, l2, l3
=============================================================================
