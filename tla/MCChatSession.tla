--------------------------- MODULE MCChatSession ---------------------------
(* A small instance of ChatSession for TLC. *)
EXTENDS ChatSession

CONSTANTS a, b, p, m, t, q, q7
=============================================================================
