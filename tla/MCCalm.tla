------------------------------- MODULE MCCalm -------------------------------
(* A small instance of CalmConversation for TLC. *)
EXTENDS CalmConversation

CONSTANTS m1, m2, m3

\* Two of the three messages have the same timestamp.
MCTime == [m \in Messages |-> IF m = m1 THEN 1 ELSE 2]
=============================================================================
