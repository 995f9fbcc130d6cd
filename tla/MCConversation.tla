--------------------------- MODULE MCConversation ---------------------------
(* A small instance of Conversation for TLC. *)
EXTENDS Conversation

CONSTANTS m1, m2

\* Two messages with different times; MCCalm has two of equal time.
MCTime == [m \in Messages |-> IF m = m1 THEN 1 ELSE 2]
=============================================================================
