---------------------------- MODULE MessageBoard ----------------------------
(***************************************************************************)
(* What a chat screen promises, whatever it is made of: there is a         *)
(* conversation, which changes by itself, and a list on the screen, which  *)
(* is cleared, and filled in one go with the whole conversation as it is   *)
(* at that moment, oldest message first.                                   *)
(***************************************************************************)
EXTENDS Naturals, Sequences

CONSTANTS Messages, Time

VARIABLES board, shown

\* q lists every message of S once, in the order of the messages' times.
Lists(q, S) ==
    /\ q \in Seq(S)
    /\ \A m \in S : \E i \in 1..Len(q) : q[i] = m
    /\ \A i, j \in 1..Len(q) : i < j => q[i] # q[j] /\ Time[q[i]] <= Time[q[j]]

BoardInit == board \in SUBSET Messages /\ shown = <<>>

Change == board' \in SUBSET Messages /\ UNCHANGED shown

Clear == shown' = <<>> /\ UNCHANGED board

Fill == shown = <<>> /\ Lists(shown', board) /\ UNCHANGED board

BoardSpec == BoardInit /\ [][Change \/ Clear \/ Fill]_<<board, shown>>
=============================================================================
