----------------------------- MODULE MCDelivery -----------------------------
(* A small instance of Delivery for TLC: two phones, one message. *)
EXTENDS Delivery

CONSTANTS a, b, m1
=============================================================================
