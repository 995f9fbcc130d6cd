----------------------------- MODULE MCAccount -----------------------------
(* A small instance of Account for TLC: two addresses, three presses. *)
EXTENDS Account, TLC

CONSTANTS a, b, r1, r2, r3

\* Addresses are interchangeable, and so are presses; no run that uses this
\* checks liveness.
Symmetries == Permutations({a, b}) \cup Permutations({r1, r2, r3})
=============================================================================
