------------------------------ MODULE MCPosts ------------------------------
(* Small instances of Posts for TLC: two presses, two editors. *)
EXTENDS Posts, TLC

CONSTANTS p1, p2, e1, e2

\* Presses are interchangeable, and so are editors; used for safety only.
Symmetries == Permutations({p1, p2}) \cup Permutations({e1, e2})
=============================================================================
