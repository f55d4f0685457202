----------------------------- MODULE MCMessages -----------------------------
(* Instances of Messages for TLC. *)
EXTENDS Messages, TLC

CONSTANTS u, v, ann, bob, a, b, m1

Owners == [d \in {u, v} |-> IF d = u THEN ann ELSE bob]

\* Bound: the second user only receives.
Listens == peer[v] = NoDevice

Symmetry == {p @@ q : p \in Permutations(Requests), q \in Permutations(AdminDevices)}
=============================================================================
