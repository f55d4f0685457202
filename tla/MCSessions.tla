------------------------------ MODULE MCSessions ------------------------------
(* Instances of Sessions for TLC. *)
EXTENDS Sessions, TLC

CONSTANTS u1, d1

\* Every device is one of the same user.
OneUser == [d \in Devices |-> u1]

Symmetry == Permutations(Requests) \cup Permutations(Tokens)
=============================================================================
