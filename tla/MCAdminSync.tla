----------------------------- MODULE MCAdminSync -----------------------------
(* Instances of AdminSync for TLC. *)
EXTENDS AdminSync

CONSTANTS q1, q2, q3, u1, u2, p1, p2

\* The last reply is for another user.
TwoUsers == [q \in Replies |-> IF q = q3 THEN u2 ELSE u1]
=============================================================================
