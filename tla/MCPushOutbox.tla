---------------------------- MODULE MCPushOutbox ----------------------------
(* Instances of PushOutbox for TLC: phone p1 has two device rows to go       *)
(* through (a sign-out and a sign-in), phone p2 has one.                     *)
EXTENDS PushOutbox, TLC

CONSTANTS n1, d1, d2, d3, p1, p2, r1, r2

Tokens == [d \in Rows |-> IF d = d3 THEN p2 ELSE p1]

RunSymmetry == Permutations(Runs)
=============================================================================
