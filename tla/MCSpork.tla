------------------------------- MODULE MCSpork -------------------------------
(* One spork with two values on three nodes.                               *)
EXTENDS Spork

CONSTANTS n1, n2, n3, s1, v1, v2

MCDefault == [s \in SporkID |-> v1]
=============================================================================
