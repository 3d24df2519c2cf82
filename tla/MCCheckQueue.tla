---------------------------- MODULE MCCheckQueue ----------------------------
(* Two workers and four checks, one of which fails. *)
EXTENDS CheckQueue

CONSTANTS w1, w2, m, c1, c2, c3, c4
=============================================================================
