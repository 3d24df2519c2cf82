------------------------------ MODULE MCSwiftTX ------------------------------
(* SwiftTX with two transactions that spend a common output, up to two     *)
(* masternodes that must all sign, locks that live one tick, and a chain   *)
(* of two blocks of which the last is replayed.                            *)
EXTENDS SwiftTX

CONSTANTS t1, t2, a, b, m1, m2

MCTx == {t1, t2}
MCInput == {a, b}
MCvin == [t \in MCTx |-> IF t = t1 THEN <<a>> ELSE <<b, a>>]
=============================================================================
