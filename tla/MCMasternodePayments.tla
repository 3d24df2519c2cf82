------------------------ MODULE MCMasternodePayments ------------------------
(* Two masternodes, one of them this node's, and two payees.               *)
EXTENDS MasternodePayments

CONSTANTS m1, m2, x, y, net, stake

v(m, h, p) == [mn |-> m, height |-> h, payee |-> p]
MCSigned == {v(m1, 2, x), v(m2, 2, x), v(m2, 2, y)}
MCForged == {v(m2, 2, y), v(m2, 3, y)}
=============================================================================
