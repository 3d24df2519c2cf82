--------------------------- MODULE MCMasternodeMan ---------------------------
(* One masternode with two broadcasts, or the node's own with one.         *)
EXTENDS MasternodeMan

CONSTANT m1

MCCarried == {NoPing, 0, Old}
=============================================================================
