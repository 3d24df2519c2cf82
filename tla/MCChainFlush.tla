--------------------------- MODULE MCChainFlush ---------------------------
(* A chain of two blocks and a branch of one beside its last, both of      *)
(* which spend the first block's coin, and a block on top of each.         *)
EXTENDS ChainFlush, TLC

CONSTANTS g, p, a, b, c

McBlock == {g, p, a, b, c}
McParent == p :> g @@ a :> p @@ b :> p @@ c :> a
McSpends == g :> {} @@ p :> {} @@ a :> {p} @@ b :> {p} @@ c :> {a}
=============================================================================
