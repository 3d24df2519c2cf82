------------------------------ MODULE MCMempool ------------------------------
(* Six transactions over two outputs of the old transaction g: a and x     *)
(* spend the same one, the coinstake s the other; k is a coinbase.  b has  *)
(* the parents a and k, c has a and b, so children come before parents,    *)
(* conflict, and lose an immature coinbase in a reorganisation.            *)
EXTENDS Mempool

CONSTANTS a, b, c, k, s, x, g

McTx == {a, b, c, k, s, x}
McOutpoint == {<<g, 0>>, <<g, 1>>, <<a, 0>>, <<a, 1>>, <<b, 0>>, <<k, 0>>}
McCreator == [o \in McOutpoint |-> o[1]]
McInputs == [t \in McTx |->
  CASE t = a -> {<<g, 0>>}
    [] t = x -> {<<g, 0>>, <<g, 1>>}
    [] t = b -> {<<a, 0>>, <<k, 0>>}
    [] t = c -> {<<a, 1>>, <<b, 0>>}
    [] t = s -> {<<g, 1>>}
    [] t = k -> {}]
=============================================================================
