------------------------------ MODULE MCBudget ------------------------------
(* Two masternodes stand for the few whose votes are told apart; a         *)
(* proposal, a budget that pays it and one that pays a proposal unknown to *)
(* this node first.                                                        *)
EXTENDS Budget, TLC

CONSTANTS m1, m2, p, z, b1, b2

MCPays == b1 :> <<p>> @@ b2 :> <<z, p>>
MCAmount == p :> 1
MCFeeOrder == <<p>>
Yes(m, i, t) == [mn |-> m, item |-> i, time |-> t, yes |-> TRUE]
No(m, i, t) == [mn |-> m, item |-> i, time |-> t, yes |-> FALSE]

(* Two budgets compete; or the proposal is young and a vote changes.       *)
MCScenes ==
  {[mode |-> "auto", items |-> {p, b1, b2}, young |-> {}, leaving |-> {m2},
    signed |-> {Yes(m2, p, 1), Yes(m2, b1, 0), Yes(m2, b2, 0)},
    own |-> {Yes(m1, p, 1)}]}
  \cup
  {[mode |-> s, items |-> {p, b1}, young |-> {p}, leaving |-> {m2},
    signed |-> {Yes(m2, p, 1), No(m2, p, 2)},
    own |-> {Yes(m1, p, 1)}] : s \in {"auto", "suggest"}}

(* One budget, everything deep, nobody leaves.                             *)
MCLateScenes ==
  {[mode |-> "auto", items |-> {p, b1}, young |-> {}, leaving |-> {},
    signed |-> {Yes(m2, p, 1)}, own |-> {Yes(m1, p, 1)}]}
=============================================================================
