---------------------------- MODULE Masternodes ----------------------------
(* What the models of payments and budgets have in common: the masternodes *)
(* that vote and the one that this node runs.                              *)
EXTENDS FiniteSets

CONSTANTS
  MN,    \* masternodes (their collateral outputs)
  Self,  \* this node's masternode
  None

ASSUME MasternodesAssumption == IsFiniteSet(MN) /\ Self \in MN
=============================================================================
