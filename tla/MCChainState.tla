---------------------------- MODULE MCChainState ----------------------------
(* Small trees: two branches from Genesis, one of which forks again.       *)
EXTENDS ChainState

CONSTANTS g, a1, a2, a3, b1, b2

MCParent == [b \in Block \ {g} |->
  CASE b = a1 -> g [] b = a2 -> a1 [] b = a3 -> a1 [] b = b1 -> g [] b = b2 -> b1]
MCAnc == [b \in Block |->
  CASE b = g -> {g} [] b = a1 -> {g, a1} [] b = a2 -> {g, a1, a2}
    [] b = a3 -> {g, a1, a3} [] b = b1 -> {g, b1} [] b = b2 -> {g, b1, b2}]
MCWork == [b \in Block |-> Cardinality(MCAnc[b])]

(* Two branches, or one that forks, with an invalid block and an operator. *)
TwoBranches == [offered |-> {a1, a2, b1, b2}, invalid |-> {a2}, lockable |-> {},
                fragile |-> {}, operator |-> TRUE, depth |-> 0]
Fork == [TwoBranches EXCEPT !.offered = {a1, a2, a3, b1}]

(* All blocks, two of which may be damaged.                                *)
Damaged == [TwoBranches EXCEPT !.offered = Block, !.fragile = {a1, b1},
                               !.operator = FALSE]

(* Locks and replays, with an operator; a lock on each branch.             *)
Locks == [offered |-> {a1, b1, b2}, invalid |-> {b2}, lockable |-> {b1},
          fragile |-> {}, operator |-> TRUE, depth |-> 1]
TwoLocks == [Locks EXCEPT !.lockable = {a1, b1}, !.operator = FALSE]
Checked == {TwoBranches, Fork, Damaged, Locks, TwoLocks}

(* A lock on the first block, and replays of one block.                    *)
Replay == [offered |-> Block, invalid |-> {}, lockable |-> {a1}, fragile |-> {},
           operator |-> FALSE, depth |-> 1]
Replayed == {Replay}
=============================================================================
