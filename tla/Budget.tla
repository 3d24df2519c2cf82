------------------------------- MODULE Budget -------------------------------
(* Budget proposals and finalized budgets on one node                      *)
(* (masternode-budget.cpp, rpcmasternode-budget.cpp).  Both are items with *)
(* a collateral and with votes of masternodes; they are handled by twin    *)
(* code ("mprop"/"fbs", "mvote"/"fbvote"), which is one action here.       *)
(*                                                                         *)
(* All budgets are for one payment cycle: block k of it pays the k-th      *)
(* payment of a budget.  Peers, the list of masternodes and the depth of   *)
(* the collaterals are the environment.  Left out: which votes a peer was  *)
(* sent (fSynced), requests for missing items, items whose content fails,  *)
(* abstentions, and own votes that come back (they follow too soon).       *)
EXTENDS Masternodes, Integers, FiniteSets, Sequences, SequencesExt

CONSTANTS
  Proposals, Budgets,
  Pays,          \* per budget, the sequence of proposals it pays
  Amount,        \* per proposal, what it asks for
  Total,         \* GetTotalBudget of the cycle
  FeeOrder,      \* the proposals in the order of their collateral's hash
  Times,         \* times at which this node may vote by itself
  START,         \* an hour after the start: later votes may be too far ahead
  Scenes,        \* bound: what goes on around the node, see Scene
  CountEnabled,  \* of mnodeman
  UPDATE_MIN     \* BUDGET_VOTE_UPDATE_MIN, an hour

Item == Proposals \cup Budgets
BudgetVote == [mn : MN, item : Item, time : Nat, yes : BOOLEAN]
Stored == [time : Nat, yes : BOOLEAN, fValid : BOOLEAN]
BudgetEntry == [fValid : BOOLEAN, fAutoChecked : BOOLEAN, votes : [MN -> Stored \cup {None}]]

(* strBudgetMode of the node, the items that exist, those whose collateral *)
(* is young at the start, the masternodes that leave and return, the votes *)
(* that other masternodes sign and that the node's operator casts.         *)
Scene == [mode : {"auto", "suggest"}, items : SUBSET Item, young : SUBSET Item,
          leaving : SUBSET MN, signed : SUBSET BudgetVote,
          own : SUBSET {v \in BudgetVote : v.mn = Self /\ (v.item \in Budgets => v.yes)}]

ASSUME BudgetAssumption ==
  /\ Proposals \cap Budgets = {}
  /\ \A b \in Budgets : Pays[b] # << >>
  /\ Amount \in [Proposals -> Nat] /\ Total \in Nat
  /\ None \notin BudgetEntry \cup BudgetVote \cup Stored
  /\ Times \subseteq Nat /\ START \in Nat
  /\ CountEnabled \in Nat /\ UPDATE_MIN \in Nat \ {0}
  /\ Scenes \subseteq Scene

(* How deep the collateral of an item is: less than                        *)
(* Budget_Fee_Confirmations, enough, and deeper: a proposal is a day old   *)
(* then, a budget has the extra confirmation SubmitFinalBudget waits for.  *)
(* (Nothing happens to items without any confirmation.)                    *)
YOUNG == 1
MATURE == 2
DEEP == 3
Depth == YOUNG .. DEEP

VARIABLES
  items,      \* mapProposals and mapFinalizedBudgets: per item its entry or None
  seenItems,  \* mapSeenMasternodeBudgetProposals and mapSeenFinalizedBudgets
  seenVotes,  \* mapSeenMasternodeBudgetVotes and mapSeenFinalizedBudgetVotes
  orphans,    \* mapOrphan...Votes: per item one vote or None
  immature,   \* vecImmatureBudgetProposals and vecImmatureFinalizedBudgets
  listed,     \* the masternodes in the list
  depth,      \* per item the depth of its collateral
  scene

budgetVars == <<items, seenItems, seenVotes, orphans, immature, listed, depth, scene>>
world == <<listed, depth, scene>>

-----------------------------------------------------------------------------
(* Votes of an item. *)

New == [fValid |-> TRUE, fAutoChecked |-> FALSE, votes |-> [m \in MN |-> None]]

GetYeas(e) == Cardinality({m \in MN :
  e.votes[m] # None /\ e.votes[m].yes /\ e.votes[m].fValid})
GetNays(e) == Cardinality({m \in MN :
  e.votes[m] # None /\ ~e.votes[m].yes /\ e.votes[m].fValid})
GetVoteCount(e) == Cardinality({m \in MN : e.votes[m] # None})

(* AddOrUpdateVote: not an older vote, nor one that follows too soon.      *)
AcceptsLater(e, v) == \* mutant: no pause between two votes, and none too old
  e.votes[v.mn] # None => v.time # e.votes[v.mn].time
Accepts(e, v) ==
  e.votes[v.mn] # None => v.time - e.votes[v.mn].time >= UPDATE_MIN
Put(e, v) ==
  [e EXCEPT !.votes[v.mn] = [time |-> v.time, yes |-> v.yes, fValid |-> TRUE]]
AddOrUpdateVote(e, v) == IF Accepts(e, v) THEN Put(e, v) ELSE e

(* Whether its time is too far ahead of the clock, which is anywhere after *)
(* the start.                                                              *)
MayBeEarly(v) == v # None /\ v.time > START

(* CleanAndRemove marks the votes of masternodes that are gone.            *)
CleanOnce(e) == \* mutant: a mark is never taken back
  [e EXCEPT !.votes = [m \in MN |->
     IF e.votes[m] = None THEN None
     ELSE [e.votes[m] EXCEPT !.fValid = @ /\ m \in listed]]]
CleanAndRemove(e) ==
  [e EXCEPT !.votes = [m \in MN |->
     IF e.votes[m] = None THEN None
     ELSE [e.votes[m] EXCEPT !.fValid = m \in listed]]]

IsValid(i, e) ==
  /\ depth[i] >= MATURE
  /\ i \in Proposals => GetNays(e) - GetYeas(e) <= CountEnabled \div 10

-----------------------------------------------------------------------------
(* The budget this node sees: supported proposals, the one with the most   *)
(* votes first, as long as the money lasts.  The votes have been cleaned.  *)
GetBudget(list) ==
  LET Net(p) == GetYeas(list[p]) - GetNays(list[p])
      Fee(p) == CHOOSE k \in 1 .. Len(FeeOrder) : FeeOrder[k] = p
      wanted == {p \in Proposals :
        /\ list[p] # None /\ list[p].fValid
        /\ Net(p) > CountEnabled \div 10
        /\ depth[p] = DEEP}
      Before(p, q) == Net(p) > Net(q) \/ (Net(p) = Net(q) /\ Fee(p) > Fee(q))
      Take(acc, p) == IF acc.spent + Amount[p] <= Total
                      THEN [spent |-> acc.spent + Amount[p], paid |-> Append(acc.paid, p)]
                      ELSE acc
  IN  FoldLeft(Take, [spent |-> 0, paid |-> << >>], SetToSortSeq(wanted, Before)).paid

CleanProposals(list) == [i \in Item |->
  IF i \in Proposals /\ list[i] # None THEN CleanAndRemove(list[i]) ELSE list[i]]

(* Which budgets cover block k of the cycle, and the greatest count.       *)
Covering(k) == {b \in Budgets : items[b] # None /\ k <= Len(Pays[b])}
Highest(k, floor) ==
  LET counts == {GetVoteCount(items[b]) : b \in Covering(k)} \cup {floor}
  IN  CHOOSE n \in counts : \A c \in counts : c <= n

IsBudgetPaymentBlock(k) == Highest(k, -1) > CountEnabled \div 20

(* What FillBlockPayee may pay in block k (a budget with the most votes).  *)
BudgetFillBlockPayeeFirst(k) == \* mutant: the first budget that has votes
  {Pays[b][k] : b \in {c \in Covering(k) : GetVoteCount(items[c]) > 0}}
BudgetFillBlockPayee(k) ==
  {Pays[b][k] : b \in {c \in Covering(k) :
     GetVoteCount(items[c]) > 0 /\ GetVoteCount(items[c]) = Highest(k, 0)}}

BudgetIsTransactionValid(k, paid) ==
  /\ Highest(k, 0) >= CountEnabled \div 20
  /\ \E b \in Covering(k) :
       GetVoteCount(items[b]) > Highest(k, 0) - CountEnabled \div 10 /\ Pays[b][k] = paid

-----------------------------------------------------------------------------
BudgetInit ==
  /\ items = [i \in Item |-> None]
  /\ seenItems = {} /\ seenVotes = {}
  /\ orphans = [i \in Item |-> None]
  /\ immature = {}
  /\ listed = MN
  /\ scene \in Scenes
  /\ depth = [i \in Item |-> IF i \in scene.young THEN YOUNG ELSE DEEP]

(* AddProposal and AddFinalizedBudget of new items.                        *)
Added(list, new) == [i \in Item |->
  IF i \in new /\ list[i] = None THEN New ELSE list[i]]

(* CheckOrphanVotes: the votes kept for items that are known now; one that *)
(* is early, too far ahead of the clock, stays.                            *)
CheckOrphanVotes(list, early) ==
  LET taken == {i \in Item \ early :
        list[i] # None /\ orphans[i] # None /\ Accepts(list[i], orphans[i])}
  IN  /\ items' = [i \in Item |->
           IF i \in taken THEN Put(list[i], orphans[i]) ELSE list[i]]
      /\ orphans' = [i \in Item |-> IF i \in taken THEN None ELSE orphans[i]]

(* "mprop" and "fbs" with an item not seen before.                         *)
TakeItem(i, early) ==
  /\ i \notin seenItems
  /\ IF depth[i] < MATURE
     THEN immature' = immature \cup {i} /\ UNCHANGED <<items, seenItems, orphans>>
     ELSE /\ seenItems' = seenItems \cup {i}
          /\ CheckOrphanVotes(Added(items, {i}), early)
          /\ UNCHANGED immature
  /\ UNCHANGED <<seenVotes, world>>

(* UpdateProposal and UpdateFinalizedBudget with a vote from a peer; one   *)
(* for an unknown item is kept when the node is synced, the last for each, *)
(* early or not: AddOrUpdateVote looks at the clock.                       *)
UpdateProposal(v, early, synced) ==
  IF items[v.item] = None
  THEN orphans' = (IF synced THEN [orphans EXCEPT ![v.item] = v] ELSE orphans)
       /\ UNCHANGED items
  ELSE items' = (IF early THEN items ELSE [items EXCEPT ![v.item] = AddOrUpdateVote(@, v)])
       /\ UNCHANGED orphans

(* "mvote" and "fbvote" of a listed masternode, not seen before.  good:    *)
(* its signature is in order.                                              *)
TakeVote(v, good, early, synced) ==
  /\ v \notin seenVotes /\ v.mn \in listed /\ (early => MayBeEarly(v))
  /\ seenVotes' = seenVotes \cup {v}
  /\ IF good THEN UpdateProposal(v, early, synced) ELSE UNCHANGED <<items, orphans>>
  /\ UNCHANGED <<seenItems, immature, world>>

(* This node votes ("mnbudgetvote", "mnfinalbudget vote").                 *)
OwnVote(v) ==
  /\ Self \in listed
  /\ items[v.item] # None /\ Accepts(items[v.item], v)
  /\ items' = [items EXCEPT ![v.item] = Put(@, v)]
  /\ UNCHANGED <<seenItems, seenVotes, orphans, immature, world>>

-----------------------------------------------------------------------------
(* NewBlock. *)

(* SubmitFinalBudget, once its collateral is deep enough.                  *)
Submitted(list) == {b \in Budgets \cap scene.items :
  /\ Pays[b] = GetBudget(CleanProposals(list))
  /\ b \notin seenItems /\ depth[b] = DEEP}

(* AutoCheck of the budgets in on: each is compared once with mine, what   *)
(* this node sees, and gets its vote at time t if it is the same.          *)
AutoCheck(list, mine, on, t) ==
  LET Checks(b) == b \in on /\ ~list[b].fAutoChecked /\ IsValid(b, list[b])
      auto == scene.mode = "auto"
      Voted(e) == AddOrUpdateVote(e, [mn |-> Self, time |-> t, yes |-> TRUE])
      Checked(b) == [list[b] EXCEPT !.fAutoChecked = TRUE]
  IN  [i \in Item |->
        IF list[i] = None THEN None
        ELSE IF i \in Budgets
          THEN IF ~Checks(i) THEN list[i]
               ELSE IF auto /\ mine = Pays[i] THEN Voted(Checked(i)) ELSE Checked(i)
          ELSE IF auto /\ \E b \in Budgets : list[b] # None /\ Checks(b)
               THEN CleanAndRemove(list[i]) ELSE list[i]]

(* CheckAndRemove only marks entries.                                      *)
Marked(list) == [i \in Item |->
  IF list[i] = None THEN None ELSE [list[i] EXCEPT !.fValid = IsValid(i, list[i])]]

(* At any height in the last two days of a cycle: the node in mode         *)
(* "suggest" submits what it sees.                                         *)
NewBlockSubmits ==
  /\ scene.mode = "suggest"
  /\ items' = Added(CleanProposals(items), Submitted(items))
  /\ seenItems' = seenItems \cup Submitted(items)
  /\ UNCHANGED <<seenVotes, orphans, immature, world>>

(* Every fourteenth: reset (once in a while) forgets what was seen; then   *)
(* the budgets are checked, the votes cleaned and mature items added.      *)
NewBlock(reset, on, t) ==
  \E final \in {scene.mode = "suggest", FALSE} :
  \E new \in {IF final THEN Submitted(items) ELSE {}} :
  \E list \in {IF final THEN Added(CleanProposals(items), new) ELSE items} :
  \E mine \in {GetBudget(CleanProposals(list))} :
  \E marked \in {Marked(AutoCheck(list, mine, on, t))} :
  LET ripe == {i \in immature : depth[i] >= MATURE}
  IN  /\ seenItems' = IF reset THEN {} ELSE seenItems \cup new
      /\ seenVotes' = IF reset THEN {} ELSE seenVotes
      /\ items' = Added([i \in Item |->
           IF marked[i] = None THEN None ELSE CleanAndRemove(marked[i])], ripe)
      /\ immature' = immature \ ripe
      /\ UNCHANGED <<orphans, world>>

(* Stop and start.  budget.dat keeps entries and orphans; what was seen is *)
(* cleared, immature items are not saved, and the flags of entries and     *)
(* votes begin anew.  kept: the file is there.                             *)
BudgetRestart(kept) ==
  /\ items' = IF ~kept THEN [i \in Item |-> None]
              ELSE Marked([i \in Item |-> IF items[i] = None THEN None
                     ELSE [items[i] EXCEPT !.fAutoChecked = FALSE, !.votes = [m \in MN |->
                       IF items[i].votes[m] = None THEN None
                       ELSE [items[i].votes[m] EXCEPT !.fValid = TRUE]]]])
  /\ orphans' = IF kept THEN orphans ELSE [i \in Item |-> None]
  /\ seenItems' = {} /\ seenVotes' = {} /\ immature' = {}
  /\ UNCHANGED <<listed, depth, scene>>

-----------------------------------------------------------------------------
(* The world: masternodes come and go, collaterals get deeper or are       *)
(* reorganised away (not when DEEP: the chain forks 100 blocks deep at     *)
(* most, and a budget that is reorganised is covered by MATURE).           *)

List(m) ==
  /\ listed' = IF m \in listed THEN listed \ {m} ELSE listed \cup {m}
  /\ UNCHANGED <<items, seenItems, seenVotes, orphans, immature, depth, scene>>
Confirm(i, d) ==
  /\ depth[i] < DEEP /\ d \in {depth[i] - 1, depth[i] + 1}
  /\ depth' = [depth EXCEPT ![i] = d]
  /\ UNCHANGED <<items, seenItems, seenVotes, orphans, immature, listed, scene>>

BudgetNext ==
  \/ \E i \in scene.items, early \in SUBSET {j \in Item : MayBeEarly(orphans[j])} :
       TakeItem(i, early)
  \/ \E v \in scene.signed, good, early, synced \in BOOLEAN :
       TakeVote(v, good, early, synced)
  \/ \E v \in scene.own : OwnVote(v)
  \/ NewBlockSubmits
  \/ \E reset \in BOOLEAN, on \in SUBSET Budgets, t \in Times : NewBlock(reset, on, t)
  \/ \E kept \in BOOLEAN : BudgetRestart(kept)
  \/ \E m \in scene.leaving : List(m)
  \/ \E i \in scene.young, d \in Depth : Confirm(i, d)

BudgetSpec == BudgetInit /\ [][BudgetNext]_budgetVars

(* Blocks keep coming, so NewBlock runs again and again; one day nothing   *)
(* is reset and the dice of every budget falls.                            *)
BudgetFairSpec == BudgetSpec /\ WF_budgetVars(\E t \in Times : NewBlock(FALSE, Budgets, t))

-----------------------------------------------------------------------------
(* Properties *)

(* Type invariant.                                                         *)
BudgetTypeOK ==
  /\ items \in [Item -> BudgetEntry \cup {None}]
  /\ seenItems \subseteq Item /\ immature \subseteq Item
  /\ seenVotes \subseteq BudgetVote
  /\ orphans \in [Item -> BudgetVote \cup {None}]
  /\ listed \subseteq MN
  /\ depth \in [Item -> Depth]
  /\ scene \in Scenes

(* While an item is known a vote for it is never lost, and only replaced   *)
(* by one signed UPDATE_MIN later, whatever the order in which votes,      *)
(* orphans and the node's own votes come (AddOrUpdateVote).                *)
VotesForward ==
  [][\A i \in Item, m \in MN :
       (items[i] # None /\ items'[i] # None /\ items[i].votes[m] # None)
         => LET old == items[i].votes[m]  new == items'[i].votes[m]
            IN  /\ new # None
                /\ \/ new.time = old.time /\ new.yes = old.yes
                   \/ new.time >= old.time + UPDATE_MIN]_budgetVars

(* A block of the cycle that must pay a budget is accepted by this node    *)
(* with any payment BudgetFillBlockPayee may put into one, provided there  *)
(* are ten masternodes at least.                                           *)
BudgetBlockAccepted ==
  \A k \in UNION {DOMAIN Pays[b] : b \in Budgets} :
    (CountEnabled >= 10 /\ IsBudgetPaymentBlock(k)) =>
      /\ BudgetFillBlockPayee(k) # {}
      /\ \A paid \in BudgetFillBlockPayee(k) : BudgetIsTransactionValid(k, paid)

(* The votes on a proposal that count become those of the masternodes in   *)
(* the list: one that leaves loses its votes and one that returns has them *)
(* back (CleanAndRemove), though orphan votes are counted whoever signed   *)
(* them and a restart counts all votes again, as long as neither the list  *)
(* changes nor the node restarts for ever.                                 *)
CountsListed == \A m \in MN, p \in Proposals :
  items[p] # None =>
    (items[p].votes[m] # None => (items[p].votes[m].fValid <=> m \in listed))
VotesFollowList ==
  <>[][listed' = listed /\ \A kept \in BOOLEAN : ~BudgetRestart(kept)]_budgetVars
    => <>[]CountsListed

(* What "budgetvotemode" promises (init.cpp): a masternode in mode auto    *)
(* votes for a valid finalized budget that goes on matching its own.       *)
(* (Refuted: the budget is compared once, fAutoChecked.)                   *)
Matches(b) ==
  /\ scene.mode = "auto" /\ items[b] # None /\ IsValid(b, items[b])
  /\ GetBudget(CleanProposals(items)) = Pays[b]
MatchingBudgetGetsVote ==
  \A b \in Budgets : <>[]Matches(b) => <>(items[b] # None /\ items[b].votes[Self] # None)
=============================================================================
