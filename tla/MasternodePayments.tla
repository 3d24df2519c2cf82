------------------------- MODULE MasternodePayments -------------------------
(* Which masternode a block has to pay (masternode-payments.cpp, and the   *)
(* rewards of main.cpp), on one node.  Masternodes vote for the payee of a *)
(* coming block ("mnw"); a payee with enough votes is enforced.            *)
(*                                                                         *)
(* A vote is recorded under two locks and counted after they are released  *)
(* (AddWinningMasternode), so counting is a step of its own, between which *)
(* and the recording the cleaning thread, the other voting thread and the  *)
(* check of a block may run.  The rank of a masternode, its signature, the *)
(* queue of payees and the amount of coins are the environment's choice.   *)
EXTENDS Masternodes, Integers, FiniteSets

CONSTANTS
  Payee,         \* scripts that may be paid
  NoPayee,       \* the empty script of a vote on a budget block
  Corrupt,       \* a saved file that cannot be read
  Foreign,       \* one of this network whose data has another format
  Thread,        \* threads that run ProcessNewBlock
  MessageThread, \* the one that also handles messages
  Signed,        \* votes that masternodes sign and send
  Forged,        \* votes that are sent with another signature
  Queue,         \* whom the queue of payments names (NoPayee: nobody)
  REQUIRED,      \* MNPAYMENTS_SIGNATURES_REQUIRED, 6
  Window,        \* how old a vote may be when it comes, 1.25 * CountEnabled()
  Ahead,         \* and how far ahead, 20
  OwnAhead,      \* how far ahead this node votes, 10
  Limits,        \* nLimit of CleanPaymentList, max(1.25 * size(), 1000)
  ReorgDepth,    \* how far the tip may fall below the best height so far
  MaxTip,        \* bound on the height of the tip
  MaxOwn,        \* bound on the heights this node votes for
  COIN, HALVING, LAST_HEIGHT, LAST_POW, MaxMoneyOut, GenesisCoins,
  Supplies       \* amounts of coins in existence

Height == 0 .. (MaxTip + Ahead + OwnAhead)
AnyPayee == Payee \cup {NoPayee}
Vote == [mn : MN, height : Height, payee : AnyPayee]
Adding == [vote : Vote, own : Height \cup {None}]
Entry == [nBlockHeight : Height, nVotes : [AnyPayee -> Nat]]
Saved == [votes : SUBSET Vote, blocks : [Height -> Entry \cup {None}],
          counted : SUBSET Vote]
Unreadable == {None, Corrupt, Foreign}

ASSUME PaymentsAssumption ==
  /\ NoPayee \notin Payee
  /\ None \notin Height \cup Entry \cup Adding
  /\ Foreign # Corrupt
  /\ MessageThread \in Thread
  /\ Signed \subseteq Vote /\ Forged \subseteq Vote /\ Queue \subseteq AnyPayee
  /\ REQUIRED \in Nat \ {0}
  /\ Window \in Nat /\ Ahead \in Nat \ {0} /\ OwnAhead \in Nat
  /\ ReorgDepth \in Nat /\ MaxTip \in Nat /\ MaxOwn \in Nat

(* A vote that can still arrive has not been cleaned away.                 *)
ASSUME LimitsAssumption ==
  \A n \in Limits : n \in Nat /\ Window + ReorgDepth <= n

ASSUME RewardAssumption ==
  /\ COIN \in Nat /\ HALVING \in Nat \ {0} /\ LAST_HEIGHT \in Nat
  /\ 8 * HALVING <= LAST_HEIGHT
  /\ LAST_POW \in Nat \ {0} /\ MaxMoneyOut \in Nat /\ GenesisCoins \in Nat
  /\ Supplies \subseteq Nat

VARIABLES
  tip,                     \* height of the active chain
  best,                    \* the greatest height it ever had
  mapMasternodePayeeVotes, \* the votes recorded
  mapMasternodeBlocks,     \* per height, the payees with their counts
  mapMasternodesLastVote,  \* per masternode, the height of its last vote
  nLastBlockHeight,        \* the last height this node voted for
  adding,                  \* per thread, the recorded vote not yet counted
  counted,                 \* history: the votes in the counts
  disk                     \* mnpayments.dat

vars == <<tip, best, mapMasternodePayeeVotes, mapMasternodeBlocks,
          mapMasternodesLastVote, nLastBlockHeight, adding, counted, disk>>
memory == <<mapMasternodePayeeVotes, mapMasternodeBlocks, counted>>

-----------------------------------------------------------------------------
(* Rewards. *)

(* GetBlockValue: the subsidy halves eight times, once more at the end,    *)
(* and stops at the greatest supply.                                       *)
Subsidy(h) ==
  CASE h = 0                                  -> GenesisCoins
    [] h >= 1 /\ h < HALVING                  -> COIN
    [] h >= HALVING /\ h < 2 * HALVING        -> COIN \div 2
    [] h >= 2 * HALVING /\ h < 3 * HALVING    -> COIN \div 4
    [] h >= 3 * HALVING /\ h < 4 * HALVING    -> COIN \div 8
    [] h >= 4 * HALVING /\ h < 5 * HALVING    -> COIN \div 16
    [] h >= 5 * HALVING /\ h < 6 * HALVING    -> COIN \div 32
    [] h >= 6 * HALVING /\ h < 7 * HALVING    -> COIN \div 64
    [] h >= 7 * HALVING /\ h < 8 * HALVING    -> COIN \div 128
    [] h >= 8 * HALVING /\ h <= LAST_HEIGHT   -> COIN \div 256
    [] OTHER                                  -> COIN \div 512

GetBlockValue(h, supply) ==
  IF supply >= MaxMoneyOut THEN 0
  ELSE IF supply + Subsidy(h) >= MaxMoneyOut THEN MaxMoneyOut - supply
  ELSE Subsidy(h)

(* Three quarters of the reward, nothing before masternodes exist.         *)
GetMasternodePayment(h, blockValue) ==
  IF h < LAST_POW THEN 0 ELSE (3 * blockValue) \div 4

Payment(h, supply) == GetMasternodePayment(h, GetBlockValue(h, supply))

-----------------------------------------------------------------------------
(* The payees of a height.  The entry of a height carries the height again *)
(* (nBlockHeight), which is 0 when operator[] made it.                     *)

NoVotes == [p \in AnyPayee |-> 0]
Empty(h) == [nBlockHeight |-> h, nVotes |-> NoVotes]

Votes(h, p) ==
  IF mapMasternodeBlocks[h] = None THEN 0 ELSE mapMasternodeBlocks[h].nVotes[p]

(* CMasternodeBlockPayees::GetPayee: one with the most votes.              *)
GetPayeeAny(h) == \* mutant: the best so far is not kept
  {p \in AnyPayee : Votes(h, p) > 0}
GetPayee(h) ==
  {p \in AnyPayee : Votes(h, p) > 0 /\ \A q \in AnyPayee : Votes(h, q) <= Votes(h, p)}

Enforced(h) == {p \in AnyPayee : Votes(h, p) >= REQUIRED}

(* IsTransactionValid for a block that pays amount to p.                   *)
IsTransactionValid(h, p, amount, supply) ==
  Enforced(h) # {} =>
    /\ p \in Enforced(h)
    /\ amount >= Payment(mapMasternodeBlocks[h].nBlockHeight, supply)

(* What FillBlockPayee pays in the block after the tip, with the payee of  *)
(* the next height and the reward of the tip's.                            *)
FillBlockPayee(supply) ==
  [payees |-> IF GetPayee(tip + 1) # {} THEN GetPayee(tip + 1) ELSE Payee,
   amount |-> Payment(tip, supply)]

-----------------------------------------------------------------------------
Init ==
  /\ tip = 0 /\ best = 0
  /\ mapMasternodePayeeVotes = {}
  /\ mapMasternodeBlocks = [h \in Height |-> None]
  /\ mapMasternodesLastVote = [m \in MN |-> None]
  /\ nLastBlockHeight = 0
  /\ adding = [t \in Thread |-> None]
  /\ counted = {}
  /\ disk \in {None, Foreign}

(* AddWinningMasternode, the part under its locks: the vote is recorded    *)
(* and its height gets an entry.                                           *)
RecordVote(t, v, own) ==
  /\ tip > 0
  /\ v \notin mapMasternodePayeeVotes
  /\ mapMasternodePayeeVotes' = mapMasternodePayeeVotes \cup {v}
  /\ mapMasternodeBlocks' =
       IF mapMasternodeBlocks[v.height] = None
       THEN [mapMasternodeBlocks EXCEPT ![v.height] = Empty(v.height)]
       ELSE mapMasternodeBlocks
  /\ adding' = [adding EXCEPT ![t] = [vote |-> v, own |-> own]]

(* AddPayee, after the locks; then the vote is relayed, and ProcessBlock   *)
(* remembers the height it voted for.                                      *)
AddPayee(t) ==
  /\ adding[t] # None
  /\ LET v == adding[t].vote
         e == IF mapMasternodeBlocks[v.height] = None THEN Empty(0)
              ELSE mapMasternodeBlocks[v.height]
     IN  /\ mapMasternodeBlocks' = [mapMasternodeBlocks EXCEPT
                ![v.height] = [e EXCEPT !.nVotes[v.payee] = @ + 1]]
         /\ counted' = counted \cup {v}
  /\ nLastBlockHeight' =
       IF adding[t].own = None THEN nLastBlockHeight ELSE adding[t].own
  /\ adding' = [adding EXCEPT ![t] = None]
  /\ UNCHANGED <<tip, best, mapMasternodePayeeVotes, mapMasternodesLastVote, disk>>

InWindow(h) == tip - Window <= h /\ h <= tip + Ahead

(* CanVote: only the last height of each masternode is remembered.         *)
CanVote(m, h) ==
  /\ mapMasternodesLastVote[m] # h
  /\ mapMasternodesLastVote' = [mapMasternodesLastVote EXCEPT ![m] = h]

(* "mnw" with a vote that passes all checks and is new.                    *)
Mnw(v) ==
  /\ adding[MessageThread] = None
  /\ InWindow(v.height)
  /\ CanVote(v.mn, v.height)
  /\ RecordVote(MessageThread, v, None)
  /\ UNCHANGED <<tip, best, nLastBlockHeight, counted, disk>>

(* "mnw" with a bad signature, or before the first block: CanVote has      *)
(* taken note of it by then.  (What is refused earlier changes nothing.)   *)
MnwNotAdded(v) ==
  /\ adding[MessageThread] = None
  /\ v \notin mapMasternodePayeeVotes
  /\ InWindow(v.height)
  /\ v \in Forged \/ tip = 0
  /\ CanVote(v.mn, v.height)
  /\ UNCHANGED <<tip, best, mapMasternodePayeeVotes, mapMasternodeBlocks,
                 nLastBlockHeight, adding, counted, disk>>

(* ProcessBlock: this node votes for the block OwnAhead of the tip.  On a  *)
(* budget block, or with nobody to pay, it signs an empty vote whose       *)
(* height is still 0.                                                      *)
ProcessBlock(t, p) ==
  /\ adding[t] = None
  /\ tip + OwnAhead > nLastBlockHeight /\ tip + OwnAhead <= MaxOwn
  /\ LET h == IF p = NoPayee THEN 0 ELSE tip + OwnAhead
     IN  RecordVote(t, [mn |-> Self, height |-> h, payee |-> p], tip + OwnAhead)
  /\ UNCHANGED <<tip, best, mapMasternodesLastVote, nLastBlockHeight, counted, disk>>

(* CleanPaymentList: votes that are too old, and the entries of their      *)
(* heights.                                                                *)
CleanBlocksOnly(limit) == \* mutant: the votes of a removed entry are kept
  /\ mapMasternodeBlocks' = [h \in Height |->
       IF \E v \in mapMasternodePayeeVotes : v.height = h /\ tip - h > limit
       THEN None ELSE mapMasternodeBlocks[h]]
  /\ counted' = {v \in counted : mapMasternodeBlocks'[v.height] # None}
  /\ UNCHANGED <<tip, best, mapMasternodePayeeVotes, mapMasternodesLastVote,
                 nLastBlockHeight, adding, disk>>
CleanPaymentList(limit) ==
  LET old == {v \in mapMasternodePayeeVotes : tip - v.height > limit}
      gone == {v.height : v \in old}
  IN  /\ old # {}
      /\ mapMasternodePayeeVotes' = mapMasternodePayeeVotes \ old
      /\ mapMasternodeBlocks' = [h \in Height |->
           IF h \in gone THEN None ELSE mapMasternodeBlocks[h]]
      /\ counted' = {v \in counted : v.height \notin gone}
      /\ UNCHANGED <<tip, best, mapMasternodesLastVote, nLastBlockHeight,
                     adding, disk>>

(* DumpMasternodePayments at a clean shutdown, when the threads are joined. *)
(* A file that cannot be verified is not written over; one that is missing *)
(* or of another format is.                                                *)
DumpMasternodePayments ==
  /\ \A t \in Thread : adding[t] = None
  /\ disk # Corrupt
  /\ disk' = [votes |-> mapMasternodePayeeVotes, blocks |-> mapMasternodeBlocks,
              counted |-> counted]
  /\ UNCHANGED <<tip, best, memory, mapMasternodesLastVote, nLastBlockHeight, adding>>

(* The process dies while it writes the file.                              *)
TornWrite ==
  /\ \A t \in Thread : adding[t] = None
  /\ disk' = Corrupt
  /\ UNCHANGED <<tip, best, memory, mapMasternodesLastVote, nLastBlockHeight, adding>>

(* The node starts, after a shutdown or a crash at any point: the file is  *)
(* loaded if it is good, everything else begins empty.  (The cleaning that *)
(* Read calls may find cs_main busy; it is CleanPaymentList's step.)       *)
Started ==
  /\ mapMasternodesLastVote' = [m \in MN |-> None]
  /\ nLastBlockHeight' = 0
  /\ adding' = [t \in Thread |-> None]
  /\ UNCHANGED <<tip, best, disk>>
RestartWithoutVotes == \* mutant: the votes are not serialized
  /\ disk \notin Unreadable
  /\ mapMasternodePayeeVotes' = {}
  /\ mapMasternodeBlocks' = disk.blocks
  /\ counted' = disk.counted
  /\ Started
Restart ==
  /\ IF disk \in Unreadable
     THEN /\ mapMasternodePayeeVotes' = {}
          /\ mapMasternodeBlocks' = [h \in Height |-> None]
          /\ counted' = {}
     ELSE /\ mapMasternodePayeeVotes' = disk.votes
          /\ mapMasternodeBlocks' = disk.blocks
          /\ counted' = disk.counted
  /\ Started

(* Blocks are connected, or the chain is rolled back a little.             *)
NewTip(h) ==
  /\ h \in 0 .. MaxTip
  /\ h # tip /\ h <= tip + 1
  /\ h >= best - ReorgDepth
  /\ tip' = h
  /\ best' = IF h > best THEN h ELSE best
  /\ UNCHANGED <<memory, mapMasternodesLastVote, nLastBlockHeight, adding, disk>>

Next ==
  \/ \E t \in Thread : AddPayee(t)
  \/ \E v \in Signed : Mnw(v)
  \/ \E v \in Signed \cup Forged : MnwNotAdded(v)
  \/ \E t \in Thread, p \in Queue : ProcessBlock(t, p)
  \/ \E n \in Limits : CleanPaymentList(n)
  \/ DumpMasternodePayments
  \/ TornWrite
  \/ Restart
  \/ \E h \in 0 .. MaxTip : NewTip(h)

Spec == Init /\ [][Next]_vars

-----------------------------------------------------------------------------
(* Properties *)

(* Type invariant.                                                         *)
TypeOK ==
  /\ tip \in 0 .. MaxTip /\ best \in 0 .. MaxTip
  /\ mapMasternodePayeeVotes \subseteq Vote
  /\ mapMasternodeBlocks \in [Height -> Entry \cup {None}]
  /\ mapMasternodesLastVote \in [MN -> Height \cup {None}]
  /\ nLastBlockHeight \in Height
  /\ adding \in [Thread -> Adding \cup {None}]
  /\ counted \subseteq Vote
  /\ disk \in Saved \cup Unreadable

InFlight == {adding[t].vote : t \in {u \in Thread : adding[u] # None}}
Voters(h, p) == {m \in MN : [mn |-> m, height |-> h, payee |-> p] \in counted}

(* A recorded vote whose counting is over is in the counts: no cleaning,   *)
(* concurrent vote or restart leaves a vote that would be refused as seen  *)
(* and yet does not count.                                                 *)
RecordedIsCounted == mapMasternodePayeeVotes \subseteq counted \cup InFlight

(* A payee is enforced (IsTransactionValid) only with the votes of         *)
(* REQUIRED different masternodes: none counts twice, though votes are     *)
(* counted outside the locks, cleaned, lost in a crash and sent again.     *)
EnforcedHasQuorum ==
  \A h \in Height \ {0} : \A p \in Enforced(h) :
    Cardinality(Voters(h, p)) >= REQUIRED

(* A block this node makes passes its own check of the payee: FillBlockPayee *)
(* pays by the tip's height what IsTransactionValid asks by the next one's. *)
(* Only the block at LAST_POW is different, as nothing is paid before.     *)
OwnBlockAccepted ==
  \A s \in Supplies : LET f == FillBlockPayee(s) IN
    tip >= LAST_POW =>
      \A p \in f.payees : IsTransactionValid(tip + 1, p, f.amount, s)

=============================================================================
