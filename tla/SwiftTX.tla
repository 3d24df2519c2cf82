------------------------------- MODULE SwiftTX -------------------------------
(***************************************************************************)
(* SwiftTX: instant transaction locks of one node (swifttx.cpp) together   *)
(* with the two consumers of its lock table, the memory pool and the       *)
(* active chain (AcceptToMemoryPool, CheckBlock, ReprocessBlocks).         *)
(*                                                                         *)
(* A transaction is its hash; vin gives its inputs in order.  A lock       *)
(* request ("ix") and the masternodes' votes ("txlvote") arrive in any     *)
(* order, more than once or never.  Time is kept as the number of ticks a  *)
(* lock has left: nExpiration = -1 is GetTime() > nExpiration.  The        *)
(* outcomes that depend on data outside this module are chosen by the      *)
(* environment: how old a transaction's inputs are at a request (the       *)
(* height h that CreateNewLock computes from them, 0 when one is younger   *)
(* than five blocks), whether the pool's policy rules admit it (policy),   *)
(* whether a vote's masternode is ranked in the top                        *)
(* SWIFTTX_SIGNATURES_TOTAL and its signature verifies (CountVote and      *)
(* CompleteVote, else DiscardVote).                                        *)
(***************************************************************************)
EXTENDS Integers, Sequences, FiniteSets

CONSTANTS Tx,          \* transaction hashes
          Input,       \* outpoints
          vin,         \* vin[t]: the outpoints t spends, in order
          MN,          \* masternodes (their collateral outpoints)
          NoTx,        \* an outpoint nobody has locked
          Self,        \* activeMasternode.vin, or NoTx when ~fMasterNode
          Height,      \* block heights a vote may name (0 is the unset height)
          SIGNATURES_REQUIRED,  \* SWIFTTX_SIGNATURES_REQUIRED
          LockTicks,   \* ticks in the hour a lock is kept
          REPLAYED,    \* blocks ReprocessBlocks(15) disconnects: 16 in the code
          MaxChain     \* bound: blocks in the modelled chain

ASSUME VinAssumption == vin \in [Tx -> Seq(Input)]
ASSUME HeightAssumption == /\ Height \subseteq Nat
                           /\ 0 \in Height
ASSUME NoTxAssumption == NoTx \notin Tx /\ NoTx \notin MN
ASSUME SelfAssumption == Self \in MN \cup {NoTx}
ASSUME BoundsAssumption == /\ SIGNATURES_REQUIRED \in Nat \ {0}
                           /\ LockTicks \in Nat \ {0}
                           /\ REPLAYED \in Nat
                           /\ MaxChain \in Nat
                           /\ IsFiniteSet(MN) /\ IsFiniteSet(Height)

VARIABLES
  mapTxLockReq,          \* [Tx -> {"absent", "tx", "empty"}]: the request map,
                         \* "empty" is a default-constructed CTransaction
  mapTxLockReqRejected,  \* requests the memory pool refused
  mapTxLockVote,         \* keys of the votes seen: <<tx, masternode>>
  mapTxLocks,            \* [Tx -> Lock or NoLock]
  mapLockedInputs,       \* [Input -> Tx or NoTx]
  mempool,               \* transactions in the memory pool
  chain,                 \* the active chain: the transactions of each block
  blockFiltering         \* IsSporkActive(SPORK_3_SWIFTTX_BLOCK_FILTERING)

lockVars == <<mapTxLockReq, mapTxLockReqRejected, mapTxLockVote,
              mapTxLocks, mapLockedInputs>>
vars == <<lockVars, mempool, chain, blockFiltering>>

-----------------------------------------------------------------------------
(* Data *)

Ins(t) == {vin[t][i] : i \in DOMAIN vin[t]}
Conflict(t, u) == t # u /\ Ins(t) \cap Ins(u) # {}

(* CConsensusVote::GetHash leaves out nBlockHeight: the key of a vote is   *)
(* its masternode and its transaction.                                     *)
VoteKey(t, m) == <<t, m>>

(* vecConsensusVotes is kept as a set of <<masternode, height>>: VotesOnce *)
(* below shows that AddSignature never gets a vote twice.                  *)
NoLock == [nBlockHeight |-> 0, nExpiration |-> 0, votes |-> {}, held |-> FALSE]
Lock == [nBlockHeight : Height, nExpiration : -1 .. LockTicks,
         votes : SUBSET (MN \X Height), held : {TRUE}]
NewLock(h) == [nBlockHeight |-> h, nExpiration |-> LockTicks, votes |-> {},
               held |-> TRUE]

(* CountSignatures counts the votes that name the lock's own height; a     *)
(* lock made by votes alone has height 0 and counts as -1.                 *)
CountSignatures(l) ==
  IF l.nBlockHeight = 0 THEN -1
  ELSE Cardinality({v \in l.votes : v[2] = l.nBlockHeight})
Enough(l) == CountSignatures(l) >= SIGNATURES_REQUIRED
Complete(t) == mapTxLocks[t].held /\ Enough(mapTxLocks[t])

-----------------------------------------------------------------------------
(* The memory pool and the chain *)

(* No input of t is locked by another transaction.                         *)
Compatible(t, locked) == \A o \in Ins(t) : locked[o] \in {NoTx, t}

InChain == UNION {chain[i] : i \in DOMAIN chain}

(* CheckBlock's scan, which SPORK_3 switches off: no transaction of the    *)
(* block spends an input locked by another one.                            *)
PassesFilter(B, locked) ==
  blockFiltering => \A t \in B : Compatible(t, locked)

(* The conditions of AcceptToMemoryPool that concern locks and inputs.     *)
AcceptableIgnoringLocks(t) ==   \* mutant: no lock scan
  /\ t \notin mempool \cup InChain
  /\ \A u \in mempool \cup InChain : ~Conflict(t, u)
Acceptable(t) ==
  /\ t \notin mempool
  /\ Compatible(t, mapLockedInputs)
  /\ \A u \in mempool \cup InChain : ~Conflict(t, u)
  /\ t \notin InChain

(* ReprocessBlocks(15) disconnects the last REPLAYED blocks, offers what   *)
(* they held to the pool and connects the best chain again: CheckBlock     *)
(* stops it at the first of them that its filter refuses.  The blocks      *)
(* below stay whatever they spend.                                         *)
KeptUnfiltered(locked) == 0 .. Len(chain) \* mutant: CheckBlock filters nothing
Kept(locked) ==
  {n \in 0 .. Len(chain) : \A i \in 1 .. n :
     i > Len(chain) - REPLAYED => PassesFilter(chain[i], locked)}
ReprocessBlocks(locked) ==
  \E n \in Kept(locked) :
    /\ \A k \in Kept(locked) : k <= n
    /\ chain' = SubSeq(chain, 1, n)
    /\ mempool' = mempool \cup {t \in UNION {chain[i] : i \in (n + 1) .. Len(chain)} :
                                  Compatible(t, locked)}

-----------------------------------------------------------------------------
(* Lock table *)

(* CreateNewLock: an input younger than five blocks leaves the table as it *)
(* is; a lock that exists keeps its votes and gets the height, which each  *)
(* call computes anew from the age of the first input: it is another one   *)
(* only when a reorganisation has moved that input.                        *)
CreateNewLockAlways(t, h) ==    \* mutant: an existing lock is replaced
  IF h = 0 THEN mapTxLocks
  ELSE [mapTxLocks EXCEPT ![t] = NewLock(h)]
CreateNewLock(t, h) ==
  IF h = 0 THEN mapTxLocks
  ELSE [mapTxLocks EXCEPT ![t] =
          IF @.held THEN [@ EXCEPT !.nBlockHeight = h] ELSE NewLock(h)]

(* CheckForConflictingLocks: the first input of t that another transaction *)
(* has locked ends the locks of both.  spent is what the code iterates     *)
(* over: the inputs of t, or none for an empty transaction.                *)
ConflictAt(t) ==
  {i \in DOMAIN vin[t] : mapLockedInputs[vin[t][i]] \notin {NoTx, t}}
FirstHolder(t) ==
  mapLockedInputs[vin[t][CHOOSE i \in ConflictAt(t) :
                           \A j \in ConflictAt(t) : i <= j]]
ExpireInAnHour(locks, S) ==     \* mutant: the expiry of a new lock
  [u \in Tx |-> IF u \in S /\ locks[u].held
                THEN [locks[u] EXCEPT !.nExpiration = LockTicks] ELSE locks[u]]
Expire(locks, S) ==
  [u \in Tx |-> IF u \in S /\ locks[u].held
                THEN [locks[u] EXCEPT !.nExpiration = 0] ELSE locks[u]]

(* Inputs that nobody has locked become locked by t.                       *)
LockInputsOverwriting(t) ==     \* mutant: operator[] instead of insert
  [o \in Input |-> IF o \in Ins(t) THEN t ELSE mapLockedInputs[o]]
LockInputs(t) ==
  [o \in Input |-> IF o \in Ins(t) /\ mapLockedInputs[o] = NoTx
                   THEN t ELSE mapLockedInputs[o]]

-----------------------------------------------------------------------------
(* Actions *)

Init ==
  /\ mapTxLockReq = [t \in Tx |-> "absent"]
  /\ mapTxLockReqRejected = {}
  /\ mapTxLockVote = {}
  /\ mapTxLocks = [t \in Tx |-> NoLock]
  /\ mapLockedInputs = [o \in Input |-> NoTx]
  /\ mempool = {}
  /\ chain = << >>
  /\ blockFiltering = TRUE    \* SPORK_3_SWIFTTX_BLOCK_FILTERING_DEFAULT

(* "ix" is ignored when the request is already known, in either map.       *)
Unknown(t) == mapTxLockReq[t] = "absent" /\ t \notin mapTxLockReqRejected

(* "ix" for a transaction the memory pool takes.  A masternode in the top  *)
(* ranks records and relays its own vote (DoConsensusVote) without adding  *)
(* it to its own lock.                                                     *)
IxAccepted(t, h, votes) ==
  /\ Unknown(t)
  /\ Acceptable(t)
  /\ votes => Self # NoTx
  /\ mapTxLocks' = CreateNewLock(t, h)
  /\ mempool' = mempool \cup {t}
  /\ mapTxLockVote' = IF votes THEN mapTxLockVote \cup {VoteKey(t, Self)}
                      ELSE mapTxLockVote
  /\ mapTxLockReq' = [mapTxLockReq EXCEPT ![t] = "tx"]
  /\ UNCHANGED <<mapTxLockReqRejected, mapLockedInputs, chain, blockFiltering>>

(* "ix" for a transaction the memory pool refuses, for a conflict or for   *)
(* any of its policy rules: its free inputs are locked at once.  If votes  *)
(* already completed the lock, conflicting locks end or the chain is       *)
(* reprocessed in its favour.                                              *)
IxRejected(t, h) ==
  /\ Unknown(t)
  /\ mapTxLockReqRejected' = mapTxLockReqRejected \cup {t}
  /\ mapLockedInputs' = LockInputs(t)
  /\ LET locks == CreateNewLock(t, h)
     IN IF ~(locks[t].held /\ Enough(locks[t]))
        THEN /\ mapTxLocks' = locks
             /\ UNCHANGED <<mapTxLockReq, mempool, chain>>
        ELSE IF ConflictAt(t) # {}
        THEN /\ mapTxLocks' = Expire(locks, {t, FirstHolder(t)})
             /\ UNCHANGED <<mapTxLockReq, mempool, chain>>
        ELSE /\ mapTxLocks' = locks
             /\ ReprocessBlocks(LockInputs(t))
             /\ mapTxLockReq' = [mapTxLockReq EXCEPT ![t] = "tx"]
  /\ UNCHANGED <<mapTxLockVote, blockFiltering>>

(* CWalletTx::RelayWalletTransaction("ix"): the wallet has the transaction *)
(* in the pool already.  An entry that exists is not overwritten.          *)
WalletSendIx(t, h) ==
  /\ t \in mempool
  /\ mapTxLockReq' = [mapTxLockReq EXCEPT ![t] = IF @ = "absent" THEN "tx" ELSE @]
  /\ mapTxLocks' = CreateNewLock(t, h)
  /\ UNCHANGED <<mapTxLockReqRejected, mapTxLockVote, mapLockedInputs,
                 mempool, chain, blockFiltering>>

(* sendrawtransaction with the SwiftTX flag: the request is recorded       *)
(* before the memory pool decides, and stays when it refuses.              *)
RpcSendIx(t, h, policy) ==
  /\ t \notin mempool /\ t \notin InChain
  /\ mapTxLockReq' = [mapTxLockReq EXCEPT ![t] = IF @ = "absent" THEN "tx" ELSE @]
  /\ mapTxLocks' = CreateNewLock(t, h)
  /\ mempool' = IF policy /\ Acceptable(t) THEN mempool \cup {t} ELSE mempool
  /\ UNCHANGED <<mapTxLockReqRejected, mapTxLockVote, mapLockedInputs, chain,
                 blockFiltering>>

(* A "tx" message: AcceptToMemoryPool without a lock request.              *)
AcceptTx(t) ==
  /\ Acceptable(t)
  /\ mempool' = mempool \cup {t}
  /\ UNCHANGED <<lockVars, chain, blockFiltering>>

(* "txlvote": the key is recorded before the vote is judged, so a vote     *)
(* that does not count now is never looked at again.                       *)
DiscardVote(t, m) ==
  /\ VoteKey(t, m) \notin mapTxLockVote
  /\ mapTxLockVote' = mapTxLockVote \cup {VoteKey(t, m)}
  /\ UNCHANGED <<mapTxLockReq, mapTxLockReqRejected, mapTxLocks,
                 mapLockedInputs, mempool, chain, blockFiltering>>

(* The lock of t with the vote of m added (ProcessConsensusVote); votes    *)
(* that come before the request make a lock of height 0.                   *)
AddSignatureTrustingHeight(t, m, h) == \* mutant: the vote sets the height
  LET l == IF mapTxLocks[t].held THEN mapTxLocks[t] ELSE NewLock(h)
  IN [mapTxLocks EXCEPT ![t] = [l EXCEPT !.votes = @ \cup {<<m, h>>}]]
AddSignature(t, m, h) ==
  LET l == IF mapTxLocks[t].held THEN mapTxLocks[t] ELSE NewLock(0)
  IN [mapTxLocks EXCEPT ![t] = [l EXCEPT !.votes = @ \cup {<<m, h>>}]]

(* A vote that leaves the lock incomplete.                                 *)
CountVoteAgain(t, m, h) ==      \* mutant: no look at mapTxLockVote
  /\ mapTxLockVote' = mapTxLockVote \cup {VoteKey(t, m)}
  /\ ~Enough(AddSignature(t, m, h)[t])
  /\ mapTxLocks' = AddSignature(t, m, h)
  /\ UNCHANGED <<mapTxLockReq, mapTxLockReqRejected, mapLockedInputs,
                 mempool, chain, blockFiltering>>
CountVote(t, m, h) ==
  /\ VoteKey(t, m) \notin mapTxLockVote
  /\ mapTxLockVote' = mapTxLockVote \cup {VoteKey(t, m)}
  /\ ~Enough(AddSignature(t, m, h)[t])
  /\ mapTxLocks' = AddSignature(t, m, h)
  /\ UNCHANGED <<mapTxLockReq, mapTxLockReqRejected, mapLockedInputs,
                 mempool, chain, blockFiltering>>

(* A vote that completes the lock, or comes after it was complete.         *)
(* mapTxLockReq[hash] default-constructs an empty transaction when the     *)
(* request is not there: it has no inputs to conflict with or to lock.     *)
CompleteVote(t, m, h) ==
  LET request == IF mapTxLockReq[t] = "absent" THEN "empty" ELSE mapTxLockReq[t]
      locks == AddSignature(t, m, h)
      conflict == request = "tx" /\ ConflictAt(t) # {}
      locked == IF request = "tx" THEN LockInputs(t) ELSE mapLockedInputs
  IN /\ VoteKey(t, m) \notin mapTxLockVote
     /\ mapTxLockVote' = mapTxLockVote \cup {VoteKey(t, m)}
     /\ Enough(locks[t])
     /\ mapTxLockReq' = [mapTxLockReq EXCEPT ![t] = request]
     /\ IF conflict
        THEN /\ mapTxLocks' = Expire(locks, {t, FirstHolder(t)})
             /\ UNCHANGED <<mapLockedInputs, mempool, chain>>
        ELSE /\ mapTxLocks' = locks
             /\ mapLockedInputs' = locked
             /\ IF t \in mapTxLockReqRejected THEN ReprocessBlocks(locked)
                ELSE UNCHANGED <<mempool, chain>>
     /\ UNCHANGED <<mapTxLockReqRejected, blockFiltering>>

(* CleanTransactionLocksList.  The inputs of the request are released      *)
(* whoever holds them; a lock without a request is dropped alone.          *)
CleanTransactionLocksList ==
  LET expired == {t \in Tx : mapTxLocks[t].held /\ mapTxLocks[t].nExpiration < 0}
      known == {t \in expired : mapTxLockReq[t] # "absent"}
      released == UNION {Ins(t) : t \in {u \in known : mapTxLockReq[u] = "tx"}}
  IN /\ expired # {}
     /\ mapLockedInputs' = [o \in Input |-> IF o \in released THEN NoTx
                                            ELSE mapLockedInputs[o]]
     /\ mapTxLockReq' = [t \in Tx |-> IF t \in known THEN "absent"
                                      ELSE mapTxLockReq[t]]
     /\ mapTxLockReqRejected' = mapTxLockReqRejected \ known
     /\ mapTxLockVote' = {k \in mapTxLockVote :
          ~(k[1] \in known /\ \E v \in mapTxLocks[k[1]].votes : v[1] = k[2])}
     /\ mapTxLocks' = [t \in Tx |-> IF t \in expired THEN NoLock
                                    ELSE mapTxLocks[t]]
     /\ UNCHANGED <<mempool, chain, blockFiltering>>

(* A block with the transactions B extends the active chain (CheckBlock,   *)
(* ConnectTip); what conflicts with it leaves the pool.                    *)
ConnectBlock(B) ==
  /\ Len(chain) < MaxChain
  /\ B \cap InChain = {}
  /\ \A t \in B, u \in InChain \cup B : ~Conflict(t, u)
  /\ PassesFilter(B, mapLockedInputs)
  /\ chain' = Append(chain, B)
  /\ mempool' = {u \in mempool : u \notin B /\ \A t \in B : ~Conflict(t, u)}
  /\ UNCHANGED <<lockVars, blockFiltering>>

(* A reorganisation takes the tip off the active chain (DisconnectTip).    *)
DisconnectTip ==
  /\ chain # << >>
  /\ mempool' = mempool \cup {t \in chain[Len(chain)] : Compatible(t, mapLockedInputs)}
  /\ chain' = SubSeq(chain, 1, Len(chain) - 1)
  /\ UNCHANGED <<lockVars, blockFiltering>>

(* A spork message switches block filtering, or its time comes.            *)
SwitchBlockFiltering ==
  /\ blockFiltering' = ~blockFiltering
  /\ UNCHANGED <<lockVars, mempool, chain>>

(* Time passes for the locks that have not expired.                        *)
Tick ==
  /\ \E t \in Tx : mapTxLocks[t].held /\ mapTxLocks[t].nExpiration >= 0
  /\ mapTxLocks' = [t \in Tx |->
       IF mapTxLocks[t].held /\ mapTxLocks[t].nExpiration >= 0
       THEN [mapTxLocks[t] EXCEPT !.nExpiration = @ - 1] ELSE mapTxLocks[t]]
  /\ UNCHANGED <<mapTxLockReq, mapTxLockReqRejected, mapTxLockVote,
                 mapLockedInputs, mempool, chain, blockFiltering>>

Next ==
  \/ \E t \in Tx, h \in Height, votes \in BOOLEAN : IxAccepted(t, h, votes)
  \/ \E t \in Tx, h \in Height : IxRejected(t, h)
  \/ \E t \in Tx, h \in Height : WalletSendIx(t, h)
  \/ \E t \in Tx, h \in Height, policy \in BOOLEAN : RpcSendIx(t, h, policy)
  \/ \E t \in Tx : AcceptTx(t)
  \/ \E t \in Tx, m \in MN : DiscardVote(t, m)
  \/ \E t \in Tx, m \in MN, h \in Height : CountVote(t, m, h)
  \/ \E t \in Tx, m \in MN, h \in Height : CompleteVote(t, m, h)
  \/ CleanTransactionLocksList
  \/ \E B \in SUBSET Tx : ConnectBlock(B)
  \/ DisconnectTip
  \/ SwitchBlockFiltering
  \/ Tick

Spec == Init /\ [][Next]_vars

-----------------------------------------------------------------------------
(* Properties *)

(* Type invariant: a lock is a record of a lock or the value NoLock, input *)
(* locks and votes name known transactions and masternodes.                *)
TypeOK ==
  /\ mapTxLockReq \in [Tx -> {"absent", "tx", "empty"}]
  /\ mapTxLockReqRejected \subseteq Tx
  /\ mapTxLockVote \subseteq (Tx \X MN)
  /\ mapTxLocks \in [Tx -> Lock \cup {NoLock}]
  /\ mapLockedInputs \in [Input -> Tx \cup {NoTx}]
  /\ mempool \subseteq Tx
  /\ chain \in Seq(SUBSET Tx)
  /\ blockFiltering \in BOOLEAN

(* A masternode is counted once per lock, whatever heights its votes name: *)
(* every vote in a lock has its key in mapTxLockVote for as long as the    *)
(* lock lives, across expiry and a second request for the transaction.     *)
VotesOnce ==
  \A t \in Tx : \A v \in mapTxLocks[t].votes :
    /\ VoteKey(t, v[1]) \in mapTxLockVote
    /\ \A w \in mapTxLocks[t].votes : w[1] = v[1] => w = v

(* A lock that can complete (its height is set) belongs to a request the   *)
(* node knows, and a request without its transaction only stands for a     *)
(* rejected one: the operator[] of line 351 is reached with an unknown     *)
(* request only after a rejection.                                         *)
RequestBehindLock ==
  \A t \in Tx :
    /\ mapTxLocks[t].nBlockHeight # 0 => ~Unknown(t)
    /\ mapTxLockReq[t] = "empty" => t \in mapTxLockReqRejected

(* A transaction that enters the pool conflicts with no input lock in      *)
(* force after the step, on every path: relay, request, RPC, disconnected  *)
(* block, reprocessing.  One that enters the chain does so only while      *)
(* SPORK_3 has block filtering switched off.                               *)
LockedInputsRespected ==
  [][\A t \in Tx :
       (\/ t \in mempool' /\ t \notin mempool
        \/ blockFiltering /\ t \in InChain' /\ t \notin InChain)
         => Compatible(t, mapLockedInputs')]_vars

(* The first lock of an input wins: it passes to no other transaction, and *)
(* only the cleaning of an expired lock releases it.                       *)
FirstLockWins ==
  [][\A o \in Input : mapLockedInputs'[o] # mapLockedInputs[o] =>
       \/ mapLockedInputs[o] = NoTx
       \/ /\ mapLockedInputs'[o] = NoTx
          /\ \E t \in Tx : /\ o \in Ins(t)
                           /\ mapTxLocks[t].held
                           /\ mapTxLocks[t].nExpiration < 0]_vars

(* The confirmations a complete lock shows (GetIXConfirmations) are not    *)
(* taken back before the lock expires: no later vote, request or resend    *)
(* makes a complete lock incomplete, unless the request is repeated after  *)
(* a reorganisation that moved its input to another height.                *)
CompleteIsStable ==
  [][\A t \in Tx :
       mapTxLocks'[t] # mapTxLocks[t] /\ Complete(t) =>
         \/ Complete(t)'
         \/ mapTxLocks[t].nExpiration < 0
         \/ mapTxLocks'[t].nBlockHeight # mapTxLocks[t].nBlockHeight]_vars

(* While blocks are filtered, a vote or a request message that leaves a    *)
(* rejected request with a complete lock on all its inputs removes, in the *)
(* same step, the blocks that spend those inputs, if they are among the    *)
(* last REPLAYED blocks of the active chain.                               *)
RejectedThenLocked ==
  [][\A t \in Tx :
       (/\ blockFiltering
        /\ t \in mapTxLockReqRejected'
        /\ \/ mapTxLocks[t].votes # mapTxLocks'[t].votes
           \/ t \notin mapTxLockReqRejected
        /\ Complete(t)'
        /\ \A o \in Ins(t) : mapLockedInputs'[o] = t)
       => \A i \in DOMAIN chain' : i > Len(chain) - REPLAYED =>
            \A u \in chain'[i] : ~Conflict(t, u)]_vars

(* Repeated requests, resends and votes do not prolong a lock.  The one    *)
(* thing that moves an expiry forward is the cancellation of conflicting   *)
(* locks: it gives a lock that has expired but is not yet cleaned the      *)
(* present second, and each time uses up a vote or a rejected request the  *)
(* node had not seen.  When the cleaning drops a lock, the inputs of its   *)
(* known request are free again.                                           *)
LocksEnd ==
  [][\A t \in Tx : mapTxLocks[t].held =>
       IF mapTxLocks'[t].held
       THEN \/ mapTxLocks'[t].nExpiration <= mapTxLocks[t].nExpiration
            \/ /\ mapTxLocks'[t].nExpiration = 0
               /\ \/ mapTxLockVote' \ mapTxLockVote # {}
                  \/ mapTxLockReqRejected' \ mapTxLockReqRejected # {}
       ELSE mapTxLockReq[t] = "tx" =>
              \A o \in Ins(t) : mapLockedInputs'[o] = NoTx]_vars

(* Fairness: the clock advances, and ThreadMasternodePool calls            *)
(* CleanTransactionLocksList once a minute.  Messages, blocks and RPC      *)
(* calls may never come.                                                   *)
FairSpec == Spec /\ WF_vars(Tick) /\ WF_vars(CleanTransactionLocksList)

(* No lock lives forever: whatever votes and cancellations do to its       *)
(* expiry, the periodic cleaning drops it, and the inputs it had locked    *)
(* for a known request are free again.                                     *)
LocksExpire ==
  \A t \in Tx :
    /\ mapTxLocks[t].held ~> ~mapTxLocks[t].held
    /\ (mapTxLocks[t].held /\ mapTxLockReq[t] = "tx")
         ~> \A o \in Ins(t) : mapLockedInputs[o] # t

-----------------------------------------------------------------------------
(* swifttx.h 50, "if two conflicting locks are approved by the network,    *)
(* they will cancel out": once votes have completed both, both are at      *)
(* their end.  Stated where CheckForConflictingLocks has the chance to     *)
(* act, on the step of a vote.                                             *)
ConflictingLocksCancel ==
  [][\A t, u \in Tx :
       (/\ Conflict(t, u)
        /\ mapTxLocks[t].votes # mapTxLocks'[t].votes
        /\ Complete(t)' /\ Complete(u)')
       => mapTxLocks'[t].nExpiration <= 0 /\ mapTxLocks'[u].nExpiration <= 0]_vars

(* main.cpp 3159, "only reject blocks when it's based on complete          *)
(* consensus": an input lock that CheckBlock's scan would act on belongs   *)
(* to a complete lock.  A rejected request breaks it at once.              *)
ConsensusBehindFilter ==
  \A o \in Input : mapLockedInputs[o] # NoTx => Complete(mapLockedInputs[o])

=============================================================================
