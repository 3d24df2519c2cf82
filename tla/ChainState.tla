----------------------------- MODULE ChainState -----------------------------
(***************************************************************************)
(* The block tree and the choice of the active chain (main.cpp): headers   *)
(* and blocks arrive in any order, ActivateBestChain moves the tip one     *)
(* ActivateBestChainStep at a time and releases cs_main in between, the    *)
(* operator invalidates and reconsiders blocks, and a completed SwiftTX    *)
(* lock makes the node replay its last blocks (ReprocessBlocks).  A block  *)
(* is its index entry.  nTx and disk positions are HAVE_DATA; blocks are   *)
(* never pruned, so the missing-data branch of FindMostWorkChain is dead   *)
(* (CheckBlockIndex).  pindexBestInvalid only feeds warnings.             *)
(***************************************************************************)
EXTENDS Integers, FiniteSets

CONSTANTS Block, Genesis,
          Parent,         \* pprev, for every block but Genesis
          Anc,            \* Anc[b]: b and its ancestors (GetAncestor)
          Work,           \* nChainWork
          Scenes,         \* bound: what may happen (Scene)
          None

ASSUME TreeAssumption ==
  /\ IsFiniteSet(Block) /\ Genesis \in Block
  /\ Parent \in [Block \ {Genesis} -> Block]
  /\ Anc \in [Block -> SUBSET Block]
  /\ Anc[Genesis] = {Genesis}
  /\ \A b \in Block \ {Genesis} : b \notin Anc[Parent[b]] /\ Anc[b] = {b} \cup Anc[Parent[b]]
ASSUME WorkAssumption ==
  /\ Work \in [Block -> Nat]
  /\ \A b \in Block \ {Genesis} : Work[b] > Work[Parent[b]]
ASSUME NoneAssumption == None \notin Block /\ \A S \in SUBSET Block : S # None

Scene ==
  [offered  : SUBSET Block,            \* blocks that peers send
   invalid  : SUBSET Block,            \* blocks ConnectBlock always refuses
   lockable : SUBSET Block,            \* blocks that may conflict with a SwiftTX lock
   fragile  : SUBSET Block,            \* blocks whose stored copy may be damaged
   operator : BOOLEAN,                 \* invalidateblock, reconsiderblock are used
   depth    : Nat]                     \* blocks ReprocessBlocks takes back; 0: not called
ASSUME SceneAssumption ==
  Scenes \subseteq Scene /\ \A x \in Scenes : Genesis \notin x.invalid \cup x.lockable

VARIABLES
  scene,        \* what may happen in this run, one of Scenes
  index,        \* mapBlockIndex
  data,         \* BLOCK_HAVE_DATA
  chainTx,      \* nChainTx # 0: the block and its ancestors have data
  nSequenceId,  \* order in which blocks were linked, 0 before
  unlinked,     \* blocks in mapBlocksUnlinked, under their parent
  failedValid,  \* BLOCK_FAILED_VALID
  failedChild,  \* BLOCK_FAILED_CHILD
  candidates,   \* setBlockIndexCandidates
  tip,          \* chainActive.Tip()
  pending,      \* a caller of ActivateBestChain is not done
  checked,      \* the block it hands over as already checked, or None
  locked,       \* blocks in conflict with the input locks now
  rejected,     \* mapRejectedBlocks
  damaged,      \* blocks whose transactions were damaged on disk
  replay,       \* rejected blocks ReprocessBlocks has still to visit, or None
  passed,       \* history: blocks that have been active
  odd           \* history: what the bookkeeping does not recover from (Oddity)

tree == <<index, data, chainTx, nSequenceId, unlinked>>
locks == <<locked, rejected, damaged, replay>>
history == <<passed, odd>>
vars == <<scene, tree, failedValid, failedChild, candidates, tip, pending, checked,
          locks, history>>

(* reconsidered: a block with a failed ancestor was reconsidered, so that  *)
(* flags stay behind; relocked: a lock refused a block that had been       *)
(* active, and the candidates pruned against it do not come back.          *)
Oddity == {"reconsidered", "relocked"}

Failed == failedValid \cup failedChild
Height(b) == Cardinality(Anc[b])

Lowest(S) == CHOOSE b \in S : \A c \in S : Height(b) <= Height(c)
Highest(S) == CHOOSE b \in S : \A c \in S : Height(c) <= Height(b)

(* CBlockIndexWorkComparator: x sorts after y.                             *)
Better(x, y) ==
  \/ Work[x] > Work[y]
  \/ Work[x] = Work[y] /\ nSequenceId[x] < nSequenceId[y]

Init ==
  /\ scene \in Scenes
  /\ index = {Genesis} /\ data = {Genesis} /\ chainTx = {Genesis}
  /\ nSequenceId = [b \in Block |-> IF b = Genesis THEN 1 ELSE 0]
  /\ unlinked = {}
  /\ failedValid = {} /\ failedChild = {}
  /\ candidates = {Genesis}
  /\ tip = Genesis
  /\ pending = FALSE /\ checked = None
  /\ locked = {} /\ rejected = {} /\ damaged = {} /\ replay = None
  /\ passed = {Genesis} /\ odd = {}

-----------------------------------------------------------------------------
(* Headers and blocks *)

(* The checks AcceptBlock and AcceptBlockHeader share.                     *)
Acceptable(b) ==
  /\ b \in scene.offered \ {Genesis}
  /\ Parent[b] \in index \ Failed
  /\ b \notin Failed

(* A header, or a block that is refused after its header was added.        *)
AcceptBlockHeader(b) ==
  /\ Acceptable(b) /\ b \notin index
  /\ index' = index \cup {b}
  /\ UNCHANGED <<scene, data, chainTx, nSequenceId, unlinked, failedValid, failedChild,
                 candidates, tip, pending, checked, locks, history>>

(* A block whose header passes and that ContextualCheckBlock refuses.      *)
ContextualCheckFails(b) ==
  /\ Acceptable(b) /\ b \in scene.invalid \ data
  /\ index' = index \cup {b}
  /\ failedValid' = failedValid \cup {b}
  /\ UNCHANGED <<scene, data, chainTx, nSequenceId, unlinked, failedChild,
                 candidates, tip, pending, checked, locks, history>>

(* ReceivedBlockTransactions: the blocks that b links.                     *)
LinkedWithoutChildren(b) == {b} \* mutant: descendants stay unlinked
Linked(b) ==
  {x \in unlinked \cup {b} : b \in Anc[x] /\ Anc[x] \ Anc[b] \subseteq unlinked}

(* ReceivedBlockTransactions, with the order ids in which it links blocks. *)
(* A new id is larger than the tip's: not worse than the tip is more work. *)
ReceivedBlockTransactions(b) ==
  /\ data' = data \cup {b}
  /\ IF Parent[b] \in chainTx
     THEN LET new == Linked(b)
              next == Cardinality(chainTx) + 1
          IN \E id \in [new -> next .. next + Cardinality(new) - 1] :
               /\ \A x, y \in new : x # y => id[x] # id[y]
               /\ \A x, y \in new : Height(x) < Height(y) => id[x] < id[y]
               /\ nSequenceId' = [x \in Block |-> IF x \in new THEN id[x]
                                                  ELSE nSequenceId[x]]
               /\ chainTx' = chainTx \cup new
               /\ unlinked' = unlinked \ new
               /\ candidates' = candidates \cup
                                     {x \in new : Work[x] > Work[tip]}
     ELSE /\ unlinked' = unlinked \cup {b}
          /\ UNCHANGED <<chainTx, nSequenceId, candidates>>

(* ProcessNewBlock of a block that passes its checks: AcceptBlock stores   *)
(* it unless it has the data, ActivateBestChain follows.  A bound: a block *)
(* whose stored copy is damaged is not sent again.                         *)
ProcessNewBlock(b) ==
  /\ Acceptable(b) /\ b \notin locked \cup damaged
  /\ index' = index \cup {b}
  /\ IF b \in data
     THEN UNCHANGED <<data, chainTx, nSequenceId, unlinked, candidates>>
     ELSE ReceivedBlockTransactions(b)
  /\ pending' = TRUE
  /\ checked' = b
  /\ UNCHANGED <<scene, failedValid, failedChild, tip, locks, history>>

(* CheckBlock refuses a block that conflicts with a transaction lock.      *)
RejectLocked(b) ==
  /\ b \in locked \ rejected
  /\ rejected' = rejected \cup {b}
  /\ UNCHANGED <<scene, tree, failedValid, failedChild, candidates, tip, pending,
                 checked, locked, damaged, replay, history>>

-----------------------------------------------------------------------------
(* Choosing the chain *)

Path(c) == Anc[c] \ Anc[tip]
Usable(c) == Path(c) \cap Failed = {}

(* The candidates FindMostWorkChain tries before it finds one to return.   *)
Tried == {c \in candidates : \A d \in candidates :
            (d = c \/ Better(d, c)) => ~Usable(d)}

(* The first failed block down from c, and what FindMostWorkChain does to  *)
(* the blocks above it.                                                    *)
Culprit(c) == Highest(Path(c) \cap Failed)
MarkedChildren == UNION {Anc[c] \ Anc[Culprit(c)] : c \in Tried}
Dropped == MarkedChildren \cup {Culprit(c) : c \in Tried}

FindMostWorkChain ==
  LET left == candidates \ Tried
  IN IF left = {} THEN None
     ELSE CHOOSE c \in left : \A d \in left : d = c \/ Better(c, d)

(* PruneBlockIndexCandidates, at tip t.                                    *)
PruneWorseAndEqual(C, t) == {c \in C : Better(c, t)} \* mutant: the tip goes too
PruneBlockIndexCandidates(C, t) == {c \in C : ~Better(t, c)}

(* ConnectBlock refuses b.  The block that was handed over already checked *)
(* is not compared with the locks again.                                   *)
Refused(b, m) ==
  \/ b \in scene.invalid \cup damaged
  \/ b \in locked /\ ~(b = m /\ b = checked)

(* InvalidBlockFound.  A copy that does not match its Merkle root          *)
(* (CorruptionPossible) says nothing about the block: it is not marked.    *)
Condemned(bad) == bad \ damaged
InvalidBlockForgotten(bad) == \* mutant: the block is not marked
  /\ failedValid' = failedValid
  /\ rejected' = rejected \cup (Condemned(bad) \cap locked)
InvalidBlockFound(bad) ==
  /\ failedValid' = failedValid \cup Condemned(bad)
  /\ rejected' = rejected \cup (Condemned(bad) \cap locked)

(* ActivateBestChainStep towards m: disconnect to the fork, connect until  *)
(* the tip is better than it was or a block is refused.                    *)
ActivateBestChainStep(m, C) ==
  LET toConnect == Anc[m] \ Anc[tip]
      fork == Highest(Anc[m] \cap Anc[tip])
      Ahead(good) == {b \in good : Work[b] > Work[tip]}
      NewTip(good) == IF Ahead(good) # {} THEN Lowest(Ahead(good))
                      ELSE IF good # {} THEN Highest(good) ELSE fork
      Bad(good) == IF Ahead(good) = {} /\ good # toConnect
                   THEN {Lowest(toConnect \ good)} ELSE {}
  IN \E good \in {{b \in toConnect : \A c \in Anc[b] \cap toConnect : ~Refused(c, m)}} :
     \E newTip \in {NewTip(good)}, bad \in {Bad(good)} :
     /\ tip' = newTip
     /\ InvalidBlockFound(bad)
     /\ candidates' = (IF good = {} THEN C ELSE PruneBlockIndexCandidates(C, newTip))
                        \ Condemned(bad)
     /\ pending' = (newTip # m)
     /\ checked' = IF newTip = m THEN None ELSE checked
     /\ passed' = passed \cup Anc[newTip]
     /\ odd' = IF Condemned(bad) \cap passed = {} THEN odd ELSE odd \cup {"relocked"}

(* One round of ActivateBestChain under cs_main.                           *)
ActivateBestChain ==
  /\ pending
  /\ \E m \in {FindMostWorkChain}, left \in {candidates \ Dropped} :
       IF m \in {None, tip}
       THEN /\ candidates' = left
            /\ pending' = FALSE /\ checked' = None
            /\ UNCHANGED <<tip, failedValid, rejected, history>>
       ELSE ActivateBestChainStep(m, left)
  /\ failedChild' = failedChild \cup MarkedChildren
  /\ UNCHANGED <<scene, tree, locked, damaged, replay>>

-----------------------------------------------------------------------------
(* The operator and the locks *)

(* invalidateblock.  On the active chain the block is disconnected first,  *)
(* and everything as good as the new tip becomes a candidate again.        *)
InvalidateBlockOnly(b) == \* mutant: the active chain is left alone
  /\ scene.operator /\ b \in index \ (failedValid \cup {Genesis})
  /\ failedValid' = failedValid \cup {b}
  /\ candidates' = candidates \ {b}
  /\ pending' = TRUE
  /\ UNCHANGED <<scene, tree, failedChild, tip, checked, locks, history>>
InvalidateBlock(b) ==
  LET off == IF b \in Anc[tip] THEN Anc[tip] \ Anc[Parent[b]] ELSE {}
      newTip == IF b \in Anc[tip] THEN Parent[b] ELSE tip
      valid == chainTx \ (Failed \cup {b} \cup off)
  IN /\ scene.operator /\ b \in index \ (failedValid \cup {Genesis})
     /\ failedValid' = failedValid \cup {b}
     /\ failedChild' = failedChild \cup off
     /\ tip' = newTip
     /\ candidates' = (candidates \ (off \cup {b})) \cup
                        {x \in valid : ~Better(newTip, x)}
     /\ pending' = TRUE
     /\ odd' = odd \cap {"reconsidered"}
     /\ UNCHANGED <<scene, tree, checked, locks, passed>>

(* ReconsiderBlock: the flags of b, its descendants and its ancestors are  *)
(* cleared; only descendants become candidates.                            *)
Reconsidered(b) == {x \in Failed : b \in Anc[x]}

ReconsiderBlockFlags(b) == \* mutant: no block becomes a candidate
  /\ failedValid' = failedValid \ (Reconsidered(b) \cup Anc[b])
  /\ failedChild' = failedChild \ (Reconsidered(b) \cup Anc[b])
  /\ UNCHANGED candidates
ReconsiderBlock(b) ==
  /\ failedValid' = failedValid \ (Reconsidered(b) \cup Anc[b])
  /\ failedChild' = failedChild \ (Reconsidered(b) \cup Anc[b])
  /\ candidates' = candidates \cup
       {x \in Reconsidered(b) \cap chainTx : Better(x, tip)}

NoteReconsidered(b) ==
  odd' = IF Anc[b] \cap Failed \subseteq {b} THEN odd ELSE odd \cup {"reconsidered"}

(* reconsiderblock.                                                        *)
RpcReconsiderBlock(b) ==
  /\ scene.operator /\ b \in index
  /\ ReconsiderBlock(b)
  /\ pending' = TRUE
  /\ NoteReconsidered(b)
  /\ UNCHANGED <<scene, tree, tip, checked, locks, passed>>

(* ReprocessBlocks walks through mapRejectedBlocks without a lock.  recent:*)
(* the blocks it meets there, now or later, and finds young enough.  One   *)
(* walk at a time.                                                         *)
ReprocessBlocks(recent) ==
  /\ scene.depth > 0 /\ replay = None
  /\ replay' = recent
  /\ UNCHANGED <<scene, tree, failedValid, failedChild, candidates, tip, pending,
                 checked, locked, rejected, damaged, history>>

(* Each block is reconsidered under a lock of cs_main of its own ...       *)
ReprocessOne(b) ==
  /\ replay # None /\ b \in replay
  /\ replay' = replay \ {b}
  /\ IF b \in rejected \cap index
     THEN ReconsiderBlock(b) /\ NoteReconsidered(b)
     ELSE UNCHANGED <<failedValid, failedChild, candidates, odd>>
  /\ UNCHANGED <<scene, tree, tip, pending, checked, locked, rejected, damaged, passed>>

(* ... and in the end the last blocks are disconnected, but for Genesis,   *)
(* which has no undo data, and ActivateBestChain is called.                *)
DisconnectBlocksAndReprocess ==
  LET height == IF Height(tip) > scene.depth THEN Height(tip) - scene.depth ELSE 1
  IN /\ replay = {}
     /\ replay' = None
     /\ tip' = CHOOSE b \in Anc[tip] : Height(b) = height
     /\ pending' = TRUE
     /\ UNCHANGED <<scene, tree, failedValid, failedChild, candidates, checked, locked,
                    rejected, damaged, history>>

(* A lock on an input of b appears or expires.                             *)
LockChanges(b) ==
  /\ locked' = IF b \in locked THEN locked \ {b} ELSE locked \cup {b}
  /\ UNCHANGED <<scene, tree, failedValid, failedChild, candidates, tip, pending,
                 checked, rejected, damaged, replay, history>>

(* The transactions of a stored block are damaged on disk.  A bound: not   *)
(* those of an active block, nor of one that is handed over just now.      *)
Damage(b) ==
  /\ b \in data \ (Anc[tip] \cup {checked})
  /\ damaged' = damaged \cup {b}
  /\ UNCHANGED <<scene, tree, failedValid, failedChild, candidates, tip, pending,
                 checked, locked, rejected, replay, history>>

Next ==
  \/ \E b \in Block : AcceptBlockHeader(b)
  \/ \E b \in Block : ContextualCheckFails(b)
  \/ \E b \in Block : ProcessNewBlock(b)
  \/ \E b \in Block : RejectLocked(b)
  \/ ActivateBestChain
  \/ \E b \in Block : InvalidateBlock(b)
  \/ \E b \in Block : RpcReconsiderBlock(b)
  \/ \E recent \in SUBSET scene.lockable : ReprocessBlocks(recent)
  \/ \E b \in scene.lockable : ReprocessOne(b)
  \/ DisconnectBlocksAndReprocess
  \/ \E b \in scene.lockable : LockChanges(b)
  \/ \E b \in scene.fragile : Damage(b)

Spec == Init /\ [][Next]_vars

(* A thread in ActivateBestChain gets cs_main in the end.                  *)
FairSpec == Spec /\ WF_vars(ActivateBestChain)

-----------------------------------------------------------------------------
(* Properties *)

(* Type invariant.                                                         *)
TypeOK ==
  /\ index \subseteq Block /\ data \subseteq index /\ chainTx \subseteq data
  /\ nSequenceId \in [Block -> 0 .. Cardinality(Block)]
  /\ unlinked \subseteq data
  /\ failedValid \subseteq index /\ failedChild \subseteq index
  /\ candidates \subseteq chainTx
  /\ tip \in chainTx
  /\ pending \in BOOLEAN
  /\ checked \in Block \cup {None}
  /\ locked \subseteq scene.lockable /\ rejected \subseteq scene.lockable
  /\ damaged \subseteq data
  /\ replay \in {None} \cup SUBSET scene.lockable
  /\ passed \subseteq chainTx /\ odd \subseteq Oddity

(* The active chain is linked to Genesis and holds no block that is marked *)
(* invalid, while blocks are invalidated, reconsidered and refused between *)
(* the steps of a reorganisation.                                          *)
ActiveChainSound == Anc[tip] \subseteq chainTx \ Failed

(* CheckBlockIndex: nChainTx is set exactly for the blocks all of whose    *)
(* ancestors have data, whatever order the blocks came in, and             *)
(* mapBlocksUnlinked holds exactly the other blocks with data.             *)
LinkedIffData ==
  /\ chainTx = {b \in index : Anc[b] \subseteq data}
  /\ unlinked = data \ chainTx

(* CheckBlockIndex: no candidate sorts worse than the tip, and all of them *)
(* have their chain's data, so FindMostWorkChain can use them.             *)
CandidatesLinked ==
  \A c \in candidates : c \in chainTx /\ ~Better(tip, c)

(* A linked block with no invalid block on its chain.                      *)
NotInvalid(b) == b \in chainTx /\ Anc[b] \cap failedValid = {}

(* No thread is about to activate a chain.                                 *)
Idle == ~pending /\ replay = None

(* CheckBlockIndex: a block that is not invalid and as good as the tip is  *)
(* a candidate, whenever no activation is under way.  Here and below: as   *)
(* long as nothing odd has happened, or since invalidateblock mended it.   *)
AllCandidates ==
  \A b \in chainTx : (NotInvalid(b) /\ ~Better(tip, b)) => b \in candidates
CandidatesComplete == (Idle /\ odd = {}) => AllCandidates

(* What ActivateBestChain promises: when it is done, no linked chain that  *)
(* is not known to be invalid sorts above the active one.                  *)
BestActive == \A b \in Block : NotInvalid(b) => ~Better(b, tip)
BestChainActive == (Idle /\ odd = {}) => BestActive

(* The same when a lock undoes a block of the active chain, by a replay.   *)
(* It does not hold (MCChainStateReprocess.cfg).                           *)
BestChainRelocked == (Idle /\ odd \subseteq {"relocked"}) => BestActive

(* CheckBlockIndex: a block is marked as the child of an invalid one only  *)
(* if there is one, as long as no block is reconsidered above a failed one.*)
FailedHasCause ==
  "reconsidered" \notin odd => \A b \in Failed : Anc[b] \cap failedValid # {}

(* What CheckBlockIndex asserts of the bookkeeping at every moment.        *)
CheckBlockIndex == LinkedIffData /\ CandidatesLinked /\ FailedHasCause

(* A damaged copy is all that keeps the most-work chain from being active. *)
DamageInTheWay ==
  LET m == FindMostWorkChain IN m # None /\ Path(m) \cap damaged # {}

(* ActivateBestChain ends once the other threads leave the blocks alone,   *)
(* through any number of refused blocks: a block it may not connect is     *)
(* marked and not chosen again.  The exception is a damaged copy: it is    *)
(* not marked, and the loop runs on it for ever.                           *)
ActivationEnds ==
  (<>[][ActivateBestChain]_vars) => ([]<>(~pending) \/ <>[]DamageInTheWay)

=============================================================================
