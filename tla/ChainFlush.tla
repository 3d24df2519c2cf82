----------------------------- MODULE ChainFlush -----------------------------
(* What the node keeps on disk of the block chain and how it starts from   *)
(* it: block file, block index database and coin database (main.cpp,       *)
(* coins.cpp, txdb.cpp, init.cpp), with a process that may die between any *)
(* two writes.  What was written before survives; loss of power, where     *)
(* written data may be lost too, is not modelled.                          *)
(*                                                                         *)
(* Work is height.  A block creates one coin, named after it, and spends   *)
(* others; only blocks that are valid on their parent are offered.  There  *)
(* is one block file of slots, one block each.                             *)
EXTENDS Integers, Sequences, FiniteSets

CONSTANTS
  Block, Genesis,
  Parent,      \* the block before each block
  Spends,      \* the coins each block spends
  Announced,   \* bound: blocks whose header may come before the block
  MaxSize,     \* bound: slots of the block file
  MaxCrash,    \* bound: deaths of the process
  None

(* A block and its ancestors: the least set with the block that holds the  *)
(* parent of each of its blocks.                                           *)
Closed(S) == \A c \in S \ {Genesis} : Parent[c] \in S
Anc == [b \in Block |->
          {a \in Block : \A S \in SUBSET Block : (b \in S /\ Closed(S)) => a \in S}]
Height == [b \in Block |-> Cardinality(Anc[b]) - 1]

(* The coins after block b; those of the genesis block do not exist        *)
(* (ConnectBlock skips it).                                                *)
Utxo == [b \in Block |-> (Anc[b] \ {Genesis}) \ UNION {Spends[c] : c \in Anc[b]}]

(* Entries of the block index and of the coins cache.                      *)
Entry == [pos : 0 .. MaxSize, undo : BOOLEAN, failed : BOOLEAN]
CoinEntry == [unspent : BOOLEAN, dirty : BOOLEAN, fresh : BOOLEAN]

ASSUME ChainFlushAssumption ==
  /\ IsFiniteSet(Block) /\ Genesis \in Block
  /\ None \notin Block \cup Entry \cup CoinEntry
  /\ Parent \in [Block \ {Genesis} -> Block]
  /\ \A b \in Block : Genesis \in Anc[b]
  /\ Spends \in [Block -> SUBSET Block] /\ Spends[Genesis] = {}
  /\ \A b \in Block \ {Genesis} : Spends[b] \subseteq Utxo[Parent[b]]
  /\ Announced \subseteq Block
  /\ MaxSize \in Nat \ {0} /\ MaxCrash \in Nat

VARIABLES
  \* memory
  index,     \* mapBlockIndex: per block its entry or None
  dirty,     \* setDirtyBlockIndex
  info,      \* vinfoBlockFile[0]: slots used and the greatest height stored
  order,     \* index entries as blocks of the same work are preferred
  tip,       \* chainActive.Tip()
  cache,     \* cacheCoins of pcoinsTip
  best,      \* hashBlock of pcoinsTip
  \* disk
  blk,       \* the block file
  diskIndex, diskInfo, diskCoins, diskBest,
  prepared,  \* the flag "shutdown"
  \* control
  pc,        \* where the thread that holds cs_main is
  stopping,  \* PrepareShutdown runs
  crashes,   \* deaths so far
  repaired   \* LoadBlockIndexDB has added blocks to the coins

chainVars == <<index, dirty, info, order, tip>>
coinVars == <<cache, best>>
fileVars == <<blk, diskIndex, diskInfo>>
coinDb == <<diskCoins, diskBest>>
control == <<stopping, crashes, repaired>>
vars == <<chainVars, coinVars, fileVars, coinDb, prepared, pc, control>>

NewEntry == [pos |-> 0, undo |-> FALSE, failed |-> FALSE]
Empty == [c \in Block |-> None]

-----------------------------------------------------------------------------
(* Coins: the cache over the database *)

Coins == {c \in Block : IF cache[c] = None THEN c \in diskCoins
                        ELSE cache[c].unspent}

(* FetchCoins brings an entry of the database into the cache.              *)
FetchCoinsAsFresh(c) ==              \* mutant: the new entry counts as fresh
  IF cache[c] = None /\ c \in diskCoins
  THEN [unspent |-> TRUE, dirty |-> FALSE, fresh |-> TRUE] ELSE cache[c]
FetchCoins(c) ==
  IF cache[c] = None /\ c \in diskCoins
  THEN [unspent |-> TRUE, dirty |-> FALSE, fresh |-> FALSE] ELSE cache[c]

(* The view of one block, which removes the coins gone and adds the coins  *)
(* made, is written to pcoinsTip.  An entry the database does not have is  *)
(* fresh, and is forgotten when it is spent.                               *)
BatchWrite(gone, made) ==
  [c \in Block |->
     IF c \in made THEN
       IF FetchCoins(c) = None
       THEN [unspent |-> TRUE, dirty |-> TRUE, fresh |-> TRUE]
       ELSE [FetchCoins(c) EXCEPT !.unspent = TRUE, !.dirty = TRUE]
     ELSE IF c \in gone THEN
       IF FetchCoins(c) = None \/ FetchCoins(c).fresh THEN None
       ELSE [FetchCoins(c) EXCEPT !.unspent = FALSE, !.dirty = TRUE]
     ELSE cache[c]]

-----------------------------------------------------------------------------
(* Blocks *)

Known == {b \in Block : index[b] # None}
HaveData(b) == index[b] # None /\ index[b].pos # 0
Linked(b) == \A a \in Anc[b] : HaveData(a)
Readable(b) == HaveData(b) /\ blk[index[b].pos] = b

(* Orders of the blocks by height; the address of an entry decides between *)
(* entries of the same height, as in vSortedByHeight.                      *)
Orders ==
  {s \in [1 .. Cardinality(Block) -> Block] :
     \A i, j \in DOMAIN s :
       i < j => s[i] # s[j] /\ Height[s[i]] <= Height[s[j]]}
OrderOf(s, S) == SelectSeq(s, LAMBDA b : b \in S)
Place(b) == CHOOSE i \in DOMAIN order : order[i] = b

(* FindMostWorkChain: most work, then the order of arrival, or of          *)
(* addresses among those loaded from disk.                                 *)
Candidates == {b \in Known : Linked(b) /\ \A a \in Anc[b] : ~index[a].failed}
MostWork ==
  CHOOSE b \in Candidates : \A c \in Candidates :
    \/ Height[c] < Height[b]
    \/ Height[c] = Height[b] /\ Place(b) <= Place(c)

(* The message thread is between two messages.                             *)
Idle == pc = "run" /\ tip = MostWork

(* "headers": AcceptBlockHeader and AddToBlockIndex.                       *)
AcceptBlockHeader(b) ==
  /\ Idle /\ b \in Announced
  /\ index[b] = None /\ index[Parent[b]] # None /\ ~index[Parent[b]].failed
  /\ index' = [index EXCEPT ![b] = NewEntry]
  /\ dirty' = dirty \cup {b}
  /\ order' = Append(order, b)
  /\ UNCHANGED <<info, tip, coinVars, fileVars, coinDb, prepared, pc, control>>

(* AcceptBlock: FindBlockPos, WriteBlockToDisk and                         *)
(* ReceivedBlockTransactions, which numbers the blocks that are now linked *)
(* to the genesis block in the order of the walk.                          *)
AcceptBlock(b) ==
  /\ Idle
  /\ b # Genesis /\ ~HaveData(b)
  /\ index[Parent[b]] # None /\ ~index[Parent[b]].failed
  /\ index[b] # None => ~index[b].failed
  /\ info.size < MaxSize
  /\ info' = [size |-> info.size + 1,
              last |-> IF Height[b] > info.last THEN Height[b] ELSE info.last]
  /\ blk' = [blk EXCEPT ![info'.size] = b]
  /\ index' = [index EXCEPT ![b] = [NewEntry EXCEPT !.pos = info'.size]]
  /\ dirty' = dirty \cup {b}
  /\ LET new == {c \in Block : b \in Anc[c] /\ \A a \in Anc[c] :
                                 index'[a] # None /\ index'[a].pos # 0}
         kept == SelectSeq(order, LAMBDA c : c \notin new \cup {b})
     IN \E s \in Orders : order' = kept \o OrderOf(s, new \cup {b})
  /\ UNCHANGED <<tip, coinVars, diskIndex, diskInfo, coinDb, prepared, pc, control>>

-----------------------------------------------------------------------------
(* ActivateBestChainStep.  cs_main is held to its end, so a step that      *)
(* changes the coins and the one that moves the tip after the flush are    *)
(* one.  A block that cannot be read makes the node shut down.             *)

DisconnectTip ==
  /\ pc = "run" /\ tip \notin Anc[MostWork]
  /\ IF Readable(tip)
     THEN /\ index[tip].undo
          /\ cache' = BatchWrite({tip}, Spends[tip])
          /\ best' = Parent[tip]
          /\ tip' = Parent[tip]
          /\ UNCHANGED stopping
     ELSE stopping' = TRUE /\ UNCHANGED <<tip, coinVars>>
  /\ pc' = "info"
  /\ UNCHANGED <<index, dirty, info, order, fileVars, coinDb, prepared,
                 crashes, repaired>>

(* setDirtyBlockIndex once ConnectBlock has written the undo data of b.     *)
NotDirtied(b) == dirty               \* mutant
Dirtied(b) == IF index[b].undo THEN dirty ELSE dirty \cup {b}

(* ConnectTip.  ConnectBlock writes the entry to the index database at     *)
(* once, before it has undo data.  A full cache or a new block file cause  *)
(* a flush.                                                                *)
ConnectTip(b, flush) ==
  /\ pc = "run" /\ tip # MostWork /\ b # Genesis
  /\ b \in Anc[MostWork] /\ Parent[b] = tip
  /\ IF ~Readable(b)
     THEN /\ stopping' = TRUE /\ pc' = "info"
          /\ UNCHANGED <<index, dirty, tip, coinVars, diskIndex>>
     ELSE IF ~(Spends[b] \subseteq Coins)
     THEN /\ index' = [index EXCEPT ![b].failed = TRUE]      \* InvalidBlockFound
          /\ dirty' = dirty \cup {b}
          /\ UNCHANGED <<tip, coinVars, diskIndex, pc, stopping>>
     ELSE /\ diskIndex' = [diskIndex EXCEPT ![b] = index[b]]
          /\ index' = [index EXCEPT ![b].undo = TRUE]
          /\ dirty' = Dirtied(b)
          /\ cache' = BatchWrite(Spends[b], {b})
          /\ best' = b
          /\ tip' = b
          /\ pc' = IF flush THEN "info" ELSE "run"
          /\ UNCHANGED stopping
  /\ UNCHANGED <<info, order, blk, diskInfo, coinDb, prepared, crashes, repaired>>

-----------------------------------------------------------------------------
(* FlushStateToDisk, write by write: file information, index entries one   *)
(* by one in the order of their addresses, then one batch of coins.        *)

PeriodicFlush ==
  /\ Idle
  /\ pc' = "info"
  /\ UNCHANGED <<chainVars, coinVars, fileVars, coinDb, prepared, control>>

(* PrepareShutdown, when the threads were interrupted: between messages,   *)
(* between the steps of an activation or while script checks are awaited.  *)
Shutdown ==
  /\ pc = "run"
  /\ pc' = "info" /\ stopping' = TRUE
  /\ UNCHANGED <<chainVars, coinVars, fileVars, coinDb, prepared, crashes, repaired>>

WriteBlockFileInfo ==
  /\ pc = "info"
  /\ diskInfo' = info
  /\ pc' = "index"
  /\ UNCHANGED <<chainVars, coinVars, blk, diskIndex, coinDb, prepared, control>>

WriteBlockIndex(b) ==
  /\ pc = "index" /\ b \in dirty
  /\ diskIndex' = [diskIndex EXCEPT ![b] = index[b]]
  /\ dirty' = dirty \ {b}
  /\ UNCHANGED <<index, info, order, tip, coinVars, blk, diskInfo, coinDb,
                 prepared, pc, control>>

(* CCoinsViewDB::BatchWrite; the cache is cleared.                         *)
FlushCoinsEarly ==                   \* mutant: before the index entries
  /\ pc = "index"
  /\ diskCoins' = Coins
  /\ diskBest' = best
  /\ cache' = Empty
  /\ pc' = IF dirty # {} THEN "index" ELSE IF stopping THEN "flag" ELSE "run"
  /\ UNCHANGED <<chainVars, best, fileVars, prepared, control>>
FlushCoins ==
  /\ pc = "index" /\ dirty = {}
  /\ diskCoins' = (diskCoins \ {c \in Block : cache[c] # None /\ cache[c].dirty})
                    \cup {c \in Block : cache[c] # None /\ cache[c].dirty
                                        /\ cache[c].unspent}
  /\ diskBest' = best
  /\ cache' = Empty
  /\ pc' = IF stopping THEN "flag" ELSE "run"
  /\ UNCHANGED <<chainVars, best, fileVars, prepared, control>>

WriteShutdownFlag ==
  /\ pc = "flag"
  /\ prepared' = TRUE /\ stopping' = FALSE
  /\ pc' = "down"
  /\ UNCHANGED <<chainVars, coinVars, fileVars, coinDb, crashes, repaired>>

(* The process dies: what was in memory is gone.                           *)
Die ==
  /\ crashes < MaxCrash
  /\ crashes' = crashes + 1
  /\ pc' = "down" /\ stopping' = FALSE
  /\ index' = Empty /\ dirty' = {} /\ order' = << >> /\ tip' = None
  /\ info' = [size |-> 0, last |-> 0]
  /\ cache' = Empty /\ best' = None
Crash ==
  /\ pc \notin {"down", "lost"}
  /\ Die
  /\ UNCHANGED <<fileVars, coinDb, prepared, repaired>>

-----------------------------------------------------------------------------
(* Start: LoadBlockIndexDB and VerifyDB *)

OnDisk == {b \in Block : diskIndex[b] # None}
DiskReadable(b) == diskIndex[b].pos # 0 /\ blk[diskIndex[b].pos] = b

(* The guard of the repair after an unclean stop: sorted (vSortedByHeight) *)
(* is compared with the coins at the place after the greatest height that  *)
(* the file information knows.                                             *)
OutOfSync(sorted) ==
  /\ ~prepared
  /\ Len(sorted) > diskInfo.last + 1
  /\ sorted[diskInfo.last + 2] # diskBest

(* The blocks the repair adds to the coins: from the first one higher than *)
(* the coins' best block on, whatever branch it is on, up to the height of *)
(* the block at that place.  When there is none, the first entry is taken. *)
ToAdd(sorted) ==
  LET above == {i \in DOMAIN sorted : Height[sorted[i]] = Height[diskBest] + 1}
      first == CHOOSE i \in above : \A j \in above : i <= j
      goal == Height[sorted[diskInfo.last + 2]]
      ends == {i \in first .. Len(sorted) :
                 Height[sorted[i]] >= goal \/ i = Len(sorted)}
  IN IF above = {} THEN <<sorted[1]>>
     ELSE SubSeq(sorted, first, CHOOSE i \in ends : \A j \in ends : i <= j)

(* UpdateCoins for each of them.                                           *)
CoinsAfter(s) ==
  LET after[i \in 0 .. Len(s)] ==
        IF i = 0 THEN diskCoins ELSE (after[i - 1] \ Spends[s[i]]) \cup {s[i]}
  IN after

(* VerifyDB at level 4 over the whole chain of b: every block is read, has *)
(* undo data, and is disconnected from the coins without a mismatch.       *)
Verified(b, coins) ==
  LET chain == Anc[b] \ {Genesis}
      Above(a) == {c \in chain : Height[c] > Height[a]}
      CoinsAt(a) == (coins \cup UNION {Spends[c] : c \in Above(a)}) \ Above(a)
  IN \A a \in chain :
       /\ DiskReadable(a) /\ diskIndex[a].undo
       /\ a \in CoinsAt(a) /\ Spends[a] \cap CoinsAt(a) = {}

(* The node runs from what was loaded.                                     *)
Run(sorted, b) ==
  /\ index' = diskIndex /\ dirty' = {} /\ info' = diskInfo
  /\ order' = sorted /\ tip' = b
  /\ cache' = Empty /\ best' = b
  /\ prepared' = FALSE
  /\ pc' = "run"

(* The start is refused; PrepareShutdown sets the flag all the same.       *)
Refused ==
  /\ prepared' = TRUE
  /\ UNCHANGED <<chainVars, coinVars, pc>>

(* A start without, or (-forcestart) in spite of, an unclean stop.         *)
Load(sorted) ==
  /\ IF Verified(diskBest, diskCoins) THEN Run(sorted, diskBest) ELSE Refused
  /\ UNCHANGED <<coinDb, repaired>>

(* Where the repair stops: at a block that cannot be read, which ends the  *)
(* start with an error, or a coin that is missing, a failed assertion.     *)
Stops(s) == {i \in DOMAIN s : \/ ~DiskReadable(s[i])
                             \/ ~(Spends[s[i]] \subseteq CoinsAfter(s)[i - 1])}

(* The repaired coins are flushed.                                         *)
FlushRepair(s) ==
  /\ Stops(s) = {}
  /\ diskCoins' = CoinsAfter(s)[Len(s)]
  /\ diskBest' = s[Len(s)]
  /\ repaired' = TRUE

(* A start that repairs the coins.                                         *)
Repair(sorted) ==
  LET s == ToAdd(sorted)
      at == CHOOSE i \in Stops(s) : \A j \in Stops(s) : i <= j
  IN \/ /\ Stops(s) # {}
        /\ IF DiskReadable(s[at]) THEN UNCHANGED <<chainVars, coinVars, pc, prepared>>
           ELSE Refused
        /\ UNCHANGED <<coinDb, repaired>>
     \/ /\ FlushRepair(s)
        /\ IF Verified(diskBest', diskCoins') THEN Run(sorted, diskBest') ELSE Refused

(* An entry whose parent was not written gets a parent of height 0 without *)
(* a header; what becomes of such a node is not followed.                  *)
ParentMissing == \E b \in OnDisk \ {Genesis} : diskIndex[Parent[b]] = None
Start(force) ==
  /\ pc = "down"
  /\ IF ParentMissing
     THEN /\ pc' = "lost"
          /\ UNCHANGED <<chainVars, coinVars, coinDb, prepared, repaired>>
     ELSE \E s \in Orders : \E sorted \in {OrderOf(s, OnDisk)} :
            IF OutOfSync(sorted) /\ ~force THEN Repair(sorted) ELSE Load(sorted)
  /\ UNCHANGED <<fileVars, stopping, crashes>>

(* The process dies in a start, after a flush of repaired coins or after   *)
(* the flag was cleared.  (Before, it has written nothing.)                *)
CrashInStart(force) ==
  /\ pc = "down" /\ ~ParentMissing
  /\ Die
  /\ \E s \in Orders : \E sorted \in {OrderOf(s, OnDisk)} :
       IF OutOfSync(sorted) /\ ~force THEN FlushRepair(ToAdd(sorted))
       ELSE UNCHANGED <<coinDb, repaired>>
  /\ prepared' = FALSE
  /\ UNCHANGED fileVars

-----------------------------------------------------------------------------
(* InitBlockIndex has written the genesis block.                           *)
Init ==
  /\ index = [Empty EXCEPT ![Genesis] = [NewEntry EXCEPT !.pos = 1]]
  /\ dirty = {} /\ info = [size |-> 1, last |-> 0]
  /\ order = <<Genesis>> /\ tip = Genesis
  /\ cache = Empty /\ best = Genesis
  /\ blk = [i \in 1 .. MaxSize |-> IF i = 1 THEN Genesis ELSE None]
  /\ diskIndex = index /\ diskInfo = info
  /\ diskCoins = {} /\ diskBest = Genesis
  /\ prepared = FALSE /\ pc = "run" /\ stopping = FALSE
  /\ crashes = 0 /\ repaired = FALSE

Next ==
  \/ \E b \in Block : AcceptBlockHeader(b) \/ AcceptBlock(b) \/ WriteBlockIndex(b)
  \/ DisconnectTip
  \/ \E b \in Block, flush \in BOOLEAN : ConnectTip(b, flush)
  \/ PeriodicFlush \/ Shutdown
  \/ WriteBlockFileInfo \/ FlushCoins \/ WriteShutdownFlag
  \/ Crash
  \/ \E force \in BOOLEAN : Start(force) \/ CrashInStart(force)

Spec == Init /\ [][Next]_vars

-----------------------------------------------------------------------------
(* Properties *)

Running == pc \notin {"down", "lost"}

(* Type invariant.  (The order of the index entries, which only decides    *)
(* between chains of the same work, and the coins after a repair, which no *)
(* property below is about, are left out.)                                 *)
TypeOK ==
  /\ index \in [Block -> Entry \cup {None}]
  /\ diskIndex \in [Block -> Entry \cup {None}]
  /\ dirty \subseteq Block
  /\ info.size \in 0 .. MaxSize /\ diskInfo.size \in 0 .. MaxSize
  /\ blk \in [1 .. MaxSize -> Block \cup {None}]
  /\ cache \in [Block -> CoinEntry \cup {None}]
  /\ ~repaired => /\ diskCoins \subseteq Block /\ diskBest \in Block
                  /\ Running => tip \in Block
  /\ pc \in {"run", "info", "index", "flag", "down", "lost"}
  /\ crashes \in Nat

(* The coins are those of the chain that ends in their best block, in the  *)
(* database at every moment and, through the cache with its dirty and      *)
(* fresh entries, in memory; there the best block is the tip, as           *)
(* ConnectBlock and DisconnectBlock assert.  Whenever the process died, as *)
(* long as no start repaired the coins.                                    *)
CoinsMatchBest ==
  ~repaired =>
    /\ diskCoins = Utxo[diskBest]
    /\ pc \notin {"down", "lost"} => Coins = Utxo[best] /\ best = tip

(* The coin database never runs ahead of the index database ("Finally      *)
(* flush the chainstate (which may refer to block index entries)"): every  *)
(* block of its chain has an entry on disk with the place of its data and  *)
(* of its undo data.                                                       *)
SavedChainLoadable ==
  ~repaired => \A a \in Anc[diskBest] \ {Genesis} :
                 diskIndex[a] # None /\ diskIndex[a].pos # 0 /\ diskIndex[a].undo

(* A node that was always shut down properly starts as it stopped: the     *)
(* index, the tip and the file information on disk are those it had, so no *)
(* change was left out of the dirty entries, and VerifyDB accepts them.    *)
CleanRestart ==
  (pc = "down" /\ crashes = 0) =>
    /\ diskIndex = index /\ diskInfo = info /\ diskBest = tip
    /\ Verified(tip, diskCoins)

-----------------------------------------------------------------------------
(* What the code says of its own repair.  main.cpp 3864: "Start at the     *)
(* last block that was successfully added to the txdb (pcoinsTip) and      *)
(* manually add all transactions that occurred for each block up until the *)
(* best known block from the block index db": a node that runs after a     *)
(* repair has the coins of its tip.                                        *)
RepairedCoinsMatch == (repaired /\ pc = "run") => Coins = Utxo[tip]

(* A start after an unclean stop is not refused.                           *)
CrashRestart == [][(pc = "down" /\ ~prepared) => ~prepared']_vars

(* A block that the index places in the block file is there.               *)
StoredBlocksKept == pc = "run" => \A x \in Known : HaveData(x) => Readable(x)

=============================================================================
