-------------------------- MODULE ChainFlush_proofs --------------------------
(* Proofs about ChainFlush for any tree of blocks, any block file and any  *)
(* number of deaths of the process.                                        *)
EXTENDS ChainFlush, FiniteSetTheorems, TLAPS

-----------------------------------------------------------------------------
(* The tree *)

(* A block and its ancestors are a closed set, the least with the block.   *)
LEMMA AncLeast ==
  ASSUME NEW b \in Block
  PROVE  /\ b \in Anc[b] /\ Anc[b] \subseteq Block /\ Closed(Anc[b])
         /\ \A S \in SUBSET Block : (b \in S /\ Closed(S)) => Anc[b] \subseteq S
<1>1. Anc[b] = {a \in Block : \A S \in SUBSET Block : (b \in S /\ Closed(S)) => a \in S}
  BY DEF Anc
<1>2. ASSUME NEW c \in Anc[b] \ {Genesis} PROVE Parent[c] \in Anc[b]
  <2>1. Parent[c] \in Block
    BY <1>1, ChainFlushAssumption
  <2> QED BY <1>1, <2>1 DEF Closed
<1> QED BY <1>1, <1>2 DEF Closed

(* What Anc is, block by block.                                            *)
LEMMA AncStep ==
  /\ Anc[Genesis] = {Genesis}
  /\ \A b \in Block \ {Genesis} : Parent[b] \in Block /\ Anc[b] = {b} \cup Anc[Parent[b]]
<1>0. Genesis \in Block /\ \A b \in Block \ {Genesis} : Parent[b] \in Block
  BY ChainFlushAssumption
<1>1. Anc[Genesis] = {Genesis}
  <2>1. {Genesis} \in SUBSET Block /\ Closed({Genesis})
    BY <1>0 DEF Closed
  <2> QED BY <1>0, <2>1, AncLeast
<1>2. ASSUME NEW b \in Block \ {Genesis} PROVE Anc[b] = {b} \cup Anc[Parent[b]]
  <2> DEFINE S == {b} \cup Anc[Parent[b]]
  <2>1. S \in SUBSET Block /\ b \in S /\ Closed(S)
    BY <1>0, AncLeast DEF Closed
  <2>2. Anc[b] \subseteq S
    BY <2>1, AncLeast
  <2>3. Parent[b] \in Anc[b] /\ Anc[b] \in SUBSET Block /\ Closed(Anc[b]) /\ b \in Anc[b]
    BY AncLeast DEF Closed
  <2>4. Anc[Parent[b]] \subseteq Anc[b]
    BY <1>0, <2>3, AncLeast
  <2> QED BY <2>2, <2>3, <2>4
<1> QED BY <1>0, <1>1, <1>2

(* The ancestors of an ancestor are ancestors.                             *)
LEMMA AncTransitive ==
  ASSUME NEW b \in Block, NEW a \in Anc[b]
  PROVE  a \in Block /\ Anc[a] \subseteq Anc[b]
<1>1. a \in Block /\ Anc[b] \in SUBSET Block /\ Closed(Anc[b])
  BY AncLeast
<1> QED BY <1>1, AncLeast

(* No block is among the ancestors of its parent.                          *)
LEMMA AncAcyclic ==
  ASSUME NEW b \in Block \ {Genesis}
  PROVE  b \notin Anc[Parent[b]]
<1> SUFFICES ASSUME b \in Anc[Parent[b]] PROVE FALSE
  OBVIOUS
<1> DEFINE S == {c \in Block : b \in Anc[c]}
<1>1. ASSUME NEW c \in S \ {Genesis} PROVE Parent[c] \in S
  BY AncStep
<1>2. S \in SUBSET Block /\ b \in S /\ Closed(S)
  BY <1>1, AncLeast DEF Closed
<1>3. Anc[b] \subseteq S
  BY <1>2, AncLeast
<1>4. Genesis \in S
  BY <1>3, ChainFlushAssumption
<1> QED BY <1>4, AncStep

(* Two ancestors of a block are on one chain.                              *)
LEMMA AncChain ==
  ASSUME NEW b \in Block, NEW a \in Anc[b], NEW c \in Anc[b]
  PROVE  a \in Anc[c] \/ c \in Anc[a]
<1> DEFINE S == {x \in Block : a \in Anc[x] \/ x \in Anc[a]}
<1>0. a \in Block
  BY AncLeast
<1>1. ASSUME NEW x \in S \ {Genesis} PROVE Parent[x] \in S
  <2>1. Parent[x] \in Block /\ Anc[x] = {x} \cup Anc[Parent[x]]
    BY AncStep
  <2>2. CASE x \in Anc[a]
    BY <1>0, <2>1, <2>2, AncLeast DEF Closed
  <2>3. CASE a \in Anc[x]
    <3>1. CASE a = x
      BY <1>0, <2>1, <3>1, AncLeast DEF Closed
    <3>2. CASE a # x
      BY <2>1, <2>3, <3>2
    <3> QED BY <3>1, <3>2
  <2> QED BY <2>2, <2>3
<1>2. S \in SUBSET Block /\ b \in S /\ Closed(S)
  BY <1>1 DEF Closed
<1> QED BY <1>2, AncLeast

(* On one chain, higher means not an ancestor.                             *)
LEMMA HigherOnChain ==
  ASSUME NEW b \in Block, NEW a \in Anc[b], NEW c \in Anc[b]
  PROVE  Height[c] > Height[a] <=> c \notin Anc[a]
<1>1. a \in Block /\ c \in Block
  BY AncLeast
<1>2. \A x \in Block : /\ IsFiniteSet(Anc[x]) /\ Cardinality(Anc[x]) \in Nat
                       /\ Height[x] = Cardinality(Anc[x]) - 1
  <2>1. ASSUME NEW x \in Block PROVE IsFiniteSet(Anc[x]) /\ Cardinality(Anc[x]) \in Nat
    BY AncLeast, ChainFlushAssumption, FS_Subset, FS_CardinalityType
  <2> QED BY <2>1 DEF Height
<1>3. CASE c \in Anc[a]
  <2>1. Anc[c] \subseteq Anc[a]
    BY <1>1, <1>3, AncTransitive
  <2>2. Cardinality(Anc[c]) <= Cardinality(Anc[a])
    BY <1>1, <1>2, <2>1, FS_Subset
  <2> QED BY <1>1, <1>2, <1>3, <2>2
<1>4. CASE c \notin Anc[a]
  <2>1. Anc[a] \subseteq Anc[c] /\ Anc[a] # Anc[c]
    BY <1>1, <1>4, AncChain, AncTransitive, AncLeast
  <2>2. Cardinality(Anc[a]) <= Cardinality(Anc[c]) /\ Cardinality(Anc[a]) # Cardinality(Anc[c])
    BY <1>1, <1>2, <2>1, FS_Subset
  <2> QED BY <1>1, <1>2, <1>4, <2>2
<1> QED BY <1>3, <1>4

-----------------------------------------------------------------------------
(* Coins *)

(* A coin exists after b if a block of its chain made it and none spent it. *)
LEMMA UtxoMember ==
  ASSUME NEW b \in Block, NEW x
  PROVE  x \in Utxo[b] <=> /\ x \in Anc[b] /\ x # Genesis
                           /\ \A c \in Anc[b] : x \notin Spends[c]
  BY DEF Utxo

(* A block spends coins of the chain below it, and no block of its own     *)
(* chain spends its coin.                                                  *)
LEMMA SpendsBelow ==
  ASSUME NEW b \in Block, NEW c \in Anc[b]
  PROVE  /\ c \in Block
         /\ Spends[c] = {} \/ (c # Genesis /\ Spends[c] \subseteq Utxo[Parent[c]])
         /\ b \notin Spends[c]
<1>1. c \in Block
  BY AncLeast
<1>2. Spends[c] = {} \/ (c # Genesis /\ Spends[c] \subseteq Utxo[Parent[c]])
  BY <1>1, ChainFlushAssumption
<1>3. ASSUME c # Genesis, b \in Utxo[Parent[c]] PROVE FALSE
  <2>1. Parent[c] \in Block
    BY <1>1, <1>3, AncStep
  <2>2. b \in Anc[Parent[c]]
    BY <1>3, <2>1, UtxoMember
  <2>3. c \in Anc[Parent[c]]
    BY <2>1, <2>2, AncTransitive
  <2> QED BY <1>1, <1>3, <2>3, AncAcyclic
<1> QED BY <1>1, <1>2, <1>3

(* Connecting a block takes the coins it spends and adds its own, and      *)
(* disconnecting it undoes exactly that.                                   *)
LEMMA UtxoStep ==
  ASSUME NEW b \in Block \ {Genesis}
  PROVE  /\ Utxo[b] = (Utxo[Parent[b]] \ Spends[b]) \cup {b}
         /\ Utxo[Parent[b]] = (Utxo[b] \ {b}) \cup Spends[b]
         /\ Utxo[b] \subseteq Block /\ Spends[b] \subseteq Block
<1>1. Parent[b] \in Block /\ Anc[b] = {b} \cup Anc[Parent[b]]
  BY AncStep
<1>2. \A c \in Anc[b] : b \notin Spends[c]
  BY SpendsBelow
<1>3. Spends[b] \subseteq Utxo[Parent[b]]
  BY ChainFlushAssumption
<1>4. ASSUME NEW x PROVE x \in Utxo[b] <=> x \in (Utxo[Parent[b]] \ Spends[b]) \cup {b}
  BY <1>1, <1>2, UtxoMember
<1>5. Utxo[b] = (Utxo[Parent[b]] \ Spends[b]) \cup {b}
  BY <1>4
<1>6. b \notin Utxo[Parent[b]]
  BY <1>1, UtxoMember, AncAcyclic
<1>7. Utxo[b] \subseteq Block /\ Spends[b] \subseteq Block
  <2>1. \A x \in Utxo[b] : x \in Anc[b]
    BY UtxoMember
  <2> QED BY <2>1, AncLeast, ChainFlushAssumption
<1> QED BY <1>3, <1>5, <1>6, <1>7

(* The part of the type invariant that holds whatever a repair did.        *)
Types ==
  /\ index \in [Block -> Entry \cup {None}]
  /\ diskIndex \in [Block -> Entry \cup {None}]
  /\ dirty \subseteq Block
  /\ info.size \in 0 .. MaxSize /\ diskInfo.size \in 0 .. MaxSize
  /\ blk \in [1 .. MaxSize -> Block \cup {None}]
  /\ cache \in [Block -> CoinEntry \cup {None}]
  /\ pc \in {"run", "info", "index", "flag", "down", "lost"}
  /\ crashes \in Nat

(* An entry of the cache is yet to be written, and a fresh one is of a     *)
(* coin that the database does not have.                                   *)
CacheOK ==
  \A c \in Block : cache[c] # None =>
    cache[c].dirty /\ (cache[c].fresh => c \notin diskCoins)

(* Writing a block's view to the cache removes and adds what it should,    *)
(* though a fresh entry is forgotten and not kept as spent.                *)
LEMMA BatchWriteCoins ==
  ASSUME Types, CacheOK, NEW gone, NEW made \in SUBSET Block,
         cache' = BatchWrite(gone, made), UNCHANGED diskCoins
  PROVE  /\ Coins' = (Coins \ gone) \cup made
         /\ CacheOK'
<1>0. \A c \in Block : cache[c] \in CoinEntry \cup {None}
  BY DEF Types
<1>1. \A e \in CoinEntry : e # None
  BY ChainFlushAssumption
<1>2. ASSUME NEW c \in Block
      PROVE  /\ cache'[c] # None =>
                   cache'[c].dirty /\ (cache'[c].fresh => c \notin diskCoins)
             /\ c \in Coins' <=> c \in (Coins \ gone) \cup made
  <2> DEFINE f == FetchCoins(c)
  <2>1. /\ f \in CoinEntry \cup {None}
        /\ f = None <=> cache[c] = None /\ c \notin diskCoins
        /\ f # None => (f.fresh => c \notin diskCoins)
    <3>1. CASE cache[c] = None /\ c \in diskCoins
      <4> DEFINE r == [unspent |-> TRUE, dirty |-> FALSE, fresh |-> FALSE]
      <4>1. f = r
        BY <3>1 DEF FetchCoins
      <4>2. r \in CoinEntry /\ r.fresh = FALSE
        BY DEF CoinEntry
      <4> HIDE DEF f, r
      <4> QED BY <1>1, <3>1, <4>1, <4>2
    <3>2. CASE ~(cache[c] = None /\ c \in diskCoins)
      <4>1. f = cache[c]
        BY <3>2 DEF FetchCoins
      <4> HIDE DEF f
      <4> QED BY <1>0, <3>2, <4>1 DEF CacheOK
    <3> QED BY <3>1, <3>2
  <2>2. cache'[c] = IF c \in made THEN
                      IF f = None THEN [unspent |-> TRUE, dirty |-> TRUE, fresh |-> TRUE]
                      ELSE [f EXCEPT !.unspent = TRUE, !.dirty = TRUE]
                    ELSE IF c \in gone THEN
                      IF f = None \/ f.fresh THEN None
                      ELSE [f EXCEPT !.unspent = FALSE, !.dirty = TRUE]
                    ELSE cache[c]
    BY DEF BatchWrite
  <2>3. /\ c \in Coins <=> IF cache[c] = None THEN c \in diskCoins ELSE cache[c].unspent
        /\ c \in Coins' <=> IF cache'[c] = None THEN c \in diskCoins ELSE cache'[c].unspent
    BY DEF Coins
  <2> HIDE DEF f
  <2>4. CASE c \in made
    <3>1. CASE f = None
      <4> DEFINE r == [unspent |-> TRUE, dirty |-> TRUE, fresh |-> TRUE]
      <4>1. r \in CoinEntry /\ r.unspent /\ r.dirty /\ cache'[c] = r
        BY <2>2, <2>4, <3>1 DEF CoinEntry
      <4> QED BY <1>1, <2>1, <2>3, <2>4, <3>1, <4>1
    <3>2. CASE f # None
      <4> DEFINE r == [f EXCEPT !.unspent = TRUE, !.dirty = TRUE]
      <4>1. r \in CoinEntry /\ r.unspent /\ r.dirty /\ r.fresh = f.fresh /\ cache'[c] = r
        BY <2>1, <2>2, <2>4, <3>2 DEF CoinEntry
      <4> HIDE DEF r
      <4> QED BY <1>1, <2>1, <2>3, <2>4, <3>2, <4>1
    <3> QED BY <3>1, <3>2
  <2>5. CASE c \notin made /\ c \in gone
    <3>1. CASE f = None \/ f.fresh
      BY <2>1, <2>2, <2>3, <2>5, <3>1
    <3>2. CASE ~(f = None \/ f.fresh)
      <4> DEFINE r == [f EXCEPT !.unspent = FALSE, !.dirty = TRUE]
      <4>1. r \in CoinEntry /\ ~r.unspent /\ r.dirty /\ r.fresh = f.fresh /\ cache'[c] = r
        BY <2>1, <2>2, <2>5, <3>2 DEF CoinEntry
      <4> HIDE DEF r
      <4> QED BY <1>1, <2>1, <2>3, <2>5, <3>2, <4>1
    <3> QED BY <3>1, <3>2
  <2>6. CASE c \notin made /\ c \notin gone
    BY <2>2, <2>3, <2>6 DEF CacheOK
  <2> QED BY <2>4, <2>5, <2>6
<1>3. Coins' \subseteq Block /\ Coins \subseteq Block
  BY DEF Coins
<1> QED BY <1>2, <1>3 DEF CacheOK

(* The cache after a block's view was written to it is one.                *)
LEMMA BatchWriteType ==
  ASSUME Types, NEW gone, NEW made
  PROVE  BatchWrite(gone, made) \in [Block -> CoinEntry \cup {None}]
<1>1. ASSUME NEW c \in Block PROVE BatchWrite(gone, made)[c] \in CoinEntry \cup {None}
  <2> DEFINE f == FetchCoins(c)
  <2>1. f \in CoinEntry \cup {None}
    BY DEF FetchCoins, CoinEntry, Types
  <2>2. BatchWrite(gone, made)[c] =
          IF c \in made THEN
            IF f = None THEN [unspent |-> TRUE, dirty |-> TRUE, fresh |-> TRUE]
            ELSE [f EXCEPT !.unspent = TRUE, !.dirty = TRUE]
          ELSE IF c \in gone THEN
            IF f = None \/ f.fresh THEN None
            ELSE [f EXCEPT !.unspent = FALSE, !.dirty = TRUE]
          ELSE cache[c]
    BY DEF BatchWrite
  <2> HIDE DEF f
  <2>3. [unspent |-> TRUE, dirty |-> TRUE, fresh |-> TRUE] \in CoinEntry
    BY DEF CoinEntry
  <2>4. f # None => /\ [f EXCEPT !.unspent = TRUE, !.dirty = TRUE] \in CoinEntry
                    /\ [f EXCEPT !.unspent = FALSE, !.dirty = TRUE] \in CoinEntry
    BY <2>1 DEF CoinEntry
  <2>5. cache[c] \in CoinEntry \cup {None}
    BY DEF Types
  <2> QED BY <2>2, <2>3, <2>4, <2>5
<1>2. BatchWrite(gone, made) = [c \in Block |-> BatchWrite(gone, made)[c]]
  BY DEF BatchWrite
<1> QED BY <1>1, <1>2

-----------------------------------------------------------------------------
(* The actions *)

(* What a start does, in four cases: it is lost, is refused or dies, runs  *)
(* from what is on disk, or has changed the coins in a repair.             *)
LEMMA StartCases ==
  ASSUME NEW force \in BOOLEAN, Start(force)
  PROVE  /\ pc = "down" /\ UNCHANGED <<fileVars, stopping, crashes>>
         /\ \/ /\ pc' = "lost"
               /\ UNCHANGED <<chainVars, coinVars, coinDb, prepared, repaired>>
            \/ /\ prepared => prepared'
               /\ UNCHANGED <<chainVars, coinVars, pc, coinDb, repaired>>
            \/ /\ index' = diskIndex /\ dirty' = {} /\ info' = diskInfo
               /\ tip' = diskBest /\ best' = diskBest /\ cache' = Empty
               /\ pc' = "run" /\ UNCHANGED <<coinDb, repaired>>
            \/ /\ ~prepared /\ repaired'
               /\ \/ /\ index' = diskIndex /\ dirty' = {} /\ info' = diskInfo
                     /\ cache' = Empty /\ pc' = "run"
                  \/ UNCHANGED <<chainVars, coinVars, pc>>
<1>1. pc = "down" /\ UNCHANGED <<fileVars, stopping, crashes>>
  BY DEF Start
<1>2. CASE ParentMissing
  BY <1>1, <1>2 DEF Start
<1>3. CASE ~ParentMissing
  <2>1. PICK sorted : IF OutOfSync(sorted) /\ ~force THEN Repair(sorted) ELSE Load(sorted)
    BY <1>3 DEF Start
  <2>2. CASE OutOfSync(sorted) /\ ~force
    <3>1. ~prepared /\ Repair(sorted)
      BY <2>1, <2>2 DEF OutOfSync
    <3> QED BY <1>1, <3>1 DEF Repair, FlushRepair, Run, Refused
  <2>3. CASE ~(OutOfSync(sorted) /\ ~force)
    BY <1>1, <2>1, <2>3 DEF Load, Run, Refused
  <2> QED BY <2>2, <2>3
<1> QED BY <1>2, <1>3

(* A death in a start leaves the coins on disk as they were, or repaired.  *)
LEMMA CrashInStartCases ==
  ASSUME NEW force \in BOOLEAN, CrashInStart(force)
  PROVE  /\ Die /\ UNCHANGED fileVars
         /\ repaired' \/ UNCHANGED <<coinDb, repaired>>
<1>1. Die /\ UNCHANGED fileVars
  BY DEF CrashInStart
<1>2. PICK sorted : IF OutOfSync(sorted) /\ ~force THEN FlushRepair(ToAdd(sorted))
                    ELSE UNCHANGED <<coinDb, repaired>>
  BY DEF CrashInStart
<1> QED BY <1>1, <1>2 DEF FlushRepair

(* Entries of the index: the new ones, and what a change of a flag keeps.  *)
LEMMA NewEntries ==
  /\ NewEntry \in Entry /\ NewEntry.pos = 0 /\ NewEntry.undo = FALSE
  /\ \A n \in 0 .. MaxSize : /\ [NewEntry EXCEPT !.pos = n] \in Entry
                             /\ [NewEntry EXCEPT !.pos = n].pos = n
                             /\ [NewEntry EXCEPT !.pos = n].undo = FALSE
  /\ None \notin Entry
<1>1. None \notin Entry /\ MaxSize \in Nat
  BY ChainFlushAssumption
<1>2. NewEntry \in Entry /\ NewEntry.pos = 0 /\ NewEntry.undo = FALSE
  BY <1>1 DEF NewEntry, Entry
<1>3. ASSUME NEW e \in Entry, NEW n \in 0 .. MaxSize
      PROVE  /\ [e EXCEPT !.pos = n] \in Entry /\ [e EXCEPT !.pos = n].pos = n
             /\ [e EXCEPT !.pos = n].undo = e.undo
  BY DEF Entry
<1> QED BY <1>1, <1>2, <1>3

LEMMA EntryChanges ==
  ASSUME NEW e \in Entry
  PROVE  /\ [e EXCEPT !.undo = TRUE] \in Entry /\ [e EXCEPT !.failed = TRUE] \in Entry
         /\ [e EXCEPT !.undo = TRUE].pos = e.pos /\ [e EXCEPT !.undo = TRUE].undo = TRUE
         /\ [e EXCEPT !.failed = TRUE].pos = e.pos /\ [e EXCEPT !.failed = TRUE].undo = e.undo
         /\ e.undo => [e EXCEPT !.undo = TRUE] = e
  BY DEF Entry

(* What ConnectTip does: it shuts down, finds the block invalid, or makes  *)
(* it the tip.                                                             *)
FindsInvalid(b) ==
  /\ Readable(b)
  /\ index' = [index EXCEPT ![b] = [index[b] EXCEPT !.failed = TRUE]]
  /\ dirty' = dirty \cup {b} /\ UNCHANGED <<tip, cache, best, diskIndex>>
MakesTip(b) ==
  /\ Readable(b)
  /\ diskIndex' = [diskIndex EXCEPT ![b] = index[b]]
  /\ index' = [index EXCEPT ![b] = [index[b] EXCEPT !.undo = TRUE]]
  /\ dirty' = (IF index[b].undo THEN dirty ELSE dirty \cup {b})
  /\ cache' = BatchWrite(Spends[b], {b}) /\ best' = b /\ tip' = b

LEMMA ConnectCases ==
  ASSUME NEW b \in Block, NEW flush \in BOOLEAN, ConnectTip(b, flush)
  PROVE  /\ pc = "run" /\ b # Genesis /\ Parent[b] = tip
         /\ pc' \in {"run", "info"}
         /\ UNCHANGED <<info, blk, diskInfo, diskCoins, diskBest, prepared, crashes, repaired>>
         /\ \/ UNCHANGED <<index, dirty, tip, cache, best, diskIndex>>
            \/ FindsInvalid(b)
            \/ MakesTip(b)
<1>1. CASE ~Readable(b)
  BY <1>1 DEF ConnectTip, coinVars, coinDb
<1>2. CASE Readable(b) /\ ~(Spends[b] \subseteq Coins)
  BY <1>2 DEF ConnectTip, FindsInvalid, coinVars, coinDb
<1>3. CASE Readable(b) /\ Spends[b] \subseteq Coins
  BY <1>3 DEF ConnectTip, MakesTip, Dirtied, coinDb
<1> QED BY <1>1, <1>2, <1>3

LEMMA TypesNext ==
  ASSUME Types, [Next]_vars
  PROVE  Types'
<1> USE ChainFlushAssumption
<1>0. Empty \in [Block -> CoinEntry \cup {None}] /\ Empty \in [Block -> Entry \cup {None}]
  BY DEF Empty
<1>1. ASSUME NEW b \in Block, AcceptBlockHeader(b) PROVE Types'
  BY <1>1, NewEntries DEF AcceptBlockHeader, Types, coinVars, fileVars, control
<1>2. ASSUME NEW b \in Block, AcceptBlock(b) PROVE Types'
  <2> DEFINE n == info.size + 1
  <2>1. /\ n \in 1 .. MaxSize /\ info'.size = n
        /\ blk' = [blk EXCEPT ![info'.size] = b]
        /\ index' = [index EXCEPT ![b] = [NewEntry EXCEPT !.pos = info'.size]]
        /\ dirty' = dirty \cup {b} /\ UNCHANGED <<coinVars, diskIndex, diskInfo, pc, control>>
    BY <1>2 DEF AcceptBlock, Types
  <2>2. n \in 0 .. MaxSize
    BY <2>1
  <2> HIDE DEF n
  <2>3. [NewEntry EXCEPT !.pos = n] \in Entry
    BY <2>2, NewEntries
  <2>4. index' \in [Block -> Entry \cup {None}]
    BY <2>1, <2>3 DEF Types
  <2>5. blk' \in [1 .. MaxSize -> Block \cup {None}]
    BY <2>1 DEF Types
  <2> QED BY <2>1, <2>2, <2>4, <2>5 DEF Types, coinVars, control
<1>3. ASSUME NEW b \in Block, WriteBlockIndex(b) PROVE Types'
  BY <1>3 DEF WriteBlockIndex, Types, coinVars, control
<1>4. CASE DisconnectTip
  <2>1. cache' = cache \/ cache' = BatchWrite({tip}, Spends[tip])
    BY <1>4 DEF DisconnectTip, coinVars
  <2>2. cache' \in [Block -> CoinEntry \cup {None}]
    BY <2>1, BatchWriteType DEF Types
  <2> QED BY <1>4, <2>2 DEF DisconnectTip, Types, fileVars
<1>5. ASSUME NEW b \in Block, NEW flush \in BOOLEAN, ConnectTip(b, flush) PROVE Types'
  <2>1. pc' \in {"run", "info"} /\ UNCHANGED <<info, blk, diskInfo, crashes>>
    BY <1>5, ConnectCases
  <2>2. Readable(b) => /\ index[b] \in Entry /\ [index[b] EXCEPT !.failed = TRUE] \in Entry
                       /\ [index[b] EXCEPT !.undo = TRUE] \in Entry
    <3>1. Readable(b) => index[b] \in Entry
      BY DEF Readable, HaveData, Types
    <3> QED BY <3>1, EntryChanges
  <2>3. CASE UNCHANGED <<index, dirty, tip, cache, best, diskIndex>>
    BY <2>1, <2>3 DEF Types
  <2>4. CASE FindsInvalid(b)
    BY <2>1, <2>2, <2>4 DEF Types, FindsInvalid
  <2>5. CASE MakesTip(b)
    <3>1. cache' \in [Block -> CoinEntry \cup {None}]
      BY <2>5, BatchWriteType DEF MakesTip
    <3> QED BY <2>1, <2>2, <2>5, <3>1 DEF Types, MakesTip
  <2> QED BY <1>5, <2>3, <2>4, <2>5, ConnectCases
<1>6. CASE PeriodicFlush \/ Shutdown \/ WriteBlockFileInfo \/ WriteShutdownFlag
  BY <1>6 DEF PeriodicFlush, Shutdown, WriteBlockFileInfo, WriteShutdownFlag, Types,
              chainVars, coinVars, fileVars, control
<1>7. CASE FlushCoins
  BY <1>0, <1>7 DEF FlushCoins, Types, chainVars, fileVars, control
<1>8. ASSUME Die, UNCHANGED fileVars PROVE Types'
  BY <1>0, <1>8 DEF Die, Types, fileVars
<1>9. ASSUME NEW force \in BOOLEAN, Start(force) PROVE Types'
  BY <1>0, <1>9, StartCases DEF Types, chainVars, coinVars, fileVars
<1>10. CASE UNCHANGED vars
  BY <1>10 DEF vars, Types, chainVars, coinVars, fileVars, coinDb, control
<1> QED BY <1>1, <1>2, <1>3, <1>4, <1>5, <1>6, <1>7, <1>8, <1>9, <1>10, CrashInStartCases
        DEF Next, Crash

-----------------------------------------------------------------------------
(* The coins and the index, as long as no start repaired the coins *)

(* Every block of the chain of t has an entry with data and undo data, and *)
(* the genesis block is never connected.                                   *)
Loadable(idx, t) ==
  \A a \in Anc[t] \ {Genesis} : idx[a] # None /\ idx[a].pos # 0 /\ idx[a].undo
NoGenesisUndo(idx) == idx[Genesis] # None => ~idx[Genesis].undo

(* What is on disk, and what a running node has in memory: an entry that   *)
(* differs from the one on disk is dirty, and the chain of the coin        *)
(* database is loadable from memory too, so that writing an entry never    *)
(* takes the undo data of one of its blocks away.                          *)
DiskOK ==
  /\ diskBest \in Block /\ diskCoins = Utxo[diskBest]
  /\ Loadable(diskIndex, diskBest) /\ NoGenesisUndo(diskIndex)
MemoryOK ==
  /\ tip \in Block /\ best = tip /\ Coins = Utxo[tip]
  /\ Loadable(index, tip) /\ Loadable(index, diskBest) /\ NoGenesisUndo(index)
  /\ \A x \in Block \ dirty : index[x] = diskIndex[x]
SavedInv == ~repaired => DiskOK /\ CacheOK /\ (Running => MemoryOK)

(* A change of the index at a block b keeps a chain loadable if the new    *)
(* entry is as good as the old one.                                        *)
LEMMA LoadableChange ==
  ASSUME NEW idx \in [Block -> Entry \cup {None}], NEW b \in Block, NEW e \in Entry,
         NEW t \in Block, Loadable(idx, t),
         \/ idx[b] = None
         \/ idx[b] # None /\ idx[b].pos = 0
         \/ e.pos # 0 /\ e.undo
         \/ idx[b] # None /\ e.pos = idx[b].pos /\ e.undo = idx[b].undo
         \/ b \notin Anc[t]
  PROVE  Loadable([idx EXCEPT ![b] = e], t)
<1>1. Anc[t] \subseteq Block
  BY AncLeast
<1>2. e # None
  BY NewEntries
<1> QED BY <1>1, <1>2 DEF Loadable

LEMMA SavedInvInit == Init => Types /\ SavedInv
<1> SUFFICES ASSUME Init PROVE Types /\ SavedInv
  OBVIOUS
<1> DEFINE e == [NewEntry EXCEPT !.pos = 1]
<1>1. e \in Entry /\ e.undo = FALSE /\ 1 \in 0 .. MaxSize /\ 1 \in 1 .. MaxSize
  <2>1. 1 \in 0 .. MaxSize /\ 1 \in 1 .. MaxSize
    BY ChainFlushAssumption
  <2> QED BY <2>1, NewEntries
<1>2. index = [Empty EXCEPT ![Genesis] = e]
  BY DEF Init
<1> HIDE DEF e
<1>3. Types
  <2>1. index \in [Block -> Entry \cup {None}]
    BY <1>1, <1>2 DEF Empty
  <2> QED BY <1>1, <2>1, ChainFlushAssumption DEF Init, Types, Empty
<1>4. index[Genesis] = e /\ Genesis \in Block
  BY <1>2, ChainFlushAssumption DEF Empty
<1>5. Utxo[Genesis] = {}
  <2>1. ASSUME NEW x \in Utxo[Genesis] PROVE FALSE
    BY <1>4, AncStep, UtxoMember
  <2> QED BY <2>1
<1>6. Coins = {}
  BY DEF Coins, Init, Empty
<1>7. Loadable(index, Genesis)
  BY AncStep DEF Loadable
<1> QED BY <1>1, <1>3, <1>4, <1>5, <1>6, <1>7
        DEF Init, SavedInv, DiskOK, MemoryOK, CacheOK, NoGenesisUndo, Empty

LEMMA SavedInvNext ==
  ASSUME Types, SavedInv, [Next]_vars
  PROVE  SavedInv'
<1> SUFFICES ASSUME ~repaired' PROVE DiskOK' /\ CacheOK' /\ (Running' => MemoryOK')
  BY DEF SavedInv
<1>0. Genesis \in Block /\ \A b \in Block : Empty[b] = None
  BY ChainFlushAssumption DEF Empty
<1>a. ~repaired
  <2>1. ASSUME NEW b \in Block, NEW flush \in BOOLEAN, ConnectTip(b, flush) PROVE ~repaired
    BY <2>1, ConnectCases
  <2>2. ASSUME NEW force \in BOOLEAN, Start(force) PROVE ~repaired
    BY <2>2, StartCases
  <2>3. ASSUME NEW force \in BOOLEAN, CrashInStart(force) PROVE ~repaired
    BY <2>3, CrashInStartCases
  <2> QED BY <2>1, <2>2, <2>3
          DEF Next, vars, control, AcceptBlockHeader, AcceptBlock, WriteBlockIndex,
              DisconnectTip, PeriodicFlush, Shutdown, WriteBlockFileInfo, FlushCoins,
              WriteShutdownFlag, Crash
<1>b. DiskOK /\ CacheOK /\ (Running => MemoryOK)
  BY <1>a DEF SavedInv
<1>c. ASSUME UNCHANGED <<cache, diskCoins>> PROVE Coins' = Coins /\ CacheOK'
  BY <1>b, <1>c DEF Coins, CacheOK
<1>d. UNCHANGED <<diskIndex, diskCoins, diskBest>> => DiskOK'
  BY <1>b DEF DiskOK, Loadable, NoGenesisUndo
<1>1. ASSUME NEW b \in Block, AcceptBlockHeader(b)
      PROVE  DiskOK' /\ CacheOK' /\ (Running' => MemoryOK')
  <2>1. /\ Running /\ index[b] = None /\ index' = [index EXCEPT ![b] = NewEntry]
        /\ dirty' = dirty \cup {b}
        /\ UNCHANGED <<tip, cache, best, diskIndex, diskCoins, diskBest>>
    BY <1>1 DEF AcceptBlockHeader, Idle, Running, coinVars, fileVars, coinDb
  <2>2. MemoryOK
    BY <1>b, <2>1
  <2>3. Loadable(index', tip) /\ Loadable(index', diskBest)
    BY <1>b, <2>1, <2>2, LoadableChange, NewEntries DEF Types, MemoryOK, DiskOK
  <2>4. NoGenesisUndo(index')
    BY <1>0, <2>1, <2>2, NewEntries DEF Types, MemoryOK, NoGenesisUndo
  <2>5. \A x \in Block \ dirty' : index'[x] = diskIndex[x]
    BY <2>1, <2>2 DEF Types, MemoryOK
  <2>6. MemoryOK'
    BY <1>c, <2>1, <2>2, <2>3, <2>4, <2>5 DEF MemoryOK
  <2> QED BY <1>c, <1>d, <2>1, <2>6
<1>2. ASSUME NEW b \in Block, AcceptBlock(b)
      PROVE  DiskOK' /\ CacheOK' /\ (Running' => MemoryOK')
  <2> DEFINE e == [NewEntry EXCEPT !.pos = info'.size]
  <2>1. /\ Running /\ ~HaveData(b) /\ b # Genesis
        /\ index' = [index EXCEPT ![b] = e]
        /\ dirty' = dirty \cup {b} /\ info'.size = info.size + 1 /\ info.size < MaxSize
        /\ UNCHANGED <<tip, cache, best, diskIndex, diskCoins, diskBest>>
    BY <1>2 DEF AcceptBlock, Idle, Running, coinVars, coinDb
  <2>2. MemoryOK
    BY <1>b, <2>1
  <2>3. e \in Entry
    <3>1. info'.size \in 0 .. MaxSize
      BY <2>1, ChainFlushAssumption DEF Types
    <3> QED BY <3>1, NewEntries
  <2> HIDE DEF e
  <2>4. Loadable(index', tip) /\ Loadable(index', diskBest)
    BY <1>b, <2>1, <2>2, <2>3, LoadableChange DEF Types, MemoryOK, DiskOK, HaveData
  <2>5. NoGenesisUndo(index')
    BY <1>0, <2>1, <2>2 DEF Types, MemoryOK, NoGenesisUndo
  <2>6. \A x \in Block \ dirty' : index'[x] = diskIndex[x]
    BY <2>1, <2>2 DEF Types, MemoryOK
  <2>7. MemoryOK'
    BY <1>c, <2>1, <2>2, <2>4, <2>5, <2>6 DEF MemoryOK
  <2> QED BY <1>c, <1>d, <2>1, <2>7
<1>3. ASSUME NEW b \in Block, WriteBlockIndex(b)
      PROVE  DiskOK' /\ CacheOK' /\ (Running' => MemoryOK')
  <2>1. /\ Running /\ b \in dirty /\ diskIndex' = [diskIndex EXCEPT ![b] = index[b]]
        /\ dirty' = dirty \ {b}
        /\ UNCHANGED <<index, tip, cache, best, diskCoins, diskBest>>
    BY <1>3 DEF WriteBlockIndex, Running, coinVars, coinDb
  <2>2. MemoryOK
    BY <1>b, <2>1
  <2>3. Loadable(diskIndex', diskBest)
    <3>1. Anc[diskBest] \subseteq Block
      BY <1>b, AncLeast DEF DiskOK
    <3> QED BY <1>b, <2>1, <2>2, <3>1 DEF Types, MemoryOK, DiskOK, Loadable
  <2>4. NoGenesisUndo(diskIndex')
    BY <1>0, <1>b, <2>1, <2>2 DEF Types, MemoryOK, DiskOK, NoGenesisUndo
  <2>5. \A x \in Block \ dirty' : index[x] = diskIndex'[x]
    BY <2>1, <2>2 DEF Types, MemoryOK
  <2>6. MemoryOK'
    BY <1>c, <2>1, <2>2, <2>5 DEF MemoryOK
  <2> QED BY <1>b, <1>c, <2>1, <2>3, <2>4, <2>6 DEF DiskOK
<1>4. CASE DisconnectTip
  <2>0. /\ Running /\ MemoryOK
        /\ UNCHANGED <<index, dirty, diskIndex, diskCoins, diskBest>>
    BY <1>4, <1>b DEF DisconnectTip, Running, fileVars, coinDb
  <2>1. CASE Readable(tip)
    <3>1. /\ HaveData(tip) /\ index[tip].undo /\ tip' = Parent[tip] /\ best' = Parent[tip]
          /\ cache' = BatchWrite({tip}, Spends[tip])
      BY <1>4, <2>1 DEF DisconnectTip, Readable
    <3>2. tip \in Block \ {Genesis}
      BY <2>0, <3>1 DEF MemoryOK, NoGenesisUndo, HaveData
    <3>3. Parent[tip] \in Block /\ Anc[Parent[tip]] \subseteq Anc[tip]
      BY <3>2, AncStep
    <3>4. Coins' = (Coins \ {tip}) \cup Spends[tip] /\ CacheOK'
      BY <1>b, <2>0, <3>1, <3>2, UtxoStep, BatchWriteCoins
    <3>5. Coins' = Utxo[Parent[tip]]
      BY <2>0, <3>2, <3>4, UtxoStep DEF MemoryOK
    <3>6. Loadable(index, Parent[tip])
      BY <2>0, <3>3 DEF MemoryOK, Loadable
    <3>7. MemoryOK'
      BY <2>0, <3>1, <3>3, <3>5, <3>6 DEF MemoryOK
    <3> QED BY <1>d, <2>0, <3>4, <3>7
  <2>2. CASE ~Readable(tip)
    <3>1. UNCHANGED <<tip, cache, best>>
      BY <1>4, <2>2 DEF DisconnectTip, coinVars
    <3>2. MemoryOK'
      BY <1>c, <2>0, <3>1 DEF MemoryOK
    <3> QED BY <1>c, <1>d, <2>0, <3>1, <3>2
  <2> QED BY <2>1, <2>2
<1>5. ASSUME NEW b \in Block, NEW flush \in BOOLEAN, ConnectTip(b, flush)
      PROVE  DiskOK' /\ CacheOK' /\ (Running' => MemoryOK')
  <2>0. /\ Running /\ MemoryOK /\ b # Genesis /\ Parent[b] = tip
        /\ UNCHANGED <<diskCoins, diskBest>>
    BY <1>5, <1>b, ConnectCases DEF Running
  <2>1. CASE UNCHANGED <<index, dirty, tip, cache, best, diskIndex>>
    <3>1. MemoryOK'
      BY <1>c, <2>0, <2>1 DEF MemoryOK
    <3> QED BY <1>c, <1>d, <2>0, <2>1, <3>1
  <2>2. Readable(b) => index[b] \in Entry /\ index[b].pos # 0 /\ index[b] # None
    BY DEF Readable, HaveData, Types
  <2>3. CASE FindsInvalid(b)
    <3> DEFINE e == [index[b] EXCEPT !.failed = TRUE]
    <3>1. e \in Entry /\ e.pos = index[b].pos /\ e.undo = index[b].undo
      BY <2>2, <2>3, EntryChanges DEF FindsInvalid
    <3>2. /\ index' = [index EXCEPT ![b] = e] /\ dirty' = dirty \cup {b}
          /\ UNCHANGED <<tip, cache, best, diskIndex>>
      BY <2>3 DEF FindsInvalid
    <3> HIDE DEF e
    <3>a. /\ index[b] # None /\ index \in [Block -> Entry \cup {None}]
          /\ tip \in Block /\ diskBest \in Block
          /\ Loadable(index, tip) /\ Loadable(index, diskBest)
      BY <1>b, <2>0, <2>2, <2>3 DEF Types, MemoryOK, DiskOK, FindsInvalid
    <3>3. Loadable(index', tip) /\ Loadable(index', diskBest)
      BY <3>1, <3>2, <3>a, LoadableChange
    <3>4. NoGenesisUndo(index') /\ \A x \in Block \ dirty' : index'[x] = diskIndex[x]
      BY <1>0, <2>0, <3>2 DEF Types, MemoryOK, NoGenesisUndo
    <3>5. MemoryOK'
      BY <1>c, <2>0, <3>2, <3>3, <3>4 DEF MemoryOK
    <3> QED BY <1>c, <1>d, <2>0, <3>2, <3>5
  <2>4. CASE MakesTip(b)
    <3> DEFINE e == [index[b] EXCEPT !.undo = TRUE]
    <3>1. /\ e \in Entry /\ e.pos # 0 /\ e.undo /\ index[b] \in Entry
          /\ index[b].pos # 0 /\ (index[b].undo => e = index[b])
      BY <2>2, <2>4, EntryChanges DEF MakesTip
    <3>2. /\ diskIndex' = [diskIndex EXCEPT ![b] = index[b]]
          /\ index' = [index EXCEPT ![b] = e]
          /\ dirty' = (IF index[b].undo THEN dirty ELSE dirty \cup {b})
          /\ cache' = BatchWrite(Spends[b], {b}) /\ best' = b /\ tip' = b
      BY <2>4 DEF MakesTip
    <3> HIDE DEF e
    <3>3. Coins' = (Coins \ Spends[b]) \cup {b} /\ CacheOK'
      BY <1>b, <2>0, <3>2, BatchWriteCoins
    <3>4. Coins' = Utxo[b]
      BY <2>0, <3>3, UtxoStep DEF MemoryOK
    <3>5. Loadable(index', tip) /\ Loadable(index', diskBest)
      BY <1>b, <2>0, <3>1, <3>2, LoadableChange DEF Types, MemoryOK, DiskOK
    <3>6. Loadable(index', b)
      <4>1. Anc[b] = {b} \cup Anc[tip]
        BY <2>0, AncStep
      <4>2. index'[b] = e /\ e # None
        BY <3>1, <3>2, NewEntries DEF Types
      <4> QED BY <3>1, <3>5, <4>1, <4>2 DEF Loadable
    <3>7. NoGenesisUndo(index') /\ NoGenesisUndo(diskIndex')
      BY <1>0, <1>b, <2>0, <3>2 DEF Types, MemoryOK, DiskOK, NoGenesisUndo
    <3>8. Loadable(diskIndex', diskBest)
      <4>1. CASE b \in Anc[diskBest]
        <5>1. index[b].undo
          BY <2>0, <4>1 DEF MemoryOK, Loadable
        <5> QED BY <1>b, <3>1, <3>2, <5>1, LoadableChange DEF Types, DiskOK
      <4>2. CASE b \notin Anc[diskBest]
        BY <1>b, <3>1, <3>2, <4>2, LoadableChange DEF Types, DiskOK
      <4> QED BY <4>1, <4>2
    <3>9. \A x \in Block \ dirty' : index'[x] = diskIndex'[x]
      <4>1. ASSUME NEW x \in Block \ dirty' PROVE index'[x] = diskIndex'[x]
        <5>1. CASE x = b
          BY <3>1, <3>2, <4>1, <5>1 DEF Types
        <5>2. CASE x # b
          BY <2>0, <3>2, <4>1, <5>2 DEF Types, MemoryOK
        <5> QED BY <5>1, <5>2
      <4> QED BY <4>1
    <3>10. MemoryOK'
      BY <2>0, <3>2, <3>4, <3>5, <3>6, <3>7, <3>9 DEF MemoryOK
    <3>11. DiskOK'
      BY <1>b, <2>0, <3>7, <3>8 DEF DiskOK
    <3> QED BY <3>3, <3>10, <3>11
  <2> QED BY <1>5, <2>1, <2>3, <2>4, ConnectCases
<1>6. CASE PeriodicFlush \/ Shutdown \/ WriteBlockFileInfo \/ WriteShutdownFlag
  <2>1. /\ Running
        /\ UNCHANGED <<index, dirty, tip, cache, best, diskIndex, diskCoins, diskBest>>
    BY <1>6 DEF PeriodicFlush, Shutdown, WriteBlockFileInfo, WriteShutdownFlag, Running,
                Idle, chainVars, coinVars, fileVars, coinDb
  <2>2. MemoryOK'
    BY <1>b, <1>c, <2>1 DEF MemoryOK
  <2> QED BY <1>c, <1>d, <2>1, <2>2
<1>7. CASE FlushCoins
  <2>1. /\ Running /\ MemoryOK /\ dirty = {} /\ diskBest' = best /\ cache' = Empty
        /\ UNCHANGED <<index, dirty, tip, best, diskIndex>>
        /\ diskCoins' = (diskCoins \ {c \in Block : cache[c] # None /\ cache[c].dirty})
             \cup {c \in Block : cache[c] # None /\ cache[c].dirty /\ cache[c].unspent}
    BY <1>7, <1>b DEF FlushCoins, Running, chainVars, fileVars
  <2>2. diskCoins' = Coins
    <3>1. diskCoins \subseteq Block
      <4>1. \A x \in diskCoins : x \in Anc[diskBest]
        BY <1>b, UtxoMember DEF DiskOK
      <4> QED BY <1>b, <4>1, AncLeast DEF DiskOK
    <3> QED BY <1>b, <2>1, <3>1 DEF Coins, CacheOK
  <2>3. Coins' = diskCoins' /\ CacheOK'
    <3>1. diskCoins' \subseteq Block
      BY <2>2 DEF Coins
    <3> QED BY <1>0, <2>1, <3>1 DEF Coins, CacheOK
  <2>4. Loadable(diskIndex, tip)
    <3>1. Anc[tip] \subseteq Block
      BY <2>1, AncLeast DEF MemoryOK
    <3> QED BY <2>1, <3>1 DEF MemoryOK, Loadable
  <2>5. DiskOK'
    BY <1>b, <2>1, <2>2, <2>4 DEF DiskOK, MemoryOK
  <2>6. MemoryOK'
    BY <2>1, <2>2, <2>3 DEF MemoryOK
  <2> QED BY <2>3, <2>5, <2>6
<1>8. ASSUME Die, UNCHANGED <<fileVars, coinDb>>
      PROVE  DiskOK' /\ CacheOK' /\ (Running' => MemoryOK')
  <2>1. /\ ~Running' /\ cache' = Empty
        /\ UNCHANGED <<diskIndex, diskCoins, diskBest>>
    BY <1>8 DEF Die, Running, fileVars, coinDb
  <2> QED BY <1>0, <1>d, <2>1 DEF CacheOK
<1>9. ASSUME NEW force \in BOOLEAN, Start(force)
      PROVE  DiskOK' /\ CacheOK' /\ (Running' => MemoryOK')
  <2>1. ~Running /\ UNCHANGED <<diskIndex, coinDb>>
    BY <1>9, StartCases DEF Running, fileVars
  <2>2. CASE cache' = cache /\ pc' \in {pc, "lost"}
    <3>1. ~Running'
      BY <1>9, <2>2, StartCases DEF Running
    <3> QED BY <1>c, <1>d, <2>1, <2>2, <3>1 DEF coinDb
  <2>3. CASE /\ index' = diskIndex /\ dirty' = {}
             /\ tip' = diskBest /\ best' = diskBest /\ cache' = Empty
    <3>1. Coins' = diskCoins /\ CacheOK'
      <4>1. diskCoins \subseteq Block
        <5>1. \A x \in diskCoins : x \in Anc[diskBest]
          BY <1>b, UtxoMember DEF DiskOK
        <5> QED BY <1>b, <5>1, AncLeast DEF DiskOK
      <4> QED BY <1>0, <2>1, <2>3, <4>1 DEF Coins, CacheOK, coinDb
    <3>2. MemoryOK'
      BY <1>b, <2>1, <2>3, <3>1 DEF MemoryOK, DiskOK, coinDb
    <3> QED BY <1>d, <2>1, <3>1, <3>2 DEF coinDb
  <2> QED BY <1>9, <2>2, <2>3, StartCases DEF coinVars, chainVars
<1>10. CASE UNCHANGED vars
  <2>1. UNCHANGED <<index, dirty, tip, cache, best, diskIndex, diskCoins, diskBest, pc>>
    BY <1>10 DEF vars, chainVars, coinVars, fileVars, coinDb
  <2>2. Running' => MemoryOK'
    BY <1>b, <1>c, <2>1 DEF MemoryOK, Running
  <2> QED BY <1>c, <1>d, <2>1, <2>2
<1> QED BY <1>1, <1>2, <1>3, <1>4, <1>5, <1>6, <1>7, <1>8, <1>9, <1>10, CrashInStartCases
        DEF Next, Crash

(* Type correctness.                                                       *)
THEOREM ChainFlushTypeOK == Spec => []TypeOK
<1>1. Types /\ SavedInv /\ [Next]_vars => (Types /\ SavedInv)'
  BY TypesNext, SavedInvNext
<1>2. Types /\ SavedInv => TypeOK
  <2> SUFFICES ASSUME Types, SavedInv PROVE TypeOK
    OBVIOUS
  <2>1. ASSUME ~repaired PROVE diskCoins \subseteq Block /\ diskBest \in Block
                               /\ (Running => tip \in Block)
    <3>1. DiskOK /\ (Running => MemoryOK)
      BY <2>1 DEF SavedInv
    <3>2. \A x \in diskCoins : x \in Anc[diskBest]
      BY <3>1, UtxoMember DEF DiskOK
    <3> QED BY <3>1, <3>2, AncLeast DEF DiskOK, MemoryOK
  <2> QED BY <2>1 DEF Types, TypeOK
<1> QED BY <1>1, <1>2, SavedInvInit, PTL DEF Spec

(* However blocks come in, chains are reorganised, flushes are interleaved *)
(* and the process dies, the coins are those of the chain of their best    *)
(* block, on disk and through the cache.                                   *)
THEOREM ChainFlushCoinsMatchBest == Spec => []CoinsMatchBest
<1>1. Types /\ SavedInv /\ [Next]_vars => (Types /\ SavedInv)'
  BY TypesNext, SavedInvNext
<1>2. SavedInv => CoinsMatchBest
  BY DEF SavedInv, DiskOK, MemoryOK, CoinsMatchBest, Running
<1> QED BY <1>1, <1>2, SavedInvInit, PTL DEF Spec

(* FlushStateToDisk writes the coins after the index entries they refer    *)
(* to, and no later write of an entry takes its undo data away.            *)
THEOREM ChainFlushSavedChainLoadable == Spec => []SavedChainLoadable
<1>1. Types /\ SavedInv /\ [Next]_vars => (Types /\ SavedInv)'
  BY TypesNext, SavedInvNext
<1>2. SavedInv => SavedChainLoadable
  BY DEF SavedInv, DiskOK, Loadable, SavedChainLoadable
<1> QED BY <1>1, <1>2, SavedInvInit, PTL DEF Spec

-----------------------------------------------------------------------------
(* A node that never died *)

(* VerifyDB disconnects the blocks of a chain from its coins without a     *)
(* mismatch if they can be read and have undo data.                        *)
LEMMA ChainVerifies ==
  ASSUME NEW b \in Block, Loadable(diskIndex, b),
         \A a \in Anc[b] \ {Genesis} : blk[diskIndex[a].pos] = a
  PROVE  Verified(b, Utxo[b])
<1> DEFINE chain == Anc[b] \ {Genesis}
           Above(a) == {c \in chain : Height[c] > Height[a]}
           CoinsAt(a) == (Utxo[b] \cup UNION {Spends[c] : c \in Above(a)}) \ Above(a)
<1>1. ASSUME NEW a \in chain
      PROVE  /\ DiskReadable(a) /\ diskIndex[a].undo
             /\ a \in CoinsAt(a) /\ Spends[a] \cap CoinsAt(a) = {}
  <2>0. a \in Block
    BY AncLeast
  <2>1. \A c \in chain : c \in Above(a) <=> c \notin Anc[a]
    BY HigherOnChain
  <2>2. DiskReadable(a) /\ diskIndex[a].undo
    BY DEF Loadable, DiskReadable
  <2>3. a \in CoinsAt(a)
    <3>1. a \notin Above(a)
      BY <2>0, <2>1, AncLeast
    <3>2. CASE \A c \in Anc[b] : a \notin Spends[c]
      BY <3>1, <3>2, UtxoMember
    <3>3. CASE \E c \in Anc[b] : a \in Spends[c]
      <4>1. PICK c \in Anc[b] : a \in Spends[c]
        BY <3>3
      <4>2. c # Genesis
        BY <4>1, ChainFlushAssumption
      <4>3. c \notin Anc[a]
        BY <2>0, <4>1, SpendsBelow
      <4>4. c \in Above(a)
        BY <2>1, <4>2, <4>3
      <4> QED BY <3>1, <4>1, <4>4
    <3> QED BY <3>2, <3>3
  <2>4. ASSUME NEW x \in Spends[a], x \in CoinsAt(a) PROVE FALSE
    <3>1. x \notin Utxo[b]
      BY UtxoMember
    <3>2. PICK c \in Above(a) : x \in Spends[c]
      BY <2>4, <3>1
    <3>3. c \in Block \ {Genesis} /\ c \in Anc[b] /\ c \notin Anc[a]
      BY <2>1, <3>2, AncLeast
    <3>4. a \in Anc[c] /\ a # c
      BY <2>0, <3>3, AncChain, AncLeast
    <3>5. Parent[c] \in Block /\ a \in Anc[Parent[c]]
      BY <3>3, <3>4, AncStep
    <3>6. x \in Utxo[Parent[c]]
      BY <3>2, <3>3, ChainFlushAssumption
    <3> QED BY <3>5, <3>6, UtxoMember
  <2> QED BY <2>2, <2>3, <2>4
<1> QED BY <1>1 DEF Verified

(* As long as the process did not die: every block with data is where the  *)
(* index says, in a slot below the size of the file; each part on disk is  *)
(* what is in memory from the moment it was written until the node runs    *)
(* again; and the flag keeps a start from repairing anything.              *)
Stored ==
  \A x \in Block : HaveData(x) => index[x].pos <= info.size /\ blk[index[x].pos] = x
CleanInv ==
  crashes = 0 =>
    /\ ~repaired /\ (pc = "down" => prepared)
    /\ Stored
    /\ pc \in {"index", "flag", "down", "lost"} => diskInfo = info
    /\ pc \in {"flag", "down", "lost"} =>
         diskIndex = index /\ diskBest = tip /\ dirty = {}

LEMMA CleanInvInit == Init => CleanInv
<1> SUFFICES ASSUME Init PROVE CleanInv
  OBVIOUS
<1>1. Stored
  <2>1. 1 \in 0 .. MaxSize /\ 1 \in 1 .. MaxSize /\ Genesis \in Block
    BY ChainFlushAssumption
  <2>2. \A x \in Block : index[x] = IF x = Genesis THEN [NewEntry EXCEPT !.pos = 1] ELSE None
    BY <2>1 DEF Init, Empty
  <2>3. [NewEntry EXCEPT !.pos = 1].pos = 1
    BY <2>1, NewEntries
  <2>4. info.size = 1 /\ blk[1] = Genesis
    BY <2>1 DEF Init
  <2>5. ASSUME NEW x \in Block, HaveData(x) PROVE index[x].pos = 1 /\ x = Genesis
    BY <2>2, <2>3, <2>5 DEF HaveData
  <2> QED BY <2>4, <2>5 DEF Stored
<1> QED BY <1>1 DEF Init, CleanInv

LEMMA CleanInvNext ==
  ASSUME Types, SavedInv, CleanInv, [Next]_vars
  PROVE  CleanInv'
<1> USE ChainFlushAssumption
<1>a. UNCHANGED <<index, info, blk>> /\ Stored => Stored'
  BY DEF Stored, HaveData
<1>1. ASSUME NEW b \in Block, AcceptBlockHeader(b) PROVE CleanInv'
  <2>1. /\ pc = "run" /\ index' = [index EXCEPT ![b] = NewEntry]
        /\ UNCHANGED <<info, blk, pc, crashes, repaired>>
    BY <1>1 DEF AcceptBlockHeader, Idle, fileVars, control
  <2>2. Stored => Stored'
    BY <2>1, NewEntries DEF Stored, HaveData, Types
  <2> QED BY <2>1, <2>2 DEF CleanInv
<1>2. ASSUME NEW b \in Block, AcceptBlock(b) PROVE CleanInv'
  <2> DEFINE n == info.size + 1
             e == [NewEntry EXCEPT !.pos = info'.size]
  <2>1. /\ pc = "run" /\ n \in 1 .. MaxSize /\ info'.size = n
        /\ blk' = [blk EXCEPT ![info'.size] = b] /\ index' = [index EXCEPT ![b] = e]
        /\ UNCHANGED <<pc, crashes, repaired>>
    BY <1>2 DEF AcceptBlock, Idle, Types, control
  <2>2. e.pos = n /\ n > info.size /\ info.size \in Nat /\ n \in Nat
    BY <2>1, NewEntries DEF Types
  <2> HIDE DEF n, e
  <2>3. Stored => Stored'
    <3> SUFFICES ASSUME Stored, NEW x \in Block, HaveData(x)'
                 PROVE  index'[x].pos <= info'.size /\ blk'[index'[x].pos] = x
      BY DEF Stored
    <3>1. CASE x = b
      BY <2>1, <2>2, <3>1 DEF Types
    <3>2. CASE x # b
      <4>1. index'[x] = index[x] /\ HaveData(x)
        BY <2>1, <3>2 DEF Types, HaveData
      <4>2. index[x] \in Entry
        BY <4>1 DEF Types, HaveData
      <4>3. index[x].pos \in Nat /\ index[x].pos <= MaxSize /\ index[x].pos # 0
        BY <4>1, <4>2 DEF Entry, HaveData
      <4>4. index[x].pos <= info.size /\ blk[index[x].pos] = x
        BY <4>1 DEF Stored
      <4>5. blk'[index[x].pos] = blk[index[x].pos]
        BY <2>1, <2>2, <4>3, <4>4 DEF Types
      <4> QED BY <2>1, <2>2, <4>1, <4>3, <4>4, <4>5
    <3> QED BY <3>1, <3>2
  <2> QED BY <2>1, <2>3 DEF CleanInv
<1>3. ASSUME NEW b \in Block, WriteBlockIndex(b) PROVE CleanInv'
  BY <1>3, <1>a DEF WriteBlockIndex, CleanInv, control
<1>4. CASE DisconnectTip
  BY <1>4, <1>a DEF DisconnectTip, CleanInv, fileVars
<1>5. ASSUME NEW b \in Block, NEW flush \in BOOLEAN, ConnectTip(b, flush) PROVE CleanInv'
  <2>1. /\ pc = "run" /\ pc' \in {"run", "info"}
        /\ UNCHANGED <<info, blk, crashes, repaired>>
    BY <1>5, ConnectCases
  <2>2. \/ index' = index
        \/ \E e : /\ HaveData(b) /\ e.pos = index[b].pos
                  /\ index' = [index EXCEPT ![b] = e]
    <3>1. CASE UNCHANGED <<index, dirty, tip, cache, best, diskIndex>>
      BY <3>1
    <3>2. CASE FindsInvalid(b) \/ MakesTip(b)
      <4>1. HaveData(b)
        BY <3>2 DEF FindsInvalid, MakesTip, Readable
      <4>2. index[b] \in Entry
        BY <4>1 DEF HaveData, Types
      <4> QED BY <3>2, <4>1, <4>2, EntryChanges DEF FindsInvalid, MakesTip
    <3> QED BY <1>5, <3>1, <3>2, ConnectCases
  <2>3. Stored => Stored'
    <3>1. CASE index' = index
      BY <1>a, <2>1, <3>1
    <3>2. ASSUME NEW e, HaveData(b), e.pos = index[b].pos, index' = [index EXCEPT ![b] = e]
          PROVE  Stored => Stored'
      BY <2>1, <3>2 DEF Stored, HaveData, Types
    <3> QED BY <2>2, <3>1, <3>2
  <2> QED BY <2>1, <2>3 DEF CleanInv
<1>6. CASE PeriodicFlush \/ Shutdown \/ WriteBlockFileInfo \/ WriteShutdownFlag
  <2>1. UNCHANGED <<index, info, blk, dirty, tip, diskIndex, diskBest, crashes, repaired>>
    BY <1>6 DEF PeriodicFlush, Shutdown, WriteBlockFileInfo, WriteShutdownFlag,
                chainVars, fileVars, coinDb, control
  <2>2. \/ pc' = "info"
        \/ pc' = "index" /\ diskInfo' = info
        \/ pc = "flag" /\ pc' = "down" /\ prepared' /\ UNCHANGED diskInfo
    BY <1>6 DEF PeriodicFlush, Shutdown, WriteBlockFileInfo, WriteShutdownFlag, fileVars
  <2> QED BY <1>a, <2>1, <2>2 DEF CleanInv
<1>7. CASE FlushCoins
  <2>1. /\ pc = "index" /\ pc' \in {"flag", "run"} /\ dirty = {} /\ diskBest' = best
        /\ UNCHANGED <<index, info, blk, dirty, tip, diskIndex, diskInfo, crashes, repaired>>
    BY <1>7 DEF FlushCoins, chainVars, fileVars, control
  <2>2. ASSUME ~repaired PROVE best = tip /\ diskIndex = index
    <3>1. best = tip /\ \A x \in Block : index[x] = diskIndex[x]
      BY <2>1, <2>2 DEF SavedInv, MemoryOK, Running
    <3> QED BY <3>1 DEF Types
  <2> QED BY <1>a, <2>1, <2>2 DEF CleanInv
<1>8. CASE Die
  BY <1>8 DEF Die, CleanInv, Types
<1>9. ASSUME NEW force \in BOOLEAN, Start(force) PROVE CleanInv'
  <2> SUFFICES ASSUME crashes = 0
               PROVE  CleanInv'
    BY <1>9, StartCases DEF CleanInv
  <2>1. /\ pc = "down" /\ UNCHANGED <<blk, diskIndex, diskInfo, crashes>>
        /\ ~repaired /\ prepared /\ Stored
        /\ diskInfo = info /\ diskIndex = index /\ diskBest = tip /\ dirty = {}
    BY <1>9, StartCases DEF CleanInv, fileVars
  <2>2. \/ /\ pc' \in {pc, "lost"} /\ prepared' /\ UNCHANGED repaired
           /\ UNCHANGED <<index, dirty, info, tip, diskBest>>
        \/ /\ index' = diskIndex /\ info' = diskInfo /\ pc' = "run" /\ UNCHANGED repaired
    BY <1>9, <2>1, StartCases DEF chainVars, coinDb
  <2>3. Stored'
    BY <1>a, <2>1, <2>2
  <2> QED BY <2>1, <2>2, <2>3 DEF CleanInv
<1>10. CASE UNCHANGED vars
  BY <1>10, <1>a DEF vars, CleanInv, chainVars, fileVars, coinDb, control
<1> QED BY <1>1, <1>2, <1>3, <1>4, <1>5, <1>6, <1>7, <1>8, <1>9, <1>10, CrashInStartCases
        DEF Next, Crash

(* A node that was always shut down properly finds on disk what it had in  *)
(* memory, and VerifyDB accepts it.                                        *)
THEOREM ChainFlushCleanRestart == Spec => []CleanRestart
<1>1. Types /\ SavedInv /\ CleanInv /\ [Next]_vars => (Types /\ SavedInv /\ CleanInv)'
  BY TypesNext, SavedInvNext, CleanInvNext
<1>2. Types /\ SavedInv /\ CleanInv => CleanRestart
  <2> SUFFICES ASSUME Types, SavedInv, CleanInv, pc = "down", crashes = 0
               PROVE  /\ diskIndex = index /\ diskInfo = info /\ diskBest = tip
                      /\ Verified(tip, diskCoins)
    BY DEF CleanRestart
  <2>1. /\ Stored /\ DiskOK
        /\ diskIndex = index /\ diskInfo = info /\ diskBest = tip
    BY DEF CleanInv, SavedInv
  <2>2. tip \in Block /\ diskCoins = Utxo[tip] /\ Loadable(diskIndex, tip)
    BY <2>1 DEF DiskOK
  <2>3. \A a \in Anc[tip] \ {Genesis} : blk[diskIndex[a].pos] = a
    BY <2>1, <2>2, AncLeast DEF Stored, HaveData, Loadable
  <2> QED BY <2>1, <2>2, <2>3, ChainVerifies
<1> QED BY <1>1, <1>2, SavedInvInit, CleanInvInit, PTL DEF Spec

=============================================================================
