-------------------------- MODULE ChainState_proofs --------------------------
(* Proofs about ChainState for any tree of blocks and any scenes.          *)
EXTENDS ChainState, FiniteSetTheorems, WellFoundedInduction, TLAPS

-----------------------------------------------------------------------------
(* The tree *)

(* The least value of a function to the naturals is reached.               *)
LEMMA LeastValue ==
  ASSUME NEW S, S # {}, NEW f \in [S -> Nat]
  PROVE  \E c \in S : \A d \in S : f[c] <= f[d]
<1> DEFINE T == {f[c] : c \in S}
<1>1. T \subseteq Nat /\ T # {}
  OBVIOUS
<1>2. PICK x \in T : \A y \in T : ~(<<y, x>> \in OpToRel(<, Nat))
  BY <1>1, WFMin, NatLessThanWellFounded
<1>3. PICK c \in S : x = f[c]
  OBVIOUS
<1>4. ASSUME NEW d \in S PROVE f[c] <= f[d]
  <2>1. f[d] \in T /\ f[d] \in Nat /\ x \in Nat
    BY <1>1
  <2>2. ~(f[d] < x)
    BY <1>2, <2>1 DEF OpToRel
  <2> QED BY <1>3, <2>1, <2>2
<1> QED BY <1>4

LEMMA AncFinite ==
  ASSUME NEW b \in Block
  PROVE  /\ b \in Anc[b] /\ Anc[b] \subseteq Block /\ IsFiniteSet(Anc[b])
         /\ Height(b) \in Nat /\ Height(b) <= Cardinality(Block)
         /\ Cardinality(Block) \in Nat
<1>1. b \in Anc[b] /\ Anc[b] \subseteq Block
  BY TreeAssumption
<1>2. IsFiniteSet(Anc[b]) /\ Cardinality(Anc[b]) <= Cardinality(Block)
  BY <1>1, TreeAssumption, FS_Subset
<1>3. Cardinality(Anc[b]) \in Nat /\ Cardinality(Block) \in Nat
  BY <1>2, TreeAssumption, FS_CardinalityType
<1> QED BY <1>1, <1>2, <1>3 DEF Height

(* A block is one higher than its parent.                                  *)
LEMMA AncStep ==
  ASSUME NEW b \in Block \ {Genesis}
  PROVE  /\ Parent[b] \in Block /\ Anc[b] = {b} \cup Anc[Parent[b]]
         /\ b \notin Anc[Parent[b]] /\ Height(b) = Height(Parent[b]) + 1
<1>1. Parent[b] \in Block /\ b \notin Anc[Parent[b]] /\ Anc[b] = Anc[Parent[b]] \cup {b}
  BY TreeAssumption
<1>2. IsFiniteSet(Anc[Parent[b]])
  BY <1>1, AncFinite
<1>3. Cardinality(Anc[Parent[b]] \cup {b}) = Cardinality(Anc[Parent[b]]) + 1
  BY <1>1, <1>2, FS_AddElement
<1> QED BY <1>1, <1>3 DEF Height

(* Induction from a block's parent to the block.                           *)
LEMMA TreeInduction ==
  ASSUME NEW S \in SUBSET Block, Genesis \in S,
         \A b \in Block \ {Genesis} : Parent[b] \in S => b \in S
  PROVE  S = Block
<1> SUFFICES ASSUME S # Block PROVE FALSE
  OBVIOUS
<1> DEFINE T == Block \ S
           f == [b \in T |-> Height(b)]
<1>1. T # {} /\ f \in [T -> Nat]
  BY AncFinite
<1>2. PICK c \in T : \A d \in T : f[c] <= f[d]
  BY <1>1, LeastValue
<1>3. c \in Block \ {Genesis} /\ Parent[c] \in T
  BY AncStep
<1>4. Height(c) <= Height(Parent[c])
  BY <1>2, <1>3
<1> QED BY <1>3, <1>4, AncStep, AncFinite

LEMMA AncTransitive ==
  ASSUME NEW b \in Block, NEW a \in Anc[b]
  PROVE  a \in Block /\ Anc[a] \subseteq Anc[b]
<1> DEFINE S == {x \in Block : \A y \in Anc[x] : Anc[y] \subseteq Anc[x]}
<1>1. Genesis \in S
  BY TreeAssumption
<1>2. ASSUME NEW x \in Block \ {Genesis}, Parent[x] \in S PROVE x \in S
  BY <1>2, AncStep
<1>3. S = Block
  BY <1>1, <1>2, TreeInduction
<1> QED BY <1>3, AncFinite

(* The genesis block is an ancestor of all.                                *)
LEMMA AncGenesis ==
  ASSUME NEW b \in Block PROVE Genesis \in Anc[b]
<1> DEFINE S == {x \in Block : Genesis \in Anc[x]}
<1>1. Genesis \in S
  BY TreeAssumption
<1>2. ASSUME NEW x \in Block \ {Genesis}, Parent[x] \in S PROVE x \in S
  BY <1>2, AncStep
<1> QED BY <1>1, <1>2, TreeInduction

(* Two ancestors of a block are on one chain.                              *)
LEMMA AncChain ==
  ASSUME NEW b \in Block, NEW a \in Anc[b], NEW c \in Anc[b]
  PROVE  a \in Anc[c] \/ c \in Anc[a]
<1> DEFINE S == {x \in Block : \A y, z \in Anc[x] : y \in Anc[z] \/ z \in Anc[y]}
<1>1. Genesis \in S
  BY TreeAssumption
<1>2. ASSUME NEW x \in Block \ {Genesis}, Parent[x] \in S PROVE x \in S
  <2>1. Anc[x] = {x} \cup Anc[Parent[x]]
    BY AncStep
  <2> QED BY <1>2, <2>1
<1>3. S = Block
  BY <1>1, <1>2, TreeInduction
<1> QED BY <1>3

(* Work and height grow along a chain.                                     *)
LEMMA AncLess ==
  ASSUME NEW b \in Block, NEW a \in Anc[b], a # b
  PROVE  a \in Block /\ Work[a] < Work[b] /\ Height(a) < Height(b) /\ b \notin Anc[a]
<1> DEFINE S == {x \in Block : \A y \in Anc[x] : y = x \/ (/\ Work[y] < Work[x]
                                                          /\ Height(y) < Height(x))}
<1>0. \A x \in Block : Work[x] \in Nat /\ Height(x) \in Nat /\ Anc[x] \subseteq Block
  BY WorkAssumption, AncFinite
<1>1. Genesis \in S
  BY TreeAssumption
<1>2. ASSUME NEW x \in Block \ {Genesis}, Parent[x] \in S PROVE x \in S
  <2>1. /\ Anc[x] = {x} \cup Anc[Parent[x]] /\ Height(x) = Height(Parent[x]) + 1
        /\ Parent[x] \in Block
    BY AncStep
  <2>2. Work[x] > Work[Parent[x]]
    BY WorkAssumption
  <2>3. ASSUME NEW y \in Anc[Parent[x]] PROVE Work[y] < Work[x] /\ Height(y) < Height(x)
    BY <1>0, <1>2, <2>1, <2>2
  <2> QED BY <2>1, <2>3
<1>3. S = Block
  BY <1>1, <1>2, TreeInduction
<1>4. a \in Block /\ Work[a] < Work[b] /\ Height(a) < Height(b)
  BY <1>0, <1>3
<1>5. b \notin Anc[a]
  <2> SUFFICES ASSUME b \in Anc[a] PROVE FALSE
    OBVIOUS
  <2>1. Height(b) < Height(a)
    BY <1>3, <1>4
  <2> QED BY <1>0, <1>4, <2>1
<1> QED BY <1>4, <1>5

(* On one chain the higher of two blocks is the descendant.                *)
LEMMA ChainOrder ==
  ASSUME NEW b \in Block, NEW a \in Anc[b], NEW c \in Anc[b], Height(a) <= Height(c)
  PROVE  a \in Anc[c]
<1>0. a \in Block /\ c \in Block /\ Height(a) \in Nat /\ Height(c) \in Nat
  BY AncFinite
<1>1. CASE a = c
  BY <1>0, <1>1, AncFinite
<1>2. CASE a # c /\ c \in Anc[a]
  BY <1>0, <1>2, AncLess
<1> QED BY <1>1, <1>2, AncChain

(* A chain has a block at every height.                                    *)
LEMMA HeightReached ==
  ASSUME NEW b \in Block, NEW n \in 1 .. Height(b)
  PROVE  \E a \in Anc[b] : Height(a) = n
<1> DEFINE S == {x \in Block : \A k \in 1 .. Height(x) : \E a \in Anc[x] : Height(a) = k}
<1>1. Genesis \in S
  <2>1. Height(Genesis) = 1
    BY TreeAssumption, FS_Singleton DEF Height
  <2> QED BY <2>1, TreeAssumption
<1>2. ASSUME NEW x \in Block \ {Genesis}, Parent[x] \in S PROVE x \in S
  <2>1. /\ Anc[x] = {x} \cup Anc[Parent[x]] /\ Height(x) = Height(Parent[x]) + 1
        /\ Height(Parent[x]) \in Nat
    BY AncStep, AncFinite
  <2>2. ASSUME NEW k \in 1 .. Height(x) PROVE \E a \in Anc[x] : Height(a) = k
    <3>1. CASE k = Height(x)
      BY <2>1, <3>1
    <3>2. CASE k # Height(x)
      <4>1. k \in 1 .. Height(Parent[x])
        BY <2>1, <3>2
      <4> QED BY <1>2, <2>1, <4>1
    <3> QED BY <3>1, <3>2
  <2> QED BY <2>2
<1>3. S = Block
  BY <1>1, <1>2, TreeInduction
<1> QED BY <1>3

(* What Lowest and Highest choose.                                         *)
LEMMA LowestIn ==
  ASSUME NEW S \in SUBSET Block, S # {}
  PROVE  Lowest(S) \in S /\ \A c \in S : Height(Lowest(S)) <= Height(c)
<1> DEFINE f == [b \in S |-> Height(b)]
<1>1. f \in [S -> Nat]
  BY AncFinite
<1>2. \E c \in S : \A d \in S : f[c] <= f[d]
  BY <1>1, LeastValue
<1> QED BY <1>2 DEF Lowest

LEMMA HighestIn ==
  ASSUME NEW S \in SUBSET Block, S # {}
  PROVE  Highest(S) \in S /\ \A c \in S : Height(c) <= Height(Highest(S))
<1> DEFINE f == [b \in S |-> Cardinality(Block) - Height(b)]
<1>1. \A b \in S : /\ Height(b) \in Nat /\ Height(b) <= Cardinality(Block)
                   /\ Cardinality(Block) \in Nat
  BY AncFinite
<1>2. f \in [S -> Nat]
  BY <1>1
<1>3. PICK c \in S : \A d \in S : f[c] <= f[d]
  BY <1>2, LeastValue
<1>4. \A d \in S : Height(d) <= Height(c)
  BY <1>1, <1>3
<1> QED BY <1>4 DEF Highest

-----------------------------------------------------------------------------
(* The order of the candidates *)

(* Blocks were linked one after the other.                                 *)
SeqOK ==
  /\ \A b \in chainTx : nSequenceId[b] \in 1 .. Cardinality(chainTx)
  /\ \A x, y \in chainTx : nSequenceId[x] = nSequenceId[y] => x = y

Ids == nSequenceId \in [Block -> Nat]

LEMMA TypeIds == TypeOK => Ids
<1>1. Cardinality(Block) \in Nat
  BY TreeAssumption, FS_CardinalityType
<1> QED BY <1>1 DEF TypeOK, Ids

(* CBlockIndexWorkComparator is a strict order, total on linked blocks,    *)
(* and a block is better than its other ancestors.                         *)
LEMMA BetterOrder ==
  ASSUME Ids, NEW x \in Block, NEW y \in Block, NEW z \in Block
  PROVE  /\ Better(x, y) => ~Better(y, x)
         /\ Better(x, y) /\ Better(y, z) => Better(x, z)
         /\ SeqOK /\ x \in chainTx /\ y \in chainTx => x = y \/ Better(x, y) \/ Better(y, x)
         /\ SeqOK /\ {x, y, z} \subseteq chainTx /\ ~Better(x, y) /\ ~Better(y, z)
              => ~Better(x, z)
<1>1. /\ Work[x] \in Nat /\ Work[y] \in Nat /\ Work[z] \in Nat
      /\ nSequenceId[x] \in Nat /\ nSequenceId[y] \in Nat /\ nSequenceId[z] \in Nat
  BY WorkAssumption DEF Ids
<1>2. Better(x, y) => ~Better(y, x)
  BY <1>1 DEF Better
<1>3. Better(x, y) /\ Better(y, z) => Better(x, z)
  BY <1>1 DEF Better
<1>4. ASSUME SeqOK, x \in chainTx, y \in chainTx PROVE x = y \/ Better(x, y) \/ Better(y, x)
  BY <1>1, <1>4 DEF Better, SeqOK
<1>5. ASSUME SeqOK, {x, y, z} \subseteq chainTx, ~Better(x, y), ~Better(y, z), Better(x, z)
      PROVE  FALSE
  BY <1>1, <1>5 DEF Better, SeqOK
<1> QED BY <1>2, <1>3, <1>4, <1>5

LEMMA AncestorWorse ==
  ASSUME Ids, NEW t \in Block, NEW a \in Anc[t], NEW c \in Block, ~Better(t, c)
  PROVE  ~Better(a, c)
<1>1. a \in Block /\ Work[a] \in Nat /\ Work[t] \in Nat /\ Work[c] \in Nat
  BY AncFinite, WorkAssumption
<1>2. CASE a = t
  BY <1>2
<1>3. CASE a # t
  <2>1. Work[a] < Work[t]
    BY <1>3, AncLess
  <2> QED BY <1>1, <2>1 DEF Better
<1> QED BY <1>2, <1>3

(* A set of linked blocks has a best one.                                  *)
LEMMA BestExists ==
  ASSUME Ids, SeqOK, chainTx \subseteq Block, NEW S \in SUBSET chainTx, S # {}
  PROVE  \E c \in S : \A d \in S : d = c \/ Better(c, d)
<1> DEFINE Over(c) == {d \in Block : Better(d, c)}
           f == [c \in S |-> Cardinality(Over(c))]
<1>1. ASSUME NEW c PROVE IsFiniteSet(Over(c)) /\ Cardinality(Over(c)) \in Nat
  <2>1. Over(c) \in SUBSET Block
    OBVIOUS
  <2> HIDE DEF Over
  <2>2. IsFiniteSet(Over(c))
    BY <2>1, TreeAssumption, FS_Subset
  <2> QED BY <2>2, FS_CardinalityType
<1>2. f \in [S -> Nat]
  BY <1>1
<1>3. PICK c \in S : \A d \in S : f[c] <= f[d]
  BY <1>2, LeastValue
<1>4. ASSUME NEW d \in S, Better(d, c) PROVE FALSE
  <2>1. Over(d) \subseteq Over(c)
    BY <1>4, BetterOrder
  <2>2. d \in Over(c) /\ d \notin Over(d)
    BY <1>4, BetterOrder
  <2>3. IsFiniteSet(Over(c)) /\ Cardinality(Over(c)) \in Nat /\ Cardinality(Over(d)) \in Nat
    BY <1>1
  <2>4. Cardinality(Over(c)) <= Cardinality(Over(d))
    BY <1>3
  <2> HIDE DEF Over
  <2>5. Cardinality(Over(d)) <= Cardinality(Over(c)) /\ Cardinality(Over(d)) # Cardinality(Over(c))
    BY <2>1, <2>2, <2>3, FS_Subset
  <2> QED BY <2>3, <2>4, <2>5
<1> QED BY <1>4, BetterOrder

-----------------------------------------------------------------------------
(* The bookkeeping of the tree, at every moment and in every scene *)

Structure ==
  /\ TypeOK /\ SeqOK /\ LinkedIffData /\ CandidatesLinked /\ ActiveChainSound

LEMMA StructureFacts ==
  ASSUME Structure
  PROVE  /\ Ids /\ chainTx \subseteq Block /\ tip \in Block /\ candidates \subseteq chainTx
         /\ \A b \in chainTx : Anc[b] \subseteq chainTx
<1>1. Ids
  BY TypeIds DEF Structure
<1>2. ASSUME NEW b \in chainTx, NEW a \in Anc[b] PROVE a \in chainTx
  <2>1. b \in Block /\ Anc[b] \subseteq data /\ data \subseteq index
    BY DEF Structure, LinkedIffData, TypeOK
  <2>2. Anc[a] \subseteq Anc[b]
    BY <2>1, AncTransitive
  <2> QED BY <2>1, <2>2 DEF Structure, LinkedIffData
<1> QED BY <1>1, <1>2 DEF Structure, TypeOK

(* ReceivedBlockTransactions finds the blocks that b links.                *)
LEMMA LinkedFacts ==
  ASSUME Structure, NEW b \in Block \ {Genesis}, b \notin data, Parent[b] \in index
  PROVE  /\ Linked(b) \subseteq data \cup {b} /\ Linked(b) \cap chainTx = {}
         /\ Parent[b] \in chainTx =>
              {x \in index \cup {b} : Anc[x] \subseteq data \cup {b}} = chainTx \cup Linked(b)
         /\ Parent[b] \notin chainTx =>
              {x \in index \cup {b} : Anc[x] \subseteq data \cup {b}} = chainTx
<1>0. /\ index \subseteq Block /\ data \subseteq index /\ chainTx \subseteq data
      /\ unlinked = data \ chainTx /\ chainTx = {x \in index : Anc[x] \subseteq data}
  BY DEF Structure, TypeOK, LinkedIffData
<1>1. Linked(b) \subseteq data \cup {b} /\ Linked(b) \cap chainTx = {}
  BY <1>0 DEF Linked
<1>2. Parent[b] \in Block /\ Anc[b] = {b} \cup Anc[Parent[b]] /\ b \notin Anc[Parent[b]]
  BY AncStep
<1>3. ASSUME NEW x \in index \cup {b}, Anc[x] \subseteq data \cup {b}, b \notin Anc[x]
      PROVE  x \in chainTx
  BY <1>0, <1>3, AncFinite
<1>4. ASSUME NEW x \in chainTx PROVE x \in index /\ Anc[x] \subseteq data /\ b \notin Anc[x]
  BY <1>0
<1>5. ASSUME Parent[b] \in chainTx
      PROVE  {x \in index \cup {b} : Anc[x] \subseteq data \cup {b}} = chainTx \cup Linked(b)
  <2>1. ASSUME NEW x \in Linked(b) PROVE x \in index \cup {b} /\ Anc[x] \subseteq data \cup {b}
    <3>1. Anc[b] \subseteq data \cup {b}
      BY <1>2, <1>4, <1>5
    <3> QED BY <1>0, <3>1 DEF Linked
  <2>2. ASSUME NEW x \in index \cup {b}, Anc[x] \subseteq data \cup {b}, b \in Anc[x]
        PROVE  x \in Linked(b)
    <3>0. x \in Block /\ x \in Anc[x]
      BY <1>0, AncFinite
    <3>1. ASSUME NEW y \in Anc[x] \ Anc[b] PROVE y \in unlinked
      <4>1. b \in Anc[y]
        BY <2>2, <3>0, AncChain
      <4>2. y # b
        BY AncFinite
      <4> QED BY <1>0, <1>4, <2>2, <4>1, <4>2
    <3>2. x \in unlinked \cup {b}
      <4>1. x \in data \cup {b}
        BY <2>2, <3>0
      <4> QED BY <1>0, <1>4, <2>2, <4>1
    <3> QED BY <2>2, <3>1, <3>2 DEF Linked
  <2> QED BY <1>3, <1>4, <2>1, <2>2
<1>6. ASSUME Parent[b] \notin chainTx
      PROVE  {x \in index \cup {b} : Anc[x] \subseteq data \cup {b}} = chainTx
  <2>1. ASSUME NEW x \in index \cup {b}, Anc[x] \subseteq data \cup {b}, b \in Anc[x]
        PROVE  FALSE
    <3>1. x \in Block
      BY <1>0
    <3>2. Anc[b] \subseteq Anc[x]
      BY <2>1, <3>1, AncTransitive
    <3>3. Anc[Parent[b]] \subseteq data
      BY <1>2, <2>1, <3>2
    <3> QED BY <1>0, <1>6, <3>3
  <2> QED BY <1>3, <1>4, <2>1
<1> QED BY <1>1, <1>5, <1>6

-----------------------------------------------------------------------------
(* What FindMostWorkChain and ActivateBestChainStep do *)

(* What it drops has a failed block below or is one.                       *)
LEMMA DroppedFacts ==
  ASSUME Structure
  PROVE  /\ MarkedChildren \subseteq Dropped
         /\ \A x \in Dropped : /\ x \in chainTx /\ \E y \in Failed : y \in Anc[x]
                               /\ x \in Failed \/ x \in MarkedChildren
<1>1. MarkedChildren \subseteq Dropped
  BY DEF Dropped
<1>2. ASSUME NEW c \in Tried
      PROVE  /\ c \in Block /\ c \in chainTx /\ Anc[c] \subseteq chainTx
             /\ Culprit(c) \in Path(c) \cap Failed
  <2>1. c \in candidates /\ ~Usable(c)
    BY DEF Tried
  <2>2. c \in chainTx /\ c \in Block /\ Anc[c] \subseteq chainTx /\ Path(c) \subseteq Block
    BY <2>1, StructureFacts, AncFinite DEF Path
  <2>3. Path(c) \cap Failed # {} /\ Path(c) \cap Failed \in SUBSET Block
    BY <2>1, <2>2 DEF Usable
  <2> QED BY <2>2, <2>3, HighestIn DEF Culprit
<1>3. ASSUME NEW c \in Tried
      PROVE  Culprit(c) \in chainTx /\ \E y \in Failed : y \in Anc[Culprit(c)]
  <2>1. Culprit(c) \in Anc[c] /\ Culprit(c) \in Failed
    BY <1>2 DEF Path
  <2> QED BY <1>2, <2>1, AncFinite
<1>4. ASSUME NEW c \in Tried, NEW x \in Anc[c] \ Anc[Culprit(c)]
      PROVE  x \in chainTx /\ \E y \in Failed : y \in Anc[x]
  <2>1. Culprit(c) \in Anc[c] /\ Culprit(c) \in Failed
    BY <1>2 DEF Path
  <2>2. Culprit(c) \in Anc[x]
    BY <1>2, <2>1, AncChain
  <2> QED BY <1>2, <2>1, <2>2
<1>5. ASSUME NEW x \in Dropped
      PROVE  /\ x \in chainTx /\ \E y \in Failed : y \in Anc[x]
             /\ x \in Failed \/ x \in MarkedChildren
  <2>1. CASE x \in MarkedChildren
    BY <1>4, <2>1 DEF MarkedChildren
  <2>2. CASE \E c \in Tried : x = Culprit(c)
    BY <1>2, <1>3, <2>2
  <2> QED BY <2>1, <2>2 DEF Dropped
<1> QED BY <1>1, <1>5

(* It returns the best candidate that is usable.                           *)
LEMMA MostWorkFacts ==
  ASSUME Structure
  PROVE  LET m == FindMostWorkChain
         IN  /\ m = None => \A d \in candidates : ~Usable(d)
             /\ m # None => /\ m \in candidates /\ Usable(m)
                            /\ \A d \in candidates : Usable(d) => d = m \/ Better(m, d)
<1> DEFINE m == FindMostWorkChain
           left == candidates \ Tried
<1>0. /\ Ids /\ SeqOK /\ chainTx \subseteq Block /\ candidates \subseteq chainTx
      /\ candidates \subseteq Block /\ left \in SUBSET chainTx
  BY StructureFacts DEF Structure
<1>1. ASSUME NEW d \in candidates, Usable(d) PROVE d \in left
  BY <1>1 DEF Tried
<1>2. CASE left = {}
  <2>1. m = None
    BY <1>2 DEF FindMostWorkChain
  <2> QED BY <1>1, <1>2, <2>1
<1>3. CASE left # {}
  <2>1. \E c \in left : \A d \in left : d = c \/ Better(c, d)
    BY <1>0, <1>3, BestExists
  <2>2. m \in left /\ \A d \in left : d = m \/ Better(m, d)
    BY <1>3, <2>1 DEF FindMostWorkChain
  <2>3. m # None
    BY <1>0, <2>2, NoneAssumption
  <2> HIDE DEF m
  <2>4. Usable(m)
    <3>1. PICK d \in candidates : (d = m \/ Better(d, m)) /\ Usable(d)
      BY <2>2 DEF Tried
    <3>2. d \in left
      BY <1>1, <3>1
    <3>3. d = m
      BY <1>0, <2>2, <3>1, <3>2, BetterOrder
    <3> QED BY <3>1, <3>3
  <2> QED BY <1>1, <2>2, <2>3, <2>4 DEF m
<1> QED BY <1>2, <1>3

(* A step towards m connects the blocks in good, marks the ones in bad (at *)
(* most one) as refused, and ends at a block of the two chains.            *)
Moves(m, good, bad) ==
  LET toConnect == Anc[m] \ Anc[tip]
  IN /\ good \subseteq toConnect /\ bad \subseteq toConnect \ good
     /\ \A b \in good : \A c \in Anc[b] \cap toConnect : c \in good /\ c \notin scene.invalid
     /\ \A b \in bad : Refused(b, m) /\ b \notin damaged
     /\ tip' \in good \cup (Anc[m] \cap Anc[tip])
     /\ good = {} => tip' \in Anc[tip]
     /\ failedValid' = failedValid \cup bad
     /\ rejected' = rejected \cup (bad \cap locked)
     /\ candidates' = IF good = {} THEN (candidates \ Dropped) \ bad
                      ELSE PruneBlockIndexCandidates(candidates \ Dropped, tip') \ bad
     /\ pending' = (tip' # m)
     /\ checked' = IF tip' = m THEN None ELSE checked
     /\ passed' = passed \cup Anc[tip']
     /\ odd' = IF bad \cap passed = {} THEN odd ELSE odd \cup {"relocked"}

LEMMA ActivateCases ==
  ASSUME Structure, ActivateBestChain
  PROVE  /\ pending /\ UNCHANGED <<scene, tree, locked, damaged, replay>>
         /\ failedChild' = failedChild \cup MarkedChildren
         /\ \/ /\ FindMostWorkChain \in {None, tip} /\ candidates' = candidates \ Dropped
               /\ pending' = FALSE /\ checked' = None
               /\ UNCHANGED <<tip, failedValid, rejected, passed, odd>>
            \/ /\ FindMostWorkChain \notin {None, tip}
               /\ \E good, bad \in SUBSET Block : Moves(FindMostWorkChain, good, bad)
<1> DEFINE m == FindMostWorkChain
<1>1. /\ pending /\ UNCHANGED <<scene, tree, locked, damaged, replay>>
      /\ failedChild' = failedChild \cup MarkedChildren
  BY DEF ActivateBestChain
<1>2. CASE m \in {None, tip}
  BY <1>1, <1>2 DEF ActivateBestChain, history
<1>3. CASE m \notin {None, tip}
  <2>0. m \in Block /\ tip \in Block
    BY <1>3, MostWorkFacts, StructureFacts
  <2>1. ActivateBestChainStep(m, candidates \ Dropped)
    BY <1>3 DEF ActivateBestChain
  <2> HIDE DEF m
  <2> DEFINE toConnect == Anc[m] \ Anc[tip]
             fork == Highest(Anc[m] \cap Anc[tip])
             Ahead(g) == {b \in g : Work[b] > Work[tip]}
             NewTip(g) == IF Ahead(g) # {} THEN Lowest(Ahead(g))
                          ELSE IF g # {} THEN Highest(g) ELSE fork
             Bad(g) == IF Ahead(g) = {} /\ g # toConnect
                       THEN {Lowest(toConnect \ g)} ELSE {}
             good == {b \in toConnect : \A c \in Anc[b] \cap toConnect : ~Refused(c, m)}
             bad == Bad(good)
  <2>2. /\ tip' = NewTip(good) /\ InvalidBlockFound(bad)
        /\ candidates' = (IF good = {} THEN candidates \ Dropped
                          ELSE PruneBlockIndexCandidates(candidates \ Dropped, NewTip(good)))
                            \ Condemned(bad)
        /\ pending' = (NewTip(good) # m)
        /\ checked' = IF NewTip(good) = m THEN None ELSE checked
        /\ passed' = passed \cup Anc[NewTip(good)]
        /\ odd' = IF Condemned(bad) \cap passed = {} THEN odd ELSE odd \cup {"relocked"}
    BY <2>1 DEF ActivateBestChainStep
  <2>3. toConnect \subseteq Block /\ good \subseteq toConnect
    BY <2>0, AncFinite
  <2>4. ASSUME NEW b \in good, NEW c \in Anc[b] \cap toConnect
        PROVE  c \in good /\ c \notin scene.invalid
    <3>1. b \in Block /\ c \in Anc[b] /\ c \in Block
      BY <2>3
    <3>2. Anc[c] \subseteq Anc[b]
      BY <3>1, AncTransitive
    <3> QED BY <3>2 DEF Refused
  <2>5. bad \subseteq toConnect \ good /\ \A b \in bad : Refused(b, m)
    <3> SUFFICES ASSUME NEW x \in bad PROVE x \in toConnect \ good /\ Refused(x, m)
      OBVIOUS
    <3> DEFINE R == toConnect \ good
    <3>1. x = Lowest(R) /\ R # {} /\ R \in SUBSET Block
      BY <2>3
    <3>2. x \in R /\ \A c \in R : Height(x) <= Height(c)
      BY <3>1, LowestIn
    <3>3. PICK c \in Anc[x] \cap toConnect : Refused(c, m)
      BY <3>2
    <3>4. c \in Block /\ x \in Block /\ c \in Anc[c]
      BY <2>3, <3>2, AncFinite
    <3>5. c \in R
      BY <3>3, <3>4
    <3>6. c = x
      <4>1. CASE c # x
        <5>1. Height(c) < Height(x) /\ Height(x) <= Height(c)
          BY <3>2, <3>3, <3>4, <3>5, <4>1, AncLess
        <5> QED BY <3>4, <5>1, AncFinite
      <4> QED BY <4>1
    <3> QED BY <3>2, <3>3, <3>6
  <2>6. fork \in Anc[m] \cap Anc[tip]
    <3>1. Anc[m] \cap Anc[tip] # {} /\ Anc[m] \cap Anc[tip] \in SUBSET Block
      BY <2>0, AncGenesis, AncFinite
    <3> QED BY <3>1, HighestIn
  <2>7. NewTip(good) \in good \cup (Anc[m] \cap Anc[tip]) /\ (good = {} => NewTip(good) \in Anc[tip])
    <3>1. Ahead(good) # {} => Lowest(Ahead(good)) \in good
      <4>1. Ahead(good) \in SUBSET Block /\ Ahead(good) \subseteq good
        BY <2>3
      <4> QED BY <4>1, LowestIn
    <3>2. good # {} => Highest(good) \in good
      <4>1. good \in SUBSET Block
        BY <2>3
      <4> HIDE DEF good
      <4> QED BY <4>1, HighestIn
    <3>3. good = {} => Ahead(good) = {}
      OBVIOUS
    <3> HIDE DEF good, fork, Ahead
    <3> QED BY <2>6, <3>1, <3>2, <3>3
  <2> HIDE DEF good, bad, NewTip
  <2>c. Condemned(bad) = bad \ damaged
    BY DEF Condemned
  <2>8. Moves(m, good, Condemned(bad))
    BY <2>2, <2>3, <2>4, <2>5, <2>7, <2>c DEF Moves, InvalidBlockFound
  <2>9. good \in SUBSET Block /\ Condemned(bad) \in SUBSET Block
    BY <2>3, <2>5, <2>c
  <2> QED BY <1>1, <1>3, <2>8, <2>9 DEF m
<1> QED BY <1>2, <1>3

-----------------------------------------------------------------------------
(* Every action keeps the bookkeeping *)

(* Better depends on the ids of the two blocks only.                       *)
LEMMA BetterFrame ==
  ASSUME NEW x, NEW y, nSequenceId'[x] = nSequenceId[x], nSequenceId'[y] = nSequenceId[y]
  PROVE  Better(x, y)' <=> Better(x, y)
  BY DEF Better

LEMMA InitStructure == Init => Structure
<1> SUFFICES ASSUME Init PROVE Structure
  OBVIOUS
<1>1. /\ Genesis \in Block /\ Anc[Genesis] = {Genesis} /\ Work[Genesis] \in Nat
      /\ IsFiniteSet(Block)
  BY TreeAssumption, WorkAssumption
<1>2. Cardinality(Block) \in Nat /\ 1 \in 0 .. Cardinality(Block)
  <2>1. Cardinality(Block) \in Nat
    BY <1>1, FS_CardinalityType
  <2>2. Cardinality(Block) # 0
    BY <1>1, FS_EmptySet
  <2> QED BY <2>1, <2>2
<1>3. Cardinality({Genesis}) = 1
  BY FS_Singleton
<1>a. 0 \in 0 .. Cardinality(Block)
  BY <1>2
<1>b. nSequenceId \in [Block -> 0 .. Cardinality(Block)]
  BY <1>2, <1>a DEF Init
<1>4. TypeOK
  BY <1>1, <1>b DEF Init, TypeOK
<1>5. SeqOK
  BY <1>1, <1>3 DEF Init, SeqOK
<1>6. LinkedIffData /\ ActiveChainSound
  BY <1>1 DEF Init, LinkedIffData, ActiveChainSound, Failed
<1>7. CandidatesLinked
  BY <1>1 DEF Init, CandidatesLinked, Better
<1> QED BY <1>4, <1>5, <1>6, <1>7 DEF Structure

(* The part of TypeOK about locks and history.                             *)
LockTypes ==
  /\ locked \subseteq scene.lockable /\ rejected \subseteq scene.lockable
  /\ damaged \subseteq data /\ replay \in {None} \cup SUBSET scene.lockable
  /\ passed \subseteq chainTx /\ odd \subseteq Oddity

LEMMA LockTypesHold == Structure => LockTypes
  BY DEF Structure, TypeOK, LockTypes

(* A step that leaves the tree alone, may put the tip on another sound     *)
(* chain, and adds no candidate worse than the tip.                        *)
LEMMA TreeUnchanged ==
  ASSUME Structure, UNCHANGED <<scene, tree>>,
         tip' \in chainTx, Anc[tip'] \cap Failed' = {},
         failedValid' \subseteq index, failedChild' \subseteq index,
         candidates' \subseteq chainTx, \A c \in candidates' : ~Better(tip', c),
         pending' \in BOOLEAN, checked' \in Block \cup {None}, LockTypes'
  PROVE  Structure'
<1>1. UNCHANGED <<index, data, chainTx, nSequenceId, unlinked>>
  BY DEF tree
<1>2. TypeOK'
  BY <1>1 DEF Structure, TypeOK, LockTypes
<1>3. SeqOK' /\ LinkedIffData'
  BY <1>1 DEF Structure, SeqOK, LinkedIffData
<1>4. CandidatesLinked'
  BY <1>1, BetterFrame DEF CandidatesLinked
<1>5. Anc[tip'] \subseteq chainTx
  BY StructureFacts
<1>6. ActiveChainSound'
  BY <1>1, <1>5 DEF ActiveChainSound
<1> QED BY <1>2, <1>3, <1>4, <1>6 DEF Structure

LEMMA HeaderStructure ==
  ASSUME Structure, NEW b \in Block, AcceptBlockHeader(b) \/ ContextualCheckFails(b)
  PROVE  Structure'
<1>1. /\ b \notin data /\ index' = index \cup {b}
      /\ failedValid' \in {failedValid, failedValid \cup {b}}
      /\ UNCHANGED <<scene, data, chainTx, nSequenceId, unlinked, failedChild,
                     candidates, tip, pending, checked, locked, rejected, damaged,
                     replay, passed, odd>>
  BY DEF AcceptBlockHeader, ContextualCheckFails, Structure, TypeOK, locks, history
<1>2. TypeOK'
  BY <1>1 DEF Structure, TypeOK
<1>3. SeqOK'
  BY <1>1 DEF Structure, SeqOK
<1>4. LinkedIffData'
  BY <1>1, AncFinite DEF Structure, LinkedIffData
<1>5. CandidatesLinked'
  BY <1>1, BetterFrame DEF Structure, CandidatesLinked
<1>6. ActiveChainSound'
  BY <1>1 DEF Structure, ActiveChainSound, TypeOK, Failed
<1> QED BY <1>2, <1>3, <1>4, <1>5, <1>6 DEF Structure

LEMMA NewBlockStructure ==
  ASSUME Structure, NEW b \in Block, ProcessNewBlock(b)
  PROVE  Structure'
<1>0. /\ b \in Block \ {Genesis} /\ Parent[b] \in index /\ index' = index \cup {b}
      /\ pending' = TRUE /\ checked' = b
      /\ UNCHANGED <<scene, failedValid, failedChild, tip, locked, rejected, damaged,
                     replay, passed, odd>>
      /\ tip \in chainTx /\ tip \in Block /\ chainTx \subseteq Block /\ Ids
  BY StructureFacts DEF ProcessNewBlock, Acceptable, Structure, TypeOK, locks, history
<1>1. CASE b \in data
  <2>1. UNCHANGED <<data, chainTx, nSequenceId, unlinked, candidates>> /\ index' = index
    BY <1>0, <1>1 DEF ProcessNewBlock, Structure, TypeOK
  <2>2. LockTypes'
    BY <1>0, <2>1, LockTypesHold DEF LockTypes
  <2> QED BY <1>0, <2>1, <2>2, TreeUnchanged DEF tree, Structure, TypeOK, CandidatesLinked,
                                               ActiveChainSound, Failed
<1>2. CASE b \notin data /\ Parent[b] \notin chainTx
  <2>1. /\ data' = data \cup {b} /\ unlinked' = unlinked \cup {b}
        /\ UNCHANGED <<chainTx, nSequenceId, candidates>>
    BY <1>2 DEF ProcessNewBlock, ReceivedBlockTransactions
  <2>2. TypeOK'
    BY <1>0, <2>1 DEF Structure, TypeOK
  <2>3. SeqOK'
    BY <2>1 DEF Structure, SeqOK
  <2>4. LinkedIffData'
    <3>1. {x \in index \cup {b} : Anc[x] \subseteq data \cup {b}} = chainTx
      BY <1>0, <1>2, LinkedFacts
    <3>2. b \notin chainTx /\ unlinked = data \ chainTx
      BY <1>2 DEF Structure, TypeOK, LinkedIffData
    <3> QED BY <1>0, <2>1, <3>1, <3>2 DEF LinkedIffData
  <2>5. CandidatesLinked'
    BY <1>0, <2>1, BetterFrame DEF Structure, CandidatesLinked
  <2>6. ActiveChainSound'
    BY <1>0, <2>1 DEF Structure, ActiveChainSound, Failed
  <2> QED BY <2>2, <2>3, <2>4, <2>5, <2>6 DEF Structure
<1>3. CASE b \notin data /\ Parent[b] \in chainTx
  <2> DEFINE new == Linked(b)
             n == Cardinality(chainTx)
             k == Cardinality(new)
  <2>1. PICK id \in [new -> n + 1 .. n + 1 + k - 1] :
          /\ \A x, y \in new : x # y => id[x] # id[y]
          /\ nSequenceId' = [x \in Block |-> IF x \in new THEN id[x] ELSE nSequenceId[x]]
          /\ data' = data \cup {b} /\ chainTx' = chainTx \cup new /\ unlinked' = unlinked \ new
          /\ candidates' = candidates \cup {x \in new : Work[x] > Work[tip]}
    BY <1>3 DEF ProcessNewBlock, ReceivedBlockTransactions
  <2>2. /\ new \subseteq data \cup {b} /\ new \cap chainTx = {}
        /\ {x \in index \cup {b} : Anc[x] \subseteq data \cup {b}} = chainTx \cup new
    BY <1>0, <1>3, LinkedFacts
  <2>a. data \subseteq Block /\ new \subseteq Block
    BY <1>0, <2>2 DEF Structure, TypeOK
  <2> HIDE DEF new
  <2>3. /\ n \in Nat /\ k \in Nat /\ Cardinality(chainTx \cup new) = n + k
        /\ Cardinality(Block) \in Nat /\ n + k <= Cardinality(Block)
    <3>1. IsFiniteSet(chainTx) /\ IsFiniteSet(new) /\ IsFiniteSet(Block)
      BY <1>0, <2>a, TreeAssumption, FS_Subset
    <3>2. Cardinality(chainTx \cup new) = n + k - Cardinality(chainTx \cap new)
      BY <3>1, FS_Union
    <3>3. chainTx \cap new = {}
      BY <2>2
    <3>4. Cardinality(chainTx \cap new) = 0
      BY <3>3, FS_EmptySet
    <3>5. n \in Nat /\ k \in Nat /\ Cardinality(Block) \in Nat
      BY <3>1, FS_CardinalityType
    <3>6. Cardinality(chainTx \cup new) <= Cardinality(Block)
      BY <1>0, <2>a, <3>1, FS_Subset
    <3> QED BY <3>2, <3>4, <3>5, <3>6
  <2> HIDE DEF n, k
  <2>4. \A x \in new : id[x] \in Nat /\ id[x] >= n + 1 /\ id[x] <= n + k
    BY <2>1, <2>3
  <2>5. nSequenceId' \in [Block -> 0 .. Cardinality(Block)]
    BY <2>1, <2>3, <2>4 DEF Structure, TypeOK
  <2>6. TypeOK'
    <3>1. candidates' \subseteq chainTx' /\ tip \in chainTx'
      BY <1>0, <2>1 DEF Structure, TypeOK
    <3>2. data' \subseteq index' /\ chainTx' \subseteq data' /\ unlinked' \subseteq data'
      BY <1>0, <2>1, <2>2 DEF Structure, TypeOK
    <3>3. damaged \subseteq data' /\ passed \subseteq chainTx'
      BY <2>1 DEF Structure, TypeOK
    <3> QED BY <1>0, <2>5, <3>1, <3>2, <3>3 DEF Structure, TypeOK
  <2>7. \A x \in chainTx : nSequenceId'[x] = nSequenceId[x] /\ nSequenceId[x] \in 1 .. n
    BY <1>0, <2>1, <2>2 DEF Structure, SeqOK, n
  <2>8. \A x \in new : nSequenceId'[x] = id[x]
    BY <2>1, <2>a
  <2>9. SeqOK'
    <3>1. \A x \in chainTx' : nSequenceId'[x] \in 1 .. Cardinality(chainTx')
      BY <2>1, <2>3, <2>4, <2>7, <2>8
    <3>2. ASSUME NEW x \in chainTx', NEW y \in chainTx', nSequenceId'[x] = nSequenceId'[y]
          PROVE  x = y
      <4>1. CASE x \in chainTx /\ y \in chainTx
        BY <2>7, <3>2, <4>1 DEF Structure, SeqOK
      <4>2. CASE x \in new /\ y \in new
        BY <2>1, <2>8, <3>2, <4>2
      <4>3. CASE x \in chainTx /\ y \in new
        BY <2>3, <2>4, <2>7, <2>8, <3>2, <4>3
      <4>4. CASE x \in new /\ y \in chainTx
        BY <2>3, <2>4, <2>7, <2>8, <3>2, <4>4
      <4> QED BY <2>1, <4>1, <4>2, <4>3, <4>4
    <3> QED BY <3>1, <3>2 DEF SeqOK
  <2>10. LinkedIffData'
    <3>1. b \in new
      BY <1>0, <1>3, AncFinite DEF Linked, new
    <3>2. unlinked = data \ chainTx
      BY DEF Structure, LinkedIffData
    <3> QED BY <1>0, <2>1, <2>2, <3>1, <3>2 DEF LinkedIffData
  <2>11. CandidatesLinked'
    <3>1. ASSUME NEW c \in candidates PROVE ~Better(tip, c)'
      <4>1. c \in chainTx /\ ~Better(tip, c)
        BY DEF Structure, CandidatesLinked
      <4> QED BY <1>0, <2>7, <4>1, BetterFrame
    <3>2. ASSUME NEW c \in new, Work[c] > Work[tip] PROVE ~Better(tip, c)'
      <4>1. Work[c] \in Nat /\ Work[tip] \in Nat
        BY <1>0, <2>a, WorkAssumption
      <4> QED BY <1>0, <3>2, <4>1 DEF Better
    <3> QED BY <2>1, <2>6, <3>1, <3>2 DEF CandidatesLinked, TypeOK
  <2>12. ActiveChainSound'
    BY <1>0, <2>1 DEF Structure, ActiveChainSound, Failed
  <2> QED BY <2>6, <2>9, <2>10, <2>11, <2>12 DEF Structure
<1> QED BY <1>1, <1>2, <1>3

LEMMA ActivateStructure ==
  ASSUME Structure, ActivateBestChain
  PROVE  Structure'
<1> DEFINE m == FindMostWorkChain
<1>0. /\ UNCHANGED <<scene, tree, locked, damaged, replay>>
      /\ failedChild' = failedChild \cup MarkedChildren
      /\ Ids /\ chainTx \subseteq Block /\ chainTx \subseteq index /\ tip \in chainTx
      /\ candidates \subseteq chainTx /\ LockTypes /\ Anc[tip] \cap Failed = {}
      /\ checked \in Block \cup {None} /\ failedValid \subseteq index
  BY ActivateCases, StructureFacts, LockTypesHold DEF Structure, TypeOK, ActiveChainSound
<1>1. failedChild' \subseteq index
  BY <1>0, DroppedFacts DEF Structure, TypeOK
<1>2. ASSUME NEW t \in Block, Anc[t] \cap Failed = {} PROVE Anc[t] \cap MarkedChildren = {}
  <2> SUFFICES ASSUME NEW x \in Anc[t], x \in MarkedChildren PROVE FALSE
    OBVIOUS
  <2>1. PICK y \in Failed : y \in Anc[x]
    BY DroppedFacts
  <2> QED BY <1>2, <2>1, AncTransitive
<1>3. CASE m \in {None, tip}
  <2>1. /\ candidates' = candidates \ Dropped /\ pending' = FALSE /\ checked' = None
        /\ UNCHANGED <<tip, failedValid, rejected, passed, odd>>
    BY <1>3, ActivateCases
  <2>2. Anc[tip] \cap Failed' = {}
    BY <1>0, <1>2, <2>1 DEF Failed
  <2>3. \A c \in candidates' : ~Better(tip, c)
    BY <2>1 DEF Structure, CandidatesLinked
  <2>4. LockTypes'
    BY <1>0, <2>1 DEF LockTypes, tree
  <2> QED BY <1>0, <1>1, <2>1, <2>2, <2>3, <2>4, TreeUnchanged
<1>4. CASE m \notin {None, tip}
  <2>1. PICK good, bad \in SUBSET Block : Moves(m, good, bad)
    BY <1>4, ActivateCases
  <2>2. m \in chainTx /\ m \in Block /\ tip \in Block /\ Usable(m) /\ Anc[m] \subseteq chainTx
    BY <1>0, <1>4, MostWorkFacts, StructureFacts
  <2> HIDE DEF m
  <2>3. /\ tip' \in good \cup (Anc[m] \cap Anc[tip]) /\ good \subseteq Anc[m] \ Anc[tip]
        /\ bad \subseteq (Anc[m] \ Anc[tip]) \ good
        /\ \A b \in good : Anc[b] \cap (Anc[m] \ Anc[tip]) \subseteq good
        /\ failedValid' = failedValid \cup bad /\ rejected' = rejected \cup (bad \cap locked)
        /\ pending' = (tip' # m) /\ checked' \in {None, checked}
        /\ candidates' \subseteq candidates
        /\ passed' = passed \cup Anc[tip'] /\ odd' \in {odd, odd \cup {"relocked"}}
    BY <2>1 DEF Moves, PruneBlockIndexCandidates
  <2>4. tip' \in Anc[m] /\ tip' \in Block /\ Anc[tip'] \subseteq Anc[m]
    BY <2>2, <2>3, AncTransitive
  <2>5. Anc[tip'] \cap Failed = {}
    BY <1>0, <2>2, <2>4 DEF Usable, Path
  <2>6. Anc[tip'] \cap bad = {}
    <3>1. CASE tip' \in good
      BY <2>3, <2>4, <3>1
    <3>2. CASE tip' \in Anc[tip]
      <4>1. Anc[tip'] \subseteq Anc[tip]
        BY <2>2, <3>2, AncTransitive
      <4> QED BY <2>3, <4>1
    <3> QED BY <2>3, <3>1, <3>2
  <2>7. Anc[tip'] \cap Failed' = {}
    BY <1>0, <1>2, <2>3, <2>4, <2>5, <2>6 DEF Failed
  <2>8. ASSUME NEW c \in candidates' PROVE ~Better(tip', c)
    <3>1. c \in candidates /\ c \in Block /\ ~Better(tip, c)
      BY <1>0, <2>3 DEF Structure, CandidatesLinked
    <3>2. CASE good = {}
      <4>1. tip' \in Anc[tip]
        BY <2>1, <3>2 DEF Moves
      <4> QED BY <1>0, <2>2, <3>1, <4>1, AncestorWorse
    <3>3. CASE good # {}
      BY <2>1, <3>3 DEF Moves, PruneBlockIndexCandidates
    <3> QED BY <3>2, <3>3
  <2>9. failedValid' \subseteq index /\ LockTypes'
    BY <1>0, <2>2, <2>3, <2>4 DEF LockTypes, tree, Oddity
  <2>10. /\ tip' \in chainTx /\ candidates' \subseteq chainTx /\ pending' \in BOOLEAN
         /\ checked' \in Block \cup {None}
    BY <1>0, <2>2, <2>3, <2>4
  <2> QED BY <1>0, <1>1, <2>7, <2>8, <2>9, <2>10, TreeUnchanged
<1> QED BY <1>3, <1>4

LEMMA InvalidateStructure ==
  ASSUME Structure, NEW b \in Block, InvalidateBlock(b)
  PROVE  Structure'
<1> DEFINE off == IF b \in Anc[tip] THEN Anc[tip] \ Anc[Parent[b]] ELSE {}
           newTip == IF b \in Anc[tip] THEN Parent[b] ELSE tip
           valid == chainTx \ (Failed \cup {b} \cup off)
<1>1. /\ b \in index \ {Genesis} /\ failedValid' = failedValid \cup {b}
      /\ failedChild' = failedChild \cup off /\ tip' = newTip
      /\ candidates' = (candidates \ (off \cup {b})) \cup {x \in valid : ~Better(newTip, x)}
      /\ pending' = TRUE /\ odd' \subseteq odd
      /\ UNCHANGED <<scene, tree, checked, locked, rejected, damaged, replay, passed>>
  BY DEF InvalidateBlock, locks
<1>2. /\ Ids /\ tip \in Block /\ tip \in chainTx /\ Anc[tip] \subseteq chainTx
      /\ candidates \subseteq chainTx /\ chainTx \subseteq Block /\ chainTx \subseteq index
      /\ Anc[tip] \cap Failed = {} /\ failedValid \subseteq index /\ failedChild \subseteq index
  BY StructureFacts DEF Structure, TypeOK, ActiveChainSound
<1>3. /\ newTip \in Anc[tip] /\ newTip \in Block /\ Anc[newTip] \subseteq Anc[tip]
      /\ b \notin Anc[newTip] /\ off \cap Anc[newTip] = {} /\ off \subseteq Anc[tip]
  <2>1. CASE b \in Anc[tip]
    <3>1. /\ Parent[b] \in Block /\ Anc[b] = {b} \cup Anc[Parent[b]]
          /\ b \notin Anc[Parent[b]] /\ Parent[b] \in Anc[Parent[b]]
      BY <1>1, AncStep, AncFinite
    <3>2. Anc[b] \subseteq Anc[tip]
      BY <1>2, <2>1, AncTransitive
    <3> QED BY <2>1, <3>1, <3>2
  <2>2. CASE b \notin Anc[tip]
    BY <1>2, <2>2, AncFinite
  <2> QED BY <2>1, <2>2
<1> HIDE DEF off, newTip
<1>4. Anc[tip'] \cap Failed' = {}
  BY <1>1, <1>2, <1>3 DEF Failed
<1>5. \A c \in candidates' : ~Better(tip', c)
  <2>1. ASSUME NEW c \in candidates PROVE ~Better(newTip, c)
    <3>1. ~Better(tip, c) /\ c \in Block
      BY <1>2 DEF Structure, CandidatesLinked
    <3> QED BY <1>2, <1>3, <3>1, AncestorWorse
  <2> QED BY <1>1, <2>1
<1>6. candidates' \subseteq chainTx /\ tip' \in chainTx
  BY <1>1, <1>2, <1>3
<1>7. failedValid' \subseteq index /\ failedChild' \subseteq index
  BY <1>1, <1>2, <1>3
<1>8. pending' \in BOOLEAN /\ checked' \in Block \cup {None} /\ LockTypes'
  BY <1>1, LockTypesHold DEF Structure, TypeOK, LockTypes, tree
<1> QED BY <1>1, <1>4, <1>5, <1>6, <1>7, <1>8, TreeUnchanged

(* ReconsiderBlock may run with any block.                                 *)
LEMMA ReconsiderFacts ==
  ASSUME Structure, NEW b \in Block, ReconsiderBlock(b)
  PROVE  /\ failedValid' \subseteq failedValid /\ failedChild' \subseteq failedChild
         /\ candidates' \subseteq chainTx /\ \A c \in candidates' : ~Better(tip, c)
<1>1. /\ Ids /\ tip \in Block /\ chainTx \subseteq Block /\ candidates \subseteq chainTx
      /\ \A c \in candidates : ~Better(tip, c)
  BY StructureFacts DEF Structure, CandidatesLinked
<1>2. candidates' = candidates \cup {x \in Reconsidered(b) \cap chainTx : Better(x, tip)}
  BY DEF ReconsiderBlock
<1>3. \A x \in chainTx : Better(x, tip) => ~Better(tip, x)
  BY <1>1, BetterOrder
<1> QED BY <1>1, <1>2, <1>3 DEF ReconsiderBlock

LEMMA ReprocessTip ==
  ASSUME Structure, DisconnectBlocksAndReprocess, scene.depth \in Nat
  PROVE  tip' \in Anc[tip]
<1> DEFINE height == IF Height(tip) > scene.depth THEN Height(tip) - scene.depth ELSE 1
<1>1. tip \in Block /\ tip \in Anc[tip] /\ Height(tip) \in Nat /\ IsFiniteSet(Anc[tip])
  BY StructureFacts, AncFinite
<1>2. Height(tip) # 0
  BY <1>1, FS_EmptySet DEF Height
<1>3. height \in 1 .. Height(tip)
  BY <1>1, <1>2
<1>4. \E a \in Anc[tip] : Height(a) = height
  BY <1>1, <1>3, HeightReached
<1> QED BY <1>4 DEF DisconnectBlocksAndReprocess

(* The scene is one of the scenes.                                         *)
SceneOK == scene \in Scenes

LEMMA SceneFacts ==
  ASSUME SceneOK
  PROVE  scene.depth \in Nat /\ Genesis \notin scene.invalid /\ scene.lockable \subseteq Block
<1>1. scene \in Scene
  BY SceneAssumption DEF SceneOK
<1>2. scene.depth \in Nat /\ scene.lockable \in SUBSET Block
  BY <1>1 DEF Scene
<1> QED BY <1>2, SceneAssumption DEF SceneOK

LEMMA StructureNext ==
  ASSUME Structure, SceneOK, [Next]_vars
  PROVE  Structure'
<1>0. /\ Ids /\ tip \in Block /\ tip \in chainTx /\ candidates \subseteq chainTx
      /\ Anc[tip] \cap Failed = {} /\ failedValid \subseteq index /\ failedChild \subseteq index
      /\ pending \in BOOLEAN /\ checked \in Block \cup {None} /\ LockTypes
      /\ index \subseteq Block /\ chainTx \subseteq Block
      /\ \A c \in candidates : ~Better(tip, c)
  BY StructureFacts, LockTypesHold DEF Structure, TypeOK, ActiveChainSound, CandidatesLinked
<1>1. ASSUME UNCHANGED <<scene, tree, failedValid, failedChild, candidates, tip, pending, checked>>,
             LockTypes'
      PROVE  Structure'
  <2>1. Failed' = Failed
    BY <1>1 DEF Failed
  <2> QED BY <1>0, <1>1, <2>1, TreeUnchanged
<1>2. ASSUME NEW b \in Block, RejectLocked(b) PROVE Structure'
  <2>1. LockTypes'
    BY <1>0, <1>2 DEF RejectLocked, LockTypes, tree, history
  <2> QED BY <1>1, <1>2, <2>1 DEF RejectLocked
<1>3. ASSUME NEW b \in scene.lockable, LockChanges(b) PROVE Structure'
  <2>1. LockTypes'
    BY <1>0, <1>3 DEF LockChanges, LockTypes, tree, history
  <2> QED BY <1>1, <1>3, <2>1 DEF LockChanges
<1>4. ASSUME NEW b \in scene.fragile, Damage(b) PROVE Structure'
  <2>1. LockTypes'
    BY <1>0, <1>4 DEF Damage, LockTypes, tree, history
  <2> QED BY <1>1, <1>4, <2>1 DEF Damage
<1>5. ASSUME NEW recent \in SUBSET scene.lockable, ReprocessBlocks(recent) PROVE Structure'
  <2>1. LockTypes'
    BY <1>0, <1>5 DEF ReprocessBlocks, LockTypes, tree, history
  <2> QED BY <1>1, <1>5, <2>1 DEF ReprocessBlocks
<1>6. ASSUME NEW b \in Block, ReconsiderBlock(b), pending' \in BOOLEAN, LockTypes',
             UNCHANGED <<scene, tree, tip, checked>>
      PROVE  Structure'
  <2>1. /\ failedValid' \subseteq failedValid /\ failedChild' \subseteq failedChild
        /\ candidates' \subseteq chainTx /\ \A c \in candidates' : ~Better(tip, c)
    BY <1>6, ReconsiderFacts
  <2>2. Anc[tip] \cap Failed' = {}
    BY <1>0, <2>1 DEF Failed
  <2> QED BY <1>0, <1>6, <2>1, <2>2, TreeUnchanged
<1>7. ASSUME NEW b \in Block, RpcReconsiderBlock(b) PROVE Structure'
  <2>1. LockTypes'
    BY <1>0, <1>7 DEF RpcReconsiderBlock, NoteReconsidered, Oddity, LockTypes, tree, locks
  <2> QED BY <1>6, <1>7, <2>1 DEF RpcReconsiderBlock
<1>8. ASSUME NEW b \in scene.lockable, ReprocessOne(b) PROVE Structure'
  <2>1. odd' \in {odd, odd \cup {"reconsidered"}} /\ replay' = replay \ {b} /\ replay # None
    BY <1>8 DEF ReprocessOne, NoteReconsidered
  <2>2. LockTypes'
    BY <1>0, <1>8, <2>1 DEF ReprocessOne, Oddity, LockTypes, tree
  <2>3. CASE b \in rejected \cap index
    BY <1>0, <1>6, <1>8, <2>2, <2>3 DEF ReprocessOne
  <2>4. CASE b \notin rejected \cap index
    BY <1>1, <1>8, <2>2, <2>4 DEF ReprocessOne
  <2> QED BY <2>3, <2>4
<1>9. CASE DisconnectBlocksAndReprocess
  <2>1. tip' \in Anc[tip]
    BY <1>9, ReprocessTip, SceneFacts
  <2>2. /\ pending' = TRUE
        /\ UNCHANGED <<scene, tree, failedValid, failedChild, candidates, checked>>
    BY <1>9 DEF DisconnectBlocksAndReprocess
  <2>3. LockTypes'
    BY <1>0, <1>9 DEF DisconnectBlocksAndReprocess, LockTypes, tree, history
  <2>4. tip' \in Block /\ Anc[tip'] \subseteq Anc[tip]
    BY <1>0, <2>1, AncTransitive
  <2>5. tip' \in chainTx
    BY <1>0, <2>1, StructureFacts
  <2>6. Anc[tip'] \cap Failed' = {}
    BY <1>0, <2>2, <2>4 DEF Failed
  <2>7. \A c \in candidates' : ~Better(tip', c)
    BY <1>0, <2>1, <2>2, AncestorWorse
  <2> QED BY <1>0, <2>2, <2>3, <2>5, <2>6, <2>7, TreeUnchanged
<1>10. CASE UNCHANGED vars
  <2>1. LockTypes'
    BY <1>0, <1>10 DEF vars, LockTypes, tree, locks, history
  <2> QED BY <1>1, <1>10, <2>1 DEF vars
<1> QED BY <1>2, <1>3, <1>4, <1>5, <1>7, <1>8, <1>9, <1>10, HeaderStructure, NewBlockStructure,
           ActivateStructure, InvalidateStructure DEF Next

LEMMA SceneNext == SceneOK /\ [Next]_vars => SceneOK'
  BY DEF SceneOK, Next, vars, AcceptBlockHeader, ContextualCheckFails, ProcessNewBlock,
         RejectLocked, ActivateBestChain, InvalidateBlock, RpcReconsiderBlock,
         ReprocessBlocks, ReprocessOne, DisconnectBlocksAndReprocess, LockChanges, Damage

LEMMA SceneInit == Init => SceneOK
  BY DEF Init, SceneOK

(* Type correctness.                                                       *)
THEOREM ChainStateTypeOK == Spec => []TypeOK
<1>1. SceneOK /\ Structure /\ [Next]_vars => (SceneOK /\ Structure)'
  BY SceneNext, StructureNext
<1>2. Structure => TypeOK
  BY DEF Structure
<1> QED BY <1>1, <1>2, SceneInit, InitStructure, PTL DEF Spec

(* The active chain is linked and holds no block marked invalid, between   *)
(* any two steps of reorganisations, replays and the operator's commands.  *)
THEOREM ChainStateActiveChainSound == Spec => []ActiveChainSound
<1>1. SceneOK /\ Structure /\ [Next]_vars => (SceneOK /\ Structure)'
  BY SceneNext, StructureNext
<1>2. Structure => ActiveChainSound
  BY DEF Structure
<1> QED BY <1>1, <1>2, SceneInit, InitStructure, PTL DEF Spec

-----------------------------------------------------------------------------
(* Failed blocks have a cause, until the operator or a replay reconsiders  *)
(* a block above a failed one, which clears the cause of marks on other    *)
(* branches.                                                               *)

Calm == "reconsidered" \notin odd
Caused == \A b \in Failed : Anc[b] \cap failedValid # {}
CauseInv == Calm => Caused

LEMMA CauseInit == Init => CauseInv
  BY DEF Init, CauseInv, Caused, Failed

(* A mark below one that has a cause has it too.                           *)
LEMMA CausedAbove ==
  ASSUME Caused, NEW x \in Block, NEW y \in Failed, y \in Anc[x]
  PROVE  Anc[x] \cap failedValid # {}
<1>1. Anc[y] \subseteq Anc[x]
  BY AncTransitive
<1>2. Anc[y] \cap failedValid # {}
  BY DEF Caused
<1> QED BY <1>1, <1>2

(* Reconsidering a block with no failed ancestor takes no cause away from  *)
(* a mark that stays.                                                      *)
LEMMA ReconsiderCaused ==
  ASSUME Structure, Caused, NEW b \in Block, ReconsiderBlock(b), Anc[b] \cap Failed \subseteq {b}
  PROVE  /\ Caused' /\ Failed' \subseteq Failed
         /\ \A x \in Failed \ Failed' : b \in Anc[x]
         /\ \A x \in Failed : b \in Anc[x] => x \notin Failed'
<1>1. /\ failedValid' = failedValid \ (Reconsidered(b) \cup Anc[b])
      /\ failedChild' = failedChild \ (Reconsidered(b) \cup Anc[b])
  BY DEF ReconsiderBlock
<1>2. Failed' = Failed \ (Reconsidered(b) \cup Anc[b])
  BY <1>1 DEF Failed
<1>3. failedValid \subseteq Failed /\ Failed \subseteq Block
  BY DEF Failed, Structure, TypeOK
<1>4. ASSUME NEW x \in Failed' PROVE Anc[x] \cap failedValid' # {}
  <2>1. x \in Failed /\ b \notin Anc[x] /\ x \in Block
    BY <1>2, <1>3 DEF Reconsidered
  <2>2. PICK y \in Anc[x] : y \in failedValid
    BY <2>1 DEF Caused
  <2>3. y \in Block /\ Anc[y] \subseteq Anc[x]
    BY <2>1, AncTransitive
  <2>4. y \notin Reconsidered(b)
    BY <2>1, <2>3 DEF Reconsidered
  <2>5. y \notin Anc[b]
    BY <1>3, <2>1, <2>2
  <2> QED BY <1>1, <2>2, <2>4, <2>5
<1>5. \A x \in Failed \ Failed' : b \in Anc[x]
  <2>1. b \in Anc[b]
    BY AncFinite
  <2> QED BY <1>2, <2>1 DEF Reconsidered
<1> QED BY <1>2, <1>4, <1>5 DEF Caused, Reconsidered

(* Only invalidateblock mends anything, and not the marks.                 *)
LEMMA OddNext ==
  ASSUME Structure, [Next]_vars
  PROVE  /\ "reconsidered" \in odd => "reconsidered" \in odd'
         /\ (\A b \in Block : ~InvalidateBlock(b)) => odd \subseteq odd'
<1>1. ASSUME NEW b \in Block, InvalidateBlock(b) PROVE "reconsidered" \in odd => "reconsidered" \in odd'
  BY <1>1 DEF InvalidateBlock
<1>2. (\A b \in Block : ~InvalidateBlock(b)) => odd \subseteq odd'
  <2> SUFFICES ASSUME \A b \in Block : ~InvalidateBlock(b) PROVE odd \subseteq odd'
    OBVIOUS
  <2>2. CASE ActivateBestChain
    BY <2>2, ActivateCases DEF Moves
  <2>3. CASE \E b \in Block : AcceptBlockHeader(b) \/ ContextualCheckFails(b)
                            \/ ProcessNewBlock(b) \/ RejectLocked(b) \/ RpcReconsiderBlock(b)
    BY <2>3 DEF AcceptBlockHeader, ContextualCheckFails, ProcessNewBlock, RejectLocked,
                RpcReconsiderBlock, NoteReconsidered, history
  <2>4. CASE \/ \E recent \in SUBSET scene.lockable : ReprocessBlocks(recent)
             \/ \E b \in scene.lockable : ReprocessOne(b) \/ LockChanges(b)
             \/ \E b \in scene.fragile : Damage(b)
             \/ DisconnectBlocksAndReprocess \/ UNCHANGED vars
    BY <2>4 DEF ReprocessBlocks, ReprocessOne, LockChanges, Damage, NoteReconsidered,
                DisconnectBlocksAndReprocess, vars, history
  <2> QED BY <2>2, <2>3, <2>4 DEF Next
<1> QED BY <1>1, <1>2

LEMMA CauseNext ==
  ASSUME Structure, SceneOK, CauseInv, [Next]_vars
  PROVE  CauseInv'
<1> SUFFICES ASSUME Calm' PROVE Caused'
  BY DEF CauseInv
<1>0. Calm
  BY OddNext DEF Calm
<1>a. Caused /\ Failed \subseteq Block
  BY <1>0 DEF CauseInv, Structure, TypeOK, Failed
<1>1. ASSUME UNCHANGED <<failedValid, failedChild>> PROVE Caused'
  BY <1>1, <1>a DEF Caused, Failed
<1>2. ASSUME NEW b \in Block, ContextualCheckFails(b) PROVE Caused'
  <2>1. failedValid' = failedValid \cup {b} /\ failedChild' = failedChild
    BY <1>2 DEF ContextualCheckFails
  <2>2. b \in Anc[b]
    BY AncFinite
  <2> QED BY <1>a, <2>1, <2>2 DEF Caused, Failed
<1>3. CASE ActivateBestChain
  <2>1. /\ failedChild' = failedChild \cup MarkedChildren
        /\ \E bad \in SUBSET Block : failedValid' = failedValid \cup bad
    <3>1. CASE failedValid' = failedValid
      <4>1. failedValid' = failedValid \cup {} /\ {} \in SUBSET Block
        BY <3>1
      <4>2. \E bad \in SUBSET Block : failedValid' = failedValid \cup bad
        BY <4>1
      <4> QED BY <1>3, <4>2, ActivateCases
    <3>2. CASE \E good, bad \in SUBSET Block : Moves(FindMostWorkChain, good, bad)
      BY <1>3, <3>2, ActivateCases DEF Moves
    <3> QED BY <1>3, <3>1, <3>2, ActivateCases
  <2>2. PICK bad \in SUBSET Block : failedValid' = failedValid \cup bad
    BY <2>1
  <2>3. ASSUME NEW x \in Failed' PROVE Anc[x] \cap failedValid' # {}
    <3>1. CASE x \in Failed
      BY <1>a, <2>2, <3>1 DEF Caused
    <3>2. CASE x \in bad
      BY <2>2, <3>2, AncFinite
    <3>3. CASE x \in MarkedChildren
      <4>1. x \in Block /\ \E y \in Failed : y \in Anc[x]
        BY <3>3, DroppedFacts, StructureFacts
      <4> QED BY <1>a, <2>2, <4>1, CausedAbove
    <3> QED BY <2>1, <2>2, <3>1, <3>2, <3>3 DEF Failed
  <2> QED BY <2>3 DEF Caused
<1>4. ASSUME NEW b \in Block, InvalidateBlock(b) PROVE Caused'
  <2>1. /\ b # Genesis /\ failedValid' = failedValid \cup {b}
        /\ failedChild' = failedChild \cup
             (IF b \in Anc[tip] THEN Anc[tip] \ Anc[Parent[b]] ELSE {})
    BY <1>4 DEF InvalidateBlock
  <2>2. ASSUME NEW x \in Anc[tip] \ Anc[Parent[b]], b \in Anc[tip] PROVE b \in Anc[x]
    <3>1. tip \in Block /\ x \in Block /\ x \in Anc[x] /\ Anc[b] = {b} \cup Anc[Parent[b]]
      BY <2>1, AncStep, AncFinite, StructureFacts
    <3> QED BY <2>2, <3>1, AncChain
  <2>3. b \in Anc[b]
    BY AncFinite
  <2> QED BY <1>a, <2>1, <2>2, <2>3 DEF Caused, Failed
<1>5. ASSUME NEW b \in Block, ReconsiderBlock(b), NoteReconsidered(b) PROVE Caused'
  <2>1. Anc[b] \cap Failed \subseteq {b}
    BY <1>5 DEF NoteReconsidered, Calm
  <2> QED BY <1>5, <1>a, <2>1, ReconsiderCaused
<1>6. ASSUME NEW b \in Block, RpcReconsiderBlock(b) PROVE Caused'
  BY <1>5, <1>6 DEF RpcReconsiderBlock
<1>7. ASSUME NEW b \in scene.lockable, ReprocessOne(b) PROVE Caused'
  <2>1. b \in Block
    BY SceneFacts
  <2> QED BY <1>1, <1>5, <1>7, <2>1 DEF ReprocessOne
<1>8. CASE \/ \E b \in Block : AcceptBlockHeader(b) \/ ProcessNewBlock(b) \/ RejectLocked(b)
           \/ \E recent \in SUBSET scene.lockable : ReprocessBlocks(recent)
           \/ \E b \in scene.lockable : LockChanges(b)
           \/ \E b \in scene.fragile : Damage(b)
           \/ DisconnectBlocksAndReprocess \/ UNCHANGED vars
  <2>1. UNCHANGED <<failedValid, failedChild>>
    BY <1>8 DEF vars, AcceptBlockHeader, ProcessNewBlock, RejectLocked, LockChanges,
                ReprocessBlocks, DisconnectBlocksAndReprocess, Damage
  <2> QED BY <1>1, <2>1
<1> QED BY <1>2, <1>3, <1>4, <1>6, <1>7, <1>8 DEF Next

(* What CheckBlockIndex asserts of nChainTx, mapBlocksUnlinked, the        *)
(* candidates and the marks, at every moment, for any tree and any order   *)
(* of headers, blocks, commands, locks and replays.  Only a block that is  *)
(* reconsidered above a failed one can leave a mark without its cause.     *)
THEOREM ChainStateCheckBlockIndex == Spec => []CheckBlockIndex
<1> DEFINE I == SceneOK /\ Structure /\ CauseInv
<1>1. Init => I
  BY SceneInit, InitStructure, CauseInit
<1>2. I /\ [Next]_vars => I'
  BY SceneNext, StructureNext, CauseNext
<1>3. I => CheckBlockIndex
  BY DEF CheckBlockIndex, Structure, CauseInv, Calm, Caused, FailedHasCause
<1> HIDE DEF I
<1> QED BY <1>1, <1>2, <1>3, PTL DEF Spec

-----------------------------------------------------------------------------
(* The candidates are complete and the best chain becomes active.  A       *)
(* reorganisation that fails, and a replay, lower the tip and do not bring *)
(* back the candidates that were worse than the old one; they are not      *)
(* needed, since a chain that was active once can be connected again.      *)
(* That is what a lock breaks that refuses a block of such a chain         *)
(* (relocked), and what invalidateblock repairs, which collects the        *)
(* candidates anew.                                                        *)

(* A chain that has been active and is not marked.                         *)
Sound(x) == Anc[x] \subseteq passed \ failedValid

(* Every linked block that is not marked and not worse than r is a         *)
(* candidate, and r is one that can be connected.                          *)
Ready(r) ==
  /\ r \in candidates /\ Sound(r)
  /\ \A x \in chainTx \ Failed : ~Better(r, x) => x \in candidates
Done ==
  /\ tip \in candidates
  /\ \A b \in chainTx : NotInvalid(b) => b = tip \/ Better(tip, b)
CandidatesInv ==
  /\ Anc[tip] \subseteq passed
  /\ odd = {} => (\E r \in candidates : Ready(r)) /\ (Idle => Done)

LEMMA CandidatesInit == Init => CandidatesInv
<1> SUFFICES ASSUME Init PROVE CandidatesInv
  OBVIOUS
<1>1. Anc[Genesis] = {Genesis}
  BY TreeAssumption
<1>2. /\ candidates = {Genesis} /\ chainTx = {Genesis} /\ tip = Genesis /\ failedValid = {}
      /\ passed = {Genesis}
  BY DEF Init
<1>3. Ready(Genesis) /\ Done
  BY <1>1, <1>2 DEF Ready, Sound, Done
<1> QED BY <1>1, <1>2, <1>3 DEF CandidatesInv

(* Chains without an invalid block have no mark, are usable and are not    *)
(* dropped.                                                                *)
LEMMA NotInvalidFacts ==
  ASSUME Structure, Caused, NEW b \in chainTx, Anc[b] \cap failedValid = {}
  PROVE  Anc[b] \cap Failed = {} /\ b \notin Failed /\ Usable(b) /\ b \notin Dropped
<1>1. b \in Block /\ b \in Anc[b]
  BY StructureFacts, AncFinite
<1>2. ASSUME NEW x \in Anc[b], x \in Failed PROVE FALSE
  BY <1>1, <1>2, CausedAbove
<1>3. b \notin Dropped
  BY <1>2, DroppedFacts
<1> QED BY <1>1, <1>2, <1>3 DEF Usable, Path

LEMMA NewBlockReady ==
  ASSUME Structure, NEW b \in Block, ProcessNewBlock(b), NEW r \in candidates, Ready(r)
  PROVE  r \in candidates' /\ Ready(r)'
<1>0. /\ b \in Block \ {Genesis} /\ Parent[b] \in index
      /\ UNCHANGED <<failedValid, failedChild, tip, passed>>
      /\ tip \in chainTx /\ tip \in Block /\ chainTx \subseteq Block /\ r \in chainTx /\ Ids
      /\ ~Better(tip, r)
  BY StructureFacts
     DEF ProcessNewBlock, Acceptable, Structure, TypeOK, CandidatesLinked, history
<1>a. Failed' = Failed /\ Sound(r)'
  BY <1>0 DEF Failed, Ready, Sound
<1>1. CASE UNCHANGED <<chainTx, nSequenceId, candidates>>
  <2>1. \A x \in chainTx : Better(r, x)' <=> Better(r, x)
    BY <1>1, BetterFrame
  <2> QED BY <1>1, <1>a, <2>1 DEF Ready
<1>2. CASE b \notin data /\ Parent[b] \in chainTx
  <2> DEFINE new == Linked(b)
             n == Cardinality(chainTx)
  <2>1. PICK id \in [new -> n + 1 .. n + 1 + Cardinality(new) - 1] :
          /\ nSequenceId' = [x \in Block |-> IF x \in new THEN id[x] ELSE nSequenceId[x]]
          /\ chainTx' = chainTx \cup new
          /\ candidates' = candidates \cup {x \in new : Work[x] > Work[tip]}
    BY <1>2 DEF ProcessNewBlock, ReceivedBlockTransactions
  <2>2. new \cap chainTx = {} /\ new \subseteq Block
    BY <1>0, <1>2, LinkedFacts DEF Structure, TypeOK
  <2> HIDE DEF new
  <2>3. n \in Nat /\ Cardinality(new) \in Nat
    BY <1>0, <2>2, TreeAssumption, FS_Subset, FS_CardinalityType
  <2>4. \A x \in chainTx : nSequenceId'[x] = nSequenceId[x] /\ nSequenceId[x] \in 1 .. n
    BY <1>0, <2>1, <2>2 DEF Structure, SeqOK
  <2>5. ASSUME NEW x \in new PROVE nSequenceId'[x] \in Nat /\ nSequenceId'[x] > n
    BY <2>1, <2>2, <2>3
  <2> HIDE DEF n
  <2>6. ASSUME NEW x \in chainTx' \ Failed', ~Better(r, x)' PROVE x \in candidates'
    <3>1. CASE x \in chainTx
      <4>1. ~Better(r, x)
        BY <1>0, <2>4, <2>6, <3>1, BetterFrame
      <4> QED BY <1>a, <2>1, <2>6, <3>1, <4>1 DEF Ready
    <3>2. CASE x \in new
      <4>1. Work[x] \in Nat /\ Work[r] \in Nat /\ Work[tip] \in Nat
        BY <1>0, <2>2, <3>2, WorkAssumption
      <4>2. nSequenceId'[r] \in Nat /\ nSequenceId'[r] <= n
        BY <1>0, <2>3, <2>4
      <4>3. nSequenceId'[r] < nSequenceId'[x]
        BY <2>3, <2>5, <3>2, <4>2
      <4>4. Work[x] > Work[r]
        BY <2>6, <4>1, <4>3 DEF Better
      <4>5. Work[r] >= Work[tip]
        BY <1>0, <4>1 DEF Better
      <4> QED BY <2>1, <3>2, <4>1, <4>4, <4>5
    <3> QED BY <2>1, <3>1, <3>2
  <2> QED BY <1>a, <2>1, <2>6 DEF Ready
<1> QED BY <1>1, <1>2 DEF ProcessNewBlock, ReceivedBlockTransactions

(* A step of the activation.                                               *)
LEMMA ActivateReady ==
  ASSUME Structure, Caused, ActivateBestChain, odd' = {}, NEW r \in candidates, Ready(r)
  PROVE  (\E s \in candidates' : Ready(s)') /\ (~pending' => Done')
<1> DEFINE m == FindMostWorkChain
<1>0. /\ UNCHANGED <<chainTx, nSequenceId>>
      /\ failedChild' = failedChild \cup MarkedChildren
      /\ Ids /\ SeqOK /\ chainTx \subseteq Block /\ candidates \subseteq chainTx
      /\ r \in chainTx /\ r \in Block /\ tip \in chainTx /\ tip \in Block
      /\ Anc[tip] \cap Failed = {}
      /\ \A x \in chainTx : Anc[x] \subseteq chainTx
  BY ActivateCases, StructureFacts DEF tree, Structure, TypeOK, ActiveChainSound
<1>1. \A x, y \in chainTx : Better(x, y)' <=> Better(x, y)
  BY <1>0, BetterFrame
<1>2. Anc[r] \cap failedValid = {} /\ Usable(r) /\ r \notin Dropped
  BY <1>0, NotInvalidFacts DEF Ready, Sound
<1>3. m # None /\ m \in candidates /\ Usable(m) /\ m \in chainTx /\ m \in Block
      /\ \A d \in candidates : Usable(d) => d = m \/ Better(m, d)
  BY <1>0, <1>2, MostWorkFacts
<1>4. ASSUME NEW b \in chainTx, Anc[b] \cap failedValid = {} PROVE b = m \/ Better(m, b)
  <2>0. b \in Block /\ b \notin Failed /\ Usable(b)
    BY <1>0, <1>4, NotInvalidFacts
  <2>1. CASE b \in candidates
    BY <1>3, <2>0, <2>1
  <2>2. CASE b \notin candidates
    <3>1. Better(r, b)
      BY <2>0, <2>2 DEF Ready
    <3>2. r = m \/ Better(m, r)
      BY <1>2, <1>3
    <3> QED BY <1>0, <1>3, <2>0, <3>1, <3>2, BetterOrder
  <2> QED BY <2>1, <2>2
<1>5. Failed \subseteq Failed' /\ MarkedChildren \subseteq Failed' /\ failedValid \subseteq failedValid'
  <2>1. failedValid \subseteq failedValid'
    BY ActivateCases DEF Moves
  <2> QED BY <1>0, <2>1 DEF Failed
<1>6. \A x \in chainTx \ Failed' : x \notin Dropped
  BY <1>5, DroppedFacts
<1>7. CASE m = tip
  <2>1. /\ candidates' = candidates \ Dropped /\ pending' = FALSE
        /\ UNCHANGED <<tip, failedValid, passed>>
    BY <1>3, <1>7, ActivateCases
  <2>2. Ready(r)' /\ r \in candidates'
    <3>1. Sound(r)'
      BY <1>0, <2>1 DEF Ready, Sound
    <3>2. r \in candidates'
      BY <1>2, <2>1
    <3>3. ASSUME NEW x \in chainTx' \ Failed', ~Better(r, x)' PROVE x \in candidates'
      BY <1>0, <1>1, <1>5, <1>6, <2>1, <3>3 DEF Ready
    <3> QED BY <3>1, <3>2, <3>3 DEF Ready
  <2>3. Done'
    <3>1. tip \in candidates /\ tip \notin Dropped
      <4>1. Anc[tip] \cap failedValid = {}
        BY <1>0 DEF Failed
      <4> QED BY <1>0, <1>3, <1>7, <4>1, NotInvalidFacts
    <3>2. ASSUME NEW b \in chainTx, NotInvalid(b)' PROVE b = tip \/ Better(tip, b)'
      BY <1>0, <1>1, <1>4, <1>7, <2>1, <3>2 DEF NotInvalid
    <3> QED BY <1>0, <2>1, <3>1, <3>2 DEF Done
  <2> QED BY <2>2, <2>3
<1>8. CASE m # tip
  <2>1. PICK good, bad \in SUBSET Block : Moves(m, good, bad)
    BY <1>3, <1>8, ActivateCases
  <2> HIDE DEF m
  <2>2. /\ good \subseteq Anc[m] \ Anc[tip] /\ bad \subseteq (Anc[m] \ Anc[tip]) \ good
        /\ \A b \in good : \A c \in Anc[b] \cap (Anc[m] \ Anc[tip]) : c \in good
        /\ tip' \in good \cup (Anc[m] \cap Anc[tip])
        /\ failedValid' = failedValid \cup bad /\ pending' = (tip' # m)
        /\ passed' = passed \cup Anc[tip'] /\ bad \cap passed = {}
    BY <2>1 DEF Moves
  <2>a. PICK t : t = tip'
    OBVIOUS
  <2>b. t \in good \cup (Anc[m] \cap Anc[tip]) /\ pending' = (t # m)
    BY <2>2, <2>a
  <2>4. /\ t \in Anc[m] /\ t \in Block /\ t \in chainTx /\ Anc[t] \subseteq Anc[m]
        /\ t \in Anc[t]
    BY <1>0, <1>3, <2>2, <2>b, AncTransitive, AncFinite
  <2>5. Anc[t] \cap bad = {} /\ t \notin bad
    <3>1. CASE t \in good
      BY <2>2, <2>4, <3>1
    <3>2. CASE t \in Anc[tip]
      <4>1. Anc[t] \subseteq Anc[tip]
        BY <1>0, <3>2, AncTransitive
      <4> QED BY <2>2, <3>2, <4>1
    <3> QED BY <2>b, <3>1, <3>2
  <2>6. Anc[t] \cap Failed = {}
    BY <1>0, <1>3, <2>4 DEF Usable, Path
  <2>7. Anc[t] \cap failedValid' = {}
    BY <2>2, <2>5, <2>6 DEF Failed
  <2>8. t \notin Failed /\ t \notin Dropped
    <3>1. Anc[t] \cap failedValid = {}
      BY <2>6 DEF Failed
    <3> QED BY <2>4, <3>1, NotInvalidFacts
  <2>9. Anc[r] \cap bad = {} /\ r \notin bad
    BY <1>0, <2>2, AncFinite DEF Ready, Sound
  <2>10. Sound(r)' /\ Sound(t)'
    BY <1>0, <2>2, <2>7, <2>9, <2>a DEF Ready, Sound
  <2>11. \A x \in candidates : (x \notin Dropped /\ x \notin bad /\ (good = {} \/ ~Better(t, x)))
                => x \in candidates'
    BY <2>1, <2>a DEF Moves, PruneBlockIndexCandidates
  <2>12. bad \subseteq Failed'
    BY <2>2 DEF Failed
  <2>13. \E s \in candidates' : Ready(s)'
    <3>1. CASE good = {} \/ ~Better(t, r)
      <4>1. r \in candidates'
        BY <1>2, <2>9, <2>11, <3>1
      <4>2. ASSUME NEW x \in chainTx' \ Failed', ~Better(r, x)' PROVE x \in candidates'
        <5>1. x \in chainTx /\ x \in Block /\ x \notin Failed /\ ~Better(r, x)
          BY <1>0, <1>1, <1>5, <4>2
        <5>2. x \in candidates /\ x \notin Dropped /\ x \notin bad
          BY <1>6, <2>12, <4>2, <5>1 DEF Ready
        <5>3. good = {} \/ ~Better(t, x)
          BY <1>0, <2>4, <3>1, <5>1, BetterOrder
        <5> QED BY <2>11, <5>2, <5>3
      <4> QED BY <2>10, <4>1, <4>2 DEF Ready
    <3>2. CASE good # {} /\ Better(t, r)
      <4>1. ~Better(r, t) /\ ~Better(t, t)
        BY <1>0, <2>4, <3>2, BetterOrder
      <4>2. t \in candidates'
        <5>1. t \in candidates
          BY <2>4, <2>8, <4>1 DEF Ready
        <5> QED BY <2>5, <2>8, <2>11, <4>1, <5>1
      <4>3. ASSUME NEW x \in chainTx' \ Failed', ~Better(t, x)' PROVE x \in candidates'
        <5>1. x \in chainTx /\ x \in Block /\ x \notin Failed /\ ~Better(t, x)
          BY <1>0, <1>1, <1>5, <2>4, <4>3
        <5>2. ~Better(r, x)
          BY <1>0, <2>4, <3>2, <5>1, BetterOrder
        <5>3. x \in candidates /\ x \notin Dropped /\ x \notin bad
          BY <1>6, <2>12, <4>3, <5>1, <5>2 DEF Ready
        <5> QED BY <2>11, <5>1, <5>3
      <4> QED BY <2>10, <4>2, <4>3 DEF Ready
    <3> QED BY <3>1, <3>2
  <2>14. ASSUME ~pending' PROVE Done'
    <3>1. t = m
      BY <2>2, <2>a, <2>14
    <3>2. t \in candidates'
      <4>1. ~Better(t, t)
        BY <1>0, <2>4, BetterOrder
      <4> QED BY <1>3, <2>5, <2>8, <2>11, <3>1, <4>1
    <3>3. ASSUME NEW b \in chainTx', NotInvalid(b)' PROVE b = t \/ Better(t, b)'
      BY <1>0, <1>1, <1>4, <2>2, <2>4, <3>1, <3>3 DEF NotInvalid
    <3>4. ASSUME NEW b \in chainTx' PROVE Better(t, b)' <=> Better(tip, b)'
      BY <2>a DEF Better
    <3> QED BY <2>a, <3>2, <3>3, <3>4 DEF Done
  <2> QED BY <2>13, <2>14
<1> QED BY <1>7, <1>8

(* After invalidateblock everything as good as the new tip is a candidate. *)
LEMMA InvalidateReady ==
  ASSUME Structure, NEW b \in Block, InvalidateBlock(b), Anc[tip] \subseteq passed
  PROVE  Anc[tip'] \subseteq passed' /\ \E s \in candidates' : Ready(s)'
<1> DEFINE off == IF b \in Anc[tip] THEN Anc[tip] \ Anc[Parent[b]] ELSE {}
           newTip == IF b \in Anc[tip] THEN Parent[b] ELSE tip
           valid == chainTx \ (Failed \cup {b} \cup off)
<1>1. /\ b # Genesis /\ failedValid' = failedValid \cup {b}
      /\ failedChild' = failedChild \cup off /\ tip' = newTip
      /\ candidates' = (candidates \ (off \cup {b})) \cup {x \in valid : ~Better(newTip, x)}
      /\ UNCHANGED <<chainTx, nSequenceId, passed>>
  BY DEF InvalidateBlock, tree
<1>2. /\ Ids /\ tip \in Block /\ Anc[tip] \subseteq chainTx /\ chainTx \subseteq Block
      /\ Anc[tip] \cap Failed = {}
  BY StructureFacts DEF Structure, TypeOK, ActiveChainSound
<1>3. /\ newTip \in Anc[tip] /\ newTip \in Block /\ Anc[newTip] \subseteq Anc[tip]
      /\ newTip \in Anc[newTip] /\ b \notin Anc[newTip] /\ off \cap Anc[newTip] = {}
  <2>1. CASE b \in Anc[tip]
    <3>1. /\ Parent[b] \in Block /\ Anc[b] = {b} \cup Anc[Parent[b]]
          /\ b \notin Anc[Parent[b]] /\ Parent[b] \in Anc[Parent[b]]
      BY <1>1, AncStep, AncFinite
    <3>2. Anc[b] \subseteq Anc[tip]
      BY <1>2, <2>1, AncTransitive
    <3> QED BY <2>1, <3>1, <3>2
  <2>2. CASE b \notin Anc[tip]
    BY <1>2, <2>2, AncFinite
  <2> QED BY <2>1, <2>2
<1> HIDE DEF off, newTip
<1>4. PICK t : t = newTip
  OBVIOUS
<1>5. t \in valid /\ ~Better(t, t) /\ t \in candidates'
  <2>1. t \in valid
    BY <1>2, <1>3, <1>4
  <2>2. ~Better(t, t)
    BY <1>2, <1>3, <1>4, BetterOrder
  <2> QED BY <1>1, <1>4, <2>1, <2>2
<1>6. Sound(t)'
  BY <1>1, <1>2, <1>3, <1>4 DEF Sound, Failed
<1>7. ASSUME NEW x \in chainTx' \ Failed', ~Better(t, x)' PROVE x \in candidates'
  <2>1. x \in valid
    BY <1>1, <1>7 DEF Failed
  <2>2. ~Better(newTip, x)
    BY <1>1, <1>4, <1>7, BetterFrame
  <2> QED BY <1>1, <2>1, <2>2
<1> QED BY <1>1, <1>3, <1>5, <1>6, <1>7 DEF Ready

(* Reconsidering brings back the blocks that were marked.                  *)
LEMMA ReconsiderReady ==
  ASSUME Structure, Caused, NEW b \in Block, ReconsiderBlock(b), Anc[b] \cap Failed \subseteq {b},
         UNCHANGED <<tree, tip, passed>>, NEW r \in candidates, Ready(r)
  PROVE  r \in candidates' /\ Ready(r)'
<1>0. /\ Ids /\ SeqOK /\ tip \in Block /\ tip \in chainTx /\ chainTx \subseteq Block
      /\ r \in chainTx /\ ~Better(tip, r) /\ Anc[tip] \cap Failed = {}
      /\ UNCHANGED <<chainTx, nSequenceId, tip>> /\ tip \in Anc[tip]
  BY StructureFacts, AncFinite
     DEF Structure, TypeOK, ActiveChainSound, CandidatesLinked, tree
<1>1. candidates' = candidates \cup {x \in Reconsidered(b) \cap chainTx : Better(x, tip)}
  BY DEF ReconsiderBlock
<1>2. Sound(r)'
  BY <1>0, ReconsiderFacts DEF Sound, Ready
<1>3. ASSUME NEW x \in chainTx' \ Failed', ~Better(r, x)' PROVE x \in candidates'
  <2>1. x \in chainTx /\ x \in Block /\ ~Better(r, x)
    BY <1>0, <1>3, BetterFrame
  <2>2. CASE x \notin Failed
    BY <1>1, <2>1, <2>2 DEF Ready
  <2>3. CASE x \in Failed
    <3>1. x \in Reconsidered(b)
      BY <1>3, <2>3, ReconsiderCaused DEF Reconsidered
    <3>2. x # tip
      BY <1>0, <2>3
    <3>3. ~Better(tip, x)
      BY <1>0, <2>1, BetterOrder
    <3>4. Better(x, tip)
      BY <1>0, <2>1, <3>2, <3>3, BetterOrder
    <3> QED BY <1>1, <2>1, <3>1, <3>4
  <2> QED BY <2>2, <2>3
<1> QED BY <1>1, <1>2, <1>3 DEF Ready

LEMMA CandidatesNext ==
  ASSUME Structure, SceneOK, CauseInv, CandidatesInv, [Next]_vars
  PROVE  CandidatesInv'
<1> DEFINE Kept == (\E s \in candidates' : Ready(s)') /\ (Idle' => Done')
<1>a. Anc[tip'] \subseteq passed'
  <2>0. Anc[tip] \subseteq passed /\ tip \in Block
    BY StructureFacts DEF CandidatesInv
  <2>1. CASE ActivateBestChain
    BY <2>0, <2>1, ActivateCases DEF Moves
  <2>2. ASSUME NEW b \in Block, InvalidateBlock(b) PROVE Anc[tip'] \subseteq passed'
    BY <2>0, <2>2, InvalidateReady
  <2>3. CASE DisconnectBlocksAndReprocess
    <3>1. tip' \in Anc[tip] /\ passed' = passed
      BY <2>3, ReprocessTip, SceneFacts DEF DisconnectBlocksAndReprocess, history
    <3> QED BY <2>0, <3>1, AncTransitive
  <2>4. ASSUME UNCHANGED <<tip, passed>> PROVE Anc[tip'] \subseteq passed'
    BY <2>0, <2>4
  <2> QED BY <2>1, <2>2, <2>3, <2>4
          DEF Next, vars, AcceptBlockHeader, ContextualCheckFails, ProcessNewBlock,
              RejectLocked, RpcReconsiderBlock, ReprocessBlocks, ReprocessOne, LockChanges,
              Damage, history
<1> SUFFICES ASSUME odd' = {} PROVE Kept
  BY <1>a DEF CandidatesInv
<1>1. ASSUME NEW b \in Block, InvalidateBlock(b) PROVE Kept
  <2>1. pending'
    BY <1>1 DEF InvalidateBlock
  <2> QED BY <1>1, <2>1, InvalidateReady DEF CandidatesInv, Idle
<1>2. CASE \A b \in Block : ~InvalidateBlock(b)
  <2>0. odd = {} /\ Caused /\ (Idle => Done)
    BY <1>2, OddNext DEF CauseInv, Calm, CandidatesInv
  <2>a. PICK r \in candidates : Ready(r)
    BY <2>0 DEF CandidatesInv
  <2>1. ASSUME UNCHANGED <<chainTx, nSequenceId, failedValid, failedChild, candidates, passed>>,
               pending' \/ replay' # None \/ (Idle /\ tip' = tip)
        PROVE  Kept
    <3>1. Ready(r)'
      BY <2>1, <2>a DEF Ready, Sound, Failed, Better
    <3>2. ASSUME Idle' PROVE Done'
      BY <2>0, <2>1, <3>2 DEF Idle, Done, NotInvalid, Better
    <3> QED BY <2>1, <3>1, <3>2
  <2>2. ASSUME NEW b \in Block, ContextualCheckFails(b) PROVE Kept
    <3>1. /\ b \notin data /\ failedValid' = failedValid \cup {b}
          /\ UNCHANGED <<chainTx, nSequenceId, failedChild, candidates, tip, pending, replay, passed>>
      BY <2>2 DEF ContextualCheckFails, locks, history
    <3>2. b \notin passed
      BY <3>1 DEF Structure, TypeOK
    <3>3. Ready(r)'
      BY <2>a, <3>1, <3>2 DEF Ready, Sound, Failed, Better
    <3>4. Idle' => Done'
      BY <2>0, <3>1 DEF Idle, Done, NotInvalid, Better
    <3> QED BY <3>1, <3>3, <3>4, <2>a
  <2>3. ASSUME NEW b \in Block, ProcessNewBlock(b) PROVE Kept
    <3>1. pending'
      BY <2>3 DEF ProcessNewBlock
    <3> QED BY <2>3, <2>a, <3>1, NewBlockReady DEF Idle
  <2>4. CASE ActivateBestChain
    BY <2>0, <2>4, <2>a, ActivateReady DEF Idle
  <2>5. ASSUME NEW b \in Block, ReconsiderBlock(b), NoteReconsidered(b),
               UNCHANGED <<tree, tip, passed>>, pending' \/ replay' # None
        PROVE  Kept
    <3>1. Anc[b] \cap Failed \subseteq {b}
      BY <2>5 DEF NoteReconsidered
    <3> QED BY <2>0, <2>5, <2>a, <3>1, ReconsiderReady DEF Idle
  <2>6. ASSUME NEW b \in Block, RpcReconsiderBlock(b) PROVE Kept
    BY <2>5, <2>6 DEF RpcReconsiderBlock
  <2>7. ASSUME NEW b \in scene.lockable, ReprocessOne(b) PROVE Kept
    <3>1. b \in Block /\ replay' # None
      <4>1. replay \in SUBSET scene.lockable /\ replay' = replay \ {b} /\ replay' \in SUBSET Block
        BY <2>7, SceneFacts DEF ReprocessOne, Structure, TypeOK
      <4> QED BY <4>1, SceneFacts, NoneAssumption
    <3>2. CASE b \in rejected \cap index
      BY <2>5, <2>7, <3>1, <3>2 DEF ReprocessOne
    <3>3. CASE b \notin rejected \cap index
      BY <2>1, <2>7, <3>1, <3>3 DEF ReprocessOne, tree
    <3> QED BY <3>2, <3>3
  <2>8. CASE DisconnectBlocksAndReprocess
    BY <2>1, <2>8 DEF DisconnectBlocksAndReprocess, tree, history
  <2>9. ASSUME NEW recent \in SUBSET scene.lockable, ReprocessBlocks(recent) PROVE Kept
    BY <2>1, <2>9, SceneFacts, NoneAssumption DEF ReprocessBlocks, tree, history
  <2>10. CASE \/ \E b \in Block : AcceptBlockHeader(b) \/ RejectLocked(b)
              \/ \E b \in scene.lockable : LockChanges(b)
              \/ \E b \in scene.fragile : Damage(b)
              \/ UNCHANGED vars
    <3>1. UNCHANGED <<chainTx, nSequenceId, failedValid, failedChild, candidates, tip, pending,
                      passed, replay>>
      BY <2>10 DEF AcceptBlockHeader, RejectLocked, LockChanges, Damage, vars, tree, locks, history
    <3> QED BY <2>1, <3>1 DEF Idle
  <2> QED BY <1>2, <2>2, <2>3, <2>4, <2>6, <2>7, <2>8, <2>9, <2>10 DEF Next
<1> QED BY <1>1, <1>2

CandidatesIInv == SceneOK /\ Structure /\ CauseInv /\ CandidatesInv

LEMMA CandidatesIInvHolds ==
  /\ Init => CandidatesIInv
  /\ CandidatesIInv /\ [Next]_vars => CandidatesIInv'
  /\ CandidatesIInv => CandidatesComplete /\ BestChainActive
<1>1. Init => CandidatesIInv
  BY SceneInit, InitStructure, CauseInit, CandidatesInit DEF CandidatesIInv
<1>2. CandidatesIInv /\ [Next]_vars => CandidatesIInv'
  BY SceneNext, StructureNext, CauseNext, CandidatesNext DEF CandidatesIInv
<1>3. ASSUME CandidatesIInv, Idle, odd = {} PROVE AllCandidates /\ BestActive
  <2>1. Done /\ Ids /\ tip \in Block
    BY <1>3, StructureFacts DEF CandidatesIInv, CandidatesInv
  <2>2. AllCandidates
    BY <2>1 DEF Done, AllCandidates
  <2>3. ASSUME NEW b \in Block, NotInvalid(b) PROVE ~Better(b, tip)
    <3>1. b = tip \/ Better(tip, b)
      BY <2>1, <2>3 DEF Done, NotInvalid
    <3> QED BY <2>1, <3>1, BetterOrder
  <2> QED BY <2>2, <2>3 DEF BestActive
<1> QED BY <1>1, <1>2, <1>3 DEF CandidatesComplete, BestChainActive

(* Once no activation is under way, every block that is not invalid and as *)
(* good as the tip is a candidate, through failed reorganisations, damaged *)
(* blocks, commands, locks and replays.  The exceptions are in the         *)
(* statement: a lock that refused a block which had been active, and a     *)
(* block that was reconsidered above a failed one.                         *)
THEOREM ChainStateCandidatesComplete == Spec => []CandidatesComplete
  BY CandidatesIInvHolds, PTL DEF Spec

(* Once no activation is under way, no linked chain that is not known to   *)
(* be invalid sorts above the active one: refused and damaged blocks,      *)
(* failed reorganisations, pruned candidates, replays and the operator's   *)
(* commands do not make the node lose the best chain, with the same two    *)
(* exceptions.                                                             *)
THEOREM ChainStateBestChainActive == Spec => []BestChainActive
  BY CandidatesIInvHolds, PTL DEF Spec

=============================================================================
