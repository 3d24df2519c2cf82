--------------------------- MODULE Mempool_proofs ---------------------------
(* Proofs about Mempool for any transactions, peers, limits and chains.    *)
EXTENDS Mempool, FiniteSetTheorems, SequenceTheorems, TLAPS

-----------------------------------------------------------------------------
(* The index of spenders *)

(* nx holds exactly the inputs of the transactions in p.                   *)
Exact(nx, p) ==
  /\ nx \in [Outpoint -> Tx \cup {None}] /\ p \subseteq Tx
  /\ \A o \in Outpoint, t \in Tx : nx[o] = t <=> (t \in p /\ o \in Inputs[t])

LEMMA UnspendExact ==
  ASSUME NEW nx, NEW p, Exact(nx, p), NEW gone \in SUBSET p
  PROVE  Exact(Unspend(nx, gone), p \ gone)
<1>1. None \notin Tx
  BY MempoolAssumption
<1>2. Unspend(nx, gone) \in [Outpoint -> Tx \cup {None}]
  BY DEF Unspend, Exact
<1>3. ASSUME NEW o \in Outpoint, NEW t \in Tx
      PROVE  Unspend(nx, gone)[o] = t <=> (t \in p \ gone /\ o \in Inputs[t])
  <2>1. nx[o] = t <=> (t \in p /\ o \in Inputs[t])
    BY DEF Exact
  <2>2. CASE \E u \in gone : o \in Inputs[u]
    <3>1. PICK u \in gone : o \in Inputs[u]
      BY <2>2
    <3>2. nx[o] = u /\ u \in Tx
      BY <3>1 DEF Exact
    <3>3. Unspend(nx, gone)[o] = None
      BY <2>2 DEF Unspend
    <3> QED BY <1>1, <2>1, <3>1, <3>2, <3>3
  <2>3. CASE ~\E u \in gone : o \in Inputs[u]
    <3>1. Unspend(nx, gone)[o] = nx[o]
      BY <2>3 DEF Unspend
    <3> QED BY <2>1, <2>3, <3>1
  <2> QED BY <2>2, <2>3
<1> QED BY <1>2, <1>3 DEF Exact

(* What remove takes with it: with a transaction everything in the pool    *)
(* that spends an output of it.                                            *)
LEMMA FamilyClosed ==
  ASSUME NEW nx, NEW p, Exact(nx, p), NEW from \in SUBSET p
  PROVE  /\ Family(p, nx, from) \subseteq p /\ from \subseteq Family(p, nx, from)
         /\ \A u \in p : \A o \in Inputs[u] :
              Creator[o] \in Family(p, nx, from) => u \in Family(p, nx, from)
<1>1. Family(p, nx, from) \subseteq p /\ from \subseteq Family(p, nx, from)
  BY DEF Family
<1>2. ASSUME NEW u \in p, NEW o \in Inputs[u], Creator[o] \in Family(p, nx, from)
      PROVE  u \in Family(p, nx, from)
  <2>1. u \in Tx /\ o \in Outpoint /\ u # None
    BY MempoolAssumption DEF Exact
  <2>2. nx[o] = u /\ o \in Outs(Creator[o])
    BY <2>1 DEF Exact, Outs
  <2>3. ASSUME NEW C \in SUBSET p, from \subseteq C, Closed(nx, C) PROVE u \in C
    <3>1. Creator[o] \in C
      BY <1>2, <2>3 DEF Family
    <3> QED BY <2>1, <2>2, <2>3, <3>1 DEF Closed
  <2> QED BY <2>3 DEF Family
<1> QED BY <1>1, <1>2

LEMMA ExactIndexed ==
  TypeOK => (SpendersIndexed <=> Exact(nextTx, pool))
  BY DEF TypeOK, SpendersIndexed, Exact

(* addUnchecked, remove and removeForBlock keep the index exact; what is   *)
(* left of the pool after a removal has lost no parent in the pool.        *)
LEMMA AddExact ==
  ASSUME Exact(nextTx, pool), NEW t \in Tx, NewToPool(t), AddUnchecked(t)
  PROVE  Exact(nextTx', pool') /\ pool' = pool \cup {t}
<1>1. /\ pool' = pool \cup {t} /\ None \notin Tx
      /\ nextTx' = [o \in Outpoint |-> IF o \in Inputs[t] THEN t ELSE nextTx[o]]
  BY MempoolAssumption DEF AddUnchecked
<1>2. \A o \in Inputs[t] : nextTx[o] = None
  BY DEF NewToPool
<1>3. nextTx' \in [Outpoint -> Tx \cup {None}] /\ pool' \subseteq Tx
  BY <1>1 DEF Exact
<1>4. ASSUME NEW o \in Outpoint, NEW u \in Tx
      PROVE  nextTx'[o] = u <=> (u \in pool' /\ o \in Inputs[u])
  <2>1. nextTx[o] = u <=> (u \in pool /\ o \in Inputs[u])
    BY DEF Exact
  <2>2. nextTx'[o] = IF o \in Inputs[t] THEN t ELSE nextTx[o]
    BY <1>1
  <2> QED BY <1>1, <1>2, <2>1, <2>2
<1> QED BY <1>1, <1>3, <1>4 DEF Exact

LEMMA RemoveExact ==
  ASSUME Exact(nextTx, pool), NEW from \in SUBSET pool, Remove(from)
  PROVE  /\ Exact(nextTx', pool') /\ pool' \subseteq pool \ from
         /\ \A u \in pool' : \A o \in Inputs[u] : Creator[o] \in pool => Creator[o] \in pool'
<1> DEFINE gone == Family(pool, nextTx, from)
<1>1. pool' = pool \ gone /\ nextTx' = Unspend(nextTx, gone)
  BY DEF Remove
<1>2. /\ gone \subseteq pool /\ from \subseteq gone
      /\ \A u \in pool : \A o \in Inputs[u] : Creator[o] \in gone => u \in gone
  BY FamilyClosed
<1> HIDE DEF gone
<1>3. Exact(nextTx', pool')
  BY <1>1, <1>2, UnspendExact
<1> QED BY <1>1, <1>2, <1>3

LEMMA RemoveForBlockExact ==
  ASSUME Exact(nextTx, pool), NEW t \in Tx, RemoveForBlock(t)
  PROVE  /\ Exact(nextTx', pool') /\ pool' \subseteq pool \ {t}
         /\ \A u \in pool' : \A o \in Inputs[u] :
              /\ Creator[o] \in pool => Creator[o] \in pool' \cup {t}
              /\ o \notin Inputs[t]
<1> DEFINE p == pool \ {t}
           nx == IF t \in pool THEN Unspend(nextTx, {t}) ELSE nextTx
           from == {nx[o] : o \in Inputs[t]} \ {None}
           gone == Family(p, nx, from)
<1>1. pool' = p \ gone /\ nextTx' = Unspend(nx, gone)
  BY DEF RemoveForBlock
<1>2. Exact(nx, p)
  <2>1. CASE t \in pool
    BY <2>1, UnspendExact
  <2>2. CASE t \notin pool
    <3>1. p = pool /\ nx = nextTx
      BY <2>2
    <3> QED BY <3>1
  <2> QED BY <2>1, <2>2
<1>3. from \in SUBSET p
  <2>1. Inputs[t] \subseteq Outpoint
    BY MempoolAssumption
  <2> HIDE DEF nx, p
  <2>2. \A o \in Inputs[t] : nx[o] # None => nx[o] \in p
    BY <1>2, <2>1 DEF Exact
  <2> QED BY <2>2
<1>a. p \subseteq pool /\ t \notin p /\ p \cup {t} = pool \cup {t}
  OBVIOUS
<1>4. ASSUME NEW u \in p, NEW o \in Inputs[u], o \in Inputs[t] PROVE u \in from
  <2>1. u \in Tx /\ o \in Outpoint /\ u # None /\ u # t /\ u \in pool
    BY MempoolAssumption DEF Exact
  <2>2. nextTx[o] = u
    BY <2>1 DEF Exact
  <2>3. t \notin pool
    BY <1>4, <2>1, <2>2 DEF Exact
  <2> QED BY <1>4, <2>1, <2>2, <2>3
<1> HIDE DEF p, nx, from
<1>5. /\ gone \subseteq p /\ from \subseteq gone
      /\ \A u \in p : \A o \in Inputs[u] : Creator[o] \in gone => u \in gone
  BY <1>2, <1>3, FamilyClosed
<1> HIDE DEF gone
<1>6. Exact(nextTx', pool')
  BY <1>1, <1>2, <1>5, UnspendExact
<1> QED BY <1>1, <1>4, <1>5, <1>6, <1>a

LEMMA RootsIn ==
  ASSUME Exact(nextTx, pool), NEW t \in Tx PROVE Roots(t) \in SUBSET pool
<1>1. \A o \in Outpoint : nextTx[o] # None => nextTx[o] \in pool
  BY DEF Exact
<1> QED BY <1>1 DEF Roots, Outs

-----------------------------------------------------------------------------
(* The index of orphans *)

(* The orphans orph, finitely many, each indexed in prev under its parents.*)
Indexed(orph, prev) ==
  /\ orph \in [Tx -> Peer \cup {None}] /\ prev \in [Tx \cup Old -> SUBSET Tx]
  /\ IsFiniteSet(Kept(orph))
  /\ \A x \in Tx \cup Old :
       prev[x] = {t \in Kept(orph) : \E o \in Inputs[t] : Creator[o] = x}

LEMMA EraseIndexed ==
  ASSUME NEW orph, NEW prev, Indexed(orph, prev), NEW gone, EraseOrphanTx(orph, prev, gone)
  PROVE  /\ Indexed(orphans', byPrev') /\ Kept(orphans') = Kept(orph) \ gone
         /\ \A t \in Tx \ gone : orphans'[t] = orph[t]
<1>1. /\ orphans' = [t \in Tx |-> IF t \in gone THEN None ELSE orph[t]]
      /\ byPrev' = [x \in Tx \cup Old |-> prev[x] \ gone]
  BY DEF EraseOrphanTx
<1>2. /\ orphans' \in [Tx -> Peer \cup {None}] /\ byPrev' \in [Tx \cup Old -> SUBSET Tx]
      /\ \A t \in Tx \ gone : orphans'[t] = orph[t]
  BY <1>1 DEF Indexed
<1>3. Kept(orphans') = Kept(orph) \ gone
  BY <1>1 DEF Kept
<1>4. IsFiniteSet(Kept(orphans'))
  BY <1>3, FS_Subset DEF Indexed
<1>5. ASSUME NEW x \in Tx \cup Old
      PROVE  byPrev'[x] = {t \in Kept(orphans') : \E o \in Inputs[t] : Creator[o] = x}
  <2>1. byPrev'[x] = prev[x] \ gone
    BY <1>1
  <2>2. prev[x] = {t \in Kept(orph) : \E o \in Inputs[t] : Creator[o] = x}
    BY DEF Indexed
  <2> QED BY <1>3, <2>1, <2>2
<1> QED BY <1>2, <1>3, <1>4, <1>5 DEF Indexed

LEMMA AddOrphanIndexed ==
  ASSUME Indexed(orphans, byPrev), Cardinality(Kept(orphans)) <= MAX_ORPHAN,
         NEW t \in Tx, NEW p \in Peer, AddOrphanTx(t, p)
  PROVE  Indexed(orphans', byPrev') /\ Cardinality(Kept(orphans')) <= MAX_ORPHAN
<1> DEFINE orph == IF orphans[t] = None THEN [orphans EXCEPT ![t] = p] ELSE orphans
           prev == [x \in Tx \cup Old |->
             IF \E o \in Inputs[t] : Creator[o] = x THEN byPrev[x] \cup {t} ELSE byPrev[x]]
           evicted == IF Cardinality(Kept(orph)) > MAX_ORPHAN
                      THEN {{e} : e \in Kept(orph)} ELSE {{}}
<1>1. PICK gone \in evicted : EraseOrphanTx(orph, prev, gone)
  BY DEF AddOrphanTx
<1>2. orph \in [Tx -> Peer \cup {None}] /\ prev \in [Tx \cup Old -> SUBSET Tx]
  BY DEF Indexed
<1>3. Kept(orph) = Kept(orphans) \cup {t}
  <2>1. p # None
    BY MempoolAssumption
  <2> QED BY <2>1 DEF Kept, Indexed
<1>4. /\ IsFiniteSet(Kept(orphans)) /\ IsFiniteSet(Kept(orph))
      /\ Cardinality(Kept(orph)) \in Nat /\ Cardinality(Kept(orphans)) \in Nat
      /\ Cardinality(Kept(orph)) <= Cardinality(Kept(orphans)) + 1
  <2> HIDE DEF orph
  <2>1. IsFiniteSet(Kept(orphans))
    BY DEF Indexed
  <2>2. /\ IsFiniteSet(Kept(orphans) \cup {t})
        /\ Cardinality(Kept(orphans) \cup {t}) =
             IF t \in Kept(orphans) THEN Cardinality(Kept(orphans)) ELSE Cardinality(Kept(orphans)) + 1
    BY <2>1, FS_AddElement
  <2>3. Cardinality(Kept(orphans)) \in Nat
    BY <2>1, FS_CardinalityType
  <2> QED BY <1>3, <2>1, <2>2, <2>3
<1>5. ASSUME NEW x \in Tx \cup Old
      PROVE  prev[x] = {u \in Kept(orph) : \E o \in Inputs[u] : Creator[o] = x}
  <2>1. prev[x] = IF \E o \in Inputs[t] : Creator[o] = x THEN byPrev[x] \cup {t} ELSE byPrev[x]
    OBVIOUS
  <2>2. byPrev[x] = {u \in Kept(orphans) : \E o \in Inputs[u] : Creator[o] = x}
    BY DEF Indexed
  <2> HIDE DEF prev, orph
  <2> QED BY <1>3, <2>1, <2>2
<1> HIDE DEF orph, prev
<1>6. Indexed(orph, prev)
  BY <1>2, <1>4, <1>5 DEF Indexed
<1>7. Indexed(orphans', byPrev') /\ Kept(orphans') = Kept(orph) \ gone
  BY <1>1, <1>6, EraseIndexed
<1>8. Cardinality(Kept(orph) \ gone) <= MAX_ORPHAN
  <2>0. MAX_ORPHAN \in Nat
    BY MempoolAssumption
  <2>1. CASE Cardinality(Kept(orph)) > MAX_ORPHAN
    <3>1. PICK e \in Kept(orph) : gone = {e}
      BY <1>1, <2>1
    <3>2. Cardinality(Kept(orph) \ {e}) = Cardinality(Kept(orph)) - 1
      BY <1>4, FS_RemoveElement
    <3> QED BY <1>4, <2>0, <3>1, <3>2
  <2>2. CASE ~(Cardinality(Kept(orph)) > MAX_ORPHAN)
    <3>1. gone = {}
      BY <1>1, <2>2
    <3>2. Kept(orph) \ gone = Kept(orph)
      BY <3>1
    <3> QED BY <1>4, <2>0, <2>2, <3>2
  <2> QED BY <2>1, <2>2
<1> QED BY <1>7, <1>8

-----------------------------------------------------------------------------
(* Both indexes through every step *)

(* The place of the running loop: the loop over orphans is at an entry of  *)
(* its queue and only has orphans to try.                                  *)
LoopOK ==
  /\ chain \in Seq(SUBSET Tx) /\ op \in Ops /\ todo \subseteq Tx
  /\ queue \in Seq(Tx) /\ at \in Nat /\ erase \subseteq Tx /\ bad \subseteq Peer
  /\ op = "orphans" => todo \subseteq Kept(orphans) /\ at \in 1 .. Len(queue)

OrphansOK == Indexed(orphans, byPrev) /\ Cardinality(Kept(orphans)) <= MAX_ORPHAN

IndexInv == LoopOK /\ Exact(nextTx, pool) /\ OrphansOK

LEMMA IndexInvMeans == IndexInv => TypeOK /\ IndexesExact
  BY DEF IndexInv, LoopOK, OrphansOK, Exact, Indexed, TypeOK, IndexesExact,
         SpendersIndexed, OrphansIndexed

LEMMA IndexInit == Init => IndexInv
<1> SUFFICES ASSUME Init PROVE IndexInv
  OBVIOUS
<1>1. LoopOK
  BY DEF Init, LoopOK, Ops
<1>2. Exact(nextTx, pool)
  BY MempoolAssumption DEF Init, Exact
<1>3. Kept(orphans) = {}
  BY DEF Init, Kept
<1>4. IsFiniteSet(Kept(orphans)) /\ Cardinality(Kept(orphans)) <= MAX_ORPHAN
  BY <1>3, FS_EmptySet, MempoolAssumption
<1>5. Indexed(orphans, byPrev)
  BY <1>3, <1>4 DEF Init, Indexed
<1> QED BY <1>1, <1>2, <1>4, <1>5 DEF IndexInv, OrphansOK

(* The children of any transaction among the orphans are orphans.          *)
LEMMA ChildrenKept ==
  ASSUME OrphansOK, NEW x \in Tx \cup Old PROVE byPrev[x] \subseteq Kept(orphans)
  BY DEF OrphansOK, Indexed

LEMMA StoreUnchanged ==
  ASSUME OrphansOK, UNCHANGED store
  PROVE  OrphansOK' /\ Kept(orphans') = Kept(orphans)
  BY DEF OrphansOK, store, Indexed, Kept

LEMMA PoolUnchanged ==
  ASSUME Exact(nextTx, pool), UNCHANGED <<pool, nextTx>> PROVE Exact(nextTx', pool')
  BY DEF Exact

LEMMA IndexNext == IndexInv /\ [Next]_vars => IndexInv'
<1> SUFFICES ASSUME IndexInv, [Next]_vars PROVE IndexInv'
  OBVIOUS
<1>0. LoopOK /\ Exact(nextTx, pool) /\ OrphansOK /\ Indexed(orphans, byPrev)
  BY DEF IndexInv, OrphansOK
<1>k. Kept(orphans) \subseteq Tx
  BY DEF Kept
<1>1. ASSUME NEW t \in Tx, TakeTx(t) PROVE IndexInv'
  <2>1. Exact(nextTx', pool')
    BY <1>0, <1>1, AddExact DEF TakeTx, Acceptable
  <2>2. OrphansOK' /\ Kept(orphans') = Kept(orphans)
    BY <1>0, <1>1, StoreUnchanged DEF TakeTx
  <2>3. byPrev[t] \subseteq Kept(orphans)
    BY <1>0, ChildrenKept
  <2>4. LoopOK'
    BY <1>0, <1>1, <1>k, <2>2, <2>3 DEF TakeTx, LoopOK, Ops
  <2> QED BY <2>1, <2>2, <2>4 DEF IndexInv
<1>2. ASSUME NEW t \in Tx, AcceptLocal(t) PROVE IndexInv'
  <2>1. Exact(nextTx', pool')
    BY <1>0, <1>2, AddExact DEF AcceptLocal, Acceptable
  <2>2. OrphansOK' /\ Kept(orphans') = Kept(orphans)
    BY <1>0, <1>2, StoreUnchanged DEF AcceptLocal
  <2>3. LoopOK'
    BY <1>0, <1>2, <2>2 DEF AcceptLocal, LoopOK, loop
  <2> QED BY <2>1, <2>2, <2>3 DEF IndexInv
<1>3. ASSUME NEW t \in Tx, NEW p \in Peer, TakeOrphan(t, p) PROVE IndexInv'
  <2>1. Exact(nextTx', pool')
    BY <1>0, <1>3, PoolUnchanged DEF TakeOrphan
  <2>2. OrphansOK'
    BY <1>0, <1>3, AddOrphanIndexed DEF TakeOrphan, OrphansOK
  <2>3. LoopOK'
    BY <1>0, <1>3 DEF TakeOrphan, LoopOK, loop
  <2> QED BY <2>1, <2>2, <2>3 DEF IndexInv
<1>4. ASSUME NEW u \in Tx, TryOrphan(u) PROVE IndexInv'
  <2>1. Exact(nextTx', pool')
    BY <1>0, <1>4, AddExact, PoolUnchanged DEF TryOrphan, Acceptable
  <2>2. OrphansOK' /\ Kept(orphans') = Kept(orphans)
    BY <1>0, <1>4, StoreUnchanged DEF TryOrphan
  <2>3. /\ op = "orphans" /\ op' = op /\ chain' = chain /\ at' = at
        /\ todo' = todo \ {u} /\ u \in todo /\ UNCHANGED orphans
    BY <1>4 DEF TryOrphan, store
  <2>4. orphans[u] \in Peer
    BY <1>0, <2>3 DEF LoopOK, Kept, Indexed
  <2>5. (queue' = queue \/ queue' = Append(queue, u)) /\ erase' \subseteq erase \cup {u}
    BY <1>4 DEF TryOrphan
  <2>6. bad' = bad \/ bad' = bad \cup {orphans[u]}
    BY <1>4 DEF TryOrphan
  <2>7. queue' \in Seq(Tx) /\ Len(queue') >= Len(queue) /\ Len(queue) \in Nat /\ Len(queue') \in Nat
    BY <1>0, <2>5 DEF LoopOK
  <2>8. LoopOK'
    BY <1>0, <2>2, <2>3, <2>4, <2>5, <2>6, <2>7 DEF LoopOK
  <2> QED BY <2>1, <2>2, <2>8 DEF IndexInv
<1>5. CASE NextParent
  <2>1. Exact(nextTx', pool')
    BY <1>0, <1>5, PoolUnchanged DEF NextParent
  <2>2. OrphansOK' /\ Kept(orphans') = Kept(orphans)
    BY <1>0, <1>5, StoreUnchanged DEF NextParent
  <2>3. queue[at + 1] \in Tx
    BY <1>0, <1>5 DEF NextParent, LoopOK
  <2>4. byPrev[queue[at + 1]] \subseteq Kept(orphans)
    BY <1>0, <2>3, ChildrenKept
  <2>5. LoopOK'
    BY <1>0, <1>5, <1>k, <2>2, <2>4 DEF NextParent, LoopOK
  <2> QED BY <2>1, <2>2, <2>5 DEF IndexInv
<1>6. CASE EndOrphans
  <2>1. Exact(nextTx', pool')
    BY <1>0, <1>6, PoolUnchanged DEF EndOrphans
  <2>2. Indexed(orphans', byPrev') /\ Kept(orphans') = Kept(orphans) \ erase
    BY <1>0, <1>6, EraseIndexed DEF EndOrphans
  <2>3. OrphansOK'
    <3>1. IsFiniteSet(Kept(orphans)) /\ Cardinality(Kept(orphans)) <= MAX_ORPHAN
      BY <1>0 DEF OrphansOK, Indexed
    <3>2. Cardinality(Kept(orphans')) <= Cardinality(Kept(orphans)) /\ IsFiniteSet(Kept(orphans'))
      BY <2>2, <3>1, FS_Subset
    <3>3. /\ Cardinality(Kept(orphans)) \in Nat /\ Cardinality(Kept(orphans')) \in Nat
          /\ MAX_ORPHAN \in Nat
      BY <3>1, <3>2, FS_CardinalityType, MempoolAssumption
    <3> QED BY <2>2, <3>1, <3>2, <3>3 DEF OrphansOK
  <2>4. LoopOK'
    BY <1>0, <1>6 DEF EndOrphans, LoopOK, Ops
  <2> QED BY <2>1, <2>3, <2>4 DEF IndexInv
<1>7. ASSUME NEW p \in Peer, EraseOrphansFor(p) PROVE IndexInv'
  <2>1. Exact(nextTx', pool')
    BY <1>0, <1>7, PoolUnchanged DEF EraseOrphansFor
  <2>2. /\ Indexed(orphans', byPrev')
        /\ Kept(orphans') = Kept(orphans) \ {t \in Tx : orphans[t] = p}
    BY <1>0, <1>7, EraseIndexed DEF EraseOrphansFor
  <2>3. OrphansOK'
    <3>1. IsFiniteSet(Kept(orphans)) /\ Cardinality(Kept(orphans)) <= MAX_ORPHAN
      BY <1>0 DEF OrphansOK, Indexed
    <3>2. Cardinality(Kept(orphans')) <= Cardinality(Kept(orphans)) /\ IsFiniteSet(Kept(orphans'))
      BY <2>2, <3>1, FS_Subset
    <3>3. /\ Cardinality(Kept(orphans)) \in Nat /\ Cardinality(Kept(orphans')) \in Nat
          /\ MAX_ORPHAN \in Nat
      BY <3>1, <3>2, FS_CardinalityType, MempoolAssumption
    <3> QED BY <2>2, <3>1, <3>2, <3>3 DEF OrphansOK
  <2>4. LoopOK'
    BY <1>0, <1>7 DEF EraseOrphansFor, LoopOK, loop
  <2> QED BY <2>1, <2>3, <2>4 DEF IndexInv
<1>8. ASSUME NEW b \in SUBSET Tx, ConnectTip(b) PROVE IndexInv'
  <2>1. Exact(nextTx', pool')
    BY <1>0, <1>8, PoolUnchanged DEF ConnectTip
  <2>2. OrphansOK'
    BY <1>0, <1>8, StoreUnchanged DEF ConnectTip
  <2>3. LoopOK'
    BY <1>0, <1>8 DEF ConnectTip, LoopOK, Ops
  <2> QED BY <2>1, <2>2, <2>3 DEF IndexInv
<1>9. ASSUME NEW t \in Tx, RemoveForBlock(t) PROVE IndexInv'
  <2>1. Exact(nextTx', pool')
    BY <1>0, <1>9, RemoveForBlockExact
  <2>2. OrphansOK'
    BY <1>0, <1>9, StoreUnchanged DEF RemoveForBlock
  <2>3. LoopOK'
    <3>1. op = "connect" /\ todo' = todo \ {t} /\ UNCHANGED <<chain, op, queue, at, erase, bad>>
      BY <1>9 DEF RemoveForBlock
    <3> QED BY <1>0, <3>1 DEF LoopOK
  <2> QED BY <2>1, <2>2, <2>3 DEF IndexInv
<1>10. ASSUME NEW t \in Tx, Resurrect(t) PROVE IndexInv'
  <2>1. Exact(nextTx', pool')
    <3>1. CASE Acceptable(t) /\ AddUnchecked(t)
      BY <1>0, <3>1, AddExact DEF Acceptable
    <3>2. CASE Remove(Roots(t))
      BY <1>0, <3>2, RootsIn, RemoveExact
    <3> QED BY <1>10, <3>1, <3>2 DEF Resurrect
  <2>2. OrphansOK'
    BY <1>0, <1>10, StoreUnchanged DEF Resurrect
  <2>3. LoopOK'
    BY <1>0, <1>10 DEF Resurrect, LoopOK
  <2> QED BY <2>1, <2>2, <2>3 DEF IndexInv
<1>11. CASE ConnectDone
  <2>1. Exact(nextTx', pool')
    BY <1>0, <1>11, PoolUnchanged DEF ConnectDone
  <2>2. OrphansOK'
    BY <1>0, <1>11, StoreUnchanged DEF ConnectDone
  <2>3. LoopOK'
    BY <1>0, <1>11 DEF ConnectDone, LoopOK, Ops
  <2> QED BY <2>1, <2>2, <2>3 DEF IndexInv
<1>12. CASE DisconnectTip
  <2>1. Exact(nextTx', pool')
    BY <1>0, <1>12, PoolUnchanged DEF DisconnectTip
  <2>2. OrphansOK'
    BY <1>0, <1>12, StoreUnchanged DEF DisconnectTip
  <2>3. LoopOK'
    BY <1>0, <1>12 DEF DisconnectTip, LoopOK, Ops
  <2> QED BY <2>1, <2>2, <2>3 DEF IndexInv
<1>13. CASE RemoveCoinbaseSpends
  <2>1. Exact(nextTx', pool')
    <3>1. Spoiled \in SUBSET pool
      BY DEF Spoiled
    <3> QED BY <1>0, <1>13, <3>1, RemoveExact DEF RemoveCoinbaseSpends
  <2>2. OrphansOK'
    BY <1>0, <1>13, StoreUnchanged DEF RemoveCoinbaseSpends
  <2>3. LoopOK'
    BY <1>0, <1>13 DEF RemoveCoinbaseSpends, LoopOK, Ops
  <2> QED BY <2>1, <2>2, <2>3 DEF IndexInv
<1>14. CASE UNCHANGED vars
  BY <1>0, <1>14, PoolUnchanged, StoreUnchanged DEF vars, loop, store, IndexInv, LoopOK
<1> QED BY <1>1, <1>2, <1>3, <1>4, <1>5, <1>6, <1>7, <1>8, <1>9, <1>10, <1>11, <1>12, <1>13,
           <1>14 DEF Next

LEMMA IndexAlways == Spec => []IndexInv
  BY IndexInit, IndexNext, PTL DEF Spec

(* Every variable keeps its type: only transactions in the pool, the       *)
(* indexes and the queues, only peers among the punished.                  *)
THEOREM MempoolTypeOK == Spec => []TypeOK
  BY IndexAlways, IndexInvMeans, PTL

(* mapNextTx holds exactly the inputs of the pool and the index of orphans *)
(* exactly the orphans under their parents, within the limit, after every  *)
(* step: also inside the loops of connecting, disconnecting and orphans.   *)
THEOREM MempoolIndexesExact == Spec => []IndexesExact
  BY IndexAlways, IndexInvMeans, PTL

-----------------------------------------------------------------------------
(* The pool as a block on top of the chain *)

(* Every transaction of the chain comes with or after those it spends.     *)
ChainOK(c) ==
  \A i \in 1 .. Len(c) : \A t \in c[i] : \A o \in Inputs[t] :
    Creator[o] \in Old \/ \E j \in 1 .. i : Creator[o] \in c[j]

(* The transactions of the new tip that removeForBlock has not reached.    *)
Confirming == IF op = "connect" THEN todo ELSE {}

(* Apart from those, p holds nothing confirmed or spent by the chain c.    *)
Unspent(c, p, left) ==
  /\ p \cap Confirmed(c) \subseteq left /\ left \subseteq Confirmed(c)
  /\ p \cap Coinbase = {}
  /\ \A u \in p : \A o \in Inputs[u] : \A t \in Confirmed(c) \ left : o \notin Inputs[t]

(* What p spends exists, in the chain or in p, and is mature.              *)
Filled(c, p) ==
  \A u \in p : \A o \in Inputs[u] :
    Creator[o] \in Old \cup Confirmed(c) \cup p /\ Mature(c, o)

(* While blocks are disconnected the pool may spend what is not there.     *)
PoolInv ==
  /\ ChainOK(chain) /\ Unspent(chain, pool, Confirming)
  /\ op # "disconnect" => Filled(chain, pool)

LEMMA ConfirmedIn ==
  ASSUME NEW c \in Seq(SUBSET Tx) PROVE Confirmed(c) \subseteq Tx
  BY DEF Confirmed

LEMMA ChainOKMeans ==
  ASSUME NEW c, ChainOK(c), NEW t \in Confirmed(c), NEW o \in Inputs[t], Len(c) \in Nat
  PROVE  Creator[o] \in Old \cup Confirmed(c)
<1>1. PICK i \in 1 .. Len(c) : t \in c[i]
  BY DEF Confirmed
<1>2. CASE Creator[o] \in Old
  BY <1>2
<1>3. CASE Creator[o] \notin Old
  <2>1. PICK j \in 1 .. i : Creator[o] \in c[j]
    BY <1>1, <1>3 DEF ChainOK
  <2> QED BY <2>1 DEF Confirmed
<1> QED BY <1>2, <1>3

(* An accepted transaction is not in the chain and spends nothing that the *)
(* chain has spent.                                                        *)
LEMMA AcceptUnspent ==
  ASSUME IndexInv, PoolInv, op # "connect", NEW t \in Tx, Acceptable(t), AddUnchecked(t)
  PROVE  /\ Unspent(chain, pool', {})
         /\ op # "disconnect" => Filled(chain, pool')
<1>0. /\ LoopOK /\ pool \subseteq Tx /\ pool' = pool \cup {t} /\ t \notin Coinbase
      /\ Unspent(chain, pool, {}) /\ ChainOK(chain)
  BY DEF IndexInv, Exact, AddUnchecked, Acceptable, NewToPool, PoolInv, Confirming
<1>1. \A o \in Inputs[t] : (o \in Coins(chain) \/ Creator[o] \in pool) /\ Mature(chain, o)
  BY DEF Acceptable
<1>2. ASSUME NEW o \in Inputs[t], NEW v \in Confirmed(chain), o \in Inputs[v] PROVE FALSE
  <2>1. Creator[o] \in pool
    BY <1>1, <1>2 DEF Coins
  <2>2. Creator[o] \in Old \cup Confirmed(chain)
    <3>1. Len(chain) \in Nat
      BY <1>0 DEF LoopOK
    <3> QED BY <1>0, <1>2, <3>1, ChainOKMeans
  <2> QED BY <1>0, <2>1, <2>2, MempoolAssumption DEF Unspent
<1>3. t \notin Confirmed(chain)
  <2>1. PICK o \in Inputs[t] : TRUE
    BY <1>0, MempoolAssumption
  <2> QED BY <1>2, <2>1
<1>4. Unspent(chain, pool', {})
  BY <1>0, <1>2, <1>3 DEF Unspent
<1>5. ASSUME op # "disconnect" PROVE Filled(chain, pool')
  <2>1. Filled(chain, pool)
    BY <1>5 DEF PoolInv
  <2>2. ASSUME NEW u \in pool', NEW o \in Inputs[u]
        PROVE  Creator[o] \in Old \cup Confirmed(chain) \cup pool' /\ Mature(chain, o)
    <3>1. CASE u = t
      BY <1>0, <1>1, <3>1 DEF Coins
    <3>2. CASE u \in pool
      BY <1>0, <2>1, <3>2 DEF Filled
    <3> QED BY <1>0, <3>1, <3>2
  <2> QED BY <2>2 DEF Filled
<1> QED BY <1>4, <1>5

LEMMA AppendConfirmed ==
  ASSUME NEW c \in Seq(SUBSET Tx), NEW b \in SUBSET Tx
  PROVE  /\ Confirmed(Append(c, b)) = Confirmed(c) \cup b
         /\ Len(Append(c, b)) = Len(c) + 1 /\ Append(c, b)[Len(c) + 1] = b
         /\ \A i \in 1 .. Len(c) : Append(c, b)[i] = c[i]
<1>1. /\ Len(Append(c, b)) = Len(c) + 1 /\ Append(c, b)[Len(c) + 1] = b
      /\ \A i \in 1 .. Len(c) : Append(c, b)[i] = c[i]
      /\ Len(c) \in Nat
  OBVIOUS
<1>2. ASSUME NEW t \in Confirmed(Append(c, b)) PROVE t \in Confirmed(c) \cup b
  BY <1>1 DEF Confirmed
<1>3. ASSUME NEW t \in Confirmed(c) PROVE t \in Confirmed(Append(c, b))
  <2>1. PICK i \in 1 .. Len(c) : t \in c[i]
    BY DEF Confirmed
  <2>2. i \in 1 .. Len(Append(c, b)) /\ t \in Append(c, b)[i]
    BY <1>1, <2>1
  <2> QED BY <2>2 DEF Confirmed
<1>4. ASSUME NEW t \in b PROVE t \in Confirmed(Append(c, b))
  <2>1. Len(c) + 1 \in 1 .. Len(Append(c, b))
    BY <1>1
  <2> QED BY <1>1, <2>1 DEF Confirmed
<1> QED BY <1>1, <1>2, <1>3, <1>4

(* Connecting a block: its new coins are too young, and the pool spends    *)
(* none of them yet.                                                       *)
LEMMA ConnectPool ==
  ASSUME IndexInv, PoolInv, NEW b \in SUBSET Tx, ConnectTip(b) PROVE PoolInv'
<1>0. /\ chain \in Seq(SUBSET Tx) /\ pool \subseteq Tx /\ Len(chain) \in Nat
      /\ chain' = Append(chain, b) /\ pool' = pool /\ op' = "connect" /\ todo' = b
      /\ op = "none" /\ ValidBlock(chain, b)
  BY DEF IndexInv, LoopOK, Exact, ConnectTip
<1>1. /\ Confirmed(chain') = Confirmed(chain) \cup b
      /\ Len(chain') = Len(chain) + 1 /\ chain'[Len(chain) + 1] = b
      /\ \A i \in 1 .. Len(chain) : chain'[i] = chain[i]
  BY <1>0, AppendConfirmed
<1>2. /\ ChainOK(chain) /\ Unspent(chain, pool, {}) /\ Filled(chain, pool)
      /\ b \cap Confirmed(chain) = {}
  BY <1>0 DEF PoolInv, Confirming, ValidBlock
<1>3. ChainOK(chain')
  <2>1. ASSUME NEW i \in 1 .. Len(chain'), NEW t \in chain'[i], NEW o \in Inputs[t],
               Creator[o] \notin Old
        PROVE  \E j \in 1 .. i : Creator[o] \in chain'[j]
    <3>1. CASE i \in 1 .. Len(chain)
      <4>1. t \in chain[i]
        BY <1>1, <3>1
      <4>2. PICK j \in 1 .. i : Creator[o] \in chain[j]
        BY <1>2, <2>1, <3>1, <4>1 DEF ChainOK
      <4> QED BY <1>0, <1>1, <3>1, <4>2
    <3>2. CASE i = Len(chain) + 1
      <4>1. t \in b
        BY <1>1, <3>2
      <4>2. o \in Coins(chain) \/ Creator[o] \in b
        BY <1>0, <4>1 DEF ValidBlock
      <4>3. Creator[o] \in Confirmed(chain) \/ Creator[o] \in b
        BY <2>1, <4>2 DEF Coins
      <4>4. CASE Creator[o] \in b
        BY <1>0, <1>1, <3>2, <4>4
      <4>5. CASE Creator[o] \in Confirmed(chain)
        <5>1. PICK j \in 1 .. Len(chain) : Creator[o] \in chain[j]
          BY <4>5 DEF Confirmed
        <5> QED BY <1>0, <1>1, <3>2, <5>1
      <4> QED BY <4>3, <4>4, <4>5
    <3> QED BY <1>0, <1>1, <3>1, <3>2
  <2> QED BY <2>1 DEF ChainOK
<1>4. Unspent(chain', pool', b)
  BY <1>0, <1>1, <1>2 DEF Unspent
<1>5. ASSUME NEW u \in pool, NEW o \in Inputs[u]
      PROVE  Creator[o] \in Old \cup Confirmed(chain') \cup pool' /\ Mature(chain', o)
  <2>1. Creator[o] \in Old \cup Confirmed(chain) \cup pool /\ Mature(chain, o)
    BY <1>2 DEF Filled
  <2>2. ASSUME NEW i \in 1 .. Len(chain'), Creator[o] \in Coinbase, Creator[o] \in chain'[i]
        PROVE  Len(chain') + 1 - i >= COINBASE_MATURITY
    <3>1. Creator[o] \notin b
      BY <1>2, <2>1, <2>2, MempoolAssumption DEF Unspent
    <3>2. i \in 1 .. Len(chain) /\ Creator[o] \in chain[i]
      BY <1>0, <1>1, <2>2, <3>1
    <3>3. Len(chain) + 1 - i >= COINBASE_MATURITY
      BY <2>1, <2>2, <3>2 DEF Mature
    <3> QED BY <1>0, <1>1, <3>2, <3>3, MempoolAssumption
  <2> QED BY <1>0, <1>1, <2>1, <2>2 DEF Mature
<1>6. Filled(chain', pool')
  BY <1>0, <1>5 DEF Filled
<1>7. Confirming' = b
  BY <1>0 DEF Confirming
<1> QED BY <1>3, <1>4, <1>6, <1>7 DEF PoolInv

LEMMA DisconnectPool ==
  ASSUME IndexInv, PoolInv, DisconnectTip PROVE PoolInv'
<1>0. /\ chain \in Seq(SUBSET Tx) /\ Len(chain) \in Nat /\ Len(chain) # 0
      /\ chain' = SubSeq(chain, 1, Len(chain) - 1) /\ pool' = pool
      /\ op' = "disconnect" /\ op = "none"
  BY DEF IndexInv, LoopOK, DisconnectTip
<1>1. Len(chain') = Len(chain) - 1 /\ \A i \in 1 .. Len(chain) - 1 : chain'[i] = chain[i]
  <2>1. PICK n \in Nat : n = Len(chain) - 1
    BY <1>0
  <2>2. 1 \in Int /\ n \in Int /\ \A i \in 1 .. n : chain[i] \in SUBSET Tx
    BY <1>0, <2>1
  <2>3. /\ Len(SubSeq(chain, 1, n)) = IF 1 <= n THEN n - 1 + 1 ELSE 0
        /\ \A i \in 1 .. n - 1 + 1 : SubSeq(chain, 1, n)[i] = chain[1 + i - 1]
    BY <2>2, SubSeqProperties
  <2>4. Len(SubSeq(chain, 1, n)) = n
    BY <2>3
  <2>5. ASSUME NEW i \in 1 .. n PROVE SubSeq(chain, 1, n)[i] = chain[i]
    <3>1. i \in 1 .. n - 1 + 1 /\ 1 + i - 1 = i
      OBVIOUS
    <3> QED BY <2>3, <3>1
  <2> QED BY <1>0, <2>1, <2>4, <2>5
<1>2. Confirmed(chain') \subseteq Confirmed(chain)
  BY <1>0, <1>1 DEF Confirmed
<1>3. ChainOK(chain) /\ Unspent(chain, pool, {})
  BY <1>0 DEF PoolInv, Confirming
<1>4. ChainOK(chain')
  <2>1. ASSUME NEW i \in 1 .. Len(chain'), NEW t \in chain'[i], NEW o \in Inputs[t],
               Creator[o] \notin Old
        PROVE  \E j \in 1 .. i : Creator[o] \in chain'[j]
    <3>1. i \in 1 .. Len(chain) /\ t \in chain[i]
      BY <1>0, <1>1
    <3>2. PICK j \in 1 .. i : Creator[o] \in chain[j]
      BY <1>3, <2>1, <3>1 DEF ChainOK
    <3> QED BY <1>0, <1>1, <3>2
  <2> QED BY <2>1 DEF ChainOK
<1>5. Unspent(chain', pool', {})
  BY <1>0, <1>2, <1>3 DEF Unspent
<1> QED BY <1>0, <1>4, <1>5 DEF PoolInv, Confirming

LEMMA RemoveForBlockPool ==
  ASSUME IndexInv, PoolInv, NEW t \in Tx, RemoveForBlock(t) PROVE PoolInv'
<1>0. /\ op = "connect" /\ op' = op /\ chain' = chain /\ todo' = todo \ {t} /\ t \in todo
  BY DEF RemoveForBlock, First
<1>1. /\ pool' \subseteq pool \ {t}
      /\ \A u \in pool' : \A o \in Inputs[u] :
           /\ Creator[o] \in pool => Creator[o] \in pool' \cup {t}
           /\ o \notin Inputs[t]
  BY RemoveForBlockExact DEF IndexInv
<1>2. ChainOK(chain) /\ Unspent(chain, pool, todo) /\ Filled(chain, pool)
  BY <1>0 DEF PoolInv, Confirming
<1>3. t \in Confirmed(chain)
  BY <1>0, <1>2 DEF Unspent
<1>4. Unspent(chain, pool', todo')
  BY <1>0, <1>1, <1>2 DEF Unspent
<1>5. Filled(chain, pool')
  BY <1>1, <1>2, <1>3 DEF Filled
<1> QED BY <1>0, <1>2, <1>4, <1>5 DEF PoolInv, Confirming

LEMMA RemoveCoinbaseSpendsPool ==
  ASSUME IndexInv, PoolInv, RemoveCoinbaseSpends PROVE PoolInv'
<1>0. op = "disconnect" /\ op' = "none" /\ chain' = chain /\ Remove(Spoiled)
  BY DEF RemoveCoinbaseSpends
<1>1. Spoiled \in SUBSET pool
  BY DEF Spoiled
<1>2. /\ pool' \subseteq pool \ Spoiled
      /\ \A u \in pool' : \A o \in Inputs[u] : Creator[o] \in pool => Creator[o] \in pool'
  BY <1>0, <1>1, RemoveExact DEF IndexInv
<1>3. ChainOK(chain) /\ Unspent(chain, pool, {})
  BY <1>0 DEF PoolInv, Confirming
<1>4. Unspent(chain, pool', {})
  BY <1>2, <1>3 DEF Unspent
<1>5. ASSUME NEW u \in pool', NEW o \in Inputs[u]
      PROVE  Creator[o] \in Old \cup Confirmed(chain) \cup pool' /\ Mature(chain, o)
  <2>1. CASE Creator[o] \in pool
    BY <1>2, <1>3, <2>1 DEF Unspent, Mature
  <2>2. CASE Creator[o] \notin pool
    <3>1. HaveCoins(Creator[o]) /\ Mature(chain, o)
      BY <1>2, <2>2 DEF Spoiled
    <3> QED BY <2>2, <3>1 DEF HaveCoins, Outs, Coins
  <2> QED BY <2>1, <2>2
<1>6. Filled(chain, pool')
  BY <1>5 DEF Filled
<1> QED BY <1>0, <1>3, <1>4, <1>6 DEF PoolInv, Confirming

LEMMA PoolInit == Init => PoolInv
<1> SUFFICES ASSUME Init PROVE PoolInv
  OBVIOUS
<1>1. chain = << >> /\ pool = {} /\ op = "none" /\ 1 .. Len(chain) = {}
  BY DEF Init
<1>2. ChainOK(chain)
  BY <1>1, Zenon DEF ChainOK
<1> QED BY <1>1, <1>2 DEF PoolInv, Unspent, Filled, Confirming

LEMMA PoolNext == IndexInv /\ PoolInv /\ [Next]_vars => PoolInv'
<1> SUFFICES ASSUME IndexInv, PoolInv, [Next]_vars PROVE PoolInv'
  OBVIOUS
<1>1. ASSUME NEW t \in Tx, op \in {"none", "orphans"}, op' \in {"none", "orphans"},
             chain' = chain, Acceptable(t), AddUnchecked(t)
      PROVE  PoolInv'
  <2>1. Unspent(chain, pool', {}) /\ Filled(chain, pool')
    BY <1>1, AcceptUnspent
  <2> QED BY <1>1, <2>1 DEF PoolInv, Confirming
<1>2. ASSUME op \in {"none", "orphans"}, op' \in {"none", "orphans"}, UNCHANGED <<chain, pool>>
      PROVE  PoolInv'
  BY <1>2 DEF PoolInv, Confirming
<1>3. ASSUME NEW t \in Tx, TakeTx(t) \/ AcceptLocal(t) PROVE PoolInv'
  BY <1>1, <1>3 DEF TakeTx, AcceptLocal, loop
<1>4. ASSUME NEW t \in Tx, NEW p \in Peer, TakeOrphan(t, p) PROVE PoolInv'
  BY <1>2, <1>4 DEF TakeOrphan, loop
<1>5. ASSUME NEW u \in Tx, TryOrphan(u) PROVE PoolInv'
  BY <1>1, <1>2, <1>5 DEF TryOrphan
<1>6. CASE NextParent \/ EndOrphans
  BY <1>2, <1>6 DEF NextParent, EndOrphans
<1>7. ASSUME NEW p \in Peer, EraseOrphansFor(p) PROVE PoolInv'
  BY <1>2, <1>7 DEF EraseOrphansFor, loop
<1>8. ASSUME NEW b \in SUBSET Tx, ConnectTip(b) PROVE PoolInv'
  BY <1>8, ConnectPool
<1>9. ASSUME NEW t \in Tx, RemoveForBlock(t) PROVE PoolInv'
  BY <1>9, RemoveForBlockPool
<1>10. ASSUME NEW t \in Tx, Resurrect(t) PROVE PoolInv'
  <2>1. op = "disconnect" /\ op' = op /\ chain' = chain
    BY <1>10 DEF Resurrect
  <2>2. Unspent(chain, pool', {})
    <3>1. CASE Acceptable(t) /\ AddUnchecked(t)
      BY <2>1, <3>1, AcceptUnspent
    <3>2. CASE Remove(Roots(t))
      <4>1. pool' \subseteq pool
        BY <3>2, RootsIn, RemoveExact DEF IndexInv
      <4> QED BY <2>1, <4>1 DEF PoolInv, Confirming, Unspent
    <3> QED BY <1>10, <3>1, <3>2 DEF Resurrect
  <2> QED BY <2>1, <2>2 DEF PoolInv, Confirming
<1>11. CASE ConnectDone
  <2>1. /\ op = "connect" /\ todo = {} /\ op' = "none" /\ chain' = chain /\ pool' = pool
    BY <1>11 DEF ConnectDone
  <2> QED BY <2>1 DEF PoolInv, Confirming
<1>12. CASE DisconnectTip
  BY <1>12, DisconnectPool
<1>13. CASE RemoveCoinbaseSpends
  BY <1>13, RemoveCoinbaseSpendsPool
<1>14. CASE UNCHANGED vars
  BY <1>14 DEF vars, loop, PoolInv, Confirming
<1> QED BY <1>3, <1>4, <1>5, <1>6, <1>7, <1>8, <1>9, <1>10, <1>11, <1>12, <1>13, <1>14 DEF Next

LEMMA PoolInvMeans == IndexInv /\ PoolInv => PoolMinable
<1> SUFFICES ASSUME IndexInv, PoolInv, op = "none" PROVE ValidBlock(chain, pool)
  BY DEF PoolMinable
<1>1. Unspent(chain, pool, {}) /\ Filled(chain, pool) /\ Exact(nextTx, pool)
  BY DEF PoolInv, Confirming, IndexInv
<1>2. ASSUME NEW t \in pool, NEW o \in Inputs[t]
      PROVE  /\ o \in Coins(chain) \/ Creator[o] \in pool \ Coinbase
             /\ Mature(chain, o)
             /\ \A u \in pool \ {t} : o \notin Inputs[u]
  <2>1. t \in Tx /\ o \in Outpoint
    BY <1>1, MempoolAssumption DEF Exact
  <2>2. Creator[o] \in Old \cup Confirmed(chain) \cup pool /\ Mature(chain, o)
    BY <1>1 DEF Filled
  <2>3. \A v \in Confirmed(chain) : o \notin Inputs[v]
    BY <1>1 DEF Unspent
  <2>4. o \in Coins(chain) \/ Creator[o] \in pool \ Coinbase
    BY <1>1, <2>1, <2>2, <2>3 DEF Coins, Unspent
  <2>5. \A u \in pool \ {t} : o \notin Inputs[u]
    BY <1>1, <2>1 DEF Exact
  <2> QED BY <2>2, <2>4, <2>5
<1> QED BY <1>1, <1>2 DEF ValidBlock, Unspent

(* Whenever no loop runs the whole pool is a valid block on top of the     *)
(* chain (CTxMemPool::check, CreateNewBlock), for any transactions, any    *)
(* blocks and any reorganisation.                                          *)
THEOREM MempoolPoolMinable == Spec => []PoolMinable
<1>1. Spec => []PoolInv
  BY IndexAlways, PoolInit, PoolNext, PTL DEF Spec
<1> QED BY <1>1, IndexAlways, PoolInvMeans, PTL

-----------------------------------------------------------------------------
(* The loop over orphans *)

(* An orphan of a transaction in vWorkQueue that could be accepted now is  *)
(* still to be tried: among the children of the current parent or of one   *)
(* further down the queue.                                                 *)
Drain ==
  op = "orphans" =>
    \A u \in Kept(orphans) \ erase : \A i \in 1 .. Len(queue) :
      (orphans[u] \notin bad /\ u \in byPrev[queue[i]] /\ Acceptable(u))
         => (u \in todo \/ \E j \in at + 1 .. Len(queue) : u \in byPrev[queue[j]])

LEMMA AcceptableSame ==
  ASSUME UNCHANGED <<chain, pool, nextTx>>, NEW u
  PROVE  Acceptable(u)' <=> Acceptable(u)
  BY DEF Acceptable, NewToPool, HaveCoins, Outs, Coins, Confirmed, Mature

(* Only a child of v becomes acceptable when v enters the pool.            *)
LEMMA AcceptableChild ==
  ASSUME IndexInv, NEW v \in Tx, AddUnchecked(v), chain' = chain,
         NEW u \in Tx, Acceptable(u)', ~Acceptable(u)
  PROVE  \E o \in Inputs[u] : Creator[o] = v
<1>0. /\ pool' = pool \cup {v} /\ None \notin Tx /\ Inputs[u] \subseteq Outpoint
      /\ nextTx' = [o \in Outpoint |-> IF o \in Inputs[v] THEN v ELSE nextTx[o]]
  BY MempoolAssumption DEF AddUnchecked
<1>c. Coins(chain)' = Coins(chain)
  BY DEF Coins, Confirmed
<1>1. /\ NewToPool(u)'
      /\ \A o \in Inputs[u] : (o \in Coins(chain) \/ Creator[o] \in pool') /\ Mature(chain, o)
  BY <1>c DEF Acceptable
<1>2. NewToPool(u)
  <2>1. u \notin Coinbase /\ u \notin pool' /\ \A o \in Inputs[u] : nextTx'[o] = None
    BY <1>1 DEF NewToPool
  <2>2. ~HaveCoins(u)
    BY <1>0, <1>1, <1>c DEF NewToPool, HaveCoins, Outs
  <2>3. \A o \in Inputs[u] : nextTx[o] = None
    BY <1>0, <2>1
  <2> QED BY <1>0, <2>1, <2>2, <2>3 DEF NewToPool
<1>3. PICK o \in Inputs[u] : ~(o \in Coins(chain) \/ Creator[o] \in pool) \/ ~Mature(chain, o)
  BY <1>2 DEF Acceptable
<1> QED BY <1>0, <1>1, <1>3

LEMMA MissingNotAcceptable ==
  ASSUME NEW u \in Tx, MissingInputs(u) PROVE ~Acceptable(u)
<1>1. PICK o \in Inputs[u] : ~HaveCoins(Creator[o])
  BY DEF MissingInputs
<1>2. o \in Outpoint /\ o \in Outs(Creator[o])
  BY MempoolAssumption DEF Outs
<1> QED BY <1>1, <1>2 DEF Acceptable, HaveCoins

(* One orphan is tried.                                                    *)
LEMMA TryDrain ==
  ASSUME IndexInv, Drain, NEW v \in Tx, TryOrphan(v) PROVE Drain'
<1>0. /\ op = "orphans" /\ v \in todo /\ todo' = todo \ {v}
      /\ UNCHANGED <<chain, orphans, byPrev, op, at>>
      /\ queue \in Seq(Tx) /\ Len(queue) \in Nat /\ at \in 1 .. Len(queue)
  BY DEF TryOrphan, store, IndexInv, LoopOK
<1> SUFFICES ASSUME NEW u \in Kept(orphans) \ erase', NEW i \in 1 .. Len(queue'),
                    orphans[u] \notin bad', u \in byPrev[queue'[i]], Acceptable(u)'
             PROVE  u \in todo' \/ \E j \in at + 1 .. Len(queue') : u \in byPrev[queue'[j]]
  BY <1>0 DEF Drain, Kept
<1>u. u \in Tx
  BY DEF Kept
<1>1. ASSUME queue' = queue, UNCHANGED <<pool, nextTx>>, erase \subseteq erase', bad \subseteq bad',
             u # v \/ ~Acceptable(u)
      PROVE  u \in todo' \/ \E j \in at + 1 .. Len(queue') : u \in byPrev[queue'[j]]
  <2>1. Acceptable(u)
    BY <1>0, <1>1, AcceptableSame
  <2>2. u \in todo \/ \E j \in at + 1 .. Len(queue) : u \in byPrev[queue[j]]
    BY <1>0, <1>1, <2>1 DEF Drain
  <2> QED BY <1>0, <1>1, <2>1, <2>2
<1>2. CASE orphans[v] \in bad /\ UNCHANGED <<pool, nextTx, queue, erase, bad>>
  BY <1>1, <1>2
<1>3. CASE MissingInputs(v) /\ UNCHANGED <<pool, nextTx, queue, erase, bad>>
  BY <1>1, <1>3, MissingNotAcceptable
<1>4. CASE erase' = erase \cup {v} /\ bad \subseteq bad' /\ UNCHANGED <<pool, nextTx, queue>>
  BY <1>1, <1>4
<1>5. CASE Acceptable(v) /\ AddUnchecked(v) /\ queue' = Append(queue, v)
           /\ erase' = erase \cup {v} /\ UNCHANGED bad
  <2>1. /\ Len(queue') = Len(queue) + 1 /\ queue'[Len(queue) + 1] = v
        /\ \A j \in 1 .. Len(queue) : queue'[j] = queue[j]
    BY <1>0, <1>5
  <2>2. CASE u \in byPrev[v]
    <3>1. Len(queue) + 1 \in at + 1 .. Len(queue')
      BY <1>0, <2>1
    <3> QED BY <2>1, <2>2, <3>1
  <2>3. CASE u \notin byPrev[v]
    <3>1. Acceptable(u)
      <4>1. (\E o \in Inputs[u] : Creator[o] = v) => u \in byPrev[v]
        BY DEF IndexInv, OrphansOK, Indexed
      <4> QED BY <1>0, <1>5, <1>u, <2>3, <4>1, AcceptableChild
    <3>2. i \in 1 .. Len(queue) /\ u \in byPrev[queue[i]]
      BY <1>0, <2>1, <2>3
    <3>3. u \in todo \/ \E j \in at + 1 .. Len(queue) : u \in byPrev[queue[j]]
      BY <1>0, <1>5, <3>1, <3>2 DEF Drain
    <3>4. CASE u \in todo
      BY <1>0, <1>5, <3>4
    <3>5. CASE \E j \in at + 1 .. Len(queue) : u \in byPrev[queue[j]]
      <4>1. PICK j \in at + 1 .. Len(queue) : u \in byPrev[queue[j]]
        BY <3>5
      <4>2. j \in 1 .. Len(queue) /\ j \in at + 1 .. Len(queue')
        BY <1>0, <2>1
      <4> QED BY <2>1, <4>1, <4>2
    <3> QED BY <3>3, <3>4, <3>5
  <2> QED BY <2>2, <2>3
<1> QED BY <1>2, <1>3, <1>4, <1>5 DEF TryOrphan

LEMMA DrainNext == IndexInv /\ Drain /\ [Next]_vars => Drain'
<1> SUFFICES ASSUME IndexInv, Drain, [Next]_vars, op' = "orphans" PROVE Drain'
  BY DEF Drain
<1>1. ASSUME NEW t \in Tx, TakeTx(t) PROVE Drain'
  <2>1. queue' = <<t>> /\ todo' = byPrev[t] /\ byPrev' = byPrev
    BY <1>1 DEF TakeTx, store
  <2>2. \A i \in 1 .. Len(queue') : queue'[i] = t
    BY <2>1
  <2> QED BY <2>1, <2>2 DEF Drain
<1>2. ASSUME NEW u \in Tx, TryOrphan(u) PROVE Drain'
  BY <1>2, TryDrain
<1>3. CASE NextParent
  <2>0. /\ op = "orphans" /\ todo = {} /\ at < Len(queue) /\ at' = at + 1
        /\ todo' = byPrev[queue[at + 1]] /\ UNCHANGED <<chain, pool, nextTx, queue, erase, bad>>
        /\ UNCHANGED <<orphans, byPrev>> /\ at \in Nat /\ Len(queue) \in Nat
    BY <1>3 DEF NextParent, store, IndexInv, LoopOK
  <2> SUFFICES ASSUME NEW u \in Kept(orphans) \ erase, NEW i \in 1 .. Len(queue),
                      orphans[u] \notin bad, u \in byPrev[queue[i]], Acceptable(u)'
               PROVE  u \in todo' \/ \E j \in at' + 1 .. Len(queue) : u \in byPrev[queue[j]]
    BY <2>0 DEF Drain, Kept
  <2>1. Acceptable(u)
    BY <2>0, AcceptableSame
  <2>2. PICK j \in at + 1 .. Len(queue) : u \in byPrev[queue[j]]
    BY <2>0, <2>1 DEF Drain
  <2>3. CASE j = at + 1
    BY <2>0, <2>2, <2>3
  <2>4. CASE j # at + 1
    <3>1. j \in at' + 1 .. Len(queue)
      BY <2>0, <2>4
    <3> QED BY <2>2, <3>1
  <2> QED BY <2>3, <2>4
<1>4. CASE UNCHANGED vars
  <2>1. UNCHANGED <<chain, pool, nextTx, orphans, byPrev, op, todo, queue, at, erase, bad>>
    BY <1>4 DEF vars, loop, store
  <2>2. \A u : Acceptable(u)' <=> Acceptable(u)
    BY <2>1, AcceptableSame
  <2> QED BY <2>1, <2>2 DEF Drain, Kept
<1>5. ASSUME op = "none", op' = op PROVE FALSE
  BY <1>5
<1>6. ASSUME NEW t \in Tx, AcceptLocal(t) PROVE FALSE
  BY <1>5, <1>6 DEF AcceptLocal, loop
<1>7. ASSUME NEW t \in Tx, NEW p \in Peer, TakeOrphan(t, p) PROVE FALSE
  BY <1>5, <1>7 DEF TakeOrphan, loop
<1>8. ASSUME NEW p \in Peer, EraseOrphansFor(p) PROVE FALSE
  BY <1>5, <1>8 DEF EraseOrphansFor, loop
<1>9. ASSUME NEW b \in SUBSET Tx, ConnectTip(b) PROVE FALSE
  BY <1>9 DEF ConnectTip
<1>10. ASSUME NEW t \in Tx, RemoveForBlock(t) \/ Resurrect(t) PROVE FALSE
  <2>1. ~RemoveForBlock(t)
    BY DEF RemoveForBlock
  <2>2. ~Resurrect(t)
    BY DEF Resurrect
  <2> QED BY <1>10, <2>1, <2>2
<1>11. CASE EndOrphans \/ ConnectDone \/ DisconnectTip \/ RemoveCoinbaseSpends
  BY <1>11 DEF EndOrphans, ConnectDone, DisconnectTip, RemoveCoinbaseSpends
<1> QED BY <1>1, <1>2, <1>3, <1>4, <1>6, <1>7, <1>8, <1>9, <1>10, <1>11 DEF Next

(* The step that leaves the loop is the one after its last orphan.         *)
LEMMA LeavesAtEnd ==
  ASSUME [Next]_vars, op = "orphans", op' = "none" PROVE EndOrphans
<1>1. ASSUME NEW t \in Tx PROVE ~TakeTx(t) /\ ~AcceptLocal(t)
  BY DEF TakeTx, AcceptLocal
<1>2. ASSUME NEW t \in Tx, NEW p \in Peer PROVE ~TakeOrphan(t, p)
  BY DEF TakeOrphan
<1>3. ASSUME NEW u \in Tx PROVE ~TryOrphan(u)
  BY DEF TryOrphan
<1>4. ASSUME NEW p \in Peer PROVE ~EraseOrphansFor(p)
  BY DEF EraseOrphansFor
<1>5. ASSUME NEW b \in SUBSET Tx PROVE ~ConnectTip(b)
  BY DEF ConnectTip
<1>6. ASSUME NEW t \in Tx PROVE ~RemoveForBlock(t)
  BY DEF RemoveForBlock
<1>7. ASSUME NEW t \in Tx PROVE ~Resurrect(t)
  BY DEF Resurrect
<1>8. ~NextParent /\ ~ConnectDone /\ ~DisconnectTip /\ ~RemoveCoinbaseSpends /\ ~UNCHANGED vars
  BY DEF NextParent, ConnectDone, DisconnectTip, RemoveCoinbaseSpends, vars, loop
<1> QED BY <1>1, <1>2, <1>3, <1>4, <1>5, <1>6, <1>7, <1>8 DEF Next

(* When the loop over orphans ends, every orphan that spends a transaction *)
(* this message brought in is one that cannot be accepted, or its peer was *)
(* punished: for any number of orphans and any order of trying them.       *)
THEOREM MempoolOrphansDrained == Spec => OrphansDrained
<1>1. Init => Drain
  BY DEF Init, Drain
<1>2. Spec => []Drain
  BY <1>1, IndexAlways, DrainNext, PTL DEF Spec
<1>3. IndexInv /\ Drain /\ [Next]_vars =>
        [(op = "orphans" /\ op' = "none") =>
           \A u \in Kept(orphans'), o \in Outpoint :
             (o \in Inputs[u] /\ \E i \in 1 .. Len(queue) : queue[i] = Creator[o])
                => (~Acceptable(u) \/ orphans[u] \in bad)]_vars
  <2> SUFFICES ASSUME IndexInv, Drain, [Next]_vars, op = "orphans", op' = "none",
                      NEW u \in Kept(orphans'), NEW o \in Outpoint, o \in Inputs[u],
                      NEW i \in 1 .. Len(queue), queue[i] = Creator[o],
                      Acceptable(u), orphans[u] \notin bad
               PROVE  FALSE
    OBVIOUS
  <2>1. EndOrphans
    BY LeavesAtEnd
  <2>2. u \in Kept(orphans) \ erase
    BY <2>1, EraseIndexed DEF EndOrphans, IndexInv, OrphansOK
  <2>3. u \in byPrev[queue[i]]
    BY <2>2, MempoolAssumption DEF IndexInv, OrphansOK, Indexed
  <2>4. u \in todo \/ \E j \in at + 1 .. Len(queue) : u \in byPrev[queue[j]]
    BY <2>2, <2>3 DEF Drain
  <2>5. todo = {} /\ at = Len(queue) /\ at \in Nat
    BY <2>1 DEF EndOrphans, IndexInv, LoopOK
  <2> QED BY <2>4, <2>5
<1> QED BY <1>2, <1>3, IndexAlways, PTL DEF Spec, OrphansDrained

=============================================================================
