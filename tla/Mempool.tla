------------------------------- MODULE Mempool -------------------------------
(* The memory pool and the orphan transactions (txmempool.cpp, main.cpp)   *)
(* while blocks are connected and disconnected.  Everything runs under     *)
(* cs_main; the loops over the transactions of a block and over orphans    *)
(* are taken one step at a time (op), nothing else happens in between.     *)
(*                                                                         *)
(* A block is its set of transactions; loops over it take parents before   *)
(* children, as its order does.  Scripts, fees, sizes, standardness and    *)
(* transaction locks are a refusal that may or may not happen; priorities  *)
(* and fee estimates are left out.  The chain is past height 270000: below *)
(* it CheckInputs checks nothing.                                          *)
EXTENDS Integers, Sequences, FiniteSets

CONSTANTS
  Tx,
  Coinbase,          \* the coinbases and coinstakes, only valid in a block
  Old,               \* transactions confirmed for good
  Outpoint,
  Creator,           \* the transaction each outpoint belongs to
  Inputs,            \* the outpoints each transaction spends
  Peer,
  COINBASE_MATURITY,
  MAX_ORPHAN,        \* DEFAULT_MAX_ORPHAN_TRANSACTIONS
  MaxHeight,         \* bound: blocks on top of the old ones
  None

ASSUME MempoolAssumption ==
  /\ Tx \cap Old = {} /\ Coinbase \subseteq Tx
  /\ Creator \in [Outpoint -> Tx \cup Old]
  /\ Inputs \in [Tx -> SUBSET Outpoint]
  /\ \A t \in Tx \ Coinbase : Inputs[t] # {}
  /\ \A S \in SUBSET Tx : S # {} => \E t \in S : \A o \in Inputs[t] : Creator[o] \notin S
  /\ None \notin Tx \cup Peer
  /\ COINBASE_MATURITY \in Nat /\ MAX_ORPHAN \in Nat /\ MaxHeight \in Nat

VARIABLES
  chain,    \* the blocks on top of the old ones
  pool,     \* mapTx
  nextTx,   \* mapNextTx: per outpoint the transaction of the pool that spends it
  orphans,  \* mapOrphanTransactions: per transaction the peer it came from, or None
  byPrev,   \* mapOrphanTransactionsByPrev
  op,       \* the loop that runs
  todo,     \* transactions that the loop over a block or over orphans has left
  queue,    \* vWorkQueue
  at,       \* i, the place in it
  erase,    \* vEraseQueue
  bad       \* setMisbehaving

loop == <<op, todo, queue, at, erase, bad>>
store == <<orphans, byPrev>>
vars == <<chain, pool, nextTx, store, loop>>

Ops == {"none", "connect", "disconnect", "orphans"}

-----------------------------------------------------------------------------
(* Coins of the chain.  Transactions of block b, confirmed by chain c.     *)

Confirmed(c) == UNION {c[i] : i \in 1 .. Len(c)}
Coins(c) == {o \in Outpoint :
  /\ Creator[o] \in Old \cup Confirmed(c)
  /\ \A t \in Confirmed(c) : o \notin Inputs[t]}
Outs(t) == {o \in Outpoint : Creator[o] = t}

(* Whether o may be spent in the block after chain c (CheckInputs).        *)
Mature(c, o) == \A i \in 1 .. Len(c) :
  (Creator[o] \in Coinbase /\ Creator[o] \in c[i]) => Len(c) + 1 - i >= COINBASE_MATURITY

(* ConnectBlock accepts it.                                                *)
ValidBlock(c, b) ==
  /\ b \cap Confirmed(c) = {}
  /\ \A t \in b : \A o \in Inputs[t] :
       /\ o \in Coins(c) \/ Creator[o] \in b \ Coinbase
       /\ Mature(c, o)
       /\ \A u \in b \ {t} : o \notin Inputs[u]

-----------------------------------------------------------------------------
(* The pool. *)

HaveCoins(x) == x \in pool \/ \E o \in Outs(x) : o \in Coins(chain)

(* AcceptToMemoryPool up to the inputs, which may be missing.              *)
NewToPool(t) ==
  /\ t \notin Coinbase /\ t \notin pool
  /\ \A o \in Inputs[t] : nextTx[o] = None
  /\ ~HaveCoins(t)
MissingInputs(t) == NewToPool(t) /\ \E o \in Inputs[t] : ~HaveCoins(Creator[o])
Acceptable(t) ==
  /\ NewToPool(t)
  /\ \A o \in Inputs[t] :
       (o \in Coins(chain) \/ Creator[o] \in pool) /\ Mature(chain, o)

AddUnchecked(t) ==
  /\ pool' = pool \cup {t}
  /\ nextTx' = [o \in Outpoint |-> IF o \in Inputs[t] THEN t ELSE nextTx[o]]

(* What remove takes with it, recursively: from, and every transaction in  *)
(* p that spends an output of one of them by the index nx.                 *)
Closed(nx, C) == \A x \in C : \A o \in Outs(x) : nx[o] # None => nx[o] \in C
Family(p, nx, from) == {u \in p : \A C \in SUBSET p : (from \subseteq C /\ Closed(nx, C)) => u \in C}
UnspendNone(nx, gone) == nx \* mutant: mapNextTx keeps the inputs of what is removed
Unspend(nx, gone) ==
  [o \in Outpoint |-> IF \E u \in gone : o \in Inputs[u] THEN None ELSE nx[o]]

RemoveOne(from) == \* mutant: the children stay
  pool' = pool \ from /\ nextTx' = Unspend(nextTx, from)
Remove(from) ==
  LET gone == Family(pool, nextTx, from)
  IN  pool' = pool \ gone /\ nextTx' = Unspend(nextTx, gone)

(* remove(tx, fRecursive): a transaction not in the pool may have children *)
(* there.                                                                  *)
Roots(t) == IF t \in pool THEN {t} ELSE {nextTx[o] : o \in Outs(t)} \ {None}

-----------------------------------------------------------------------------
(* Orphans. *)

(* AddOrphanTx (unless it is large), then LimitOrphanTxSize evicts at      *)
(* random.  EraseOrphanTx for a set of transactions.                       *)
EraseOrphanTx(orph, prev, gone) ==
  /\ orphans' = [t \in Tx |-> IF t \in gone THEN None ELSE orph[t]]
  /\ byPrev' = [x \in Tx \cup Old |-> prev[x] \ gone]

Kept(orph) == {t \in Tx : orph[t] # None}

AddOrphanTx(t, p) ==
  LET orph == IF orphans[t] = None THEN [orphans EXCEPT ![t] = p] ELSE orphans
      prev == [x \in Tx \cup Old |->
        IF \E o \in Inputs[t] : Creator[o] = x THEN byPrev[x] \cup {t} ELSE byPrev[x]]
      evicted == IF Cardinality(Kept(orph)) > MAX_ORPHAN
                 THEN {{e} : e \in Kept(orph)} ELSE {{}}
  IN  \E gone \in evicted : EraseOrphanTx(orph, prev, gone)

-----------------------------------------------------------------------------
Init ==
  /\ chain = << >> /\ pool = {}
  /\ nextTx = [o \in Outpoint |-> None]
  /\ orphans = [t \in Tx |-> None] /\ byPrev = [x \in Tx \cup Old |-> {}]
  /\ op = "none" /\ todo = {} /\ queue = << >> /\ at = 0
  /\ erase = {} /\ bad = {}

(* "tx" from peer p: accepted, and orphans are looked at next ...          *)
TakeTx(t) ==
  /\ op = "none" /\ Acceptable(t)
  /\ AddUnchecked(t)
  /\ op' = "orphans" /\ queue' = <<t>> /\ at' = 1 /\ todo' = byPrev[t]
  /\ erase' = {} /\ bad' = {}
  /\ UNCHANGED <<chain, store>>
(* ... or an orphan itself.  (One that is refused changes nothing.)        *)
TakeOrphan(t, p) ==
  /\ op = "none" /\ MissingInputs(t)
  /\ AddOrphanTx(t, p)
  /\ UNCHANGED <<chain, pool, nextTx, loop>>

(* The wallet, sendrawtransaction and "ix".                                *)
AcceptLocal(t) ==
  /\ op = "none" /\ Acceptable(t)
  /\ AddUnchecked(t)
  /\ UNCHANGED <<chain, store, loop>>

(* One child of the current parent.  Peers that sent an invalid orphan     *)
(* (punish) are passed over from then on.                                  *)
TryOrphan(u) ==
  /\ op = "orphans" /\ u \in todo
  /\ todo' = todo \ {u}
  /\ \/ orphans[u] \in bad /\ UNCHANGED <<pool, nextTx, queue, erase, bad>>
     \/ /\ orphans[u] \notin bad
        /\ \/ Acceptable(u) /\ AddUnchecked(u) /\ queue' = Append(queue, u)
              /\ erase' = erase \cup {u} /\ UNCHANGED bad
           \/ MissingInputs(u) /\ UNCHANGED <<pool, nextTx, queue, erase, bad>>
           \/ /\ erase' = erase \cup {u}
              /\ \E punish \in BOOLEAN : bad' = IF punish THEN bad \cup {orphans[u]} ELSE bad
              /\ UNCHANGED <<pool, nextTx, queue>>
  /\ UNCHANGED <<chain, store, op, at>>
SameParent == \* mutant: the index into vWorkQueue is not advanced
  /\ op = "orphans" /\ todo = {} /\ at < Len(queue)
  /\ at' = at /\ todo' = byPrev[queue[at]]
  /\ UNCHANGED <<chain, pool, nextTx, store, op, queue, erase, bad>>
NextParent ==
  /\ op = "orphans" /\ todo = {} /\ at < Len(queue)
  /\ at' = at + 1 /\ todo' = byPrev[queue[at + 1]]
  /\ UNCHANGED <<chain, pool, nextTx, store, op, queue, erase, bad>>
EndOrphansEarly == \* mutant: the orphans accepted meanwhile are not followed
  /\ op = "orphans" /\ todo = {}
  /\ EraseOrphanTx(orphans, byPrev, erase)
  /\ op' = "none" /\ queue' = << >> /\ at' = 0 /\ erase' = {} /\ bad' = {}
  /\ UNCHANGED <<chain, pool, nextTx, todo>>
EndOrphans ==
  /\ op = "orphans" /\ todo = {} /\ at = Len(queue)
  /\ EraseOrphanTx(orphans, byPrev, erase)
  /\ op' = "none" /\ queue' = << >> /\ at' = 0 /\ erase' = {} /\ bad' = {}
  /\ UNCHANGED <<chain, pool, nextTx, todo>>

EraseOrphansFor(p) ==
  /\ op = "none"
  /\ EraseOrphanTx(orphans, byPrev, {t \in Tx : orphans[t] = p})
  /\ UNCHANGED <<chain, pool, nextTx, loop>>

-----------------------------------------------------------------------------
(* The transaction of the block that the loop takes next.                  *)
First(t) == t \in todo /\ \A o \in Inputs[t] : Creator[o] \notin todo

ConnectTip(b) ==
  /\ op = "none" /\ Len(chain) < MaxHeight /\ ValidBlock(chain, b)
  /\ chain' = Append(chain, b)
  /\ op' = "connect" /\ todo' = b
  /\ UNCHANGED <<pool, nextTx, store, queue, at, erase, bad>>

(* removeForBlock: t, without its children, and what conflicts with it.    *)
RemoveForBlock(t) ==
  LET p == pool \ {t}
      nx == IF t \in pool THEN Unspend(nextTx, {t}) ELSE nextTx
      gone == Family(p, nx, {nx[o] : o \in Inputs[t]} \ {None})
  IN  /\ op = "connect" /\ First(t)
      /\ pool' = p \ gone /\ nextTx' = Unspend(nx, gone)
      /\ todo' = todo \ {t}
      /\ UNCHANGED <<chain, store, op, queue, at, erase, bad>>
ConnectDone ==
  /\ op = "connect" /\ todo = {}
  /\ op' = "none"
  /\ UNCHANGED <<chain, pool, nextTx, store, todo, queue, at, erase, bad>>

DisconnectTip ==
  /\ op = "none" /\ chain # << >>
  /\ chain' = SubSeq(chain, 1, Len(chain) - 1)
  /\ op' = "disconnect" /\ todo' = chain[Len(chain)]
  /\ UNCHANGED <<pool, nextTx, store, queue, at, erase, bad>>

(* A transaction of the block goes back to the pool, or is refused and     *)
(* takes its children with it.                                             *)
Resurrect(t) ==
  /\ op = "disconnect" /\ First(t)
  /\ (Acceptable(t) /\ AddUnchecked(t)) \/ Remove(Roots(t))
  /\ todo' = todo \ {t}
  /\ UNCHANGED <<chain, store, op, queue, at, erase, bad>>

(* removeCoinbaseSpends, with the same test as CheckInputs.                *)
Spoiled == {t \in pool : \E o \in Inputs[t] :
  Creator[o] \notin pool /\ (~HaveCoins(Creator[o]) \/ ~Mature(chain, o))}
RemoveCoinbaseSpends ==
  /\ op = "disconnect" /\ todo = {}
  /\ Remove(Spoiled)
  /\ op' = "none"
  /\ UNCHANGED <<chain, store, todo, queue, at, erase, bad>>

Next ==
  \/ \E t \in Tx : TakeTx(t) \/ AcceptLocal(t)
  \/ \E t \in Tx, p \in Peer : TakeOrphan(t, p)
  \/ \E u \in Tx : TryOrphan(u)
  \/ NextParent \/ EndOrphans
  \/ \E p \in Peer : EraseOrphansFor(p)
  \/ \E b \in SUBSET Tx : ConnectTip(b)
  \/ \E t \in Tx : RemoveForBlock(t) \/ Resurrect(t)
  \/ ConnectDone \/ DisconnectTip \/ RemoveCoinbaseSpends

Spec == Init /\ [][Next]_vars

(* A loop that was started goes on.                                        *)
Step ==
  \/ \E u \in Tx : TryOrphan(u) \/ RemoveForBlock(u) \/ Resurrect(u)
  \/ NextParent \/ EndOrphans \/ ConnectDone \/ RemoveCoinbaseSpends
FairSpec == Spec /\ WF_vars(Step)

-----------------------------------------------------------------------------
(* Properties *)

(* Type invariant.                                                         *)
TypeOK ==
  /\ chain \in Seq(SUBSET Tx) /\ pool \subseteq Tx
  /\ nextTx \in [Outpoint -> Tx \cup {None}]
  /\ orphans \in [Tx -> Peer \cup {None}]
  /\ byPrev \in [Tx \cup Old -> SUBSET Tx]
  /\ op \in Ops /\ todo \subseteq Tx /\ queue \in Seq(Tx) /\ at \in Nat
  /\ erase \subseteq Tx /\ bad \subseteq Peer

(* Whenever no loop runs the whole pool is a valid block: its inputs are   *)
(* there and mature, none is spent twice and nothing is confirmed already  *)
(* (what CTxMemPool::check asserts and what block production relies on),   *)
(* through reorganisations, refused resurrections and conflicts.           *)
PoolMinable == op = "none" => ValidBlock(chain, pool)

(* mapNextTx is exactly the inputs of the pool, also inside the loops.     *)
SpendersIndexed ==
  \A o \in Outpoint, t \in Tx : nextTx[o] = t <=> (t \in pool /\ o \in Inputs[t])

(* The index of orphans holds every orphan under each of its parents and   *)
(* nothing else; the loop over it would make up an entry for any other.    *)
OrphansIndexed ==
  /\ \A x \in Tx \cup Old :
       byPrev[x] = {t \in Kept(orphans) : \E o \in Inputs[t] : Creator[o] = x}
  /\ Cardinality(Kept(orphans)) <= MAX_ORPHAN

(* Both indexes say exactly what is in the pool and among the orphans.     *)
IndexesExact == SpendersIndexed /\ OrphansIndexed

(* When the loop over orphans is done, no orphan that spends a transaction *)
(* this message brought in could still be accepted, whatever the order in  *)
(* which parents and children were tried, unless its peer was punished.    *)
OrphansDrained ==
  [][(op = "orphans" /\ op' = "none") =>
       \A u \in Kept(orphans'), o \in Outpoint :
         (o \in Inputs[u] /\ \E i \in 1 .. Len(queue) : queue[i] = Creator[o])
            => (~Acceptable(u) \/ orphans[u] \in bad)]_vars

(* Every loop ends: accepted orphans that bring in others do not keep the  *)
(* message thread for ever.                                                *)
LoopsEnd == op # "none" ~> op = "none"
=============================================================================
