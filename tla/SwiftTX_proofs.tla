--------------------------- MODULE SwiftTX_proofs ---------------------------
(* Proofs about SwiftTX for any set of transactions, masternodes, inputs   *)
(* and heights, and any number of required signatures.                     *)
EXTENDS SwiftTX, SequenceTheorems, FiniteSetTheorems, TLAPS

(* The records a lock can be: every value of mapTxLocks[t].                *)
LockOrNone == Lock \cup {NoLock}

(* NewLock gives a lock record for every height.                           *)
LEMMA NewLockType == \A h \in Height : NewLock(h) \in Lock
  BY BoundsAssumption DEF NewLock, Lock

(* Changing the height, the expiry or the votes of a lock gives a lock.    *)
LEMMA LockUpdate ==
  ASSUME NEW l \in Lock
  PROVE  /\ \A h \in Height : [l EXCEPT !.nBlockHeight = h] \in Lock
         /\ \A e \in -1 .. LockTicks : [l EXCEPT !.nExpiration = e] \in Lock
         /\ \A v \in MN \X Height : [l EXCEPT !.votes = @ \cup {v}] \in Lock
  BY DEF Lock

(* NoLock is no lock: the flag held tells them apart.                      *)
LEMMA HeldIsLock == /\ \A l \in LockOrNone : l.held => l \in Lock
                    /\ \A l \in Lock : l.held = TRUE
<1>1. NoLock.held = FALSE
  BY DEF NoLock
<1>2. \A l \in Lock : l.held = TRUE
  BY DEF Lock
<1> QED BY <1>1, <1>2, Zenon DEF LockOrNone

(* CreateNewLock, Expire and AddSignature keep the type of the table.      *)
LEMMA TableTypes ==
  ASSUME TypeOK, NEW t \in Tx
  PROVE  /\ \A h \in Height : CreateNewLock(t, h) \in [Tx -> LockOrNone]
         /\ \A m \in MN, h \in Height : AddSignature(t, m, h) \in [Tx -> LockOrNone]
         /\ \A S : \A locks \in [Tx -> LockOrNone] :
              Expire(locks, S) \in [Tx -> LockOrNone]
         /\ LockInputs(t) \in [Input -> Tx \cup {NoTx}]
<1>1. mapTxLocks \in [Tx -> LockOrNone]
  BY DEF TypeOK, LockOrNone
<1>3. ASSUME NEW h \in Height
      PROVE  CreateNewLock(t, h) \in [Tx -> LockOrNone]
  <2>1. mapTxLocks[t].held => [mapTxLocks[t] EXCEPT !.nBlockHeight = h] \in Lock
    BY <1>1, HeldIsLock, LockUpdate
  <2>2. NewLock(h) \in Lock
    BY NewLockType
  <2> QED BY <1>1, <2>1, <2>2 DEF CreateNewLock, LockOrNone
<1>4. ASSUME NEW m \in MN, NEW h \in Height
      PROVE  AddSignature(t, m, h) \in [Tx -> LockOrNone]
  <2> DEFINE l == IF mapTxLocks[t].held THEN mapTxLocks[t] ELSE NewLock(0)
  <2>1. l \in Lock
    BY <1>1, HeldIsLock, NewLockType, HeightAssumption
  <2>2. [l EXCEPT !.votes = @ \cup {<<m, h>>}] \in Lock
    BY <2>1, LockUpdate
  <2> QED BY <1>1, <2>2 DEF AddSignature, LockOrNone
<1>5. ASSUME NEW S, NEW locks \in [Tx -> LockOrNone]
      PROVE  Expire(locks, S) \in [Tx -> LockOrNone]
  <2>1. ASSUME NEW u \in Tx, locks[u].held
        PROVE  [locks[u] EXCEPT !.nExpiration = 0] \in Lock
    BY <2>1, HeldIsLock, LockUpdate, BoundsAssumption
  <2> QED BY <2>1 DEF Expire, LockOrNone
<1>6. LockInputs(t) \in [Input -> Tx \cup {NoTx}]
  BY DEF LockInputs, TypeOK
<1> QED BY <1>3, <1>4, <1>5, <1>6

(* Reprocessing keeps the chain a sequence and the pool a set of           *)
(* transactions.                                                           *)
LEMMA ReprocessType ==
  ASSUME TypeOK, NEW locked, ReprocessBlocks(locked)
  PROVE  chain' \in Seq(SUBSET Tx) /\ mempool' \subseteq Tx
<1>1. PICK n \in Kept(locked) :
        /\ chain' = SubSeq(chain, 1, n)
        /\ mempool' = mempool \cup
             {t \in UNION {chain[i] : i \in (n + 1) .. Len(chain)} : Compatible(t, locked)}
  BY DEF ReprocessBlocks
<1>2. n \in 0 .. Len(chain) /\ chain \in Seq(SUBSET Tx) /\ Len(chain) \in Nat
  BY DEF Kept, TypeOK
<1>3. chain' \in Seq(SUBSET Tx)
  BY <1>1, <1>2, SubSeqProperties
<1>4. \A j \in (n + 1) .. Len(chain) : chain[j] \subseteq Tx
  BY <1>2
<1> QED BY <1>1, <1>3, <1>4 DEF TypeOK

(* TypeOK is inductive.                                                    *)
LEMMA TypeOKInit == Init => TypeOK
  BY EmptySeq DEF Init, TypeOK

(* Every handler keeps the types. *)
LEMMA TypeOKNext == TypeOK /\ [Next]_vars => TypeOK'
<1> SUFFICES ASSUME TypeOK, [Next]_vars PROVE TypeOK'
  OBVIOUS
<1>0. mapTxLocks \in [Tx -> LockOrNone]
  BY DEF TypeOK, LockOrNone
<1>1. ASSUME NEW t \in Tx, NEW h \in Height, NEW votes \in BOOLEAN,
             IxAccepted(t, h, votes)
      PROVE  TypeOK'
  <2>1. mapTxLocks' \in [Tx -> LockOrNone]
    BY <1>1, TableTypes DEF IxAccepted
  <2>2. mapTxLockVote' \subseteq Tx \X MN
    BY <1>1, SelfAssumption DEF IxAccepted, TypeOK, VoteKey
  <2> QED BY <1>1, <2>1, <2>2 DEF IxAccepted, TypeOK, LockOrNone
<1>2. ASSUME NEW t \in Tx, NEW h \in Height, IxRejected(t, h)
      PROVE  TypeOK'
  <2> DEFINE locks == CreateNewLock(t, h)
  <2>1. locks \in [Tx -> LockOrNone]
    BY TableTypes
  <2>2. mapTxLocks' = locks \/ mapTxLocks' = Expire(locks, {t, FirstHolder(t)})
    BY <1>2 DEF IxRejected
  <2>3. mapTxLocks' \in [Tx -> LockOrNone]
    BY <2>1, <2>2, TableTypes
  <2>4. mapLockedInputs' \in [Input -> Tx \cup {NoTx}]
    BY <1>2, TableTypes DEF IxRejected
  <2>5. mempool' \subseteq Tx /\ chain' \in Seq(SUBSET Tx)
    BY <1>2, ReprocessType DEF IxRejected, TypeOK
  <2>6. mapTxLockReq' \in [Tx -> {"absent", "tx", "empty"}]
    BY <1>2 DEF IxRejected, TypeOK
  <2> QED BY <1>2, <2>3, <2>4, <2>5, <2>6 DEF IxRejected, TypeOK, LockOrNone
<1>3. ASSUME NEW t \in Tx, NEW h \in Height, WalletSendIx(t, h)
      PROVE  TypeOK'
  <2>1. mapTxLocks' \in [Tx -> LockOrNone]
    BY <1>3, TableTypes DEF WalletSendIx
  <2> QED BY <1>3, <2>1 DEF WalletSendIx, TypeOK, LockOrNone
<1>4. ASSUME NEW t \in Tx, NEW h \in Height, NEW policy \in BOOLEAN,
             RpcSendIx(t, h, policy)
      PROVE  TypeOK'
  <2>1. mapTxLocks' \in [Tx -> LockOrNone]
    BY <1>4, TableTypes DEF RpcSendIx
  <2> QED BY <1>4, <2>1 DEF RpcSendIx, TypeOK, LockOrNone
<1>5. ASSUME NEW t \in Tx, AcceptTx(t) PROVE TypeOK'
  BY <1>5 DEF AcceptTx, TypeOK, lockVars
<1>6. ASSUME NEW t \in Tx, NEW m \in MN, DiscardVote(t, m) PROVE TypeOK'
  BY <1>6 DEF DiscardVote, TypeOK, VoteKey
<1>7. ASSUME NEW t \in Tx, NEW m \in MN, NEW h \in Height, CountVote(t, m, h)
      PROVE  TypeOK'
  <2>1. mapTxLocks' \in [Tx -> LockOrNone]
    BY <1>7, TableTypes DEF CountVote
  <2> QED BY <1>7, <2>1 DEF CountVote, TypeOK, LockOrNone, VoteKey
<1>8. ASSUME NEW t \in Tx, NEW m \in MN, NEW h \in Height, CompleteVote(t, m, h)
      PROVE  TypeOK'
  <2> DEFINE locks == AddSignature(t, m, h)
  <2>1. mapTxLocks' = locks \/ mapTxLocks' = Expire(locks, {t, FirstHolder(t)})
    BY <1>8 DEF CompleteVote
  <2>2. mapTxLocks' \in [Tx -> LockOrNone]
    BY <2>1, TableTypes
  <2>3. mapLockedInputs' \in [Input -> Tx \cup {NoTx}]
    BY <1>8, TableTypes DEF CompleteVote, TypeOK
  <2>4. mempool' \subseteq Tx /\ chain' \in Seq(SUBSET Tx)
    BY <1>8, ReprocessType DEF CompleteVote, TypeOK
  <2>5. mapTxLockReq' \in [Tx -> {"absent", "tx", "empty"}]
    BY <1>8 DEF CompleteVote, TypeOK
  <2>6. mapTxLockVote' \subseteq Tx \X MN /\ mapTxLockReqRejected' \subseteq Tx
    BY <1>8 DEF CompleteVote, TypeOK, VoteKey
  <2>7. UNCHANGED blockFiltering
    BY <1>8 DEF CompleteVote
  <2> QED BY <2>2, <2>3, <2>4, <2>5, <2>6, <2>7 DEF TypeOK, LockOrNone
<1>9. CASE CleanTransactionLocksList
  <2>1. mapTxLocks' \in [Tx -> LockOrNone]
    BY <1>0, <1>9 DEF CleanTransactionLocksList, LockOrNone
  <2> QED BY <1>9, <2>1 DEF CleanTransactionLocksList, TypeOK, LockOrNone
<1>10. ASSUME NEW B \in SUBSET Tx, ConnectBlock(B) PROVE TypeOK'
  <2>1. chain' \in Seq(SUBSET Tx)
    BY <1>10, AppendProperties DEF ConnectBlock, TypeOK
  <2> QED BY <1>10, <2>1 DEF ConnectBlock, TypeOK, lockVars
<1>11. CASE DisconnectTip
  <2>1. Len(chain) \in Nat /\ Len(chain) # 0 /\ \A i \in 1 .. Len(chain) : chain[i] \subseteq Tx
    BY <1>11, EmptySeq DEF DisconnectTip, TypeOK
  <2>2. chain' \in Seq(SUBSET Tx)
    BY <1>11, <2>1, SubSeqProperties DEF DisconnectTip
  <2> QED BY <1>11, <2>1, <2>2 DEF DisconnectTip, TypeOK, lockVars
<1>12. CASE Tick
  <2>1. ASSUME NEW t \in Tx, mapTxLocks[t].held, mapTxLocks[t].nExpiration >= 0
        PROVE  [mapTxLocks[t] EXCEPT !.nExpiration = @ - 1] \in Lock
    <3>1. mapTxLocks[t] \in Lock
      BY <1>0, <2>1, HeldIsLock
    <3>3. mapTxLocks[t].nExpiration \in -1 .. LockTicks
      BY <3>1 DEF Lock
    <3>2. mapTxLocks[t].nExpiration - 1 \in -1 .. LockTicks
      BY <2>1, <3>3, BoundsAssumption
    <3> QED BY <3>1, <3>2, LockUpdate
  <2>2. mapTxLocks' \in [Tx -> LockOrNone]
    BY <1>0, <1>12, <2>1 DEF Tick, LockOrNone
  <2> QED BY <1>12, <2>2 DEF Tick, TypeOK, LockOrNone
<1>13. CASE UNCHANGED vars
  BY <1>13 DEF vars, lockVars, TypeOK
<1>14. CASE SwitchBlockFiltering
  BY <1>14 DEF SwitchBlockFiltering, lockVars, TypeOK
<1> QED BY <1>1, <1>2, <1>3, <1>4, <1>5, <1>6, <1>7, <1>8, <1>9, <1>10, <1>11,
           <1>12, <1>13, <1>14 DEF Next

(* Every state of SwiftTX is well typed: the handlers, the cleaning and    *)
(* the chain steps keep the lock table a table of locks.                   *)
THEOREM SwiftTXTypeOK == Spec => []TypeOK
  BY TypeOKInit, TypeOKNext, PTL DEF Spec

-----------------------------------------------------------------------------
(* VotesOnce *)

(* What the table operations do to the votes and the height of a lock.     *)
LEMMA CreateNewLockFields ==
  ASSUME TypeOK, NEW t \in Tx, NEW h \in Height, NEW u \in Tx
  PROVE  LET l == CreateNewLock(t, h)[u]
         IN /\ l.votes \subseteq mapTxLocks[u].votes
            /\ u # t => l = mapTxLocks[u]
<1>1. mapTxLocks \in [Tx -> LockOrNone]
  BY DEF TypeOK, LockOrNone
<1>2. NewLock(h).votes = {}
  BY DEF NewLock
<1>3. [mapTxLocks[t] EXCEPT !.nBlockHeight = h].votes
        = mapTxLocks[t].votes
  BY <1>1 DEF LockOrNone, Lock, NoLock
<1> QED BY <1>1, <1>2, <1>3 DEF CreateNewLock

(* What AddSignature changes in the lock tables. *)
LEMMA AddSignatureFields ==
  ASSUME TypeOK, NEW t \in Tx, NEW m \in MN, NEW h \in Height, NEW u \in Tx
  PROVE  LET l == AddSignature(t, m, h)[u]
         IN /\ u # t => l = mapTxLocks[u]
            /\ u = t => /\ l.votes = mapTxLocks[t].votes \cup {<<m, h>>}
                        /\ l.nBlockHeight = mapTxLocks[t].nBlockHeight
<1>1. mapTxLocks \in [Tx -> LockOrNone]
  BY DEF TypeOK, LockOrNone
<1> DEFINE l0 == IF mapTxLocks[t].held THEN mapTxLocks[t] ELSE NewLock(0)
<1>2. l0 \in Lock
  BY <1>1, HeldIsLock, NewLockType, HeightAssumption
<1>3. ~mapTxLocks[t].held => mapTxLocks[t] = NoLock
  BY <1>1, HeldIsLock, Zenon DEF LockOrNone
<1>4. l0.votes = mapTxLocks[t].votes /\ l0.nBlockHeight = mapTxLocks[t].nBlockHeight
  BY <1>3 DEF NewLock, NoLock
<1>5. AddSignature(t, m, h) = [mapTxLocks EXCEPT ![t] = [l0 EXCEPT !.votes = @ \cup {<<m, h>>}]]
  BY DEF AddSignature
<1>6. /\ [l0 EXCEPT !.votes = @ \cup {<<m, h>>}].votes = l0.votes \cup {<<m, h>>}
      /\ [l0 EXCEPT !.votes = @ \cup {<<m, h>>}].nBlockHeight = l0.nBlockHeight
  BY <1>2 DEF Lock
<1> HIDE DEF l0
<1> QED BY <1>1, <1>4, <1>5, <1>6

(* What Expire changes: times only, no votes. *)
LEMMA ExpireFields ==
  ASSUME NEW locks \in [Tx -> LockOrNone], NEW S, NEW u \in Tx
  PROVE  /\ Expire(locks, S)[u].votes = locks[u].votes
         /\ Expire(locks, S)[u].nBlockHeight = locks[u].nBlockHeight
<1>1. Expire(locks, S)[u] = IF u \in S /\ locks[u].held
                            THEN [locks[u] EXCEPT !.nExpiration = 0] ELSE locks[u]
  BY DEF Expire
<1>2. locks[u] \in LockOrNone
  OBVIOUS
<1>3. /\ [locks[u] EXCEPT !.nExpiration = 0].votes = locks[u].votes
      /\ [locks[u] EXCEPT !.nExpiration = 0].nBlockHeight = locks[u].nBlockHeight
  BY <1>2 DEF LockOrNone, Lock, NoLock
<1> QED BY <1>1, <1>3

(* A complete lock has its height set.                                     *)
LEMMA EnoughHeight == \A l : Enough(l) => l.nBlockHeight # 0
  BY BoundsAssumption DEF Enough, CountSignatures

(* A step that adds no vote to any lock and forgets no key of a vote that  *)
(* is left keeps VotesOnce.                                                *)
LEMMA NoNewVotes ==
  ASSUME VotesOnce,
         \A u \in Tx : mapTxLocks'[u].votes \subseteq mapTxLocks[u].votes,
         \A u \in Tx : \A v \in mapTxLocks'[u].votes :
            VoteKey(u, v[1]) \in mapTxLockVote => VoteKey(u, v[1]) \in mapTxLockVote'
  PROVE  VotesOnce'
  BY DEF VotesOnce, VoteKey

(* A step that adds one vote, whose key was not seen, and its key keeps    *)
(* VotesOnce.                                                              *)
LEMMA OneNewVote ==
  ASSUME TypeOK, VotesOnce, NEW t \in Tx, NEW m \in MN, NEW h \in Height,
         VoteKey(t, m) \notin mapTxLockVote,
         mapTxLockVote' = mapTxLockVote \cup {VoteKey(t, m)},
         \A u \in Tx : u # t => mapTxLocks'[u].votes = mapTxLocks[u].votes,
         mapTxLocks'[t].votes = mapTxLocks[t].votes \cup {<<m, h>>}
  PROVE  VotesOnce'
<1> SUFFICES ASSUME NEW u \in Tx, NEW v \in mapTxLocks'[u].votes
             PROVE  /\ VoteKey(u, v[1]) \in mapTxLockVote'
                    /\ \A w \in mapTxLocks'[u].votes : w[1] = v[1] => w = v
  BY DEF VotesOnce, VoteKey
<1>1. CASE u # t
  BY <1>1 DEF VotesOnce
<1>2. CASE u = t
  <2>1. \A w \in mapTxLocks[t].votes : VoteKey(t, w[1]) \in mapTxLockVote
    BY DEF VotesOnce
  <2>2. \A w \in mapTxLocks[t].votes : w[1] # m
    BY <2>1
  <2>3. <<m, h>>[1] = m
    OBVIOUS
  <2> QED BY <1>2, <2>1, <2>2, <2>3 DEF VotesOnce
<1> QED BY <1>1, <1>2

(* Every handler keeps votes counted once. *)
LEMMA VotesOnceNext == TypeOK /\ VotesOnce /\ [Next]_vars => VotesOnce'
<1> SUFFICES ASSUME TypeOK, VotesOnce, [Next]_vars PROVE VotesOnce'
  OBVIOUS
<1>0. mapTxLocks \in [Tx -> LockOrNone]
  BY DEF TypeOK, LockOrNone
<1>1. ASSUME NEW t \in Tx, NEW h \in Height,
             mapTxLocks' = CreateNewLock(t, h),
             mapTxLockVote \subseteq mapTxLockVote'
      PROVE  VotesOnce'
  <2>1. \A u \in Tx : mapTxLocks'[u].votes \subseteq mapTxLocks[u].votes
    BY <1>1, CreateNewLockFields
  <2> QED BY <1>1, <2>1, NoNewVotes
<1>2. ASSUME NEW t \in Tx, NEW h \in Height, IxRejected(t, h)
      PROVE  VotesOnce'
  <2> DEFINE locks == CreateNewLock(t, h)
  <2>1. locks \in [Tx -> LockOrNone]
    BY TableTypes
  <2>2. mapTxLocks' = locks \/ mapTxLocks' = Expire(locks, {t, FirstHolder(t)})
    BY <1>2 DEF IxRejected
  <2>3. \A u \in Tx : mapTxLocks'[u].votes \subseteq mapTxLocks[u].votes
    BY <2>1, <2>2, CreateNewLockFields, ExpireFields
  <2>4. mapTxLockVote' = mapTxLockVote
    BY <1>2 DEF IxRejected
  <2> QED BY <2>3, <2>4, NoNewVotes
<1>3. ASSUME UNCHANGED mapTxLocks, mapTxLockVote \subseteq mapTxLockVote'
      PROVE  VotesOnce'
  BY <1>3, NoNewVotes
<1>4. ASSUME NEW t \in Tx, NEW m \in MN, NEW h \in Height, CountVote(t, m, h)
      PROVE  VotesOnce'
  <2>1. /\ \A u \in Tx : u # t => mapTxLocks'[u] = mapTxLocks[u]
        /\ mapTxLocks'[t].votes = mapTxLocks[t].votes \cup {<<m, h>>}
    BY <1>4, AddSignatureFields DEF CountVote
  <2> QED BY <1>4, <2>1, OneNewVote DEF CountVote
<1>5. ASSUME NEW t \in Tx, NEW m \in MN, NEW h \in Height, CompleteVote(t, m, h)
      PROVE  VotesOnce'
  <2> DEFINE locks == AddSignature(t, m, h)
  <2>1. locks \in [Tx -> LockOrNone]
    BY TableTypes
  <2>2. mapTxLocks' = locks \/ mapTxLocks' = Expire(locks, {t, FirstHolder(t)})
    BY <1>5 DEF CompleteVote
  <2>3. \A u \in Tx : mapTxLocks'[u].votes = locks[u].votes
    BY <2>1, <2>2, ExpireFields
  <2>4. /\ \A u \in Tx : u # t => locks[u] = mapTxLocks[u]
        /\ locks[t].votes = mapTxLocks[t].votes \cup {<<m, h>>}
    BY AddSignatureFields
  <2>5. /\ VoteKey(t, m) \notin mapTxLockVote
        /\ mapTxLockVote' = mapTxLockVote \cup {VoteKey(t, m)}
    BY <1>5 DEF CompleteVote
  <2> HIDE DEF locks
  <2> QED BY <2>3, <2>4, <2>5, OneNewVote
<1>6. CASE CleanTransactionLocksList
  <2> DEFINE expired == {t \in Tx : mapTxLocks[t].held /\ mapTxLocks[t].nExpiration < 0}
             known == {t \in expired : mapTxLockReq[t] # "absent"}
  <2>1. \A u \in Tx : mapTxLocks'[u] = IF u \in expired THEN NoLock ELSE mapTxLocks[u]
    BY <1>6 DEF CleanTransactionLocksList
  <2>2. mapTxLockVote' = {k \in mapTxLockVote :
          ~(k[1] \in known /\ \E v \in mapTxLocks[k[1]].votes : v[1] = k[2])}
    BY <1>6 DEF CleanTransactionLocksList
  <2>3. NoLock.votes = {}
    BY DEF NoLock
  <2>4. \A u \in Tx : mapTxLocks'[u].votes \subseteq mapTxLocks[u].votes
    BY <2>1, <2>3
  <2>5. ASSUME NEW u \in Tx, NEW v \in mapTxLocks'[u].votes,
               VoteKey(u, v[1]) \in mapTxLockVote
        PROVE  VoteKey(u, v[1]) \in mapTxLockVote'
    <3>1. u \notin expired
      BY <2>1, <2>3
    <3>2. u \notin known
      BY <3>1
    <3>3. VoteKey(u, v[1])[1] = u
      BY DEF VoteKey
    <3> HIDE DEF known
    <3> QED BY <2>2, <2>5, <3>2, <3>3
  <2> QED BY <2>4, <2>5, NoNewVotes
<1>7. CASE Tick
  <2>1. ASSUME NEW u \in Tx
        PROVE  mapTxLocks'[u].votes = mapTxLocks[u].votes
    <3>1. mapTxLocks'[u] = mapTxLocks[u] \/
            mapTxLocks'[u] = [mapTxLocks[u] EXCEPT !.nExpiration = @ - 1]
      BY <1>7 DEF Tick
    <3>2. mapTxLocks[u] \in LockOrNone
      BY <1>0
    <3> QED BY <3>1, <3>2 DEF LockOrNone, Lock, NoLock
  <2> QED BY <1>7, <2>1, NoNewVotes DEF Tick
<1>8. ASSUME NEW t \in Tx, NEW h \in Height, NEW votes \in BOOLEAN,
             IxAccepted(t, h, votes)
      PROVE  VotesOnce'
  BY <1>1, <1>8 DEF IxAccepted
<1>9. ASSUME NEW t \in Tx, NEW h \in Height, WalletSendIx(t, h)
      PROVE  VotesOnce'
  BY <1>1, <1>9 DEF WalletSendIx
<1>10. ASSUME NEW t \in Tx, NEW h \in Height, NEW policy \in BOOLEAN,
              RpcSendIx(t, h, policy)
       PROVE  VotesOnce'
  BY <1>1, <1>10 DEF RpcSendIx
<1>11. ASSUME NEW t \in Tx, NEW m \in MN, DiscardVote(t, m) PROVE VotesOnce'
  BY <1>3, <1>11 DEF DiscardVote
<1>12. ASSUME \/ \E t \in Tx : AcceptTx(t)
              \/ \E B \in SUBSET Tx : ConnectBlock(B)
       PROVE  VotesOnce'
  BY <1>3, <1>12 DEF AcceptTx, ConnectBlock, lockVars
<1>13. CASE DisconnectTip \/ SwitchBlockFiltering \/ UNCHANGED vars
  BY <1>3, <1>13 DEF DisconnectTip, SwitchBlockFiltering, vars, lockVars
<1> QED BY <1>2, <1>4, <1>5, <1>6, <1>7, <1>8, <1>9, <1>10, <1>11, <1>12, <1>13
        DEF Next

(* No masternode is counted twice in a lock, for any number of voters,     *)
(* heights and expiries: the dedup map mapTxLockVote keeps the key of each *)
(* counted vote while its lock lives.                                      *)
THEOREM SwiftTXVotesOnce == Spec => []VotesOnce
<1>1. Init => VotesOnce
  <2>1. NoLock.votes = {}
    BY DEF NoLock
  <2> QED BY <2>1 DEF Init, VotesOnce
<1> QED BY <1>1, SwiftTXTypeOK, VotesOnceNext, PTL DEF Spec

-----------------------------------------------------------------------------
(* The life of a lock *)

(* The step records a vote or a rejected request the node had not seen.    *)
Records ==
  \/ mapTxLockVote' \ mapTxLockVote # {}
  \/ mapTxLockReqRejected' \ mapTxLockReqRejected # {}

(* What one step may do to the lock l of u, k being the lock after it: its *)
(* votes stay, its expiry does not move away, except to the present when   *)
(* the step records something new, and only a request that the node then   *)
(* knows gives it its height.                                              *)
Grows(u, l, k) ==
  /\ l.votes \subseteq k.votes
  /\ k.nBlockHeight # l.nBlockHeight => ~Unknown(u)'
  /\ l.held => /\ k.held
               /\ k.nExpiration <= l.nExpiration \/ (k.nExpiration = 0 /\ Records)

(* The expiry of a lock is a number, and so is that of no lock.            *)
LEMMA ExpirationInt == \A l \in LockOrNone : l.nExpiration \in Int
<1>1. \A l \in Lock : l.nExpiration \in Int
  BY BoundsAssumption DEF Lock
<1>2. NoLock.nExpiration \in Int
  BY DEF NoLock
<1> QED BY <1>1, <1>2, Zenon DEF LockOrNone

(* CreateNewLock keeps the votes and the expiry of a lock that votes made. *)
LEMMA CreateNewLockGrows ==
  ASSUME TypeOK, NEW t \in Tx, NEW h \in Height, NEW u \in Tx, ~Unknown(t)'
  PROVE  /\ Grows(u, mapTxLocks[u], CreateNewLock(t, h)[u])
         /\ CreateNewLock(t, h)[u].votes = mapTxLocks[u].votes
<1>1. mapTxLocks \in [Tx -> LockOrNone]
  BY DEF TypeOK, LockOrNone
<1>u. u = t => ~Unknown(u)'
  BY DEF Unknown
<1>2. CASE CreateNewLock(t, h)[u] = mapTxLocks[u]
  <2>1. mapTxLocks[u].nExpiration \in Int
    BY <1>1, ExpirationInt
  <2> QED BY <1>2, <2>1 DEF Grows
<1>3. CASE u = t /\ h # 0 /\ mapTxLocks[t].held
  <2>1. mapTxLocks[t] \in Lock
    BY <1>1, <1>3, HeldIsLock
  <2>2. CreateNewLock(t, h)[u] = [mapTxLocks[t] EXCEPT !.nBlockHeight = h]
    BY <1>1, <1>3 DEF CreateNewLock
  <2>3. /\ CreateNewLock(t, h)[u].votes = mapTxLocks[u].votes
        /\ CreateNewLock(t, h)[u].nExpiration = mapTxLocks[u].nExpiration
        /\ CreateNewLock(t, h)[u].held
    BY <1>3, <2>1, <2>2, HeldIsLock DEF Lock
  <2>4. mapTxLocks[u].nExpiration \in Int
    BY <1>1, ExpirationInt
  <2> DEFINE k == CreateNewLock(t, h)[u]
  <2>5. mapTxLocks[u].votes \subseteq k.votes
    BY <2>3
  <2>6. ~Unknown(u)'
    BY <1>u, <1>3
  <2>7. k.held /\ k.nExpiration <= mapTxLocks[u].nExpiration
    BY <2>3, <2>4
  <2>8. Grows(u, mapTxLocks[u], k)
    BY <2>5, <2>6, <2>7 DEF Grows
  <2> QED BY <2>3, <2>8
<1>4. CASE u = t /\ h # 0 /\ ~mapTxLocks[t].held
  <2>1. mapTxLocks[t] = NoLock
    BY <1>1, <1>4, HeldIsLock, Zenon DEF LockOrNone
  <2>2. CreateNewLock(t, h)[u] = NewLock(h)
    BY <1>1, <1>4 DEF CreateNewLock
  <2>3. /\ CreateNewLock(t, h)[u].votes = mapTxLocks[u].votes
        /\ ~mapTxLocks[u].held
    <3>1. mapTxLocks[u] = NoLock /\ CreateNewLock(t, h)[u] = NewLock(h)
      BY <1>4, <2>1, <2>2
    <3>2. /\ NoLock.votes = {} /\ ~NoLock.held
          /\ NewLock(h).votes = {}
      BY DEF NewLock, NoLock
    <3> QED BY <3>1, <3>2
  <2>4. ~Unknown(u)'
    BY <1>u, <1>4
  <2>5. Grows(u, mapTxLocks[u], CreateNewLock(t, h)[u])
    BY <2>3, <2>4 DEF Grows
  <2> QED BY <2>3, <2>5
<1> QED BY <1>1, <1>2, <1>3, <1>4 DEF CreateNewLock

(* AddSignature adds a vote and changes nothing else of a lock.            *)
LEMMA AddSignatureGrows ==
  ASSUME TypeOK, NEW t \in Tx, NEW m \in MN, NEW h \in Height, NEW u \in Tx
  PROVE  Grows(u, mapTxLocks[u], AddSignature(t, m, h)[u])
<1>1. mapTxLocks \in [Tx -> LockOrNone]
  BY DEF TypeOK, LockOrNone
<1>2. mapTxLocks[u].nExpiration \in Int
  BY <1>1, ExpirationInt
<1>3. CASE u # t
  BY <1>2, <1>3, AddSignatureFields DEF Grows
<1>4. CASE u = t /\ ~mapTxLocks[u].held
  BY <1>4, AddSignatureFields DEF Grows
<1>5. CASE u = t /\ mapTxLocks[u].held
  <2>1. mapTxLocks[t] \in Lock
    BY <1>1, <1>5, HeldIsLock
  <2>2. AddSignature(t, m, h)[u] = [mapTxLocks[t] EXCEPT !.votes = @ \cup {<<m, h>>}]
    BY <1>1, <1>5 DEF AddSignature
  <2>3. /\ AddSignature(t, m, h)[u].nExpiration = mapTxLocks[t].nExpiration
        /\ AddSignature(t, m, h)[u].held
    BY <2>1, <2>2, HeldIsLock DEF Lock
  <2> QED BY <1>2, <1>5, <2>3, AddSignatureFields DEF Grows
<1> QED BY <1>3, <1>4, <1>5

(* Ending locks after such a change, in a step that records a vote or a    *)
(* request, brings their expiry to the present.                            *)
LEMMA ExpireGrows ==
  ASSUME TypeOK, Records, NEW locks \in [Tx -> LockOrNone], NEW S, NEW u \in Tx,
         Grows(u, mapTxLocks[u], locks[u])
  PROVE  Grows(u, mapTxLocks[u], Expire(locks, S)[u])
<1>1. Expire(locks, S)[u] = IF u \in S /\ locks[u].held
                            THEN [locks[u] EXCEPT !.nExpiration = 0] ELSE locks[u]
  BY DEF Expire
<1>2. CASE ~(u \in S /\ locks[u].held)
  BY <1>1, <1>2
<1>3. CASE u \in S /\ locks[u].held
  <2>1. locks[u] \in Lock
    BY <1>3, HeldIsLock
  <2>2. /\ Expire(locks, S)[u].nExpiration = 0
        /\ Expire(locks, S)[u].held = TRUE
    BY <1>1, <1>3, <2>1 DEF Lock
  <2>3. mapTxLocks[u].nExpiration \in Int
    BY ExpirationInt DEF TypeOK, LockOrNone
  <2> QED BY <2>2, <2>3, ExpireFields DEF Grows
<1> QED BY <1>2, <1>3

(* Every step lets a lock grow, or is the cleaning that drops it after its *)
(* expiry.                                                                 *)
LEMMA LockLife ==
  ASSUME TypeOK, [Next]_vars, NEW u \in Tx
  PROVE  \/ Grows(u, mapTxLocks[u], mapTxLocks'[u])
         \/ /\ CleanTransactionLocksList
            /\ mapTxLocks[u].held /\ mapTxLocks[u].nExpiration < 0
            /\ mapTxLocks'[u] = NoLock
<1>0. mapTxLocks \in [Tx -> LockOrNone]
  BY DEF TypeOK, LockOrNone
<1>a. mapTxLocks[u].nExpiration \in Int
  BY <1>0, ExpirationInt
<1>b. mapTxLocks'[u] = mapTxLocks[u] => Grows(u, mapTxLocks[u], mapTxLocks'[u])
  BY <1>a DEF Grows
<1>1. ASSUME NEW t \in Tx, NEW h \in Height, NEW votes \in BOOLEAN,
             IxAccepted(t, h, votes)
      PROVE  Grows(u, mapTxLocks[u], mapTxLocks'[u])
  BY <1>1, CreateNewLockGrows DEF IxAccepted, Unknown, TypeOK
<1>2. ASSUME NEW t \in Tx, NEW h \in Height, IxRejected(t, h)
      PROVE  Grows(u, mapTxLocks[u], mapTxLocks'[u])
  <2> DEFINE locks == CreateNewLock(t, h)
  <2>1. ~Unknown(t)'
    BY <1>2 DEF IxRejected, Unknown
  <2>2. Grows(u, mapTxLocks[u], locks[u])
    BY <2>1, CreateNewLockGrows
  <2>3. locks \in [Tx -> LockOrNone]
    BY TableTypes
  <2>4. mapTxLocks' = locks \/ mapTxLocks' = Expire(locks, {t, FirstHolder(t)})
    BY <1>2 DEF IxRejected
  <2>5. Records
    BY <1>2 DEF IxRejected, Unknown, Records
  <2> HIDE DEF locks
  <2> QED BY <2>2, <2>3, <2>4, <2>5, ExpireGrows
<1>3. ASSUME NEW t \in Tx, NEW h \in Height, WalletSendIx(t, h)
      PROVE  Grows(u, mapTxLocks[u], mapTxLocks'[u])
  BY <1>3, CreateNewLockGrows DEF WalletSendIx, Unknown, TypeOK
<1>4. ASSUME NEW t \in Tx, NEW h \in Height, NEW policy \in BOOLEAN,
             RpcSendIx(t, h, policy)
      PROVE  Grows(u, mapTxLocks[u], mapTxLocks'[u])
  BY <1>4, CreateNewLockGrows DEF RpcSendIx, Unknown, TypeOK
<1>5. ASSUME NEW t \in Tx, NEW m \in MN, NEW h \in Height,
             CountVote(t, m, h) \/ CompleteVote(t, m, h)
      PROVE  Grows(u, mapTxLocks[u], mapTxLocks'[u])
  <2> DEFINE locks == AddSignature(t, m, h)
  <2>1. Grows(u, mapTxLocks[u], locks[u])
    BY AddSignatureGrows
  <2>2. locks \in [Tx -> LockOrNone]
    BY TableTypes
  <2>3. mapTxLocks' = locks \/ mapTxLocks' = Expire(locks, {t, FirstHolder(t)})
    BY <1>5 DEF CountVote, CompleteVote
  <2>4. Records
    BY <1>5 DEF CountVote, CompleteVote, Records
  <2> HIDE DEF locks
  <2> QED BY <2>1, <2>2, <2>3, <2>4, ExpireGrows
<1>6. CASE CleanTransactionLocksList
  BY <1>b, <1>6 DEF CleanTransactionLocksList
<1>7. CASE Tick
  <2>1. CASE mapTxLocks[u].held /\ mapTxLocks[u].nExpiration >= 0
    <3>1. mapTxLocks[u] \in Lock
      BY <1>0, <2>1, HeldIsLock
    <3>2. mapTxLocks'[u] = [mapTxLocks[u] EXCEPT !.nExpiration = @ - 1]
      BY <1>7, <2>1 DEF Tick
    <3> QED BY <1>a, <3>1, <3>2 DEF Grows, Lock
  <2>2. CASE ~(mapTxLocks[u].held /\ mapTxLocks[u].nExpiration >= 0)
    BY <1>7, <1>b, <2>2 DEF Tick
  <2> QED BY <2>1, <2>2
<1>8. ASSUME UNCHANGED mapTxLocks PROVE Grows(u, mapTxLocks[u], mapTxLocks'[u])
  BY <1>b, <1>8
<1> QED BY <1>1, <1>2, <1>3, <1>4, <1>5, <1>6, <1>7, <1>8
        DEF Next, AcceptTx, DiscardVote, ConnectBlock, DisconnectTip,
            SwitchBlockFiltering, vars, lockVars

(* Every handler keeps a request behind a lock with a height.              *)
LEMMA RequestBehindLockNext ==
  TypeOK /\ RequestBehindLock /\ [Next]_vars => RequestBehindLock'
<1> SUFFICES ASSUME TypeOK, RequestBehindLock, [Next]_vars, NEW u \in Tx
             PROVE  /\ mapTxLocks'[u].nBlockHeight # 0 => ~Unknown(u)'
                    /\ mapTxLockReq'[u] = "empty" => u \in mapTxLockReqRejected'
  BY DEF RequestBehindLock
<1>0. /\ mapTxLocks[u].nBlockHeight # 0 => ~Unknown(u)
      /\ mapTxLockReq[u] = "empty" => u \in mapTxLockReqRejected
  BY DEF RequestBehindLock
<1>1. CASE CleanTransactionLocksList
  <2> DEFINE expired == {t \in Tx : mapTxLocks[t].held /\ mapTxLocks[t].nExpiration < 0}
             known == {t \in expired : mapTxLockReq[t] # "absent"}
  <2>1. /\ mapTxLocks'[u] = IF u \in expired THEN NoLock ELSE mapTxLocks[u]
        /\ mapTxLockReq'[u] = IF u \in known THEN "absent" ELSE mapTxLockReq[u]
        /\ mapTxLockReqRejected' = mapTxLockReqRejected \ known
    BY <1>1 DEF CleanTransactionLocksList
  <2>2. NoLock.nBlockHeight = 0
    BY DEF NoLock
  <2>3. known \subseteq expired
    OBVIOUS
  <2> HIDE DEF expired, known
  <2> QED BY <1>0, <2>1, <2>2, <2>3 DEF Unknown
<1>2. CASE ~CleanTransactionLocksList
  <2>1. mapTxLocks'[u].nBlockHeight # mapTxLocks[u].nBlockHeight => ~Unknown(u)'
    BY <1>2, LockLife DEF Grows
  <2>2. ~Unknown(u) => ~Unknown(u)'
    BY <1>2 DEF Next, IxAccepted, IxRejected, WalletSendIx, RpcSendIx, AcceptTx,
                DiscardVote, CountVote, CompleteVote, ConnectBlock, DisconnectTip,
                SwitchBlockFiltering, Tick, vars, lockVars, Unknown, TypeOK
  <2>3. mapTxLocks'[u].nBlockHeight # 0 => ~Unknown(u)'
    BY <1>0, <2>1, <2>2
  <2>4. mapTxLockReq'[u] = "empty" => u \in mapTxLockReqRejected'
    <3>1. ASSUME NEW t \in Tx, NEW m \in MN, NEW h \in Height, CompleteVote(t, m, h)
          PROVE  mapTxLockReq'[u] = "empty" => u \in mapTxLockReqRejected'
      <4>1. Enough(AddSignature(t, m, h)[t])
        BY <3>1 DEF CompleteVote
      <4>2. mapTxLocks[t].nBlockHeight # 0
        BY <4>1, EnoughHeight, AddSignatureFields
      <4>3. mapTxLockReq[t] = "absent" => t \in mapTxLockReqRejected
        BY <4>2 DEF RequestBehindLock, Unknown
      <4> QED BY <1>0, <3>1, <4>3 DEF CompleteVote, TypeOK
    <3>2. ASSUME ~\E t \in Tx, m \in MN, h \in Height : CompleteVote(t, m, h)
          PROVE  mapTxLockReq'[u] = "empty" => u \in mapTxLockReqRejected'
      BY <1>0, <1>2, <3>2
         DEF Next, IxAccepted, IxRejected, WalletSendIx, RpcSendIx, AcceptTx,
             DiscardVote, CountVote, ConnectBlock, DisconnectTip,
             SwitchBlockFiltering, Tick, vars, lockVars, TypeOK
    <3> QED BY <3>1, <3>2
  <2> QED BY <2>3, <2>4
<1> QED BY <1>1, <1>2

(* A lock that can complete belongs to a request the node knows, and an    *)
(* empty request only ever stands for a rejected one: mapTxLockReq's       *)
(* operator[] never invents a request nobody made.                         *)
THEOREM SwiftTXRequestBehindLock == Spec => []RequestBehindLock
<1>1. Init => RequestBehindLock
  <2>1. NoLock.nBlockHeight = 0
    BY DEF NoLock
  <2> QED BY <2>1 DEF Init, RequestBehindLock
<1> QED BY <1>1, SwiftTXTypeOK, RequestBehindLockNext, PTL DEF Spec

-----------------------------------------------------------------------------
(* What no step may do *)

(* Reprocessing brings no transaction into the chain, and into the pool    *)
(* only compatible ones; what stays of the blocks it replays passed the    *)
(* filter.                                                                 *)
LEMMA ReprocessKeeps ==
  ASSUME TypeOK, NEW locked, ReprocessBlocks(locked)
  PROVE  /\ InChain' \subseteq InChain
         /\ \A t \in mempool' \ mempool : Compatible(t, locked)
         /\ \A i \in DOMAIN chain' :
              i > Len(chain) - REPLAYED => PassesFilter(chain'[i], locked)
<1>1. PICK n \in Kept(locked) :
        /\ chain' = SubSeq(chain, 1, n)
        /\ mempool' = mempool \cup
             {t \in UNION {chain[i] : i \in (n + 1) .. Len(chain)} : Compatible(t, locked)}
  BY DEF ReprocessBlocks
<1>2. /\ n \in 0 .. Len(chain) /\ chain \in Seq(SUBSET Tx) /\ Len(chain) \in Nat
      /\ \A i \in 1 .. n : i > Len(chain) - REPLAYED => PassesFilter(chain[i], locked)
      /\ DOMAIN chain = 1 .. Len(chain)
  BY DEF Kept, TypeOK
<1>3. /\ DOMAIN chain' = 1 .. n
      /\ \A i \in 1 .. n : chain'[i] = chain[i]
  BY <1>1, <1>2, SubSeqProperties
<1>4. InChain' \subseteq InChain
  BY <1>2, <1>3 DEF InChain
<1>5. \A i \in DOMAIN chain' :
        i > Len(chain) - REPLAYED => PassesFilter(chain'[i], locked)
  BY <1>2, <1>3
<1>6. \A t \in mempool' \ mempool : Compatible(t, locked)
  BY <1>1
<1> QED BY <1>4, <1>5, <1>6

(* Connecting a block adds its transactions to the chain and nothing else; *)
(* disconnecting the tip adds nothing to the chain.                        *)
LEMMA ChainSteps ==
  ASSUME TypeOK
  PROVE  /\ \A B \in SUBSET Tx : ConnectBlock(B) =>
              InChain' \subseteq InChain \cup B /\ mempool' \subseteq mempool
         /\ DisconnectTip => InChain' \subseteq InChain
<1>0. chain \in Seq(SUBSET Tx) /\ Len(chain) \in Nat /\ DOMAIN chain = 1 .. Len(chain)
  BY DEF TypeOK
<1>1. ASSUME NEW B \in SUBSET Tx, ConnectBlock(B)
      PROVE  InChain' \subseteq InChain \cup B /\ mempool' \subseteq mempool
  <2>1. chain' = Append(chain, B) /\ mempool' \subseteq mempool
    BY <1>1 DEF ConnectBlock
  <2>2. /\ DOMAIN chain' = 1 .. Len(chain) + 1
        /\ \A i \in 1 .. Len(chain) + 1 :
             chain'[i] = IF i <= Len(chain) THEN chain[i] ELSE B
    BY <1>0, <2>1
  <2> QED BY <1>0, <2>1, <2>2 DEF InChain
<1>2. ASSUME DisconnectTip PROVE InChain' \subseteq InChain
  <2>1. Len(chain) # 0
    BY <1>0, <1>2, EmptySeq DEF DisconnectTip
  <2>2. /\ DOMAIN chain' = 1 .. Len(chain) - 1
        /\ \A i \in 1 .. Len(chain) - 1 : chain'[i] = chain[i]
    BY <1>0, <1>2, <2>1, SubSeqProperties DEF DisconnectTip
  <2> QED BY <1>0, <2>1, <2>2 DEF InChain
<1> QED BY <1>1, <1>2

(* Locks bind: on no path does a transaction enter the pool against an     *)
(* input lock in force after the step, and it enters the chain against one *)
(* only while SPORK_3 has switched block filtering off.                    *)
THEOREM SwiftTXLockedInputsRespected == Spec => LockedInputsRespected
<1>1. TypeOK /\ [Next]_vars =>
        [\A t \in Tx :
          (\/ t \in mempool' /\ t \notin mempool
           \/ blockFiltering /\ t \in InChain' /\ t \notin InChain)
            => Compatible(t, mapLockedInputs')]_vars
  <2> SUFFICES ASSUME TypeOK, Next, NEW t \in Tx,
                      \/ t \in mempool' /\ t \notin mempool
                      \/ blockFiltering /\ t \in InChain' /\ t \notin InChain
               PROVE  Compatible(t, mapLockedInputs')
    OBVIOUS
  <2>0. ASSUME UNCHANGED chain PROVE InChain' = InChain
    BY <2>0 DEF InChain
  <2>1. ASSUME NEW u \in Tx, Acceptable(u), mempool' = mempool \cup {u},
               UNCHANGED <<chain, mapLockedInputs>>
        PROVE  Compatible(t, mapLockedInputs')
    BY <2>0, <2>1 DEF Acceptable
  <2>2. ASSUME UNCHANGED <<mempool, chain>> PROVE FALSE
    BY <2>0, <2>2
  <2>3. ASSUME ReprocessBlocks(mapLockedInputs')
        PROVE  Compatible(t, mapLockedInputs')
    BY <2>3, ReprocessKeeps
  <2>4. ASSUME NEW B \in SUBSET Tx, ConnectBlock(B)
        PROVE  Compatible(t, mapLockedInputs')
    <3>1. blockFiltering /\ t \in B
      BY <2>4, ChainSteps
    <3> QED BY <2>4, <3>1 DEF ConnectBlock, PassesFilter, lockVars
  <2>5. CASE DisconnectTip
    <3>1. t \in mempool' /\ t \notin mempool
      BY <2>5, ChainSteps
    <3> QED BY <2>5, <3>1 DEF DisconnectTip, lockVars
  <2>6. ASSUME NEW u \in Tx, NEW h \in Height, IxRejected(u, h)
        PROVE  Compatible(t, mapLockedInputs')
    BY <2>2, <2>3, <2>6 DEF IxRejected
  <2>7. ASSUME NEW u \in Tx, NEW m \in MN, NEW h \in Height, CompleteVote(u, m, h)
        PROVE  Compatible(t, mapLockedInputs')
    BY <2>2, <2>3, <2>7 DEF CompleteVote
  <2> QED BY <2>1, <2>2, <2>4, <2>5, <2>6, <2>7
          DEF Next, IxAccepted, WalletSendIx, RpcSendIx, AcceptTx, DiscardVote,
              CountVote, CleanTransactionLocksList, SwitchBlockFiltering, Tick,
              lockVars
<1> QED BY <1>1, SwiftTXTypeOK, PTL DEF Spec, LockedInputsRespected

(* The first lock of an input wins: no step passes it to another           *)
(* transaction, and only the cleaning of an expired lock releases it.      *)
THEOREM SwiftTXFirstLockWins == Spec => FirstLockWins
<1>1. TypeOK /\ [Next]_vars =>
        [\A o \in Input : mapLockedInputs'[o] # mapLockedInputs[o] =>
           \/ mapLockedInputs[o] = NoTx
           \/ /\ mapLockedInputs'[o] = NoTx
              /\ \E t \in Tx : /\ o \in Ins(t)
                               /\ mapTxLocks[t].held
                               /\ mapTxLocks[t].nExpiration < 0]_vars
  <2> SUFFICES ASSUME TypeOK, Next, NEW o \in Input,
                      mapLockedInputs'[o] # mapLockedInputs[o],
                      mapLockedInputs[o] # NoTx
               PROVE  /\ mapLockedInputs'[o] = NoTx
                      /\ \E t \in Tx : /\ o \in Ins(t)
                                       /\ mapTxLocks[t].held
                                       /\ mapTxLocks[t].nExpiration < 0
    OBVIOUS
  <2>1. ASSUME NEW t \in Tx, mapLockedInputs' = LockInputs(t) PROVE FALSE
    BY <2>1 DEF LockInputs
  <2>2. ASSUME NEW t \in Tx, NEW m \in MN, NEW h \in Height, CompleteVote(t, m, h)
        PROVE  FALSE
    BY <2>1, <2>2 DEF CompleteVote
  <2>3. CASE CleanTransactionLocksList
    BY <2>3 DEF CleanTransactionLocksList
  <2> QED BY <2>1, <2>2, <2>3
          DEF Next, IxAccepted, IxRejected, WalletSendIx, RpcSendIx, AcceptTx,
              DiscardVote, CountVote, ConnectBlock, DisconnectTip,
              SwitchBlockFiltering, Tick, lockVars
<1> QED BY <1>1, SwiftTXTypeOK, PTL DEF Spec, FirstLockWins

(* A lock with the same height and more votes counts at least as many.     *)
LEMMA MoreVotesEnough ==
  ASSUME NEW l, NEW k, k.votes \subseteq MN \X Height, l.votes \subseteq k.votes,
         k.nBlockHeight = l.nBlockHeight, Enough(l)
  PROVE  Enough(k)
<1> DEFINE L == {v \in l.votes : v[2] = l.nBlockHeight}
           K == {v \in k.votes : v[2] = l.nBlockHeight}
<1>1. IsFiniteSet(MN \X Height)
  BY BoundsAssumption, FS_Product
<1>2. IsFiniteSet(K) /\ L \subseteq K /\ K \subseteq MN \X Height
  <2>1. K \subseteq MN \X Height
    OBVIOUS
  <2> QED BY <1>1, <2>1, FS_Subset
<1>3. IsFiniteSet(L) /\ Cardinality(L) <= Cardinality(K)
  BY <1>2, FS_Subset
<1>4. Cardinality(L) \in Nat /\ Cardinality(K) \in Nat
  BY <1>2, <1>3, FS_CardinalityType
<1> QED BY <1>3, <1>4, BoundsAssumption DEF Enough, CountSignatures

(* A complete lock stays complete until it has expired: no vote, request   *)
(* or resend takes its confirmations back, unless a repeated request finds *)
(* its input at another height.                                            *)
THEOREM SwiftTXCompleteIsStable == Spec => CompleteIsStable
<1>1. TypeOK /\ TypeOK' /\ [Next]_vars =>
        [\A t \in Tx :
           mapTxLocks'[t] # mapTxLocks[t] /\ Complete(t) =>
             \/ Complete(t)'
             \/ mapTxLocks[t].nExpiration < 0
             \/ mapTxLocks'[t].nBlockHeight # mapTxLocks[t].nBlockHeight]_vars
  <2> SUFFICES ASSUME TypeOK, TypeOK', Next, NEW t \in Tx, Complete(t),
                      ~(mapTxLocks[t].nExpiration < 0),
                      mapTxLocks'[t].nBlockHeight = mapTxLocks[t].nBlockHeight
               PROVE  Complete(t)'
    OBVIOUS
  <2>1. Grows(t, mapTxLocks[t], mapTxLocks'[t])
    BY LockLife
  <2>2. mapTxLocks[t].held /\ Enough(mapTxLocks[t])
    BY DEF Complete
  <2>5. mapTxLocks'[t].votes \subseteq MN \X Height
    <3>1. mapTxLocks'[t] \in LockOrNone
      BY DEF TypeOK, LockOrNone
    <3>2. \A l \in Lock : l.votes \subseteq MN \X Height
      BY DEF Lock
    <3>3. NoLock.votes = {}
      BY DEF NoLock
    <3> QED BY <3>1, <3>2, <3>3 DEF LockOrNone
  <2>6. Enough(mapTxLocks'[t])
    BY <2>1, <2>2, <2>5, MoreVotesEnough DEF Grows
  <2> QED BY <2>1, <2>2, <2>6 DEF Grows, Complete
<1> QED BY <1>1, SwiftTXTypeOK, PTL DEF Spec, CompleteIsStable

(* No step prolongs a lock, except that cancelling conflicting locks, with *)
(* a vote or a rejected request that is new to the node, sets the expiry   *)
(* of both to the present; the step that drops a lock frees the inputs of  *)
(* its known request.                                                      *)
THEOREM SwiftTXLocksEnd == Spec => LocksEnd
<1>1. TypeOK /\ [Next]_vars =>
        [\A t \in Tx : mapTxLocks[t].held =>
           IF mapTxLocks'[t].held
           THEN \/ mapTxLocks'[t].nExpiration <= mapTxLocks[t].nExpiration
                \/ /\ mapTxLocks'[t].nExpiration = 0
                   /\ \/ mapTxLockVote' \ mapTxLockVote # {}
                      \/ mapTxLockReqRejected' \ mapTxLockReqRejected # {}
           ELSE mapTxLockReq[t] = "tx" =>
                  \A o \in Ins(t) : mapLockedInputs'[o] = NoTx]_vars
  <2> SUFFICES ASSUME TypeOK, Next, NEW t \in Tx, mapTxLocks[t].held
               PROVE  IF mapTxLocks'[t].held
                      THEN \/ mapTxLocks'[t].nExpiration <= mapTxLocks[t].nExpiration
                           \/ /\ mapTxLocks'[t].nExpiration = 0
                              /\ \/ mapTxLockVote' \ mapTxLockVote # {}
                                 \/ mapTxLockReqRejected' \ mapTxLockReqRejected # {}
                      ELSE mapTxLockReq[t] = "tx" =>
                             \A o \in Ins(t) : mapLockedInputs'[o] = NoTx
    OBVIOUS
  <2>1. CASE Grows(t, mapTxLocks[t], mapTxLocks'[t])
    BY <2>1 DEF Grows, Records
  <2>2. CASE /\ CleanTransactionLocksList /\ mapTxLocks[t].nExpiration < 0
             /\ mapTxLocks'[t] = NoLock
    <3>1. ASSUME mapTxLockReq[t] = "tx", NEW o \in Ins(t)
          PROVE  mapLockedInputs'[o] = NoTx
      <4>1. o \in Input
        BY VinAssumption DEF Ins
      <4> QED BY <2>2, <3>1, <4>1 DEF CleanTransactionLocksList
    <3>2. ~mapTxLocks'[t].held
      BY <2>2 DEF NoLock
    <3> QED BY <3>1, <3>2
  <2> QED BY <2>1, <2>2, LockLife
<1> QED BY <1>1, SwiftTXTypeOK, PTL DEF Spec, LocksEnd

(* Only a vote for a transaction or the cleaning changes its votes.        *)
LEMMA VotesChange ==
  ASSUME TypeOK, [Next]_vars, NEW u \in Tx,
         mapTxLocks'[u].votes # mapTxLocks[u].votes
  PROVE  \/ mapTxLocks'[u] = NoLock
         \/ \E m \in MN, h \in Height : CountVote(u, m, h) \/ CompleteVote(u, m, h)
<1>0. mapTxLocks \in [Tx -> LockOrNone]
  BY DEF TypeOK, LockOrNone
<1>1. ASSUME NEW t \in Tx, NEW h \in Height, ~Unknown(t)',
             \/ mapTxLocks' = CreateNewLock(t, h)
             \/ mapTxLocks' = Expire(CreateNewLock(t, h), {t, FirstHolder(t)})
      PROVE  FALSE
  <2>1. CreateNewLock(t, h)[u].votes = mapTxLocks[u].votes
    BY <1>1, CreateNewLockGrows
  <2>2. CreateNewLock(t, h) \in [Tx -> LockOrNone]
    BY TableTypes
  <2> QED BY <1>1, <2>1, <2>2, ExpireFields
<1>2. ASSUME NEW t \in Tx, NEW h \in Height, IxRejected(t, h) PROVE FALSE
  BY <1>1, <1>2 DEF IxRejected, Unknown
<1>3. ASSUME NEW t \in Tx, NEW h \in Height, NEW votes \in BOOLEAN,
             IxAccepted(t, h, votes) \/ WalletSendIx(t, h)
               \/ RpcSendIx(t, h, votes)
      PROVE  FALSE
  BY <1>1, <1>3 DEF IxAccepted, WalletSendIx, RpcSendIx, Unknown, TypeOK
<1>4. ASSUME NEW t \in Tx, NEW m \in MN, NEW h \in Height,
             CountVote(t, m, h) \/ CompleteVote(t, m, h)
      PROVE  u = t
  <2> DEFINE locks == AddSignature(t, m, h)
  <2>1. locks \in [Tx -> LockOrNone]
    BY TableTypes
  <2>2. mapTxLocks' = locks \/ mapTxLocks' = Expire(locks, {t, FirstHolder(t)})
    BY <1>4 DEF CountVote, CompleteVote
  <2>3. u # t => locks[u] = mapTxLocks[u]
    BY AddSignatureFields
  <2> HIDE DEF locks
  <2> QED BY <2>1, <2>2, <2>3, ExpireFields
<1>5. CASE CleanTransactionLocksList
  BY <1>5 DEF CleanTransactionLocksList
<1>6. CASE Tick
  <2>1. mapTxLocks'[u] = mapTxLocks[u] \/
          mapTxLocks'[u] = [mapTxLocks[u] EXCEPT !.nExpiration = @ - 1]
    BY <1>6 DEF Tick
  <2>2. mapTxLocks[u] \in LockOrNone
    BY <1>0
  <2> QED BY <2>1, <2>2 DEF LockOrNone, Lock, NoLock
<1>7. ASSUME UNCHANGED mapTxLocks PROVE FALSE
  BY <1>7
<1> QED BY <1>2, <1>3, <1>4, <1>5, <1>6, <1>7
        DEF Next, AcceptTx, DiscardVote, ConnectBlock, DisconnectTip,
            SwitchBlockFiltering, vars, lockVars

(* While blocks are filtered, a rejected request whose lock becomes        *)
(* complete on all its inputs, by a vote or by the request itself, leaves  *)
(* no conflicting block among the last REPLAYED ones after that very step. *)
THEOREM SwiftTXRejectedThenLocked == Spec => RejectedThenLocked
<1>1. TypeOK /\ [Next]_vars =>
        [\A t \in Tx :
          (/\ blockFiltering
           /\ t \in mapTxLockReqRejected'
           /\ \/ mapTxLocks[t].votes # mapTxLocks'[t].votes
              \/ t \notin mapTxLockReqRejected
           /\ Complete(t)'
           /\ \A o \in Ins(t) : mapLockedInputs'[o] = t)
          => \A i \in DOMAIN chain' : i > Len(chain) - REPLAYED =>
               \A u \in chain'[i] : ~Conflict(t, u)]_vars
  <2> SUFFICES ASSUME TypeOK, Next, NEW t \in Tx, blockFiltering,
                      \/ mapTxLocks[t].votes # mapTxLocks'[t].votes
                      \/ t \notin mapTxLockReqRejected,
                      t \in mapTxLockReqRejected', Complete(t)',
                      \A o \in Ins(t) : mapLockedInputs'[o] = t
               PROVE  \A i \in DOMAIN chain' : i > Len(chain) - REPLAYED =>
                        \A u \in chain'[i] : ~Conflict(t, u)
    OBVIOUS
  <2> DEFINE Removed == \A i \in DOMAIN chain' : i > Len(chain) - REPLAYED =>
                          \A u \in chain'[i] : ~Conflict(t, u)
  <2>0. t # NoTx /\ \A i \in DOMAIN vin[t] : vin[t][i] \in Ins(t) /\ vin[t][i] \in Input
    BY NoTxAssumption, VinAssumption DEF Ins
  <2>1. ASSUME ReprocessBlocks(mapLockedInputs')
        PROVE  Removed
    <3>1. \A i \in DOMAIN chain' : i > Len(chain) - REPLAYED =>
            \A u \in chain'[i] : Compatible(u, mapLockedInputs')
      BY <2>1, ReprocessKeeps DEF PassesFilter
    <3> QED BY <2>0, <3>1 DEF Compatible, Conflict
  <2>2. ASSUME ConflictAt(t) # {},
               mapLockedInputs' = LockInputs(t) \/ UNCHANGED mapLockedInputs
        PROVE  FALSE
    <3>1. PICK i \in DOMAIN vin[t] : mapLockedInputs[vin[t][i]] \notin {NoTx, t}
      BY <2>2 DEF ConflictAt
    <3>2. mapLockedInputs'[vin[t][i]] = mapLockedInputs[vin[t][i]]
      BY <2>0, <2>2, <3>1 DEF LockInputs
    <3> QED BY <2>0, <3>1, <3>2
  <2>3. ASSUME NEW h \in Height, IxRejected(t, h)
        PROVE  Removed
    <3> DEFINE locks == CreateNewLock(t, h)
    <3>1. mapTxLocks' = locks => locks[t].held /\ Enough(locks[t])
      BY DEF Complete
    <3>2. mapLockedInputs' = LockInputs(t)
      BY <2>3 DEF IxRejected
    <3> QED BY <2>1, <2>2, <2>3, <3>1, <3>2 DEF IxRejected
  <2>4. ASSUME NEW m \in MN, NEW h \in Height, CompleteVote(t, m, h)
        PROVE  Removed
    <3>1. t \in mapTxLockReqRejected
      BY <2>4 DEF CompleteVote
    <3> QED BY <2>1, <2>2, <2>4, <3>1 DEF CompleteVote
  <2>5. ASSUME NEW m \in MN, NEW h \in Height, CountVote(t, m, h) PROVE FALSE
    BY <2>5 DEF CountVote, Complete
  <2>6. mapTxLocks'[t] # NoLock
    BY DEF NoLock, Complete
  <2>7. ASSUME t \notin mapTxLockReqRejected
        PROVE  \E h \in Height : IxRejected(t, h)
    BY <2>7 DEF Next, IxAccepted, IxRejected, WalletSendIx, RpcSendIx, AcceptTx,
                DiscardVote, CountVote, CompleteVote, CleanTransactionLocksList,
                ConnectBlock, DisconnectTip, SwitchBlockFiltering, Tick, lockVars
  <2> HIDE DEF Removed
  <2>8. Removed
    BY <2>3, <2>4, <2>5, <2>6, <2>7, VotesChange
  <2> QED BY <2>8 DEF Removed
<1> QED BY <1>1, SwiftTXTypeOK, PTL DEF Spec, RejectedThenLocked

=============================================================================
