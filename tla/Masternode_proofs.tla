-------------------------- MODULE Masternode_proofs --------------------------
(***************************************************************************)
(* Proofs about MasternodeSync and MasternodeMan, two objects that share   *)
(* no state.  The synchronisation: type correctness and that a stage is    *)
(* left without its items only while payments are not enforced or when a   *)
(* reset falls inside GetNextAsset.  Good is the inductive invariant of the*)
(* object; each operator of the module preserves it.  The list: ManInv is  *)
(* inductive, and every action but the clock moves pings forward.          *)
(***************************************************************************)
EXTENDS MasternodeSync, MasternodeMan, WellFoundedInduction, TLAPS

(* A stage after LIST (MNW) has seen a masternode (a winner), unless LIST  *)
(* (MNW) was skipped.                                                      *)
HasData(s) ==
  \A a \in {LIST, MNW} \ s.skipped :
    s.assets \notin {FAILED} \cup 0 .. a => s.last[a] # Never

(* The object is well typed, SPORKS asks at most three peers, and the data *)
(* of the earlier stages is there.                                         *)
Good(s) ==
  /\ s \in SyncState
  /\ s.assets = SPORKS => s.attempt <= 2
  /\ HasData(s)

IndInv ==
  /\ Good(sync)
  /\ fulfilled \in [Peer -> SUBSET Request]
  /\ fBlockchainSynced \in BOOLEAN
  /\ slept \in BOOLEAN
  /\ enabled \in BOOLEAN
  /\ spork8 \in BOOLEAN

(* Reset leaves a good object (masternode-sync.cpp, Reset).                *)
LEMMA GoodCleared == Good(Cleared) /\ Cleared.assets = INITIAL
  BY TimeAssumption, ThresholdAssumption
  DEF Good, Cleared, SyncState, HasData, Asset, Item, INITIAL, SPORKS, LIST, MNW,
      BUDGET, FAILED, FINISHED, OldItem, OldStart, OldFailure

(* What GetNextAsset makes of the fields.                                  *)
LEMMA NextFields ==
  ASSUME NEW s \in SyncState, NEW raced \in BOOLEAN
  PROVE  LET t == GetNextAsset(s, raced)
         IN /\ t \in SyncState
            /\ t.assets = Successor(s.assets) /\ t.attempt = 0
            /\ ~raced => t.last = s.last /\ t.skipped = s.skipped
            /\ raced => t.skipped = {a \in {LIST, MNW} : a <= s.assets}
<1>1. Cleared \in SyncState
  BY GoodCleared DEF Good
<1>2. Successor(s.assets) \in Asset
  BY DEF Successor, Asset, INITIAL, SPORKS, LIST, MNW, BUDGET, FAILED, FINISHED
<1>3. 0 \in 0 .. THRESHOLD * 3 /\ 0 \in 0 .. OldStart
  BY TimeAssumption, ThresholdAssumption DEF OldStart
<1>4. CASE raced
  <2> DEFINE sk == {a \in {LIST, MNW} : a <= s.assets}
  <2>1. sk \in SUBSET {LIST, MNW}
    OBVIOUS
  <2> HIDE DEF sk
  <2>2. GetNextAsset(s, raced) =
          [Cleared EXCEPT !.assets = Successor(s.assets), !.attempt = 0,
                          !.started = 0, !.skipped = sk]
    BY <1>4 DEF GetNextAsset, Reset, sk
  <2>3. GetNextAsset(s, raced).skipped = sk
    BY <1>1, <2>2 DEF SyncState
  <2>4. /\ GetNextAsset(s, raced) \in SyncState
        /\ GetNextAsset(s, raced).assets = Successor(s.assets)
        /\ GetNextAsset(s, raced).attempt = 0
    BY <1>1, <1>2, <1>3, <2>1, <2>2 DEF SyncState
  <2> QED BY <1>4, <2>3, <2>4 DEF sk
<1>5. CASE ~raced
  <2>1. GetNextAsset(s, raced) =
          [s EXCEPT !.assets = Successor(s.assets), !.attempt = 0,
                    !.started = 0, !.skipped = s.skipped]
    BY <1>5 DEF GetNextAsset, SyncState
  <2> QED BY <1>2, <1>3, <1>5, <2>1 DEF SyncState
<1> QED BY <1>4, <1>5

(* The stage after s.assets: what is behind it.                            *)
LEMMA Behind ==
  ASSUME NEW s \in SyncState, s.assets # FINISHED, s.assets # FAILED,
         NEW a \in {LIST, MNW}, Successor(s.assets) \notin {FAILED} \cup 0 .. a
  PROVE  a <= s.assets /\ (a # s.assets => s.assets \notin {FAILED} \cup 0 .. a)
  BY DEF SyncState, Asset, Successor, INITIAL, SPORKS, LIST, MNW, BUDGET, FAILED,
         FINISHED

(* GetNextAsset keeps the object good when the stage it leaves has its     *)
(* items, or when that stage is marked as skipped.                         *)
LEMMA GoodNext ==
  ASSUME NEW s, Good(s), NEW raced \in BOOLEAN,
         s.assets # FINISHED, s.assets # FAILED
  PROVE  /\ (s.assets \in {LIST, MNW} => s.last[s.assets] # Never)
              => Good(GetNextAsset(s, raced))
         /\ s.assets \in {LIST, MNW}
              => Good([GetNextAsset(s, raced) EXCEPT !.skipped = @ \cup {s.assets}])
<1> DEFINE t == GetNextAsset(s, raced)
           u == [t EXCEPT !.skipped = t.skipped \cup {s.assets}]
<1>0. s \in SyncState /\ HasData(s)
  BY DEF Good
<1>2. /\ t \in SyncState /\ t.assets = Successor(s.assets) /\ t.attempt = 0
      /\ ~raced => t.last = s.last /\ t.skipped = s.skipped
      /\ raced => t.skipped = {a \in {LIST, MNW} : a <= s.assets}
  BY <1>0, NextFields
<1>3. u = [GetNextAsset(s, raced) EXCEPT !.skipped = @ \cup {s.assets}]
  OBVIOUS
<1> HIDE DEF t
<1>4. s.assets \in {LIST, MNW} =>
        /\ u \in SyncState /\ u.assets = t.assets /\ u.attempt = 0
        /\ u.last = t.last /\ u.skipped = t.skipped \cup {s.assets}
  BY <1>2 DEF SyncState
<1> HIDE DEF u
<1>5. ASSUME NEW a \in {LIST, MNW}, t.assets \notin {FAILED} \cup 0 .. a,
             a \notin t.skipped, a # s.assets
      PROVE  t.last[a] # Never
  <2>1. a <= s.assets /\ s.assets \notin {FAILED} \cup 0 .. a
    BY <1>0, <1>2, <1>5, Behind
  <2>2. ~raced
    BY <1>2, <1>5, <2>1
  <2> QED BY <1>0, <1>2, <1>5, <2>1, <2>2 DEF HasData
<1>6. ASSUME s.assets \in {LIST, MNW} => s.last[s.assets] # Never PROVE Good(t)
  <2>1. ASSUME NEW a \in {LIST, MNW} \ t.skipped, t.assets \notin {FAILED} \cup 0 .. a
        PROVE  t.last[a] # Never
    <3>1. CASE a # s.assets
      BY <1>5, <2>1, <3>1
    <3>2. CASE a = s.assets
      <4>1. a <= s.assets
        BY <3>2 DEF LIST, MNW
      <4>2. ~raced
        BY <1>2, <2>1, <4>1
      <4> QED BY <1>2, <1>6, <3>2, <4>2
    <3> QED BY <3>1, <3>2
  <2>2. HasData(t)
    BY <2>1 DEF HasData
  <2>3. t.assets = SPORKS => t.attempt <= 2
    BY <1>2
  <2> QED BY <1>2, <2>2, <2>3 DEF Good
<1>7. ASSUME s.assets \in {LIST, MNW} PROVE Good(u)
  <2>1. HasData(u)
    BY <1>4, <1>5, <1>7 DEF HasData
  <2>2. u.assets = SPORKS => u.attempt <= 2
    BY <1>4, <1>7
  <2> QED BY <1>4, <1>7, <2>1, <2>2 DEF Good
<1> QED BY <1>3, <1>6, <1>7 DEF t

(* Asking one more peer stays below the limit of the stage.                *)
LEMMA GoodAsk ==
  ASSUME NEW s, Good(s), s.assets = SPORKS => s.attempt < 2
  PROVE  Good(Ask(s))
<1>1. s \in SyncState /\ s.attempt \in 0 .. THRESHOLD * 3
  BY DEF Good, SyncState
<1>2. CASE s.assets # SPORKS /\ s.attempt >= THRESHOLD * 3
  BY <1>2 DEF Ask
<1>3. CASE ~(s.assets # SPORKS /\ s.attempt >= THRESHOLD * 3)
  <2>1. s.attempt + 1 \in 0 .. THRESHOLD * 3
    BY <1>1, <1>3, ThresholdAssumption DEF SPORKS
  <2>2. Ask(s) = [s EXCEPT !.attempt = s.attempt + 1]
    BY <1>3 DEF Ask
  <2>3. Ask(s) \in SyncState
    BY <1>1, <2>1, <2>2 DEF SyncState
  <2>4. /\ Ask(s).assets = s.assets /\ Ask(s).last = s.last
        /\ Ask(s).skipped = s.skipped
        /\ Ask(s).attempt = s.attempt + 1
    BY <1>1, <2>2 DEF SyncState
  <2>5. s.assets = SPORKS => s.attempt + 1 <= 2
    BY <1>1, ThresholdAssumption
  <2> QED BY <2>3, <2>4, <2>5 DEF Good, HasData
<1> QED BY <1>2, <1>3

(* A failure keeps the object good: FAILED claims no data.                 *)
LEMMA GoodFail == ASSUME NEW s, Good(s) PROVE Good(Fail(s))
<1>1. s \in SyncState BY DEF Good
<1>2. /\ 0 \in 0 .. THRESHOLD * 3 /\ 0 \in 0 .. OldFailure
      /\ FAILED \in Asset
  BY ThresholdAssumption, TimeAssumption DEF OldFailure, Asset
<1>3. Fail(s) \in SyncState /\ Fail(s).assets = FAILED
  BY <1>1, <1>2 DEF Fail, SyncState
<1> QED BY <1>3 DEF Good, HasData, FAILED, SPORKS, MNW, BUDGET, FINISHED

(* The loop over the peers.                                                *)
LEMMA GoodLoop ==
  ASSUME NEW s, Good(s), NEW f \in [Peer -> SUBSET Request],
         NEW raced \in BOOLEAN, Loop(s, f, raced)
  PROVE  Good(sync') /\ fulfilled' \in [Peer -> SUBSET Request]
<1>0. s \in SyncState /\ SPORKS \in Request /\ Item \subseteq Request
  BY DEF Good, Request
<1>1. ASSUME s.assets = SPORKS, NEW p \in Unasked(s, f),
             fulfilled' = [f EXCEPT ![p] = @ \cup {s.assets}],
             sync' = Ask(IF s.attempt >= 2 THEN GetNextAsset(s, raced) ELSE s)
      PROVE  Good(sync') /\ fulfilled' \in [Peer -> SUBSET Request]
  <2>1. fulfilled' \in [Peer -> SUBSET Request]
    BY <1>0, <1>1
  <2>2. CASE s.attempt >= 2
    <3>1. Good(GetNextAsset(s, raced))
      <4>1. s.assets # FINISHED /\ s.assets # FAILED /\ s.assets \notin {LIST, MNW}
        BY <1>1 DEF SPORKS, LIST, MNW, FAILED, FINISHED
      <4> QED BY <4>1, GoodNext
    <3>3. GetNextAsset(s, raced).assets # SPORKS
      <4>1. GetNextAsset(s, raced).assets = Successor(s.assets)
        BY <1>0, NextFields
      <4>2. Successor(SPORKS) = LIST
        BY DEF Successor, INITIAL, FAILED, SPORKS, LIST, MNW
      <4>3. LIST # SPORKS
        BY DEF LIST, SPORKS
      <4> QED BY <1>1, <4>1, <4>2, <4>3
    <3> QED BY <1>1, <2>1, <2>2, <3>1, <3>3, GoodAsk
  <2>3. CASE ~(s.attempt >= 2)
    BY <1>0, <1>1, <2>1, <2>3, GoodAsk, ThresholdAssumption DEF SyncState
  <2> QED BY <2>2, <2>3
<1>2. ASSUME s.assets \in Item, Quiet(s) \/ (s.assets = BUDGET /\ TimedOut(s)),
             sync' = GetNextAsset(s, raced), fulfilled' = f
      PROVE  Good(sync') /\ fulfilled' \in [Peer -> SUBSET Request]
  <2>1. s.assets # FINISHED /\ s.assets # FAILED
    BY <1>2 DEF Item, LIST, MNW, BUDGET, FAILED, FINISHED
  <2>2. s.assets \in {LIST, MNW} => s.last[s.assets] # Never
    BY <1>2 DEF Quiet, LIST, MNW, BUDGET
  <2>3. Good(GetNextAsset(s, raced))
    BY <2>1, <2>2, GoodNext
  <2> QED BY <1>2, <2>3
<1>3. ASSUME s.assets \in Item, NEW p \in Unasked(s, f),
             fulfilled' = [f EXCEPT ![p] = @ \cup {s.assets}],
             sync' = IF ~TimedOut(s) THEN Ask(s)
                     ELSE IF spork8 THEN Fail(s)
                     ELSE [GetNextAsset(s, raced) EXCEPT !.skipped = @ \cup {s.assets}],
             ~(s.assets = BUDGET /\ TimedOut(s))
      PROVE  Good(sync') /\ fulfilled' \in [Peer -> SUBSET Request]
  <2>1. fulfilled' \in [Peer -> SUBSET Request]
    BY <1>0, <1>3
  <2>2. s.assets # SPORKS /\ s.assets # FINISHED /\ s.assets # FAILED
    BY <1>3 DEF Item, SPORKS, LIST, MNW, BUDGET, FAILED, FINISHED
  <2>3. Good(Ask(s))
    BY <2>2, GoodAsk
  <2>4. Good(Fail(s))
    BY GoodFail
  <2>5. s.assets \in {LIST, MNW} =>
          Good([GetNextAsset(s, raced) EXCEPT !.skipped = @ \cup {s.assets}])
    BY <2>2, GoodNext
  <2>6. TimedOut(s) => s.assets \in {LIST, MNW}
    BY <1>3 DEF Item
  <2> QED BY <1>3, <2>1, <2>3, <2>4, <2>5, <2>6
<1>4. ASSUME sync' = s, fulfilled' = f
      PROVE  Good(sync') /\ fulfilled' \in [Peer -> SUBSET Request]
  BY <1>4
<1> QED BY <1>1, <1>2, <1>3, <1>4 DEF Loop

(* One call of Process.                                                    *)
LEMMA GoodProcess ==
  ASSUME IndInv, NEW clear \in BOOLEAN, NEW lock \in BOOLEAN,
         NEW recent \in BOOLEAN, NEW raced \in BOOLEAN,
         Process(clear, lock, recent, raced)
  PROVE  IndInv'
<1> DEFINE s1 == Begin(sync)
           start == s1.assets = INITIAL
           s2 == IF start THEN GetNextAsset(s1, FALSE) ELSE s1
           f2 == IF start /\ clear THEN [p \in Peer |-> fulfilled[p] \ Request]
                 ELSE fulfilled
           s3 == AfterSleep(s2)
<1>1. Good(s1)
  BY GoodCleared DEF IndInv, Begin, Reset
<1>2. Good(s2)
  <2>1. start => /\ s1.assets # FINISHED /\ s1.assets # FAILED
                 /\ s1.assets \notin {LIST, MNW}
    BY DEF INITIAL, LIST, MNW, FINISHED, FAILED
  <2> HIDE DEF s1
  <2>2. start => Good(GetNextAsset(s1, FALSE))
    BY <1>1, <2>1, GoodNext
  <2> QED BY <1>1, <2>2
<1>3. Good(s3)
  BY <1>2, GoodCleared DEF AfterSleep, Reset
<1>4. f2 \in [Peer -> SUBSET Request]
  BY DEF IndInv
<1>5. /\ fBlockchainSynced' \in BOOLEAN /\ slept' \in BOOLEAN
      /\ enabled' \in BOOLEAN /\ spork8' \in BOOLEAN
  BY DEF Process, IsBlockchainSynced, IndInv
<1>6. \/ Loop(s3, f2, raced)
      \/ sync' = s3 /\ fulfilled' = f2
  <2>1. \E s \in {s3}, f \in {f2} :
          \/ Loop(s, f, raced)
          \/ sync' = s /\ fulfilled' = f
    BY Zenon DEF Process
  <2> HIDE DEF s1, start, s2, f2, s3
  <2> QED BY <2>1
<1> HIDE DEF s1, start, s2, f2, s3
<1>7. Good(sync') /\ fulfilled' \in [Peer -> SUBSET Request]
  <2>1. CASE Loop(s3, f2, raced)
    BY <1>3, <1>4, <2>1, GoodLoop
  <2> QED BY <1>3, <1>4, <1>6, <2>1
<1> QED BY <1>5, <1>7 DEF IndInv, Good, HasData

(* Time passes: ages stay in their ranges and no date becomes Never.       *)
LEMMA GoodElapsed ==
  ASSUME NEW s, Good(s), NEW d \in Nat PROVE Good(Elapsed(s, d))
<1> DEFINE st == IF s.assets \in Item THEN Older(s.started, d, OldStart) ELSE s.started
           fa == IF s.assets = FAILED THEN Older(s.failure, d, OldFailure) ELSE s.failure
           la == [a \in Item |-> IF s.last[a] = Never \/ s.assets > a THEN s.last[a]
                                 ELSE Older(s.last[a], d, OldItem)]
           t == Elapsed(s, d)
<1>1. s \in SyncState BY DEF Good
<1>2. st \in 0 .. OldStart /\ fa \in 0 .. OldFailure
  BY <1>1, TimeAssumption DEF Older, SyncState, OldStart, OldFailure
<1>3. /\ la \in [Item -> {Never} \cup 0 .. OldItem]
      /\ \A a \in Item : la[a] = Never => s.last[a] = Never
  BY <1>1, TimeAssumption, NeverAssumption DEF Older, SyncState, OldItem
<1>4. t = [s EXCEPT !.started = st, !.failure = fa, !.last = la]
  BY <1>1 DEF Elapsed, SyncState
<1> HIDE DEF t, st, fa, la
<1>5. /\ t \in SyncState /\ t.assets = s.assets /\ t.attempt = s.attempt
      /\ t.last = la /\ t.skipped = s.skipped
  BY <1>1, <1>2, <1>3, <1>4 DEF SyncState
<1>6. HasData(t)
  BY <1>3, <1>5 DEF Good, HasData, Item
<1>7. Good(t)
  BY <1>5, <1>6 DEF Good
<1> QED BY <1>7 DEF t

(* Another item, or one that is forgotten: dates are set, never cleared.   *)
LEMMA GoodSeen ==
  ASSUME NEW s, Good(s), NEW a \in Item, NEW h \in Hash, NEW n \in 0 .. THRESHOLD,
         NEW la \in {s.last, [s.last EXCEPT ![a] = 0]}
  PROVE  Good([s EXCEPT !.last = la,
                        !.seen = [s.seen EXCEPT ![a] = [s.seen[a] EXCEPT ![h] = n]]])
<1> DEFINE se == [s.seen EXCEPT ![a] = [s.seen[a] EXCEPT ![h] = n]]
           t == [s EXCEPT !.last = la, !.seen = se]
<1>1. s \in SyncState BY DEF Good
<1>2. 0 \in 0 .. OldItem
  BY TimeAssumption DEF OldItem
<1>3. /\ la \in [Item -> {Never} \cup 0 .. OldItem]
      /\ \A b \in Item : la[b] = Never => s.last[b] = Never
  BY <1>1, <1>2, NeverAssumption DEF SyncState
<1>4. se \in [Item -> [Hash -> 0 .. THRESHOLD]]
  BY <1>1 DEF SyncState
<1> HIDE DEF se
<1>5. /\ t \in SyncState /\ t.assets = s.assets /\ t.attempt = s.attempt
      /\ t.last = la /\ t.skipped = s.skipped
  BY <1>1, <1>3, <1>4 DEF SyncState
<1> HIDE DEF t
<1>6. HasData(t)
  BY <1>3, <1>5 DEF Good, HasData, Item
<1>7. Good(t)
  BY <1>5, <1>6 DEF Good
<1> QED BY <1>7 DEF t, se

(* Every step keeps the inductive invariant. *)
LEMMA GoodStep == IndInv /\ [Next]_vars => IndInv'
<1> SUFFICES ASSUME IndInv, [Next]_vars PROVE IndInv'
  OBVIOUS
<1>0. sync \in SyncState /\ Good(sync)
  BY DEF IndInv, Good
<1>1. ASSUME NEW clear \in BOOLEAN, NEW lock \in BOOLEAN, NEW recent \in BOOLEAN,
             NEW raced \in BOOLEAN, Process(clear, lock, recent, raced)
      PROVE  IndInv'
  BY <1>1, GoodProcess
<1>2. ASSUME NEW recent \in BOOLEAN, CheckSynced(recent) PROVE IndInv'
  <2>1. Good(sync')
    BY <1>0, <1>2, GoodCleared DEF CheckSynced, AfterSleep, Reset
  <2> QED BY <1>2, <2>1 DEF CheckSynced, IsBlockchainSynced, IndInv, Good, HasData
<1>3. ASSUME NEW a \in Item, NEW h \in Hash,
             Added(a, h) \/ AddedUnknown(a, h) \/ Forget(a, h)
      PROVE  IndInv'
  <2>0. /\ sync.seen[a][h] \in 0 .. THRESHOLD /\ sync.seen \in [Item -> [Hash -> 0 .. THRESHOLD]]
        /\ 0 \in 0 .. THRESHOLD /\ 1 \in 0 .. THRESHOLD
    BY <1>0, ThresholdAssumption DEF SyncState
  <2>1. CASE Added(a, h)
    <3>1. sync.seen[a][h] + 1 \in 0 .. THRESHOLD
      BY <2>0, <2>1, ThresholdAssumption DEF Added
    <3>2. sync' = [sync EXCEPT !.last = [sync.last EXCEPT ![a] = 0],
                               !.seen = [sync.seen EXCEPT ![a] =
                                  [sync.seen[a] EXCEPT ![h] = sync.seen[a][h] + 1]]]
      BY <1>0, <2>1 DEF Added, SyncState
    <3>3. Good(sync')
      BY <1>0, <3>1, <3>2, GoodSeen, Zenon
    <3> QED BY <2>1, <3>3 DEF Added, IndInv, Good, HasData
  <2>2. CASE AddedUnknown(a, h)
    <3> DEFINE n == IF sync.seen[a][h] = 0 THEN 1 ELSE sync.seen[a][h]
    <3>1. n \in 0 .. THRESHOLD
      BY <2>0
    <3>2. sync' = [sync EXCEPT !.last = [sync.last EXCEPT ![a] = 0],
                               !.seen = [sync.seen EXCEPT ![a] =
                                  [sync.seen[a] EXCEPT ![h] = n]]]
      BY <1>0, <2>2 DEF AddedUnknown, SyncState
    <3> HIDE DEF n
    <3>3. Good(sync')
      BY <1>0, <3>1, <3>2, GoodSeen, Zenon
    <3> QED BY <2>2, <3>3 DEF AddedUnknown, IndInv, Good, HasData
  <2>3. CASE Forget(a, h)
    <3>2. sync' = [sync EXCEPT !.last = sync.last,
                               !.seen = [sync.seen EXCEPT ![a] =
                                  [sync.seen[a] EXCEPT ![h] = 0]]]
      BY <1>0, <2>3 DEF Forget, SyncState
    <3>3. Good(sync')
      BY <1>0, <2>0, <3>2, GoodSeen, Zenon
    <3> QED BY <2>3, <3>3 DEF Forget, IndInv, Good, HasData
  <2> QED BY <1>3, <2>1, <2>2, <2>3
<1>4. CASE RpcReset
  BY <1>4, GoodCleared DEF RpcReset, Reset, IndInv, Good, HasData
<1>5. CASE Sleep
  <2>1. OldStart + OldFailure \in Nat
    BY TimeAssumption DEF OldStart, OldFailure
  <2>2. Good(sync')
    BY <1>0, <1>5, <2>1, GoodElapsed DEF Sleep
  <2> QED BY <1>5, <2>2 DEF Sleep, IndInv, Good, HasData
<1>6. CASE EnabledChanges \/ SporkChanges
  BY <1>6 DEF EnabledChanges, SporkChanges, IndInv, Good, HasData
<1>7. ASSUME NEW p \in Peer, Reconnect(p) PROVE IndInv'
  BY <1>7 DEF Reconnect, IndInv, Good, HasData
<1>8. CASE Tick
  <2>1. Good(sync')
    BY <1>0, <1>8, GoodElapsed DEF Tick
  <2> QED BY <1>8, <2>1 DEF Tick, IndInv, Good, HasData
<1>9. CASE UNCHANGED vars
  BY <1>9 DEF vars, IndInv, Good, HasData
<1>10. TRUE \in BOOLEAN /\ FALSE \in BOOLEAN
  OBVIOUS
<1> QED BY <1>1, <1>2, <1>3, <1>4, <1>5, <1>6, <1>7, <1>8, <1>9, <1>10
        DEF Next, Progress, Setback

(* The constructed object satisfies it. *)
LEMMA GoodInit == Init => IndInv
  BY GoodCleared DEF Init, IndInv, Request

(* Every thread keeps the object well typed: a stage never asks more than  *)
(* three times the threshold of peers, with resets at any point.           *)
THEOREM MasternodeSyncTypeOK == Spec => []TypeOK
<1>1. IndInv => TypeOK
  BY DEF IndInv, Good, TypeOK
<1> QED BY <1>1, GoodInit, GoodStep, PTL DEF Spec

(* A node never calls itself synced without a masternode and a winner      *)
(* since the last reset, unless their stage timed out while spork 8 was    *)
(* off or a reset fell inside GetNextAsset; spork 8 may change at any time.*)
THEOREM MasternodeSyncFinished == Spec => []FinishedHasData
<1>1. IndInv => FinishedHasData
  BY DEF IndInv, Good, HasData, FinishedHasData
<1> QED BY <1>1, GoodInit, GoodStep, PTL DEF Spec

-----------------------------------------------------------------------------
(* The masternode list: types *)

(* A set of numbers that is bounded above has a greatest one.              *)
LEMMA GreatestExists ==
  ASSUME NEW T, T # {}, T \subseteq Int, NEW N \in Int, \A x \in T : x <= N
  PROVE  \E x \in T : \A y \in T : y <= x
<1> DEFINE D == {N - x : x \in T}
<1>0. \A x \in T : x \in Int /\ N - x \in Nat
  OBVIOUS
<1>1. D \subseteq Nat /\ D # {}
  BY <1>0
<1>2. PICK d \in D : \A c \in D : ~(<<c, d>> \in OpToRel(<, Nat))
  BY <1>1, WFMin, NatLessThanWellFounded
<1>3. PICK x \in T : d = N - x
  OBVIOUS
<1>4. ASSUME NEW y \in T PROVE y <= x
  <2>1. N - y \in D /\ N - y \in Nat /\ d \in Nat
    BY <1>1
  <2>2. ~(N - y < d)
    BY <1>2, <2>1 DEF OpToRel
  <2> QED BY <1>3, <2>1, <2>2
<1> QED BY <1>4

(* The bounds in the form the proofs use.                                  *)
LEMMA ManConstants ==
  /\ EXPIRATION \in Nat /\ REMOVAL \in Nat /\ WINDOW \in Nat /\ Broadcasts \in Nat
  /\ MIN_MNP \in Nat /\ MIN_MNB \in Nat /\ PING \in Nat
  /\ REMOVAL > 0 /\ WINDOW > 0 /\ MIN_MNP > 0 /\ MIN_MNB > 0 /\ PING > 0
  /\ WINDOW <= REMOVAL
  BY MasternodeManAssumption

(* Ages are numbers, and a ping that is looked at is one that is kept.     *)
LEMMA AgeFacts ==
  /\ Age \subseteq Int /\ Fresh \subseteq Int /\ Number \subseteq Int
  /\ 0 \in Age /\ 0 \in Fresh /\ 0 \in Ping /\ Fresh \subseteq Ping
  /\ NoPing \in Ping /\ NoPing \notin Age /\ NoPing \notin Fresh
  /\ Carried \subseteq Ping
  /\ \A a \in Ping : a # NoPing => a \in Age
  BY ManConstants, MasternodeManAssumption DEF Age, Fresh, Number, Ping, Old

(* A ping that gets older is a ping.                                       *)
LEMMA AgedType == \A a \in Ping : Aged(a) \in Ping
  BY AgeFacts, ManConstants DEF Aged, Ping, Age, Old

(* Check changes the state of an entry only.                               *)
LEMMA CheckFacts ==
  ASSUME NEW m, NEW e \in Entry, NEW lock
  PROVE  /\ Check(m, e, lock) \in Entry
         /\ Check(m, e, lock).number = e.number
         /\ Check(m, e, lock).ping = e.ping
  BY DEF Check, Entry, State

(* A newer broadcast takes the entry over; an older one leaves it alone.   *)
LEMMA UpdateFacts ==
  ASSUME NEW m, NEW e \in Entry, NEW n \in Number, NEW ping \in Ping,
         NEW lock, NEW good
  PROVE  /\ UpdateFromNewBroadcast(m, e, n, ping, lock, good) \in Entry
         /\ n <= e.number => UpdateFromNewBroadcast(m, e, n, ping, lock, good) = e
         /\ n > e.number =>
              UpdateFromNewBroadcast(m, e, n, ping, lock, good).number = n
<1> DEFINE f == [e EXCEPT !.number = n]
           g == [f EXCEPT !.ping = ping]
<1>1. f \in Entry /\ f.number = n /\ g \in Entry /\ g.number = n
  BY DEF Entry
<1>2. Pinged(m, f, ping, lock) = Check(m, g, lock)
  BY DEF Pinged
<1>3. n \in Int /\ e.number \in Int
  BY AgeFacts DEF Entry
<1>4. (n <= e.number) <=> ~(n > e.number)
  BY <1>3
<1>5. UpdateFromNewBroadcast(m, e, n, ping, lock, good) =
        IF n <= e.number THEN e
        ELSE IF ping = NoPing THEN g
        ELSE IF Takes(m, f, ping) /\ good THEN Pinged(m, f, ping, lock)
        ELSE f
  BY DEF UpdateFromNewBroadcast
<1> HIDE DEF f, g
<1>6. Check(m, g, lock) \in Entry /\ Check(m, g, lock).number = n
  BY <1>1, CheckFacts
<1> QED BY <1>1, <1>2, <1>4, <1>5, <1>6

(* What CheckInputsAndAdd leaves: the entry it was given, the new one or   *)
(* none; and the table of seen broadcasts, or that without the new one.    *)
LEMMA AddFacts ==
  ASSUME ManTypeOK, NEW m \in MN, NEW n \in Number, NEW ping \in Ping,
         NEW e \in Entry \cup {None}, NEW seen \in [MN -> [Number -> Ping \cup {None}]],
         NEW out, CheckInputsAndAdd(m, n, ping, e, seen, out)
  PROVE  /\ vMasternodes' \in [MN -> Entry \cup {None}]
         /\ seenBroadcast' \in [MN -> [Number -> Ping \cup {None}]]
         /\ activeVin' \in MN \cup {None}
         /\ status' \in {"INITIAL", "SYNC_IN_PROCESS", "NOT_CAPABLE", "STARTED"}
         /\ \A k \in MN : k # m => vMasternodes'[k] = vMasternodes[k]
         /\ \/ vMasternodes'[m] = e
            \/ /\ e = None \/ e.state # "ENABLED"
               /\ vMasternodes'[m] \in {None, [number |-> n, ping |-> ping, state |-> "ENABLED"]}
         /\ \A k \in MN, i \in Number : seenBroadcast'[k][i] \in {seen[k][i], None}
         /\ \/ UNCHANGED activeVars
            \/ mine = m /\ activeVin' = m /\ status' = "STARTED"
<1> DEFINE new == [number |-> n, ping |-> ping, state |-> "ENABLED"]
           kept == \/ mine = m /\ activeVin = m
                   \/ e # None /\ e.state = "ENABLED"
                   \/ out = "mismatch"
<1>1. new \in Entry
  BY DEF Entry, State
<1> HIDE DEF new
<1>2. CASE kept
  BY <1>2 DEF CheckInputsAndAdd, ManTypeOK, activeVars
<1>3. CASE ~kept
  <2> DEFINE put == IF out = "ok" THEN new ELSE None
  <2>1. /\ vMasternodes' = [vMasternodes EXCEPT ![m] = put]
        /\ seenBroadcast' = IF out = "retry" THEN [seen EXCEPT ![m][n] = None] ELSE seen
        /\ IF out = "ok" THEN EnableHotColdMasterNode(m) ELSE UNCHANGED activeVars
    BY <1>3 DEF CheckInputsAndAdd, new
  <2>2. put \in {None, new} /\ put \in Entry \cup {None}
    BY <1>1
  <2>3. /\ activeVin' \in MN \cup {None}
        /\ status' \in {"INITIAL", "SYNC_IN_PROCESS", "NOT_CAPABLE", "STARTED"}
        /\ \/ UNCHANGED activeVars
           \/ mine = m /\ activeVin' = m /\ status' = "STARTED"
    BY <2>1 DEF EnableHotColdMasterNode, activeVars, ManTypeOK
  <2>4. /\ seenBroadcast' \in [MN -> [Number -> Ping \cup {None}]]
        /\ \A k \in MN, i \in Number : seenBroadcast'[k][i] \in {seen[k][i], None}
    BY <2>1
  <2> HIDE DEF put
  <2>5. /\ vMasternodes' \in [MN -> Entry \cup {None}]
        /\ \A k \in MN : k # m => vMasternodes'[k] = vMasternodes[k]
        /\ vMasternodes'[m] = put
    BY <2>1, <2>2 DEF ManTypeOK
  <2> QED BY <1>3, <2>2, <2>3, <2>4, <2>5 DEF new
<1> QED BY <1>2, <1>3

(* The tables of pings and broadcasts keep their types.                    *)
LEMMA TableTypes ==
  ASSUME ManTypeOK, NEW m \in MN
  PROVE  /\ \A a \in Fresh :
              [seenPing EXCEPT ![m] = @ \cup {a}] \in [MN -> SUBSET Fresh]
         /\ \A n \in Number, a \in Ping :
              [seenBroadcast EXCEPT ![m][n] = a] \in [MN -> [Number -> Ping \cup {None}]]
         /\ \A e \in Entry, a \in Ping :
              Follow(seenBroadcast, m, e, a) \in [MN -> [Number -> Ping \cup {None}]]
         /\ \A e \in Entry \cup {None} :
              [vMasternodes EXCEPT ![m] = e] \in [MN -> Entry \cup {None}]
<1>1. \A n \in Number, a \in Ping :
        [seenBroadcast EXCEPT ![m][n] = a] \in [MN -> [Number -> Ping \cup {None}]]
  BY DEF ManTypeOK
<1>2. \A e \in Entry : e.number \in Number
  BY DEF Entry
<1> QED BY <1>1, <1>2 DEF ManTypeOK, Follow

(* "mnb": types are kept, only the entry of m changes, to none or to one   *)
(* of broadcast n, and not while it is enabled with n already.             *)
LEMMA MnbFacts ==
  ASSUME ManTypeOK, NEW m \in MN, NEW n \in Number, NEW ping \in Carried,
         NEW lock, NEW good, NEW out, Mnb(m, n, ping, lock, good, out)
  PROVE  /\ vMasternodes' \in [MN -> Entry \cup {None}]
         /\ seenBroadcast' \in [MN -> [Number -> Ping \cup {None}]]
         /\ seenPing' \in [MN -> SUBSET Fresh]
         /\ activeVin' \in MN \cup {None}
         /\ status' \in {"INITIAL", "SYNC_IN_PROCESS", "NOT_CAPABLE", "STARTED"}
         /\ \A k \in MN : k # m => vMasternodes'[k] = vMasternodes[k]
         /\ \/ vMasternodes'[m] \in {vMasternodes[m], None}
            \/ /\ vMasternodes'[m].number = n
               /\ vMasternodes[m] # None =>
                    vMasternodes[m].state # "ENABLED" \/ vMasternodes[m].number # n
         /\ \A k \in MN, i \in Number :
              k # m \/ i # n => seenBroadcast'[k][i] \in {seenBroadcast[k][i], None}
         /\ \/ UNCHANGED activeVars
            \/ mine = m /\ activeVin' = m /\ status' = "STARTED"
<1> DEFINE e == vMasternodes[m]
           seen == [seenBroadcast EXCEPT ![m][n] = ping]
           u == UpdateFromNewBroadcast(m, e, n, ping, lock, good)
           f == Check(m, u, lock)
<1>1. ping \in Ping
  BY AgeFacts
<1>2. seen \in [MN -> [Number -> Ping \cup {None}]]
  BY <1>1, TableTypes
<1>3. \A k \in MN, i \in Number : k # m \/ i # n => seen[k][i] = seenBroadcast[k][i]
  BY DEF ManTypeOK
<1>4. e \in Entry \cup {None}
  BY DEF ManTypeOK
<1> HIDE DEF seen
<1>5. CASE ~IsNewer(e, n) \/ out = "refused"
  <2>1. seenBroadcast' = seen /\ UNCHANGED <<vMasternodes, seenPing, activeVars>>
    BY <1>5 DEF Mnb, seen
  <2> QED BY <1>2, <1>3, <2>1 DEF ManTypeOK, activeVars
<1>6. CASE ~(~IsNewer(e, n) \/ out = "refused") /\ Updates(m, e, n)
  <2>1. /\ CheckInputsAndAdd(m, n, ping, f, seen, out)
        /\ seenPing' = IF Takes(m, [e EXCEPT !.number = n], ping) /\ good /\ f.state = "ENABLED"
                       THEN [seenPing EXCEPT ![m] = @ \cup {ping}] ELSE seenPing
    BY <1>6 DEF Mnb, seen
  <2>2. e \in Entry /\ n > e.number /\ e.number # n
    <3>1. e \in Entry /\ n > e.number
      BY <1>4, <1>6 DEF Updates
    <3>2. n \in Int /\ e.number \in Int
      BY <3>1, AgeFacts DEF Entry
    <3> QED BY <3>1, <3>2
  <2>3. u \in Entry /\ u.number = n
    BY <1>1, <2>2, UpdateFacts
  <2> HIDE DEF u
  <2>4. f \in Entry /\ f.number = n
    BY <2>3, CheckFacts
  <2>5. seenPing' \in [MN -> SUBSET Fresh]
    BY <2>1, TableTypes DEF Takes, ManTypeOK
  <2> HIDE DEF f
  <2>6. [number |-> n, ping |-> ping, state |-> "ENABLED"].number = n
    OBVIOUS
  <2> QED BY <1>1, <1>2, <1>3, <2>1, <2>2, <2>4, <2>5, <2>6, AddFacts
<1>7. CASE ~(~IsNewer(e, n) \/ out = "refused") /\ ~Updates(m, e, n)
  <2>1. CheckInputsAndAdd(m, n, ping, e, seen, out) /\ UNCHANGED seenPing
    BY <1>7 DEF Mnb, seen
  <2>2. seenPing' \in [MN -> SUBSET Fresh]
    BY <2>1 DEF ManTypeOK
  <2>3. [number |-> n, ping |-> ping, state |-> "ENABLED"].number = n
    OBVIOUS
  <2>4. vMasternodes[m] = e
    OBVIOUS
  <2> HIDE DEF e, u, f
  <2>5. /\ vMasternodes' \in [MN -> Entry \cup {None}]
        /\ seenBroadcast' \in [MN -> [Number -> Ping \cup {None}]]
        /\ activeVin' \in MN \cup {None}
        /\ status' \in {"INITIAL", "SYNC_IN_PROCESS", "NOT_CAPABLE", "STARTED"}
        /\ \A k \in MN : k # m => vMasternodes'[k] = vMasternodes[k]
        /\ \/ UNCHANGED activeVars
           \/ mine = m /\ activeVin' = m /\ status' = "STARTED"
    BY <1>1, <1>2, <1>4, <2>1, AddFacts
  <2>6. \/ vMasternodes'[m] = e
        \/ /\ e = None \/ e.state # "ENABLED"
           /\ vMasternodes'[m] \in {None, [number |-> n, ping |-> ping, state |-> "ENABLED"]}
    BY <1>1, <1>2, <1>4, <2>1, AddFacts
  <2>7. \A k \in MN, i \in Number : seenBroadcast'[k][i] \in {seen[k][i], None}
    BY <1>1, <1>2, <1>4, <2>1, AddFacts
  <2> QED BY <1>3, <2>2, <2>3, <2>4, <2>5, <2>6, <2>7
<1> QED BY <1>5, <1>6, <1>7

(* Remove keeps the types, and an entry it does not remove.                *)
LEMMA RemoveFacts ==
  ASSUME ManTypeOK, NEW list \in [MN -> Entry \cup {None}], NEW force, Remove(list, force)
  PROVE  /\ vMasternodes' \in [MN -> Entry \cup {None}]
         /\ seenBroadcast' \in [MN -> [Number -> Ping \cup {None}]]
         /\ seenPing' \in [MN -> SUBSET Fresh]
         /\ asked' \in [MN -> 0 .. MIN_MNP]
         /\ \A m \in MN : vMasternodes'[m] \in {list[m], None}
         /\ \A m \in MN, n \in Number : seenBroadcast'[m][n] \in {seenBroadcast[m][n], None}
<1> DEFINE gone == {m \in MN : list[m] # None /\ Removable(m, list[m], force)}
<1>1. vMasternodes' = [m \in MN |-> IF m \in gone THEN None ELSE list[m]]
  BY DEF Remove
<1>2. seenBroadcast' = [m \in MN |-> [n \in Number |->
        IF m \in gone \/ (seenBroadcast[m][n] # None /\ Expired(seenBroadcast[m][n]))
        THEN None ELSE seenBroadcast[m][n]]]
  BY DEF Remove
<1>3. UNCHANGED seenPing /\ asked' = [m \in MN |-> IF m \in gone THEN 0 ELSE asked[m]]
  BY DEF Remove
<1> HIDE DEF gone
<1>4. asked' \in [MN -> 0 .. MIN_MNP]
  BY <1>3, ManConstants DEF ManTypeOK
<1>5. /\ vMasternodes' \in [MN -> Entry \cup {None}]
      /\ \A m \in MN : vMasternodes'[m] \in {list[m], None}
  BY <1>1
<1>6. /\ seenBroadcast' \in [MN -> [Number -> Ping \cup {None}]]
      /\ \A m \in MN, n \in Number : seenBroadcast'[m][n] \in {seenBroadcast[m][n], None}
  BY <1>2 DEF ManTypeOK
<1> QED BY <1>3, <1>4, <1>5, <1>6 DEF ManTypeOK

-----------------------------------------------------------------------------
(* The masternode list: its invariant, action by action *)

(* Entries and seen broadcasts come from broadcasts that were signed.      *)
ListedSigned ==
  /\ \A m \in MN : vMasternodes[m] # None => signed[m][vMasternodes[m].number] # None
  /\ \A m \in MN, n \in Number : seenBroadcast[m][n] # None => signed[m][n] # None

(* A node that counts itself as started has the vin of its own masternode. *)
StartedAsMine ==
  /\ activeVin \in {None, mine}
  /\ status = "STARTED" => activeVin = mine /\ mine # None

ManInv == ManTypeOK /\ ListedSigned /\ StartedAsMine

(* What PingsForward asks of an entry that was e and is f.                 *)
Forward(e, f) ==
  (e # None /\ e.state = "ENABLED" /\ f # None /\ f.number = e.number)
    => \/ f.ping = e.ping
       \/ f.ping # NoPing /\ (e.ping = NoPing \/ f.ping < e.ping)

(* A ping that an entry takes is younger than the one it had.              *)
LEMMA TakesForward ==
  ASSUME NEW m, NEW e \in Entry, NEW age \in Ping, Takes(m, e, age)
  PROVE  age \in Fresh /\ age # NoPing /\ (e.ping = NoPing \/ age < e.ping)
<1>1. age \in Fresh /\ (e.ping = NoPing \/ ~(e.ping - age < MIN_MNP))
  BY DEF Takes, IsPingedWithinAt
<1>2. age \in Int /\ age # NoPing
  BY <1>1, AgeFacts
<1>3. e.ping # NoPing => e.ping \in Int
  BY AgeFacts DEF Entry
<1> QED BY <1>1, <1>2, <1>3, ManConstants

(* "mnb": the entry of m only, and only by a newer broadcast.              *)
LEMMA MnbInv ==
  ASSUME ManInv, NEW m \in MN, NEW n \in Number, NEW ping \in Carried,
         NEW lock, NEW good, NEW out, Mnb(m, n, ping, lock, good, out), dseg' \subseteq MN
  PROVE  ManInv' /\ \A k \in MN : Forward(vMasternodes[k], vMasternodes'[k])
<1> USE DEF ManInv
<1>1. signed[m][n] # None /\ UNCHANGED <<asked, signed, spent, mine, spork10>>
  BY DEF Mnb, worldVars
<1>2. ManTypeOK'
  BY <1>1, MnbFacts DEF ManTypeOK
<1>3. ListedSigned'
  <2>1. \A k \in MN : vMasternodes'[k] # None => signed[k][vMasternodes'[k].number] # None
    BY <1>1, MnbFacts DEF ListedSigned
  <2>2. \A k \in MN, i \in Number : seenBroadcast'[k][i] # None => signed[k][i] # None
    BY <1>1, MnbFacts DEF ListedSigned
  <2> QED BY <1>1, <2>1, <2>2 DEF ListedSigned
<1>4. StartedAsMine'
  BY <1>1, MnbFacts, MasternodeManAssumption DEF StartedAsMine, activeVars
<1>5. \A k \in MN : Forward(vMasternodes[k], vMasternodes'[k])
  BY MnbFacts DEF Forward
<1> QED BY <1>2, <1>3, <1>4, <1>5

(* The answer to "dseg" is an "mnb" of the newest broadcast.               *)
LEMMA AnswerInv ==
  ASSUME ManInv, NEW m \in MN, NEW ping \in Carried, NEW lock, NEW good, NEW out,
         Answer(m, ping, lock, good, out)
  PROVE  ManInv' /\ \A k \in MN : Forward(vMasternodes[k], vMasternodes'[k])
<1>1. dseg' \subseteq MN
  BY DEF Answer, ManInv, ManTypeOK
<1>2. CASE seenBroadcast[m][Newest(m)] # None
  <2>1. UNCHANGED <<vMasternodes, seenBroadcast, seenPing, asked, activeVars, worldVars>>
    BY <1>2 DEF Answer
  <2> QED BY <1>1, <2>1 DEF ManInv, ManTypeOK, ListedSigned, StartedAsMine, Forward,
             activeVars, worldVars
<1>3. CASE seenBroadcast[m][Newest(m)] = None
  <2>1. Mnb(m, Newest(m), ping, lock, good, out)
    BY <1>3 DEF Answer
  <2>2. Newest(m) \in Number
    <3>0. signed[m][1] # None
      BY DEF Answer
    <3> DEFINE T == {n \in Number : signed[m][n] # None}
    <3>1. 1 \in T /\ T \subseteq Int /\ \A n \in T : n <= Broadcasts
      BY <3>0, ManConstants, MasternodeManAssumption DEF Number
    <3> HIDE DEF T
    <3>2. Broadcasts \in Int
      BY ManConstants
    <3>3. \E n \in T : \A k \in T : k <= n
      BY <3>1, <3>2, GreatestExists
    <3> QED BY <3>3 DEF Newest, T
  <2> QED BY <1>1, <2>1, <2>2, MnbInv
<1> QED BY <1>2, <1>3

(* "mnp": an enabled entry takes a younger ping.                           *)
LEMMA MnpInv ==
  ASSUME ManInv, NEW m \in MN, NEW age \in Fresh, NEW lock, NEW good, Mnp(m, age, lock, good)
  PROVE  ManInv' /\ \A k \in MN : Forward(vMasternodes[k], vMasternodes'[k])
<1> DEFINE e == vMasternodes[m]
           g == [e EXCEPT !.ping = age]
           takes == e # None /\ e.state = "ENABLED" /\ Takes(m, e, age) /\ good
<1>1. /\ seenPing' = [seenPing EXCEPT ![m] = @ \cup {age}]
      /\ UNCHANGED <<activeVin, status, signed, spent, mine, spork10>>
  BY DEF Mnp, activeVars, worldVars
<1>2. seenPing' \in [MN -> SUBSET Fresh]
  BY <1>1, TableTypes DEF ManInv
<1>3. asked' \in [MN -> 0 .. MIN_MNP] /\ dseg' \subseteq MN
  BY ManConstants DEF Mnp, AskForMN, ManInv, ManTypeOK
<1>4. CASE ~takes
  <2>1. UNCHANGED <<vMasternodes, seenBroadcast>>
    BY <1>4 DEF Mnp
  <2>2. ManTypeOK'
    BY <1>1, <1>2, <1>3, <2>1 DEF ManInv, ManTypeOK
  <2> QED BY <1>1, <2>1, <2>2 DEF ManInv, ListedSigned, StartedAsMine, Forward
<1>5. CASE takes
  <2>1. /\ vMasternodes' = [vMasternodes EXCEPT ![m] = Check(m, g, lock)]
        /\ seenBroadcast' = Follow(seenBroadcast, m, e, age)
    BY <1>5 DEF Mnp, Pinged
  <2>2. e \in Entry /\ age \in Ping /\ e.number \in Number
    BY <1>5, AgeFacts DEF ManInv, ManTypeOK, Entry
  <2>3. g \in Entry /\ g.number = e.number /\ g.ping = age
    BY <2>2 DEF Entry
  <2> HIDE DEF g
  <2> DEFINE c == Check(m, g, lock)
  <2>4. c \in Entry /\ c.number = e.number /\ c.ping = age
    BY <2>3, CheckFacts
  <2> HIDE DEF c
  <2>5. /\ vMasternodes' \in [MN -> Entry \cup {None}]
        /\ \A k \in MN : vMasternodes'[k] = IF k = m THEN c ELSE vMasternodes[k]
    BY <2>1, <2>4 DEF ManInv, ManTypeOK, c
  <2>6. /\ seenBroadcast' \in [MN -> [Number -> Ping \cup {None}]]
        /\ \A k \in MN, i \in Number :
             k # m \/ i # e.number => seenBroadcast'[k][i] = seenBroadcast[k][i]
    BY <2>1, <2>2 DEF Follow, ManInv, ManTypeOK
  <2>7. ManTypeOK'
    BY <1>1, <1>2, <1>3, <2>5, <2>6 DEF ManInv, ManTypeOK
  <2>8. signed[m][e.number] # None
    BY <1>5 DEF ManInv, ListedSigned
  <2>9. ListedSigned'
    BY <1>1, <2>4, <2>5, <2>6, <2>8 DEF ManInv, ListedSigned
  <2>10. age # NoPing /\ (e.ping = NoPing \/ age < e.ping)
    BY <1>5, <2>2, TakesForward
  <2>11. \A k \in MN : Forward(vMasternodes[k], vMasternodes'[k])
    BY <2>4, <2>5, <2>10 DEF Forward
  <2> QED BY <1>1, <2>7, <2>9, <2>11 DEF ManInv, StartedAsMine
<1> QED BY <1>4, <1>5

(* Messages that leave the entries alone.                                  *)
LEMMA OtherMessagesInv ==
  ASSUME ManInv, (\E m \in MN : MnpRefused(m)) \/ Dseg
  PROVE  ManInv' /\ \A k \in MN : Forward(vMasternodes[k], vMasternodes'[k])
<1>0. UNCHANGED <<vMasternodes, seenPing, activeVin, status, signed, spent, mine, spork10>>
  BY DEF MnpRefused, Dseg, activeVars, worldVars
<1>1. asked' \in [MN -> 0 .. MIN_MNP] /\ dseg' \subseteq MN
  <2>1. asked \in [MN -> 0 .. MIN_MNP] /\ dseg \subseteq MN /\ MIN_MNP \in 0 .. MIN_MNP
    BY ManConstants DEF ManInv, ManTypeOK
  <2>2. ASSUME NEW m \in MN, AskForMN(m)
        PROVE  asked' \in [MN -> 0 .. MIN_MNP] /\ dseg' \subseteq MN
    BY <2>1, <2>2 DEF AskForMN
  <2>3. (\E m \in MN : AskForMN(m)) \/ UNCHANGED <<asked, dseg>>
    BY DEF MnpRefused, Dseg
  <2> QED BY <2>1, <2>2, <2>3
<1>2. /\ seenBroadcast' \in [MN -> [Number -> Ping \cup {None}]]
      /\ \A m \in MN, n \in Number : seenBroadcast'[m][n] # None => signed[m][n] # None
  <2>1. CASE \E m \in MN : MnpRefused(m)
    BY <2>1 DEF MnpRefused, ManInv, ManTypeOK, ListedSigned
  <2>2. CASE Dseg
    <3>1. ASSUME NEW m \in MN, NEW n \in Number
          PROVE  /\ seenBroadcast'[m][n] \in Ping \cup {None}
                 /\ seenBroadcast'[m][n] # None => signed[m][n] # None
      <4>1. CASE vMasternodes[m] # None /\ vMasternodes[m].number = n
        <5>1. vMasternodes[m].ping \in Ping /\ signed[m][n] # None
          BY <4>1 DEF ManInv, ManTypeOK, ListedSigned, Entry
        <5> QED BY <2>2, <5>1 DEF Dseg, ManInv, ManTypeOK
      <4>2. CASE ~(vMasternodes[m] # None /\ vMasternodes[m].number = n)
        BY <2>2, <4>2 DEF Dseg, ManInv, ManTypeOK, ListedSigned
      <4> QED BY <4>1, <4>2
    <3>2. seenBroadcast' = [m \in MN |-> [n \in Number |-> seenBroadcast'[m][n]]]
      BY <2>2 DEF Dseg
    <3> QED BY <3>1, <3>2
  <2> QED BY <2>1, <2>2
<1>3. ManTypeOK'
  BY <1>0, <1>1, <1>2 DEF ManInv, ManTypeOK
<1> QED BY <1>0, <1>2, <1>3 DEF ManInv, ListedSigned, StartedAsMine, Forward

(* CheckAndRemove and a restart: entries are checked, or removed.          *)
LEMMA RemoveInv ==
  ASSUME ManInv, NEW list \in [MN -> Entry \cup {None}], NEW force, Remove(list, force),
         \A m \in MN : list[m] = None \/
           /\ vMasternodes[m] # None
           /\ list[m].number = vMasternodes[m].number /\ list[m].ping = vMasternodes[m].ping,
         UNCHANGED worldVars, dseg' \subseteq MN,
         UNCHANGED activeVars \/ (activeVin' = None /\ status' = "INITIAL")
  PROVE  ManInv' /\ \A k \in MN : Forward(vMasternodes[k], vMasternodes'[k])
<1>1. ManTypeOK'
  BY RemoveFacts DEF ManInv, ManTypeOK, worldVars, activeVars
<1>2. ListedSigned'
  <2>1. \A m \in MN : vMasternodes'[m] # None => signed[m][vMasternodes'[m].number] # None
    BY RemoveFacts DEF ManInv, ListedSigned
  <2>2. \A m \in MN, n \in Number : seenBroadcast'[m][n] # None => signed[m][n] # None
    BY RemoveFacts DEF ManInv, ListedSigned
  <2> QED BY <2>1, <2>2 DEF ListedSigned, worldVars
<1>3. StartedAsMine'
  BY DEF ManInv, StartedAsMine, worldVars, activeVars
<1>4. \A k \in MN : Forward(vMasternodes[k], vMasternodes'[k])
  BY RemoveFacts DEF Forward, ManInv
<1> QED BY <1>1, <1>2, <1>3, <1>4 DEF ManInv

(* The list as Check leaves it, but for the entries in done.               *)
CheckedList(lock, done) == [m \in MN |->
  IF vMasternodes[m] = None \/ m \in done
  THEN vMasternodes[m] ELSE Check(m, vMasternodes[m], lock)]

(* Check keeps numbers and pings.                                          *)
LEMMA CheckedListFacts ==
  ASSUME ManTypeOK, NEW lock, NEW done, NEW list, list = CheckedList(lock, done)
  PROVE  /\ list \in [MN -> Entry \cup {None}]
         /\ \A m \in MN : list[m] = None \/
              /\ vMasternodes[m] # None
              /\ list[m].number = vMasternodes[m].number /\ list[m].ping = vMasternodes[m].ping
<1> USE DEF CheckedList
<1>1. ASSUME NEW m \in MN
      PROVE  /\ list[m] \in Entry \cup {None}
             /\ list[m] = None \/
                  /\ vMasternodes[m] # None
                  /\ list[m].number = vMasternodes[m].number
                  /\ list[m].ping = vMasternodes[m].ping
  <2>1. CASE vMasternodes[m] = None \/ m \in done
    BY <2>1 DEF ManTypeOK
  <2>2. CASE ~(vMasternodes[m] = None \/ m \in done)
    <3>1. vMasternodes[m] \in Entry
      BY <2>2 DEF ManTypeOK
    <3> QED BY <2>2, <3>1, CheckFacts
  <2> QED BY <2>1, <2>2
<1> QED BY <1>1

(* CheckAndRemove, every minute.                                           *)
LEMMA CheckAndRemoveInv ==
  ASSUME ManInv, NEW lock, NEW done, CheckAndRemove(lock, done)
  PROVE  ManInv' /\ \A k \in MN : Forward(vMasternodes[k], vMasternodes'[k])
<1>1. PICK list : list = CheckedList(lock, done)
  OBVIOUS
<1>2. Remove(list, FALSE) /\ UNCHANGED <<dseg, activeVars, worldVars>>
  BY <1>1 DEF CheckAndRemove, CheckedList
<1>3. dseg' \subseteq MN /\ ManTypeOK
  BY <1>2 DEF ManInv, ManTypeOK
<1>4. /\ list \in [MN -> Entry \cup {None}]
      /\ \A m \in MN : list[m] = None \/
           /\ vMasternodes[m] # None
           /\ list[m].number = vMasternodes[m].number /\ list[m].ping = vMasternodes[m].ping
  BY <1>1, <1>3, CheckedListFacts
<1> QED BY <1>2, <1>3, <1>4, RemoveInv

(* A restart from mncache.dat, or without.                                 *)
LEMMA RestartInv ==
  ASSUME ManInv, NEW keep \in BOOLEAN, NEW lock, Restart(keep, lock)
  PROVE  ManInv' /\ \A k \in MN : Forward(vMasternodes[k], vMasternodes'[k])
<1>1. activeVin' = None /\ status' = "INITIAL" /\ dseg' = {} /\ UNCHANGED worldVars
  BY DEF Restart
<1>2. CASE keep
  <2>1. PICK list : list = CheckedList(lock, {})
    OBVIOUS
  <2>2. list = [m \in MN |-> IF vMasternodes[m] = None THEN None
                             ELSE Check(m, vMasternodes[m], lock)]
    BY <2>1 DEF CheckedList
  <2>3. Remove(list, TRUE)
    BY <1>2, <2>2 DEF Restart
  <2>4. dseg' \subseteq MN /\ ManTypeOK
    BY <1>1 DEF ManInv
  <2>5. /\ list \in [MN -> Entry \cup {None}]
        /\ \A m \in MN : list[m] = None \/
             /\ vMasternodes[m] # None
             /\ list[m].number = vMasternodes[m].number /\ list[m].ping = vMasternodes[m].ping
    BY <2>1, <2>4, CheckedListFacts
  <2> QED BY <1>1, <2>3, <2>4, <2>5, RemoveInv
<1>3. CASE ~keep
  <2>1. /\ vMasternodes' = [m \in MN |-> None]
        /\ seenBroadcast' = [m \in MN |-> [n \in Number |-> None]]
        /\ seenPing' = [m \in MN |-> {}]
        /\ asked' = [m \in MN |-> 0]
    BY <1>3 DEF Restart
  <2>2. ManTypeOK'
    BY <1>1, <2>1, ManConstants DEF ManInv, ManTypeOK, worldVars
  <2> QED BY <1>1, <2>1, <2>2 DEF ManInv, ListedSigned, StartedAsMine, Forward, worldVars
<1> QED BY <1>2, <1>3

(* SendMasternodePing with the entry as it is found, or just checked.      *)
LEMMA SendPingInv ==
  ASSUME ManInv, mine # None, NEW e \in Entry \cup {None}, SendMasternodePing(mine, e),
         e = None \/ /\ vMasternodes[mine] # None
                     /\ e.number = vMasternodes[mine].number
                     /\ e.ping = vMasternodes[mine].ping,
         UNCHANGED <<asked, dseg, signed, spent, mine, spork10>>
  PROVE  ManInv' /\ \A k \in MN : Forward(vMasternodes[k], vMasternodes'[k])
<1>1. mine \in MN
  BY DEF ManInv, ManTypeOK
<1>2. CASE e = None
  <2>1. status' = "NOT_CAPABLE" /\ UNCHANGED <<vMasternodes, seenBroadcast, seenPing, activeVin>>
    BY <1>2 DEF SendMasternodePing
  <2> QED BY <2>1 DEF ManInv, ManTypeOK, ListedSigned, StartedAsMine, Forward
<1>3. CASE e # None
  <2>1. /\ e \in Entry /\ e.number \in Number /\ e.ping \in Ping
        /\ vMasternodes[mine] # None
        /\ e.number = vMasternodes[mine].number /\ e.ping = vMasternodes[mine].ping
    BY <1>3 DEF Entry
  <2>2. activeVin' = mine /\ status' = "STARTED"
    BY <1>3 DEF SendMasternodePing
  <2>3. signed[mine][e.number] # None
    BY <1>1, <2>1 DEF ManInv, ListedSigned
  <2> DEFINE g == [e EXCEPT !.ping = 0]
  <2>4. g \in Entry /\ g.number = e.number /\ g.ping = 0
    BY <2>1, AgeFacts DEF Entry
  <2> HIDE DEF g
  <2>5. \E f \in Entry :
          /\ vMasternodes' = [vMasternodes EXCEPT ![mine] = f]
          /\ f.number = e.number
          /\ f.ping = e.ping \/ (f.ping = 0 /\ (e.ping = NoPing \/ 0 < e.ping))
    <3>1. CASE IsPingedWithinAt(e, PING, 0)
      BY <1>3, <2>1, <3>1 DEF SendMasternodePing
    <3>2. CASE ~IsPingedWithinAt(e, PING, 0)
      <4>1. e.ping # NoPing => e.ping \in Int
        BY <2>1, AgeFacts
      <4>2. e.ping = NoPing \/ 0 < e.ping
        BY <3>2, <4>1, ManConstants DEF IsPingedWithinAt
      <4>3. vMasternodes' = [vMasternodes EXCEPT ![mine] = g]
        BY <1>3, <3>2 DEF SendMasternodePing, g
      <4> QED BY <2>4, <4>2, <4>3
    <3> QED BY <3>1, <3>2
  <2>6. PICK f \in Entry :
          /\ vMasternodes' = [vMasternodes EXCEPT ![mine] = f]
          /\ f.number = e.number
          /\ f.ping = e.ping \/ (f.ping = 0 /\ (e.ping = NoPing \/ 0 < e.ping))
    BY <2>5
  <2>7. /\ vMasternodes' \in [MN -> Entry \cup {None}]
        /\ \A k \in MN : vMasternodes'[k] = IF k = mine THEN f ELSE vMasternodes[k]
    BY <1>1, <2>6 DEF ManInv, ManTypeOK
  <2> DEFINE pinged == /\ seenPing' = [seenPing EXCEPT ![mine] = @ \cup {0}]
                       /\ seenBroadcast' = Follow(seenBroadcast, mine, e, 0)
  <2>8. pinged \/ UNCHANGED <<seenBroadcast, seenPing>>
    BY <1>3 DEF SendMasternodePing
  <2>9. seenPing' \in [MN -> SUBSET Fresh]
    <3>1. CASE pinged
      BY <1>1, <3>1, TableTypes, AgeFacts DEF ManInv
    <3>2. CASE UNCHANGED <<seenBroadcast, seenPing>>
      BY <3>2 DEF ManInv, ManTypeOK
    <3> QED BY <2>8, <3>1, <3>2
  <2>10. /\ seenBroadcast' \in [MN -> [Number -> Ping \cup {None}]]
        /\ \A k \in MN, i \in Number :
             k # mine \/ i # e.number => seenBroadcast'[k][i] = seenBroadcast[k][i]
    <3>1. CASE pinged
      BY <1>1, <2>1, <3>1, AgeFacts DEF Follow, ManInv, ManTypeOK
    <3>2. CASE UNCHANGED <<seenBroadcast, seenPing>>
      BY <3>2 DEF ManInv, ManTypeOK
    <3> QED BY <2>8, <3>1, <3>2
  <2>11. ManTypeOK'
    BY <1>1, <2>2, <2>7, <2>9, <2>10 DEF ManInv, ManTypeOK
  <2>12. ListedSigned'
    BY <2>3, <2>6, <2>7, <2>10 DEF ManInv, ListedSigned
  <2>13. StartedAsMine'
    BY <2>2 DEF StartedAsMine
  <2>14. \A k \in MN : Forward(vMasternodes[k], vMasternodes'[k])
    BY <2>1, <2>6, <2>7, AgeFacts DEF Forward
  <2> QED BY <2>11, <2>12, <2>13, <2>14 DEF ManInv
<1> QED BY <1>2, <1>3

(* Register puts a broadcast of its own into the list.                     *)
LEMMA RegisterInv ==
  ASSUME ManInv, mine # None, NEW e \in Entry \cup {None}, NEW n \in Number, NEW lock,
         Register(mine, e, n, lock),
         e = None \/ /\ vMasternodes[mine] # None
                     /\ e.number = vMasternodes[mine].number
                     /\ e.ping = vMasternodes[mine].ping,
         e = None => vMasternodes[mine] = None,
         UNCHANGED <<asked, dseg, spent, mine, spork10>>
  PROVE  ManInv' /\ \A k \in MN : Forward(vMasternodes[k], vMasternodes'[k])
<1>0. PICK good \in BOOLEAN : good = TRUE
  OBVIOUS
<1> DEFINE u == UpdateFromNewBroadcast(mine, e, n, 0, lock, good)
           new == [number |-> n, ping |-> 0, state |-> "ENABLED"]
           f == IF e = None THEN new ELSE u
<1>1. mine \in MN /\ 0 \in Ping /\ 0 \in Fresh
  BY AgeFacts DEF ManInv, ManTypeOK
<1>2. /\ signed' = [signed EXCEPT ![mine][n] = 0]
      /\ seenPing' = [seenPing EXCEPT ![mine] = @ \cup {0}]
      /\ seenBroadcast' = [seenBroadcast EXCEPT ![mine][n] = 0]
      /\ vMasternodes' = [vMasternodes EXCEPT ![mine] = f]
      /\ activeVin' = mine /\ status' = "STARTED"
  BY <1>0 DEF Register
<1>3. new \in Entry /\ new.number = n
  BY <1>1 DEF Entry, State
<1>4. e # None => /\ e \in Entry /\ u \in Entry
                  /\ u = e \/ (u.number = n /\ e.number # n)
  <2> SUFFICES ASSUME e # None
               PROVE  /\ e \in Entry /\ u \in Entry
                      /\ u = e \/ (u.number = n /\ e.number # n)
    OBVIOUS
  <2>1. e \in Entry
    OBVIOUS
  <2>2. /\ u \in Entry
        /\ n <= e.number => u = e
        /\ n > e.number => u.number = n
    BY <1>1, <2>1, UpdateFacts
  <2>3. n \in Int /\ e.number \in Int
    BY <2>1, AgeFacts DEF Entry
  <2> HIDE DEF u, new
  <2> QED BY <2>1, <2>2, <2>3
<1> HIDE DEF u, new
<1>5. f \in Entry
  BY <1>3, <1>4
<1>6. vMasternodes[mine] # None =>
        \/ f.number = vMasternodes[mine].number /\ f.ping = vMasternodes[mine].ping
        \/ f.number = n /\ vMasternodes[mine].number # n
  BY <1>4
<1>7. f.number = n \/ (vMasternodes[mine] # None /\ f.number = vMasternodes[mine].number)
  BY <1>3, <1>4
<1> HIDE DEF f
<1>8. /\ vMasternodes' \in [MN -> Entry \cup {None}]
      /\ \A k \in MN : vMasternodes'[k] = IF k = mine THEN f ELSE vMasternodes[k]
  BY <1>1, <1>2, <1>5 DEF ManInv, ManTypeOK
<1>9. /\ seenBroadcast' \in [MN -> [Number -> Ping \cup {None}]]
      /\ seenPing' \in [MN -> SUBSET Fresh]
  BY <1>1, <1>2, TableTypes DEF ManInv
<1>10. \A k \in MN, i \in Number :
         k # mine \/ i # n => seenBroadcast'[k][i] = seenBroadcast[k][i]
  BY <1>1, <1>2 DEF ManInv, ManTypeOK
<1>11. 0 \in (0 .. MIN_MNB) /\ 0 # None
  BY ManConstants, MasternodeManAssumption
<1>12. /\ signed' \in [MN -> [Number -> (0 .. MIN_MNB) \cup {None}]]
       /\ signed'[mine][n] # None
       /\ \A k \in MN, i \in Number : signed[k][i] # None => signed'[k][i] # None
  BY <1>1, <1>2, <1>11 DEF ManInv, ManTypeOK
<1>13. ManTypeOK'
  BY <1>1, <1>2, <1>8, <1>9, <1>12 DEF ManInv, ManTypeOK
<1>14. ListedSigned'
  <2>1. \A k \in MN : vMasternodes'[k] # None => signed'[k][vMasternodes'[k].number] # None
    <3> SUFFICES ASSUME NEW k \in MN, vMasternodes'[k] # None
                 PROVE  signed'[k][vMasternodes'[k].number] # None
      OBVIOUS
    <3>1. vMasternodes'[k] \in Entry /\ vMasternodes'[k].number \in Number
      BY <1>8 DEF Entry
    <3>2. \/ k = mine /\ vMasternodes'[k].number = n
          \/ vMasternodes[k] # None /\ vMasternodes'[k].number = vMasternodes[k].number
      BY <1>7, <1>8
    <3> QED BY <1>12, <3>1, <3>2 DEF ManInv, ListedSigned
  <2>2. \A k \in MN, i \in Number : seenBroadcast'[k][i] # None => signed'[k][i] # None
    BY <1>10, <1>12 DEF ManInv, ListedSigned
  <2> QED BY <2>1, <2>2 DEF ListedSigned
<1>15. StartedAsMine'
  BY <1>2 DEF StartedAsMine
<1>16. \A k \in MN : Forward(vMasternodes[k], vMasternodes'[k])
  BY <1>6, <1>8 DEF Forward
<1> QED BY <1>13, <1>14, <1>15, <1>16 DEF ManInv

(* ManageStatus, in all its outcomes.                                      *)
LEMMA ManageInv ==
  ASSUME ManInv, NEW before, NEW lock, NEW done, ManageFrom(before, lock, done)
  PROVE  ManInv' /\ \A k \in MN : Forward(vMasternodes[k], vMasternodes'[k])
<1> DEFINE initial == before \in {"INITIAL", "SYNC_IN_PROCESS"}
           e == IF initial /\ ~done /\ vMasternodes[mine] # None
                THEN Check(mine, vMasternodes[mine], lock) ELSE vMasternodes[mine]
           found == initial /\ e # None /\ e.state = "ENABLED"
<1>1. mine # None /\ mine \in MN /\ UNCHANGED <<asked, dseg, spent, mine, spork10>>
  BY DEF ManageFrom, ManInv, ManTypeOK
<1>2. /\ e \in Entry \cup {None}
      /\ e = None \/ /\ vMasternodes[mine] # None
                     /\ e.number = vMasternodes[mine].number
                     /\ e.ping = vMasternodes[mine].ping
      /\ e = None => vMasternodes[mine] = None
  <2>1. CASE vMasternodes[mine] = None
    BY <2>1
  <2>2. CASE vMasternodes[mine] # None
    <3>1. vMasternodes[mine] \in Entry
      BY <1>1, <2>2 DEF ManInv, ManTypeOK
    <3>2. /\ Check(mine, vMasternodes[mine], lock) \in Entry
          /\ Check(mine, vMasternodes[mine], lock).number = vMasternodes[mine].number
          /\ Check(mine, vMasternodes[mine], lock).ping = vMasternodes[mine].ping
      BY <3>1, CheckFacts
    <3>3. None \notin Entry
      BY MasternodeManAssumption
    <3> QED BY <2>2, <3>1, <3>2, <3>3
  <2> QED BY <2>1, <2>2
<1>3. \/ SendMasternodePing(mine, e) /\ UNCHANGED signed
      \/ /\ status' = "NOT_CAPABLE"
         /\ activeVin' \in {activeVin} \cup (IF Wallet THEN {mine} ELSE {})
         /\ vMasternodes' = [vMasternodes EXCEPT ![mine] = e]
         /\ UNCHANGED <<seenBroadcast, seenPing, signed>>
      \/ \E n \in Number : Register(mine, e, n, lock)
  BY DEF ManageFrom
<1> HIDE DEF e
<1>4. CASE SendMasternodePing(mine, e) /\ UNCHANGED signed
  BY <1>1, <1>2, <1>4, SendPingInv
<1>5. CASE /\ status' = "NOT_CAPABLE"
           /\ activeVin' \in {activeVin} \cup (IF Wallet THEN {mine} ELSE {})
           /\ vMasternodes' = [vMasternodes EXCEPT ![mine] = e]
           /\ UNCHANGED <<seenBroadcast, seenPing, signed>>
  <2>1. /\ vMasternodes' \in [MN -> Entry \cup {None}]
        /\ \A k \in MN : vMasternodes'[k] = IF k = mine THEN e ELSE vMasternodes[k]
    BY <1>1, <1>2, <1>5 DEF ManInv, ManTypeOK
  <2>2. activeVin' \in {None, mine}
    BY <1>5 DEF ManInv, StartedAsMine
  <2>3. ManTypeOK'
    BY <1>1, <1>5, <2>1, <2>2 DEF ManInv, ManTypeOK
  <2>4. ListedSigned'
    BY <1>2, <1>5, <2>1 DEF ManInv, ListedSigned
  <2>5. StartedAsMine'
    BY <1>1, <1>5, <2>2 DEF StartedAsMine
  <2>6. \A k \in MN : Forward(vMasternodes[k], vMasternodes'[k])
    BY <1>2, <2>1 DEF Forward
  <2> QED BY <2>3, <2>4, <2>5, <2>6 DEF ManInv
<1>6. CASE \E n \in Number : Register(mine, e, n, lock)
  BY <1>1, <1>2, <1>6, RegisterInv
<1> QED BY <1>3, <1>4, <1>5, <1>6

(* The world: what the node holds stays, or gets older.                    *)
LEMMA WorldInv ==
  ASSUME ManInv, NotSynced \/ (\E m \in MN, n \in Number : Announce(m, n))
                           \/ (\E m \in MN : Spend(m)) \/ ManSporkChanges
  PROVE  ManInv' /\ \A k \in MN : Forward(vMasternodes[k], vMasternodes'[k])
<1>1. /\ UNCHANGED <<vMasternodes, seenBroadcast, seenPing, asked, dseg, activeVin, mine>>
      /\ status' \in {status, "SYNC_IN_PROCESS"}
      /\ spent' \subseteq MN
  BY DEF NotSynced, Announce, Spend, ManSporkChanges, listVars, activeVars, worldVars, ManInv, ManTypeOK
<1>2. /\ signed' \in [MN -> [Number -> (0 .. MIN_MNB) \cup {None}]]
      /\ \A k \in MN, i \in Number : signed[k][i] # None => signed'[k][i] # None
  <2>1. CASE UNCHANGED signed
    BY <2>1 DEF ManInv, ManTypeOK
  <2>2. ASSUME NEW m \in MN, NEW n \in Number, signed' = [signed EXCEPT ![m][n] = 0]
        PROVE  /\ signed' \in [MN -> [Number -> (0 .. MIN_MNB) \cup {None}]]
               /\ \A k \in MN, i \in Number : signed[k][i] # None => signed'[k][i] # None
    <3>1. 0 \in (0 .. MIN_MNB) /\ 0 # None
      BY ManConstants, MasternodeManAssumption
    <3> QED BY <2>2, <3>1 DEF ManInv, ManTypeOK
  <2> QED BY <2>1, <2>2 DEF NotSynced, Announce, Spend, ManSporkChanges, worldVars
<1>3. spork10' \in BOOLEAN
  BY Zenon DEF NotSynced, Announce, Spend, ManSporkChanges, worldVars, ManInv, ManTypeOK
<1>4. ManTypeOK'
  BY <1>1, <1>2, <1>3 DEF ManInv, ManTypeOK
<1>5. ListedSigned'
  BY <1>1, <1>2 DEF ManInv, ManTypeOK, ListedSigned, Entry
<1> QED BY <1>1, <1>4, <1>5 DEF ManInv, StartedAsMine, Forward

(* The clock ages everything by one; nothing else changes.                 *)
LEMMA TickInv == ManInv /\ ManTick => ManInv'
<1> SUFFICES ASSUME ManInv, ManTick PROVE ManInv'
  OBVIOUS
<1> USE DEF ManInv
<1>1. UNCHANGED <<dseg, activeVin, status, spent, mine, spork10>>
  BY DEF ManTick, activeVars
<1>2. ASSUME NEW m \in MN
      PROVE  /\ vMasternodes'[m] \in Entry \cup {None}
             /\ vMasternodes'[m] # None =>
                  /\ vMasternodes[m] # None
                  /\ vMasternodes'[m].number = vMasternodes[m].number
                  /\ vMasternodes'[m].number \in Number
  <2>1. CASE vMasternodes[m] = None
    BY <2>1 DEF ManTick
  <2>2. CASE vMasternodes[m] # None
    <3> DEFINE e == vMasternodes[m]
    <3>1. e \in Entry /\ e.ping \in Ping
      BY <2>2 DEF ManTypeOK, Entry
    <3>2. Aged(e.ping) \in Ping
      BY <3>1, AgedType
    <3>3. vMasternodes'[m] = [e EXCEPT !.ping = Aged(e.ping)]
      BY <2>2 DEF ManTick
    <3> QED BY <2>2, <3>1, <3>2, <3>3 DEF Entry
  <2> QED BY <2>1, <2>2
<1>3. vMasternodes' \in [MN -> Entry \cup {None}]
  <2>1. vMasternodes' = [m \in MN |-> vMasternodes'[m]]
    BY DEF ManTick
  <2> QED BY <1>2, <2>1
<1>4. /\ seenBroadcast' \in [MN -> [Number -> Ping \cup {None}]]
      /\ \A m \in MN, n \in Number : seenBroadcast'[m][n] # None => seenBroadcast[m][n] # None
  <2>1. \A m \in MN, n \in Number :
          seenBroadcast'[m][n] = IF seenBroadcast[m][n] = None THEN None
                                 ELSE Aged(seenBroadcast[m][n])
    BY DEF ManTick
  <2>2. seenBroadcast' = [m \in MN |-> [n \in Number |-> seenBroadcast'[m][n]]]
    BY DEF ManTick
  <2>3. ASSUME NEW m \in MN, NEW n \in Number
        PROVE  /\ seenBroadcast'[m][n] \in Ping \cup {None}
               /\ seenBroadcast'[m][n] # None => seenBroadcast[m][n] # None
    BY <2>1, AgedType DEF ManTypeOK
  <2> QED BY <2>2, <2>3
<1>5. seenPing' \in [MN -> SUBSET Fresh]
  BY DEF ManTick
<1>6. asked' \in [MN -> 0 .. MIN_MNP]
  BY ManConstants DEF ManTick, ManTypeOK
<1>7. ASSUME NEW m \in MN, NEW n \in Number
      PROVE  /\ signed'[m][n] \in (0 .. MIN_MNB) \cup {None}
             /\ signed[m][n] # None => signed'[m][n] # None
  <2>1. signed[m][n] \in (0 .. MIN_MNB) \cup {None}
    BY DEF ManTypeOK
  <2>2. signed'[m][n] = IF signed[m][n] \in {None, MIN_MNB} THEN signed[m][n]
                        ELSE signed[m][n] + 1
    BY DEF ManTick
  <2> QED BY <2>1, <2>2, ManConstants, MasternodeManAssumption
<1>8. signed' \in [MN -> [Number -> (0 .. MIN_MNB) \cup {None}]]
  <2>1. signed' = [m \in MN |-> [n \in Number |-> signed'[m][n]]]
    BY DEF ManTick
  <2> QED BY <1>7, <2>1
<1>9. ManTypeOK'
  BY <1>1, <1>3, <1>4, <1>5, <1>6, <1>8 DEF ManTypeOK
<1>10. ListedSigned'
  BY <1>2, <1>4, <1>7 DEF ListedSigned
<1>11. StartedAsMine'
  BY <1>1 DEF StartedAsMine
<1> QED BY <1>9, <1>10, <1>11

(* Every step keeps the invariant, and only the clock makes pings older.   *)
LEMMA ManStep ==
  ASSUME ManInv, ManNext
  PROVE  ManInv' /\ (ManTick \/ \A k \in MN : Forward(vMasternodes[k], vMasternodes'[k]))
<1>1. ASSUME NEW m \in MN, NEW n \in Number, NEW p \in Carried, NEW lock \in BOOLEAN,
             NEW good \in BOOLEAN, NEW out \in Outcome, RelayedMnb(m, n, p, lock, good, out)
      PROVE  ManInv' /\ \A k \in MN : Forward(vMasternodes[k], vMasternodes'[k])
  <2>1. Mnb(m, n, p, lock, good, out) /\ dseg' \subseteq MN
    BY <1>1 DEF RelayedMnb, ManInv, ManTypeOK
  <2> QED BY <2>1, MnbInv
<1>2. CASE Messages
  BY <1>1, <1>2, AnswerInv, MnpInv, OtherMessagesInv DEF Messages
<1>3. CASE \E lock \in BOOLEAN, done \in SUBSET MN : CheckAndRemove(lock, done)
  BY <1>3, CheckAndRemoveInv
<1>4. CASE \E lock, done \in BOOLEAN : ManageStatus(lock, done) \/ StartLocal(lock, done)
  BY <1>4, ManageInv DEF ManageStatus, StartLocal
<1>5. CASE NotSynced \/ (\E m \in MN, n \in Number : Announce(m, n)) \/ (\E m \in MN : Spend(m))
       \/ ManSporkChanges
  BY <1>5, WorldInv
<1>6. CASE \E keep, lock \in BOOLEAN : Restart(keep, lock)
  BY <1>6, RestartInv
<1>7. CASE ManTick
  BY <1>7, TickInv
<1> QED BY <1>2, <1>3, <1>4, <1>5, <1>6, <1>7 DEF ManNext

(* The invariant holds at the start and is kept.                           *)
LEMMA ManInvInit == ManInit => ManInv
<1> SUFFICES ASSUME ManInit PROVE ManInv
  OBVIOUS
<1>1. 0 \in 0 .. MIN_MNP
  BY ManConstants
<1>2. ManTypeOK
  BY <1>1, MasternodeManAssumption DEF ManInit, ManTypeOK
<1>3. ListedSigned /\ StartedAsMine
  BY <1>2 DEF ManInit, ListedSigned, StartedAsMine
<1> QED BY <1>2, <1>3 DEF ManInv

LEMMA ManInvNext == ManInv /\ [ManNext]_manVars => ManInv'
<1> SUFFICES ASSUME ManInv, [ManNext]_manVars PROVE ManInv'
  OBVIOUS
<1>1. CASE ManNext
  BY <1>1, ManStep
<1>2. CASE UNCHANGED manVars
  BY <1>2 DEF manVars, listVars, activeVars, worldVars, ManInv, ManTypeOK, ListedSigned,
              StartedAsMine
<1> QED BY <1>1, <1>2

(* The list, the tables of seen messages and the state of the node's own   *)
(* masternode keep their types.                                            *)
THEOREM MasternodeManTypeOK == ManSpec => []ManTypeOK
<1>1. ManInv => ManTypeOK
  BY DEF ManInv
<1> QED BY <1>1, ManInvInit, ManInvNext, PTL DEF ManSpec

(* Every entry of the list and every broadcast in the table of seen ones   *)
(* is of a broadcast that its operator signed, through updates, restarts   *)
(* and removals, so UpdateFromNewBroadcast never compares with one that    *)
(* does not exist; and a node whose masternode is started uses the vin of  *)
(* the masternode that has its key (activemasternode.cpp).                 *)
THEOREM MasternodeManSigned == ManSpec => [](ListedSigned /\ StartedAsMine)
<1>1. ManInv => ListedSigned /\ StartedAsMine
  BY DEF ManInv
<1> QED BY <1>1, ManInvInit, ManInvNext, PTL DEF ManSpec

(* While the entry of a broadcast is enabled, its last ping only moves     *)
(* forward in time, however pings come (CMasternodePing::CheckAndUpdate).  *)
THEOREM MasternodeManPingsForward == ManSpec => PingsForward
<1> DEFINE A == ManTick \/ \A m \in MN : LET e == vMasternodes[m]  f == vMasternodes'[m] IN
                  (e # None /\ e.state = "ENABLED" /\ f # None /\ f.number = e.number)
                    => \/ f.ping = e.ping
                       \/ f.ping # NoPing /\ (e.ping = NoPing \/ f.ping < e.ping)
<1>1. ManInv /\ [ManNext]_manVars => [A]_manVars
  <2> SUFFICES ASSUME ManInv, ManNext PROVE A
    OBVIOUS
  <2> QED BY ManStep DEF Forward
<1> QED BY <1>1, ManInvInit, ManInvNext, PTL DEF ManSpec, PingsForward
=============================================================================
