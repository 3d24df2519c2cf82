--------------------------- MODULE MasternodeSync ---------------------------
(***************************************************************************)
(* CMasternodeSync (masternode-sync.cpp): a node fetches sporks, the       *)
(* masternode list, the payment winners and the budget from its peers, one *)
(* stage after the other.  Process runs on the masternode thread, items    *)
(* and IsBlockchainSynced on the message thread, "mnsync reset" on an RPC  *)
(* thread, none of them under a common lock.  Times are ages in seconds,   *)
(* that stop growing when no comparison of the code can tell any more.     *)
(* The regtest shortcut of Process is left out.                            *)
(***************************************************************************)
EXTENDS Integers, FiniteSets

CONSTANTS Peer,         \* connections, reused when a peer leaves
          Outdated,     \* peers below the protocol version sync asks for
          Hash,         \* hashes of the items of each stage
          TIMEOUT,      \* MASTERNODE_SYNC_TIMEOUT
          THRESHOLD,    \* MASTERNODE_SYNC_THRESHOLD
          RetryDelay,   \* seconds in FAILED before a new round
          Never

INITIAL == 0
SPORKS == 1
LIST == 2
MNW == 3
BUDGET == 4
FAILED == 998
FINISHED == 999

Asset == {INITIAL, SPORKS, LIST, MNW, BUDGET, FAILED, FINISHED}
Item == {LIST, MNW, BUDGET}
Request == {SPORKS} \cup Item  \* "getspork", "mnsync", "mnwsync", "busync"

ASSUME PeerAssumption == Outdated \subseteq Peer
ASSUME TimeAssumption == TIMEOUT \in Nat /\ RetryDelay \in Nat
ASSUME ThresholdAssumption == THRESHOLD \in Nat \ {0}
ASSUME NeverAssumption == Never \notin Nat

(* Ages stop at the first value that every comparison takes for old.       *)
OldItem == TIMEOUT * 2 + 1
OldStart == TIMEOUT * 5 + 1
OldFailure == RetryDelay + 1

VARIABLES
  sync,              \* the object's fields (SyncState)
  fulfilled,         \* fulfilled[p]: vecRequestsFulfilled of the peer
  fBlockchainSynced, \* the static flag of IsBlockchainSynced
  slept,             \* more than an hour passed since it was last called
  enabled,           \* mnodeman.CountEnabled() > 0
  spork8             \* IsSporkActive(SPORK_8_MASTERNODE_PAYMENT_ENFORCEMENT)

vars == <<sync, fulfilled, fBlockchainSynced, slept, enabled, spork8>>

SyncState ==
  [assets  : Asset,                                 \* RequestedMasternodeAssets
   attempt : 0 .. THRESHOLD * 3,                    \* RequestedMasternodeAttempt
   last    : [Item -> {Never} \cup 0 .. OldItem],   \* lastMasternodeList, ...
   seen    : [Item -> [Hash -> 0 .. THRESHOLD]],    \* mapSeenSyncMNB, ...
   started : 0 .. OldStart,                         \* nAssetSyncStarted
   failure : 0 .. OldFailure,                       \* lastFailure
   skipped : SUBSET {LIST, MNW}]                    \* history: stages left while
                               \* spork 8 was off, or by a reset in GetNextAsset

Cleared ==
  [assets |-> INITIAL, attempt |-> 0, last |-> [a \in Item |-> Never],
   seen |-> [a \in Item |-> [h \in Hash |-> 0]], started |-> 0, failure |-> 0,
   skipped |-> {}]

(* CMasternodeSync::Reset.                                                 *)
Reset(s) == Cleared

Successor(a) ==
  CASE a \in {INITIAL, FAILED} -> SPORKS
    [] a = SPORKS -> LIST
    [] a = LIST -> MNW
    [] a = MNW -> BUDGET
    [] OTHER -> FINISHED

(* GetNextAsset reads and writes the stage without a lock.  When a reset   *)
(* of another thread falls in between (raced), the fields are cleared and  *)
(* the stage that follows the old one is written on top: the stages up to  *)
(* the old one are behind it, and what they received is lost.              *)
GetNextAsset(s, raced) ==
  [(IF raced THEN Reset(s) ELSE s)
     EXCEPT !.assets = Successor(s.assets), !.attempt = 0, !.started = 0,
            !.skipped = IF raced THEN {a \in {LIST, MNW} : a <= s.assets} ELSE @]

(* The stage is over: items came, and no new one for two timeouts.         *)
QuietWithoutItems(s) == s.attempt >= THRESHOLD \* mutant: no item is needed
Quiet(s) ==
  /\ s.last[s.assets] # Never
  /\ s.last[s.assets] > TIMEOUT * 2
  /\ s.attempt >= THRESHOLD

TimedOut(s) ==
  /\ s.last[s.assets] = Never
  /\ s.attempt >= THRESHOLD * 3 \/ s.started > TIMEOUT * 5

Fail(s) == [s EXCEPT !.assets = FAILED, !.attempt = 0, !.failure = 0]

Init ==
  /\ sync = Cleared
  /\ fulfilled = [p \in Peer |-> {}]
  /\ fBlockchainSynced = FALSE
  /\ slept = FALSE
  /\ enabled \in BOOLEAN
  /\ spork8 \in BOOLEAN

-----------------------------------------------------------------------------

(* The peers the loop of Process can ask in state s.                       *)
Unasked(s, f) == {p \in Peer : s.assets \notin f[p] /\
                               (s.assets = SPORKS \/ p \notin Outdated)}

(* What asking one peer makes of the object, after the early returns.      *)
AskEveryone(s) == [s EXCEPT !.attempt = @ + 1] \* mutant: no limit
Ask(s) ==
  IF s.assets # SPORKS /\ s.attempt >= THRESHOLD * 3 THEN s
  ELSE [s EXCEPT !.attempt = @ + 1]

(* The loop over the peers.  LIST and MNW look for a timeout only at a     *)
(* peer that has not been asked, BUDGET at any.  The order of vNodes is    *)
(* arbitrary.                                                              *)
Loop(s, f, raced) ==
  LET a == s.assets
      Mark(p) == fulfilled' = [f EXCEPT ![p] = @ \cup {a}]
  IN \/ /\ a = SPORKS
        /\ \E p \in Unasked(s, f) :
             /\ Mark(p)
             /\ sync' = Ask(IF s.attempt >= 2 THEN GetNextAsset(s, raced) ELSE s)
     \/ /\ a \in Item /\ Peer \ Outdated # {}
        /\ Quiet(s) \/ (a = BUDGET /\ TimedOut(s))
        /\ sync' = GetNextAsset(s, raced)
        /\ fulfilled' = f
     \/ /\ a \in Item /\ ~Quiet(s) /\ ~(a = BUDGET /\ TimedOut(s))
        /\ \E p \in Unasked(s, f) :
             /\ Mark(p)
             /\ sync' = IF ~TimedOut(s) THEN Ask(s)
                        ELSE IF spork8 THEN Fail(s)
                        ELSE [GetNextAsset(s, raced) EXCEPT !.skipped = @ \cup {a}]
     \/ /\ a \notin Request \/ (Unasked(s, f) = {} /\ (a \in Item =>
             \/ Peer \ Outdated = {}
             \/ ~Quiet(s) /\ ~(a = BUDGET /\ TimedOut(s))))
        /\ sync' = s /\ fulfilled' = f

(* IsBlockchainSynced: a call after a sleep resets the synchronisation.    *)
(* recent: cs_main is free and the tip is less than an hour old.           *)
IsBlockchainSynced(recent) ==
  /\ fBlockchainSynced' = ((fBlockchainSynced /\ ~slept) \/ recent)
  /\ slept' = FALSE

AfterSleep(s) == IF slept THEN Reset(s) ELSE s

(* Process runs: it returns at once when synced with masternodes, or for   *)
(* a while after a failure.                                                *)
RunsNeverAgain == sync.assets \notin {FAILED, FINISHED} \* mutant: no retry
Runs ==
  /\ sync.assets = FINISHED => ~enabled
  /\ sync.assets = FAILED => sync.failure > RetryDelay

Begin(s) == IF s.assets \in {FAILED, FINISHED} THEN Reset(s) ELSE s

(* CMasternodeSync::Process.  clear, lock: the two attempts to lock        *)
(* cs_vNodes succeed (ClearFulfilledRequest, the loop).                    *)
Process(clear, lock, recent, raced) ==
  LET s1 == Begin(sync)
      start == s1.assets = INITIAL
      s2 == IF start THEN GetNextAsset(s1, FALSE) ELSE s1
      f2 == IF start /\ clear THEN [p \in Peer |-> fulfilled[p] \ Request]
            ELSE fulfilled
      s3 == AfterSleep(s2)
  IN /\ Runs
     /\ IsBlockchainSynced(recent)
     /\ \E s \in {s3}, f \in {f2} :
          IF (fBlockchainSynced' \/ s.assets \in {INITIAL, SPORKS}) /\ lock
          THEN Loop(s, f, raced)
          ELSE sync' = s /\ fulfilled' = f
     /\ UNCHANGED <<enabled, spork8>>

(* Any other caller of IsBlockchainSynced.                                 *)
CheckSynced(recent) ==
  /\ slept \/ ~fBlockchainSynced
  /\ IsBlockchainSynced(recent)
  /\ sync' = AfterSleep(sync)
  /\ UNCHANGED <<fulfilled, enabled, spork8>>

(* AddedMasternodeList, AddedMasternodeWinner, AddedBudgetItem: an item    *)
(* counts as news THRESHOLD times.                                         *)
AddedAlways(a, h) == \* mutant: every sighting of an item counts
  /\ sync' = [sync EXCEPT !.last[a] = 0]
  /\ UNCHANGED <<fulfilled, fBlockchainSynced, slept, enabled, spork8>>
Added(a, h) ==
  /\ sync.seen[a][h] < THRESHOLD
  /\ sync' = [sync EXCEPT !.last[a] = 0, !.seen[a][h] = @ + 1]
  /\ UNCHANGED <<fulfilled, fBlockchainSynced, slept, enabled, spork8>>

(* Their else branch: the manager does not know the hash (it was erased    *)
(* after the caller looked).  It is news each time; insert keeps the count *)
(* of a hash that is in the map.                                           *)
AddedUnknown(a, h) ==
  /\ sync' = [sync EXCEPT !.last[a] = 0, !.seen[a][h] = IF @ = 0 THEN 1 ELSE @]
  /\ UNCHANGED <<fulfilled, fBlockchainSynced, slept, enabled, spork8>>

(* A masternode is removed or announced anew, or an old winner is cleaned  *)
(* up: the sightings of its hash are forgotten.                            *)
Forget(a, h) ==
  /\ a \in {LIST, MNW}
  /\ sync' = [sync EXCEPT !.seen[a][h] = 0]
  /\ UNCHANGED <<fulfilled, fBlockchainSynced, slept, enabled, spork8>>

(* "mnsync reset".                                                         *)
RpcReset ==
  /\ sync' = Reset(sync)
  /\ UNCHANGED <<fulfilled, fBlockchainSynced, slept, enabled, spork8>>

(* Masternodes expire or come back: CountEnabled changes.                  *)
EnabledChanges ==
  /\ enabled' = ~enabled
  /\ UNCHANGED <<sync, fulfilled, fBlockchainSynced, slept, spork8>>

(* The message of a spork switches the enforcement of payments.            *)
SporkChanges ==
  /\ spork8' = ~spork8
  /\ UNCHANGED <<sync, fulfilled, fBlockchainSynced, slept, enabled>>

(* A peer leaves and another takes its place.                              *)
Reconnect(p) ==
  /\ fulfilled' = [fulfilled EXCEPT ![p] = {}]
  /\ UNCHANGED <<sync, fBlockchainSynced, slept, enabled, spork8>>

(* d seconds pass.  An age stands still when no stage reads it before it   *)
(* is written again: a date of a stage that is over, lastFailure outside   *)
(* FAILED, nAssetSyncStarted outside the stages with items.                *)
Older(age, d, limit) == IF age + d < limit THEN age + d ELSE limit

Elapsed(s, d) ==
  [s EXCEPT
     !.started = IF s.assets \in Item THEN Older(@, d, OldStart) ELSE @,
     !.failure = IF s.assets = FAILED THEN Older(@, d, OldFailure) ELSE @,
     !.last = [a \in Item |-> IF s.last[a] = Never \/ s.assets > a THEN s.last[a]
                              ELSE Older(s.last[a], d, OldItem)]]

Tick ==
  /\ sync' = Elapsed(sync, 1)
  /\ UNCHANGED <<fulfilled, fBlockchainSynced, slept, enabled, spork8>>

(* The clock jumps by more than an hour, and so past every limit.          *)
Sleep ==
  /\ slept' = TRUE
  /\ sync' = Elapsed(sync, OldStart + OldFailure)
  /\ UNCHANGED <<fulfilled, fBlockchainSynced, enabled, spork8>>

(* What goes on all the time, and what throws the synchronisation back.    *)
Progress ==
  \/ \E clear, lock, recent \in BOOLEAN : Process(clear, lock, recent, FALSE)
  \/ \E recent \in BOOLEAN : CheckSynced(recent)
  \/ \E a \in Item, h \in Hash : Added(a, h)
  \/ EnabledChanges
  \/ SporkChanges
  \/ \E p \in Peer : Reconnect(p)
  \/ Tick

Setback ==
  \/ \E clear, lock, recent \in BOOLEAN : Process(clear, lock, recent, TRUE)
  \/ \E a \in Item, h \in Hash : AddedUnknown(a, h) \/ Forget(a, h)
  \/ RpcReset
  \/ Sleep

Next == Progress \/ Setback

Spec == Init /\ [][Next]_vars

-----------------------------------------------------------------------------
(* Properties *)

(* Type invariant.                                                         *)
TypeOK ==
  /\ sync \in SyncState
  /\ fulfilled \in [Peer -> SUBSET Request]
  /\ fBlockchainSynced \in BOOLEAN
  /\ slept \in BOOLEAN
  /\ enabled \in BOOLEAN
  /\ spork8 \in BOOLEAN

(* A node never calls itself synced, and so never judges payees            *)
(* (IsBlockPayeeValid), without having received a masternode and a winner  *)
(* since the last reset, whatever peers time out, sleep or reset in        *)
(* between.  There are two exceptions, and no other: a stage that timed    *)
(* out while spork 8 was off, and a reset inside GetNextAsset, which       *)
(* nothing locks.                                                          *)
FinishedHasData ==
  \A a \in {LIST, MNW} \ sync.skipped :
    sync.assets \notin {FAILED} \cup 0 .. a => sync.last[a] # Never

(* What a lock around the stage would give: while spork 8 is on no stage   *)
(* is skipped.  It does not hold (MCMasternodeSyncRace.cfg).               *)
EnforcedNeverSkips ==
  [][sync'.skipped \subseteq sync.skipped \/ ~spork8]_vars

(* Fairness: the thread runs Process, its locks are free and the tip is    *)
(* recent again and again; the clock moves.  Nothing is assumed of peers.  *)
FairSpec ==
  /\ Spec
  /\ WF_vars(Tick)
  /\ WF_vars(Process(TRUE, TRUE, TRUE, FALSE))

(* Process finds a peer that was not asked for the stage.                  *)
AsksFreshPeer ==
  /\ Unasked(sync, fulfilled) # {}
  /\ Process(TRUE, TRUE, TRUE, FALSE)

(* Synchronisation does not get stuck in a stage: when nothing throws it   *)
(* back any more and a fresh peer is there again and again, it is finished *)
(* or has failed again and again.  The items that are known stop counting  *)
(* as news, so they cannot hold a stage for ever.                          *)
SyncEnds ==
  (<>[][Progress]_vars /\ []<><<AsksFreshPeer>>_vars)
    => []<>(sync.assets \in {FAILED, FINISHED})

(* A failed synchronisation starts over, whatever resets and sleeps        *)
(* intervene.                                                              *)
FailureRetried ==
  (sync.assets = FAILED) ~> (sync.assets \in {INITIAL, SPORKS, LIST})

=============================================================================
