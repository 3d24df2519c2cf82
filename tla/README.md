# A TLA+ verification project for Cent

Cent is a proof-of-stake cryptocurrency node in C++, in the line Bitcoin - Dash -
PIVX. This directory holds TLA+ models of the parts of it that are concurrent,
distributed or stateful in ways tests hardly reach, TLC configurations that check
them on small instances, and TLAPS proofs of their main invariants for every size.
All paths below are relative to `src/src/` of the repository.

    tlc -workers 2 -config MCSwiftTX.cfg MCSwiftTX      # one run
    tlapm SwiftTX_proofs.tla                            # one set of proofs

`PROJECT.json` lists every run with its properties, which lines every definition
models, the mutants that show each property can fail, the findings and the hazards.

## 1. Inventory

| Part | State | Operations | Hard behaviour | Correct when |
|---|---|---|---|---|
| **SwiftTX locks** `swifttx.cpp` | `mapTxLockReq`, `mapTxLockReqRejected`, `mapTxLockVote`, `mapTxLocks`, `mapLockedInputs` | `ix` request, `txlvote` vote, completion, conflict cancellation, cleaning | request and votes in any order; pool, blocks, votes and RPC compete for inputs; a lock completes after a conflicting block | a vote counts once; an input has one owner until it expires; pool and chain respect complete locks; locks expire |
| **Sporks** `spork.cpp`, `sporkdb.cpp` | `mapSporks`, `mapSporksActive`, the database | sign, relay, serve, take, load | late and repeated messages, restart of the signer, relay before store | nodes with a spork of one second agree; no node goes back; what is taken is durable and spreads |
| **Masternode synchronisation** `masternode-sync.cpp` | stage, attempts, dates, seen counts; what each peer was asked | `Process` every second, item counters, `Reset` | three threads without a lock, time-outs, failure and retry, sleeps | no stage is left without its data; it ends or fails, and a failure is retried |
| **Block tree and active chain** `main.cpp`, `chain.cpp` | `mapBlockIndex`, failure flags, `mapBlocksUnlinked`, `setBlockIndexCandidates`, `chainActive` | headers, blocks, `ActivateBestChain`, invalidate, reconsider, replay | blocks before their parents; a reorganisation that fails half way with `cs_main` released between steps | the best chain not known to be invalid becomes active; bookkeeping is complete |
| **Parallel script checks** `checkqueue.h` | queue, `nIdle`, `nTotal`, `nTodo`, `fAllOk` | `Add`, `Wait`, worker loop | two condition variables, late workers, interruption at shutdown | `Wait` is the conjunction of its own block's checks, returns, and leaves nothing running |
| **Masternode list, active masternode** `masternode.cpp`, `masternodeman.cpp`, `activemasternode.cpp` | `vMasternodes`, seen broadcasts and pings, who asked whom, `activeMasternode` | `mnb`, `mnp`, `dseg`, `Check`, `CheckAndRemove`, `ManageStatus`, save and load | broadcasts and pings in any order, clocks that disagree, entries that are removed and asked for again | a last ping never moves back; a masternode that pings is enabled again and again, one that is silent is removed |
| **Payments** `masternode-payments.cpp` | votes, payees per block, last vote | `mnw`, `ProcessBlock`, `CleanPaymentList`, payee check, save and load | a vote is recorded under one lock and counted under another; torn file | every recorded vote counts once; a payee is enforced with enough votes only; the node accepts its own blocks |
| **Budget** `masternode-budget.cpp` | proposals, finalized budgets, seen and orphan votes, immature items | `mprop`, `mvote`, `fbs`, `fbvote`, `NewBlock`, `SubmitFinalBudget`, save and load | votes before their item, masternodes that leave and return, one-time automatic check | votes move forward in time; those that count are those of listed masternodes; the node accepts its own budget block |
| **Memory pool, orphans** `txmempool.cpp`, `main.cpp` | `mapTx`, `mapNextTx`, orphan maps | accept, remove recursively, conflicts, resurrect, orphan loop | reorganisations that return transactions one by one; orphans that follow each other | the pool is a block that could be mined; indexes are exact; no acceptable orphan is left behind |
| **Coins, index and flushing** `coins.cpp`, `txdb.cpp`, `main.cpp`, `init.cpp` | coins cache, dirty sets, block file, two databases, shutdown flag | connect, disconnect, `FlushStateToDisk`, start with repair, `VerifyDB` | the process dies between two writes | coins are those of their best block, which the index on disk knows; a clean stop loses nothing |
| **Scheduler** `scheduler.cpp` | `taskQueue`, threads | schedule, service, stop | several threads wait for one task | every task runs once, not before its time |
| Stake kernel, miner, net, addrman, wallet, alerts, RPC, GUI, Tor, scripts and keys, vendored code | | | | see section 8 |

How they interact. The message thread (`ProcessMessages`) calls all handlers;
`ThreadMasternodePool` drives synchronisation and every cleaning; RPC and GUI threads
call the same functions, often without `cs_main`. A completed SwiftTX lock calls
`ReprocessBlocks`, which takes blocks off the chain and re-activates it; the block and
pool checks read `mapLockedInputs`. Sporks switch features of all other parts;
synchronisation decides when payees are judged. The masternode list says who may vote
for payees, budgets and locks; payments and budget decide which coinbase `ConnectBlock`
accepts. `ConnectBlock` is the only user of the check queue; `ConnectTip` and
`DisconnectTip` move the coins, the pool and the tip together, and flush.

## 2. Plan

Done in this order, most important first: SwiftTX, Spork, MasternodeSync, ChainState,
CheckQueue with its abstract specification CheckVerdict; then MasternodePayments,
MasternodeMan with the active masternode, Budget, Mempool and ChainFlush; proofs of every
safety property of the passing runs (section 7), and SporkRegister, the abstract
specification of the sporks. Next:

1. An abstract specification of the chain ("a tip that is a best valid block") that
   ChainState implements between activations; a composition of SwiftTX on several nodes,
   and of MasternodeMan with MasternodeSync in place of its environment actions.
2. `Scheduler`; `AddrMan`; the selection of stake modifiers.

## 3. Modules and the code

**SwiftTX.tla** is one node. Its variables carry the names of the maps of `swifttx.cpp`;
`mempool` and `chain` stand for the memory pool and the top of the active chain. A
handler is one action: `IxAccepted`/`IxRejected` for the two branches of `ix`,
`DiscardVote`, `CountVote` and `CompleteVote` for the three outcomes of a vote (the last
includes conflict cancellation, locking the inputs and the replay of blocks),
`CleanTransactionLocksList`, wallet and RPC sends, plain transactions, connecting and
disconnecting blocks. `CheckBlock` compares a block with the locks only while spork 3 is
on (`blockFiltering`, switched at any time; `PassesFilter`), and the replay reaches the
last `REPLAYED` blocks only, 16 in the code; a conflicting block below them stays. Every
`CreateNewLock` computes its height anew from the age of the inputs, so the height `h` is
a parameter of each request. Whether a vote's rank and signature are good and policy
admits a transaction is chosen by the environment too. Time is the number of ticks a lock
has left. The entry that `operator[]` creates in `mapTxLockReq` is modelled (the value
`"empty"`), because conflict detection and cleaning read it.

**Spork.tla** is any number of nodes with a network that loses, repeats and reorders.
`UpdateSpork` and `StoreUpdate` are the two halves of the RPC call, because the relay
in between can be answered by the message thread; `Fetch` is `getdata`, `ProcessSpork`
and `GetSporks` the two messages, `Restart` loads the database. Nothing
keeps the operator from changing a spork twice within a second; the histories `asked` and
`again` record in which second a spork was changed, and in which more than once, so that
agreement can name this one exception. **SporkRegister.tla** is what the
messages are for: a register per spork that the signer writes in the order of time and
every node reads forward, without network, database or clock; `ImplementsRegister` is the
refinement.

**MasternodeSync.tla** is the object `masternodeSync` as a record with the fields of the
class. `Process` is one call of `Process`, including the loop over peers (`Loop`) up to
the early return; its parameters say which `TRY_LOCK`s succeed, whether the tip is recent,
and whether a reset of another thread falls inside `GetNextAsset` (`raced`), which nothing
locks. `Added` and `AddedUnknown` are the two branches of the item counters: a known hash
is news `THRESHOLD` times, one that the manager does not know is news each time. `Forget`
is the erasure of a hash from the seen maps by the list and the payments. Spork 8 changes
at any time (`SporkChanges`), masternodes expire and come back (`EnabledChanges`), `Sleep`
is the gap that makes `IsBlockchainSynced` reset, `RpcReset` the RPC. The history field
`skipped` holds the stages that were left while spork 8 was off or by a race. Dates are
ages that saturate at the largest time-out that is compared with them.

**ChainState.tla** is the block tree; a block is its index entry. `Parent`, `Anc` and
`Work` are constants that give the tree; a scene says which blocks `ConnectBlock` refuses,
which can conflict with an input lock (`locked`: those that do now), whose stored copy can
be damaged, and whether there is an operator. `ActivateBestChain` is one turn
of the loop, from taking `cs_main` to releasing it: `FindMostWorkChain` (as a fixed
point over the candidates it discards), disconnecting to the fork, connecting blocks
until one is refused, pruning. Other threads act between turns. `InvalidBlockFound` marks
a refused block unless its copy may be corrupt (`Condemned`). `ReprocessBlocks` is a walk
through `mapRejectedBlocks` that reconsiders each block under a lock of its own
(`ReprocessOne`) and disconnects the last blocks at the end
(`DisconnectBlocksAndReprocess`); `reconsiderblock` takes any block. The history `odd`
records the two situations from which the code's bookkeeping does not recover: a block
was reconsidered above a failed ancestor (`"reconsidered"`), and a lock refused a block
that had been active (`"relocked"`), which only `invalidateblock` mends, since it collects
the candidates anew.

**CheckQueue.tla** is `CCheckQueue` with its control object; `pc` says where each thread
is. All that happens under the mutex between two waits is one step, the checks run
outside. **CheckVerdict.tla** is what the user of the queue sees, and
`ImplementsVerdict` is the refinement.

**MasternodePayments.tla** is one node with the two threads that run `ProcessNewBlock`.
`AddWinningMasternode` is two steps, recording a vote under its locks and counting it
after they are released, because the cleaning, the other thread and a block's check can
run in between. The saved file may be torn by a crash (`Corrupt`) or be of another
format, which the dump replaces (`Foreign`). The reward of a block
is computed as the code does, with integer divisions.

**MasternodeMan.tla** is the list and the node's own masternode. Times are ages that grow
with `ManTick` and stop where nothing compares them any more; negative ages are pings of a
clock that is ahead. `Mnb`, `Mnp` and `Answer` are the messages, `CheckAndRemove` the
thread's cleaning with the expiry of each of its maps, `ManageStatus` the life of the
active masternode. Broadcasts of an old protocol version (`OldVersion`) are refused or
removed while spork 10 asks for the new one, which it may start or cease to do at any
time.

**Budget.tla** treats proposals and finalized budgets, which are handled by twin code, as
items with votes. `NewBlock` is the whole of that function: submission of the node's own
budget, the automatic vote, removal of votes of masternodes that are gone, maturing
items. A vote ahead of the clock is refused by its item, but kept as an orphan while the
item is unknown, and tried again each time orphans are. `BudgetFillBlockPayee` and
`BudgetIsTransactionValid` are compared with each other.

**Masternodes.tla** declares the masternodes that MasternodePayments and Budget both speak
of. The definitions of MasternodeMan and Budget carry a prefix where another component has
the same name, so that one proof module can extend both.

**Mempool.tla** keeps `mapTx`, `mapNextTx` and the orphan maps, over a small chain whose
blocks are sets of transactions. Loops over a block and over the orphans' work queue are
taken one step at a time and exclude everything else (`cs_main`).

**ChainFlush.tla** keeps memory and disk apart: index, dirty entries, file information,
coins cache and tip; block file, index database, coin database and the shutdown flag. A
flush is one step per write, and the process may die between any two. `Shutdown` may
interrupt an activation between its steps. `Start` is
`LoadBlockIndexDB`, its repair of the coins after an unclean stop and `VerifyDB`;
`CrashInStart` is a death in it, after the flush of the repaired coins or after the flag
was cleared; a refused start still sets the flag, as `PrepareShutdown` does. A child that
reached the disk before its parent leads to an index entry without a header (`InsertBlockIndex`); the
state `"lost"` ends the behaviour there.

The `MC*.tla` modules only give the constants values. Definitions marked as mutants
stand beside the definition they replace and are used by no specification.

## 4. Runs

Passing runs and what they show (states are distinct states):

| Run | Instance | Shows |
|---|---|---|
| `swifttx_safety` | two transactions with a common input, one masternode that must sign, requests at two heights, two blocks of which the last is replayed, spork 3 on and off; 1.82 million states | `VotesOnce`, `RequestBehindLock`, `LockedInputsRespected`, `FirstLockWins`, `CompleteIsStable`, `RejectedThenLocked` (for the blocks a replay reaches, while blocks are filtered); only the cancellation of a conflict moves an expiry forward, to the present and for a message the node had not seen, and dropping a lock frees the inputs of a known request (`LocksEnd`) |
| `spork` | three nodes, restarts, an operator who may update twice within a second, fair; 52 thousand | agreement except on a spork and second of which this is recorded, durability, the register implemented; after the last restart a spork on its way reaches all |
| `msync` | two peers that come and go, one of them outdated, sleeps, resets also inside `GetNextAsset`, spork 8 on and off, erased hashes, fair; 410 thousand | a stage is left without its data only in the two recorded ways; where setbacks cease and fresh peers come, synchronisation ends or fails again and again; failures are retried |
| `chain` | five scenes: two branches, or one that forks, with an invalid block and operator commands; six blocks with damaged copies; locks that change and replays, with an operator or a lock on each branch; fair; 337 thousand | what `CheckBlockIndex` asserts, complete candidates, best chain active, sound active chain, through every replay, lock and reconsidered block but the two recorded oddities; the activation loop ends, or runs on a damaged copy |
| `checkqueue` | two workers, failing checks, fair threads | verdict, nothing left running, the constructor's assertion; `Wait` returns |
| `payments` | two masternodes, two payees, two voting threads, crashes, a file of another format, reorganisations; 1.38 million | recorded votes count once, quorum behind every enforced payee, own blocks accepted |
| `masternode_list` | one masternode with two broadcasts, or the node's own; clocks that disagree, spork 10 with an old and a new version; fair; 217 thousand | pings move forward; a masternode that pings is enabled again and again, a silent one is removed |
| `budget` | two competing budgets, or a young proposal; a masternode that leaves and returns; votes ahead of the clock; restarts; fair; 103 thousand | votes move forward, own budget block accepted, counted votes follow the list |
| `mempool` | six transactions with a double spend, a coinbase, a coinstake and children before parents, three blocks; fair; 53 thousand | the pool could be mined, indexes are exact, orphans are drained, loops end |
| `flush` | five blocks, two branches that spend one coin, two deaths, also in a start, shutdown in an activation, `-forcestart`; 193 thousand | coins match their best block in memory and on disk, the coin database never runs ahead of the index, a clean stop loses nothing |

Runs that refute what the repository says of its code (the finding quotes the line):

| Run | What happens |
|---|---|
| `swifttx_no_cancel` | conflicting complete locks do not cancel when one request was rejected: an empty transaction is compared |
| `flush_repair` | the repair after an unclean stop adds blocks in the order of height, whatever branch they are on: the coins are no longer those of the tip |

Configurations that are not in the list of runs and can be run by hand:

| Configuration | Module | Result |
|---|---|---|
| `MCSwiftTXLive.cfg` | MCSwiftTX | passes: with a fair clock and cleaning every lock is dropped (`LocksExpire`; 90 thousand states) |
| `MCSwiftTXConsensus.cfg` | MCSwiftTX | violates `ConsensusBehindFilter`: a rejected request locks its inputs without a vote (`swifttx.cpp:102`), and `CheckBlock` acts on them ("only reject blocks when it's based on complete consensus", `main.cpp:3159`) |
| `MCChainStateReprocess.cfg` | MCChainState | violates `BestChainRelocked`: `main.cpp:2538` lowers the tip without restoring the candidates pruned against it, so a competing branch is not tried ("Make the best chain active", line 2759) |
| `MCMasternodeSyncRace.cfg` | MCMasternodeSync | violates `EnforcedNeverSkips`: a reset inside `GetNextAsset` is overwritten (`masternode-sync.cpp:138`), and stages count as done whose data is gone, with spork 8 on |
| `MCMasternodeManRemote.cfg` | MCMasternodeMan | violates `RemotelyActivated`: `masternode.cpp:563` returns before it adds a broadcast of the masternode that runs here (comments at 561 and 629) |
| `MCBudgetAuto.cfg` | MCBudget | violates `MatchingBudgetGetsVote`: `fAutoChecked` is set while a proposal is still missing (`masternode-budget.cpp:1802`, "we only need to check this once"; `init.cpp:479`) |
| `MCChainFlushRefused.cfg` | MCChainFlush | violates `CrashRestart`: `ConnectBlock` writes the entry (`main.cpp:2207`) before it has undo data, the repair adds the block, and `VerifyDB` refuses the chain for want of undo data; the refused start sets the shutdown flag, so the next one does not repair |
| `MCChainFlushOverwrite.cfg` | MCChainFlush | violates `StoredBlocksKept`: entries written by `ConnectBlock` survive a death that the file size does not, and later blocks are written over theirs |

Further disagreements between code and comments, met while modelling and not kept as
runs of their own:

- `swifttx.cpp:430`: input locks are released only for requests in `mapTxLockReq`; those
  a request in `mapTxLockReqRejected` took stay, where the comment there says "keep
  them for an hour". `LocksEnd` and `LocksExpire` are stated for known requests for this reason.
- `spork.cpp:227`: `UpdateSpork` relays the inventory before it stores the message, so a
  fast peer that asks for it gets nothing. Two updates within a second can leave
  nodes with different values until the next one, since an equal time is not newer
  (`spork.cpp:80`). `TakenSporkSpreads` starts from a node that took the spork from a
  message, where the order is the other way round.
- `masternode-sync.cpp:305`: the time-out of the list stage is only looked at when a peer
  that was not yet asked exists.
- `masternode-sync.h:75`: `FAILED` is greater than `LIST`, so a failed synchronisation
  counts as a synced list.
- `masternode-sync.cpp:291`: the attempt counter is carried into the list stage, where
  `masternode-sync.h:53` says "Count peers we've requested the list from".
- `main.cpp:1812`: a block whose stored copy is damaged is not marked, so
  `ActivateBestChain` chooses it again and again without end (`DamageInTheWay`).
- `main.cpp:2877`: reconsidering a child clears the marks of its ancestors but not of
  their other descendants, which `CheckBlockIndex` (`main.cpp:4243`) asserts about.
- `main.cpp:2733`: between two steps of a failed reorganisation the assertions of
  `CheckBlockIndex` at `main.cpp:4245-4251` do not hold; `cs_main` is released there, and
  the `headers` handler (`main.cpp:5163`) evaluates them when they are switched on.
- Payments: `CanVote` takes a masternode's slot for a height before the signature is
  checked (`masternode-payments.cpp:399`), and only remembers the last height, so a vote
  for another height in between allows a second payee; a corrupt `mnpayments.dat` is never
  written again; `mnget` counts as answered before `Sync`, which may return silently.
- Masternode list: a broadcast refused because its collateral is not known yet stays
  "seen" for up to 4.5 hours; a stale broadcast adds a removed masternode again as
  enabled whatever the age of its ping; the loop over `mapSeenMasternodeBroadcast` uses
  its iterator after it erased the element.
- Budget: with fewer than ten enabled masternodes `GetVoteCount() > nHighestCount -
  CountEnabled / 10` never holds, so every budget block is refused although the comment
  allows "+/- 10%" (the run uses ten); votes flagged invalid are still counted by
  `GetVoteCount`; `init.cpp:1572` calls `ResetSync` and then `ClearSeen`, but `Sync` only
  walks the seen maps; one orphan vote is kept per item, and an item that matures in
  `NewBlock` neither looks at orphan votes nor is marked seen; a vote is marked seen
  before its signature is checked, and its hash leaves the signature out; the guard on
  `nSubmittedHeight` never holds; immature items are not saved.
- Pool: an orphan that is later accepted directly stays in the orphan map; orphans are
  not tried again when their parent comes in a block or from this node.
- Restart: the repair reads `vSortedByHeight` one element past its end (the value is not
  used) and may fail the assertion of `UpdateCoins` on blocks of another branch;
  `PrepareShutdown` sets its flag even when the flush before it failed; index entries are
  written in the order of their addresses, so a child may reach the disk without its
  parent.
- Sporks: a node that has a spork does not relay it again, so on a network that is not
  fully connected a peer that missed the inventory gets it by `getsporks` only.

## 5. Bounds

- SwiftTX: two conflicting transactions are the smallest conflict; one has two inputs so
  that one input can be locked and the other not. The
  run has one masternode, whose signature completes a lock (6 of 10 in the code), and
  two heights, so that a repeated request moves a lock's height and a second vote of the
  masternode, at another height, would count; `MCSwiftTXCancel.cfg` and
  `MCSwiftTXConsensus.cfg` have two that must both sign. The theorems hold for any number.
  `LockTicks` 1 lets a lock expire in two ticks; `MaxChain` 2 and `REPLAYED` 1 (16 in the
  code) give a conflicting block that a replay reaches and one that it does not.
- Spork: three nodes give a third party that sees messages of two ages; `MaxTime` 1
  gives two seconds and `MaxUpdates` 2 two updates, in different seconds (an older and a
  newer message) or in the same one.
- MasternodeSync: the code only compares ages with `TIMEOUT` and `RetryDelay` (5 s and
  60 s); 0 makes a tick longer than every delay, so that each comparison has both
  outcomes. `THRESHOLD` is 1 (code: 2). Of two peers one is too old for all stages but the
  sporks; one hash per stage can be news, be forgotten and be news again.
- ChainState: five blocks above Genesis in two trees of four (`TwoBranches`, `Fork`) give
  competing branches with a tie, a reorganisation of two blocks and an invalid block with
  siblings; all of them come in `Damaged`, where the first block of either branch can be
  damaged. In `Locks` and `TwoLocks` a branch of one block competes with one of two whose
  first block can be locked and whose second is invalid. A `depth` of 1 stands for the
  code's 16: one block is the least that brings the tip below the competing branch. Two
  bounds are in guards: a damaged block is not sent again, and the copy of an active block
  is not damaged.
- MasternodePayments: `REQUIRED` 2 for the code's 6, so that a quorum takes both voters;
  `Window` + `ReorgDepth` at most the limit of the cleaning, as in the code
  (`LimitsAssumption`): a vote that can still arrive has not been cleaned away. Three
  amounts of coins are below, at and just below the limit of all money.
- MasternodeMan: the delays are 1 and 2 in the order the code has them; one masternode
  with two broadcasts, since entries of different masternodes do not interact. The first
  broadcast is of the old version, the second of the new one.
- Budget: a budget that pays the known proposal and one that first pays a proposal this
  node does not know are the least that compete; `CountEnabled` 10 makes the tolerance
  of 10% one vote. One signed vote is later than
  `START`, so it may or may not be ahead of the clock each time it is looked at.
- Mempool: `MAX_ORPHAN` 2 with three possible orphans causes evictions,
  `COINBASE_MATURITY` 2 with three blocks makes a coinbase mature and immature again.
- ChainFlush: both branches spend the coin of the common block, so a wrong branch shows
  in the coins; one slot more than there are blocks lets a block be stored again after a
  death, and two deaths let one follow a repair.
- CheckQueue: two workers and the master are the least with both a waiting and a working
  worker; four checks let a thread take a batch of two.

`CHECK_DEADLOCK FALSE` is set where the system may come to rest: when no more messages or
blocks come (SwiftTX, Spork, ChainState, MasternodePayments), and for ChainFlush, whose
behaviours end at their bounds.

## 6. Fairness

- SwiftTX: the clock and the cleaning, which `ThreadMasternodePool` calls every 60 s.
  Nothing is assumed of peers, blocks or users.
- Spork: a message that is not lost is handled, and the RPC thread finishes its call.
- MasternodeSync: the clock moves, and the thread runs every second and gets its locks,
  with a recent tip (weak fairness of `Process` with these parameters). Nothing is assumed
  of peers: that `Process` meets a peer it has not asked, again and again, is a premise of
  `SyncEnds`, as is that resets, sleeps and unknown items cease. Without a fresh peer a
  stage does not time out.
- ChainState: the thread inside `ActivateBestChain` gets `cs_main` again.
- MasternodeMan: the clock and `CheckAndRemove` of the periodic thread; the masternode's
  fresh pings are handled, and a peer answers the request for a missing entry if it is
  asked again and again. `MasternodeReturns` also asks that such answers are not refused
  for ever (no broadcast is in vain).
- Budget: blocks keep coming (`NewBlock`).
- Mempool: a loop that holds `cs_main` goes on.
- ChainFlush: none, it has only safety properties.
- CheckQueue: a thread that can go on gets the mutex and a script check ends; spurious
  wake-ups and interruption are not assumed to happen.

## 7. Proofs

Every safety property of every passing run, invariant, action property or refinement, is a
theorem, for every value of the constants that meets the named `ASSUME`s (trees are trees,
transactions do not spend in a circle, thresholds are positive, a masternode expires before
it is removed, `None` is not a value, the sets of threads, checks, masternodes and blocks
are finite). Each proof module has one lemma per action, or one step
per action in a lemma `...Next`; the larger inductive invariants were first checked by TLC
on the instances of the runs.

**SwiftTX_proofs.** `SwiftTXTypeOK`, then `SwiftTXVotesOnce`: inductive with the types,
because a counted vote's key is in `mapTxLockVote` while its lock lives, and a handler that
adds a vote requires the key to be absent. `SwiftTXRequestBehindLock` is inductive with
the types. The action properties `SwiftTXLockedInputsRespected`, `SwiftTXFirstLockWins`,
`SwiftTXCompleteIsStable`, `SwiftTXLocksEnd` and `SwiftTXRejectedThenLocked` need no more
than the types: `LockLife` says of every action what it may do to the fields of a lock, and
`ChainSteps` what it may add to the pool and the chain. They hold with block filtering on
and off and for any depth of the replay; the statements say where these matter. A vote
counts at the lock's height only, so `CompleteIsStable` excepts a request that moves it.

**Spork_proofs.** `SporkTypeOK`; `SporkIssuedOnce`: a new message has the clock's time; if a
message of that spork has it already, the second was recorded in `asked`, and this update
puts it in `again`, so every other second has one message of the spork. `SporkAgreement`
follows, because everything a node holds was issued; `SporkDurable`; and the refinement
`SporkImplementsRegister`. The register's messages are all that are left in memory, in
databases or on the way (`Messages`), and only `UpdateSpork` adds one (`NoNewMessages`),
which is the newest of its spork (`NewestIssued`). A restart is a loss of messages for
every node whose database holds what is in force, and for the signer a step back.

**Masternode_proofs.** Of MasternodeSync: `MasternodeSyncTypeOK`, `MasternodeSyncFinished`, for
every history of spork 8 and with resets anywhere; the stages that a race or a time-out
without enforcement left are those in `skipped`. The invariant
`Good` adds to the types that the sporks stage has made at most two attempts, without which
the bound on attempts is not inductive since the counter is carried into the next stage. It
is proved for the loop over peers as a whole.

Of MasternodeMan: `MasternodeManTypeOK`, `MasternodeManSigned`,
`MasternodeManPingsForward`. The invariant `ManInv` adds to the types that every listed
entry and every seen broadcast comes from one that was signed (`ListedSigned`), without
which the age a new broadcast is compared with is not defined, and that a started node
has the vin of its own masternode (`StartedAsMine`). One lemma per action shows that it keeps `ManInv` and replaces
the ping of an entry by a later one only (`Forward`). The clock makes all pings older
together and is left out of the action property, as in the run.

**CheckQueue_proofs.** `CheckQueueTypeOK`, `CheckQueueDrained`, `CheckQueueIdle` and the
refinement `CheckQueueImplementsVerdict`. The counters are sums over threads, so `IndInv`
says of which sets they are cardinalities: `nTodo` of the elements queued or in a batch
(these are disjoint), `nTotal` and `nIdle` of threads by place, plus one for a master that
was interrupted. `Results` says that failures are real and that a failed check which is no
longer pending has cleared `fAllOk`. All turns of the loop pass through one intermediate
situation (`Mid`), from which `ProceedInv` finishes them.

**Payments_proofs.** Of MasternodePayments: `PaymentsRecordedIsCounted` is inductive with the types.
`PaymentsEnforcedHasQuorum` is not: a vote cleaned from one map and not from the other
could be counted again. `OnceCounted` is the strengthening: an entry counts no more than
its different voters, a counted vote that can still arrive is remembered as recorded, a
vote that a thread is about to count is not counted yet, and the same of the saved file.
It needs the limits to be as the code has them (`LimitsAssumption`): what can still arrive
has not been cleaned away. `PaymentsOwnBlockAccepted` follows from it and from the integer
arithmetic of the reward.

Of Budget: `BudgetTypes`, `BudgetVotesAuthentic`, `BudgetVotesForward`,
`BudgetBlocksAccepted`. `BudgetInv` adds to the types that every vote, stored with an item
or waiting as an orphan, was cast for that item (`VotesAuthentic`, `OrphansCast`).
`NewBlock` changes the tables up to six times in one step, so `BudgetVotesForward` goes
through a transitive relation between tables (`Keeps`, `KeepsTable`) that each of the
changes satisfies. `BudgetBlocksAccepted` compares two functions and needs no
invariant: among the budgets that cover the block one has the most
votes, because masternodes are finitely many, and any payee that `BudgetFillBlockPayee` takes
passes the two thresholds of `BudgetIsTransactionValid`. Ten enabled masternodes are where
the integer division stops being zero.

**ChainState_proofs.** `Structure` is inductive: the types, distinct sequence numbers,
`LinkedIffData`, `CandidatesLinked` and `ActiveChainSound` (`ChainStateActiveChainSound`),
with lemmas on ancestors, on the linking of blocks that waited for their parent and on what
`FindMostWorkChain` discards. `ChainStateCheckBlockIndex` adds that every mark has a cause
(`CauseInv`). `ChainStateCandidatesComplete` and `ChainStateBestChainActive` share
`CandidatesInv`: while nothing odd is recorded there is always a candidate r that can be
connected such that every linked block without a mark and not worse than r is a candidate too (`Ready`); the tip cannot be
this r, since in the middle of a failing reorganisation it is not a candidate. Once an
activation is done every block that is not invalid sorts below the tip (`Done`).

The theorems have no hypothesis on the scene: they hold with locks, replays at any depth,
damaged copies and any block reconsidered, and except by name what the code does not
recover from. `OddNext` says which steps record an oddity. A block reconsidered above a
failed ancestor leaves marks of its siblings without a cause (`main.cpp:2877`). A lock that
refuses a block which had been active leaves `setBlockIndexCandidates` without the blocks
that were pruned against it (`MCChainStateReprocess.cfg`); the history `passed` is in the
invariant because a refused block that never was active does no such harm. Replays that
meet neither case keep the candidates complete, also between the locks of `cs_main` that
`ReprocessBlocks` takes.

**Mempool_proofs.** `IndexInv`: both indexes exact after every step, the orphans within
their limit, and the loop over orphans at an entry of its queue with orphans only left to
try (`MempoolTypeOK`, `MempoolIndexesExact`). The recursive removal is a least closed set,
so no induction is needed: a family that is closed and holds its roots loses no child
(`FamilyClosed`). `MempoolPoolMinable` needs `PoolInv`: the transactions of the chain come
after those they spend; apart from what `removeForBlock` has still to reach, nothing in the
pool is confirmed or spent by the chain; and outside of disconnecting, what the pool spends
exists and is mature. Without the first an accepted child of the pool could be in the chain
already. `MempoolOrphansDrained` needs `Drain`: an orphan of the queue that could be
accepted now is among the children of the current parent or of a later entry. It is
preserved because only a child of the accepted transaction becomes acceptable.

**ChainFlush_proofs.** `ChainFlushCoinsMatchBest` and `ChainFlushSavedChainLoadable` have
one invariant, `SavedInv`: the databases are consistent (`DiskOK`); an entry of the cache is
dirty, and a fresh one is of a coin the database does not have (`CacheOK`), without which a
spent fresh coin could not be forgotten; while the node runs, an index entry that differs
from the one on disk is dirty, and the chain of the coin database is loadable from memory
too, so that writing an entry never takes undo data away (`MemoryOK`).
`ChainFlushCleanRestart` needs `CleanInv`: as long as the process did not die, every block
is in the file where the index says, each part on disk is what is in memory from the moment
the last flush wrote it, and the flag keeps a start from repairing anything. A start that
dies is a start that stops early (`CrashInStart`). `Anc` is a
least closed set rather than a recursive function, and the coins of a chain are
characterised by one step (`UtxoStep`).

Only model-checked:

- liveness (`TakenSporkSpreads`, `SyncEnds`, `FailureRetried`, `ActivationEnds`,
  `WaitReturns`, `MasternodeReturns`, `SilentRemoved`, `VotesFollowList`, `LoopsEnd`):
  fairness and ENABLED are out of the prover's reach;
- what `GetBudget` computes with its fold over sorted proposals: that would take an
  induction over data, and none of the theorems depends on it;
- ChainFlush after a repair and ChainState after a recorded oddity, where the properties
  fail or are not stated.

## 8. Not modelled

The models cover the node's own state machines. Most of the repository's lines are
hash functions, the script interpreter, the Qt interface, the wallet with its formats,
and vendored libraries, where there is little state to explore, so the share of lines
that the map names stays small.

- Not yet (section 2): scheduler, address manager.
- Arithmetic on hashes, scripts and keys: stake kernel, difficulty, interpreter, ranks
  of masternodes. Where a modelled part depends on them, the outcome is a free choice.
- Input and output: sockets, wallet files, RPC formatting, GUI, Tor, ZMQ.
- Within the modelled parts: the rate limit on relaying votes for unknown transactions;
  the regtest shortcut of synchronisation and its per-peer counts; misbehaviour scores
  (banning is disabled in `Misbehaving`); checkpoints in header acceptance; which budget
  votes a peer was already sent; a crash that restores an older `budget.dat`; fees,
  priorities and fee estimates of the pool; several block files, positions of undo data,
  the transaction index, reindexing and loss of power in ChainFlush; the index entry that
  checking a proposed block writes (`rpcmining.cpp:408`); data races inside a single
  container operation.

Hazards that no property covers and that are not in `PROJECT.json`:

- `swifttx.cpp:423`, `masternodeman.cpp:221`: cleaning runs without a lock while the
  message thread uses the same maps; below the grain of one handler per step.
- `swifttx.cpp:430`: input locks of rejected requests are never released.
- `masternode.cpp:32`: the cache of block hashes by height is not cleared by a
  reorganisation, so ranks may differ between nodes of one chain.
- `masternode-payments.cpp:357` and `:399`: one `mnget` per connection; the slot of a vote
  is taken before its signature is checked.
- `masternode-sync.cpp:222`, `:291`: the regtest shortcut; the counter that is carried
  into the next stage (`TypeOK` bounds it).
- `main.cpp:2733`, `main.cpp:3583`: assertions between the steps of a failed
  reorganisation; `CheckBlock` without `cs_main` whose result is trusted later.
- `masternode.cpp:563`: the early return shown by `MCMasternodeManRemote.cfg`.
- `scheduler.cpp:66`: several threads wait for the first task of a queue that changes.
