# A TLA+ verification project for dacrs

dacrs (Dacrs, SoyPay) is a full node of an account-based proof-of-stake block
chain, derived from Bitcoin: accounts with balances and coin days instead of
unspent outputs, contracts run by small virtual machines, blocks signed by a
stake holder. This directory holds TLA+ models of the parts of the node that
decide which chain it follows and what it remembers of it, the TLC runs that
check them on small instances, and TLAPS proofs of their main properties for
every value of the parameters.

Paths below are those of the repository (`src/main.cpp` is `src/src/main.cpp` in
`PROJECT.json`, whose paths start one directory higher).

## 1. The system

One process. Threads: the message handler, the RPC workers, the miner, the
import thread, the wallet flusher. Nearly everything about the chain happens
under one recursive mutex, `g_cs_main`; so the interleavings that matter are not
those of single statements but those of whole handlers (a block from a peer
between two RPCs), of early returns in the middle of a handler, and of the death
of the process between two writes.

| Component | State it keeps | Operations | Hard behaviour |
|---|---|---|---|
| chain activation (`main.cpp`) | `g_mapBlockIndex`, `g_setBlockIndexValid`, `g_cChainActive`, `g_cChainMostWork`, failure flags in memory and in the block index database | `AcceptBlock`, `AddToBlockIndex`, `ActivateBestChain`, `FindMostWorkChain`, `ConnectTip`, `DisconnectTip`, `InvalidBlockFound`, `LoadBlockIndexDB` | reorganisations given up half way, flags that are forgotten, a loop that starts over, a crash in between |
| confirmed-transaction cache (`database.cpp`, `txdb.cpp`) | `CTransactionDBCache`: hashes of the transactions of the last `TxCacheHeight` blocks, over a database | `AddBlockToCache`, `DeleteBlockFromCache`, `IsContainTx`, `Flush`, `LoadTransaction` | two windows that must match; deletion marks; it is the only protection against replay |
| persistence, start, stop (`main.cpp`, `init.cpp`) | three LevelDB databases (accounts, tx cache, scripts), the block index, block and undo files | `WriteChainState`, `Shutdown`, `AppInit`, `VerifyDB`, `-reindex`, `reloadtxcache` | torn writes, aborts that come late |
| account and script views (`database.cpp`, `txdb.cpp`) | `CAccountViewDB`, the tip cache, child caches; the same for scripts | read-through reads, writes, removal marks, `Flush` | removals across three layers, one of which is written ahead of the others |
| ledger (`tx.cpp`) | accounts: value, coin days, ids; undo logs | `ExecuteTx`, `UndoExecuteTx` of five transaction types, reward maturity | undo must restore exactly what was there |
| memory pool (`txmempool.cpp`) | entries, a view on top of the tip | `AcceptToMemoryPool`, `ReScanMemPoolTx`, `remove` | a view that is stale in the middle of a reorganisation |
| orphan blocks (`main.cpp`) | three containers of the same blocks | `ProcessBlock`, `PruneOrphanBlocks` | one container confuses blocks of equal height |
| block download (`main.cpp`) | in-flight lists and per-node counters | `MarkBlockAsInFlight`, `MarkBlockAsReceived`, `FinalizeNode`, `SendMessages` | time-outs, two answers to one request, disconnections |
| fork views (`main.cpp`, `miner.cpp`) | `g_mapCache` of views of side branches | `CheckBlockProofWorkWithCoinDay` | views built on a tip that has moved |
| miner (`miner.cpp`) | a block template | `CreateNewBlock`, `CreatePosTx`, `CheckWork` | the template is solved outside the lock |
| checkpoints, sync data | checkpoint blocks, signed by the operator | the `checkpoint` message, `setcheckpoint`, `AcceptBlock`, `CheckActiveChain`, the start | a checkpoint before its block, blocks between the message and its effect, candidates that come back |
| app accounts (`vm/appaccount.cpp`, `vm/vmrunevn.cpp`) | what each user of a contract owns, free or frozen | calls of a contract, `AutoMergeFreezeToFree`, `OpeatorAppAccount`, undo | funds mature between the moment they are listed and the moment they are moved |
| wallet; keys; network and addresses; alerts; interpreters; RPC; utilities | | | see section 7 |

How they interact. A block from a peer goes to `ProcessBlock`, which holds it as
an orphan or hands it to `AcceptBlock`; that checks the header, executes a side
branch on fork views if it would win, writes the block to disk and calls
`AddToBlockIndex`, which calls `ActivateBestChain`. `ConnectTip` and
`DisconnectTip` execute or undo a block on child views of the accounts and
scripts and, in place, on the tip cache of transactions; then flush the
children into the tip views, let `WriteChainState` write the three databases if
it is time, and move the tip. The pool is executed again after the last block.
The wallet learns of everything by signals and decides nothing.

## 2. The modules

| Module | Models | Composes / extends |
|---|---|---|
| `BlockTree` | the tree of all blocks, ancestors, heights, work | |
| `TxConfirm` | the confirmed-transaction cache and the valid-height rule, without failures | |
| `TxConfirmCrash` | the same on a node with three databases that aborts, crashes, starts and is reindexed | extends `TxConfirm` |
| `ChainActivation` | the choice of the active chain | extends `BlockTree` |
| `ForkViews` | blocks of side branches checked on the views of `g_mapCache` | extends `BlockTree` |
| `Checkpoints` | blocks the node must not leave | extends `BlockTree` |
| `OrphanPool` | blocks whose parent is unknown | |
| `BlockDownload` | which peer is asked for which block | extends `OrphanPool` |
| `AccountMap` | abstract: accounts and ids as two maps with a draft | |
| `AccountView` | database, tip cache and child cache of the accounts | implements `AccountMap` |
| `Ledger` | the transactions of a block executed and undone | works on the flat maps `AccountView` justifies |
| `Mempool` | the pool, its view and the miner's block | uses `TxConfirm`'s rule (`Confirm!IsValidHeight`) |
| `AppAccounts` | the money of the users of one contract | |
| `*_proofs` | theorems about the module of the same name; those about `OrphanPool` are in `BlockDownload_proofs`, those about `TxConfirm` in `TxConfirmCrash_proofs` | extend it |
| `Views_proofs` | theorems about `AccountView` and `ForkViews` | extends both |
| `MC*` | a small instance of the module of the same name | extend it |

Definitions whose name is that of another one plus a deviation
(`BatchWriteNoErase`, `PickWorse`, ...) are faulty variants. Nothing refers to
them; each is listed under `mutants` in `PROJECT.json` with the property that TLC
finds violated when the variant replaces the original. `PROJECT.json` also maps
every definition to the lines it is translated from.

### TxConfirm

There is no spent output in this chain: what keeps a signed transaction from
being executed twice is that `IsValidHeight` admits it within `TxCacheHeight / 2`
of the height written in it, and that `ConnectBlock` asks the tip cache whether
one of the last `TxCacheHeight` blocks has it. `chain` is `g_cChainActive`
without the genesis block, `cached` the non-empty entries of the cache, `tomb`
the empty ones (deleted, not flushed), `db` the rows below. `ConnectTip` and
`DisconnectTip` contain what `ConnectBlock` and `DisconnectBlock` do with the
cache, including the block pushed out of the window or read back from disk, and
the flush by `WriteChainState`, which depends on clocks and sizes and is a free
choice. A block is a height, a set of transactions and a nonce for all else that
makes hashes differ.

### TxConfirmCrash

`WriteChainState` and `Shutdown` write the accounts, the tx cache and the
contracts one after the other, and each write is a step: `phase` tells which of
them are done (`"written"`, `"cached"`; `"stopping"`, `"stopped"` in a shutdown).
`printblokdbinfo` writes the first and the third (`"printing"`). `Connect` and
`Disconnect` end before the tx cache is written. `AbortConnect` and
`AbortDisconnect` are the returns in the middle of a block, after which the child
views are dropped but the tx cache is not restored. `Start` is `AppInit` up to
`VerifyDB`; its result decides between running and `Reindex`. `undone`, `torn`,
`damaged` and `cut` are history variables: whether a torn write would be one
behind a disconnection, whether it is, whether one of the three events that
damage the cache has happened, whether a crash fell between the accounts and the
contracts. `TypeOKC` writes its types down.

### ChainActivation

The state is the tree of known blocks, the set of candidate tips, flags in
memory and on disk, and the chains by their tips. `pc` tells which part of
`ActivateBestChain` is next; while it is not `"idle"`, `g_cs_main` is held and only
the process itself can end. What `ConnectBlock` says of a block is fixed at the
start (`verdict`) but not known before the block is connected: `"valid"`,
`"invalid"` or `"unjudged"`, the last standing for the returns that set no
validation state. `FindMostWorkChain` is one action, both its loops included.

`ConnectTip` and `DisconnectTip` fail in three ways that have nothing to do with
the verdict. `ReadFails` and `WriteFails` are the calls of `Abort`: a shutdown is
asked for (`halting`). `UndoFails` is the rest of the failures of `DisconnectBlock`
(undo data or a matured block that cannot be read, an `UndoExecuteTx` that does not
find what the block made, as in `stuck_tip`): `ActivateBestChain` returns, maybe
between two chains and without the rescan of the pool, nothing asks for a shutdown
and the node goes on; `stuck` remembers whether this happened, in the last
activation or before. `MatureBlockUnreadable` is a matured block that `ConnectBlock`
cannot read: it is reported like a broken rule, so that the block being connected
is marked as failed for good although it may be valid (`misread`).
`view` is the best block of the account view: it differs from `active` only
after `WriteChainState` failed. `Rechecked` and `Recheck` are what the fork check of
`AcceptBlock` does to failure flags, `WriteStatus` the writing of a block's status by
`ConnectBlock`, which it omits for a block it has executed before. A restart forgets sequence numbers and the
flags that were not written, and may place the index objects elsewhere
(`Address`: ties are broken by pointer).

### OrphanPool

`orphans`, `byPrev` and `ordered` are the containers; `ordered` is a `std::set` whose
comparator looks at heights only, hence `Inserted` and `Erased`. The work queue
of `ProcessBlock` is the set `pending` of accepted blocks whose orphans are
still to be looked at. Heights are those claimed in headers, which nothing has
checked while the block waits.

### AccountView and AccountMap

`AccountMap` is what the rest of the program believes: accounts by key, keys by
registered id, a draft for the block in progress, a saved copy.
`AccountView` has the three layers. A cache entry is `Uncached`, a content, or
`None` (an entry whose key id was cleared: removed). Reads fill the layers they
pass. `BatchWrite` of the tip is the interesting operation: a removed account
leaves the tip's map and, through `EraseAccount`, the database at once, a
removed id stays as a mark until the tip is flushed. `Map!Spec` is checked and
proved under the mapping "what each layer answers". `flushed` and `erased` are
history variables for the state after a crash.

### Ledger

An action is one transaction executed (`Register`, `Transfer`, `Contract`,
`RegisterApp`, the reward and the reward that matures) or one log undone. `view` is
the child view of the block in progress, `tip` what it falls back to when the
block fails, `before` a history of the tips. A registered id is the place of the
transaction that registered it, an app's key is its id. Coin days are kept
modulo `Width` (2^64). Undo data are written once per block and are the same when
it is connected again, so they live in `chain`. Money sent to the hash of an id
that is not registered yet is left out: the later registration would overwrite
that account.

### BlockDownload

`queues` holds, for each peer, the list of blocks to download and the one in
flight with their counters, and the two global maps from blocks to peers.
`Announce` is `AddBlockToQueue`, `SendMessages` asks for blocks and looks for
stalls, `Deliver` is `MarkBlockAsReceived` followed by `ProcessBlock` of
`OrphanPool`, `Submit` a block from `submitblock` or the miner, which tells the
queues nothing, `Finalize` the end of a node's state.

A peer has two clocks. `quiet` is the time since `m_llLastRecv`, which any bytes set
back (`ReceiveBytes`, `net.cpp:914`) and which alone decides whether the peer is
`Inactive`. `llLastBlockProcess` moves to now when a message comes to `ProcessMessage`
(`Processed`, `main.cpp:3668`), that is when it is complete and its header and
checksum are good (`main.cpp:4313`, `4327` to `4344`); the times of requests and
answers are compared with it to find a peer `Stalling`. Such a time is a `Stamp`: how
long ago it was (`age`), and how long before `llLastBlockProcess` (`before`). A tick
adds to the ages and to `quiet`, a message of the peer copies the ages. All of them
saturate where they make no more difference, so a tick never makes new states for
ever.

### Mempool

`poolView` is the layer of accounts above the tip: it holds what was read and
written in it. `AcceptToMemoryPool` executes a transaction there, `Connect` and
`Disconnect` move the tip under it (`busy`: `ActivateBestChain` is between two of
its steps), the rescan executes all entries in the order of their hashes. The
miner's `CreateNewBlock` and `CheckWork` are two steps with anything in between.

### AppAccounts

A record is an amount that is free and funds frozen under a tag until a height,
or until a block time for younger apps (`byTime`). A program is any choice of
library calls that ask for operations, which `InsertOutAPPOperte` collects in a list
for each user (`m_MapAppOperate`); `CheckAppAcctOperate` compares their sum with the
money that came and went, `OpeatorAppAccount` applies each list to the record of its
user as it is at the height of the block, all or nothing, `Undo` puts whole records
back. That users and tags are finitely many (`BoundAssumption`) is because both are
byte strings of bounded length.

### Checkpoints

Three places keep a node to the checkpoints: `AcceptBlock` (`CheckBlock` and the
height of the last checkpoint block), `CheckActiveChain` for each new one, and the
start. A checkpoint is in the map before its thread has `g_cs_main`, hence
`pending`. `CheckActiveChain` is cut into `Check`, which moves the chain, and
`Sweep`, one candidate of its loop at a time, because what the loop erases changes
what it sees next. `astray` names the three known ways off, each of which TLC
needs to be excluded: `"grown"` (a branch the sweep had erased, but not marked,
grew above the height of a checkpoint: `AcceptBlock` compares heights, not
branches), `"rewound"` (the chain was taken back to make room for a checkpoint
block that has not come), `"unseen"` (a start, and a checkpoint that moves the
chain, look only at the last checkpoint block the node has: a candidate as high as
a checkpoint whose block is still unknown is not compared with it, and may become
the chain).

### ForkViews

A block whose parent is not the tip and which would have as much work is checked
before it enters the index: it and the blocks below it down to the active chain,
or to one `g_mapCache` has a view of, one by one (`Arrive`, `CheckNothing`,
`CheckOnView`, `Answer`). A view is a map over a base, another view or the
database; an account is known by the last block that wrote it, so that
`Truth(b, k)` says what a view of branch `b` should answer and `GetAccountOf` what it
does: the first view that knows the account among those a read reaches (`Asked`)
answers, and those above keep the answer (`Filled`). `BaseView` is the copy of the tip's cache with the active blocks undone.
`ConnectTip` and `DisconnectTip` move the tip in any order; `WriteChainState` may
flush and then clears the map, `FlushOnly` (`printblokdbinfo`, `-blocklog`)
flushes and does not. `astray` collects what may go wrong with kept views:
`"poisoned"` (a check failed after it had extended a kept view, which stays under
its old key), `"rebased"` (a view built above one block of the active chain is put
on the view of a lower one), `"outgrown"` (a check extended a view that another
view is based on: the active chain had passed the block of a kept view, the view
became the fork of another branch, and the chain went back), `"undermined"` (the
database was written under it).

## 3. The runs

| Run | What it shows | Distinct states |
|---|---|---|
| `tx_confirm` | no transaction is confirmed twice, the cache is exactly the window of the tip, in every order of connections, disconnections, flushes and clean restarts | 185 582 |
| `tx_confirm_crash` | with crashes anywhere: a running node remembers every recent block unless one of three named events happened, and the records of its contracts are those of its chain unless a crash fell between two writes | 3 854 684 |
| `activation` | a node at rest is on the best chain it knows whose blocks are valid, or below it because a block could not be disconnected; flags never reach a block of the active chain; the pool is checked after every reorganisation that `ActivateBestChain` ends; every activation ends (liveness) | 492 103 |
| `fork_views` | a block of a side branch is judged on the accounts of its own parent, whatever moved in between, except after the four named events | 52 683 |
| `checkpoints` | a node at rest is on the checkpoint blocks it knows, and on the best chain they allow, except after the three named events | 573 864 |
| `orphans` | the containers agree and are bounded, an orphan stays behind only when its parent was recorded but not accepted | 9 454 |
| `download` | lists, counters and maps agree; a block that is here is not asked for, unless it came from this node; no queue stands still and no peer keeps a block unless its bytes keep coming and never make a message (liveness) | 73 311 |
| `account_view` | the three layers implement the two maps; a crash falls back to the last flush less the accounts removed since | 213 768 |
| `ledger` | money is neither made nor lost, coin days are earned, registered accounts are found, undoing a block gives back what every key had | 516 431 |
| `stuck_tip` | *violation*: a block may be impossible to undo | |
| `mempool` | after an activation the pool fits the next block and its view is the tip plus the pool; a block the miner submits connects | 246 961 |
| `app_accounts` | what the users of a contract own is backed by its account, undo restores every record, the transfer of everything moves everything except at one height | 1 460 182 |

A violation run checks what a comment of the program says; the comment and the
line that differs are quoted under `findings`. There is one: `DisconnectBlock`
"Undo the effects of this block": undoing a transfer to an app whose account was
empty erases the account, and undoing the contract that emptied it then fails
(`tx.cpp:256`), so that the node cannot leave this block.

The passing runs say where the code does not do what one may expect by naming
the exceptions as exactly as possible (for the causes of `JudgedOnParent`, for
instance, TLC finds a counterexample when any one of the four is dropped):

- `WindowSurvives` names the only three events that damage the tx cache (an
  aborted block stays in it; `VerifyDB` looks back 288 blocks, the cache covers
  500, and a write torn behind a reorganisation escapes it; `reloadtxcache`
  forgets deletion marks), `ScriptsInStep` the one that no start notices.
- `BestValidTip` and `PoolCheckedAfterReorg` hold when every block gets a verdict.
  A wrong fuel value or a failing reward is refused without a validation state
  (`main.cpp:1549`): such a block stays the best candidate and is tried by every
  activation, each of which nevertheless ends (`ActivationEnds`). After an activation
  that came upon a block it could not disconnect (`UndoFails`), the node is below the
  chain it wants until another one gets further, and its pool may be out of step
  from then on. Nothing about flags and the best chain is promised once
  `MatureBlockUnreadable` condemned a block: a valid chain is lost for good, and a
  block that was settled on before may be connected with its flag. Activations end even
  then, unless matured blocks go on being unreadable: a block that waits for one may
  be what `g_cChainMostWork` leads to although it is marked, if the mark above it was
  erased (`Recheck`), and `ActivateBestChain` then starts over with it until the read
  succeeds, holding `g_cs_main`. TLC finds a counterexample when any one of these
  exceptions is dropped.
- `QueuedIsServed` and `InFlightIsReleased` except a peer that `Trickles`: bytes of it
  keep coming and none of them makes a message that is processed, be it that they
  are incomplete or thrown away. It is not inactive, since `m_llLastRecv` moves, and
  not stalling, since `llLastBlockProcess` does not, so that it keeps what is queued
  or in flight at it for ever. Without the exception TLC finds this behaviour for
  both properties.
- `StrandedOnlyByFailure` names the only way to strand an orphan. That
  `PruneOrphanBlocks` may drop one with dependents is not against a property: they
  are fetched again.
- `UndoRestoresWorth` compares money and coin days, not the existence of empty
  accounts; `HeldIsNotWanted` excepts blocks from `submitblock` and the miner;
  `TransferMovesAll` a fund that matures at the very height.
- The causes of `LockedIn` and `JudgedOnParent` are in section 2.

## 4. Bounds

- **TxConfirm**: `CacheHeight` 2 (500 in the program), chains up to 5 blocks, two
  transactions whose valid heights make them acceptable at both ends of the
  window. Five blocks are enough to fill the window, push out blocks, disconnect
  back into it and pass beyond the last valid height. `Nonce` has one element:
  two blocks of the same height differ by their transactions.
- **TxConfirmCrash**: window 3, `VerifyDepth` 1, chains up to 4, one transaction.
  What matters is that `VerifyDB` looks back less far than the window and that the
  window is shorter than the chain, as in the program (288, 500). Nothing bounds
  the number of crashes, reindexings or aborts.
- **ChainActivation**: six blocks, branches of two and three from the genesis
  block with equal work per block: the smallest tree with a tie, a longer
  branch that overtakes, and room for an invalid block below, at and above the
  point where it does. Every choice of one invalid block per branch or none, and
  of one unjudged block; two orders of addresses, one crash or failed read or write
  at any point (`MaxCrashes`); a block that cannot be undone at any point and any
  number of times. `Unharmed` stops TLC where one of the blocks a2 and b3 is in the
  index and a block was condemned for a matured one (`misread`): only the end of
  activations is promised there, and a branch of one block and one of two, with
  blocks above them that arrive and are refused, are what the loop takes that TLC finds
  without the exception in `ActivationEnds`. `OnePlaceAtFirst` leaves out the second
  order of addresses until the first restart, since addresses break ties of blocks
  loaded from disk only.
- **ForkViews**: eight blocks, two branches that part above their first block,
  one of which ends in a good and a bad block; two accounts written so that each
  branch leaves one of them to its fork; forks up to 3 blocks deep, five views
  (`MaxViews`; a check needs two at most, and the fifth is what `"outgrown"` takes:
  a base and a view on it for each of two forks, and a view on the second). `Settled` stops TLC where `astray` is no
  longer empty: `JudgedOnParent` promises nothing there, and a clear starts again
  from the empty map.
- **Checkpoints**: seven blocks in three branches, one forking above the first
  checkpoint and one below it, whose first block has more work than a longer
  chain: the best candidate need not be the highest, which is what the causes of
  `LockedIn` depend on; checkpoints on the official branch in any order; one
  restart at any point.
- **OrphanPool**: two branches of four blocks, `MaxOrphans` 2 (750). Two orphans of
  each height exist so that they hide each other, one block claims a height it
  does not have, and the limit is reached with blocks of both branches. Nothing
  else is bounded.
- **BlockDownload**: two peers, a chain of two blocks so that one may wait as an
  orphan for the other, one request at a time, time-outs of one and two ticks: a
  stall, an answer that is late, a peer that is inactive and one that is neither
  because of what it sends all happen. One block may also come from this node.
- **AccountView**: two keys, one id, two contents: enough for an id that moves
  from one account to another and for an account that is removed, created again
  and changed. Nothing bounds the number of steps.
- **Ledger**: two users, one with money, amounts and fees 0 and 1, rewards that
  mature after one block, chains up to three blocks of one transaction besides
  the reward; `Width` 10 so that coin days wrap. `stuck_tip` has two blocks of two
  transactions: the finding needs two in one branch.
- **Mempool**: two accounts and one coin that three transactions pass back and
  forth, so that they depend on each other and conflict, in an order of hashes
  that is not that of their dependence; window 2, chains up to three.
- **AppAccounts**: two users, one tag, two coins, funds frozen up to height or
  time 3, three blocks and three calls.

## 5. Fairness

`activation` assumes `WF_vars(Activation)`, where `Activation` is the disjunction
of the steps of `ActivateBestChain`. The thread that runs it holds `g_cs_main`,
waits for nothing and is scheduled by the operating system; no fairness is
assumed of the arrival of blocks, of the pool, of a crash or of a failure. That the loop ends
although it starts over after each invalid block is a matter of
`InvalidBlockFound` marking the block and removing it from the candidates.
Whether *connecting* one block ends (the virtual machines have their own step
limit) is not a question of this model.

`download` assumes that time passes (`WF` of `Tick`), that the socket thread and
the message thread come round: `WF` of `Inactive` and of the orphans of
`ProcessBlock`, `SF` of `Finalize` and `SendMessages`, because they need `g_cs_main`,
which others take and release in between. Nothing is assumed of the peers: they
may be silent, send bytes that make no message, anything but what was asked for, or
go.

## 6. What is proved

TLAPS checks every proof below; the constants are arbitrary except for the named
assumptions of the modules.

**TxConfirm** (assumes `CacheHeight` a positive number, valid heights integers).
`NoDoubleConfirm` is not inductive: a cache that lacked a recent block would let
its transactions in again. The invariant `IInv` adds that the cache is exactly
the window (`CacheIsWindow`), that a block sits at its height, that each
confirmed transaction was within its valid heights when it was confirmed
(`ConfirmedInWindow`), and that every row of the database not in memory is marked
for deletion (`NoStrayRow`), which is what a clean restart rests on. The heart
is lemma `WindowSpan`: two heights at which one transaction is acceptable are at
most `CacheHeight` apart, also for an odd one. `MaxHeight` is a bound for TLC; the
theorems hold for every value of it. Theorems: `TypeCorrect`, `CacheFollowsTip`,
`ReplayProtection`, `DuplicatesAreReal`.

**ChainActivation** (assumes a tree, positive work, distinct addresses).
`BestValidTip` speaks of a node at rest: it wants the best chain, and is on it or still
has to leave a block that it could not disconnect. What carries it through an
activation is `GoalIsBest` (nothing connectable beats the chain being activated), and
what makes `FindMostWorkChain` establish that again is that every connectable
block is still a candidate (`ConnectableIsCandidate`), because no flag in memory
or on disk is without a really invalid block at or below it (`FlagsJustified`).
These three hold until a block is condemned for a matured one that could not be
read. `PoolInStep` adds to `IInv` what each step of `ActivateBestChain` leaves of the
pool (`ReorgInv`): a reorganisation that has begun ends with a rescan unless a block
without a verdict, an abort or a failed disconnection ends it before.
Theorems: `TypeCorrect`, `BestChain`, `ActiveChainUnmarked`, `PoolInStep` and
`CandidatesNotFailed` (`FindMostWorkChain` would loop for ever on a candidate that
is marked itself), for every tree, order of arrival, assignment of verdicts
and number of crashes.

**OrphanPool** (assumes a finite set of blocks, heights natural numbers). The
invariants of the run and `PruneHasChoice` are inductive together: that a victim
exists rests on the bound and on the agreement of the containers. Theorems:
`TypeCorrect`, `ContainersAgree`, `BoundedMemory`, `VictimExists`,
`OnlyFailureStrands`.

**BlockDownload** (assumes finite sets of peers and blocks). `QueuesAgree` relates the
lists of all peers to two global maps, and every operation on a queue changes a
list, a counter and a map in one go. The proof first shows the agreement for each
operation on the record of the queues (`Sound`), with lemmas about what taking an
element out of a list does, then that every handler is a chain of such operations,
and that for the orphans it is a step of `ProcessBlock` or none, so that the
invariant of `OrphanPool` carries over. `HeldIsNeverWanted` is the action property
of the run. Theorems: `DownloadInvariance`, `DownloadTypeCorrect`,
`QueuesStayInStep`, `HeldIsNeverWanted`.

**AccountView** (assumes that the two sentinels are no keys or contents). `IInv` is
the types (which say that the tip has no removal mark of an account),
that a closed child is empty, and `ResumesAtFlush`. `Refinement` shows that the
initial states map to initial states of `AccountMap` and each action, under
`IInv`, to one of its steps or to none, one lemma per action. Theorems:
`TypeCorrect`, `CrashState`, `RemovalsLand`, `Refinement`.

**ForkViews** (assumes a tree, positive work, that the genesis block writes every
account and that the mark of an unread account is no block). `JudgedOnParent`
speaks of one check, but what the check reads comes from views made long before,
and from the database as it is now. The invariant `FInv` says what a kept view
is worth while nothing went astray (`SoundViews`): what it knows is as of the block
it is at; it rests on a view at a lower block of its branch, or on the database;
what it has not read is the same in the layer below (`Labelled`) and has not changed
since the block it was built on, so that the answer from below stays the right one
when the view is put on another base of its branch. That reading through the views ends, in the
view that knows the account, follows from the order of the bases (`Rooted`), with
`Asked` as the smallest set that is closed under them, in place of a recursion. With
`KeysAgree` (`g_mapCache` keeps a view under the block it is at), `TipIsTruth` (the tip's
cache over the database is the state of the active chain) and `QueueInOrder` (the
queue is on the branch of the incoming block) it is inductive. The attempt was a finding:
with the causes known before, it is not, since a kept view that became the
base of another one may be moved on under it; TLC found that history with five views,
which is the cause `"outgrown"`. Theorems: `ForkInvariance`, `ForkTypeCorrect`,
`BlocksJudgedOnParent`.

**TxConfirmCrash** (assumes what `TxConfirm` does and `VerifyDepth` positive).
What `Start` finds after a crash depends on when the rows of the tx cache were
last written. `CrashInv` says for every moment, a torn write included: the cache in
memory has the window of the tip (`Remembers`); the rows are those of the chain as
it was at some height, from where it has only grown (`Anchors`), so that either the
tip gives the torn write away or the rows still cover the window; the chains in
memory and on disk have no transaction twice (`ReplaySafe`); the contracts belong to
the accounts they were written with (`Records`). Each part holds until one of the
named events, which the history variables record. Theorems: `CrashInvariance`,
`CrashTypeCorrect`, `WindowOutlivesCrashes`, `ReplayProtectionOutlivesCrashes`,
`ScriptsFollowChain`.

**Mempool** (assumes that the order of hashes lists every transaction once). Its
properties speak of a pool that was executed on the tip (`fresh`). The invariant adds
that the funds of the tip are those the chain leads to (`FundsFollowChain`, an
existential over the funds along the chain, as recursion is out of reach), that
every confirmed transaction was within its heights (`ConfirmedInWindow`), and what a
template made from a pool in step promises of the chain it was made for
(`TemplateFits`). The order of the pool does not matter because executing a set of
transactions moves the same money in every order that never overdraws. Theorems:
`MempoolInvariance`, `MempoolTypeCorrect`, `PoolIsForNextBlock`, `PoolViewInStep`,
`SolvedBlocksConnect`.

**Ledger** (assumes a finite set of users, fees and amounts natural numbers, distinct
keys in the genesis block). Four inductive invariants, each on top of the one
before. `LedgerInv`: types (`GoodEntry` says what undo data each transaction type
has), the ids of every view are exactly the registrations of the blocks below it
(`Follows`, `FollowsWith`), an account with a public key is found by its id (`Found`),
and what each stage of `ConnectBlock` and `DisconnectBlock` may rely on (`Stages`).
`HistoryInv`: undoing the logs of a block from the last to the first, from the view
it produced, gives every account its worth back (`UndoesTo`); since a key may occur
in many logs, the log that counts is the first of the first transaction that
touched the key (`FirstTouch`). `MoneyInv`: the money of a view, the rewards it still
owes and the fuel burnt in its blocks account for the genesis block and one
`POS_REWARD` per block, and for a block in progress likewise on top of the tip. Sums
over finite sets are the community modules' `SumFunctionOnSet`; the lemmas about
them (a sum exists, one element more, two sums that differ at one element) are
proved by induction over a set of numbers (`SetInduction`), which needs no operator
parameter. `EarnedInv` bounds coin days. `CoinDaysEarned` itself is not inductive: an
account is only brought to a new height when a transaction touches it, money may
arrive without that (a reward that matures), and an undo writes back an account of
an earlier height. So the bound is stated at the height an account was last brought
to, together with what its money may still add from there (`EarnedAt`), for the tip
and for every view the chain went through, since that is what an undo returns to. A
reward counts from the block it was made in, so what is bounded is the money of a key
and its unpaid rewards (`Unpaid`), which a reward that matures leaves as it is
(`UnpaidNext`). A block spends the coin days of its miner: nothing that a key made is
above the height of its account (`Level`), nor of the logs that an undo may write
back (`GoodLogs`). That rests on whom a reward goes to: the id in it still names the
key when it matures or is undone (`Paying`), ids name different keys (`Unique`), and
a user whom an id names has a public key, so its account is not erased by the undo
of a transfer (`Public`). That products and remainders of coin days only shrink
(`CoinDaysAge`, `CoinDaysLeft`) holds for every width and height. Theorems:
`LedgerInvariance`, `LedgerTypeCorrect`, `AccountsKeepTheirIds`,
`HistoryInvariance`, `DisconnectRestoresWorth`, `MoneyInvariance`,
`MoneyIsConserved`, `EarnedInvariance`, `CoinDaysAreEarned`.

**Checkpoints** (assumes a tree, positive work, distinct addresses). `LockedIn` and
`BestLocked` speak of a node at rest with nothing pending. `CInv` carries them through
the loop of `CheckActiveChain`: `SweepInOrder` says that the loop has passed every
candidate better than the one it is at, that the chain to activate contains the
last checkpoint block, and that nothing beats it once it is more than that block;
`AllowedIsCandidate` that no candidate erased was one a checkpoint allows, because a
candidate is doomed just if it forks below the last checkpoint block
(`ForkAboveLast`); `Passed` separates the checkpoints that have been through the loop
from those waiting for `g_cs_main`, and `BelowUnknown` keeps candidates below
checkpoints whose blocks are missing. The attempt showed that this last part does
not follow from the code for a checkpoint that moves the chain: on a tree in which
a shorter chain has more work than a longer one, TLC found the longer one still a
candidate as high as an unknown checkpoint, which is why `"unseen"` covers that
event as well. The lemmas on heights (a chain is finite, has one block at each
height, and a set of its blocks has a highest) are derived from the assumption on
the tree. Theorems: `CheckpointInvariance`, `CheckpointTypeCorrect`,
`CheckpointsLock`, `LockCostsNothing`.

**AppAccounts** (assumes finite sets of users and tags). `FundsAreBacked` is a sum
over all users and funds against one number. The invariant adds the same for the world
before each block (`WorldsBacked`), since that is what `DisconnectBlock` returns to, and
that the logs of each block lead from the world after it to the one before
(`LogsLeadBack`). An operation that can be done changes what its record owns by
its money (`OperatedChanges`), a release of matured funds by nothing
(`MergeKeeps`), a list of operations by the sum that `CheckAppAcctOperate` looks at
(`OperateChanges`). The upper bounds of `TypeOK` need no check in the code: an
amount is at most what all users own, that is backed, and the account holds no
more than there is. Folds over lists are turned into traces of their intermediate
states first (`OperateTrace`, `UndoesUndoAll`). `TransferMovesAll` follows for a list
of any number of funds: the record after `i` operations is what was there without
the first `i` of them. Theorems: `AppInvariance`, `AppTypeCorrect`,
`FundsStayBacked`, `UndoIsExact`, `TransferIsComplete`.

Only model-checked: the liveness properties `ActivationEnds`, `QueuedIsServed` and
`InFlightIsReleased` (liveness under fairness is out of the prover's reach, as is
ENABLED). Every safety invariant and action property that a run checks is also proved.
Nothing that is proved rests on a recursive definition over data; those in the `MC`
modules serve TLC only.

## 7. What is not modelled, and why

Left out of a modelled part (the notes of `components` have the details):

- `ChainActivation`: fork warnings and blocks with `CorruptionPossible` (only a
  block damaged on disk gets there); a checkpoint that moves the chain is in
  `Checkpoints`, where all blocks are valid. `CheckActiveChain` moves the tip without
  a rescan, so that what is said of the pool is about `ActivateBestChain` only.
- `Checkpoints`: nodes started with `-checkpoints=0`, checkpoints on two branches
  (the operator signs one), signatures, relaying and `getcheck`.
- `ForkViews`: the stake computation itself, the tx and script layers, which are
  stacked like the accounts, removed accounts, failing reads, and a block of the
  active chain that cannot be undone in `BaseView` (`main.cpp:2255`), all of which
  only refuse the incoming block. `IsContainTx` of a
  tx layer asks its base even when the layer says that the block was deleted
  (`database.cpp:1828`): a fork may be refused for it, never accepted.
- `TxConfirmCrash`: the block and undo files, and failing writes. A LevelDB batch is
  taken to be atomic, as its documentation promises.
- `AccountView`: functions nothing calls (`SetKeyId`, `HaveAccount`, `BatchWrite` of a
  vector); the script views.
- `Ledger`: formats, signatures, the miner's key, the index by address.
- `BlockDownload`: the misbehaviour score and the handshake; `getblocks`, whose
  answers are announcements.
- `Mempool`: fees, priorities, the rate limit for free transactions, contracts.
- `AppAccounts`: the interpreters (a program is any choice of library calls), the
  data a contract keeps besides, programs that do not ask for the check of sums.
  The time a program runs at is read from the active chain
  (`appaccount.cpp:113`): a call that used a frozen fund may find it free when
  `VerifyDB` connects its block again at level 4, or on a fork.

Left aside altogether: the wallet (a client of the chain by signals), keys and
encryption (computation without protocol state), network transport, addresses
and bans (below consensus), alerts (display), the 8051 and Lua interpreters (out
of TLC's reach), RPC wrappers other than those named in section 2 (among them
the test command `disconnectblock`), serialisation and utilities.

## 8. Plan

Every subsystem that decides what the node believes has its module. What is
left, in this order:

1. contracts in the pool;
2. the script views under `AccountView`.

## 9. Running it

    tlc -workers 2 -config MCTxConfirm.cfg MCTxConfirm
    tlapm TxConfirmCrash_proofs.tla

Each run of section 3 is a module and a configuration named in `PROJECT.json`.
The longest run takes about four minutes on two workers.
