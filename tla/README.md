# TLA+ models of odyncash

These models cover the masternode-quorum parts of the node, the tip notifier, the Fluid signature quorum, the Qt client's amount formatting and its start/shutdown lifecycle. `PROJECT.json` lists:

- every component, with its status;
- every TLC run, with its expected result;
- one fault variant (mutant) per checked property;
- the mapping from each definition to the source lines it models;
- the findings;
- the hazards the code is exposed to.

## The system and its parts

| Part | Source | What it does | Interacts with |
|---|---|---|---|
| InstantSend | `src/src/instantsend.h` (declarations, inline members); handler bodies described by `spec.md` §4 | Collects lock votes from quorum masternodes for each input of a transaction. Locks the inputs once every input has quorum. Neutralises UTXOs that two transactions race for. | Network (requests, votes), maintenance timer, block notifier, wallet/UI |
| Stormnode payments | `src/src/stormnode-payments.cpp` | Collects votes of top-ranked stormnodes for the payee of each future block. Picks the payee of a new block. Checks the payee of a received block. | Network (votes, sync), block notifier, miner (FillBlockPayments), block validation (IsBlockPayeeValid) |
| Tip notifier | `src/src/psnotificationinterface.cpp` | Forwards each new tip to masternode sync, InstantSend, payments and governance. Skips them during initial download. | Validation, the subsystems above |
| Fluid database helpers | `src/src/fluid/fluiddb.cpp` | Sovereign lookup; 3-of-5 sovereign signature quorum (reward and minting fallbacks not modelled) | Fluid databases |
| Amount units | `src/src/qt/cashunits.cpp` | Formats and parses amounts in four units | Qt widgets |
| Qt lifecycle | `src/src/qt/cash.cpp` | GUI thread and core thread; initialise, restart, shutdown | Node init/shutdown |
| Declarations | `util.h`, `servicenodeconfig.h`, `rpc/register.h`, `miner/miner-util.h`, `qt/transactionrecord.h`, `qt/bdapfeespopup.h` | Declarations and registration glue | — |

### State, operations and hard behaviours per part

**InstantSend.**

- State: the tables listed below, all guarded by `cs_instantsend`.
  - `mapLockRequestAccepted` and `mapLockRequestRejected`
  - `mapTxLockVotes` and `mapTxLockVotesOrphan`
  - `mapTxLockCandidates`: one `COutPointLock` per input, with its votes and its `fAttacked` flag
  - `mapVotedOutpoints`: the reverse index from a UTXO to the transactions voted on it
  - `mapLockedOutpoints`: the winners
  - `mapMasternodeOrphanVotes`
- Operations: process a lock request; process a vote; sweep (`CheckAndRemove`); serialise/reload with `Clear()` on a version mismatch.
- Hard behaviours:
  - votes arrive before their request, in any order and repeatedly;
  - conflicting transactions race for a UTXO;
  - Byzantine masternodes sign both sides of a race;
  - two timeouts (15 s and 60 s);
  - the reload.
- Properties:
  - no outpoint lock with conflicting votes is ever ready;
  - one winner per UTXO that never changes;
  - a lock only with a quorum of genuine votes on every input;
  - every candidate is eventually locked or purged.

**Stormnode payments.**

- State:
  - `mapStormnodePaymentVotes` (by vote hash);
  - `mapStormnodeBlocks` (height → payees in insertion order, each with its vote hashes);
  - `mapStormnodesLastVote` (stormnode → last height);
  - `pCurrentBlockIndex`.
- Operations: the vote message handler; `UpdatedBlockTip` → `ProcessBlock` (this node's own vote); `CheckAndRemove`; `Clear`; and the queries `GetBestPayee`, `GetBlockPayee`, `FillBlockPayee` and `IsTransactionValid`.
- Block-level rules: `FillBlockPayments` (the miner's coinbase), `IsBlockValueValid` and `IsBlockPayeeValid` (block validation). They depend on the node's view: sync state, sporks 8, 9 and 13, and whether governance has triggered a superblock. The model enumerates all 32 views. The miner is not in this repository; it fills the block at the chain tip plus one. The governance helpers (`IsValidBlockHeight`, `IsSuperblockTriggered`, `IsValid`, `CreateSuperblock`) are not in this repository. They are given by their contract: a trigger counts only at a superblock height, the created superblock is valid, and it pays no stormnode.
- Serving and requesting payment data: `Sync` (the votes pushed to a peer, capped by the storage limit for old peers, only the future window for new ones) and `RequestLowDataPaymentBlocks` (the GETDATA batches of low-data heights, modelled by the recursive `FetchLoop` over the heights in ascending order). Both only send messages, so they are operators whose value is what is sent. `GetBlockHash` succeeds for heights of the active chain; `MAX_INV_SZ` is 2 in the model instead of 50000, so one table of five heights can fill a batch.
- Hard behaviours:
  - repeated and reordered votes;
  - votes with bad signatures from any peer;
  - stormnodes that sign two payees;
  - the boundary between the accepted vote range and pruning;
  - two tables that must agree.
- Properties:
  - the tables agree;
  - a block this node fills passes its own check;
  - pruning drops only out-of-range votes;
  - one stored vote per stormnode and height;
  - "already voted" only when a vote is stored.

## Modules

| Module | Models | Kind |
|---|---|---|
| `InstantSend.tla` | CInstantSend of one node | detailed specification |
| `InstantSendLocks.tla` | what InstantSend promises: a UTXO → winner table that only grows by locking all inputs of a transaction with a quorum of signed votes, and only shrinks by a full reset | abstract specification |
| `MCInstantSend.tla` | input maps for the InstantSend runs | model |
| `StormnodePayments.tla` | CStormnodePayments of one node | detailed specification |
| `MCStormnodePayments.tla` | queue views for the payment runs | model |
| `PSNotification.tla` | CPSNotificationInterface over an abstract chain | detailed specification |
| `FluidQuorum.tla` | `CheckSignatureQuorum`, the sovereign list and `IsSovereignAddress` | operators over all inputs |
| `CashUnits.tla` | `CashUnits::format`, `floorWithUnit`, `parse` and a reference rendering | operators over all inputs |
| `MCCashUnits.tla` | the amounts and digit settings checked | model |
| `CashLifecycle.tla` | `main`, CashApplication and CashCore: GUI thread, core thread, queued connections | detailed specification |
| `CashTranslations.tla` | `GetLangTerritory`, `initTranslations`, `Translate`, and the Qt string and translator calls they rely on | operators, used by `CashLifecycle` |

### InstantSend

Every public operation holds `cs_instantsend` for its whole duration, so each handler is one action:

- `ProcessTxLockRequest(t, valid)`, including this node's own votes (`Vote`, spec §4.5 "Cast votes");
- `ProcessNewTxLockVote(v, throttled)`;
- `CheckAndRemove`;
- `Tick` (the clock);
- `Clear` (reload with a version mismatch).

Time is kept as ages that saturate one past the largest window they are compared with. Since the code only compares timestamps against the two windows, the abstraction is exact.

The votes of the other masternodes are chosen in the initial state, because their signing does not depend on this node. An honest masternode never signs two transactions for one UTXO; the other masternodes may. The node's own masternode (`ActiveMasternode`) signs only in `ProcessTxLockRequest`:

- when it is eligible and the candidate is inside the acceptance window, it votes on every input of the accepted request that its vote table holds no vote of its own for;
- those votes are added to `signed`.

The network may deliver any signed vote at any time, repeatedly or never. This includes the node's own votes after `Clear` has made it forget them. In that case it signs a competing transaction for the same UTXO.

`valid` stands for the request checks (`IsValid`, fee, auto-lock throttle). `throttled` stands for the orphan rate limit, whose average-time rule `spec.md` leaves open.

Only `instantsend.h` is under `src/`. The handler bodies are therefore translated from `spec.md` §4.3–4.5 and marked `spec_modelled` in the map. The inline members of `COutPointLock` (`CountVotes`, `IsReady`, `MarkAsAttacked`), the constructors, the table declarations, the timeout constants and `SerializationOp` are translated from the header.

The refinement mapping is `owner <- lockedOutpoints`. `LocksRefinement` checks the abstract `Spec` as a property. In the abstract specification signatures only accumulate, through `Sign` or in the step that locks, because the node's own vote can complete a quorum in the step that accepts the request.

### Stormnode payments

- `ProcessPaymentVote(v, sigOK)` is the `STORMNODEPAYMENTVOTE` branch of `ProcessMessage`, with its checks in the code's order:
  1. hash dedup;
  2. range;
  3. `IsValid`;
  4. `CanVote`, which records the height;
  5. `CheckSignature`;
  6. `AddPaymentVote`, which needs block `h - 101`.

  The early returns before `CanVote` change nothing and appear as disabled steps.
- `UpdatedBlockTip(n, found, payee)` sets the tip to `n` and runs `ProcessBlock(n + 10)`. This node's own vote goes through `AddPaymentVote` without `CanVote`. `found` covers a failing rank, payment queue or signature; `payee` is what the queue selects. In the stand-alone module the chain only grows (`NextBlock`), and the queue view is the constant `QueuePayee`.
- The rank oracle, the payment queue and the chain are constants:
  - `Ranked`;
  - `QueuePayee`, one view per stormnode;
  - the chain, through `HASH_DEPTH`.
- `Forged` names the stormnodes for which peers relay votes with bad signatures.

The code's constants 10 < 20 < 101 are scaled to `PROCESS_AHEAD = 1`, `FUTURE_VOTES = 1`, `HASH_DEPTH = 1`, which keeps the only relations the code depends on: `PROCESS_AHEAD <= FUTURE_VOTES <= HASH_DEPTH`. Under them, `AddPaymentVote` fails only on the early chain, exactly as in the code.

### Tip notifier

- State: the chain tip, the IBD flag, lite mode, and the tip each subsystem last saw (`syncTip` for masternode sync, `dsTip` for the Dash subsystems) plus InstantSend's `autoLock` flag.
- `UpdatedBlockTip(pindexNew, pindexFork, fInitialDownload)` follows the code's early returns: disconnect-only, then masternode sync and the auto-lock flag, then IBD, then lite mode, then the other subsystems.
- `ActivateBestChain(f, n)` is validation's part: it disconnects to fork height `f`, connects to `n` and notifies. `InitialDownloadEnds` is a separate step, because IBD can end between two notifications.
- `VersionBitsState` is abstracted to `DeploymentActive(h) == h >= ACTIVATION_HEIGHT`.

### Fluid quorum

`CheckSignatureQuorum(individual)` is an operator. The state holds one input: whether the sovereign database is readable, the five sovereign addresses (each a key or `BadAddress`, an address that does not parse), and the key recovered from each of the three signature layers (`NoKey` when recovery fails). The loop over sovereigns becomes `LayerKey`: the last sovereign whose address equals the layer's recovered key. `GenericVerifyInstruction` is abstracted to that recovered key.

`IsSovereignAddress` reads the same sovereign record and skips entries that do not parse.

### Amount units

`format`, `floorWithUnit` and `parse` are operators over strings as sequences of characters (digits, signs, the point, blank and the thin space). `QString::number`, `rightJustified`, `leftJustified`, `split` and `toLongLong` are written out as small operators. The unit symbol and HTML wrappers are left out. `ReferenceFormat` is an independent rendering: the zero-padded digits of |n|, split at the decimals, with a thin space before every group of three.

### Qt lifecycle

- GUI thread: `main`'s program counter runs `setup → exec1 → after1 → exec2 → after2 → waiting → exited` (or `killed` through `::exit`).
  - `setupFails` covers main's early returns before the window exists.
  - `requestInitialize` and `requestShutdown` are main's calls around the two `exec()`s.
  - `initializeResult`, `shutdownResult`, `handleRunawayException` and `detectShutdown` are the slots; `destroy` and `waitCore` are the destructor.
- Core thread: `initialize`, `shutdown` and `restart` are CashCore's slots. `restartQuit` is restart's `QApplication::quit()` and the flag reset. `coreExit` is the thread's `quit()`.
- The queued connections made by `startThread` are the FIFO queues `guiQ` and `coreQ`. `quit()` only ends a running loop. `QThread::quit` may stop the thread with slots still queued, so `coreExit` drops `coreQ`.
- The node is an abstract state: `down`, `running`, `failed`, `prepared` (by a restart) or `shutdown`. `initialize` chooses success, failure or an exception.
- Translations:
  - `main` calls `initTranslations` twice: at step 4, and again at step 7, after `NetworkStyle` has switched to the network's own QSettings, whose `language` may differ.
  - `requestInitialize` runs both calls (`mainTranslations`) on the fixed inputs `locale`. The inputs are the system locale, the `language` setting before and after the switch, `-lang`, and the translation files present.
  - `translators` is the application's list of installed translators in search order. `installTranslator` prepends and `QCoreApplication::translate` asks the list front to back.
  - In `CashTranslations`, a locale name is a sequence of segments (`de_DE` is `<<"de", "_", "DE">>`), so `lastIndexOf` and `truncate` keep their QString meaning, including `truncate(-1)`.
  - `load` is `QTranslator::load`. It strips the name back to a delimiter until a file matches, and it clears the translator first.
  - `TranslationsFollowLocale` compares the answer with a reference definition on structured locales. The chosen locale is `-lang`, else the network's setting, else the system locale. The file used is that locale's own file if present, else its language's file.
- The environment: `RequestStop` is `StartShutdown` from a signal, RPC or the splash screen. `UserQuit` and `UserRestart` are the window's buttons; restart clicks are bounded by `MAX_RESTART_CLICKS`.

### Tip notifier driving payments

`TipPayments` composes the two modules the way the code connects them. `N == INSTANCE PSNotification` and `P == INSTANCE StormnodePayments WITH tip <- dsTip`: the payments tip `pCurrentBlockIndex` is what the listener hands to the Dash subsystems. Each composed step conjoins a listener step with the payments step the code runs inside it:

- `ActivateBestChain(f, n)` and `InitializeCurrentBlockTip` call `P!UpdatedBlockTip` exactly when the listener passes its early returns (`NotifiesSubsystems`). Reorganisations are arbitrary: a notification can repeat a height, skip heights or go down.
- The payee of this node's own vote is a choice among the payees. `GetNextStormnodeInQueueForPayment` reads the stormnode list and the blocks that paid them, both of which change between two calls for the same height.
- Peer votes (`s1`, genuine or forged), `CheckAndRemove` and `Clear` run between notifications. Votes are ignored in lite mode.

## Runs

| Run | Config | Result | What it shows |
|---|---|---|---|
| `is_race` | `MCInstantSend.cfg` | pass, 206,912 states | See below. |
| `is_multi` | `MCInstantSendMulti.cfg` | pass, 51,041 states | See below. |
| `sp_double_vote` | `MCStormnodePaymentsDouble.cfg` | violation | `OneVotePerStormnodeHeight` fails; see the findings. |
| `sp_forged_vote` | `MCStormnodePaymentsForged.cfg` | violation | `LastVoteBacked` fails; see the findings. |
| `tp_pass` | `MCTipPayments.cfg` | pass, 362,816 states | See below. |
| `tp_own_vote` | `MCTipPaymentsOwnVote.cfg` | violation | `OwnVoteOncePerHeight` fails; see the findings. |
| `pn_autolock` | `MCPSNotificationAutoLock.cfg` | violation | `AutoLockFlagCurrent` fails; see the findings. |
| `fq_pass` | `MCFluidQuorum.cfg` | pass, 36,004 states | `QuorumIsThreeDistinctSovereigns`: with a readable database and valid addresses, the check accepts exactly when three distinct sovereigns signed (one, for an individual check); otherwise it fails closed. `SovereignSignersReported`: every key the quorum counts is a sovereign for the RPC's `IsSovereignAddress`. The converse fails by design: the RPC skips a bad entry that the quorum rejects. |
| `cu_pass` | `MCCashUnits.cfg` | pass, 1,980 states | `FormatMatchesReference`, `RoundTrip` (parse reads back what format wrote) and `FloorTruncates` (floorWithUnit truncates toward zero), for every amount, unit, separator style, plus flag and digits setting. |
| `ql_pass` | `MCCashLifecycle.cfg` | pass, 93,184 states | `TypeOK`; `ExitCodeReflectsInit` (the exit status is 0 exactly when initialisation succeeded); `TranslationsFollowLocale` (Qt and cash strings come from the most specific file of the locale chosen by `-lang`, the network's settings and the system, after both `initTranslations` calls); `ShutdownCompletes` (a requested shutdown ends the process). |
| `ql_window` | `MCCashLifecycleWindow.cfg` | violation | `WindowHiddenAfterShutdownRequest` fails; see the findings. |
| `ql_exit` | `MCCashLifecycleExit.cfg` | violation | `NodeShutDownBeforeExit` fails; see the findings. |

- **`is_race`:**
  - **Setup:**
    - `t1` and `t2` both spend `o1`;
    - `m1` is this node's masternode and votes through `Vote`; `m2` signs anything;
    - both signatures are required.
  - **Checked:** `TypeOK`; `ConflictNeverReady` (the attack check and its replay); `LocksRefinement` (one winner per UTXO, quorum before lock, first wins, no purge of a won UTXO); `CandidateResolves` (every candidate, including empty shells created by orphan votes, is eventually locked or purged).
- **`is_multi`:**
  - **Setup:** `t2` spends `o1` and `o2` and races `t1` on `o1`. One Byzantine masternode is enough for a quorum. This node is not a masternode (`ActiveMasternode` is outside `Masternodes`), so `Vote` casts nothing.
  - **Checked:** `ConflictNeverReady` and `LocksRefinement` (which here includes that all inputs must be ready before a lock) as in `is_race`, with orphans on two inputs.
- **`tp_pass`:**
  - **Setup:**
    - this node's stormnode `me` and an honest peer stormnode `s1` whose queue view selects `p1`;
    - `me` votes for any payee the queue selects at the time, so the two views diverge;
    - votes for `s1` are also relayed with bad signatures;
    - heights 0..3 with any reorganisation, initial download and lite mode chosen at start;
    - the storage limit is 1.
  - **Checked:**
    - `TypeOK` and `IndexConsistent` (the two vote tables agree);
    - `OwnBlockAccepted`: the coinbase this node fills with `FillBlockPayments` for the next block on the chain tip (height `tip + 1`) passes its own `IsBlockValueValid` and `IsBlockPayeeValid`, in every sync, spork and trigger state. The payment tables it reads are kept against the payments tip, which lags the chain during initial download and moves with reorganisations. This takes the superblock and budget branches of three functions to agree, and `GetBestPayee` to pick a payee with enough votes. Consensus parameters: superblocks start at height 3 with cycle 1, and the budget window is height 2 (start 1, cycle 2, window 1). So the mined heights 1..4 reach the pre-superblock, budget-window and superblock branches;
    - `PruneOnlyOutOfRange`, an action property: pruning never drops a vote the handler would still accept, including after the tip went down;
    - `SyncNeverBehind` (masternode sync has seen the current tip once initialised);
    - `SyncWithinPeerRange`: for new and old peers and any `nCountNeeded` up to one above the storage limit, `Sync` serves only votes the peer's handler accepts at the same tip, although pruning is lazy and reorganisations move the tip down;
    - `LowDataRequested`: `RequestLowDataPaymentBlocks` asks a new peer for exactly the low-data heights of the active chain (reference: a set comprehension over the vote counts), in ascending order, in batches of `MAX_INV_SZ` of which only the last may be short.
  - The payment violation runs use `MCStormnodePayments`, with three stormnodes and a chain that only grows.

Each property of a passing run has a mutant in `PROJECT.json`: a fault variant defined just before the definition it replaces. TLC must then report the property violated, so every property is shown to depend on the code it names.

### Bounds

- **InstantSend:**
  - Two transactions and two outpoints are the smallest case with a race and with a multi-input transaction.
  - With two masternodes and quorum 2, one Byzantine masternode can vote both sides.
  - `LOCK_TIMEOUT = 1` and `FAILED_TIMEOUT = 2` keep the required order between the windows, and every window boundary is reached.
  - The multi-input run uses one masternode and quorum 1, so the per-input state stays small enough to explore completely.
- **Payments (`MCStormnodePayments`, violation runs):**
  - The tip runs to 3, so votes at height 1 are pruned at tip 3. Pruning, the range check, the early-chain failure and the reuse of `CanVote` all occur.
  - Two payees and a diverging queue view make `GetBestPayee` choose between payees.
- **Tip notifier:** in `pn_autolock`, heights 0..5 with activation at 3 give connects across the activation height, reorganisations below and above it, and disconnect-only steps. In `tp_pass`, heights 0..3 with one-block, two-block and disconnect-only reorganisations; votes at height 1 are pruned at tip 3, and the first reachable own vote is for height 1.
- **Fluid quorum:** four keys for five sovereign slots allow repeated sovereigns, signers that are not sovereigns, and one layer key signing twice. The keys are symmetric.
- **Amount units:** the amounts include 0, ±1, values just below and above 10^2, 10^5 and 10^8 (the unit factors), amounts from 1 to 10 digits, which in the four units give quotients of 1 to 10 digits, on both sides of the separator boundaries (3 and 4 digits), and ±(2^31 − 1). The digits setting takes 0, 2 and 8. Amounts near 2^63 are beyond TLC's integers; see the hazards.
- **Qt lifecycle:** two restart clicks let a second, queued restart meet the `executing_restart` flag while the first one's quit and shutdown result are in flight.
- **Translations:** all 256 combinations of the following inputs, each with every lifecycle interleaving:
  - system locale `de_DE` or `C`;
  - default and network `language` each empty or `de_DE`, so the two calls can disagree;
  - `-lang` unset or `de`, a locale without a territory, where `lastIndexOf` is -1;
  - any subset of `qt_de`/`qt_de_DE` and of `de`/`de_DE`.
  - Together these cover a missing base file, a missing territory file, both files and none.

### Fairness

- InstantSend: weak fairness on `CheckAndRemove` and `Tick`. The maintenance thread calls the sweep periodically, and time always advances. Message delivery is not fair, because peers may withhold votes.
- Payments and the tip notifier: no liveness property is checked, so these specs have no fairness.
- Qt lifecycle: weak fairness on each GUI slot and on the core thread's steps, because both threads run event loops that process their queues, and the poll timer fires every 200 ms. The user and `StartShutdown` owe nothing.

## Findings

1. **CanVote remembers only the last height** (`stormnode-payments.cpp:229`).
   - A stormnode votes for `h`, then for any other height, including one below 101 that is never stored.
   - It can then vote for `h` again with another payee, and both votes count.
2. **CanVote runs before CheckSignature** (`stormnode-payments.cpp:335`).
   - Any peer can relay a vote with a bad signature naming a stormnode.
   - That stormnode's genuine vote for the height is then refused as "already voted".
   - `Clear()`, which keeps `mapStormnodesLastVote`, has the same effect.

3. **A late successful initialisation shows the window during shutdown** (`qt/cash.cpp:477`).
   - A shutdown is requested while `CashCore::initialize` runs. The poll timer ends the first `exec`, and `requestShutdown` hides the window and queues `shutdown`.
   - The `initializeResult(true)` that arrives next shows the window again, with its restart buttons, while the node shuts down.
4. **A late failed initialisation can skip Shutdown()** (`qt/cash.cpp:491`, `:362`).
   - `initializeResult(false)` calls `quit()`, which ends the second `exec` before `shutdownResult` arrives.
   - The destructor stops the core thread. If `QThread::quit` stops it before the queued `shutdown` slot runs, `main` returns without `Shutdown()`. The model lets the thread drop slots that have not started.
5. **The auto-lock flag is stale after a disconnect** (`psnotificationinterface.cpp:37`).
   - A notification with only disconnected blocks returns before `isAutoLockBip9Active` is recomputed.
   - After the chain is cut back below the activation height, automatic locking stays enabled.

6. **A reorganisation makes this node vote twice for one height** (`stormnode-payments.cpp:643`).
   - A one-block reorganisation replaces the tip, and `UpdatedBlockTip` runs `ProcessBlock(tip + 10)` again.
   - `ProcessBlock` does not consult `CanVote` or its own earlier vote. If the payment queue now selects another stormnode, the node signs, stores and relays a second vote for that height.
   - Peers that saw only one of the two votes count a different payee for the same stormnode.

## Not modelled (yet), and why

- **InstantSend:**
  - expiry by block height and `SyncTransaction`;
  - fee and validity checks (an input);
  - relaying and the UI notification (output only).
- **Payments:**
  - the amounts in `IsBlockValueValid` (only which branch is taken is modelled: a superblock pays above the block reward and stays within its limit);
  - the `STORMNODEPAYMENTSYNC` handler around `Sync` (its sync and repeat-request checks only drop a request);
  - `IsScheduled`, `IsEnoughData` and `GetStorageLimit` (a constant in the model);
  - peer penalties;
  - the unlocked read in `GetBlockPayee`, a data race whose torn reads are not representable per handler.
- **Tip notifier:** the header-tip and transaction forwarders, which only pass arguments on.
- **Fluid:**
  - `GetFluidMasternodeReward`, `GetFluidMiningReward` and `GetMintingInstructions`: each is a chain of early returns and one comparison, with nothing to interleave, so a unit test reaches every case;
  - the `GetAllFluid*Records` helpers, which only copy a database read into a vector.
- **Amount units:** the HTML and unit-name helpers and the list model; they only add text.
- **Qt lifecycle:** option, splash and payment-server setup in `main`, abstracted to its early returns. The translation setup is modelled; a translation file is assumed to hold every string of its context, so the fallback from a file that lacks a string to the next translator is not modelled. A runaway exception caught in `main` is covered through the core-thread runaway path only.
- Declarations-only headers.

## Plan

In order of importance:

1. Compose the tip notifier with InstantSend as well.
2. Add the miner as an actor of `TipPayments` whose `GetBlockPayee` reads the height and then the payees in two steps, so that `CheckAndRemove` can erase the height in between (the unlocked read at `stormnode-payments.cpp:386`).
3. Give the Qt lifecycle the `main` runaway-exception path and the splash screen's `close` on `requestedShutdown`.
