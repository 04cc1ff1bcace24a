# TLA+ verification of the DAPA daemon and common library

This directory holds TLA+ models of the `dapa-blockchain` sources under `src/`,
the TLC configurations that check them, and the TLAPS proofs about them.
`PROJECT.json` lists every component, run, mutant, finding, hazard and theorem,
and maps each definition to the source lines it models.

## 1. Inventory of the system

| Component | Source | State | Operations | Status (module) |
|---|---|---|---|---|
| ObjectTracker | `dapa_daemon/src/p2p/tracker/mod.rs` | queue of `Request`s (lock), `ExpirableCache`, bounded mpsc channel (8), `AtomicU64` group id | `next_group_id`, `request_object_from_peer_with_or_get_notified`, `handle_object_response`, `mark_group_as_fail`; loops `requester_loop`, `handler_loop` (5 s), `task_clean_cache`; `server_exit` | modelled (`ObjectTracker`, `ObjectTrackerShutdown`) |
| Queue, Request | `dapa_common::queue`, `p2p/tracker/request.rs` (not in `src/`) | insertion-ordered map; peer, group, requested `Instant`, listeners | push, get, remove, `extract_if`, `peek_mut`, `set_requested`, notify | from the spec, inside ObjectTracker |
| MultiSigProvider | `core/storage/providers/multisig.rs` | per account: last topoheight, versions linked by previous topoheight | set/get/delete at topoheight, lookup at maximum topoheight, updated multisigs | modelled (`MultisigStore`) |
| VersionedBalanceProvider | `core/storage/providers/versioned/balance.rs` | versioned balances per (key, asset) | delete at / above / below topoheight (keep_last) | partly (`VersionedBalances`, abstract `BalanceHistory`, proofs `VersionedBalancesProofs`) |
| VersionedMultiSigProvider | `core/storage/providers/versioned/multisig.rs` | as above | delegates to generic helpers not in `src/` | not modelled |
| Migrations | `core/storage/sled/migrations.rs` | DB_VERSION, DAPA asset record, sled's write buffer | `handle_migrations`, flush, crash | modelled (`StorageMigrations`) |
| Coin utilities | `dapa_common/src/utils.rs` | none (pure) | `from_coin`, `calculate_tx_fee`, `format_difficulty`, `sanitize_daemon_address` | partly (`CoinUtils`) |
| Asset manager | `contract/opaque/asset/manager.rs` | the execution's assets, balances, outputs, gas; committed assets | `asset_create`, `asset_get_by_id`, `asset_get_by_hash` | modelled (`AssetManager`, proofs `AssetManagerProofs`) |
| Chain configuration | `dapa_daemon/src/config.rs` | hard fork, dev fee and difficulty tables | `get_hard_forks`, `get_minimum_difficulty`, `get_difficulty_at_hard_fork` | partly (`ChainConfig`, proofs `ChainConfigProofs`) |
| Random opaque, provider trait, wallet API | see `PROJECT.json` | none | wrappers, interfaces, data types | not modelled |

How the tracker's parts interact. A caller (`request_object_from_peer_with_or_get_notified`)
locks the queue; if the hash is already queued it attaches a listener and waits,
otherwise it pushes a new `Request` (peer, optional group, one listener), releases
the lock, and sends the hash on the channel. The requester loop receives hashes,
and for each one locks the queue, marks the request sent, and (if the peer is
open) sends it to the peer, all under the lock; on a closed peer, exit signal or
send error it runs `clean_queue` for that peer and group. The handler loop, every
5 s, evicts expired requests from the head of the queue while the head is sent
and older than `TIME_OUT`. `clean_queue` extracts every request whose group
matches, whose peer is the given peer or closed, or that is sent and expired; it
wakes their listeners and records the hashes in the expirable cache, which
`task_clean_cache` empties of entries older than `TIME_OUT`.
`handle_object_response` removes the request (waking listeners) or else accepts
a late answer found in the cache.

## 2. The model: `ObjectTracker.tla`

State. `req` is the queue as a partial function from hash to a request record
(`peer`, `group`, `sent`, `age`, `listeners`, and `sends`, a count of
transmissions kept only for the properties); `before` is the queue's insertion
order. `cache` maps evicted hashes to their age. `chan` is the mpsc channel,
`received` the hash the requester holds between `recv` and taking the lock.
Per caller, `pc` is `idle`, `sending` (pushed, not yet on the channel) or
`waiting`; `target` is its hash and `notified` its listener's wake-up. `closed`
is the set of closed peer connections and `nextGroup` the group counter.
Time is abstracted to ages in ticks (`Tick`), saturating at `Timeout + 1`.

Actions, one per critical section of the code (each holds the queue lock for its
whole body, as the code does): `RequestObjectListen`, `RequestObjectPush`,
`RequestObjectSend` (the channel send after the lock, blocked while the channel is
full), `ListenerWake`, `RequesterRecv`, the three outcomes of
`request_object_from_peer_internal` (`RequestInternalMissing`,
`RequestInternalSent`, `RequestInternalFail`), `HandlerSweep` (the whole
`while let` loop as the recursive function `SweepLoop`), `MarkGroupAsFail`,
`HandleResponseQueued`, `HandleResponseCached`, `CleanCache`, `NextGroupId`,
and the environment's `PeerDisconnect` and `Tick`.

Fairness. The three loops are spawned tasks that run forever: weak fairness on
`RequesterRecv`, on the requester's handling of a received hash, on
`HandlerSweep`, `CleanCache` and `Tick` (the interval ticks). A caller's channel
send is strongly fair (tokio's bounded channel wakes blocked senders in FIFO
order as slots free up), and a woken listener eventually returns (weak fairness).
No fairness is assumed for peers answering: the liveness property holds even if
no peer ever replies.

## 2b. The versioned storage: `VersionedBalances.tla`, `MultisigStore.tla`

Both providers store a chain of versions per key in two trees:
- a pointer tree: key → last topoheight;
- a versioned tree: (topoheight, key) → the version, whose prefix is the previous topoheight.

In the model, `balances` / `multisig` are the pointer trees and `versioned` is the versioned tree, one partial function per key. `top` is the chain's tip. The ghosts `written` / `live` hold the history the trees are meant to represent. This history is the source of truth the properties compare the stores against.

The writers are environment actions (`ApplyBlock`, `ApplyMultisig`), because the blockchain code that calls the providers is not in these sources. Each writes a new version at `top + 1` that links to the key's last version.

`VersionedBalances` models the following code paths:
- `delete_versioned_balances_at_topoheight`. In the model, `RewindTop` pops the tip. The per-key scan removes the version, reads the pointer, and moves the pointer when the last topoheight is `>=` the deleted one. An absent pointer is an error that ends the scan; `ReachedBefore` models the key order and the `?` return.
- The `keep_last` branch of `delete_versioned_balances_below_topoheight`. The walk from the last version's predecessor reads versions until one contains an output, then deletes everything below it. The walk is a recursive function, `KeepLastWalk`.

The balance amounts are abstracted to the `BalanceType` only, because that is all the code reads.

`BalanceHistory.tla` states what the provider promises without its trees: each key has a history (topoheight → BalanceType) and a last topoheight. `Apply` adds the versions of the block at `tip + 1`; `PopTip` removes every version at the tip and leaves each last topoheight it held on the newest remaining version (`Moved`). `VersionedBalances` instantiates it with the refinement mapping `tip <- top`, `history <- ` the type of every stored version of `versioned`, and `last <- balances`. `ImplementsHistory == History!Spec` is proved (`RefinesBalanceHistory`, §4g) and is not a property of a run. The ghost `written` follows `Apply` and `PopTip` step for step, so in every state `StoreMatchesWritten` already says that the trees hold the abstract history. The refinement theorem states the same fact as the store's contract, for every number of keys and heights.

`MultisigStore` models three parts:
- `set_last_multisig_to`: the version write, then the pointer.
- `delete_last_topoheight_for_multisig`: only the pointer is removed.
- The queries, as operators: the chain walk of `get_multisig_at_maximum_topoheight_for`, one key of `get_updated_multisigs`, and `has_multisig`. The last two only branch on the version the walk returns, so no property of their own checks them: once `LookupFindsNewest` holds, they read the right version.

| Run | cfg | Expect | Shows |
|---|---|---|---|
| balances_rewind | `MC_VersionedBalances_rewind.cfg` | pass (~70k states) | `StoreMatchesWritten`: with block applications and tip rewinds in any order, the pointers and links equal the live history. |
| balances_prune | `MC_VersionedBalances_prune.cfg` | pass (~147k states) | `OutputChainKept`: with keep_last pruning interleaved with block applications, the pointer stays on the newest version, and every version from the newest output version up is kept with its link |
| balances_prune_scope | `MC_VersionedBalances_below.cfg` | violation | `DeletesOnlyBelow`: the keep_last branch ignores its topoheight |
| multisig_queries | `MC_MultisigStore.cfg` | pass (~19k states) | `LookupFindsNewest`: the link walk of `get_multisig_at_maximum_topoheight_for` finds the newest version at or below every maximum, including after a dropped pointer orphans older versions |

Bounds:
- Two keys, so that the iteration order and the abort after a failing key matter.
- Topoheights up to 4 (balances) and 5 (multisig), so that a chain holds an input version between two output versions.
- All three balance types are used.

The prune run does not rewind. Rewinding after a keep_last prune is exactly what the violation shows to be unsafe. With both kinds of step together, pruning at p ≤ 1 followed by rewinds to topoheight 1 leaves a balance pointer on a deleted version (finding 4).

Finding 4: `delete_versioned_balances_below_topoheight(p, true)` never uses `p` (`balance.rs:68`). It deletes below the newest output version that precedes the last one, including versions at or above `p`. The trait comment says it deletes the versions below `p`.

## 2c. Runs and extra configurations

`PROJECT.json` lists twelve runs:
- nine passing runs, one per question a component answers;
- three violation runs, for the divergences with the most weight:
  - a tracker Request transmitted twice (`tracker_double_send`);
  - a Request left queued after shutdown (`tracker_shutdown`);
  - keep_last pruning that ignores its topoheight (`balances_prune_scope`).

The other divergences found while modelling keep their property and a configuration of their own ("extra cfg" below). Each of those configurations checks that one property with `tlc -config X.cfg MC_Module`, and TLC reports it violated. They are reproductions kept beside the runs. `PROJECT.json` records them in the notes of the hazards they show.

## 3. Runs of the tracker

All runs use `MC_ObjectTracker.tla` (two callers, two hashes, two peers as model
values). `ChanCap = 1` makes the full channel reachable in two steps;
`Timeout = 1` makes sent, expired, and cache-expired states all reachable;
`MaxGroups = 1` gives one group id so that group and no-group requests coexist.

| Run | cfg | Expect | Shows |
|---|---|---|---|
| tracker_safety | `MC_ObjectTracker.cfg` | pass (~605k states) | `TypeOK`, `ListenerAccounted` (every busy caller listens to exactly its one request or has been woken, never both; an idle caller listens to nothing), `UnsentPending` (an unsent queued request is in the channel, held by the requester or about to be sent by its caller) |
| tracker_liveness | `MC_ObjectTracker_live.cfg` | pass | `EveryRequestAnswered`: a waiting caller eventually returns; one peer and no groups keep it under two minutes |
| tracker_double_send | `MC_ObjectTracker_double.cfg` | violation | `SingleTransmission` |
| (extra cfg) | `MC_ObjectTracker_order.cfg` | violation | `DispatchInQueueOrder` |
| (extra cfg) | `MC_ObjectTracker_group.cfg` | violation | `GroupCancelOnlyGroup` |

Divergences (the first is a finding in `PROJECT.json`; the second and third are reproduced by the extra cfgs):
1. A stale channel entry dispatches a re-created request a second time. The
   requester only checks that *some* request for the hash is queued
   (`mod.rs:310`), so one `Request` can be sent twice and its requested time reset.
2. Push and channel send are not atomic (`mod.rs:262`/`268`), so dispatch order
   can differ from queue order. That breaks the assumption behind the
   head-only timeout sweep.
3. `mark_group_as_fail` also evicts closed-peer and expired requests of other
   groups (`mod.rs:283`). That contradicts the "only requests tagged with that
   group" statement of the spec.

Every property of a passing run has a mutant in `PROJECT.json` that breaks it.
The mutants are: a `try_send` that drops the hash when the channel is full, a
send with no capacity check, and a response that removes a request without
waking its listeners.

## 4. Proofs: `ObjectTrackerProofs.tla`

Assumptions (`TrackerAssumption`):
- `ChanCap` and `Timeout` are positive naturals and `MaxGroups` is a natural.
- The sentinels `NoGroup`, `NoPeer` and `NoHash` are distinct from real values.

Three theorems are proved for every value of the constants:
- `TypeCorrect`: `Spec => []TypeOK`. This includes the bound `Len(chan) <= ChanCap` and that a busy caller's target is a real hash.
- `ListenerAccountedInvariant`: `Spec => []ListenerAccounted`, with inductive invariant `TypeOK /\ ListenerAccounted`.
- `UnsentPendingInvariant`: `Spec => []UnsentPending`, with inductive invariant `TypeOK /\ UnsentPending`.

All three rest on lemmas about `RemoveRequests` and `CleanQueue`. These state that:
- the type is preserved;
- every caller listening to a removed request is notified;
- unsent requests outside the removed set keep their witness.

The `UnsentPending` proof needs one fact not visible in the invariant: when the
requester drops `received`, the request is either gone or already sent. This is
why the removal lemma carries that hypothesis. The proofs of each step split on
the actions of `Next`.

## 4b. Tracker shutdown and dropped callers: `ObjectTrackerShutdown.tla`

`ObjectTrackerShutdown` EXTENDS the tracker model. It adds the `server_exit` broadcast (`ServerExit`) and the three tasks leaving their `select!` loops (`CleanerExit`, `HandlerExit` with its final `queue.clear()`, `RequesterExit` dropping the receiver). It also adds a caller whose future is dropped, or whose `send` fails on the closed channel, between `queue.push` and `request_sender.send` (`CallerSendFails`).

Two switches control the model: `MayExit` and `MayAbort`. The fairness is the tracker's, plus weak fairness on each task's exit. Every task's `select!` is `biased` towards the exit branch, so a task that is still running takes that branch at its next turn.

| Run | Expect | Shows |
|---|---|---|
| tracker_shutdown (`MC_ObjectTrackerShutdown_drain.cfg`) | violation | `QueueDrainedAfterExit`: a push after the handler's clear outlives shutdown (`mod.rs:199`) |
| extra cfg `MC_ObjectTrackerShutdown_abort.cfg` | violation | `EveryRequestAnswered`: a caller dropped after its push leaves an unsent head Request, so listeners attached to it wait forever (`mod.rs:262`) |

The tracker_shutdown run is a finding in `PROJECT.json`. The spec says that on the shutdown signal "the queue is drained", and that no Request is ever leaked. `handler_loop` clears the queue once, when it leaves its loop (`mod.rs:199`). `request_object` has no exit check, so a caller can still push after that clear. Its `send` then fails on the channel the requester closed, and the `?` at `mod.rs:268` returns with the Request still queued. TLC's trace has six states: exit, cleaner exit, handler exit, a push, requester exit. The leaked Request keeps every later caller of its hash waiting, since `RequestObjectListen` attaches to it and nothing will ever remove it.

Two earlier properties of this module are gone:
- `AllTasksStop` followed directly from the weak fairness on each exit action.
- `ListenerAccounted` was preserved by the new actions by their definitions.

## 4c. Coin, fee and address helpers: `CoinUtils.tla`

`CoinUtils` models `from_coin`, `calculate_tx_fee` and `format_difficulty` as operators. One step makes one call and records the function, its arguments and its result in `call`.

The scaling choices are:
- Strings are sequences over a 9-character alphabet, up to 4 characters long.
- A u64 is scaled to `Width = 10` bits. An overflow has both of the build's outcomes: it panics in debug and wraps in release.

| Run | Expect | Shows |
|---|---|---|
| coin_utils (`MC_CoinUtils.cfg`) | pass | `FromCoinParsesAmounts`: every well-formed decimal that fits is read exactly; `KeepsAddressAndSecurity` (below) |
| extra cfg `MC_CoinUtils_wrap.cfg` | violation | `OversizedAmountRejected`: an oversized amount wraps in a release build (`utils.rs:56`) |
| extra cfg `MC_CoinUtils_fee.cfg` | violation | `TxFeeFollowsConfig`: a multisig signature is charged `FEE_PER_TRANSFER`, not `FEE_PER_MULTISIG_SIGNATURE` (`utils.rs:83`) |
| extra cfg `MC_CoinUtils_difficulty.cfg` | violation | `DifficultyShownTruncated`: 1010 is shown as 1.1K (`utils.rs:117`) |

`CoinUtils` also models `sanitize_daemon_address`, as one more call. It lower-cases the address, rewrites an http(s) scheme, and otherwise prefixes `ws://` or `wss://` according to a `SocketAddr` parse. Only then does it drop one trailing `/`.

In the model:
- Hosts are tokens: an IPv4 literal, a lower-case domain, or an upper-case domain.
- The parse succeeds exactly for an IPv4 literal with a port.
- The inputs are every combination of six schemes (including an upper-case `HTTPS://`), the three hosts, no port or one port, and zero, one or two trailing slashes.

| Run | Expect | Shows |
|---|---|---|
| coin_utils | pass | `KeepsAddressAndSecurity`: with an explicit scheme in any case, https/wss map to wss and http/ws to ws; the host is lower-cased, the port is kept, and at most one `/` is dropped |
| extra cfg `MC_CoinUtils_ip.cfg` | violation | `IpAddressGetsWs`: the comments at `utils.rs:124` and `:134` say an IP address gets `ws://`. `1.2.3.4` (no port) and `1.2.3.4:8080/` (parsed before the slash is popped) get `wss://` |

The function has no caller in `src/`, so this finding matters only to the users of the function outside these sources.

A further divergence was not made a run. The test `test_dapa_format` (`utils.rs:186-192`) expects `format_dapa(FEE_PER_KB)` to be `0.00010000` and `format_dapa(FEE_PER_TRANSFER)` to be `0.00005000`. With `FEE_PER_KB = 100` and `FEE_PER_TRANSFER = 1000` the values are `0.00000100` and `0.00001000`, so the expected strings are stale. `format_coin` is not modelled because its f64 formatting matters to no property here.

## 4d. Contract assets: `AssetManager.tla`

A contract execution is modelled by the following state:
- `contract`: the contract that runs;
- `assets`, `balances`, `outputs`: the execution's `ChainState`;
- `gas`: the gas used;
- `failed`: whether the execution has returned an error.

`BeginExecution` and `EndExecution` model what lies outside these sources: an execution commits its assets and outputs to `store`, or drops them after an error.

`AssetCreate` has one disjunct for each of the code's outcomes:
- invalid parameters are an error;
- an asset that already exists makes the call return null;
- otherwise the asset is created, its supply minted and a `NewAsset` output pushed, and only then is gas charged, which may fail.

Bounds:
- two contracts and two ids (with symmetry);
- five tickers and five names, each chosen to fail one check (too long, lower case, edge space, two-byte character);
- three ids and a gas limit of two creations. Two creations then succeed in one execution, so a second creation of the same id meets the execution's own asset. The third runs out of gas;
- one max supply. Every hash may or may not have a minted balance, so the absent supply would multiply the states by about 40, and no property reads the balances.

The run asset_create checks two properties:
- `AssetCreatedOnce`: no hash is announced twice across committed executions, and each announced asset is stored;
- `StoredAssetsWellFormed`: every stored ticker and name satisfies the VM's rules.

## 4e. Migrations and crashes: `StorageMigrations.tla`, `StorageMigrationsProofs.tla`

The model has two actions for `handle_migrations` and sled:
- `HandleMigrations(b)`: build `b` opens the database. It buffers the patch of the DAPA asset when DB_VERSION is absent or below 1.17, and then the write of its own version.
- `Flush`: sled persists the oldest buffered write.

`Crash` keeps any prefix of the buffered writes, since sled persists in order.

The run migrations_crash uses builds 1.17 to 1.20 on databases that are fresh or left by versions 1.12 to 1.16. It checks `MarkedImpliesMigrated`: a DB_VERSION on disk that passes the 1.17 check always comes with the patched asset. The mutant that writes the version before the patch breaks it, because a crash between the two writes leaves a marked database that was never migrated.

`MarkedImpliesMigratedInvariant` proves `Spec => []MarkedImpliesMigrated` for all `Binaries`, `OldVersions` below 17 and `NoVersion`. The property alone is not inductive: a state with a matching version write in `pending` and no patch before it satisfies the property but breaks it after one `Flush`. So the proof uses this inductive invariant:

`MigrationsInv == TypeOK /\ Len(pending) <= 2 /\ (pc = "down" => pending = <<>>) /\ Marked(disk) /\ PatchPrecedesMark`

In it, `PatchPrecedesMark` says that every matching version write in `pending` is preceded by a patch, or that the disk is already patched. `Len(pending) <= 2` holds because a daemon opens the database once before it crashes. That bound turns the last-write-wins closed form `ApplyFirst` into a case split that the provers handle. TLC also checked `MigrationsInv` as an invariant of the run (108 states).

## 4f. Hard fork schedule: `ChainConfig.tla`

The state of `ChainConfig` is:
- `network`: mainnet, testnet or dev;
- `height`: the chain's height;
- `difficulty`: the difficulty of the last fork reset.

The chain grows (`Grow`) or is rewound (`PopBlocks`) to any height around a table entry, and a change of version resets the difficulty with `get_difficulty_at_hard_fork`. Difficulties are counted in units of `BLOCK_TIME_MILLIS`, because mainnet's reset of 3·10^10 does not fit TLC's integers.

The run chain_schedule checks two properties:
- `ScheduleMonotone`, an action property: when the height rises, the version and the requirement never drop and the dev fee never rises.
- `DifficultyAboveMinimum`: the difficulty stays at least the network's minimum.

The version lookup by height is outside these sources. It is modelled as "the last entry at or below the height", which is how the tables are laid out.

## 4g. Proofs of the stores, the assets and the schedule

Three more proof modules. Each extends its component and `TLAPS`. TLC first checked each inductive invariant as an invariant of the component's run.

`VersionedBalancesProofs.tla` proves two theorems for any keys, key order and `MaxTopo`:
- `StoreMatchesWrittenInvariant`: `SpecRewind => []StoreMatchesWritten`.
- `RefinesBalanceHistory`: `SpecRewind => ImplementsHistory`.

`StoreMatchesWritten` is not inductive. A state whose history holds a topoheight above the tip satisfies it, and the next block, written at `top + 1`, would then link below a newer version. The inductive invariant `StoreInv` adds `DOMAIN written[k] \subseteq 1 .. top` for every key. With that bound, a key holding a version at the tip has its pointer there (`NewestIsMax`). So the scan of `delete_versioned_balances_at_topoheight` never meets an absent pointer, and every such key has its pointer moved. `RewindTopEffect` states this closed form of a rewind once. Both the invariant proof and the refinement proof use it. The refinement proof maps `ApplyBlock` to `Apply` with the same change, and `RewindTop` to `PopTip`. The stored link `versioned[k][top].prev` is the newest remaining version because `StoreInv` says each version links to the newest live version below it.

`AssetManagerProofs.tla` proves `AssetCreatedOnceInvariant`: `Spec => []AssetCreatedOnce` for any contracts, ids, strings, gas limit and cost. The committed outputs alone are not inductive, because a commit appends the running execution's outputs. The inductive invariant `AssetInv` says the following of the running execution:
- its outputs are distinct;
- its outputs are hashes of its own assets;
- none of its assets is in the provider.

The lookup in `asset_create` keeps this invariant. The commit appends outputs that are disjoint from the committed ones (`ConcatDistinct`).

The same module proves `StoredAssetsWellFormedInvariant`: `Spec => []StoredAssetsWellFormed` for any ticker and name strings over the alphabet `Chars`, and any limits `TICKER_LEN` and `NameMaxLen`. The property speaks only of the provider. A commit copies the execution's assets into it, so the inductive invariant `MetadataInv` also requires every asset of the running execution to be well formed (`WellFormedAt`). The argument has three parts:
- `asset_create` inserts an asset only after its checks pass (`ValidParamsWellFormed`).
- `IsValidCharForAsset` limits a ticker to `{"A", "0"}` and a name to `{"A", "a", "0", " "}` (`SeqNarrow`).
- The character count is at most the byte count that the checks bound (`LenAtMostByteLen`). This holds because `ByteLen` adds a natural number, the count of two-byte characters (`CountIsNat`, from `FS_Interval`, `FS_Subset` and `FS_CardinalityType`).

`ChainConfigProofs.tla` proves two theorems for any set of networks and any `LowHeights`:
- `DifficultyAboveMinimumInvariant`: `Spec => []DifficultyAboveMinimum`.
- `ScheduleMonotoneHolds`: `Spec => ScheduleMonotone`, the action property.

`EntryAtIs` proves that the lookup "last entry at or below the height" finds the entry that is at or below the height with no later entry at or below it. From it, each table gets a closed form by height range (`MainnetForkAt`, `TestnetForkAt`, `DevFeeAtIs`, `ScheduleAt`). Monotonicity then follows by arithmetic.

To make these modules provable, models use plain function constructors instead of TLC's `:>` and `@@`, which the provers cannot expand: `InsertAt` in `VersionedBalances`, and `Put` and `Overlay` in `AssetManager`. `ByteLen` is written as the character count plus the count of `Wide` characters, instead of a recursion over the string. This is the UTF-8 length over `Chars`, where only `Wide` takes two bytes. The character `Wide` has a name of its own so that the provers' backends never see the non-ASCII literal. All runs were checked again after this change.

## 5. What only TLC checks, and what is not modelled

Only TLC checks the following:
- Liveness (`EveryRequestAnswered`), because TLAPS does not handle fairness or ENABLED.
- The violation runs.
- What the recursive `SweepLoop` and `KeepLastWalk` compute for all inputs, which would need induction over a recursive definition.
- The pure helpers of `CoinUtils`, which are checked only on their bounded input sets.
- The properties that depend on what a recursive function computes for every input. TLAPS cannot instantiate the library's induction theorems, which take an operator parameter, so these are checked only on TLC's bounded instances:
  - `OutputChainKept`, through the keep_last walk `KeepLastWalk`;
  - `LookupFindsNewest`, through the chain walk of `get_multisig_at_maximum_topoheight_for`;
  - `FromCoinParsesAmounts` and `KeepsAddressAndSecurity`, which are pure helpers over bounded inputs.

The following are not modelled:
- Lock waiting: each critical section is one atomic step.
- Response payloads.
- `format_coin` / `format_hashrate`, which are f64 formatting.
- The generic versioned-tree helpers, which are not in `src/`.
- The components listed as not modelled above, with their reasons in `PROJECT.json`.

## 6. Plan

1. An abstract `ObjectFetch` spec (a fetch is pending, then answered, failed or timed out) and a refinement mapping from `ObjectTracker` via `INSTANCE ... WITH`, checked as a PROPERTY and proved step by step.
2. An abstract multisig store refined by `MultisigStore`, with the lookup stated as a non-recursive "newest reachable version".
3. A composition of `StorageMigrations` with the asset store that `AssetManager` reads.
