# A TLA+ verification project for the Programming Lightning node

The repository (`src/`) builds a Lightning node on LDK and BDK: `src/src/main.rs`
assembles LDK's objects, `cli.rs` is its command loop, and the other files are the
parts LDK asks its user to supply: storage, chain access, wallet, logging, events.
LDK itself, BDK, Bitcoin Core and the operating system are outside the repository;
where a module needs them they are modelled from how the code uses them and marked
external in `PROJECT.json`.

## 1. Inventory

The process is one tokio runtime, built with `panic = "abort"` in both profiles, so
every `unwrap` on an error and every failed assertion is a crash of the whole node.
Its concurrent parts are the command loop (a blocking thread), the background
processor (which calls the event handler and persists the channel manager), the chain
poller, the peer listener and its connections, the reconnect and announcement tasks,
the fee poller, the wallet sync task and the migration task.

| Component | State | Operations | Talks to |
|---|---|---|---|
| `FilesystemStore` (filesystem_store.rs) | lock table, temporary-file counter, gc counter; the files | read, write, remove, list, garbage_collect_locks | everyone that persists; **two** values on one directory |
| Outbound payments (main.rs, cli.rs, disk.rs) | map behind a Mutex, its file | sendpayment (invoice, offer), keysend, PaymentSent, PaymentFailed, start-up reconcile | LDK, FilesystemStore |
| Inbound payments (main.rs, cli.rs, disk.rs) | map behind a Mutex, its file | getinvoice, PendingHTLCsForwardable, PaymentClaimable, PaymentClaimed, start-up read | LDK, FilesystemStore |
| Fee estimator (bitcoind_client.rs, convert.rs) | eight atomic fee rates | poll, get_est_sat_per_1000_weight | bitcoind, LDK |
| Broadcaster, block source (bitcoind_client.rs, convert.rs) | the tasks that submit transactions | broadcast_transactions, get_header, get_block, get_best_block | bitcoind, LDK |
| On-chain wallet (onchain_wallet.rs) | BDK wallet and its file | full_scan, sync, get_address, create_funding_transaction, CoinSource | bitcoind, LDK |
| Start-up and chain sync (main.rs) | persisted manager, monitors, sweeper; best blocks | steps 1 to 18 of start_ldk, the chain poller | bitcoind, LDK, FilesystemStore |
| Peers (main.rs, cli.rs, disk.rs) | connections, the peer file | listen, connect, reconnect, disconnect, openchannel | LDK, network |
| Shutdown (main.rs) | stop flag, background exit channel | the select at the end of start_ldk | all tasks |
| Spendable-output migration (sweep.rs) | three directories of descriptors | the migration task spawned at start-up | FilesystemStore, sweeper |
| Command loop (cli.rs) | the input line | parsing and dispatch | all of the above |
| Arguments (args.rs) | none | parse_startup_args, four sources of credentials | start_ldk |
| Logger (logger.rs), seed (main.rs), hex conversion (hex_utils.rs) | log file, seed file | log, seed creation, to_vec, hex_str | |

What is hard here: two store values without a common lock on one directory; crashes
between the steps of a protocol that spans the node's files and LDK's; events that LDK
replays; read-modify-write of shared maps; tasks that look at a stop flag before an
`await` and act after it; listeners persisted at different blocks; timers that poll
external services and `unwrap` their answers. `PROJECT.json` lists each of these hazards
at its line.

What makes each component correct:

* **FilesystemStore**: it is an atomic map (readers never see half a value, a write or a
  synced removal that returned Ok survives a power loss), its per-path locks exclude writers although the lock
  table is garbage-collected, and every call returns.
* **Outbound payments**: a payment LDK has is on record before it is sent; the record
  never says Failed of a payment that may still be or was made; a success is never undone;
  nothing stays Pending.
* **Inbound payments**: an invoice that was answered is on record; "received" means
  claimed; every payment that arrives is failed back or eventually recorded, for good.
* **Start-up and chain sync**: no listener skips a block or gets one twice, a node that
  read its manager watches every channel, the node recovers from a death at any point.
* **On-chain wallet and broadcaster**: it finds the payments to its addresses, does not
  choose a coin it was told is spent, gives out no address again that it has persisted, and
  what must confirm gets to bitcoind.
* **Arguments**: the settings are what the usage line and the printed help say of the
  command line.
* **Peers and shutdown**: peers are reconnected, quit always ends the process, a clean
  exit has everything on disk, nothing connects after the disconnect that was not begun.
* **Migration**: no descriptor is lost, each reaches the sweeper.
* **Fee estimator**: rates never drop below the relay floor nor wrap, and follow bitcoind.

## 2. Modules

| Module | Models | Composes / used by |
|---|---|---|
| `PosixFs` | the file system: what is visible (`vol`, `data`) and what survives a power loss (`dur`, `ddata`, `dirs`); external | `FilesystemStore` INSTANCEs it |
| `KVStore` | abstract specification: an atomic map with calls, failures, restarts and power loss | the target of `ImplementsKVStore` |
| `FilesystemStore` | filesystem_store.rs, one action per system call or lock operation | INSTANCEs `KVStore` with a refinement mapping |
| `OutboundPayments` | outbound payments in cli.rs, main.rs, disk.rs | |
| `InboundPayments` | inbound payments in cli.rs, main.rs, disk.rs | |
| `ChainSync` | start_ldk, steps 4 to 14 and 18 | |
| `OnChainWallet` | onchain_wallet.rs, the event arms that use it, and the broadcaster of bitcoind_client.rs | |
| `Shutdown` | listener, reconnect task, peer file, peer and channel commands, end of start_ldk | |
| `Migration` | sweep.rs | |
| `FeeEstimator` | fee polling in bitcoind_client.rs and convert.rs | |
| `Args` | args.rs, and the usage line and help as its reference | |
| `Startup` | the first steps of start_ldk | composes `Args` and `FeeEstimator` (EXTENDS both) |
| `...Proofs` | theorems about the module of the same name (section 4): `FilesystemStore`, `OutboundPayments`, `InboundPayments`, `ChainSync`, `OnChainWallet`, `Shutdown`, `Migration`, and `Startup` for `Args` and `FeeEstimator` too | EXTENDS that module |
| `MC...` | the module of the same name as TLC runs it (`MCFeeEstimator`: `Startup`) | |

Definitions whose comment begins with "Mutant:" are the code with a plausible bug; no
specification uses them. They show that each property notices the bug (`mutants` in
`PROJECT.json`).

**FilesystemStore.** Each thread has a program counter `pc` over the steps of `read`,
`write`, `remove` and `list`. `locks` is the `HashMap` of `Arc<RwLock>`s, `ref` the clone of
the `Arc` a thread holds and `guard` its read or write guard, so that
`garbage_collect_locks` (`GcTick`, `GcSweep`) can drop an entry exactly when the strong
count is 1. `tmpCounter` is `tmp_file_counter`. `write` is `MakeParent`, `CreateTmp`,
`FillTmp`, `SyncTmp`, `GetLock`, `Acquire`, `RenameTmp`, `SyncParent`, and the collection;
`IoError` lets any system call fail and takes the early return; the stats behind `is_file()`
and `exists()` fail silently, so `IsFile` and `ReadDir` may then see nothing where there is
a file or a directory; `Refuse` is
`check_namespace_key_validity`, which looks at nothing but the names (in a build with debug
assertions it aborts, which `ProcessCrash` covers). `ProcessCrash`, `PowerLoss`
and `KernelWriteback` happen at any moment. `survive[k]` is the set of values the abstract
store allows after a power loss; a `remove` that finds no file leaves it alone
(`KVStore!RemoveMissing`), and one whose stat failed removes nothing (`RemoveUnchecked`). `KV == INSTANCE KVStore WITH store <- ...` maps the store
to what the key's file shows at the moment; the linearisation points are the rename, the
unlink, the completed read and the scan of the directory.

**OutboundPayments.** `mem` is the map behind its Mutex, `disk` the file, `ldk` and `events`
the ChannelManager, `saved` its persisted copy, `net` what became of the payment. The
command loop is a small program (`SendPayment` or `Keysend`, `RecordAttempt`, `SendOk` or
`SendErr`, `RecordErr`; for offers `OfferPrompt` or `OfferInsert`, `OfferEncode`,
`OfferWrite`, `OfferPay`), the event handler another (`HandleEvent`, `HandlerWrite`), and
start-up a third (`Load`, `Reconcile`, `WriteReconciled`). `Quit` and `Stop` are the
graceful end, with the manager's last write; after a crash LDK restarts from the persisted
manager and regenerates what the monitors know. `refused` holds the offers for which
`pay_for_offer` failed.

**InboundPayments.** The same for `getinvoice`, `PaymentClaimable` and `PaymentClaimed`.
An HTLC first has to be processed: `PendingHTLCsForwardable` spawns a task (`waking`) that
sleeps and then calls `process_pending_htlc_forwards` (`ProcessForwards`).

**ChainSync.** A block is the sequence of choices that leads to it, so parenthood is
`Front` and reorganisations are ordinary values. `disk` and `best` give every listener
(manager, sweeper, each monitor) its persisted and its current block. `ReadSeed` to `Watch`
follow start_ldk; a seed or a manager that cannot be read for whatever reason counts as
missing, as in the code, and a manager of a seed that was replaced (`foreign`) is refused by
LDK. A channel's monitor is on disk at once, the manager when the background processor
writes it. `BlockToMonitors`, `BlockToManager`, `BlockToSweeper` are the poller's
listener tuple in its order; `Refuse` is LDK's assertion that blocks come in order. A quit
is `PersistManager` followed by `Crash`.

**OnChainWallet.** `wallet` and `db` are BDK's wallet in memory and in its database: the
last revealed address, the coins found, the coins known to be spent. `paid` and `pool` are
the chain's side, `handed` counts how often each address was given out. A bump is three
critical sections, `BumpList`, `BumpChange` and `BumpSign`, with `bump` for what is under
way; the event handler does one at a time and funds nothing meanwhile, while syncs and
commands go on. What an event built is a package: a funding transaction, or a commitment
transaction and the child that pays for it. `BroadcastTransactions` makes one task for each
of its transactions (`sending`), `Send` and `SendFails` are those tasks. `LowFee` names the
events whose commitment transaction alone is below the minimum of bitcoind's mempool.

**Shutdown.** `main` is start_ldk's last part, `bp` the background processor, `recon` and
`setups` the tasks that bring up connections, `cli` the command loop. `begun` and `late`
record which attempts had passed their look at the stop flag and which connections came up
after `disconnect_all_peers`. `forwarding` counts the sleeping tasks of
`PendingHTLCsForwardable`, and `asleep` says whether one slept during the last write. `file` is the last address the peer file has for each node,
`torn` whether one of its lines is incomplete; `PersistChannelPeer` appends what
`openchannel` was given, `ReconTick` reads it.

**Migration.** `pc` walks through migrate_deprecated_spendable_outputs; `pending`,
`processing` and `spendable` are the directories' contents, `tracked` what the sweeper has.

**FeeEstimator.** Five RPCs, then eight stores, one atomic at a time, with bitcoind's answers
(`quote`) changing in between; `SatPerKw` is the conversion with its rounding and
saturation.

**Args, Startup.** `Parse` is parse_startup_args: the checks in the order of the code, an
index that depends on whether the third argument is a port, and the first source of
credentials that has any. Words are reduced to what the code asks of them (is it a port, a
network, too long for a name, an address). `Usage` is the reference: every way the usage line
lets the arguments be read. `HelpSources` are the places of credentials that the printed help
names; `SourcesWithNetworkCookie` the same with the cookie where the code looks for it.
`Startup` parses a command line, makes the client, whose poller
starts at once, and compares the networks while the poller runs.

## 3. Runs

| Run | Distinct states | Shows |
|---|---|---|
| `fs_power` | 1.74 M | one store, two threads, all four operations, invalid names, collection every 2nd call, write-back, crash or power loss anywhere: exclusion, unique temporary files, `list` fails only on a removal, durability, refinement of `KVStore` |
| `fs_errors` | 293 k | any system call fails, the silent stats too: still a refinement, and every call returns |
| `fs_two_stores` | violation | two store values on one directory, as main.rs has: a key's file is seen empty |
| `out_once` | 137 k | two invoices and a keysend paid once, an offer stuck at its prompt, crash or quit, replay: the record is right and final, nothing stays Pending |
| `out_all` | 516 k | repeated payments, an offer that may be refused, a zero-amount invoice: everything LDK has is on record, and something stands behind every Pending entry but for two named cases |
| `out_resend` | violation | paying an invoice twice marks the payment in flight as failed |
| `in_crash` | 283 k | two invoices and a spontaneous payment, a crash also of the task that processes them, replay |
| `sync_crash` | 1.16 M | reorganisations, two crashes from the first start on, failing reads of seed and manager, a monitor on disk before the manager |
| `wallet_crash` | 468 k | addresses, payments, transactions and packages with failing scans, syncs, persists and submissions, a commitment transaction with a low fee, a crash |
| `sd_stop` | 268 k | all tasks, a forwarding task that sleeps, the peer file and the commands against the end of start_ldk, background processor may fail |
| `mig_crash` | 126 k | three descriptors, two crashes, full disk |
| `fee_poll` | 198 k | command lines of up to six arguments, then quotes at the floor, at rounding boundaries, beyond the word, missing |

**Bounds.** `fs_power` has one key: threads on different keys share only the lock table's
Mutex, the counters and the directory, and its properties are proved for any number of keys
and threads.
Two threads, two writes and a `GC_LOCK_INTERVAL` of 2 let a collection fall between any two
steps of the other thread; the code's interval of 25 only makes that rarer. `MaxWrites`
bounds the temporary files, `Inodes` and `LockIds` are as many as can be in use at once.
Payments: three are enough for one in each state while a third changes it; one crash can fall
between any two writes, and start-up is idempotent (`out_resend` and the mutants need no
more). `sync_crash`: height 3 has reorganisations one and two deep; two crashes allow one
during the recovery from the other. `wallet_crash`: with `STOP_GAP` 2 and three addresses, one
can lie beyond the gap (the code's values are 5 and unbounded); two packages, of which the
second may spend the first one's coin and has a commitment transaction with a low fee, and
one crash, which can fall between any two steps of a bump, a sync or a submission; what is
proved of the wallet is proved for any number.
`sd_stop`: a channel peer that has moved away from its address in the file, a stranger that
can call, be called and get a channel, one change of channel data, made or due from a
forwarding task (`Room` counts both); a good address comes into
the file by `openchannel`. `fee_poll`: `Word` stands for 2^32, with quotes on both sides of
it; as many arguments as the usage line names, so that an omitted port leaves room for two
addresses, each of the classes the parser tells apart, and credentials in each source alone,
in two at once, and malformed. Constants named `Max...` are bounds in guards, nothing else.

`CHECK_DEADLOCK FALSE` appears where the system may stop: the outbound model, whose
payments run out.

**Fairness.** It is stated per module and never on users, payers or failures.
*FilesystemStore*: strong fairness per thread, since std's RwLock does not let readers
overtake a waiting writer for ever. *Outbound, Inbound*: the command thread and the handler
are scheduled, the Mutex reaches the handler (strong), HTLCs time out at the latest on
chain, the operator restarts the node. *ChainSync, Migration, OnChainWallet*: the runtime
polls its tasks, the operator restarts, a sync does not fail for ever; LDK hands over a
package again until it is confirmed, and bitcoind is not out of reach each time it would
accept one of its transactions (strong). *Startup*: start_ldk and the poller are scheduled
and RPCs end. *Shutdown*: tasks are scheduled, a dial ends, a peer at its address does not
fail every dial (strong), a peer file without half a line can be read, and the sleeper's
`select` does not ignore a ready branch for ever (strong).

## 4. Proofs

Checked by TLAPS for all values of the constants, from the `ASSUME`s of the modules, which
TLC evaluates on every run. Every safety property of the passing runs is a theorem, and so
is the refinement of `KVStore`. Each proof has the same shape: an inductive invariant, made of
named parts; lemmas that every step keeps them, with one step per action; and a last step in
temporal logic.

**FilesystemStoreProofs**, from `StoreAssumption`, `RequestAssumption` and
`ResultAssumption` (what a file may hold is told apart from "ok", "err" and no result).

* `TypeCorrect` (TypeOK) and `WritersExcludeAll` (MutualExclusion), for any number of stores.
  MutualExclusion alone is not inductive: that two threads on one path hold the *same* lock
  depends on the lock table. `CallInv` says what a thread holds at each step, `LockInv` that a
  thread with a reference has the lock the table has for its path, so a collection cannot have
  replaced it, `RwInv` that a write guard on a lock is alone. `GcSweep` is the interesting
  action: it removes an entry only if no thread refers to it.
* `TmpFilesUnique` (UniqueTmpFiles). `NumberInv`: a number that a thread has was handed out by
  its store, to it alone.
* `ListFailsOnlyIfRemoved` (ListFailsOnlyOnRemove), under the hypothesis `~IoErrors`, which is
  what the property is about. `ListInv`: an entry still to be visited exists, is a temporary
  file's, or was removed; a rename never leaves a key without a file.
* `FilesComplete` (CompleteFiles), `SyncedSurvives` (PowerLossKeepsSynced) and
  `StoreImplementsKV` (ImplementsKVStore). `DiskInv` says how the cached and the durable
  entries share files: no two paths the same one, a file that is temporary in the cache is no
  key's on the medium, a key's file is complete and synced. `FileInv` follows a writer's
  temporary file from empty to synced, and says that a reader has open what the key names,
  which needs MutualExclusion. `DurableInv` says that a key's value and the one on the medium
  are among those the calls have made possible. For the refinement `KVStep` maps each action:
  the rename is `Write`, the sync of the directory `Commit`, the unlink `Remove`, a remove that
  sees no file `RemoveMissing` or, after a stat that failed, `RemoveUnchecked`, the end of a
  reading or a missing file `Read`, errors are `Fail`, and the others stutter. What these two
  theorems do not say of `remove` is in section 5.

  Two hypotheses are needed. `OneStore`: there is one store on the directory. With two, as
  main.rs has, `fs_two_stores` shows a file seen empty; the theorems say that the second store
  is all that is wrong. `DirsPresent`: the directories exist before the first write, because
  the store does not sync the entry of a directory it makes (section 5). Both hold in
  `fs_power` and `fs_errors`.

**OutboundPaymentsProofs**, from `PaymentAssumption` (the ids are finitely many, as those in a
map are). `StoredBeforeSent` (RecordedBeforeSent) rests on `Recorded`, which follows an id from
the map through both ways to the file; `NothingForgotten` (PendingIsLive) on `Backed`, what
each Pending entry is owed to. `FailureIsTrue` (FailedMeansUnpaid) and `SuccessIsFinal`
(SuccessStays) are for `PaidOnce`: no invoice is paid twice and no offer gets to its payment.
Both halves are needed: `out_resend` refutes the first property with a second payment, and the
stale copy an offer writes refutes the second (section 5). Their part of the invariant is
`Once`: HTLC, LDK's state, queued events, map and file agree. Lemmas about the queue of events
(what `Append`, `Tail` and the replay after a restart leave in it) carry all of them. Also
`TypeCorrect`.

**InboundPaymentsProofs**, from `InboundAssumption`: `InvoicesKept` (AnsweredInvoicesKept) by
`Answered`, the map covers the file; `ReceivedMeansClaimed` (SucceededMeansClaimed) and
`ReceiptIsFinal` (ReceivedStays) by `Honest`: every queued `PaymentClaimed`, also in the
persisted manager, is true, and nothing arrives for an invoice before it was printed.

**ChainSyncProofs**, from `SyncAssumption`: `BlocksInOrder` (NoBlockSkipped) and `AllWatched`
(EveryChannelWatched), for reorganisations of any depth and any failed reads, with
`TypeCorrect`. `Followed` says what start-up has done at each of its steps: the monitors on
disk are read whatever becomes of the manager, and a node that read its manager hands them
all over, those of runs that had none included. `AtPoller` says which listeners are ahead
while a block is handed round.

**ShutdownProofs**, from `ShutdownAssumption`: `FlagIsHeeded` (OnlyCheckedConnectLate) by
`Checked`, an attempt under way after the flag is set was under way then; `CleanExitSaves`
(SavedAtExit) by `Quiet`, why nothing changes the data after the last write but a late
connection or a forwarding task that slept then: only a working background processor spawns
such tasks; `TypeCorrect`, where the counters have a lemma of their own (`StepNumbers`).

**OnChainWalletProofs**, from `WalletAssumption`: `AddressesStayFresh` (PersistedNotReissued)
and `SpentStaysSpent` (ReportedNotReused), by `Kept`: the spends reported are in the database,
and a running wallet is behind its database neither in spends nor in revealed addresses. That
an update never takes the last revealed address back needs that `Max` of a bounded set is its
greatest element (`MaxOfBounded`, by well-foundedness). Also `TypeCorrect`.

**StartupProofs**, from `FeeAssumption` and `ArgsAssumption`: `RatesAboveFloor` (FloorKept) and
`PeersCanMeetMinimum` (RemoteMinimumBelowOwn), by the ranges of the conversion for every answer
(`EstimateRange`, `RateRange`) and by what each store of a round leaves behind (`Below`);
`UsageIsFollowed` (ArgumentsAsDocumented), by giving for each command line the parser accepts
the reading of the usage line it has taken (`ParseAsDocumented`), for command lines of any
length, with credentials from a place the help names but for the directory of the cookie; `TypeCorrect`. `ArgsAssumption` states two facts of strings that the classes of words
have to respect: the empty name is not too long, and "9735", if it is typed, is a port.

**MigrationProofs**, from `MigrationAssumption`: `NoDescriptorLost` (NothingLost) by `Progress`,
which says at each step which directories are already covered by the next one (by the local
variable, by the temporary file, by the sweeper); `FailedRemovalLosesNothing`
(RemovalFailsOnlyWhenTracked) by `Emptied`, what a missing directory says of the others.

**Only model-checked**: the liveness properties, since the prover has no rules for fairness and
ENABLED: `EveryCallReturns`, `SettledIsRecorded`, `PendingResolves`, `ReceivedIsRecorded`,
`CatchesUp`, `PaymentsFound`, `PackagesArrive`, `QuitEndsProcess`, `PeersReconnect`,
`EventuallyTracked`, `FeesFollow`. `UniqueTmpFiles` and what builds on it are not proved for
several stores on *different* directories: the model has one file system that all share.

## 5. Findings

Two disagreements between the code and what the repository says of it have a run of their
own (`findings` in `PROJECT.json`): `fs_two_stores` and `out_resend`.

Others were met while modelling. Each can be seen with the change given:

* **The migration cannot finish after a crash between its last two removals** (sweep.rs:95).
  Only the pending directory is left, the unwrap of the removal of the other fails at every
  start. Add `RemovalsSucceed` to the invariants of `mig_crash.cfg`. The run shows that no
  descriptor is waiting by then (`RemovalFailsOnlyWhenTracked`).
* **A torn file of the migration is not recognised** (sweep.rs:76; the comment at 44-45 has a
  crash in mind); parsing fails at every start. It is the exception in `EventuallyTracked`.
* **The sweeper is not synced on what looks like a fresh node** (main.rs:785, 872-873; the
  heading of step 13 says "Sync ChannelMonitors, ChannelManager and OutputSweeper to chain
  tip"). The sweeper writes itself with every block, the manager later; a crash in between
  leaves a sweeper without a manager. The next block that arrives fails the sweeper's
  assertion and aborts the node. Add `SweeperSynced` to `sync_crash.cfg`. A start that finds a
  manager syncs the sweeper, which `NoBlockSkipped` shows.
* **A failed background processor does not end the process** (main.rs:1189; the comment at 1174
  says it does): `Ok(Err(e))` does not match `Err(e)`, the last-ditch write is skipped and
  start_ldk returns, but the runtime waits for the command thread. Add `ExitsWithBackground`
  to the properties of `sd_stop.cfg`.
* **A node without its manager leaves its channels unwatched** (main.rs:760, 842-877). The
  monitor of a new channel is on disk before the manager that knows of it, and any error of
  `File::open` is taken for "a fresh node"; then the monitors that were read are handed to
  nobody. Add `EveryMonitorWatched` to the invariants of `sync_crash.cfg`. A later start that
  reads a manager watches them again, which `EveryChannelWatched` shows.
* **A seed that cannot be read is replaced** (main.rs:633-641): any error of `fs::read` leads to
  `File::create`, which truncates the file. Add `SeedKept` to the properties of
  `sync_crash.cfg`. The manager of the old seed is then refused at every start, and a death
  before the new one is written leaves a file that fails the assertion; both are exceptions in
  `CatchesUp`.
* **HTLCs forwarded during shutdown are not saved** (main.rs:487-491): the task of
  `PendingHTLCsForwardable` sleeps, does not look at the stop flag, and may wake between the
  background processor's last write and the end of the runtime. Add `ForwardsSaved` to the
  invariants of `sd_stop.cfg`.
* **A removal that returned Ok may be undone** (filesystem_store.rs:150-152, against the comment
  at 182-184). A `remove` that finds no file returns at once, also when the unlink of a lazy
  `remove`, or of one that has not come to its fsync, is not on the medium yet. Add
  `RemovedStaysRemoved` to the invariants of `fs_power.cfg`.
* **A removal that returned Ok may not have happened** (filesystem_store.rs:150), and a list may
  be empty (201): `is_file()` and `exists()` answer false when the stat fails. In `KVStore` it is
  `RemoveUnchecked`; without that action `fs_errors` fails.
* **A package whose commitment transaction pays too little never arrives**
  (bitcoind_client.rs:165-178): the transactions are submitted one by one, and bitcoind refuses
  the commitment transaction by itself whatever its child pays
  (.tutorial/1.09-on-chain-wallet.md:30 gives the child's fee as its purpose). Add
  `AllPackagesArrive` to the properties of `wallet_crash.cfg`.
* **A bump may spend a coin that a sync has just reported as spent** (onchain_wallet.rs:280, 318,
  326): the Mutex is taken once for the list of coins and again for the signature. Add
  `ReportedNotSigned` to the properties of `wallet_crash.cfg`.
* **Two transactions may spend one coin** (onchain_wallet.rs:223): nothing reserves a coin until a
  sync reports its spending, as the comment on `DiscardFunding` in main.rs concedes.
* **An address can be handed out twice** (onchain_wallet.rs:257; the comment at 251-253 says
  fresh), if the node dies before the next sync; a payment to it is not looked for until
  then, and it may even have been paid to, if the sync that found the coin was not persisted.
  Add `FreshAddresses` to the invariants of `wallet_crash.cfg`. Persisted addresses are not
  given out again (`PersistedNotReissued`).
* **The cookie is not where the help says** (args.rs:177-178: the default data directory; the code
  reads the network's subdirectory only, 209-216). Add `CookieAsDocumented` to the invariants
  of `fee_poll.cfg`.
* **The directory entry of a new namespace is not synced** (filesystem_store.rs:107). With
  `PresentDirs = {}` in `fs_power.cfg`, `PowerLossKeepsSynced` fails.
* **The offer path writes a stale copy of the payment map** (cli.rs:219). With
  `Unpriced = {}` in `out_once.cfg`, `SuccessStays` fails; if `pay_for_offer` fails, the
  entry stays Pending until the next start (cli.rs:226; the exception `refused` in
  `PendingIsLive`). The stale copy can also leave a payment that was made Pending, if the node
  dies before the next write; this came to light when the proof of `PendingIsLive` did not go
  through.
* **The confirmation of an offer payment never ends** (cli.rs:187-207): the answer is appended
  to the line of the command, whose beginning is then compared with Y and N, and which is
  never empty, so that neither an answer nor what the comment at 197 calls "We hit EOF /
  Ctrl-D" leaves the loop. The command loop is lost; payments already made are still recorded.
* **An invoice paid and about to be paid again when the node dies stays Pending** although it
  was paid (main.rs:997): start-up finds its id among LDK's recent payments. It is, with the
  stale copy, the last exception in `PendingIsLive`.
* **An invoice without an amount aborts the node** after the payment was sent (cli.rs:809).
* **Commands and `ConnectionNeeded` connect after `disconnect_all_peers`** (main.rs:1186, and
  the comment at 1184-1185); the listener and the reconnect task may finish one attempt
  each. `OnlyCheckedConnectLate` is the part that holds.
* **One line of the peer file that does not resolve**, or half a line, keeps the reconnect
  task from all peers (disk.rs:41). It is the exception `torn` in `PeersReconnect`.
* **A mistyped address replaces a good one** (cli.rs:138): `openchannel` to a node that is
  connected does not look at the address and writes it down all the same. Add
  `GoodAddressKept` to the properties of `sd_stop.cfg`.
* **A node name needs a network in front of it** (args.rs:85; the usage line at 51 has
  "[bitcoin-network] [announced-node-name announced-listen-addr*]"): without one the name is
  taken for a network and the parser panics. Add `NameNeedsNoNetwork` to the invariants of
  `fee_poll.cfg`.
* Seen while reading, without a property: the argument of `.or` is evaluated in any case, so the error and the help
  are printed even if credentials were found (args.rs:99-103); the wallet's database is
  `.ldk/on_chain_wallet.sqlite3` in the working directory, whatever the storage directory
  (main.rs:655); an unknown flag of `openchannel` is passed over (cli.rs:121-124).

## 6. Not modelled

* LDK, BDK, bitcoind, Esplora, tokio: external, as far as the code's use of them goes.
* Commands that only print (`help`, `nodeinfo`, the `list...` commands, `getbalance`,
  `getoffer`, `signmessage`) and the parsing of a command's words: no state that a property
  relates. Events that are only printed.
* hex_utils.rs: pure functions, used on keys and ids that the models take as values. The
  logger: nobody reads what it writes.
* Node announcements (main.rs:1116-1140): a timer that hands gossip to PeerManager. Network
  graph, scorer and router: read at start-up or made anew, LDK's otherwise.
* Key derivation. Only the life of the seed file matters here.
* What makes a namespace or a key valid, as opposed to what happens when it is not.
* The tutorial's exercises, solutions, mocks and tests, `src/src/internal` included: not part
  of the running node.

## 7. Plan

1. Compose `FilesystemStore`'s abstract `KVStore` with the payment modules, so that the
   two-store race and the offer path meet in one run, now that the refinement is proved.
2. State as safety properties, and prove, the parts of the liveness arguments that do not
   need fairness: that the invariants leave no thread waiting for a lock nobody holds, and
   that every round of start-up comes closer to the poller.
