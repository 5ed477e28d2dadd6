# A TLA+ model of utxo-tracing

The repository tracks the unspent outputs (UTXOs) of a set of watched Bitcoin
addresses. Validators sign transactions from its answers, so an output that is
reported spendable and is not, or the reverse, is the failure that matters. This
directory models how those answers come about: the indexer that follows a
Bitcoin node, the socket between the indexer and the storage service, and the
tables of the storage service, under reorganisations, lost messages, failed
statements and restarts, with either of the two datasources. Two further models
take up its ends: how the indexer finds the creations and spends in a block, with
the retries of its RPC clients and the lock it shares with its API; and how the API
chooses outputs and prepares and signs transactions with them.

Run a model with `tlc -workers 2 -config Follower.cfg MCFollower.tla`, check the
proofs of a module with `tlapm FollowerProofs.tla`, and likewise for `SequenceLemmas` and
the other six modules whose names end in `Proofs`.

## 1. The system

| Component | State | Operations | Talks to |
|---|---|---|---|
| Indexer loop (`indexer.rs`, `BitcoinIndexer`) | `last_processed_height`, in memory only | every poll interval: look for a reorganisation among the last 6 heights, otherwise fetch, scan and send a batch of blocks, then announce finality | node (RPC), storage service (socket) |
| Block scanning (`process_transactions`) | watch set (shared with the API), LRU cache of transactions | filter a block down to creations and spends of watched outputs | node (RPC) |
| RPC clients | none; a request under way has an attempt count | external service: batches, each tried three times; Bitcoin Core: one call per item, all at once | node |
| Watch set lock | tokio `RwLock`, first come first served | copied by a scan, held for reading by a sign request over its HTTP calls, for writing by `watch` and `derive` | scan and API |
| Socket transport (`network-shared`) | none, one connection per message | `BlockUpdate` (waits for `BlockProcessedAck`), `GetBlockHash` (waits), `ReorgEvent` and `UpdateFinalityStatus` (fire and forget) | storage service |
| Socket server (`socket.rs`, `database.rs`) | none of its own | one task per connection, all on one thread; a handler does not await between its statements | datasource |
| Datasource (`sqlite.rs`, alternatively `csv.rs`) | tables `blocks` and `utxo`; for CSV, maps in memory that are never saved | store a block, upsert UTXOs, mark final, mark off the main chain, revert UTXOs, query | - |
| Storage HTTP API (`http.rs`) | none | latest block, UTXOs of a block, spendable UTXOs at a height, coin selection, signed transactions; its workers run on other threads | datasource, signed log |
| Signed transaction log (`signed_db.rs`) | table of signed transactions | store, look up, page through | - |
| Indexer HTTP API (`api.rs`) | watch set, cache of prepared transactions (persisted as a file) | watch, derive, select over all addresses, prepare (idempotent), sign and store | storage HTTP API, signing service |

### Where it is hard

* There is no transaction around a message: `store_block` and
  `process_block_utxos` commit separately, as do the two halves of
  `revert_to_height`, and HTTP workers read in between.
* The indexer's only evidence of what is stored is the hash of a block. Nothing
  tells it whether the UTXOs stored for that hash are right.
* `last_processed_height` moves at the end of a batch and is forgotten on a
  restart, so blocks are sent again, on top of tables that already hold them or
  hold their competitors.
* Errors are dropped: a failed `process_block` is acknowledged, a failed
  `check_for_reorg` counts as no reorganisation, and `ReorgEvent` and
  `UpdateFinalityStatus` are never acknowledged.
* A sign request keeps the watch set locked while it waits for another service; a
  writer behind it, and the scan behind the writer, wait as well.
* An answer of the node that lacks an item is not an error: the block is reported
  without it.
* Over CSV, a reader sees outputs both in `blocks` and in `utxos`; each is changed for
  itself, spends are written into `utxos` only, and `latest_block` goes back when a block is
  sent again.
* The window in which reorganisations are looked for is counted from the node's
  tip, the clamp of `revert_to_height` from the latest stored block.

### What makes each part correct

* Tables: whatever was stored, replaced or half done above some height, a revert
  to that height leaves what the blocks up to it say; a query is exact for every
  height that the indexer has caught up with; a block with enough blocks above it
  is never taken off the main chain.
* Indexer: every block is delivered in order; equal hashes mean equal answers;
  the loop reaches the node's tip and stays; a final block is the node's.
* Scanning: each creation and spend of a watched output is reported exactly once
  for the block it is in.
* Coin selection: enough, spendable, no more outputs than needed, the same for
  the same request.
* Prepared transactions: equal requests get equal answers, across restarts.
* Signed transactions: what was signed is recorded, and paging shows every
  record.

`PROJECT.json` lists the hazards at their lines, with the properties that watch
over them.

## 2. The modules

```
UtxoStore            tables and the statements on them, as pure operators
  UtxoStoreProofs    types of the tables, what a block and a revert do to a row
  Storage            socket server: one action per message and per statement
    Follower         Storage + any disciplined client
      FollowerProofs
      Datasources    Follower or CsvFollower, as chosen at the start
    Sync             Storage + indexer loop + node + faults
      SyncProofs     Sync implements Follower
        FinalityProofs
  CsvFollower        the same client, with the CSV datasource
    CsvProofs        CsvFollower and Datasources
  Scan               how a block's creations and spends are found
    ScanProofs
BitcoinNode          the node (external; used by Sync)
RpcClient            requests to the node and their retries (used by Scan)
WatchSet             watched addresses behind their lock (used by Scan)
Ledger               abstract: what readers are promised (implemented by Follower and
                     CsvFollower)
Selection            choosing outputs, as pure operators
  Wallet             HTTP API of the indexer, on top of Ledger
    WalletProofs
SequenceLemmas       folds, sorting and filters (used by ScanProofs and WalletProofs)
```

| Module | Code | Notes |
|---|---|---|
| `UtxoStore` | `sqlite.rs`, height arithmetic of `database.rs` | `blocks` maps heights to rows (hash, main, final), `utxo` maps outputs to rows (height, spent). One operator per SQL statement. |
| `Storage` | `handle_socket_connection`, `revert_to_height` | `ReceiveBlock` = `store_block`, `ProcessBlock` = `process_block`; `ReceiveReorg` and `RevertUtxos` are the two statements of `revert_to_height`; `job` is the statement that is still owed. `DropJob` is its failure. |
| `Follower` | the same, seen from the tables | The client sends blocks in order from one chain at a time (`cursor`), and may go back (`Rewind`), repeat, lose messages or acknowledgements, and send a `ReorgEvent` for any height at any time. |
| `Ledger` | README of the repository, `get_spendable_utxos_at_height` | One answer per height; answers are appended and truncated, never changed; an output that stopped being spendable does not come back. |
| `BitcoinNode` | external | The chain grows by a block, or a longer branch replaces its top. It has `FirstTip` blocks when the indexer starts for the first time. |
| `CsvFollower` | `csv.rs` | `utxos`, `block_utxos` (the entries of `blocks`: copies of the rows a block created, with their spent columns), `latest_block`, `block_hashes`, `main_chain_heights`, `finalized_heights`. One action per message: the locks and the order of the writes let no reader see a handler's middle. A restart empties the maps. |
| `Datasources` | the choice in `main.rs` of the storage service | `datasource` decides whose steps are taken. |
| `RpcClient` | `make_rpc_call_optimized`, `send_batch`, `get_transactions_batch`, `get_utxo_batch` of both clients | `rpc` holds the items still to ask for, those answered, and the failed attempts for the next batch. |
| `WatchSet` | `watch_address_handler`, `derive_address_handler`, the locking in `fetch_selected_utxos` | `waiting` is the lock's queue, `holders` the sign requests that hold it. |
| `Scan` | `get_block_data`, `process_transactions`, `process_transaction_chunk`, the LRU cache; `get_block_txids` and `get_utxos_for_block_and_address` | `scan` is the await at which a scan is: the calls for the block itself, the lock of the watch set, the transactions, the outputs. `last` moves with each block, which is the batch limit of mainnet (1). The updates go into `UtxoStore`'s table at once. |
| `Selection` | `select_utxos_for_amount`, `build_unsigned_transaction` | Operators only. |
| `Wallet` | the rest of `api.rs`; the storage service's `select_utxos` and `get_spendable_utxos` handlers, `store_signed_tx`, the lookups and pages of `signed_db.rs` | `request` maps each request under way to where its handler is. `Ask`, then `Admit` and `Answer` for each address, then `InsertInCache`, `Snapshot`, `OpenFile`, `WriteFile`, or `Sign` and `StoreSignedTx`. |
| `Sync` | `run`, `process_new_blocks`, `check_for_reorg`, `find_fork_point`, `SocketTransport` | `pc` is the await at which the loop is. Each message without an acknowledgement waits in `inbox` and is handled in any order. |

`MCFollower` (over `Datasources`), `MCSync`, `MCScan` and `MCWallet` give the constants
their values.

In `Follower` and `Sync` a block stands for its hash and for what
`process_transactions` reports about it: the watched outputs it creates and spends. Competing blocks with equal
contents differ in `fork`. An output is created once and spent once on a chain,
and may be spent without a creation (it was created below `START_HEIGHT`; the
upsert inserts a row for it). Addresses, amounts, scripts and time stamps do not
influence the tables' evolution and are left out. Transactions of SQLite are
atomic steps, as are single statements.

### What `Scan` and `Wallet` assume of each other and of the rest

`Scan` gives blocks their transactions, with inputs and outputs, and checks the
step that the others take for granted: from a block to its creations and
spends. `Wallet` has the storage service's rows from `Ledger`, which `Follower` is shown
to implement, and adds what readers see while a handler is between its
statements: `latest`, the latest stored block, is ahead of the rows between
`store_block` and `process_block`, and behind them in the middle of
`revert_to_height`. A query at a height whose rows are missing is
admitted and gets those below it.

### `base`

`base` is auxiliary: no table and no message depends on it. It is the height up
to which the stored blocks are the node's and each of them was applied in its
turn, on a table with nothing in it from above. It grows when the next block of
the node is processed under these conditions; a lost or failed block, a revert
and a fork of the node lower it. The blocks at or below `base` are exactly those
whose effect can be relied on, and the modules say what follows from it.

## 3. The runs

| Run | Instance | Result |
|---|---|---|
| `follower` | 1 output, heights 0..3, `START_HEIGHT` 1, 2 confirmations; SQLite or CSV | pass, 560,974 states |
| `follower_in_block` | the same, blocks may spend what they create | `AnswersExact` violated |
| `sync_reorg` | heights 0..5, 3 confirmations, batches of 2; either two reorganisations of up to 3 blocks, or two faults out of failed call, lost acknowledgement, storage restart, indexer restart | pass, 262,194 states |
| `sync_faults` | heights 0..3, a reorganisation of up to 2 blocks with 2 confirmations, one fault of any kind, messages delayed at will | pass, 465,471 states |
| `sync_replaced` | the storage service stops in a batch, then a reorganisation | `HashesWitnessAnswers` violated |
| `sync_outrun` | a reorganisation as deep as the number of confirmations | `FinalOnChain` violated |
| `sync_start` | `START_HEIGHT` 2 with the tip at 2, 3 confirmations | `NothingBelowStart` violated |
| `scan` | 3 blocks of one or two transactions, a cache of 1, batches of 1, 2 attempts, 2 addresses to watch, a sign request, one restart, failing calls | pass, 120,679 states |
| `scan_txids` | the same blocks, nothing fails | `SpendersListed` violated |
| `wallet` | 2 requests of any kind, 3 outputs of 2 addresses, heights 1..2, one reorganisation | pass, 1,627,702 states |
| `wallet_cache` | 4 requests, two at a time, 1 output, one restart, one reorganisation, failing calls and writes | pass, 1,062,110 states |
| `wallet_across` | as `wallet` | `FundsAcrossAddresses` violated |

What the passing runs show:

* `Inv` (inductive, see section 4), `AnswersExact`: in every state, those between
  two statements included, a query at a height of the base below the cursor is
  answered exactly. The cursor matters: when a block is sent again, the upsert of
  its creations clears their spent columns, and until the spending block is
  sent again queries above the cursor are wrong.
* `RollbackBounded`: no `ReorgEvent`, whatever its height or delay, takes off the
  main chain a block that is 6 or more below the latest.
* `ImplementsLedger`: `Follower` implements `Ledger` under the mapping that takes
  the query's answers at the heights caught up with.
* `CsvAnswersExact`: over the CSV datasource, which overwrites rows on a creation, puts
  the creations before the spends and forgets everything on a restart, queries at the
  heights caught up with are exact as well, and admitted, although `latest_block` is below
  other stored blocks while blocks are sent again. Blocks that spend what they create are
  among those delivered here, unlike over SQLite.
* `BlockCopiesTrail`: the queries about a block return the copies in `blocks`. For every block
  of the base these and the rows say the same about what the block created, and a copy never
  shows a spend that the row does not have. The converse is false: `process_block_utxos`
  writes spends into `utxos` only (`csv.rs:178-196`), so that an output stays unspent in its
  copy for good, although the comment at `csv.rs:19` says that `blocks` has the
  UTXOs "created/spent in this block". Over SQLite both kinds of query read one table.
* `CsvImplementsLedger`: the CSV datasource keeps the contract of `Ledger`, too. `Ledger` answers
  with sets; their order is another matter (see *Rows of an answer* below).
* `HashesWitnessAnswers`: as long as nothing is lost in the wrong moment, equal
  hashes mean right answers. This is what `check_for_reorg` relies on. The
  run `sync_replaced` shows a moment where it fails. (Another is a
  statement that fails in `process_block`: the block is acknowledged, and a query
  at its height is wrong for good. `sync_faults` has that fault.)
* `FinalOnChain`, `FinalStays`: a block marked final is the node's, and neither a
  revert nor a later block takes its place.
* `Converges`: once the node stops moving the indexer gets to its tip, with the
  right hashes and answers, for good.
* `FollowsProtocol`: `Sync` refines `Follower` (its `cursor` is the next height to
  send), under every fault of the model, if `START_HEIGHT` is not above the first window
  in which reorganisations are looked for (`sync_start` shows why not always). So what is proved of
  `Follower` holds of the system as it runs.
* `AnswersFollowChain`: the same in terms of the node. Whatever fails and however it
  reorganises, the answers up to the last block delivered in this pass are those of the
  node's own chain, as far up as the tables have followed it.
* `ReportsAreExact`: whatever is in the cache, evicted from it or asked for twice,
  the report of a block is what the block says about the addresses watched when
  its scan began, unless the node's answer for a transaction is lost.
* `NothingStale`: without a restart or a lost answer no query at a scanned height
  returns a spent output, although addresses come in at any time. A restart
  breaks this: the spends of outputs stored before it are missed as long as their
  addresses have not been watched again.
* `NewOutputsTracked`: queries are exact for outputs in blocks newer than any that had been
  scanned when their address was watched (`since` notes which), across restarts as well, and
  such outputs are listed at their block. A block whose scan has already copied the watch
  set does not count as newer.
* `LossesHideSpendsOnly`: the others say nothing once an answer of the node was lost. This one does:
  a transaction that could not be fetched hides the spends of its outputs, but the outputs
  newer than their address's watch are still listed, and answered as long as they are
  unspent, also those that the unresolved transaction's spender creates.
* `ScanEnds`, `CatchesUp`: however calls are refused, answered in part or lost, no scan goes on
  for ever; and the indexer reaches the top of the chain unless requests keep failing.
* `WatchGranted`: a request to watch an address gets the lock, although sign requests
  hold it while they wait for the storage service, and new ones keep coming: they queue behind it.
* `PaysWithoutExcess`: every selection, built address by address
  from answers of different moments, is enough and would not be without its last
  output.
* `InputsSpendableTogether`: the inputs of a prepared or signed transaction come from one answer,
  because an address with too few ends the request (against the comment at `api.rs:289`,
  see `wallet_across`). If the storage service returned what it has (the mutant), a reorganisation
  between two answers would mix outputs that never were spendable together.
* `SelectedTogether`: `select` is the one handler that does mix addresses. Whatever comes or is
  reverted above its height while it asks them, all that it selects is spendable at that
  height when it answers. It is not if a reorganisation goes below that height, if the block at
  it is still being processed, or if addresses are added: then nothing is claimed.
* `PreparesAgree`: two equal requests that both miss the cache build the same
  transaction, whatever blocks come or are reverted above their height, if the rows at it and the watch
  set stay. If those change, the later insertion replaces the earlier one, and the two
  clients hold different txids. `sign` asks the addresses in the order
  of a hash set, so what it signs need not be what was prepared.
* `AnsweredForGood`: an answered question is in the cache, and stays there
  across a restart, unless writes of the file overlapped, failed or were cut off
  (each of these can lose entries; the auxiliary `clean` says that none did).
* `SignedAreStored`: whoever was answered with a signed transaction finds its record by height and
  by txid, or will once the detached task that stores it has run. With a failing
  call or a restart the record is lost and nobody is told, so the property is
  about the rest.
* `AnswersWereBuilt`, `FullPagesStay`: no answer or record belongs to other
  parameters; a page of the signed log that was full stays as it is.

What the violated runs show is described in `PROJECT.json` under `findings`.

### Bounds, and why they are enough

* *One output.* Every operation on the table `utxo` treats each row by itself,
  and no guard looks at two rows; what fails, fails for one output. Blocks that
  create one output and spend another differ from these only by the
  combination of two independent rows. The theorems are for any set of outputs.
* *Heights.* 0..3 with 2 confirmations is one more than the clamp needs to bite
  while the fork is below it; 0..5 with 3 leaves room for two reorganisations,
  the second of them during or after the recovery from the first, and for two
  batches.
* *Confirmations.* 2 or 3 instead of 6. The code uses the number only in
  `height - FINALITY_CONFIRMATIONS + 1`; below 2 the window has one height and
  `find_fork_point` would have nothing to search. The theorems are for any
  positive number.
* *Batches* of 2 make every batch boundary occur; on mainnet the limit is 1, which
  is the case of a batch cut short by the tip.
* *Faults.* `sync_reorg` has two, since one fault can hit the recovery from
  another. They do not meet reorganisations there (`Together` is `FALSE`), because together
  they break `HashesWitnessAnswers`, which `sync_replaced` shows. In
  `sync_faults` they do, and one is enough, because the first step that leaves the
  protocol is a violation, and every state in which a fault can happen is met
  by a first one.
* *A node that has just started.* `FirstTip` is 0 except in `sync_start`, where it is 2. The
  theorems about `Sync` are for any height that satisfies `StartsInWindow`.
* *A cache of 1* in `scan`: the third block has inputs of two transactions, so that the
  transactions fetched for a block evict those known before, and each other. *Batches of 1*
  make a request of two batches of them. *Two attempts* of the source's three and *two calls* for the
  block of the source's three: a first, which may be repeated, and a last. `External` is
  `TRUE`; the client for Bitcoin Core makes one call per item, all at once, which is
  a single batch that cannot be refused, a case of the above but for the first calls,
  and `ScanProofs` covers both. `LateSigning` is `FALSE`: a restart forgets everything that
  a sign request touches, so that one after it would repeat the behaviours before it.
* `Wallet` does without scanning, `Scan` without reorganisations: a scan takes one block,
  by its hash, whatever the chain does.
* *Two addresses, three outputs* in `wallet`: one address with an output that is too
  small and one that is enough, and one with a sufficient output: together
  they meet every branch of the loops. The second of the two heights comes and goes above `select` and
  one of the prepare requests. *Two requests* are enough for the properties, which
  relate two of them at most; `wallet_cache` has two at a time and four
  altogether, so that two can answer before a restart and two after it. A page has one
  record in `wallet`, which makes every record a boundary.
* `wallet`, `wallet_cache`, `scan` and `scan_txids` stop at their bounds (`MaxAsks`, `MaxHeight`), so
  deadlock is not checked there; `ScanEnds` and `WatchGranted` say that nobody waits on
  anybody for ever. It is checked in all other runs.
* `MaxReorgs`, `MaxReorgDepth` and `MaxHeight` stop the node. `Converges` is about
  the behaviours after that.

### Assumptions

* *Fairness* (`FairSpec`): the indexer's loop takes its next step (`run` never
  returns, and sleeps a bounded time), and the storage service gets to its
  messages (tokio polls every ready task and handlers run to their end). The
  node is under no obligation to find a block. Faults are bounded and never
  obliged to happen.
* *Fairness of `Scan`*: the indexer takes its next step, with no say in how the node answers
  it; a lock is granted when it can be (tokio's `RwLock` serves its waiters
  in order and wakes the first); and the storage service answers a sign request, be it with an
  error. The API's HTTP client is built without a timeout, so that a storage service that is up and
  never answers would leave the set locked: this is assumed away, not shown.
  `CatchesUp` is for behaviours in which requests stop failing.
* `Prompt`: a `ReorgEvent` or `UpdateFinalityStatus` is handled before the next
  poll. Both are the last thing a cycle sends, and `run` sleeps for the poll
  interval (500 ms by default) after it. Without it a late `ReorgEvent` can take
  newer blocks off, and `FinalStays` would not hold; `sync_faults` does without.
* `OutrunsWindow = FALSE`: the node does not bury a stale block below the window
  while the indexer is on its way. `sync_outrun` shows that this excludes some
  reorganisations the repository's README promises to handle.
* *START_HEIGHT.* It is at most `FirstTip - FINALITY_CONFIRMATIONS + 1`, or 0. With a higher
  one the first check takes the blocks missing below it for a reorganisation and stores
  blocks from before it, with the wrong rows (`sync_start`).
* *Watch set.* `Outputs` are outputs of addresses that are watched whenever a
  block is scanned. After a restart this means that the addresses are added again
  in time; the code does nothing to ensure it (hazard at `indexer.rs:549`).
* *The chain that is scanned.* An output is created in one block and spent in at most one, not
  before it was created (`ChainAssumption` of `Scan`). A block's first transaction is its
  coinbase, without inputs; those of the others are outputs of transactions of the chain
  (`ScanAssumption`).
* *Scanning.* `getrawtransaction` finds every transaction of the chain (a node with an
  index of transactions); `gettxout` finds unspent outputs only, so it never
  helps with an output that a block of the chain spends, which `GetTxOut` says.
  The instance has no output that is spent in the block that creates it
  (`follower_in_block` is about those).
* *Rows of an answer* are in the order of their insertion, which is that of the
  outputs' numbers within a block; the code's sort by height is stable. This is SQLite; CSV
  answers in the order of a hash map, so outputs of one height come in any order, and
  `PreparesAgree` is about SQLite only. Equal
  transactions have equal txids and different ones different ones.
* *Locks.* `WatchSet` has the queue of the lock on the watch set. A handler that asks
  for an address which is watched already takes the lock and changes nothing, and readers
  that hold it for a look only delay nobody; both are left out. `Wallet` has the
  consequence only: nothing is watched while a sign request asks.
* *CSV.* A message is one step: `process_block_utxos` and `revert_utxos_after_height` keep
  `utxos` locked until they return, and what is written outside that lock no query
  reads. Inside, `blocks` is written before the rows are updated and `latest_block` last; a query
  reads `latest_block` and then one of the maps, so it cannot tell. The two files that are read at the start are not there, since nothing in the
  repository writes them (`csv.rs:201`).
* *The cache file* is emptied when it is opened and written in one go; a file
  that was emptied and not written, or holds the rest of a longer one,
  does not parse and counts as empty on the next start.
* A handler runs without interruption by another handler: the socket server's
  tasks run on the thread of `#[actix_web::main]`, and the handlers await only for
  reading and writing the connection.
* Reading a block's hash and fetching and sending the block are one step of
  `Sync`, and so are the two reads of a comparison: in between only the node can
  move, and its move commutes with the second half.

## 4. The proofs

They hold for every set of outputs, addresses and requests, every chain, `MaxHeight`, `START_HEIGHT`,
number of confirmations, size of a batch, a page or the cache, number of faults, reorganisations and
restarts, under the assumptions on constants named in the modules and the hypotheses in the tables.

```
UtxoStoreProofs ---- FollowerProofs ---- CsvProofs
             |             `------------ SyncProofs ---- FinalityProofs
             `------ ScanProofs
SequenceLemmas ------ ScanProofs
             `------ WalletProofs
```

Every invariant and every action property of a passing run is stated by a theorem; what is left to
the runs is liveness.

`UtxoStoreProofs` has the lemmas that the others share: the types of the statements, what a block
and a revert do to a row, which height `LatestBlock` is.

### Folds, sorting, filters: `SequenceLemmas`

The totals of a selection, the cache, the order of the rows and the queue of the lock are
sequences, folded, sorted and filtered. What such an operator returns for a sequence of any
length is an induction, and the induction theorems of the library take a predicate, which the
provers cannot instantiate. `Induction` is about a *set* of natural numbers instead: it follows from
`NatLessThanWellFounded` and `WFMin`, whose parameters are sets. On it rest:

* `FoldExists`, `FoldAgrees`, `FoldStays`: `FoldLeft` is a `CHOOSE` of a function over the subsets of
  the indices. Where the step of the fold is given as a function, there is such a function, the fold is its value
  on all the indices, and a set that every step stays in holds the result.
* `SortExists`, `AscendingRuns`: a finite set can be put in any total order, and what ascends and is as long as the
  set holds each element once. The code's stable sort is such an order of the indices.
* `FlattenIs`: what concatenating a sequence of sequences gives.
* `RemoveFirstIs`, `ContainsIs`, `AppendIs`, `ConsIs`: the queue and the cache without an element or with one more.

`SelectSeq` and `SortSeq` of the library are opaque to the provers; the models filter and sort with
`RemoveFirst`, `InOrder` and `ByHeight`, and look records up by their set.

### Tables: `FollowerProofs`

| Theorem | Statement |
|---|---|
| `TypeCorrect` | `Spec => []TypeOK` |
| `InvHolds` | `~InBlockSpends => (Spec => []Inv)` |
| `AnswersAreExact` | `~InBlockSpends => (Spec => []AnswersExact)` |
| `RollbackIsBounded` | `Spec => RollbackBounded` |
| `LedgerImplemented` | `~InBlockSpends => (Spec => ImplementsLedger)` |

`InBlockSpends` is a constant; where it is `TRUE` the claim is false, as
`follower_in_block` shows.

`AnswersExact` is not inductive: it says nothing about what lies above the base,
and a revert or a repeated block can bring anything from there into the answers.
`Inv` speaks of the *reverted* row: `RevertRow(utxo[o], base)` fits the blocks of
the base, whatever the row holds. The argument has three lemmas at its core:

* `AppliedAbove`: a block that fits the base, applied above it, changes the row
  only in ways that a revert to the base undoes.
* `AppliedAgain`: a block of the base, applied again, leaves a row that fits,
  except for spends the cursor has not reached again.
* `AppliedNext`: the next block, applied to a row with nothing above the base,
  leaves a row that fits the larger base.

`FitsShrink` and `RevertRevert` carry the claim over to a lower base (a
`ReorgEvent`, a fork of the node, a lost block). `BaseKept` collects them: a step
that keeps the stored blocks and the reverted rows of the new base keeps the
invariant. `RowAnswers` reads the answer off a row that fits.

`LedgerImplemented` needs more than exact answers: a step may change which heights are caught up
with, and must then append one answer, take answers off the end, or change none. Since the
answers are exact before and after, they are determined by the stored blocks, and the proof
is about which of these a step replaces.

### The CSV datasource, and either: `CsvProofs`

| Theorem | Statement |
|---|---|
| `CsvTypeCorrect` | `CsvSpec => []CsvTypeOK` |
| `CsvInvHolds` | `CsvSpec => []CsvInv` |
| `CsvAnswersAreExact` | `CsvSpec => []CsvAnswersExact` |
| `CsvCopiesTrail` | `CsvSpec => []BlockCopiesTrail` |
| `CsvLedgerImplemented` | `CsvSpec => CsvImplementsLedger` |
| `ServiceImplementsLedger`, `ServiceAnswersAreExact` | the same of `DatasourcesSpec`, over either datasource |

There is no hypothesis about blocks that spend what they create: CSV inserts before it spends.
`CsvInv` is to `CsvFollower` what `Inv` is to `Follower`, with two more parts: the copies that each sound block keeps of its
outputs (`block_utxos`) are those that the block creates, none of them spent, and no height caught up with
lies above `latest_block`, or a query there would be refused.

### The system: `SyncProofs`

All under `StartsInWindow`: `START_HEIGHT` is not above the first window that is checked, that is
`StartHeight <= Greater(FirstTip - FinalityConfirmations + 1, 0)`. The run `sync_start` shows what happens otherwise.

| Theorem | Statement |
|---|---|
| `TypeCorrect` | `Spec => []TypeOK` |
| `SyncInvHolds` | `Spec => []SyncInv` |
| `ProtocolFollowed` | `Spec => FollowsProtocol` |
| `SystemAnswersAreExact`, `SystemRollbackIsBounded`, `SystemImplementsLedger` | the theorems of `Follower`, of `Sync` |
| `AnswersAreTheChains` | `Spec => []AnswersFollowChain` |
| `StartIsRespected` | `Spec => []NothingBelowStart` |

`ProtocolFollowed` is a simulation: the `cursor` of `Follower` is the next height that the loop sends,
and each step of the node, the loop, the storage service or a fault is a step of the client, of the storage
service, or no step of `Follower`. It needs to know that a batch is contiguous and starts above `last`,
that the check stays in the window and `find_fork_point` above it, and that no block is in process
unless the loop waits for it (`LoopsInRange`, `OneUpdate`); that the blocks sent belong to a chain
(`ChainValid`), which the base is a part of (`BaseOnChain`). These are `SyncInv`. Then
`FollowerProofs` is instantiated with the mapping, and its theorems are the system's.
`AnswersFollowChain` follows from two of them: the answers are those of the base's blocks, and these
are the node's.

### Finality and evidence: `FinalityProofs`

| Theorem | Statement |
|---|---|
| `FinalBlocksAreOnChain` | `StartsInWindow /\ Paced => (Spec => []FinalOnChain)` |
| `FinalBlocksStay` | `StartsInWindow /\ Paced => (Spec => FinalStays)` |
| `HashesAreWitnesses` | `StartsInWindow /\ Stores => (Spec => []HashesWitnessAnswers)` |

`Paced` says that a message without acknowledgement is handled before the next poll, that the node
does not outrun the window (`sync_outrun`), and that of the faults only lost acknowledgements meet
reorganisations, in any number and order. Behaviours without a reorganisation may have any faults, behaviours without a
fault any reorganisations. No more can be said: with `Together` set to `TRUE` in the
instance of `sync_reorg`, a failed call or a restart breaks `FinalOnChain`, and so do two stops of the storage
service (below). `Stores` adds that faults and reorganisations do not meet at all, since any single fault and one
reorganisation break `HashesWitnessAnswers` (`sync_replaced` is one case), and that no
statement fails: a failed `process_block` is acknowledged, and hash and answer disagree from then on,
without any reorganisation.

That a block is marked final only if it is the node's depends on the whole cycle. `FinalInv` follows it: a
stored block that the node has replaced is in the window (`OutdatedInWindow`), a final one is below it
(`FinalBuried`); the check has found every height of the window below the one it looks at to agree, so that what it
announces as final is settled, or will be replaced by the batch that comes first (`WindowChecked`, `FinalityDue`); a
rollback that was asked for is to a height that no final block is above, and the clamp does not move it
(`RollbackSafe`). A lost acknowledgement leaves a block stored above `last`, where no check looks, and the node may
replace it. What saves the cycle is `StoredInReach`: nothing is stored above `last + BatchLimit`, because
only an acknowledged block moves the batch on, or above the tip that the cycle has seen. So when the check is skipped
(`last` below the window), whatever is outdated in the window is sent again before finality is announced (`BelowWindow`).
Where a `ReorgEvent` is lost instead, stale blocks remain above that limit: a first stop of the storage service loses the
event, a second an acknowledgement; with batches of one the next cycle sends only the block below the stale one, and
announces as final a window that begins with it.

`HashesWitnessAnswers` compares two things that no message relates: the stored hashes, and the
rows, which may be left over from other blocks. The invariant has to say why a stale row cannot hide behind a
right hash. `WitnessInv` says two things. `Gap`: if the base stays behind what was delivered, then the block after it is
stored with *another* hash than the node's, so that hashes differ below the last block. `CleanOrDue`: if the base has reached what was
delivered, no row is left from above it, or the rollback that removes it is asked for or half done; then
the next block is applied to a clean table and the base grows. A reorganisation keeps `Gap`, because a block
of a new branch has a hash that was never stored (`OldTags`); a rollback keeps it, because it goes to the last
block processed and leaves the stored blocks up to there alone.

### Scanning: `ScanProofs`

| Theorem | Statement |
|---|---|
| `ReportsExact` | `Spec => []ReportsAreExact` |
| `NothingIsStale` | `NoInBlockSpends => (Spec => []NothingStale)` |
| `NewOutputsAreTracked` | `NoInBlockSpends => (Spec => []NewOutputsTracked)` |
| `LossesHideOnlySpends` | `NoInBlockSpends => (Spec => []LossesHideSpendsOnly)` |
| `ScanWellTyped` | `Spec => []TypeOK` |

`ReportsExact` needs nothing but `Scan`'s definitions and those it uses. Its invariant adds
`ScanCovers`: when something is watched, the transactions a scan knows from the cache
(`known`) and those it asks for (`needed`) are together those that the block's inputs refer
to. Nothing is said about the cache, so evictions cannot matter: the scan keeps copies of
what it found. Nor is anything said of requests, retries and the lock: `Unaffected` disposes of every
step that leaves the last block and the last report as they are and either keeps the scan or
begins another.
`UpdatesExact` then says that a report made from all of them is exact.

`NothingIsStale`, `NewOutputsAreTracked` and `LossesHideOnlySpends` are about the table and need `TrackInv`. An output is answered for if its address was in the copy of
the watch set of every scan from its block on; but the copy is made at an await, and the address can come in
before or after it. `SinceTop` says what `since` is worth: whatever is scanned without the address is at most `since`.
`NewTracked` then says which block of those scanned spends an output newer than that, and `NeverScanned` that
an output of a new block has no row that could be in the way. `NewKept` is what remains of `NewTracked` when answers
are lost: the row is at its height, and spent nowhere or where it really is. For `NothingStale` the rows count, and not when
the addresses came in: until the first restart the address of a row is watched, and is in the copy of
the scan under way (`RowsWatched`); and each row tells the truth (`RowsTrue`). A row that a spend has
inserted, since the creation was not seen, has the height of the spend and is never unspent. With
a block that spends what it creates the row would stay unspent (`follower_in_block`), hence
`NoInBlockSpends`.

`TypeOK` bounds the cache and lets nobody queue twice for the lock, which is not a matter of each step alone:
`ScanTyped` adds that the scan is in the queue exactly while it waits for the lock and that nobody
queues who holds it (`LockTypes`), that a request is for transactions of the chain when its answer goes into the
cache (`RequestTypes`), and that a transaction put in front of a cache is not in it a second time
(`Caches`).

### The HTTP API: `WalletProofs`

| Theorem | Statement |
|---|---|
| `WalletTypeCorrect` | `Spec => []TypeOK` |
| `AnswersAreBuilt` | `Spec => []AnswersWereBuilt` |
| `AnswersStay` | `Spec => []AnsweredForGood` |
| `PagesStay` | `Spec => FullPagesStay` |
| `BuiltPaysInFull` | `Spec => []PaysWithoutExcess` |
| `BuiltFromOneAnswer` | `Spec => InputsSpendableTogether` |
| `SelectedFitTogether` | `Spec => SelectedTogether` |
| `PreparedAlike` | `Spec => []PreparesAgree` |
| `SignedAreRecorded` | `Spec => []SignedAreStored` |

`BuiltInv` follows a transaction from where it is built to wherever it can be answered from: a
handler's own state, the cache, a snapshot on its way to the file, the file, a task that stores a record, the log.
`CleanInv` is about durability: as long as no writes have overlapped, failed or been cut off, at most one request is
writing, the file is empty while it is, and whatever is in the cache is in the file, in the data being
written, or in the cache of a request that has still to take its snapshot (`Secured`). `Fresh`
adds that a request that inserts and writes has asked its question for the first time.
`PagesStay` needs of `BuiltInv` only what the log holds: it grows at its end, and a full page ends before that.

What a transaction spends is settled before it is built, in a loop over addresses. `GatherInv` says what
a request has got when it is about to ask the next address (`Gathering`): distinct outputs, for `select` of
none of the addresses still to ask, for the others nothing yet, since the first answer that is not empty
ends their loop. Then an answer is either refused or enough by itself (`Enough`), which is
`BuiltFromOneAnswer`; and `Taken`, whose totals are folds, stops at the first
prefix that is enough, which is `BuiltPaysInFull`, for sequences of any length.

`PreparedAlike` compares two runs of that loop that start at different moments. `AgreeInv` relates each
to the rows as they are now: an undisturbed request has passed addresses that have nothing for it
(`CalmAt`), and what it builds comes from the first address in `Order` that has something (`Settled`). Two equal
requests therefore build the same.

Both it and `SelectedFitTogether` need that blocks above a height leave the answers at it alone. `RowsStayBelow` finds the
height up to which the rows stay when a block is processed or reverted, and that only requests above it count as
disturbed. `HeldInv` then says that whatever an undisturbed `select` has got is still spendable at its height.

`RecordInv`: without a failed call or a restart, whatever a sign request was answered is in the log or with a
task that has still to run; `SignedAreRecorded` adds that the lookups find it there.

### Only model-checked

* *Liveness*: `Converges`, `ScanEnds`, `WatchGranted`, `CatchesUp`. The prover does not handle fairness
  and `ENABLED`.

The modules proved about declare no `RECURSIVE` operator.

## 5. Not modelled, and the plan

Left out for good: argument parsing, logging, wire formats, address and script
conversion, error texts; loading the CSV datasource's files, which nothing writes; the
lookup of a UTXO by its outpoint (`/utxo/{txid}/{vout}`), which reads one row; the query whether an
address is watched, which only reads; delays between retries, which order nothing.

Done: `UtxoStore`, `Storage`, `Follower`, `Ledger`, `CsvFollower`, `Datasources`, `Sync`,
`RpcClient`, `WatchSet`, `Scan`, `Selection`, `Wallet`; the proofs about the tables, both
datasources, the system with finality and evidence, scanning, and the API.

Next: `Sync` with the blocks of `Scan`, that is, what a restart loses while blocks are sent
again, with addresses watched again at different moments.
