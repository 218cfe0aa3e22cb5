# CrossChainMidWare in TLA+

CrossChainMidWare stands between the nodes of several coins (BTC, LTC, DOGE, HC,
UB, BCH, BTM, Omni USDT, ETH and ERC-20 tokens) and the guards of a cross-chain
wallet. It follows every chain, keeps which outputs are unspent and which
deposits to and withdrawals from multisig addresses there were, answers the
guards' questions about them, and builds and broadcasts transactions.

This directory holds TLA+ models of the parts of it that decide something, the
configurations that model-check them with TLC, and proofs that TLAPS checks. Each
module names, in its header, the functions it models; `PROJECT.json` ("map") gives
the lines of every definition.

    tlc -workers 2 -config MCUtxoIndex.cfg MCUtxoIndex        # a run
    tlapm UtxoIndexProofs.tla                                 # the proofs

Contents: 1 the system; 2 the modules and what they correspond to; 3 the runs;
4 bounds; 5 fairness, deadlock and assumptions; 6 the proofs; 7 where code and
text disagree; 8 what is not modelled; 9 the plan.

## 1. The system

Paths are relative to `src/`.

    coin node --> btc_collect (Go, LevelDB) --JSON-RPC--> coin utilities --+
    coin node --> Python collectors --> MongoDB <----------------------- sim_api (JSON-RPC service)
    ETH node  --> eth_collect (Go, PostgreSQL) --JSON-RPC--> Python ETH collector --> MongoDB

| Component | State | Operations | Talks to |
|---|---|---|---|
| UTXO index, `go_collector_services/btc_collect/main.go` | two caches and two LevelDB stores (by output, by address), the height, counters, history files | `handle_block`, `spent_utxo`, `add_utxo`, `flush_db`, the phases of `main` | gets blocks from the pipeline, is read by the RPC service |
| Block pipeline, same file | two bounded channels, goroutines, `is_done` | the feeder in `main`, `collect_block`, the hand-over to `handle_block`, exit tokens | node, UTXO index |
| btc_collect RPC service, `server.go` | none of its own | GetBlockHeight, ListUnSpent, GetBalance, history calls, pass-through | reads the stores while they are flushed |
| eth_collect, `go_collector_services/eth_collect/` | two channels, `exit_count`, tables `trx_data`, `erc20_address_relation`, `relation_address`, the checkpoint `config.trx_height` | `collect_block`, `handle_block`, `main`, `RemoveExpired`; AddNormalAddress, AddErc20Address | node, PostgreSQL |
| Mongo collectors of the BTC family, `btc_data_collector/` | `b_config` (sync number), `b_block`, `b_deposit_transaction`, `b_withdraw_transaction`, a queue, a cache of watched addresses | `CollectBlockThread`, `do_collect_app`, `flush_to_db`, `clear_last_garbage_data`, `collect_pretty_transaction`, for BTM `collect_pretty_transaction_btm` | node, MongoDB |
| Exchange contracts, `btc_data_collector/BKCoinTxCollector.py` | `b_exchange_contracts`, the sync number | one loop | hc node, MongoDB |
| Omni USDT collector, `omni_data_collector/` | as the BTC family, batches of greenlets | `CollectBlockThread.process_blocks`, `do_collect_app`, `collect_pretty_transaction` | node, MongoDB |
| Python ETH collector, `eth_data_collector/collector_app.py` | `GlobalVariable`, `b_config`, three collections | `do_collect_app`, `collect_data_cb`, `clear_last_garbage_data` | eth_collect, MongoDB |
| JSON-RPC service, `service/sim_api.py`, several worker processes | in MongoDB caches of answers and the books of addresses; a list of senators per worker | transaction histories, queryTrans, broadcastTrx, VerifyMessage, registration of addresses, balances, transaction creation | MongoDB, utilities, nodes, eth_collect |
| Coin utilities, `utils/` | none | create_transaction, requests | nodes, btc_collect |

What is hard in it, and hard to test:

* Nothing is transactional. A block becomes several writes to one or more
  stores, and a number that says how far collecting has come is one more write.
  A process may be killed between any two of them, and a restart repairs
  what it can. This is so in all five collectors, differently in each.
* Blocks are fetched in parallel and must take effect in order.
* Writers and readers share stores without locks: the service reads while the
  collectors write and clear.
* Processes stop by tokens that travel behind the data, through channels that
  are bounded, to goroutines that may have died.
* Errors are retried, printed, or end a thread nobody is watching.
* The money arithmetic of `create_transaction` has many boundaries.

The properties that make the components correct:

* UTXO index: the stores hold exactly the outputs unspent at the stored height;
  no output is ever lost; a payment is never invisible; no block stops it.
* Pipeline: every height once, in order, nothing behind an exit token; it stops.
* Collectors: everything below the sync number is recorded, once, and is of the
  final chain; after a kill, what is half done is cleared or done again; the end
  of the chain is reached.
* Service: a cursor never passes a transfer that was not returned; an answer
  kept for good stays true; a broadcast is not repeated within its time; an address
  that was registered is known to everybody who has to know it; a balance is told
  digit for digit.
* Transaction creation: inputs are used once, payees get their amount, the fee
  pays for the size and is bounded, and a refusal has a cause.

`PROJECT.json` lists every component ("components") and every hazard at the
line where it bites, with the properties that watch over it ("hazards").

## 2. The modules

### The UTXO index

`Chain` is the chain as the index sees it: transactions in the order in which
blocks list them, the outputs each creates and spends, and the rules a chain
keeps (`ChainShape`, `ChainRules`: an output is created once and spent at most
once, in the block that creates it or later; `ParentsFirst`, of all chains but BCH:
parents are listed before their children).
`UnspentAt(h)` is what the index has to answer.

`UtxoIndex` is `main`, `handle_block`, `spent_utxo`, `add_utxo` and `flush_db`.
The two caches with their "spent" sides and the two stores are variables, since
the two indexes are maintained by separate code and meet different cases. `pc`
is the place of the goroutine that owns the caches.

| Code | Action |
|---|---|
| start, restart after a kill, wait for the node (1228) | `Boot`, `Kill` (`LoseMemory`) |
| the node's safe count grows, `main` feeds on | `NewBlocks` |
| a block or the exit token arrives | `ReceiveBlock`, `ReceiveExit` |
| one input: cancel in the cache, note for deletion, or halt | `SpendInput`, `MissInput` |
| BCH: input not found, put off to the end of the block | `DeferInput`, `SettleInput` |
| the outputs of a transaction; the end of a block | `AddOutputs`, `FinishBlock` |
| `flush_db`, one step per batch, the height last | `FlushPutUtxo`, `FlushDeleteUtxo`, `FlushPutAddr`, `FlushDeleteAddr`, `FlushHeight` |
| end of the fast phase, low phase, closing | `MainFlush`, `StartLow`, `Close` |
| SIGINT, SIGTERM | `Signal` |

`intact` is a history variable: no kill has fallen between two writes of a
flush, and no start met a node that reports exactly the stored height. The three
stores share no transaction, so outside `intact` exactness really is lost
(a replayed block then meets a missing output and stops the collector for good);
what holds even then, that no unspent output is lost, is stated without it.

`UtxoLedger` is the abstract ledger: a height and the outputs unspent at it,
advanced by whole blocks. `UtxoIndex!ImplementsLedger` is the refinement.

`UtxoService` adds a client of `server.go` to the index: it asks for the height,
then for coins and balances. A call reads one LevelDB snapshot, so it is one
step, but it may fall between any two batches of a flush.

### The pipeline

`BlockPipeline` is everything between `main`'s feeding loop and `handle_block`:
`height_chan` and `blockdata_chan` with their capacities, `collect_block` with
its `height_cache`, its chunks of parallel fetches that end in any order
(`fetched`), the order in which it pushes them, exit token -1 and its passage,
and the hand-over from the fast to the low phase. `Main`, `Collect` and `Handle`
are disjunctions of one action per channel operation. The handler dies at a block of
`BadHeights`, as `handle_block` does at a missing output.

`BlockFeed` is what `UtxoIndex` takes for granted: blocks one by one, in order,
until the count is reached or the handler exits. `BlockPipeline!ImplementsFeed`.

### Collectors

`MongoCollector` is `CollectBlockThread`, `do_collect_app` and the flush threads
of `collect_btc_block.py` with `coin_tx_collector.py`, whose subclasses are the
other coins. Threads: the producer (clear, poll, fetch, put), the consumer (get,
handle, join the last flush, start the next, refresh the watched addresses), and
flush threads that write document, transfers and number one by one. The
environment: a chain that grows and reorganises, a service that registers
addresses, SIGINT, kills, and writes that fail. `failed` is history: a write has
failed, and a flush thread has died of it unnoticed. `dueFrom` is history too:
from which block on an address must be recorded, given that its registration
takes effect at the next refresh. `OwnTag` says whether the block documents bear
the coin's own chainId: true of BTC, false of its siblings (see 7).

`TxClassifier` is `collect_pretty_transaction` and its twin for BTM, which decide in
two loops what a transaction is. The twins differ in what they read of an input or
an output (`BtcInAddress`, `BtmInAddress`, `BtmOutAddress`), and are one machine over
these readings. The comment of the function is translated on its own
(`Spenders`, `Receivers`, `IsDeposit`...), and the loops are checked against it.
The amount of a row is a text, which `Amounts` makes of a number as the code does, by
slices of its digits.

`UsdtCollector` differs in that `process_blocks` fetches a batch by greenlets and
means to roll back when one fails, and in its classification (`KindOf`), which is
small enough to be part of the module. `silent` is history: a request was left
without a result.

`TransferLog` is what a reader of MongoDB sees of either collector: a sync number, and
transfers that appear one by one in the block after it, or in the block of the
number itself, after a restart has cleared it. `MongoCollector` and
`UsdtCollector` both implement it, and `HistoryApi` is built on it. `EthLog` is the
same for Ethereum, where rows run ahead of the number by a round, in the order of their
blocks, and clearing leaves some of them; `EthSync` implements it.

`BkCollector` is the loop over exchange contracts: list contracts changed in a
window, ask for each one's orders, remove the old, insert the new at the end of
the round, save the number. `bkSilent` is history, as above. Its names that UsdtCollector
has too begin with `Bk`.

`EthCollector` is eth_collect: fetching and handling goroutines, both of
which there are several, the checkpoint at multiples of `Interval` in the fast
phase and at every block in the low one, the shutdown in which the
handlers count themselves out (`exit_count`), and inserts that fail (`failed`).
A behaviour begins where some earlier process has stopped, with what that left in
the tables.

`EthSync` is the Python collector that reads from it: rounds of up to `Round`
blocks that share their boundary block, transactions looked for before they are
inserted, exceptions passed over at one place and retried at another, where the retry
starts a second coroutine beside the first (`Coroutines`, `Timer`). `failed` is
history: a call of MongoDB has failed.

### Service

`HistoryApi` (EXTENDS `TransferLog`, and reads an INSTANCE of `EthLog`): All.History
with its window loop, one step per query, and the pollers of Deposit.History,
Withdraw.History and GuardCall.History, with a caller that continues from the
cursor it was given. `historyChain` is chosen at the start: "btc" stands for the BTC family, hc and
usdt, "eth" for eth, with its third collection, its wider windows and its base. The calls only
read, so that an execution follows either the first or the others (`calls`).

| Code | Module |
|---|---|
| queryTrans, queryTransBatch and the collection they share, for the BTC family, usdt, btm, or eth with its two requests for one answer (`coin`), between several workers and a node whose last blocks may be replaced | `TrxCache` |
| broadcastTrx, with the sweep of old records every worker makes by its own clock | `BroadcastCache` |
| Multisig.Create, importAddr, importAddrs, `add_guard_address` of `eth_utils`, the two calls of eth_collect, the collector's refresh (`_update_cache`) | `AddressBook` |
| QueryWhiteListSenatorId and its list per worker, VerifyMessage and its collection | `ServiceMemory` |
| GetBalance and the texts it makes of numbers | `BalanceApi`, `Amounts` |

In `AddressBook` a call works through its list (`todo`) in steps of one request each
(`Look`, `Remove`, `Insert`, `Update`, `Tell`, `TellErc`); `BreakOff` is a request without an
answer or a worker that dies, `Unnoticed` a refusal that the code does not look at. Either sets
`failed`, which is history.

`ServiceCaches` puts these side by side in one service: no call touches what two of them
keep, and `served` says which kind of calls an execution follows.

### Creation of transactions

`CoinSelection` is `sim_btc_create_transaction`: take the one output that pays
for all, or the largest until covered; pad with the smallest; work out size, fee
and change. `HcPay` and the definitions around it are what `hc_create_transaction` does
differently; `BtmSelection` EXTENDS the module for `btm_create_transaction`.
`UsdtSelection` is `omni_create_transaction`. `CreateTransaction` is the two calls of the
service, `CreateTrx` and `CreateFullSendTrx`, that send a request to one of them, each with
its configuration; a wallet without outputs is refused. It is
checked on every wallet and every request within the bounds: the initial states
enumerate them.

Amounts are integers. The code rounds to eight places at every step, which is
integer arithmetic in the coin's smallest unit.

## 3. The runs

There is one run for each component, and TLC explores every reachable state of its
instance. A property is often the conjunction of parts, which are defined and
explained under their own names beside it.

| Run (module MC..., cfg of the same name) | What it asks | Properties |
|---|---|---|
| utxo_index (UtxoIndex) | signals and kills at any step, restarts, replays: exact until a kill falls inside a flush, no unspent output lost whatever happens, a ledger that commits whole blocks, the end of the chain reached | `TypeOK` `Exact` `NoOutputLost` `ImplementsLedger` `CatchesUp` |
| utxo_service (UtxoService) | BCH, whose blocks may list children first, and a client: what it is told fits the height it knows | `ListExact` `BalanceInBounds` |
| pipeline (BlockPipeline) | batches, both phases, a signal anywhere, a handler that may die | `Orderly` `ImplementsFeed` `Stops` |
| mongo (MongoCollector) | threads, kills, a reorganisation, registrations, a failing write | `StoredExact` `OnlyFinalBlocks` `ImplementsTransferLog` `CatchesUp` `StopsAtNextBlock` |
| tx_classifier (TxClassifier) | the loops decide what the function's comment says, of the BTC family and of BTM, and the amounts are right | `KindsRight` `RowsExact` |
| usdt (UsdtCollector) | batches, kills, a request without a result | `StoredExact` `ImplementsTransferLog` `CatchesUp` |
| bk (BkCollector) | trades while the book is replaced, kills, a request without a result | `BookSound` `BookFollows` |
| eth_collect (EthCollector) | several collectors and handlers, kills, a failing insert | `FedIsStored` `CheckpointSound` `Stops` `CatchesUp` |
| eth_sync (EthSync) | kills, rounds, a failing call and the second coroutine it starts | `SyncSound` `RecordedOnce` `ImplementsEthLog` `CatchesUp` |
| history (HistoryApi) | the cursors of four calls against a collector at work, of the BTC family or of eth | `PassesNothing` `Reaches` |
| service_caches (ServiceCaches) | answers kept for good stay true and lists fresh; broadcasts are not repeated within their time, nor refused for ever; overlapping registrations; balances | `AnswersTrue` `Registered` `NoResubmission` `Resubmitted` `Watches` |
| create_transaction (CreateTransaction) | inputs, payments, fee, refusals, for four utilities | `InputsSound` `PaymentRight` `RefusedForCause` |

With each property, and often with each of its parts, `PROJECT.json` ("mutants")
names a change of the model, of the kind a slip in the code would be, that makes
TLC find it violated under the same configuration.

Some of the results deserve a word.

* `Exact` has four parts. `ViewExact` compares caches and stores together with the
  chain at *every* step inside a block; `RestExact` compares the stores alone
  whenever no flush is under way; `NoPaymentVanishes` looks at one store in the
  middle of a flush; `NoFalseHalt` says that the handler misses no output.
  `NoOutputLost` is what is left when a kill does fall inside a flush: deletions
  come after insertions and the height comes last, so a replay may find too
  many outputs or halt, but what the chain never spends stays.
* `Stops` of the pipeline describes the hang rather than denying it: a handler that died
  of a missing output leaves the collector behind a full channel, for good
  (`HungBehindDeadHandler`), and a process that was told to stop hangs in no other way.
* `CheckpointSound` contains `LossBounded`: the checkpoint of the fast phase may
  outrun blocks that are not stored, but each of those has been fetched, and is
  held by another goroutine or waits in the channel. A kill at that moment loses
  them for good.
* `RecordedOnce` has an exception, a withdrawal of ETH, which is looked up in
  the collection of deposits; it can be there twice and no more.
* `PassesNothing` is as strong as the calls allow: All.History takes the sync
  number first and then queries, so a block committed in between is answered
  by the next call, but a block that is *collected again* after a restart may
  be passed by. For eth, rows that are there before the number covers them are
  answered too, so that a cursor may run ahead of the number; such blocks are in `raced`.
* `Registered` is the conjunction of what must be true of two stores that no transaction
  joins: an address that was answered has its row (two calls of Multisig.Create for one
  address may leave two, which the model counts as one, but none is lost: who removes
  inserts again), and what the collector takes for a contract eth_collect keeps the
  token transfers of. Once a request fails, or is refused, which nobody looks at, they
  may part for good (`failed`).
  Of two workers that import the same new address of eth, the second ends with an error,
  because of the unique key, and tells eth_collect nothing; the first does.
* `ListFresh`, in `AnswersTrue`, excepts a worker whose last read failed: the clock is
  set before the file is opened (sim_api.py:986), so that it then gives the list it
  had, or at first the empty one, for another 60 seconds.
* `EthAsMined`, in `AnswersTrue`, is what is left of finality for eth: an answer is kept as
  soon as there is a receipt, so that it is stale once the block is replaced (`replaced` is
  history), and its first half, of an earlier request, may still say that the transaction
  is not in a block, for good and without any reorganisation.
* `StopsAtNextBlock` says what SIGINT really does: the consumer sits in `q.get`
  without a timeout, and looks at `stop_flag` only when a block comes.
* Where a property begins with `~failed` or `~silent`, the code does not keep it
  once a call has failed; section 7 says how. What holds even then is stated without:
  `OnlyFinalBlocks`, `NeverAhead`, `OnlyConfirmed`, `NeverMixed`, `OncePerProcess`, `OneRow`,
  `Stops`.

## 4. Bounds

* utxo_index: three blocks, four transactions, five outputs. The outputs are
  chosen so that every case of the handler occurs: spent in the block that
  creates it, in the next one, after a flush, never. Windows of all lengths occur,
  as the fast phase may end at any count. The invariants are also proved for
  every chain (6), so here the bound matters for liveness only. The chain lists
  parents first, so it may be one of BCH or not; of BCH, a replay after a kill
  inside a flush finds inputs that are gone, puts them off and asks the node for
  them. utxo_service: two blocks of BCH, in which a child precedes its parent; two owners, one coin
  below the dust limit, and a list cut after two.
* pipeline: channels of 3, batches of 5 in chunks of 2, heights 1 to 12 in the fast
  phase and up to four more in the low one; the handler may die at 2, at 9, or, in the
  low phase, at 14. Batches fill up, are cut with none or some heights in
  them, both channels run full, and no counter of the code is compared with
  anything but these sizes.
* mongo: four heights of at most two transfers, a head that is not collected and may be
  replaced once, a queue of one, two starts (so that one restart meets whatever the
  first process left), one failing write. The queue of the code is longer; one is
  enough to have a block in the queue, one in hand and one in a flush thread.
* usdt: six blocks, batches of two and a rest of one, two starts. bk: two contracts, three
  blocks, a window of one block, two starts.
* eth_collect: two collectors and three handlers, so that one handler may overtake two and
  exit blocks must be passed on; three blocks, a checkpoint at every second, channels of
  two, so that they run full. One process is followed, which starts from
  anything an earlier one can have left.
* eth_sync: four blocks in rounds of two, so that rounds overlap and the last one is
  short; two starts, one failing call, two coroutines. Rows of one transaction are
  counted up to three, one more than any property allows.
* history: five blocks. Of btc, windows of two, with two deposits in a block, a withdrawal in
  the next and a deposit behind an empty window, so that the cursor falls on, before and
  after a transfer. Of eth, windows of one behind a base of one, with a deposit and a guard
  call in block 2, and a withdrawal in block 4, behind an empty window; rows run up to three
  blocks ahead of the number, which is more than a window, and what eth_sync shows
  (`Round + 1`, with rounds of two).
* service_caches: two workers. Two transactions asked for and one broadcast, a chain of four
  blocks of which the last may be replaced. One address to register, in lists of up to two,
  four times in all, so that two lists of two overlap at every step, or one call meets what
  two others have left; a token that is listed and one that is not. Two lists of senators,
  remembered for two seconds; two claims, one of them good. Balances up to 1200 with two or
  three decimals, so that there are fewer digits than decimals, as many, and more, and zeros
  at both ends. Time stops counting where nothing compares with it any more, so it has
  no bound.
* create_transaction: none to five (btm six, usdt four) outputs with four or five possible
  values, up to three destinations, one of which may be the wallet itself. Values
  and fees are chosen around the boundaries: change of dust and one more, fee equal to
  and above the reserve, wallets of as many outputs as the thresholds and one more.
* tx_classifier: all transactions of up to two inputs and three outputs. The function looks
  for one sender and one receiver, so two of each kind is one more than it accepts. Two
  addresses are watched, another is not, and a fourth is that of a witness program; of BTM,
  an input or output may be of another asset or none. Amounts have two decimals, with one
  digit or three, and sums of up to three outputs.
* `MaxBoots` (starts of a process) and `Top` (the chain) bound the infinite
  executions; every guard that uses them is marked in its module.

## 5. Fairness, deadlock and assumptions

Fairness is weak and per thread or goroutine, because Go's scheduler and the
operating system run everything that can go on: `WF` of the index's steps, of
`Main`/`Collect`/`Handle`, of `Produce`/`Consume`/`Flush`, of each collector and handler.
`Grow`, `NewBlocks` and `Publish` are fair because chains grow (up to `Top`);
`Boot` where an operator or supervisor starts the process again. A request to a node
has an end because `SafeLinkHttpFunc` and `WalletApi` repeat it until it has. Nothing
obliges a signal, a kill, a fault, a reorganisation or a registration to happen. In the history
run it is the service that answers. In `AddressBook` calls that have begun go on, and the
collector comes to refresh its addresses again, as it does after each block at the end of
the chain. The one strong fairness is in `BroadcastCache`: clients keep sending a transaction, which
is the assumption of the property and not of the code (a `Submit` is enabled only
when no cached answer is found).

`CHECK_DEADLOCK FALSE` stands where the system really comes to rest: a collector
that has been stopped and will not be started again (`MaxBoots`), a transaction that
has been classified, a `create_transaction` that has answered. Deadlock is checked for
the UTXO index and its service, the history calls and the calls that keep something; in
`AddressBook` `AtRest` stands for the service that goes on when the bound of the calls is
reached.

Assumptions, each named in its module:

* `ChainShape`, `ChainRules`: what consensus guarantees of a chain.
* `FinalityAssumption` of MongoCollector: a reorganisation is not deeper than
  the confirmations the collector waits for, `MaxReorg <= Safe + 1`; of TrxCache: not
  deeper than those queryTrans asks for. Without it nothing could be right.
  The Go collector gives reorganisations no thought at all beyond its safe count,
  and neither does its model.
* `ProcessorAssumption` of EthCollector: at least as many handlers as collectors. The
  code has 3 collectors and NumCPU + 1 handlers, so it speaks of a machine with
  two processors or more.
* `ClassifierAssumption`: no multisig address that is watched is of a witness program, as
  those of the service are not; two witness programs have two scripts; in the BTC family
  there is one asset; and what the outputs of a transaction add up to is a number the
  model has a text for (`MaxUnits`).
* `WalletAssumption` of UtxoService: there are finitely many outputs, and amounts are
  naturals.
* `HistoryAssumption`, `AddressAssumption`, `MemoryAssumption`, `TrxAssumption`,
  `BalanceAssumption`: there is something to ask for, and windows, addresses, times and
  decimals are what the code takes them for.
* `ConfigAssumption` of CreateTransaction: amounts are positive, sizes and fees naturals; a
  wallet is not filled up with more outputs than make it large (8 and 5, 15 and 10 in
  the code); btm may take as many inputs as it fills up to; what the node of btm
  estimates is 10 or more, so that a tenth of it, which is added, is not zero; and usdt
  reserves a fee.
* In EthSync the genesis block holds no transaction.

A data race on a plain `bool` (`is_done`) is modelled as a read at any later step.
A power failure, in which the operating system loses writes it has
acknowledged, is not modelled: kills stop the process only.

## 6. The proofs

Each `...Proofs` module EXTENDS the components it is about and proves, for every value of
its constants that satisfies the assumptions named in section 5, what the run of the
component checks on one instance. Nothing else is assumed. In each there is one lemma per
action, or per goroutine, that says that a step keeps the inductive invariant; the module's
last part draws the theorems from it. Each inductive invariant was an invariant of a TLC
run before it was proved.

`UtxoIndexProofs`, for every chain of `ChainShape` and `ChainRules`, BCH or not (`isBch`):

* `TypeCorrect`: `Spec => []TypeOK`. `TypeOK` is inductive with the help of
  lemmas on the chain (`ChainTyped`, `BlockEndFacts`); it keeps the cursor inside
  the block in hand.
* `OutputsKept`: `Spec => []NoOutputLost`, kills inside a flush included. The
  invariant `LostInv` adds to it that only outputs some transaction spends are
  ever noted for deletion (`SpentOnly`), that an output created so far and never
  spent is in a cache or in both stores, in the order in which a flush writes
  them (`KeptInv`), and where the fast phase ends (`FastEnd`). `NoOutputLost` by
  itself is not inductive: it does not say what is still in memory when a flush is
  about to empty it.
* `IndexCorrect`: `Spec => []Exact`. The invariant `ExactInv` says, while `intact`,
  what caches and stores hold at rest (`AtRest`), in the middle of a block
  (`Caching`, `View`, `InBlock`), and after each of the five batches of a flush
  (`InFlush`), and that inputs of a block are gone through in an order the chain
  allows (`Order`).
* `IndexImplementsLedger`: `Spec => ImplementsLedger`. Every step maps to a
  commit of the ledger (`FlushHeight`) or leaves it as it is, by `ExactInv`, until
  a kill falls inside a flush.
* `CoinsListedRight`: `ServiceSpec => []ListExact`, of the index with a client. A step of
  the service is a step of the index or of the client (`ServiceRunsIndex`), so that
  `Exact` carries over. `ClientInv` keeps what a reply was right about when it was
  given; it stays right because heights and what is unspent at them do not change.
* `BalancesBetweenHeights`: `ServiceSpec => []BalanceInBounds`. A reply is right when it is
  given: at every step of a flush the store by address has all coins of one of the two
  heights and none but those of both (`BalanceNow`, from `NoPaymentVanishes`), and a sum over
  more coins is no smaller (`SumOfGrows`). It stays right as a list does.

`BlockPipelineProofs`, for every capacity, size of batches and chunk:

* `FlowCorrect`, `PipelineOrderly`: `Spec => []Orderly`. What is on its way, in the order
  blockChan, batch, heightChan, is one run of consecutive heights between what the handler
  got last and what main feeds next (`RunInv`); where tokens are, and that they are the last
  in their channel (`TokenInv`); what a batch holds at each step (`BatchInv`). `InOrder`
  alone knows nothing of what waits in the channels.
* `PipelineNeverStuck`: as long as the process is not over, one of the goroutines can go
  on, but behind a dead handler or at the end of the chain. It is stated with the guards of
  the steps (`MainCan`, `CollectCan`, `HandleCan`), since ENABLED is out of reach; the point
  is that no fetching goroutine waits on another in a circle (`SomeFetch`).
* `PipelineImplementsFeed`: `Spec => ImplementsFeed`.

`MongoCollectorProofs`, for every coin, chain, capacity and depth of confirmation:

* `CollectorCorrect`. The blocks between the node and the tables have consecutive numbers,
  of which the first is the sync number or the next one (`NumberInv`); they are final
  (`FlightInv`, `TablesFinal`); what each thread has at each step (`ThreadInv`); who is
  watched when (`WatchInv`); which rows are in the tables for blocks before, at and behind
  the first one that is not stored (`RowsInv`, `DocsInv`). None of the properties is
  inductive without the blocks in flight.
* `FinalBlocksOnly`: `[]OnlyFinalBlocks`, whatever fails. `TransfersStoredExact`: the part of
  `StoredExact` that is about transfers, for every coin; `TablesStoredExact`: all of it,
  under `OwnTag`, without which it is not true (7).
* `CollectorImplementsLog`: `Spec => ImplementsTransferLog`. The steps of flush threads map
  to those that write a transfer or commit a block, the clearing to a restart.

`EthCollectorProofs`, for any number of goroutines, given `ProcessorAssumption`:

* `FlowCorrect`. Every height that was fed is in one place: in a channel, with one collector,
  with one handler, or in the tables (`HandInv`, `StoreInv`). Heights are read in the
  order in which they are fed, so that the checkpoint has none before it that still waits
  (`MarkInv`). The rest counts tokens: those in a channel, those not yet sent and those
  taken add up to the collectors (`FastFeed`), and before any block in blockChan there are
  fewer of them than collectors (`FastExit`), which is why the handlers cannot all have
  left when a block comes. This is an argument on cardinalities, and the one a test would
  hardly find.
* `AllFedStored`: `[]FedIsStored`; `CheckpointIsSound`: `[]CheckpointSound`.

`EthSyncProofs`, for any number of coroutines and length of a round:

* `SyncCorrect`. Until a call fails there is one coroutine (`Alone`), and the invariant says at
  each of its steps what is recorded of the block in hand (`ItemInv`) and of those before
  (`RoundInv`), and that a withdrawal of ETH is recorded above the sync number at most once,
  or else the boundary block, which is read twice, could leave three (`LeftBefore`).
* `SyncIsSound`: `[]SyncSound`; `OnceRecorded`: `[]RecordedOnce`; `SyncImplementsLog`:
  `Spec => ImplementsEthLog`.

`UsdtBkProofs`, the other two collectors of this side. For UsdtCollector, any chain, queue
and size of batches:

* `UsdtCorrect`. As long as every request has got its result, the blocks between the node and
  the tables (greenlets, queue, block in hand, flush thread) have consecutive numbers, of which
  the first is the sync number or the next one (`NumberInv`); a batch is complete when its
  greenlets are done (`BatchInv`); no block in flight is unconfirmed (`ConfirmedInv`); blocks
  before the first are in the tables once, those behind it not at all (`RowsInv`).
* `UsdtStoredExact`: `[]StoredExact`. `UsdtImplementsLog`: `Spec => ImplementsTransferLog`.

For BkCollector, any contracts and window:

* `BookCorrect`, `[]BookSound`, by the invariant that a contract whose rows are old is
  listed, about to be inserted, or late enough to be listed in the next round (`CoverInv`).
* `BookOnlyReplaced`, an action property: rows are taken out only when others that are as new
  wait to be inserted.

In `MongoCollectorProofs` too, for transactions of any number of inputs and outputs:

* `KindsAreRight`, `ClassifySpec => []KindsRight`, and `RowsAreExact`,
  `ClassifySpec => []RowsExact`. The invariant `ScanInv` says at each input and output what
  the loops have seen of those before it: which addresses have spent (`InInv`), which
  were paid, and how much each (`OutInv`), when the transaction is invalid (`ValidInv`), and
  that nothing is recorded yet (`OpenInv`). When the loops are done it is compared with the
  comment of the functions, which speaks of all inputs and outputs at once (`SpendersSeen`,
  `PaymentsSeen`, `KindRight`). The amount of a row is a text; that it is worth the sum of
  the outputs is `AmountRight`, by the lemmas on digits below.

`ServiceProofs` is about `sim_api.py`. Of its history calls, for any transfers and windows:

* `HistoryCorrect`, `NothingPassed`: `[]PassesNothing`. A caller's answer can only become
  incomplete by a row that is written later, so that the invariant says which rows may
  still come (`ComesLater`), which numbers are ahead (`Ahead`), and what a query that is
  under way has found and has still to find (`Finds`).

Of what its workers keep, for any number of workers, lists, transactions and decimals; the
parts share no state, so each has its invariant:

* `AnswersAreTrue`: `[]AnswersTrue`. An answer that is about to be kept is as good as one that
  is kept (`Sure`), and a block that is deep enough stays (`FinalityAssumption`). The text of
  a balance is worth what was counted, for every balance and every number of decimals.
* `AnswersGivenAgain`: `NoResubmission`, an action property.
* `BookRegistered`: `[]Registered`. The invariant follows each call through its list, of which
  the items done are registered until the call of another removes them, who then has to insert
  them again.

Of the creation of transactions, for any wallet, any request and any configuration of
`ConfigAssumption`. `CreateInv` has a part for each utility; common to them is what the
inputs are while they are chosen: taken from the largest on, or one that pays for all, none
twice, and never stopped before all is paid for or the wallet is used up.

* `InputsAreSound`: `[]InputsSound`. The crux is `FillersRight`: those of the last outputs that
  are in use already are left out, so that what is added is new.
* `PaymentsAreRight`: `[]PaymentRight`. The change and the outputs add up to the inputs less
  the fee, or less no more than dust (`ChangePaid`), a size that is rounded up is paid for
  (`RoundedUpPays`), and adding to an output, or one more of them, changes their sum by that
  much (`SumOfRaised`, `SumOfExtended`).
* `RefusalsHaveCause`: `[]RefusedForCause`. A wallet that is used up is worth what all its
  outputs are; what is added afterwards is not less than nothing.

`DataLemmas` has what these proofs need to know of data: the sum over a finite set
(`MapThenSumSet`), which does not depend on the set the recursion began with (`SumUnique`),
grows with the set and splits into parts; the value of a sequence of digits
(`ValueOfAppend`, `LeadingZeros`); that `Digits` has the value of its number (`DigitsRight`);
and what the texts of `Amounts` are worth (`TextBelowOne`, `TextAboveOne`). Both sums and
digits are recursive, and the induction theorems of the library cannot be applied here (they
take an operator). The induction is done in first-order form instead: a set of naturals
that is not empty has a smallest element (`Smallest`, from `WFMin` and
`NatLessThanWellFounded`), so a set that has 0, and n + 1 with each n, has all (`Inductive`);
and that the recursive function exists at all is shown by the same means, for longer and longer
beginnings of it.

With these, each safety invariant that a run checks is stated by a theorem, and so are the
refinements and `NoResubmission`.

Only model-checked: liveness, and with it `Stops`, `CatchesUp`, `Reaches`, `BookFollows`,
`StopsAtNextBlock`, `Resubmitted` and `Watches`. Fairness is stated with ENABLED, which these
provers do not handle.

## 7. Where code and text disagree

Met while modelling. The models do what the code does; the properties are worded so
that they hold of it, and the third column says what in them is due to the
disagreement.

| Text | Code | In the models |
|---|---|---|
| `collect_btc_block.py:8`: collecting starts from the last block that was committed successfully | a flush thread that dies of an exception goes unnoticed, and the next flush writes the number past the hole | `failed` in `StoredExact` and `ImplementsTransferLog` of MongoCollector |
| `collect_btc_block.py:101`: block data of the last round are cleared | documents bear chainId "btc" for every coin, the clearing looks for the coin's own | `OwnTag`, TRUE in the run: it speaks of BTC. With FALSE, documents are doubled and `StoredExact` is violated |
| `collect_btc_block.py:317-321`: one LINK *address* among the outputs makes a deposit | outputs are counted, not addresses: two outputs to the same one make it invalid | `Unsplit` in `DepositRecorded` |
| `eth_data_collector/collector_app.py:50`: the data of the last round are cleared | only rows with chainId "eth", in two of the three collections | `RecordedOnce` holds for another reason: rows are looked for before they are inserted |
| `collector_app.py:7`: the number is that of the last block committed successfully | an insert that fails is printed and passed over, and the round committed | `failed` in `BelowSyncRecorded` and `RecordedOnce` |
| `collector_app.py:102`: after an exception, again in 60 seconds | the loop goes on at once, and a second coroutine joins it in 60 seconds | `Coroutines`, `Timer` |
| `collect_usdt_block.py:191`: after an exception, again in 60 seconds | the message of line 182 raises before the batch is set back, so that its blocks are left out | `silent` in `BelowSyncStored`, `ImplementsTransferLog`, `CatchesUp` |
| `collect_btc_block.py:317-321`: LINK addresses among vout | an input that spends a witness output is known by its script in hex (line 595), an output by its address, so that change to a witness address is taken for a payment | `ChangeSeen` in `WithdrawalExact`, `DepositAmountExact` |
| `collect_usdt_block.py:366`: "only one other LINK address" | a send to oneself is recorded as a deposit | `Owed` asks nothing of it |
| `sim_btc_utils.py:228`: a fee above the maximum is an error | with full_send the fee is replaced by the maximum before it is compared | `CalFee <= Fee` in `PayeesPaid` |
| `usdt_utils.py:210`: the same | without change what the inputs are worth beyond the reserve goes to the network | no upper bound in `PaysForSize` of UsdtSelection |
| `usdt_utils.py:175`: an insufficient balance is an error | a string is compared with a number, which in Python 2 is never less | no balance among the causes of `RefusedForCause` |

Not contradicted by a text, but worth knowing:

* All.History does not know `"btm"` (sim_api.py:1155), so that its number is 0: a caller
  with 0 is told of the first 1000 blocks, and one with any other number, if there is
  anything behind it, gets no window and an answer without a block number.
* All.History takes 0 as 6500000 for eth, so that a caller who starts with 0 is not told of
  earlier blocks (`AskedFrom`).
* Multisig.Add calls a method that no utility defines and always answers with an error.

## 8. What is not modelled

* The address history of btc_collect: `add_addr_trx_releation` returns at once
  (main.go:740) and the list it would fill is never filled (main.go:807), so that the files
  are not written any more, and only counters are. With them the calls that read it.
* The parsing of blocks, scripts and addresses; encodings and file offsets.
* Of eth_collect: which transactions are of interest, `RemoveExpired`, the calls of its RPC
  service that read, and inserts that fail one by one within a block.
* Of the Python ETH collector: what the rows hold. A transaction is its kind.
* Of the BTM collector: the requests to its node. Threads, cache and flushes are those
  of the BTC family.
* queryTrans for hc: an answer is the decoded transaction, which does not say where it is, and
  is kept by a field of the inputs that only its node defines.
* In the service Multisig.Add (7), Configuration.Set, which is one insert under a unique key,
  and calls that are one request to a node or one query.
* Code nobody calls: parts of `eth_data_collector/collector_app.py` that are commented out
  or replaced by `collect_data_cb`, `collect_money` of `eth_utils`, `btc_utils`,
  `ltc_utils`, `doge_utils`, `etp_utils`, and `service/models.py`.
* Requests: a fetch ends, fails, or has not ended yet. Thin wrappers in `utils/`
  that send one request are left out, as are generated code, configuration,
  start-up.

## 9. The plan

Order: what decides about money first. Done: the UTXO index with its abstract ledger,
service and proofs (Chain, UtxoLedger, UtxoIndex, UtxoService, UtxoIndexProofs);
the pipeline under it (BlockFeed, BlockPipeline); the collectors (MongoCollector,
TxClassifier with BTM, UsdtCollector, BkCollector, EthCollector, EthSync) with what readers
see of them (TransferLog, EthLog); the service (HistoryApi with eth, TrxCache,
BroadcastCache, AddressBook, ServiceMemory, BalanceApi, ServiceCaches); transaction creation
(CoinSelection and its variants, CreateTransaction).

To be modelled next:

1. eth_collect and EthSync composed: checkpoint, rows and the reader of both, who sees
   a height before the rows of its block are all there (collector_app.py:99);
   inserts of one block that fail one by one; `RemoveExpired` against a slow reader.
2. A node that lags behind the stored height when the index starts (main.go:1228).

To be proved next: that `TransferLog` and `EthLog` compose with `HistoryApi`, that is, that
a caller of the history passes by nothing although the rows are those of a collector; the
two refinements and `NothingPassed` are the parts of it.
