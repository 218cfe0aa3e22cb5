---------------------------- MODULE UsdtCollector ----------------------------
(***************************************************************************)
(* omni_data_collector/collect_usdt_block.py: as MongoCollector, but the   *)
(* producer fetches COLLECT_THREAD blocks at a time with one greenlet for  *)
(* each, and the transactions are those of the Omni layer.                 *)
(*                                                                         *)
(* Reorganisations, SIGINT and addresses registered meanwhile are treated  *)
(* in MongoCollector and left out here, as are the block documents; the    *)
(* watched addresses are fixed.                                            *)
(***************************************************************************)
EXTENDS Integers, Sequences, FiniteSets

CONSTANTS
    Addr,
    Watched,     \* multisig_address_cache
    Property,    \* the properties (tokens) of the Omni layer
    Usdt,        \* PROPERTYID
    None,        \* a field the node's answer does not have
    Top,         \* the height the chain grows to
    Txs,         \* [Heights -> SUBSET Tx]
    Safe,        \* SAFE_BLOCK_FIELD
    CollectThread,
    QueueCap,    \* the producer pauses above this queue size (10)
    MaxBoots     \* bound on how often the process is started

Heights == 0..Top

\* type_int, propertyid, ecosystem, the properties of subsends, valid, and the
\* sending and the reference address.
Tx == [type : {0, 4, 50, None}, property : Property \cup {None},
       ecosystem : {"main", "test", None}, subsends : SUBSET Property,
       valid : BOOLEAN, from : Addr, to : Addr]

Row == [block : Heights, kind : {"deposit", "withdraw"}, tx : UNION {Txs[h] : h \in Heights}]

ASSUME UsdtAssumption ==
    /\ Top \in Nat /\ Safe \in 0..Top /\ QueueCap \in Nat
    /\ CollectThread \in Nat \ {0} /\ MaxBoots \in Nat \ {0}
    /\ Usdt \in Property /\ Watched \subseteq Addr
    /\ DOMAIN Txs = Heights /\ \A h \in Heights : Txs[h] \subseteq Tx

VARIABLES
    head,        \* the node's getblockcount
    syncNum,     \* b_config, "usdtsyncblocknum"
    rows,        \* b_deposit_transaction, b_withdraw_transaction: rows by Row
    producer,    \* CollectBlockThread: "clear" -> "poll" <-> "join"
    nextNum,     \* last_sync_block_num
    startId,     \* start_id of the batch, which ends before nextNum
    running,     \* its greenlets
    datas,       \* the blocks they have fetched
    queue,       \* q
    consumer,    \* do_collect_app: "get" -> "flush"; "dead" after an exception
    inHand,      \* the block taken out of q, and what is recorded of it
    flushes,     \* the running flush threads
    boots,       \* starts of the process
    silent       \* history: a request was left without a result

mongo    == <<syncNum, rows>>
fetching == <<producer, nextNum, startId, running, datas>>
handling == <<consumer, inHand>>
vars == <<head, mongo, fetching, queue, handling, flushes, boots, silent>>

Batch   == [num : Heights, rows : SUBSET Row]
Writing == [num : Heights, rows : SUBSET Row, step : {"deposit", "withdraw", "config"}]
NoBlock == [num |-> 0, rows |-> {}]

TypeOK ==
    /\ head \in Heights /\ syncNum \in Heights
    /\ rows \in [Row -> Nat]
    /\ producer \in {"off", "clear", "poll", "join"}
    /\ nextNum \in 0..(Top - Safe) /\ startId \in Heights
    /\ running \subseteq Heights /\ datas \subseteq Heights
    /\ queue \in Seq(Heights) /\ Len(queue) <= QueueCap + CollectThread
    /\ consumer \in {"off", "get", "flush", "dead"}
    /\ inHand \in Batch
    /\ flushes \subseteq Writing /\ Cardinality(flushes) <= 1
    /\ boots \in 0..MaxBoots /\ silent \in BOOLEAN

Init ==
    /\ head = 0 /\ syncNum = 0 /\ rows = [r \in Row |-> 0]
    /\ producer = "off" /\ nextNum = 0 /\ startId = 0 /\ running = {} /\ datas = {}
    /\ queue = <<>> /\ consumer = "off" /\ inHand = NoBlock
    /\ flushes = {} /\ boots = 0 /\ silent = FALSE

Grow ==
    /\ head < Top
    /\ head' = head + 1
    /\ UNCHANGED <<mongo, fetching, queue, handling, flushes, boots, silent>>

-----------------------------------------------------------------------------
(* CollectBlockThread.                                                     *)

ClearGarbage ==
    /\ producer = "clear"
    /\ nextNum' = syncNum
    /\ rows' = [r \in Row |-> IF r.block >= syncNum THEN 0 ELSE rows[r]]
    /\ producer' = "poll"
    /\ UNCHANGED <<head, syncNum, startId, running, datas, queue, handling, flushes, boots, silent>>

Latest == head - Safe

\* Mutants of BatchSize: always a whole batch; the rest waits for more.
BatchSizeWhole == CollectThread
BatchSizeRest  == IF Latest - nextNum > CollectThread THEN CollectThread ELSE 0

BatchSize == IF Latest - nextNum > CollectThread THEN CollectThread ELSE 1

\* Start the greenlets of a batch, if there is something confirmed to fetch and
\* room in the queue.
Spawn ==
    /\ producer = "poll" /\ nextNum < Latest /\ Len(queue) <= QueueCap
    /\ startId' = nextNum
    /\ nextNum' = nextNum + BatchSize
    /\ running' = nextNum..(nextNum + BatchSize - 1)
    /\ datas' = {}
    /\ producer' = "join"
    /\ UNCHANGED <<head, mongo, queue, handling, flushes, boots, silent>>

\* collect_block_and_cache, in any order; an answer without a result raises an
\* exception that ends the greenlet.
Greenlet(h) ==
    /\ h \in running
    /\ running' = running \ {h}
    /\ \/ datas' = datas \cup {h} /\ UNCHANGED silent
       \/ silent' = TRUE /\ UNCHANGED datas
    /\ UNCHANGED <<head, mongo, producer, nextNum, startId, queue, handling, flushes, boots>>

\* Mutant of Batched: the blocks as they are in the table of the answers.
BatchedBackwards == [k \in 1..(nextNum - startId) |-> nextNum - k]

\* datas[start_id + i], in order.
Batched == [k \in 1..(nextNum - startId) |-> startId + k - 1]

\* joinall.  If one is missing, putting the error message together raises an
\* exception before last_sync_block_num is set back; process_blocks starts again
\* with the block after the batch.
JoinAll ==
    /\ producer = "join" /\ running = {}
    /\ queue' = IF Cardinality(datas) = nextNum - startId THEN queue \o Batched ELSE queue
    /\ startId' = 0 /\ datas' = {}
    /\ producer' = "poll"
    /\ UNCHANGED <<head, mongo, nextNum, running, handling, flushes, boots, silent>>

Produce == ClearGarbage \/ Spawn \/ JoinAll \/ \E h \in running : Greenlet(h)

-----------------------------------------------------------------------------
(* collect_pretty_transaction.                                             *)

\* A transaction of the wanted property: a simple send of it, or a "send all" of
\* the main ecosystem that includes it.
IsOfUsdt(tx) ==
    \/ tx.type = 0 /\ tx.property = Usdt
    \/ tx.type = 4 /\ tx.ecosystem = "main" /\ Usdt \in tx.subsends

\* Mutant of KindOf: who sends is looked at first.
KindOfSender(tx) ==
    CASE ~tx.valid \/ {tx.from, tx.to} \cap Watched = {} -> "nothing"
      [] tx.valid /\ tx.from \in Watched -> "withdraw"
      [] tx.valid /\ tx.from \notin Watched /\ tx.to \in Watched -> "deposit"

\* What is recorded: of a transfer between watched addresses a deposit; of an
\* invalid transaction nothing, whatever its type.
KindOf(tx) ==
    CASE ~tx.valid \/ {tx.from, tx.to} \cap Watched = {} -> "nothing"
      [] tx.valid /\ tx.to \in Watched -> "deposit"
      [] tx.valid /\ tx.from \in Watched /\ tx.to \notin Watched -> "withdraw"

\* do_collect_app skips the transactions of block 0.
Recorded(h) ==
    {[block |-> h, kind |-> KindOf(tx), tx |-> tx] :
        tx \in {t \in Txs[h] : h # 0 /\ IsOfUsdt(t) /\ KindOf(t) # "nothing"}}

-----------------------------------------------------------------------------
(* do_collect_app and flush_process.                                       *)

Boot ==
    /\ producer = "off" /\ boots < MaxBoots
    /\ boots' = boots + 1
    /\ producer' = "clear" /\ consumer' = "get"
    /\ UNCHANGED <<head, mongo, nextNum, startId, running, datas, queue, inHand, flushes, silent>>

Get ==
    /\ consumer = "get" /\ queue # <<>>
    /\ queue' = Tail(queue)
    /\ \/ /\ inHand' = [num |-> Head(queue), rows |-> Recorded(Head(queue))]
          /\ consumer' = "flush"
          /\ UNCHANGED silent
       \/ \* omni_gettransaction has no result, which is taken for a transaction
          Txs[Head(queue)] # {} /\ consumer' = "dead" /\ silent' = TRUE /\ UNCHANGED inHand
    /\ UNCHANGED <<head, mongo, fetching, flushes, boots>>

\* Join the old flush thread, start a new one.
StartFlush ==
    /\ consumer = "flush" /\ flushes = {}
    /\ flushes' = {[num |-> inHand.num, rows |-> inHand.rows, step |-> "deposit"]}
    /\ inHand' = NoBlock
    /\ consumer' = "get"
    /\ UNCHANGED <<head, mongo, fetching, queue, boots, silent>>

After(s) == IF s = "deposit" THEN "withdraw" ELSE "config"

FlushStep(f) ==
    /\ rows' = [r \in Row |-> IF r \in f.rows /\ r.kind = f.step THEN rows[r] + 1 ELSE rows[r]]
    /\ syncNum' = IF f.step = "config" THEN f.num ELSE syncNum
    /\ flushes' = IF f.step = "config" THEN flushes \ {f}
                  ELSE (flushes \ {f}) \cup {[f EXCEPT !.step = After(f.step)]}
    /\ UNCHANGED <<head, fetching, queue, handling, boots, silent>>

Kill ==
    /\ producer # "off"
    /\ producer' = "off" /\ nextNum' = 0 /\ startId' = 0 /\ running' = {} /\ datas' = {}
    /\ queue' = <<>> /\ consumer' = "off" /\ inHand' = NoBlock /\ flushes' = {}
    /\ UNCHANGED <<head, mongo, boots, silent>>

Consume == Get \/ StartFlush

Flush == \E f \in flushes : FlushStep(f)

-----------------------------------------------------------------------------
Next == Grow \/ Boot \/ Produce \/ Consume \/ Flush \/ Kill

Spec == Init /\ [][Next]_vars

\* The operating system runs the threads, the chain grows, the process is started.
FairSpec ==
    Spec /\ WF_vars(Grow) /\ WF_vars(Boot) /\ WF_vars(Produce) /\ WF_vars(Consume)
         /\ WF_vars(Flush)

-----------------------------------------------------------------------------
(* What must hold.                                                         *)

\* The comment of collect_pretty_transaction: deposits to a watched address,
\* withdrawals from one, and transfers to "only one other" one, if valid.
Owed(tx) ==
    CASE IsOfUsdt(tx) /\ tx.valid /\ tx.to \in Watched /\ tx.from # tx.to -> "deposit"
      [] IsOfUsdt(tx) /\ tx.valid /\ tx.from \in Watched /\ tx.to \notin Watched -> "withdraw"
      [] OTHER -> "nothing"

\* Every block up to the sync number has its transfers in the tables, once each;
\* but the last may have to be collected again.  A request without a result may
\* leave a hole.
BelowSyncStored ==
    ~silent => \A h \in 1..(syncNum - 1) : \A tx \in Txs[h] :
        Owed(tx) # "nothing" => rows[[block |-> h, kind |-> Owed(tx), tx |-> tx]] = 1

\* The batches stay below the confirmed height: nothing is collected of a block
\* that may still be replaced, whatever the node leaves without a result.
OnlyConfirmed ==
    /\ syncNum = 0 \/ syncNum < Latest
    /\ \A r \in Row : rows[r] > 0 => r.block < Latest

\* The tables agree with the sync number, and both stay below the blocks that may
\* still be replaced.
StoredExact == TypeOK /\ BelowSyncStored /\ OnlyConfirmed

\* The last committed block is on its way through the collector once more.
CollectingAgain ==
    \/ nextNum = syncNum
    \/ producer = "join" /\ startId = syncNum
    \/ \E k \in DOMAIN queue : queue[k] = syncNum
    \/ consumer = "flush" /\ inHand.num = syncNum
    \/ \E f \in flushes : f.num = syncNum

LogRow == UNION {Recorded(h) : h \in Heights}

Present == {r \in Row : rows[r] > 0}

Phase ==
    CASE producer \in {"off", "clear"} -> "down"
      [] producer \notin {"off", "clear"} /\ CollectingAgain -> "again"
      [] OTHER -> "on"

Log == INSTANCE TransferLog WITH
    Row <- LogRow, sync <- syncNum, present <- Present, phase <- Phase

\* Batches of greenlets that end in any order, kills and restarts: readers see
\* one block after the other.
ImplementsTransferLog == Log!LogInit /\ [][~silent' => Log!LogNext]_(Log!log)

\* A collector that is left to run, and gets its answers, collects all that is
\* confirmed.
CatchesUp == <>[](consumer # "off") => <>(syncNum = Top - Safe - 1 \/ silent)
=============================================================================
