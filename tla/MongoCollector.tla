---------------------------- MODULE MongoCollector ----------------------------
(***************************************************************************)
(* btc_data_collector/collect_btc_block.py, which also serves LTC, DOGE,   *)
(* HC, BCH, UB and BTM: CollectBlockThread fetches confirmed blocks into   *)
(* a queue; do_collect_app picks the transfers of the watched addresses    *)
(* out of each block and starts a flush thread that writes the block, its  *)
(* deposits, its withdrawals and at last the sync block number to MongoDB. *)
(* The service registers new addresses meanwhile, the coin's chain grows   *)
(* and reorganises, and the process may be stopped or killed at any step.  *)
(*                                                                         *)
(* A transfer is a kind (the table it belongs to) and a watched address;   *)
(* how a transaction is classified is not the matter of this module.       *)
(***************************************************************************)
EXTENDS Integers, Sequences, FiniteSets

CONSTANTS
    Addr,        \* addresses the service may register
    Top,         \* the height the coin's chain grows to
    Transfers,   \* [Heights -> SUBSET Move]: what each block holds
    Safe,        \* SAFE_BLOCK_FIELD: blocks that must follow one to collect it
    QueueCap,    \* the producer pauses above this queue size (10)
    MaxReorg,    \* the deepest reorganisation of the chain, in blocks
    OwnTag,      \* the block documents bear this coin's chainId
    MaxBoots     \* bound on how often the process is started

Heights == 0..Top
Forks   == {0, 1}     \* a block may be replaced once
Move    == [kind : {"deposit", "withdraw"}, addr : Addr]
Never   == Top + 1

ASSUME CollectorAssumption ==
    /\ Top \in Nat /\ Safe \in Nat /\ QueueCap \in Nat /\ MaxReorg \in Nat
    /\ MaxBoots \in Nat \ {0}
    /\ OwnTag \in BOOLEAN
    /\ Transfers \in [Heights -> SUBSET Move]

\* Blocks buried this deep are not replaced: SAFE_BLOCK_FIELD is chosen for it.
ASSUME FinalityAssumption == MaxReorg <= Safe + 1

VARIABLES
    head,         \* the node's getblockcount
    fork,         \* which block the chain has at each height
    registered,   \* the multisig address table of the coin
    dueFrom,      \* history: the height from which on every transfer of an
                  \* address has to be recorded; Never while nothing is promised
    syncNum,      \* b_config, SYNC_BLOCK_NUM
    docs,         \* b_block: documents by height and fork
    rows,         \* b_deposit_transaction, b_withdraw_transaction
    producer,     \* CollectBlockThread: "clear" -> "start" -> "poll" <-> "fetch"
    nextNum,      \* last_sync_block_num
    syncing,      \* sync_status of the thread
    queue,        \* q
    consumer,     \* do_collect_app: "loop" -> "get" -> "handle" -> "flush" -> "refresh"
    inHand,       \* the block taken out of q, then with its transfers
    catchUp,      \* sync_status of the collector, copied before the flush
    watched,      \* multisig_address_cache
    flushes,      \* the running flush threads
    stopFlag,     \* stop_flag of the collector
    boots,        \* starts of the process
    failed        \* history: a write to MongoDB has failed

chain     == <<head, fork>>
addresses == <<registered, dueFrom>>
mongo     == <<syncNum, docs, rows>>
fetching  == <<producer, nextNum, syncing>>
handling  == <<consumer, inHand, catchUp, watched>>
vars == <<chain, addresses, mongo, fetching, queue, handling, flushes, stopFlag, boots, failed>>

Block == [num : Heights, fork : Forks]
Batch == [num : Heights, fork : Forks, moves : SUBSET Move,
          step : {"block", "deposit", "withdraw", "config"}]
NoBlock == [num |-> 0, fork |-> 0, moves |-> {}]

TypeOK ==
    /\ head \in Heights /\ fork \in [Heights -> Forks]
    /\ registered \subseteq Addr /\ dueFrom \in [Addr -> 0..Never]
    /\ syncNum \in Heights
    /\ docs \in [Heights \X Forks -> Nat]
    /\ rows \in [Heights \X Forks \X Move -> Nat]
    /\ producer \in {"off", "clear", "start", "poll", "fetch"}
    /\ nextNum \in Heights /\ syncing \in BOOLEAN
    /\ queue \in Seq(Block) /\ Len(queue) <= QueueCap + 1
    /\ consumer \in {"off", "loop", "get", "handle", "flush", "refresh", "join"}
    /\ inHand \in [num : Heights, fork : Forks, moves : SUBSET Move]
    /\ catchUp \in BOOLEAN /\ watched \subseteq Addr
    /\ flushes \subseteq Batch /\ Cardinality(flushes) <= 1
    /\ stopFlag \in BOOLEAN /\ boots \in 0..MaxBoots /\ failed \in BOOLEAN

Init ==
    /\ head = 0 /\ fork = [h \in Heights |-> 0]
    /\ registered = {} /\ dueFrom = [a \in Addr |-> Never]
    /\ syncNum = 0                                    \* mgmt/init_db.js
    /\ docs = [x \in Heights \X Forks |-> 0]
    /\ rows = [x \in Heights \X Forks \X Move |-> 0]
    /\ producer = "off" /\ nextNum = 0 /\ syncing = TRUE
    /\ queue = <<>>
    /\ consumer = "off" /\ inHand = NoBlock /\ catchUp = TRUE /\ watched = {}
    /\ flushes = {} /\ stopFlag = FALSE /\ boots = 0 /\ failed = FALSE

-----------------------------------------------------------------------------
(* The coin node and the service.                                          *)

Grow ==
    /\ head < Top
    /\ head' = head + 1
    /\ UNCHANGED <<fork, addresses, mongo, fetching, queue, handling, flushes, stopFlag, boots, failed>>

\* The last blocks are replaced by as many others.  Bound: once.
Reorganise ==
    /\ \E d \in 1..MaxReorg :
         LET replaced == {h \in Heights : head - d < h /\ h <= head} IN
         /\ \A h \in Heights : fork[h] = 0
         /\ fork' = [h \in Heights |-> IF h \in replaced THEN 1 ELSE fork[h]]
    /\ UNCHANGED <<head, addresses, mongo, fetching, queue, handling, flushes, stopFlag, boots, failed>>

\* Promise the transfers from height h on of the addresses in S.
Promise(S, h) ==
    dueFrom' = [a \in Addr |-> IF a \in S /\ h < dueFrom[a] THEN h ELSE dueFrom[a]]

\* The service stores a new multisig address.  Its transfers are due from the
\* next block on, unless the collector is still catching up: then only once it
\* has, or is started again.
Register(a) ==
    /\ a \notin registered
    /\ registered' = registered \cup {a}
    /\ Promise(IF producer = "off" \/ ~syncing THEN {a} ELSE {}, head + 1)
    /\ UNCHANGED <<chain, mongo, fetching, queue, handling, flushes, stopFlag, boots, failed>>

-----------------------------------------------------------------------------
(* CollectBlockThread.                                                     *)

\* Bound: one write or removal fails in an execution.
MayFail == ~failed

\* Mutant of Stale: off by one.
StaleBeyond(h) == h > syncNum

\* What clear_last_garbage_data removes.
Stale(h) == h >= syncNum

\* clear_last_garbage_data: the block documents of other coins than BTC bear the
\* wrong chainId and match no query; an exception ends the removals.
ClearGarbage ==
    /\ producer = "clear"
    /\ nextNum' = syncNum
    /\ \E removed \in {{"block", "deposit", "withdraw"}}
                       \cup (IF MayFail THEN {{}, {"block"}, {"block", "deposit"}} ELSE {}) :
         /\ docs' = [x \in Heights \X Forks |->
                       IF Stale(x[1]) /\ OwnTag /\ "block" \in removed THEN 0 ELSE docs[x]]
         /\ rows' = [x \in Heights \X Forks \X Move |->
                       IF Stale(x[1]) /\ x[3].kind \in removed THEN 0 ELSE rows[x]]
         /\ failed' = (failed \/ "withdraw" \notin removed)
    /\ producer' = "start"
    /\ UNCHANGED <<chain, addresses, syncNum, syncing, queue, handling, flushes, stopFlag, boots>>

\* process_blocks sets SYNC_STATE_FIELD, which nothing here reads.
StartCollecting ==
    /\ producer = "start"
    /\ producer' = "poll"
    /\ UNCHANGED <<chain, addresses, mongo, nextNum, syncing, queue, handling, flushes,
                   stopFlag, boots, failed>>

\* Mutants of Confirmed: off by one, either way.
ConfirmedTooEarly(h) == h <= head - Safe
ConfirmedTooLate(h)  == h < head - Safe - 1

\* last_sync_block_num >= latest_block_num does not hold.
Confirmed(h) == h < head - Safe

\* The first time nothing is left to fetch, the thread is done catching up, for
\* as long as it runs.
Poll ==
    /\ producer = "poll" /\ consumer # "join"
    /\ IF Confirmed(nextNum)
         THEN producer' = "fetch" /\ UNCHANGED <<syncing, dueFrom>>
         ELSE syncing' = FALSE /\ Promise(registered, head + 1) /\ UNCHANGED producer
    /\ UNCHANGED <<chain, registered, mongo, nextNum, queue, handling, flushes, stopFlag, boots, failed>>

\* Above the size the thread pauses and polls again.
Fetch ==
    /\ producer = "fetch"
    /\ IF Len(queue) > QueueCap
         THEN UNCHANGED <<queue, nextNum>>
         ELSE /\ queue' = Append(queue, [num |-> nextNum, fork |-> fork[nextNum]])
              /\ nextNum' = nextNum + 1
    /\ producer' = "poll"
    /\ UNCHANGED <<chain, addresses, mongo, syncing, handling, flushes, stopFlag, boots, failed>>

Produce == ClearGarbage \/ StartCollecting \/ Poll \/ Fetch

-----------------------------------------------------------------------------
(* do_collect_app, on the main thread.                                     *)

\* A start of the process.
Boot ==
    /\ producer = "off" /\ boots < MaxBoots
    /\ boots' = boots + 1
    /\ watched' = registered
    /\ producer' = "clear" /\ consumer' = "loop"
    /\ Promise(registered, syncNum)
    /\ UNCHANGED <<chain, registered, mongo, nextNum, syncing, queue, inHand, catchUp, flushes,
                   stopFlag, failed>>

\* The head of the loop: after a stop the thread is told to stop, and joined.
Loop ==
    /\ consumer = "loop"
    /\ consumer' = IF stopFlag THEN "join" ELSE "get"
    /\ UNCHANGED <<chain, addresses, mongo, fetching, queue, inHand, catchUp, watched, flushes,
                   stopFlag, boots, failed>>

\* q.get, which waits for a block whatever stop_flag says.
Get ==
    /\ consumer = "get" /\ queue # <<>>
    /\ inHand' = [num |-> Head(queue).num, fork |-> Head(queue).fork, moves |-> {}]
    /\ queue' = Tail(queue)
    /\ consumer' = "handle"
    /\ UNCHANGED <<chain, addresses, mongo, fetching, catchUp, watched, flushes, stopFlag, boots, failed>>

\* Pick the transfers of watched addresses, then copy the thread's sync_status.
Handle ==
    /\ consumer = "handle"
    /\ inHand' = [inHand EXCEPT !.moves = {m \in Transfers[inHand.num] : m.addr \in watched}]
    /\ catchUp' = syncing
    /\ consumer' = "flush"
    /\ UNCHANGED <<chain, addresses, mongo, fetching, queue, watched, flushes, stopFlag, boots, failed>>

\* Mutant of Joinable: the old flush thread is not joined.
JoinableAlways == TRUE

\* flush_thread.join() returns.
Joinable == flushes = {}

\* flush_to_db: join the old flush thread, start a new one.
StartFlush ==
    /\ consumer = "flush" /\ Joinable
    /\ flushes' = flushes \cup {[num |-> inHand.num, fork |-> inHand.fork,
                                 moves |-> inHand.moves, step |-> "block"]}
    /\ inHand' = NoBlock
    /\ consumer' = IF catchUp THEN "loop" ELSE "refresh"
    /\ UNCHANGED <<chain, addresses, mongo, fetching, queue, catchUp, watched, stopFlag, boots, failed>>

\* _update_cache: addresses are added, never taken away.
Refresh ==
    /\ consumer = "refresh"
    /\ watched' = watched \cup registered
    /\ consumer' = "loop"
    /\ UNCHANGED <<chain, addresses, mongo, fetching, queue, inHand, catchUp, flushes,
                   stopFlag, boots, failed>>

\* The process is gone, with everything it has in memory.
Gone ==
    /\ producer' = "off" /\ consumer' = "off" /\ flushes' = {} /\ queue' = <<>>
    /\ nextNum' = 0 /\ syncing' = TRUE /\ inHand' = NoBlock /\ catchUp' = TRUE
    /\ watched' = {} /\ stopFlag' = FALSE
    /\ UNCHANGED <<chain, addresses, mongo, boots, failed>>

\* Mutant of ThreadStopped: join without stop.
ThreadStoppedNever == FALSE

\* collect_thread.stop, after which the thread leaves its loop at the next turn.
ThreadStopped == consumer = "join" /\ producer = "poll"

\* collect_thread.join; the interpreter then waits for the flush thread and ends.
Exit == ThreadStopped /\ flushes = {} /\ Gone

Consume == Loop \/ Get \/ Handle \/ StartFlush \/ Refresh \/ Exit

\* SIGINT
Stop ==
    /\ consumer # "off" /\ ~stopFlag
    /\ stopFlag' = TRUE
    /\ UNCHANGED <<chain, addresses, mongo, fetching, queue, handling, flushes, boots, failed>>

\* The process is killed, at any step and in the middle of a flush.
Kill == consumer # "off" /\ Gone

-----------------------------------------------------------------------------
(* flush_process, on a thread of its own.                                  *)

\* Mutant of StepAfter: the number is written before the transfers.
StepAfterEarly(s) ==
    CASE s = "block" -> "config" [] s = "config" -> "deposit" [] s = "deposit" -> "withdraw"
      [] s = "withdraw" -> "done"

StepAfter(s) ==
    CASE s = "block" -> "deposit" [] s = "deposit" -> "withdraw" [] s = "withdraw" -> "config"
      [] s = "config" -> "done"

\* The thread at its next step, or gone.
Onward(f) ==
    IF StepAfter(f.step) = "done" THEN {} ELSE {[f EXCEPT !.step = StepAfter(f.step)]}

FlushStep(f) ==
    /\ docs' = [x \in Heights \X Forks |->
                  IF f.step = "block" /\ x = <<f.num, f.fork>> THEN docs[x] + 1 ELSE docs[x]]
    /\ rows' = [x \in Heights \X Forks \X Move |->
                  IF x[3].kind = f.step /\ x[1] = f.num /\ x[2] = f.fork /\ x[3] \in f.moves
                  THEN rows[x] + 1 ELSE rows[x]]
    /\ syncNum' = IF f.step = "config" THEN f.num ELSE syncNum
    /\ flushes' = (flushes \ {f}) \cup Onward(f)
    /\ UNCHANGED <<chain, addresses, fetching, queue, handling, stopFlag, boots, failed>>

\* An exception of the driver ends the thread, and nobody looks at it.
FlushFails(f) ==
    /\ MayFail
    /\ flushes' = flushes \ {f}
    /\ failed' = TRUE
    /\ UNCHANGED <<chain, addresses, mongo, fetching, queue, handling, stopFlag, boots>>

Flush == \E f \in flushes : FlushStep(f)

-----------------------------------------------------------------------------
Next ==
    \/ Grow \/ Reorganise \/ \E a \in Addr : Register(a)
    \/ Boot \/ Produce \/ Consume \/ Stop \/ Kill
    \/ Flush \/ \E f \in flushes : FlushFails(f)

Spec == Init /\ [][Next]_vars

\* The operating system runs every thread that can go on, the wallet answers
\* (WalletApi retries for ever), the chain grows, and somebody starts the
\* process again.
FairSpec ==
    Spec /\ WF_vars(Grow) /\ WF_vars(Boot) /\ WF_vars(Produce) /\ WF_vars(Consume)
         /\ WF_vars(Flush)

-----------------------------------------------------------------------------
(* What must hold.                                                         *)

Docs(h) == docs[<<h, 0>>] + docs[<<h, 1>>]

\* The transfers that must be recorded.
Due(h) == {m \in Transfers[h] : h >= dueFrom[m.addr]}

\* A block is stored whole: one document, of the block the chain has at that
\* height, every transfer that is due exactly once, no other twice, and none of
\* a block the chain has dropped.
Whole(h) ==
    /\ docs[<<h, fork[h]>>] = 1 /\ Docs(h) = 1
    /\ \A m \in Move : rows[<<h, fork[h], m>>] \in (IF m \in Due(h) THEN {1} ELSE {0, 1})
    /\ \A m \in Move : rows[<<h, 1 - fork[h], m>>] = 0

\* The number in b_config is that of the last block committed successfully:
\* every block before it is stored whole, through kills, restarts, addresses
\* registered meanwhile and reorganisations, until a write fails.
BelowSyncWhole == ~failed => \A h \in 0..(syncNum - 1) : Whole(h)

\* Readers never see anything of a block further ahead than the next one.
OneBlockAhead ==
    ~failed => \A h \in (syncNum + 2)..Top :
        Docs(h) = 0 /\ \A k \in Forks, m \in Move : rows[<<h, k, m>>] = 0

\* When a new process starts collecting, nothing is left of the blocks it is
\* going to collect again.
GarbageCleared ==
    producer = "start" /\ ~failed =>
        \A h \in syncNum..Top :
            Docs(h) = 0 /\ \A k \in Forks, m \in Move : rows[<<h, k, m>>] = 0

\* Until a write fails the tables agree with the number in b_config: blocks below
\* it are whole, those after the next one are absent, and a new process has
\* taken out all that it collects again.
StoredExact == TypeOK /\ BelowSyncWhole /\ OneBlockAhead /\ GarbageCleared

\* Nothing is ever stored of a block that the chain has dropped, or drops later,
\* whatever writes fail.
OnlyFinalBlocks ==
    \A h \in Heights :
        docs[<<h, 1 - fork[h]>>] = 0 /\ \A m \in Move : rows[<<h, 1 - fork[h], m>>] = 0

\* A collector that is left to run collects all that is confirmed.
CatchesUp ==
    <>[](consumer # "off" /\ ~stopFlag) => <>(syncNum = Top - Safe - 1 \/ failed)

\* After SIGINT the process ends, or sits in q.get until another block comes.
StopsAtNextBlock ==
    stopFlag ~> (consumer = "off" \/ (consumer = "get" /\ queue = <<>>))

-----------------------------------------------------------------------------
(* What readers of MongoDB see, in the terms of module TransferLog.        *)

\* The last committed block is on its way through the collector once more.
CollectingAgain ==
    \/ nextNum = syncNum
    \/ \E i \in DOMAIN queue : queue[i].num = syncNum
    \/ consumer \in {"handle", "flush"} /\ inHand.num = syncNum
    \/ \E f \in flushes : f.num = syncNum

LogRow == [block : Heights, kind : {"deposit", "withdraw"}, addr : Addr, fork : Forks]

\* The rows a query finds.
Present ==
    {r \in LogRow : rows[<<r.block, r.fork, [kind |-> r.kind, addr |-> r.addr]>>] > 0}

Phase ==
    CASE producer \in {"off", "clear"} -> "down"
      [] producer \notin {"off", "clear"} /\ CollectingAgain -> "again"
      [] OTHER -> "on"

Log == INSTANCE TransferLog WITH
    Row <- LogRow, sync <- syncNum, present <- Present, phase <- Phase

\* The readers' view: transfers appear in block order, only those of the block in
\* turn, none disappears but when a collector starts, and the number moves to a
\* block when its transfers are in.
ImplementsTransferLog == Log!LogInit /\ [][~failed' => Log!LogNext]_(Log!log)
===============================================================================
