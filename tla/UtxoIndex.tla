------------------------------ MODULE UtxoIndex ------------------------------
(***************************************************************************)
(* The UTXO index of go_collector_services/btc_collect/main.go: the block  *)
(* handler (handle_block), its write-back caches, the multi-step flush_db  *)
(* over three LevelDB stores that share no transaction, the run of main    *)
(* around it, shutdown, and a kill of the process at any step.             *)
(*                                                                         *)
(* Blocks reach the handler in order, one height after the other; module   *)
(* BlockPipeline is about that.  RPC readers (server.go) read addrDb and   *)
(* height at any time, so what they may see is a matter of state           *)
(* invariants.  A batch of writes is one step; the code's batches hold 300 *)
(* keys in map order, here they are any sets of keys.  The index keys of   *)
(* an output (cal_utxo_prefix, cal_addr_utxo_prefix) are both determined   *)
(* by the output, so all four caches and both stores are sets of outputs.  *)
(***************************************************************************)
EXTENDS Chain

VARIABLES
    utxoCache,    \* utxo_cache: outputs created since the last flush
    utxoSpent,    \* utxo_spent_cache: stored outputs spent since then
    addrCache,    \* addr_utxo_cache
    addrSpent,    \* addr_utxo_spent_cache
    utxoDb,       \* unspent_utxo_db, by output
    addrDb,       \* addr_unspent_utxo_db, by address and output
    height,       \* config_db "height"
    lastHeight,   \* last_height
    count,        \* count / old_count of main: blocks below it are to be fed
    phase,        \* "fast" until main has caught up once, then "low"
    pc,           \* where the goroutine that owns the caches is
    after,        \* who called flush_db: the handler's loop, its exit, or main
    cursor,       \* transactions of the chain up to the one handled next
    handled,      \* inputs of the current transaction already gone through
    deferred,     \* bak_handle_vins: inputs put off to the end of the block
    isDone,       \* is_done
    isBch,        \* ChainType is "BCH"; the configuration does not change
    intact        \* history: no kill inside flush_db, no start at a node that
                  \* reports a count equal to the stored height

caches  == <<utxoCache, utxoSpent, addrCache, addrSpent>>
stores  == <<utxoDb, addrDb, height>>
control == <<lastHeight, count, phase, pc, after, cursor, handled, deferred, isDone>>
vars    == <<caches, stores, control, isBch, intact>>

FlushSteps == {"put", "del", "aput", "adel", "height"}
Steps      == {"off", "idle", "tx", "dead", "main"} \cup FlushSteps

\* The block in hand; only meaningful while pc = "tx".
Block == lastHeight + 1

\* The transactions main has fed so far never reach past count.
Fed == Block < count

TypeOK ==
    /\ utxoCache \subseteq Output /\ utxoSpent \subseteq Output
    /\ addrCache \subseteq Output /\ addrSpent \subseteq Output
    /\ utxoDb \subseteq Output /\ addrDb \subseteq Output
    /\ height \in Heights /\ lastHeight \in Heights
    /\ count \in 1..(MaxHeight + 1)
    /\ phase \in {"fast", "low"}
    /\ pc \in Steps
    /\ after \in {"idle", "exit", "main"}
    /\ cursor \in 0..NumTx
    /\ handled \subseteq Output /\ deferred \subseteq Output
    /\ isDone \in BOOLEAN /\ intact \in BOOLEAN
    /\ isBch \in BOOLEAN /\ (~isBch => ParentsFirst)
    /\ pc = "tx" => Block \in 1..MaxHeight /\ cursor <= BlockEnd[Block]

Init ==
    /\ utxoCache = {} /\ utxoSpent = {} /\ addrCache = {} /\ addrSpent = {}
    /\ lastHeight = 0 /\ count = 1 /\ phase = "fast"
    /\ pc = "off" /\ after = "idle"
    /\ cursor = 0 /\ handled = {} /\ deferred = {} /\ isDone = FALSE
    /\ utxoDb = {} /\ addrDb = {} /\ height = 0
    /\ isBch \in BOOLEAN /\ (~isBch => ParentsFirst)
    /\ intact = TRUE

-----------------------------------------------------------------------------
(* The process as a whole.                                                 *)

\* main: load the stored height, wait for a node whose safe block count is at
\* least that ("count >= height"), then start the fast phase.
Boot ==
    /\ pc = "off"
    /\ \E c \in 1..(MaxHeight + 1) :
          /\ c >= height
          /\ count' = c
          /\ intact' = (intact /\ c # height)
    /\ lastHeight' = height
    /\ phase' = "fast" /\ pc' = "idle" /\ isDone' = FALSE
    /\ UNCHANGED <<caches, stores, after, cursor, handled, deferred, isBch>>

\* The low phase polls the node; new safe blocks are fed up to the count.
NewBlocks ==
    /\ phase = "low" /\ pc # "off" /\ ~isDone
    /\ \E c \in 1..(MaxHeight + 1) : c > count /\ count' = c
    /\ UNCHANGED <<caches, stores, lastHeight, phase, pc, after, cursor,
                   handled, deferred, isDone, isBch, intact>>

\* SIGINT or SIGTERM.
Signal ==
    /\ pc # "off" /\ ~isDone
    /\ isDone' = TRUE
    /\ UNCHANGED <<caches, stores, lastHeight, count, phase, pc, after, cursor,
                   handled, deferred, isBch, intact>>

\* What dies with the process.
LoseMemory ==
    /\ utxoCache' = {} /\ utxoSpent' = {} /\ addrCache' = {} /\ addrSpent' = {}
    /\ lastHeight' = 0 /\ count' = 1 /\ phase' = "fast"
    /\ pc' = "off" /\ after' = "idle"
    /\ cursor' = 0 /\ handled' = {} /\ deferred' = {} /\ isDone' = FALSE

\* The process is killed: memory is lost, the three stores keep what they have.
Kill ==
    /\ pc # "off"
    /\ LoseMemory
    /\ intact' = (intact /\ pc \notin FlushSteps)
    /\ UNCHANGED <<stores, isBch>>

-----------------------------------------------------------------------------
(* handle_block.                                                           *)

ReceiveBlock ==
    /\ pc = "idle" /\ Fed
    /\ cursor' = BlockEnd[lastHeight]
    /\ handled' = {} /\ deferred' = {}
    /\ pc' = "tx"
    /\ UNCHANGED <<caches, stores, lastHeight, count, phase, after, isDone, isBch, intact>>

\* Mutant of Found: the store is asked, the cache is not.
FoundInStore(o) == o \in utxoDb

\* get_utxo: the cache, then the store; utxo_spent_cache is not consulted.
Found(o) == o \in utxoCache \cup utxoDb

\* Mutant of SpentUtxo: a cached output is queued for deletion but stays cached.
SpentUtxoNoCancel(o) ==
    /\ utxoSpent' = utxoSpent \cup {o}
    /\ addrSpent' = addrSpent \cup {o}
    /\ UNCHANGED <<utxoCache, addrCache>>

\* spent_utxo: an output still in a cache is cancelled there, any other is
\* queued for deletion; the two indexes decide independently.
SpentUtxo(o) ==
    /\ utxoCache' = utxoCache \ {o}
    /\ utxoSpent' = IF o \in utxoCache THEN utxoSpent ELSE utxoSpent \cup {o}
    /\ addrCache' = addrCache \ {o}
    /\ addrSpent' = IF o \in addrCache THEN addrSpent ELSE addrSpent \cup {o}

InputsLeft == cursor < BlockEnd[Block] /\ handled # Vin[cursor + 1]

\* One input of the current transaction whose output is known.
SpendInput ==
    /\ pc = "tx" /\ InputsLeft
    /\ \E o \in Vin[cursor + 1] \ handled :
          /\ Found(o)
          /\ SpentUtxo(o)
          /\ handled' = handled \cup {o}
    /\ UNCHANGED <<stores, lastHeight, count, phase, pc, after, cursor,
                   deferred, isDone, isBch, intact>>

\* One whose output is not known: BCH puts it off to the end of the block.
DeferInput ==
    /\ pc = "tx" /\ InputsLeft /\ isBch
    /\ \E o \in Vin[cursor + 1] \ handled :
          /\ ~Found(o)
          /\ deferred' = deferred \cup {o}
          /\ handled' = handled \cup {o}
    /\ UNCHANGED <<caches, stores, lastHeight, count, phase, pc, after, cursor,
                   isDone, isBch, intact>>

\* Every other chain gives up: is_done is set and the handler returns in the
\* middle of the block, without a flush.
MissInput ==
    /\ pc = "tx" /\ InputsLeft /\ ~isBch
    /\ \E o \in Vin[cursor + 1] \ handled : ~Found(o)
    /\ isDone' = TRUE
    /\ pc' = "dead"
    /\ UNCHANGED <<caches, stores, lastHeight, count, phase, after, cursor,
                   handled, deferred, isBch, intact>>

\* add_utxo for every output of the transaction.
AddOutputs ==
    /\ pc = "tx" /\ cursor < BlockEnd[Block] /\ handled = Vin[cursor + 1]
    /\ utxoCache' = utxoCache \cup Vout[cursor + 1]
    /\ addrCache' = addrCache \cup Vout[cursor + 1]
    /\ cursor' = cursor + 1
    /\ handled' = {}
    /\ UNCHANGED <<utxoSpent, addrSpent, stores, lastHeight, count, phase, pc,
                   after, deferred, isDone, isBch, intact>>

\* An input that was put off.  If it is still unknown the node is asked for it:
\* it is added and spent at once, which leaves it in neither cache.
SettleInput ==
    /\ pc = "tx" /\ cursor = BlockEnd[Block]
    /\ \E o \in deferred :
          /\ IF Found(o)
               THEN SpentUtxo(o)
               ELSE /\ addrCache' = addrCache \ {o}
                    /\ UNCHANGED <<utxoCache, utxoSpent, addrSpent>>
          /\ deferred' = deferred \ {o}
    /\ UNCHANGED <<stores, lastHeight, count, phase, pc, after, cursor, handled,
                   isDone, isBch, intact>>

\* Mutant of BlockDone: inputs put off do not hold the block up.
BlockDoneUnsettled == cursor = BlockEnd[Block]

BlockDone == cursor = BlockEnd[Block] /\ deferred = {}

\* Mutant of MustFlush: the low phase flushes by weight, as the fast one does.
MustFlushNever == FALSE

MustFlush == phase = "low"

\* The block is done: the low phase always flushes, the fast phase when
\* change_weight has passed its threshold, which is left open.
FinishBlock ==
    /\ pc = "tx" /\ BlockDone
    /\ lastHeight' = Block
    /\ \/ pc' = "put" /\ after' = "idle"
       \/ ~MustFlush /\ pc' = "idle" /\ UNCHANGED after
    /\ UNCHANGED <<caches, stores, count, phase, cursor, handled, deferred,
                   isDone, isBch, intact>>

\* The exit token: it follows the last block main fed.  The feeding loop of the
\* fast phase stops early on is_done, that of the low phase only between polls.
ReceiveExit ==
    /\ pc = "idle"
    /\ \/ phase = "fast" /\ (isDone \/ ~Fed)
       \/ phase = "low" /\ isDone /\ ~Fed
    /\ pc' = "put" /\ after' = "exit"
    /\ UNCHANGED <<caches, stores, lastHeight, count, phase, cursor, handled,
                   deferred, isDone, isBch, intact>>

-----------------------------------------------------------------------------
(* flush_db.                                                               *)

\* Mutants of FlushNext: the address index deletes before it puts, never
\* deletes, or never puts.
FlushNextSwapped ==
    [put |-> "del", del |-> "adel", adel |-> "aput", aput |-> "height"]
FlushNextNoDelete ==
    [put |-> "del", del |-> "aput", aput |-> "height", adel |-> "height"]
FlushNextNoPut ==
    [put |-> "del", del |-> "adel", aput |-> "adel", adel |-> "height"]

\* The order of the flush: both stores put before they delete, the by-output
\* store comes first, and the height is stored when all else is.
FlushNext ==
    [put |-> "del", del |-> "aput", aput |-> "adel", adel |-> "height"]

\* One batch of puts of a cache into a store: some of the keys not there yet.
PutBatch(cache, db, b) ==
    /\ b \subseteq cache \ db
    /\ b = {} => cache \subseteq db

FlushPutUtxo ==
    /\ pc = "put"
    /\ \E b \in SUBSET utxoCache :
          /\ PutBatch(utxoCache, utxoDb, b)
          /\ utxoDb' = utxoDb \cup b
    /\ pc' = IF utxoCache \subseteq utxoDb' THEN FlushNext.put ELSE "put"
    /\ UNCHANGED <<caches, addrDb, height, lastHeight, count, phase, after,
                   cursor, handled, deferred, isDone, isBch, intact>>

\* One batch of deletes.
DeleteBatch(spent, db, b) ==
    /\ b \subseteq spent \cap db
    /\ b = {} => spent \cap db = {}

FlushDeleteUtxo ==
    /\ pc = "del"
    /\ \E b \in SUBSET utxoSpent :
          /\ DeleteBatch(utxoSpent, utxoDb, b)
          /\ utxoDb' = utxoDb \ b
    /\ pc' = IF utxoSpent \cap utxoDb' = {} THEN FlushNext.del ELSE "del"
    /\ UNCHANGED <<caches, addrDb, height, lastHeight, count, phase, after,
                   cursor, handled, deferred, isDone, isBch, intact>>

FlushPutAddr ==
    /\ pc = "aput"
    /\ \E b \in SUBSET addrCache :
          /\ PutBatch(addrCache, addrDb, b)
          /\ addrDb' = addrDb \cup b
    /\ pc' = IF addrCache \subseteq addrDb' THEN FlushNext.aput ELSE "aput"
    /\ UNCHANGED <<caches, utxoDb, height, lastHeight, count, phase, after,
                   cursor, handled, deferred, isDone, isBch, intact>>

FlushDeleteAddr ==
    /\ pc = "adel"
    /\ \E b \in SUBSET addrSpent :
          /\ DeleteBatch(addrSpent, addrDb, b)
          /\ addrDb' = addrDb \ b
    /\ pc' = IF addrSpent \cap addrDb' = {} THEN FlushNext.adel ELSE "adel"
    /\ UNCHANGED <<caches, utxoDb, height, lastHeight, count, phase, after,
                   cursor, handled, deferred, isDone, isBch, intact>>

\* The height is stored last and the caches are emptied.  From the handler's
\* loop control returns there; after its exit main goes on.
FlushHeight ==
    /\ pc = "height"
    /\ height' = lastHeight
    /\ utxoCache' = {} /\ utxoSpent' = {} /\ addrCache' = {} /\ addrSpent' = {}
    /\ pc' = IF after = "idle" THEN "idle" ELSE "main"
    /\ UNCHANGED <<utxoDb, addrDb, lastHeight, count, phase, after, cursor,
                   handled, deferred, isDone, isBch, intact>>

-----------------------------------------------------------------------------
(* main, once both goroutines have returned.                               *)

\* After the fast phase main flushes once more (main.go:1259).
MainFlush ==
    /\ phase = "fast"
    /\ \/ pc = "main" /\ after = "exit"
       \/ pc = "dead"
    /\ pc' = "put" /\ after' = "main"
    /\ UNCHANGED <<caches, stores, lastHeight, count, phase, cursor, handled,
                   deferred, isDone, isBch, intact>>

\* Mutant of ResumeHeight: an off-by-one.
ResumeHeightAtCount == count

\* main.go:1272: last_height = old_count-1.
ResumeHeight == count - 1

\* It then goes over to polling ...
StartLow ==
    /\ phase = "fast" /\ pc = "main" /\ after = "main" /\ ~isDone
    /\ phase' = "low" /\ pc' = "idle"
    /\ lastHeight' = ResumeHeight
    /\ UNCHANGED <<caches, stores, count, after, cursor, handled, deferred,
                   isDone, isBch, intact>>

\* ... or closes the stores and ends.  The low phase has no flush of main.
Close ==
    /\ \/ phase = "fast" /\ pc = "main" /\ after = "main" /\ isDone
       \/ phase = "low" /\ pc = "main"
       \/ phase = "low" /\ pc = "dead"
    /\ LoseMemory
    /\ UNCHANGED <<stores, isBch, intact>>

-----------------------------------------------------------------------------
HandleBlock ==
    \/ ReceiveBlock \/ SpendInput \/ DeferInput \/ MissInput
    \/ AddOutputs \/ SettleInput \/ FinishBlock \/ ReceiveExit

FlushDb ==
    \/ FlushPutUtxo \/ FlushDeleteUtxo \/ FlushPutAddr \/ FlushDeleteAddr
    \/ FlushHeight

Main == Boot \/ NewBlocks \/ MainFlush \/ StartLow \/ Close

Next == Main \/ HandleBlock \/ FlushDb \/ Signal \/ Kill

Spec == Init /\ [][Next]_vars

\* The goroutines are scheduled and the node's chain grows to its end; signals
\* and kills need not come.
FairSpec ==
    /\ Spec
    /\ WF_vars(Boot) /\ WF_vars(NewBlocks) /\ WF_vars(MainFlush)
    /\ WF_vars(StartLow) /\ WF_vars(Close)
    /\ WF_vars(HandleBlock) /\ WF_vars(FlushDb)

-----------------------------------------------------------------------------
(* What must hold.                                                         *)

\* The handler has gone through the inputs it counts as spent, except those
\* it put off.
SpentSoFar   == (Spent(cursor) \cup handled) \ deferred
AppliedSoFar == IF pc \in {"tx", "dead"} THEN Created(cursor) \ SpentSoFar
                                         ELSE UnspentAt(lastHeight)

\* What a store will hold once its two caches are flushed.
Pending(db, spent, cache) == (db \ spent) \cup cache

\* At every step of a block and of a flush, the stores together with the
\* caches (which get_utxo, spent_utxo and add_utxo use) stand for exactly the
\* chain applied so far, in both indexes: nothing is cancelled twice, deleted
\* and re-created, or left in one index only.
ViewExact ==
    intact /\ pc # "off" =>
        /\ Pending(utxoDb, utxoSpent, utxoCache) = AppliedSoFar
        /\ Pending(addrDb, addrSpent, addrCache) = AppliedSoFar

\* Whenever no flush is running, and whatever stops and kills came before
\* (none inside a flush), a restart finds in both stores exactly the outputs
\* unspent at the stored height.
RestExact ==
    intact /\ pc \notin FlushSteps =>
        utxoDb = UnspentAt(height) /\ addrDb = UnspentAt(height)

\* Kills at any step, replays of half-flushed blocks and halts included: an
\* output the chain creates by the stored height and never spends is in both
\* stores.
NoOutputLost ==
    Created(BlockEnd[height]) \ Spent(NumTx) \subseteq utxoDb \cap addrDb

\* ListUnSpent and GetBalance read one snapshot of addrDb, also in the middle
\* of a flush.  They see every coin of the old height or every coin of the
\* new one (new outputs are stored before spent ones go), and no other coin.
NoPaymentVanishes ==
    intact /\ pc # "off" =>
        /\ \/ UnspentAt(height) \subseteq addrDb
           \/ UnspentAt(lastHeight) \subseteq addrDb
        /\ addrDb \subseteq UnspentAt(height) \cup UnspentAt(lastHeight)

\* "UTXO not exist" stops the collector for good; on a chain that obeys its
\* rules this happens only after a kill inside a flush (or a node that lags).
NoFalseHalt == intact => pc # "dead"

\* The index is right at every step of a block, of a flush, of a stop and of a
\* start: to the handler that uses caches and stores together, to a process that
\* finds the stores at rest, to a client that reads one of them in the middle of
\* a flush, and so the handler never misses an output that the chain has.
Exact == ViewExact /\ RestExact /\ NoPaymentVanishes /\ NoFalseHalt

\* The index at rest, and as it was at the last flush while one is running,
\* implements the ledger of UtxoLedger, until a kill falls inside a flush.
Ledger == INSTANCE UtxoLedger WITH
            committed <- height,
            unspent   <- IF pc \in FlushSteps THEN UnspentAt(height) ELSE addrDb
ImplementsLedger ==
    Ledger!LedgerInit /\ [][intact' => Ledger!LedgerNext]_(Ledger!ledgerVars)

\* A collector that is left to run (the process is up and not told to stop
\* from some point on) brings the stored height up to the end of the chain.
CatchesUp ==
    <>[](pc # "off" /\ ~isDone) => <>(height = MaxHeight)
=============================================================================
