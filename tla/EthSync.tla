------------------------------- MODULE EthSync -------------------------------
(***************************************************************************)
(* eth_data_collector/collector_app.py: a Twisted coroutine reads, block   *)
(* by block, the transactions that eth_collect (module EthCollector) has   *)
(* stored for the watched contracts and guards, and records them in        *)
(* MongoDB, in rounds of at most SYNC_BLOCK_PER_ROUND blocks, each ended   *)
(* by writing the sync number.                                             *)
(*                                                                         *)
(* An action is what runs between two yields.  There is one coroutine,     *)
(* until a failing MongoDB raises an exception in it: it then goes on at   *)
(* once, and a second one starts 60 seconds later, over the same           *)
(* GlobalVariable.  A transaction is the kind of row it becomes.  Requests *)
(* to eth_collect are repeated until there is an answer.                   *)
(***************************************************************************)
EXTENDS Integers, FiniteSets

CONSTANTS
    Top,        \* the last block eth_collect comes to store
    Trxs,       \* [Heights -> SUBSET Kinds]: what each block holds
    Round,      \* SYNC_BLOCK_PER_ROUND (1000)
    Coroutines, \* bounds how many runs of do_collect_app there may be
    MaxBoots    \* bound on how often the process is started

Heights == 0..Top

\* A deposit of ETH or a token, a call of a guard, a withdrawal of ETH or a token.
EthKinds == {"eth in", "guard call", "eth out"}
ErcKinds == {"erc in", "erc out"}
Kinds    == EthKinds \cup ErcKinds

ASSUME EthSyncAssumption ==
    /\ Top \in Nat /\ Round \in Nat \ {0}
    /\ Trxs \in [Heights -> SUBSET Kinds]
    /\ Trxs[0] = {}                       \* the genesis block has no transactions
    /\ IsFiniteSet(Coroutines) /\ Coroutines # {} /\ MaxBoots \in Nat \ {0}

VARIABLES
    published,   \* config.trx_height of eth_collect
    syncNum,     \* b_config, "syncblocknum"
    rows,        \* rows in b_deposit_, b_withdraw_ and b_guardcall_transaction
    lastSync,    \* GlobalVariable.last_sync_block_num
    roundStart,  \* GlobalVariable.sync_start_per_round
    roundEnd,    \* GlobalVariable.sync_end_per_round
    pc,          \* per coroutine: "off", "state" -> "read" -> "clear in" ->
                 \* "clear out" -> "latest" -> ("fetch" -> ("find" -> "write")*)*
                 \* -> "persist" -> "latest", or "latest" -> "rest" -> "state"
    num,         \* last_sync_block_num of the clearing; the number to persist
    block,       \* block_num_fetch
    todo,        \* transactions of the block not yet handled
    item,        \* the one in hand
    found,       \* what find_one said of it
    timers,      \* pending calls of reactor.callLater(60, do_collect_app)
    boots,       \* starts of the process
    failed       \* history: a call to MongoDB or the node has failed

mongo    == <<syncNum, rows>>
globals  == <<lastSync, roundStart, roundEnd>>
inHand   == <<block, todo, item, found>>
vars == <<published, mongo, globals, pc, num, inHand, timers, boots, failed>>

TypeOK ==
    /\ published \in Heights /\ syncNum \in Heights
    /\ rows \in [Heights \X Kinds -> 0..3]
    /\ lastSync \in 0..(Top + 1) /\ roundStart \in 0..(Top + 1) /\ roundEnd \in Heights
    /\ pc \in [Coroutines -> {"off", "state", "read", "clear in", "clear out", "latest",
                              "fetch", "find", "write", "persist", "rest"}]
    /\ num \in [Coroutines -> 0..(Top + 1)]
    /\ block \in [Coroutines -> Heights]
    /\ todo \in [Coroutines -> SUBSET Kinds]
    /\ item \in [Coroutines -> Kinds] /\ found \in [Coroutines -> BOOLEAN]
    /\ timers \in 0..Cardinality(Coroutines) /\ boots \in 0..MaxBoots
    /\ failed \in BOOLEAN

Init ==
    /\ published = 0 /\ syncNum = 0       \* mgmt/init_db.js
    /\ rows = [x \in Heights \X Kinds |-> 0]
    /\ lastSync = 0 /\ roundStart = 0 /\ roundEnd = 0
    /\ pc = [c \in Coroutines |-> "off"] /\ num = [c \in Coroutines |-> 0]
    /\ block = [c \in Coroutines |-> 0] /\ todo = [c \in Coroutines |-> {}]
    /\ item = [c \in Coroutines |-> "eth in"] /\ found = [c \in Coroutines |-> FALSE]
    /\ timers = 0 /\ boots = 0 /\ failed = FALSE

\* eth_collect stores a block and then publishes its height.
Publish ==
    /\ published < Top
    /\ published' = published + 1
    /\ UNCHANGED <<mongo, globals, pc, num, inHand, timers, boots, failed>>

-----------------------------------------------------------------------------
(* The process.                                                            *)

Boot ==
    /\ \A c \in Coroutines : pc[c] = "off"
    /\ boots < MaxBoots
    /\ boots' = boots + 1
    /\ \E c \in Coroutines : pc' = [pc EXCEPT ![c] = "state"]
    /\ UNCHANGED <<published, mongo, globals, num, inHand, timers, failed>>

Kill ==
    /\ \E c \in Coroutines : pc[c] # "off"
    /\ pc' = [c \in Coroutines |-> "off"] /\ num' = [c \in Coroutines |-> 0]
    /\ block' = [c \in Coroutines |-> 0] /\ todo' = [c \in Coroutines |-> {}]
    /\ item' = [c \in Coroutines |-> "eth in"] /\ found' = [c \in Coroutines |-> FALSE]
    /\ lastSync' = 0 /\ roundStart' = 0 /\ roundEnd' = 0 /\ timers' = 0
    /\ UNCHANGED <<published, mongo, boots, failed>>

\* The timer starts another do_collect_app.
Timer ==
    /\ timers > 0
    /\ timers' = timers - 1
    /\ \E c \in Coroutines : pc[c] = "off" /\ pc' = [pc EXCEPT ![c] = "state"]
    /\ UNCHANGED <<published, mongo, globals, num, inHand, boots, failed>>

Running == {c \in Coroutines : pc[c] # "off"}

\* Bound: one call fails in an execution.
MayFail == ~failed

\* An exception in do_collect_app itself: the timer is set, and the outermost
\* loop goes round at once.
Raise(c) ==
    /\ MayFail /\ failed' = TRUE
    /\ pc[c] \in {"state", "read", "persist", "rest"}
    /\ Cardinality(Running) + timers < Cardinality(Coroutines)
    /\ timers' = timers + 1
    /\ pc' = [pc EXCEPT ![c] = "state"]
    /\ UNCHANGED <<published, mongo, globals, num, inHand, boots>>

-----------------------------------------------------------------------------
(* do_collect_app.                                                         *)

\* syncstate is written; nothing here reads it.
SetState(c) ==
    /\ pc[c] = "state"
    /\ pc' = [pc EXCEPT ![c] = "read"]
    /\ UNCHANGED <<published, mongo, globals, num, inHand, timers, boots, failed>>

\* Mutant of Resume: the block is counted on once too often.
ResumeFar == syncNum + 2

\* The block after the last one committed.
Resume == syncNum + 1

ReadSync(c) ==
    /\ pc[c] = "read"
    /\ num' = [num EXCEPT ![c] = Resume]
    /\ pc' = [pc EXCEPT ![c] = "clear in"]
    /\ UNCHANGED <<published, mongo, globals, inHand, timers, boots, failed>>

\* Mutant of Remove: the height is left out of the query.
RemoveAll(kind, from) ==
    rows' = [x \in Heights \X Kinds |-> IF x[2] = kind THEN 0 ELSE rows[x]]

\* Remove the rows of one kind from a height on; if that raises, the removals end.
Remove(kind, from) ==
    rows' = [x \in Heights \X Kinds |-> IF x[2] = kind /\ x[1] >= from THEN 0 ELSE rows[x]]

\* clear_last_garbage_data asks for rows with chainId "eth": those of tokens have
\* another one, and b_guardcall_transaction is not cleared at all.
ClearIn(c) ==
    /\ pc[c] = "clear in"
    /\ \/ /\ Remove("eth in", num[c])
          /\ pc' = [pc EXCEPT ![c] = "clear out"]
          /\ UNCHANGED <<lastSync, failed>>
       \/ /\ MayFail /\ failed' = TRUE
          /\ pc' = [pc EXCEPT ![c] = "latest"] /\ lastSync' = num[c]
          /\ UNCHANGED rows
    /\ UNCHANGED <<published, syncNum, roundStart, roundEnd, num, inHand, timers, boots>>

ClearOut(c) ==
    /\ pc[c] = "clear out"
    /\ \/ Remove("eth out", num[c]) /\ UNCHANGED failed
       \/ MayFail /\ failed' = TRUE /\ UNCHANGED rows
    /\ lastSync' = num[c]
    /\ pc' = [pc EXCEPT ![c] = "latest"]
    /\ UNCHANGED <<published, syncNum, roundStart, roundEnd, num, inHand, timers, boots>>

\* collect_data_cb goes on to the next block of the round that is s..e by now; at
\* the end of it, do_collect_app goes on to write the number.
NextBlock(c, s, e) ==
    IF s <= e
      THEN /\ block' = [block EXCEPT ![c] = s]
           /\ roundStart' = s + 1 /\ roundEnd' = e
           /\ pc' = [pc EXCEPT ![c] = "fetch"]
           /\ UNCHANGED <<num, lastSync>>
      ELSE /\ roundStart' = s /\ roundEnd' = e
           /\ lastSync' = e /\ num' = [num EXCEPT ![c] = e]
           /\ pc' = [pc EXCEPT ![c] = "persist"]
           /\ UNCHANGED block

\* Mutant of EndOfRound: the round may pass what is published.
EndOfRoundPast == IF lastSync + Round <= Top THEN lastSync + Round ELSE Top

\* Mutant of EndOfRound: the length of the round is not added.
EndOfRoundStill == IF lastSync >= published THEN published ELSE lastSync

EndOfRound == IF lastSync + Round >= published THEN published ELSE lastSync + Round

\* GetBlockHeight has answered.
Latest(c) ==
    /\ pc[c] = "latest"
    /\ IF lastSync >= published
         THEN /\ roundStart' = published /\ roundEnd' = published
              /\ pc' = [pc EXCEPT ![c] = "rest"]
              /\ UNCHANGED <<num, lastSync, block>>
         ELSE NextBlock(c, lastSync, EndOfRound)
    /\ UNCHANGED <<published, mongo, todo, item, found, timers, boots, failed>>

\* syncstate once more, and 5 seconds of sleep.
Rest(c) ==
    /\ pc[c] = "rest"
    /\ pc' = [pc EXCEPT ![c] = "state"]
    /\ UNCHANGED <<published, mongo, globals, num, inHand, timers, boots, failed>>

\* Mutant of Committed: the number asked for is written, not the end of the round.
CommittedAhead(c) == published

\* The end of the round that is done.
Committed(c) == num[c]

Persist(c) ==
    /\ pc[c] = "persist"
    /\ syncNum' = Committed(c)
    /\ pc' = [pc EXCEPT ![c] = "latest"]
    /\ UNCHANGED <<published, rows, globals, num, inHand, timers, boots, failed>>

-----------------------------------------------------------------------------
(* collect_data_cb: collect_block, eth_trx_store, trx_store_eth and _erc.  *)

\* Take the next transaction, those of ETH before those of tokens, or else the
\* next block.
NextItem(c, left) ==
    IF left # {}
      THEN /\ \E k \in (IF left \cap EthKinds # {} THEN left \cap EthKinds ELSE left) :
                item' = [item EXCEPT ![c] = k] /\ todo' = [todo EXCEPT ![c] = left \ {k}]
           /\ pc' = [pc EXCEPT ![c] = "find"]
           /\ UNCHANGED <<globals, num, block>>
      ELSE /\ todo' = [todo EXCEPT ![c] = {}]
           /\ NextBlock(c, roundStart, roundEnd)
           /\ UNCHANGED item

\* The two histories of the block.  GetErc20History answers with an empty list
\* if its query fails.
Fetch(c) ==
    /\ pc[c] = "fetch"
    /\ \/ NextItem(c, Trxs[block[c]]) /\ UNCHANGED failed
       \/ MayFail /\ failed' = TRUE /\ NextItem(c, Trxs[block[c]] \ ErcKinds)
    /\ UNCHANGED <<published, mongo, found, timers, boots>>

\* Mutant of IsKnown: the tokens' deposits are looked up in vain as well.
IsKnownNever(b, k) == k \notin {"eth out", "erc in"} /\ rows[<<b, k>>] > 0

\* The existing row is looked up by find_one; that of an ETH withdrawal in
\* b_guardcall_transaction, where it never is.
IsKnown(b, k) == k # "eth out" /\ rows[<<b, k>>] > 0

Find(c) ==
    /\ pc[c] = "find"
    /\ found' = [found EXCEPT ![c] = IsKnown(block[c], item[c])]
    /\ pc' = [pc EXCEPT ![c] = "write"]
    /\ UNCHANGED <<published, mongo, globals, num, block, todo, item, timers, boots, failed>>

\* Bound: more than three equal rows are not told apart.
Count(n) == IF n < 3 THEN n + 1 ELSE n

\* Insert, or update what was found if it is still there.
Write(c) ==
    /\ pc[c] = "write"
    /\ rows' = IF found[c] THEN rows ELSE [rows EXCEPT ![<<block[c], item[c]>>] = Count(@)]
    /\ found' = [found EXCEPT ![c] = FALSE]
    /\ NextItem(c, todo[c])
    /\ UNCHANGED <<published, syncNum, timers, boots, failed>>

\* An exception of find_one, of insert or about a missing answer of the node is
\* printed, and the next transaction taken.
Skip(c) ==
    /\ MayFail /\ failed' = TRUE
    /\ pc[c] \in {"find", "write"}
    /\ found' = [found EXCEPT ![c] = FALSE]
    /\ NextItem(c, todo[c])
    /\ UNCHANGED <<published, mongo, timers, boots>>

Step(c) ==
    \/ SetState(c) \/ ReadSync(c) \/ ClearIn(c) \/ ClearOut(c) \/ Latest(c) \/ Rest(c)
    \/ Persist(c) \/ Fetch(c) \/ Find(c) \/ Write(c)

-----------------------------------------------------------------------------
Next ==
    \/ Publish \/ Boot \/ Kill \/ Timer
    \/ \E c \in Coroutines : Raise(c) \/ Step(c) \/ Skip(c)

Spec == Init /\ [][Next]_vars

\* The reactor runs what can go on, requests are answered in the end, blocks are
\* published and somebody starts the process again.
FairSpec ==
    /\ Spec
    /\ WF_vars(Publish) /\ WF_vars(Boot) /\ WF_vars(Timer)
    /\ \A c \in Coroutines : WF_vars(Step(c))

-----------------------------------------------------------------------------
(* What must hold.                                                         *)

\* Through kills at any step, rounds of any length and the blocks that are read
\* twice: as long as every call succeeds, each transaction up to the sync number is
\* recorded.
BelowSyncRecorded ==
    ~failed => \A b \in 1..syncNum : \A k \in Trxs[b] : rows[<<b, k>>] > 0

\* As long as every call succeeds, nothing is recorded twice, although the last
\* block of a round is read again at the start of the next, and rows of tokens and
\* guard calls survive the clearing.  A withdrawal of ETH, which is looked up in
\* vain, may be there twice, but not more often.
RecordedOnce ==
    ~failed => \A b \in Heights, k \in Kinds :
        rows[<<b, k>>] <= (IF k = "eth out" THEN 2 ELSE 1)

\* The sync number and the rows never get ahead of what eth_collect has published,
\* whatever fails and however many coroutines share the round.
NeverAhead ==
    /\ syncNum <= published
    /\ \A b \in Heights, k \in Kinds : rows[<<b, k>>] > 0 => b <= published

\* Rounds that begin with the block the last one ended with: the sync number covers
\* only what is recorded, and neither it nor a row is ahead of eth_collect.
SyncSound == TypeOK /\ BelowSyncRecorded /\ NeverAhead

\* What the readers of MongoDB see.
LogRow  == {r \in [block : Heights, kind : Kinds] : r.kind \in Trxs[r.block]}
Present == {r \in [block : Heights, kind : Kinds] : rows[<<r.block, r.kind>>] > 0}
Phase   == IF \E c \in Coroutines : pc[c] \in {"latest", "fetch", "find", "write", "persist"}
             THEN "on" ELSE "down"

Log == INSTANCE EthLog WITH
    Row <- LogRow, Cleared <- {"eth in", "eth out"}, Ahead <- Round + 1,
    sync <- syncNum, present <- Present, phase <- Phase

\* As long as every call succeeds, readers see rows appear in the order of their
\* blocks, though blocks are read twice and cleared only in part; none disappears but
\* those above the sync number when a collector starts; and the number moves, by a
\* round at most, over blocks whose rows are all there.
ImplementsEthLog == Log!EthInit /\ [][~failed' => Log!EthNext]_(Log!ethLog)

\* A process that is left to run records all but perhaps the last block, which it
\* leaves until there is another.
CatchesUp ==
    <>[](Running # {}) => <>(syncNum >= Top - 1)
===============================================================================
