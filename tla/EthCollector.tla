---------------------------- MODULE EthCollector ----------------------------
(***************************************************************************)
(* go_collector_services/eth_collect/main.go: in the fast phase main feeds *)
(* heights to several collect_block goroutines, which pass the blocks on   *)
(* to several handle_block goroutines in whatever order they come; each of *)
(* these writes its block to PostgreSQL, and the one that holds a multiple *)
(* of 1000 also writes the checkpoint from which the next process starts.  *)
(* The phase ends by tokens: main sends one -1 per collector, a collector  *)
(* turns it into an "exit" block, and handlers pass exit blocks on while   *)
(* exit_count says that some handler still lacks one.  The low phase runs  *)
(* one goroutine of each kind and checkpoints every block.                 *)
(***************************************************************************)
EXTENDS Integers, Sequences, FiniteSets

CONSTANTS
    Collectors,   \* the collect_block goroutines of the fast phase (3)
    Handlers,     \* the handle_block goroutines (NumCPU + 1)
    Interval,     \* blocks between checkpoints in the fast phase (1000)
    ChanCap,      \* capacity of both channels (40)
    Top,          \* the safe block count the node grows to
    MaxBoots      \* bound on how often the process is started

collect_threads == Cardinality(Collectors)
handle_threads  == Cardinality(Handlers)

ASSUME EthAssumption ==
    /\ IsFiniteSet(Collectors) /\ Collectors # {}
    /\ IsFiniteSet(Handlers) /\ Handlers # {}
    /\ Interval \in Nat \ {0} /\ ChanCap \in Nat \ {0} /\ Top \in Nat \ {0}
    /\ MaxBoots \in Nat \ {0}

\* Two processors or more.  With one, two handlers take the first two of three
\* exit blocks and leave behind what the third collector has yet to push.
ASSUME ProcessorAssumption == handle_threads >= collect_threads

VARIABLES
    heightChan, blockChan,   \* the two channels
    mainPc,      \* main: "off", "check", "send", "tokens" or "join"
    phase,       \* "fast" or "low"
    base,        \* global_start_height: where this process started
    next,        \* the height main feeds next
    count,       \* count / old_count
    tokens,      \* tokens main has yet to send
    isDone,      \* is_done
    exitCount,   \* exit_count
    collector,   \* per collector: "read", "push" (a block), "token" or "exited"
    fetched,     \* the block a collector holds
    handler,     \* per handler: "get" -> "trx" -> "erc" -> "mark" -> "get", or
                 \* "wait" -> "bump" -> "pass" -> "exited"
    block,       \* the block a handler holds
    trxData,     \* rows of each block in trx_data
    ercData,     \* rows of each block in erc20_address_relation
    trxHeight,   \* config.trx_height, the checkpoint
    boots,       \* starts of the process
    failed       \* history: an insert has failed

channels == <<heightChan, blockChan>>
mainVars == <<mainPc, phase, base, next, count, tokens>>
collectorVars == <<collector, fetched>>
handlerVars   == <<handler, block>>
tables   == <<trxData, ercData, trxHeight>>
vars == <<channels, mainVars, isDone, exitCount, collectorVars, handlerVars, tables, boots, failed>>

Token   == -1
Heights == 0..(Top - 1)

TypeOK ==
    /\ heightChan \in Seq(Heights \cup {Token}) /\ Len(heightChan) <= ChanCap
    /\ blockChan \in Seq(Heights \cup {Token}) /\ Len(blockChan) <= ChanCap
    /\ mainPc \in {"off", "check", "send", "tokens", "join"} /\ phase \in {"fast", "low"}
    /\ base \in 0..Top /\ next \in 0..Top /\ count \in 0..Top
    /\ tokens \in 0..collect_threads
    /\ isDone \in BOOLEAN
    /\ exitCount \in 0..(collect_threads + handle_threads + 1)
    /\ collector \in [Collectors -> {"read", "push", "token", "exited"}]
    /\ fetched \in [Collectors -> 0..Top]
    /\ handler \in [Handlers -> {"get", "trx", "erc", "mark", "wait", "bump", "pass", "exited"}]
    /\ block \in [Handlers -> 0..Top]
    /\ trxData \in [Heights -> Nat] /\ ercData \in [Heights -> Nat]
    /\ trxHeight \in 0..Top /\ boots \in 0..MaxBoots /\ failed \in BOOLEAN

\* The checkpoint and the tables as an earlier process has left them: killed
\* before it stored anything, or in the low phase.
Init ==
    /\ heightChan = <<>> /\ blockChan = <<>>
    /\ mainPc = "off" /\ phase = "fast" /\ base = 0 /\ next = 0 /\ count = 0 /\ tokens = 0
    /\ isDone = FALSE /\ exitCount = 0
    /\ collector = [c \in Collectors |-> "exited"] /\ fetched = [c \in Collectors |-> 0]
    /\ handler = [h \in Handlers |-> "exited"] /\ block = [h \in Handlers |-> 0]
    /\ \E left \in 0..(Top - 1) :
          /\ trxHeight = left
          /\ trxData = [h \in Heights |-> IF left > 0 /\ h <= left THEN 1 ELSE 0]
    /\ ercData = trxData /\ boots = 1 /\ failed = FALSE

Send(chan, v) == Len(chan) < ChanCap /\ chan' = Append(chan, v)

-----------------------------------------------------------------------------
(* main.                                                                   *)

\* The process starts where the checkpoint says, once the node's count is there.
Boot ==
    /\ mainPc = "off" /\ boots < MaxBoots
    /\ \E c \in trxHeight..Top : count' = c
    /\ mainPc' = "check" /\ phase' = "fast" /\ base' = trxHeight /\ next' = trxHeight
    /\ collector' = [c \in Collectors |-> "read"]
    /\ handler' = [h \in Handlers |-> "get"]
    /\ boots' = boots + 1
    /\ UNCHANGED <<channels, tokens, isDone, exitCount, fetched, block, tables, failed>>

\* The head of both feeding loops: is_done is tested before every height in the
\* fast one, between polls of the node in the low one.
FastCheck ==
    /\ mainPc = "check" /\ phase = "fast"
    /\ IF next < count /\ ~isDone
         THEN mainPc' = "send" /\ UNCHANGED tokens
         ELSE mainPc' = "tokens" /\ tokens' = collect_threads
    /\ UNCHANGED <<channels, phase, base, next, count, isDone, exitCount, collectorVars,
                   handlerVars, tables, boots, failed>>

LowPoll ==
    /\ mainPc = "check" /\ phase = "low"
    /\ IF isDone
         THEN mainPc' = "tokens" /\ tokens' = 1 /\ UNCHANGED count
         ELSE /\ \E c \in (count + 1)..Top : count' = c
              /\ mainPc' = "send" /\ UNCHANGED tokens
    /\ UNCHANGED <<channels, phase, base, next, isDone, exitCount, collectorVars, handlerVars,
                   tables, boots, failed>>

SendHeight ==
    /\ mainPc = "send"
    /\ Send(heightChan, next)
    /\ next' = next + 1
    /\ mainPc' = IF phase = "low" /\ next + 1 < count THEN "send" ELSE "check"
    /\ UNCHANGED <<blockChan, phase, base, count, tokens, isDone, exitCount, collectorVars,
                   handlerVars, tables, boots, failed>>

SendToken ==
    /\ mainPc = "tokens"
    /\ Send(heightChan, Token)
    /\ tokens' = tokens - 1
    /\ mainPc' = IF tokens = 1 THEN "join" ELSE "tokens"
    /\ UNCHANGED <<blockChan, phase, base, next, count, isDone, exitCount, collectorVars,
                   handlerVars, tables, boots, failed>>

\* wg.Wait returns.
Joined ==
    /\ mainPc = "join"
    /\ \A c \in Collectors : collector[c] = "exited"
    /\ \A h \in Handlers : handler[h] = "exited"

\* Mutant of Drained: the leftover exit blocks stay.
DrainedNot == blockChan

\* What is left of blockdata_chan for the low phase.
Drained == <<>>

\* Mutants of LowStart: off by one, either way.
LowStartSkip    == IF count < Top THEN count + 1 ELSE count
LowStartOverlap == IF count > 0 THEN count - 1 ELSE count

\* old_count of the low phase.
LowStart == count

\* The goroutines of the low phase, of which there is one of each kind.
LowCollector == CHOOSE c \in Collectors : TRUE
LowHandler   == CHOOSE h \in Handlers : TRUE

\* The low phase: one new collector, one new handler; exit_count stays.
StartLow ==
    /\ Joined /\ phase = "fast" /\ ~isDone
    /\ blockChan' = Drained
    /\ phase' = "low" /\ mainPc' = "check" /\ next' = LowStart
    /\ collector' = [collector EXCEPT ![LowCollector] = "read"]
    /\ handler' = [handler EXCEPT ![LowHandler] = "get"]
    /\ UNCHANGED <<heightChan, base, count, tokens, isDone, exitCount, fetched, block, tables,
                   boots, failed>>

\* The process is gone, with everything it has in memory.
Gone ==
    /\ heightChan' = <<>> /\ blockChan' = <<>>
    /\ mainPc' = "off" /\ phase' = "fast" /\ base' = 0 /\ next' = 0 /\ count' = 0 /\ tokens' = 0
    /\ isDone' = FALSE /\ exitCount' = 0
    /\ collector' = [c \in Collectors |-> "exited"] /\ fetched' = [c \in Collectors |-> 0]
    /\ handler' = [h \in Handlers |-> "exited"] /\ block' = [h \in Handlers |-> 0]
    /\ UNCHANGED <<tables, boots, failed>>

End == Joined /\ (phase = "low" \/ isDone) /\ Gone

\* A kill at any step, or the panic of a failed SetConfigHeight.
Kill == mainPc # "off" /\ Gone

Signal ==
    /\ mainPc # "off" /\ ~isDone
    /\ isDone' = TRUE
    /\ UNCHANGED <<channels, mainVars, exitCount, collectorVars, handlerVars, tables, boots, failed>>

Main == FastCheck \/ LowPoll \/ SendHeight \/ SendToken \/ StartLow \/ End

-----------------------------------------------------------------------------
(* collect_block.                                                          *)

\* Take a height and fetch its block; for -1, count the exit first.
Read(c) ==
    /\ collector[c] = "read" /\ heightChan # <<>>
    /\ heightChan' = Tail(heightChan)
    /\ IF Head(heightChan) = Token
         THEN /\ exitCount' = exitCount + 1
              /\ collector' = [collector EXCEPT ![c] = "token"]
              /\ UNCHANGED fetched
         ELSE /\ fetched' = [fetched EXCEPT ![c] = Head(heightChan)]
              /\ collector' = [collector EXCEPT ![c] = "push"]
              /\ UNCHANGED exitCount
    /\ UNCHANGED <<blockChan, mainVars, isDone, handlerVars, tables, boots, failed>>

PushBlock(c) ==
    /\ collector[c] = "push"
    /\ Send(blockChan, fetched[c])
    /\ collector' = [collector EXCEPT ![c] = "read"]
    /\ fetched' = [fetched EXCEPT ![c] = 0]
    /\ UNCHANGED <<heightChan, mainVars, isDone, exitCount, handlerVars, tables, boots, failed>>

PushToken(c) ==
    /\ collector[c] = "token"
    /\ Send(blockChan, Token)
    /\ collector' = [collector EXCEPT ![c] = "exited"]
    /\ UNCHANGED <<heightChan, mainVars, isDone, exitCount, fetched, handlerVars, tables, boots, failed>>

Collect(c) == Read(c) \/ PushBlock(c) \/ PushToken(c)

-----------------------------------------------------------------------------
(* handle_block.                                                           *)

Get(h) ==
    /\ handler[h] = "get" /\ blockChan # <<>>
    /\ blockChan' = Tail(blockChan)
    /\ IF Head(blockChan) = Token
         THEN handler' = [handler EXCEPT ![h] = "wait"] /\ UNCHANGED block
         ELSE /\ block' = [block EXCEPT ![h] = Head(blockChan)]
              /\ handler' = [handler EXCEPT ![h] = "trx"]
    /\ UNCHANGED <<heightChan, mainVars, isDone, exitCount, collectorVars, tables, boots, failed>>

\* Bound: one insert fails in an execution.
MayFail == ~failed

\* InsertManyTrxData, one transaction of the database; a failure is printed.
InsertTrx(h) ==
    /\ handler[h] = "trx"
    /\ \/ trxData' = [trxData EXCEPT ![block[h]] = @ + 1] /\ UNCHANGED failed
       \/ MayFail /\ failed' = TRUE /\ UNCHANGED trxData
    /\ handler' = [handler EXCEPT ![h] = "erc"]
    /\ UNCHANGED <<channels, mainVars, isDone, exitCount, collectorVars, block, ercData,
                   trxHeight, boots>>

\* tmp_height % interval == 0
Marks(b) == phase = "low" \/ b % Interval = 0

\* InsertManyErc20TrxData, likewise.
InsertErc(h) ==
    /\ handler[h] = "erc"
    /\ \/ ercData' = [ercData EXCEPT ![block[h]] = @ + 1] /\ UNCHANGED failed
       \/ MayFail /\ failed' = TRUE /\ UNCHANGED ercData
    /\ IF Marks(block[h])
         THEN handler' = [handler EXCEPT ![h] = "mark"] /\ UNCHANGED block
         ELSE handler' = [handler EXCEPT ![h] = "get"] /\ block' = [block EXCEPT ![h] = 0]
    /\ UNCHANGED <<channels, mainVars, isDone, exitCount, collectorVars, trxData, trxHeight,
                   boots>>

\* Mutant of Checkpoint: what main has fed instead of what is stored.
CheckpointFed(b) == next - 1

Checkpoint(b) == b

\* SetConfigHeight
Mark(h) ==
    /\ handler[h] = "mark"
    /\ trxHeight' = Checkpoint(block[h])
    /\ handler' = [handler EXCEPT ![h] = "get"] /\ block' = [block EXCEPT ![h] = 0]
    /\ UNCHANGED <<channels, mainVars, isDone, exitCount, collectorVars, trxData, ercData, boots, failed>>

\* Mutant of CollectorsGone: the handler does not wait.
CollectorsGoneAtOnce == TRUE

\* exit_count < collect_threads no longer holds.
CollectorsGone == exitCount >= collect_threads

\* Mutants of PassOn: one exit block short; no end to them.
PassOnShort == exitCount < handle_threads - 1
PassOnEver  == TRUE

\* exit_count < handle_threads
PassOn == exitCount < handle_threads

\* The test and the increment are two steps.
Await(h) ==
    /\ handler[h] = "wait" /\ CollectorsGone
    /\ handler' = [handler EXCEPT ![h] = IF PassOn THEN "bump" ELSE "exited"]
    /\ UNCHANGED <<channels, mainVars, isDone, exitCount, collectorVars, block, tables, boots, failed>>

Bump(h) ==
    /\ handler[h] = "bump"
    /\ exitCount' = exitCount + 1
    /\ handler' = [handler EXCEPT ![h] = "pass"]
    /\ UNCHANGED <<channels, mainVars, isDone, collectorVars, block, tables, boots, failed>>

Pass(h) ==
    /\ handler[h] = "pass"
    /\ Send(blockChan, Token)
    /\ handler' = [handler EXCEPT ![h] = "exited"]
    /\ UNCHANGED <<heightChan, mainVars, isDone, exitCount, collectorVars, block, tables, boots, failed>>

HandleOne(h) ==
    \/ Get(h) \/ InsertTrx(h) \/ InsertErc(h) \/ Mark(h) \/ Await(h) \/ Bump(h) \/ Pass(h)

-----------------------------------------------------------------------------
Next ==
    \/ Boot \/ Main \/ Signal \/ Kill
    \/ \E c \in Collectors : Collect(c)
    \/ \E h \in Handlers : HandleOne(h)

Spec == Init /\ [][Next]_vars

\* The scheduler runs every goroutine that can go on, the node answers and its
\* chain grows, and a waiting receiver of a channel is served in turn.
FairSpec ==
    /\ Spec
    /\ WF_vars(Main)
    /\ \A c \in Collectors : WF_vars(Collect(c))
    /\ \A h \in Handlers : WF_vars(HandleOne(h))

-----------------------------------------------------------------------------
(* What must hold.                                                         *)

Stored(b) == trxData[b] > 0 /\ ercData[b] > 0

\* Blocks this process has passed with its checkpoint but not stored: lost for
\* good if it is killed now.
AtRisk == {b \in Heights : base <= b /\ b < trxHeight /\ ~Stored(b)}

\* However late any goroutine is, the blocks that the checkpoint has outrun have
\* been fetched before the block it names: another goroutine holds each of them, or
\* they wait to be handled; none has yet to be read.
LossBounded ==
    mainPc # "off" /\ ~failed =>
        \A b \in AtRisk :
            \/ \E c \in Collectors : collector[c] = "push" /\ fetched[c] = b
            \/ \E h \in Handlers : handler[h] \in {"trx", "erc"} /\ block[h] = b
            \/ \E i \in DOMAIN blockChan : blockChan[i] = b

\* When every goroutine of a phase has exited, all that main fed is stored,
\* whatever exit blocks are left over in the channel.
FedIsStored ==
    Joined /\ ~failed => \A b \in Heights : base <= b /\ b < next => Stored(b)

\* Once in the low phase, whoever reads a checkpoint of this process finds every
\* block up to it stored, itself included.
CheckpointCovered ==
    phase = "low" /\ trxHeight # base /\ ~failed =>
        \A b \in Heights : base <= b /\ b <= trxHeight => Stored(b)

\* A process stores no block twice, on the way from the fast to the low phase
\* either: rows are duplicated by restarts only.
OncePerProcess == \A b \in Heights : trxData[b] <= boots /\ ercData[b] <= boots

\* The checkpoint of the low phase covers only what is stored, that of the fast phase
\* outruns only blocks that another goroutine is about to store, and the two phases
\* never overlap.
CheckpointSound == TypeOK /\ CheckpointCovered /\ LossBounded /\ OncePerProcess

\* A process that is told to stop ends, whatever inserts fail: the exit blocks go
\* round until every handler has had one, and nobody blocks on a full channel.
Stops == isDone ~> mainPc = "off"

\* A process that is left to run brings the checkpoint to the end of the chain, but
\* for the blocks after the last multiple of the interval.
CatchesUp == <>[](mainPc # "off" /\ ~isDone) => <>(trxHeight > Top - 1 - Interval)
=============================================================================
