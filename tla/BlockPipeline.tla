---------------------------- MODULE BlockPipeline ----------------------------
(***************************************************************************)
(* The goroutines of go_collector_services/btc_collect/main.go: main feeds *)
(* heights into height_chan; collect_block gathers them into batches,      *)
(* lets parallel one_collect_data goroutines fetch the blocks, and pushes  *)
(* them into blockdata_chan; handle_block takes them out.  A height of -1  *)
(* and an "exit" block, both Token here, end a phase.  The low phase runs  *)
(* fresh goroutines over the same two channels.  What the handler does     *)
(* with a block is module UtxoIndex; here it may die on the blocks of      *)
(* BadHeights, as on "UTXO not exist".                                     *)
(***************************************************************************)
EXTENDS Integers, Sequences

CONSTANTS
    FirstHeight, FastCount, LastCount, BadHeights,   \* see BlockFeed
    ChanCap,     \* capacity of both channels (40)
    BatchSize,   \* delta_size of the fast phase (20); 1 in the low phase
    Chunk        \* one_batch_count: heights per fetching goroutine (5)

ASSUME PipelineAssumption ==
    /\ FirstHeight \in Nat /\ FastCount \in Nat /\ LastCount \in Nat
    /\ FirstHeight < FastCount /\ FastCount <= LastCount
    /\ BadHeights \subseteq Nat
    /\ ChanCap \in Nat \ {0} /\ BatchSize \in Nat \ {0} /\ Chunk \in Nat \ {0}

VARIABLES
    heightChan,    \* height_chan
    blockChan,     \* blockdata_chan
    phase,         \* "fast" or "low"
    mainPc,        \* main: "check" -> "send" -> ... -> "token" -> "join" -> "closed"
    next,          \* the height main feeds next (its loop variable i)
    count,         \* count
    isDone,        \* is_done
    collectPc,     \* collect_block: "read", "fetch", "push" or "exited"
    batch,         \* height_cache
    fetched,       \* positions of the batch whose block is in data_chan
    pushed,        \* how many blocks of the batch are pushed
    sawToken,      \* the batch was cut short by -1
    handlerPc,     \* handle_block: "running", "exited" or "dead"
    got            \* the heights it has received since the start

mainVars    == <<mainPc, next, count>>
collectVars == <<collectPc, batch, fetched, pushed, sawToken>>
handlerVars == <<handlerPc, got>>
vars == <<heightChan, blockChan, phase, isDone, mainVars, collectVars, handlerVars>>

Token == -1

TypeOK ==
    /\ heightChan \in Seq(Nat \cup {Token}) /\ Len(heightChan) <= ChanCap
    /\ blockChan \in Seq(Nat \cup {Token}) /\ Len(blockChan) <= ChanCap
    /\ phase \in {"fast", "low"}
    /\ mainPc \in {"check", "send", "token", "join", "closed"}
    /\ next \in Nat /\ count \in Nat /\ isDone \in BOOLEAN
    /\ collectPc \in {"read", "fetch", "push", "exited"}
    /\ batch \in Seq(Nat) /\ Len(batch) <= BatchSize
    /\ fetched \subseteq 1..Len(batch)
    /\ pushed \in 0..Len(batch) /\ sawToken \in BOOLEAN
    /\ handlerPc \in {"running", "exited", "dead"}
    /\ got \in Seq(Nat)

\* Both goroutines start with nothing in hand.
Init ==
    /\ heightChan = <<>> /\ blockChan = <<>>
    /\ phase = "fast" /\ isDone = FALSE
    /\ mainPc = "check" /\ next = FirstHeight + 1 /\ count = FastCount
    /\ collectPc = "read" /\ batch = <<>> /\ fetched = {} /\ pushed = 0
    /\ sawToken = FALSE
    /\ handlerPc = "running" /\ got = <<>>

Send(chan, v) == Len(chan) < ChanCap /\ chan' = Append(chan, v)

-----------------------------------------------------------------------------
(* main.                                                                   *)

\* The head of both feeding loops.  The fast one tests is_done before every
\* height; the low one between polls, and then feeds all there is.
FastCheck ==
    /\ mainPc = "check" /\ phase = "fast"
    /\ mainPc' = IF next < count /\ ~isDone THEN "send" ELSE "token"
    /\ UNCHANGED <<heightChan, blockChan, phase, isDone, next, count, collectVars, handlerVars>>

LowPoll ==
    /\ mainPc = "check" /\ phase = "low"
    /\ IF isDone
         THEN mainPc' = "token" /\ UNCHANGED count
         ELSE \E c \in (count + 1)..LastCount : count' = c /\ mainPc' = "send"
    /\ UNCHANGED <<heightChan, blockChan, phase, isDone, next, collectVars, handlerVars>>

\* Mutant of MoreToSend: the loop of the low phase stops one short.
MoreToSendShort == phase = "low" /\ next + 2 < count

\* Whether the low phase goes on feeding without another look at is_done.
MoreToSend == phase = "low" /\ next + 1 < count

SendHeight ==
    /\ mainPc = "send"
    /\ Send(heightChan, next)
    /\ next' = next + 1
    /\ mainPc' = IF MoreToSend THEN "send" ELSE "check"
    /\ UNCHANGED <<blockChan, phase, isDone, count, collectVars, handlerVars>>

SendToken ==
    /\ mainPc = "token"
    /\ Send(heightChan, Token)
    /\ mainPc' = "join"
    /\ UNCHANGED <<blockChan, phase, isDone, next, count, collectVars, handlerVars>>

\* Mutant of Joined: a handler that dies does not report to the wait group.
JoinedNoDefer == mainPc = "join" /\ collectPc = "exited" /\ handlerPc = "exited"

\* wg.Wait: both goroutines have returned.
Joined == mainPc = "join" /\ collectPc = "exited" /\ handlerPc # "running"

\* The low phase starts two new goroutines.
StartLow ==
    /\ Joined /\ phase = "fast" /\ ~isDone
    /\ phase' = "low" /\ mainPc' = "check" /\ next' = count
    /\ collectPc' = "read" /\ batch' = <<>> /\ fetched' = {} /\ pushed' = 0
    /\ sawToken' = FALSE
    /\ handlerPc' = "running"
    /\ UNCHANGED <<heightChan, blockChan, isDone, count, got>>

Close ==
    /\ Joined /\ (phase = "low" \/ isDone)
    /\ mainPc' = "closed"
    /\ UNCHANGED <<heightChan, blockChan, phase, isDone, next, count, collectVars, handlerVars>>

Main == FastCheck \/ LowPoll \/ SendHeight \/ SendToken \/ StartLow \/ Close

\* SIGINT or SIGTERM, on the goroutine that waits for it.
Signal ==
    /\ ~isDone /\ mainPc # "closed"
    /\ isDone' = TRUE
    /\ UNCHANGED <<heightChan, blockChan, phase, mainVars, collectVars, handlerVars>>

-----------------------------------------------------------------------------
(* collect_block and one_collect_data.                                     *)

\* Mutant of Delta: an off-by-one.
DeltaPlusOne == BatchSize + 1

Delta == IF phase = "fast" THEN BatchSize ELSE 1

\* One height, or the token, which cuts the batch short.
ReadHeight ==
    /\ collectPc = "read" /\ heightChan # <<>>
    /\ heightChan' = Tail(heightChan)
    /\ IF Head(heightChan) = Token
         THEN sawToken' = TRUE /\ collectPc' = "fetch" /\ UNCHANGED batch
         ELSE /\ batch' = Append(batch, Head(heightChan))
              /\ collectPc' = IF Len(batch') = Delta THEN "fetch" ELSE "read"
              /\ UNCHANGED sawToken
    /\ UNCHANGED <<blockChan, phase, isDone, mainVars, fetched, pushed, handlerVars>>

\* The goroutine that fetches position i; it goes through its chunk in order.
Fetcher(i) == (i - 1) \div Chunk

FetchBlock(i) ==
    /\ collectPc = "fetch"
    /\ i \in 1..Len(batch) \ fetched
    /\ \A k \in 1..(i - 1) : Fetcher(k) = Fetcher(i) => k \in fetched
    /\ fetched' = fetched \cup {i}
    /\ UNCHANGED <<heightChan, blockChan, phase, isDone, mainVars, collectPc, batch,
                   pushed, sawToken, handlerVars>>

\* Mutants of AllFetched: the first fetching goroutine is enough; a cut batch
\* waits for as many goroutines as a full one.
AllFetchedFirst == \A i \in 1..Len(batch) : Fetcher(i) = 0 => i \in fetched
AllFetchedFull  == fetched = 1..BatchSize

\* wg_collect.Wait
AllFetched == fetched = 1..Len(batch)

FetchDone ==
    /\ collectPc = "fetch" /\ AllFetched
    /\ collectPc' = "push"
    /\ UNCHANGED <<heightChan, blockChan, phase, isDone, mainVars, batch, fetched,
                   pushed, sawToken, handlerVars>>

\* cache_map[height], for height ranging over height_cache; for a height that
\* was not fetched the map yields an empty document, which stands for no block.
BlockToPush == IF pushed + 1 \in fetched THEN batch[pushed + 1] ELSE 0

PushBlock ==
    /\ collectPc = "push" /\ pushed < Len(batch)
    /\ Send(blockChan, BlockToPush)
    /\ pushed' = pushed + 1
    /\ UNCHANGED <<heightChan, phase, isDone, mainVars, collectPc, batch, fetched,
                   sawToken, handlerVars>>

\* Mutant of BatchPushed: the token overtakes the blocks of a cut batch.
BatchPushedOrCut == pushed = Len(batch) \/ sawToken

BatchPushed == pushed = Len(batch)

PushDone ==
    /\ collectPc = "push" /\ BatchPushed /\ ~sawToken
    /\ collectPc' = "read" /\ batch' = <<>> /\ fetched' = {} /\ pushed' = 0
    /\ UNCHANGED <<heightChan, blockChan, phase, isDone, mainVars, sawToken, handlerVars>>

PushToken ==
    /\ collectPc = "push" /\ BatchPushed /\ sawToken
    /\ Send(blockChan, Token)
    /\ collectPc' = "exited"
    /\ UNCHANGED <<heightChan, phase, isDone, mainVars, batch, fetched, pushed,
                   sawToken, handlerVars>>

Collect ==
    \/ ReadHeight \/ FetchDone \/ PushBlock \/ PushDone \/ PushToken
    \/ \E i \in 1..BatchSize : FetchBlock(i)

-----------------------------------------------------------------------------
(* handle_block, as far as the channels are concerned.                     *)

HandleBlock ==
    /\ handlerPc = "running" /\ blockChan # <<>> /\ Head(blockChan) # Token
    /\ blockChan' = Tail(blockChan)
    /\ got' = Append(got, Head(blockChan))
    /\ \/ UNCHANGED <<handlerPc, isDone>>
       \/ Head(blockChan) \in BadHeights /\ handlerPc' = "dead" /\ isDone' = TRUE
    /\ UNCHANGED <<heightChan, phase, mainVars, collectVars>>

HandleExit ==
    /\ handlerPc = "running" /\ blockChan # <<>> /\ Head(blockChan) = Token
    /\ blockChan' = Tail(blockChan)
    /\ handlerPc' = "exited"
    /\ UNCHANGED <<heightChan, phase, isDone, mainVars, collectVars, got>>

Handle == HandleBlock \/ HandleExit

-----------------------------------------------------------------------------
Next == Main \/ Collect \/ Handle \/ Signal

Spec == Init /\ [][Next]_vars

\* The Go scheduler runs every goroutine that can go on, the node answers
\* (SafeLinkHttpFunc retries for ever) and its chain grows.
FairSpec == Spec /\ WF_vars(Main) /\ WF_vars(Collect) /\ WF_vars(Handle)

-----------------------------------------------------------------------------
(* What must hold.                                                         *)

LastGot == IF got = <<>> THEN FirstHeight ELSE got[Len(got)]

\* Whatever the order in which the parallel fetches finish, through full and
\* cut batches and across the hand-over to the low phase, the handler receives
\* every height exactly once and in order.
InOrder == \A i \in 1..Len(got) : got[i] = FirstHeight + i

\* When the exit token reaches the handler, everything main fed was handled and
\* both channels are empty: nothing is lost by a stop, and the low phase, which
\* reuses the channels, finds no stale block or token.
ExitDrains ==
    handlerPc = "exited" =>
        heightChan = <<>> /\ blockChan = <<>> /\ LastGot = next - 1

\* The pipeline implements the feed that UtxoIndex relies on.
Feed == INSTANCE BlockFeed WITH got <- LastGot, state <- handlerPc
ImplementsFeed == Feed!FeedSpec

\* Parallel fetches and a stop at any step: the handler gets every height once and
\* in order, and an exit token leaves nothing behind it in either channel.
Orderly == TypeOK /\ InOrder /\ ExitDrains

\* A handler that died of a missing output leaves the collector at a full channel.
HungBehindDeadHandler ==
    handlerPc = "dead" /\ collectPc = "push" /\ Len(blockChan) = ChanCap

\* A process that is told to stop ends, or hangs behind a handler that died, in no
\* other way; and one that is not told to gets every block there is to its handler.
Stops ==
    /\ isDone ~> mainPc = "closed" \/ HungBehindDeadHandler
    /\ ~isDone ~> isDone \/ (phase = "low" /\ LastGot = LastCount - 1)
=============================================================================
