----------------------------- MODULE HistoryApi -----------------------------
(***************************************************************************)
(* service/sim_api.py: the calls by which the cross-chain network reads    *)
(* the transfers, while a collector writes them: module TransferLog for    *)
(* the chains of the BTC family, hc and usdt ("btc"), EthLog for "eth".    *)
(* Zchain.Transaction.All.History makes several queries for one answer:    *)
(* is there anything behind the caller's block number, and then windows    *)
(* of dep_num blocks until one holds transfers.  Deposit.History,          *)
(* Withdraw.History and GuardCall.History make one.  The caller asks again *)
(* with the number it was given.                                           *)
(***************************************************************************)
EXTENDS TransferLog, FiniteSets, FiniteSetsExt

CONSTANTS
    DepNum,      \* dep_num: blocks per window, 1000 or for eth 10000
    EthRow,      \* the rows of eth there may be
    EthBase,     \* 6500000: where a caller of eth with the number 0 is taken to
    EthAhead     \* see EthLog

TransferKinds == {"deposit", "withdraw", "guardcall"}
HistoryChains == {"btc", "eth"}

ASSUME HistoryAssumption ==
    /\ DepNum \in [HistoryChains -> Nat \ {0}]
    /\ EthBase \in 0..Top /\ EthAhead \in Nat
    /\ \A r \in EthRow : r.block \in 1..Top /\ r.kind \in TransferKinds

VARIABLES
    historyChain,  \* the coin the calls are about
    calls,         \* the calls that are made: {"all"} or TransferKinds.  They only read, so one
                   \* caller of the first or one of each of the others say it all
    query,         \* zchain_transaction_all_history:
                   \* "idle" -> "withdraw?" -> "deposit?" -> "guardcall?" (eth) ->
                   \* ("deposits" -> "withdraws" -> "guardcalls" (eth))*
    blockNum,      \* the number it was asked with
    upTo,          \* current_block_num
    found,         \* one of the counts is not None
    i,             \* the window
    trxs,          \* what it has found
    cursor,        \* the caller's block number
    seen,          \* transfers the caller of All.History has got
    polled,        \* the same of the callers of Deposit.History and the two others
    got,
    again,         \* history: blocks that were collected more than once
    raced          \* history: blocks All.History has passed that were not
                   \* committed when it began

allHistory == <<query, blockNum, upTo, found, i, trxs>>
caller     == <<cursor, seen>>
polls      == <<polled, got>>
historyVars == <<log, historyChain, calls, allHistory, caller, polls, again, raced>>

Eth == INSTANCE EthLog WITH
    Row <- EthRow, Cleared <- {"deposit", "withdraw"}, Ahead <- EthAhead

Rows == IF historyChain = "eth" THEN EthRow ELSE Row

HistoryTypeOK ==
    /\ historyChain \in HistoryChains /\ calls \in {{"all"}, TransferKinds}
    /\ IF historyChain = "eth" THEN Eth!EthTypeOK ELSE LogTypeOK
    /\ query \in {"idle", "withdraw?", "deposit?", "guardcall?",
               "deposits", "withdraws", "guardcalls"}
    /\ blockNum \in 0..Top /\ upTo \in 0..Top /\ found \in BOOLEAN
    /\ i \in 0..Top /\ trxs \subseteq Rows
    /\ cursor \in 0..Top /\ seen \subseteq Rows
    /\ polled \in [TransferKinds -> 0..Top] /\ got \in [TransferKinds -> SUBSET Rows]
    /\ again \subseteq 0..Top /\ raced \subseteq 0..Top

HistoryInit ==
    /\ LogInit /\ historyChain \in HistoryChains /\ calls \in {{"all"}, TransferKinds}
    /\ query = "idle" /\ blockNum = 0 /\ upTo = 0 /\ found = FALSE /\ i = 0 /\ trxs = {}
    /\ cursor = 0 /\ seen = {}
    /\ polled = [k \in TransferKinds |-> 0] /\ got = [k \in TransferKinds |-> {}]
    /\ again = {} /\ raced = {}

-----------------------------------------------------------------------------
(* The collector.                                                          *)

Collect ==
    /\ \/ /\ historyChain = "btc" /\ LogNext
          /\ again' = IF phase' = "again" THEN again \cup {sync} ELSE again
       \/ /\ historyChain = "eth" /\ Eth!EthNext
          /\ again' = again \cup {r.block : r \in present \ present'}
    /\ UNCHANGED <<historyChain, calls, allHistory, caller, polls, raced>>

-----------------------------------------------------------------------------
(* Zchain.Transaction.All.History: an action is one query.                 *)

\* "$gt"
Behind(r, n) == r.block > n

\* Mutant of AskedFrom: every caller is taken there.
AskedFromBase(n) == IF historyChain = "eth" THEN EthBase ELSE n

\* For eth the number 0 stands for a block before which there is nothing.
AskedFrom(n) == IF historyChain = "eth" /\ n = 0 THEN EthBase ELSE n

AskAll ==
    /\ "all" \in calls /\ query = "idle"
    /\ blockNum' = AskedFrom(cursor) /\ upTo' = sync
    /\ query' = "withdraw?"
    /\ UNCHANGED <<log, historyChain, calls, found, i, trxs, caller, polls, again, raced>>

IsBehind(k) == \E r \in present : r.kind = k /\ Behind(r, blockNum)

\* Mutant of Windows: without the incomplete last one.
WindowsWhole == (upTo - blockNum) \div DepNum[historyChain]

\* How many windows there are; none for a caller ahead of the sync number, unless
\* it is by a multiple of dep_num.
Windows == (upTo - blockNum) \div DepNum[historyChain] + 1

\* Mutants of Newest: one further, for the next call; or all that was looked through.
NewestNext(S, n) == Max({r.block + 1 : r \in S} \cup {n})
NewestUpTo(S, n) == Max({upTo, n})

\* The number a call answers with.
Newest(S, n) == Max({r.block : r \in S} \cup {n})

\* Answer with the transfers in S and a number for the next call.
Answer(S, number) ==
    /\ cursor' = number
    /\ seen' = seen \cup S
    /\ raced' = raced \cup ((upTo + 1)..cursor')
    /\ query' = "idle"
    /\ blockNum' = 0 /\ upTo' = 0 /\ found' = FALSE /\ i' = 0 /\ trxs' = {}

GoOn(step) ==
    /\ query' = step
    /\ UNCHANGED <<blockNum, upTo, i, trxs, caller, raced>>

\* The counts are there: without any transfer the number stays; without a window the
\* answer has no number at all.
Decide(any) ==
    IF any /\ Windows > 0
      THEN GoOn("deposits") /\ UNCHANGED found
      ELSE Answer({}, IF any THEN cursor ELSE blockNum)

CountWithdraws ==
    /\ query = "withdraw?"
    /\ found' = IsBehind("withdraw")
    /\ GoOn("deposit?")
    /\ UNCHANGED <<log, historyChain, calls, polls, again>>

CountDeposits ==
    /\ query = "deposit?"
    /\ LET any == found \/ IsBehind("deposit") IN
       IF historyChain = "eth" THEN found' = any /\ GoOn("guardcall?") ELSE Decide(any)
    /\ UNCHANGED <<log, historyChain, calls, polls, again>>

CountGuardCalls ==
    /\ query = "guardcall?"
    /\ Decide(found \/ IsBehind("guardcall"))
    /\ UNCHANGED <<log, historyChain, calls, polls, again>>

InWindow(k) ==
    {r \in present : r.kind = k
        /\ blockNum + i * DepNum[historyChain] < r.block /\ r.block <= blockNum + (i + 1) * DepNum[historyChain]}

\* A window is done: the next one if there is nothing in it.
EndWindow(all) ==
    IF all = {} /\ i + 1 < Windows
      THEN /\ query' = "deposits" /\ i' = i + 1 /\ trxs' = {}
           /\ UNCHANGED <<blockNum, upTo, found, caller, raced>>
      ELSE Answer(all, Newest(all, blockNum))

FindDeposits ==
    /\ query = "deposits"
    /\ trxs' = InWindow("deposit")
    /\ query' = "withdraws"
    /\ UNCHANGED <<log, historyChain, calls, blockNum, upTo, found, i, caller, polls, again, raced>>

FindWithdraws ==
    /\ query = "withdraws"
    /\ LET all == trxs \cup InWindow("withdraw") IN
       IF historyChain # "eth"
         THEN EndWindow(all)
         ELSE trxs' = all /\ query' = "guardcalls"
              /\ UNCHANGED <<blockNum, upTo, found, i, caller, raced>>
    /\ UNCHANGED <<log, historyChain, calls, polls, again>>

FindGuardCalls ==
    /\ query = "guardcalls"
    /\ EndWindow(trxs \cup InWindow("guardcall"))
    /\ UNCHANGED <<log, historyChain, calls, polls, again>>

AllHistory ==
    \/ AskAll \/ CountWithdraws \/ CountDeposits \/ CountGuardCalls
    \/ FindDeposits \/ FindWithdraws \/ FindGuardCalls

-----------------------------------------------------------------------------
(* Zchain.Transaction.Deposit.History, Withdraw.History, GuardCall.History. *)

\* Mutant of FromOn: as All.History asks.
FromOnBehind(r, n) == r.block > n

\* "$gte"
FromOn(r, n) == r.block >= n

\* The answer's number is 0 if there is nothing.
Poll(k) ==
    /\ k \in calls
    /\ LET S == {r \in present : r.kind = k /\ FromOn(r, polled[k])} IN
       /\ polled' = [polled EXCEPT ![k] = Newest(S, 0)]
       /\ got' = [got EXCEPT ![k] = @ \cup S]
    /\ UNCHANGED <<log, historyChain, calls, allHistory, caller, again, raced>>

-----------------------------------------------------------------------------
HistoryNext == Collect \/ AllHistory \/ \E k \in TransferKinds : Poll(k)

HistorySpec == HistoryInit /\ [][HistoryNext]_historyVars

\* The service answers, and the caller asks again.
HistoryFairSpec == HistorySpec /\ WF_historyVars(AllHistory)

-----------------------------------------------------------------------------
(* What must hold.                                                         *)

\* The several queries of an answer, and a collector at work or restarted between
\* them, never make a caller of All.History pass by a transfer, unless its block
\* was not committed when the answer was begun, or has been collected again, or is
\* one of the blocks of eth that come before all that matters.
PassesOnlyUncommitted ==
    \A r \in present :
        r.block <= cursor /\ r \notin seen =>
            r.block \in again \cup raced \/ (historyChain = "eth" /\ r.block <= EthBase)

\* Who polls Deposit.History, Withdraw.History or GuardCall.History gets every
\* transfer below the number it polls with, those included that are written after the
\* first of their block was seen, except in a block that was collected again.
PollPassesNothing ==
    \A k \in TransferKinds : \A r \in present :
        r.kind = k /\ r.block < polled[k] /\ r \notin got[k] => r.block \in again

\* Whichever call a client polls, it passes by no transfer but those of blocks that
\* were not committed when it was answered, or that are collected again.
PassesNothing == HistoryTypeOK /\ PassesOnlyUncommitted /\ PollPassesNothing

\* A caller of All.History that keeps asking comes past a committed block with
\* transfers, and so has got them, however many empty windows lie before it.
Reaches ==
    LET At(b) == {r \in present : r.block = b} IN
    \A b \in {r.block : r \in Row \cup EthRow} :
        ("all" \in calls /\ At(b) # {} /\ b <= sync) ~> (b <= cursor \/ At(b) = {})
=============================================================================
