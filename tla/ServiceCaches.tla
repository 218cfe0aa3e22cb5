--------------------------- MODULE ServiceCaches ---------------------------
(***************************************************************************)
(* The calls of service/sim_api.py that keep something for later calls, or *)
(* say what another part has kept: queries of transactions (TrxCache),     *)
(* broadcasts (BroadcastCache), registration of addresses (AddressBook),   *)
(* the list of senators and the verified signatures (ServiceMemory), and   *)
(* balances (BalanceApi).  The same workers serve them all.  What the      *)
(* kinds keep is apart, and no call touches two of them, so it is enough   *)
(* to follow the calls of one kind in an execution.                        *)
(***************************************************************************)
EXTENDS TrxCache, Sequences

CONSTANTS
    Sent,                                         \* the raw transactions that are broadcast
    KeepFor, SweepEvery,                          \* see BroadcastCache
    Addr, Tokens, Unlisted, ListLen, MaxItems,    \* see AddressBook
    Lists, NoList, Keep, Claims, Good,            \* see ServiceMemory
    Decimals, MaxUnits                            \* see BalanceApi

ASSUME AddressAssumption ==
    /\ {"btc", "eth"} \cap (Tokens \cup {Unlisted}) = {} /\ Unlisted \notin Tokens
    /\ ListLen \in Nat /\ MaxItems \in Nat

ASSUME MemoryAssumption ==
    /\ KeepFor \in Nat /\ SweepEvery \in Nat /\ Keep \in Nat
    /\ NoList \notin Lists /\ Good \subseteq Claims

ASSUME BalanceAssumption == Decimals \subseteq Nat /\ MaxUnits \in Nat

VARIABLES
    served,                                       \* the kind of calls
    answers, swept, step, asked, result, stored,
    family, rows, told, watched, at, todo, items, done, failed,
    file, list, age, readOk, lastIn, proved, asks, verdict,
    wanted, precision, balance, text

broadcastVars == <<answers, swept, step, asked, result, stored>>
addressVars   == <<family, rows, told, watched, at, todo, items, done, failed>>
listVars      == <<file, list, age, readOk, lastIn>>
claimVars     == <<proved, asks, verdict>>
balanceVars   == <<wanted, precision, balance, text>>

Broadcast == INSTANCE BroadcastCache WITH Trx <- Sent, cache <- answers, pc <- step
Book      == INSTANCE AddressBook WITH coin <- family, pc <- at
Memory    == INSTANCE ServiceMemory
Balance   == INSTANCE BalanceApi WITH asked <- wanted, told <- text

service == <<served, vars, broadcastVars, addressVars, listVars, claimVars, balanceVars>>

Kinds == {"queries", "broadcasts", "addresses", "list", "claims", "balances"}

ServiceTypeOK ==
    /\ served \in Kinds
    /\ TypeOK /\ Broadcast!TypeOK /\ Book!TypeOK /\ Memory!TypeOK

\* What is not served stays as it is; where it starts with a choice, it takes one.
ServiceInit ==
    /\ served \in Kinds
    /\ Init /\ Broadcast!Init /\ Book!Init /\ Memory!Init /\ Balance!BalanceInit
    /\ served # "queries" => coin = "btc"
    /\ served # "broadcasts" => swept = [w \in Workers |-> 0]
                                /\ asked = [w \in Workers |-> CHOOSE t \in Sent : TRUE]
    /\ served # "addresses" => family = "btc"
    /\ served # "list" => file = NoList
    /\ served # "claims" =>
         asks = [w \in Workers |-> [claim |-> CHOOSE c \in Claims : TRUE, step |-> "done"]]
    /\ served # "balances" => precision = CHOOSE p \in Decimals : TRUE

Queries    == Next /\ UNCHANGED <<broadcastVars, addressVars, listVars, claimVars, balanceVars>>
Broadcasts == Broadcast!Next /\ UNCHANGED <<vars, addressVars, listVars, claimVars, balanceVars>>
Addresses  == Book!Next /\ UNCHANGED <<vars, broadcastVars, listVars, claimVars, balanceVars>>
Lookups    == Memory!ListNext /\ UNCHANGED <<vars, broadcastVars, addressVars, claimVars, balanceVars>>
Verdicts   == Memory!ClaimNext /\ UNCHANGED <<vars, broadcastVars, addressVars, listVars, balanceVars>>
Balances   == Balance!BalanceNext /\ UNCHANGED <<vars, broadcastVars, addressVars, listVars, claimVars>>

ServiceNext ==
    /\ UNCHANGED served
    /\ \/ served = "queries" /\ Queries
       \/ served = "broadcasts" /\ Broadcasts
       \/ served = "addresses" /\ Addresses
       \/ served = "list" /\ Lookups
       \/ served = "claims" /\ Verdicts
       \/ served = "balances" /\ Balances

ServiceSpec == ServiceInit /\ [][ServiceNext]_service

\* What the modules ask of the clock, the workers, the clients and the collectors.
FairSpec ==
    /\ ServiceSpec
    /\ served = "broadcasts" => Broadcast!Fairness
    /\ served = "addresses" => Book!Fairness

-----------------------------------------------------------------------------
\* What queryTrans keeps, and all that is kept of usdt and btm, stays true, and what is
\* kept of eth until its block is replaced; no worker gives a list of senators that has
\* been replaced for longer than it may remember; a signature is good only if the node
\* said so; a balance is worth what was counted.
AnswersTrue ==
    /\ ServiceTypeOK
    /\ FinalByQuery /\ CachedIsFinal /\ EthAsMined
    /\ Memory!ListFresh /\ Memory!VerdictTrue
    /\ Balance!BalanceTold

\* Whatever workers do at a time, an answer is given again until it expires.
NoResubmission == Broadcast!NoResubmission

\* A transaction that clients keep sending reaches the node again and again.
Resubmitted == served = "broadcasts" => Broadcast!Resubmitted

\* However registrations overlap, an address that was answered is in its table once,
\* and the wallet or eth_collect knows it as what it was registered as.
Registered == Book!Registered

\* The collector comes to watch every multisig address that was answered.
Watches == served = "addresses" => Book!Watches
=============================================================================
