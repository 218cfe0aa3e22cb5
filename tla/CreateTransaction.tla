-------------------------- MODULE CreateTransaction --------------------------
(***************************************************************************)
(* Zchain.Trans.createTrx and createFullSendTrx of service/sim_api.py: a   *)
(* call goes to the utility of its chain, each with its configuration,     *)
(* which chooses unspent outputs and works out fee and change:             *)
(* CoinSelection for the chains of sim_btc_plugin and for hc,              *)
(* BtmSelection and UsdtSelection.                                         *)
(***************************************************************************)
EXTENDS Integers, Sequences, FiniteSets

CONSTANTS
    Payee, From,   \* who may be paid, and the sender, who may be too
    Config         \* what the utility of each chain is configured with, and the
                   \* amounts its node may report and be asked for

Chains == {"btc", "hc", "btm", "usdt"}

\* A wallet that is tidied up has outputs enough to fill up with.  The node of btm
\* estimates a fee that is not lost when it is raised by a tenth; that of usdt
\* takes one.
ASSUME ConfigAssumption ==
    /\ IsFiniteSet(Payee) /\ From \notin Payee
    /\ DOMAIN Config = Chains
    /\ \A x \in Chains :
          /\ Config[x].coin \subseteq Nat \ {0} /\ Config[x].amount \subseteq Nat \ {0}
          /\ {Config[x].maxCoins, Config[x].fee, Config[x].perFee, Config[x].vinSize,
              Config[x].voutSize, Config[x].dust} \subseteq Nat
          /\ Config[x].unit \in Nat \ {0}
    /\ \A x \in Chains \ {"usdt"} : Config[x].many \in Nat /\ Config[x].atLeast \in 1..Config[x].many
    /\ Config["btm"].maxInputs \in Nat /\ Config["btm"].maxInputs >= Config["btm"].atLeast
    /\ Config["btm"].estimates \subseteq Nat /\ \A e \in Config["btm"].estimates : e >= 10
    /\ Config["usdt"].payloadSize \in Nat /\ Config["usdt"].fee > 0

VARIABLES
    chain,                            \* chainId
    txout, dest, isFast, fullSend,    \* see CoinSelection
    stage, used, vouts,               \* its pc, and the others
    estimate,                         \* see BtmSelection
    omniBalance, hasDust              \* see UsdtSelection: balance

request == <<txout, dest, isFast, fullSend>>
createVars == <<chain, request, stage, used, vouts, estimate, omniBalance, hasDust>>

Btc == Config["btc"]
Hc  == Config["hc"]

\* The utility of btc or hc, with its configuration c.
Select(c) == INSTANCE CoinSelection WITH
    Coin <- c.coin, MaxCoins <- c.maxCoins, Fee <- c.fee, PerFee <- c.perFee,
    VinSize <- c.vinSize, VoutSize <- c.voutSize, Unit <- c.unit, Dust <- c.dust,
    Amount <- c.amount, Many <- c.many, AtLeast <- c.atLeast,
    pc <- stage

Btm == INSTANCE BtmSelection WITH
    Coin <- Config["btm"].coin, MaxCoins <- Config["btm"].maxCoins,
    Fee <- Config["btm"].fee, PerFee <- Config["btm"].perFee,
    VinSize <- Config["btm"].vinSize, VoutSize <- Config["btm"].voutSize,
    Unit <- Config["btm"].unit, Dust <- Config["btm"].dust,
    Amount <- Config["btm"].amount, Many <- Config["btm"].many,
    AtLeast <- Config["btm"].atLeast, MaxInputs <- Config["btm"].maxInputs,
    Estimates <- Config["btm"].estimates, pc <- stage

Usdt == INSTANCE UsdtSelection WITH
    Coin <- Config["usdt"].coin, MaxCoins <- Config["usdt"].maxCoins,
    Fee <- Config["usdt"].fee, PerFee <- Config["usdt"].perFee,
    VinSize <- Config["usdt"].vinSize, VoutSize <- Config["usdt"].voutSize,
    Unit <- Config["usdt"].unit, Dust <- Config["usdt"].dust,
    Token <- Config["usdt"].amount, PayloadSize <- Config["usdt"].payloadSize,
    pc <- stage, balance <- omniBalance

CreateTypeOK ==
    /\ chain \in Chains /\ isFast \in BOOLEAN /\ fullSend \in BOOLEAN
    /\ estimate \in {0} \cup Config["btm"].estimates
    /\ chain = "btc"  => Select(Btc)!TypeOK
    /\ chain = "hc"   => Select(Hc)!TypeOK
    /\ chain = "btm"  => Btm!TypeOK
    /\ chain = "usdt" => Usdt!TypeOK

\* A call goes to the utility of the chain; only sim_btc_plugin is told of is_fast, which
\* is a record of b_config, and of full_send.
Call(full) ==
    /\ \/ chain = "btc"  /\ Select(Btc)!Init /\ fullSend = full
       \/ chain = "hc"   /\ Select(Hc)!HcInit
       \/ chain = "btm"  /\ Btm!BtmInit
       \/ chain = "usdt" /\ Usdt!Init /\ isFast = FALSE /\ fullSend = FALSE
    /\ chain # "btm" => estimate = 0
    /\ chain # "usdt" => omniBalance = 0 /\ hasDust = FALSE

CreateTrx         == Call(FALSE)
CreateFullSendTrx == Call(TRUE)

CreateInit == chain \in Chains /\ (CreateTrx \/ CreateFullSendTrx)

CreateNext ==
    /\ UNCHANGED chain
    /\ \/ chain = "btc"  /\ Select(Btc)!Next  /\ UNCHANGED <<estimate, omniBalance, hasDust>>
       \/ chain = "hc"   /\ Select(Hc)!HcNext /\ UNCHANGED <<estimate, omniBalance, hasDust>>
       \/ chain = "btm"  /\ Btm!BtmNext       /\ UNCHANGED <<omniBalance, hasDust>>
       \/ chain = "usdt" /\ Usdt!Next         /\ UNCHANGED <<isFast, fullSend, estimate>>

CreateSpec == CreateInit /\ [][CreateNext]_createVars

-----------------------------------------------------------------------------
(* What must hold, of each chain what its module says.                     *)

\* No utility spends an output twice, whatever it takes and then pads with, except
\* that of usdt, and only when the larger outputs do not pay its fee.
SpentOnce ==
    IF chain = "usdt" THEN Usdt!DustTwiceOnlyWhenShort ELSE Select(Btc)!SpentOnce

\* The fee of a finished transaction is neither too low for what it is worked out
\* from, its size or the node's estimate, nor higher by more than dust.
FeeInBounds ==
    /\ chain = "btc"  => Select(Btc)!PaysForSize
    /\ chain = "hc"   => Select(Hc)!HcFeeInBounds
    /\ chain = "btm"  => Btm!BtmFeeInBounds
    /\ chain = "usdt" => Usdt!PaysForSize

\* The payees get what is asked for.
PayeesPaid ==
    /\ chain = "btc" => Select(Btc)!PayeesPaid
    /\ chain = "hc"  => Select(Hc)!HcPayeesPaid
    /\ chain = "btm" => Btm!BtmPayeesPaid

\* What a finished transaction pays, to the payees and to the network.
PaymentRight == FeeInBounds /\ PayeesPaid

\* A call is refused for want of money or for a fee that is too high, never because
\* of the outputs that tidying up adds, nor at the boundary.
RefusedForCause ==
    /\ chain = "btc"  => Select(Btc)!RefusedForCause
    /\ chain = "hc"   => Select(Hc)!HcRefusedForCause
    /\ chain = "btm"  => Btm!BtmRefusedForCause
    /\ chain = "usdt" => Usdt!RefusedForCause

\* What the selection, the padding and the removal of outputs leave is a set of
\* outputs of the wallet, each spent at most once.
InputsSound == CreateTypeOK /\ SpentOnce
=============================================================================
