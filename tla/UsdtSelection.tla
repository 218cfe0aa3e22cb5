---------------------------- MODULE UsdtSelection ----------------------------
(***************************************************************************)
(* omni_create_transaction of utils/usdt_utils.py: a token transfer is a   *)
(* Bitcoin transaction that pays Dust (546 satoshis) to the receiver and   *)
(* carries the amount in its payload.  Bitcoin outputs of the sender pay   *)
(* the fee; one that is worth exactly Dust is added if there is one, and   *)
(* pays for the output to the receiver.                                    *)
(*                                                                         *)
(* omni_balance is a string, and Python 2 orders every string after every  *)
(* number: "omni_balance<amount" is never true.                            *)
(***************************************************************************)
EXTENDS Integers, Sequences, FiniteSets, FiniteSetsExt

CONSTANTS
    Coin,       \* the amounts an unspent output may have
    MaxCoins,   \* bound on their number
    Payee, From,
    Token,      \* amounts of tokens, in a balance or asked for
    Fee,        \* config["fee"]: what is reserved for the fee
    PerFee, VinSize, VoutSize, PayloadSize, Unit,
    Dust        \* 546

VARIABLES
    txout,     \* what ListUnSpent lists, sorted by amount, the largest first
    balance,   \* omni_balance
    dest,      \* dest_info
    pc,        \* "fee" -> "dust" -> "pay" -> "done" or "refused"
    used,      \* vin_need: indices into txout
    hasDust,   \* has_546
    vouts      \* the Bitcoin outputs

request == <<txout, balance, dest>>
vars == <<request, pc, used, hasDust, vouts>>

Total(f) == MapThenSumSet(LAMBDA a : f[a], DOMAIN f)

\* What ListUnSpent may list, nothing included: then it did not answer, or has none.
Wallets == UNION {{s \in [1..n -> Coin] : \A k \in 1..(n - 1) : s[k] >= s[k + 1]} :
                    n \in 0..MaxCoins}

TypeOK ==
    /\ txout \in Seq(Coin) /\ balance \in Token
    /\ pc \in {"fee", "dust", "pay", "done", "refused"}
    /\ used \in Seq(DOMAIN txout)
    /\ DOMAIN vouts \subseteq Payee \cup {From}
    /\ hasDust => \E k \in DOMAIN used : txout[used[k]] = Dust

Init ==
    /\ txout \in Wallets /\ balance \in Token
    /\ dest \in UNION {[S -> Token] : S \in (SUBSET (Payee \cup {From})) \ {{}}}
    /\ pc = "fee" /\ used = <<>> /\ hasDust = FALSE /\ vouts = [a \in {} |-> 0]

\* sum: an output of Dust that is added last is not counted.
Sum == MapThenSumSet(LAMBDA k : txout[used[k]],
                     1..(IF hasDust THEN Len(used) - 1 ELSE Len(used)))

\* Mutant of FeeCovered: at the boundary.
FeeCoveredStrictly == Sum > Fee

FeeCovered == Sum >= Fee

\* An empty wallet is refused, and more than one receiver.
Refuses == txout = <<>> \/ Cardinality(DOMAIN dest) # 1

Refuse ==
    /\ pc = "fee" /\ used = <<>> /\ Refuses
    /\ pc' = "refused"
    /\ UNCHANGED <<request, used, hasDust, vouts>>

\* The largest first, until they cover the fee.
TakeForFee ==
    /\ pc = "fee" /\ ~Refuses
    /\ IF FeeCovered \/ Len(used) = Len(txout)
         THEN pc' = "dust" /\ UNCHANGED used
         ELSE used' = Append(used, Len(used) + 1) /\ UNCHANGED pc
    /\ UNCHANGED <<request, hasDust, vouts>>

\* Mutant of DustCoins: any output that pays for the one sent will do.
DustCoinsLarger == {k \in DOMAIN txout : txout[k] >= Dust}

DustCoins == {k \in DOMAIN txout : txout[k] = Dust}

\* The first output of Dust is added, even if it is in use already.
AddDust ==
    /\ pc = "dust"
    /\ IF ~FeeCovered
         THEN pc' = "refused" /\ UNCHANGED <<used, hasDust>>
         ELSE /\ pc' = "pay"
              /\ hasDust' = (DustCoins # {})
              /\ used' = IF DustCoins = {} THEN used ELSE Append(used, Min(DustCoins))
    /\ UNCHANGED <<request, vouts>>

SizeFee ==
    LET size == Len(used) * VinSize + 2 * VoutSize + PayloadSize
    IN  ((size + Unit - 1) \div Unit) * PerFee

\* Mutant of CalFee: the dust sent is not counted.
CalFeeNoDust == SizeFee

\* cal_fee: without an output of Dust among the inputs, the one sent counts too.
CalFee == IF hasDust THEN SizeFee ELSE SizeFee + Dust

\* Whether there is change depends on what is left of the reserve, its amount on
\* what is left of the inputs.
Pay ==
    /\ pc = "pay"
    /\ IF SizeFee > Fee
         THEN pc' = "refused" /\ UNCHANGED vouts
         ELSE /\ pc' = "done"
              /\ vouts' =
                   LET sent == [a \in DOMAIN dest |-> Dust] IN
                   CASE CalFee = Fee -> sent
                     [] CalFee # Fee /\ From \in DOMAIN dest ->
                          [sent EXCEPT ![From] = @ + Sum - CalFee]
                     [] Fee - CalFee > Dust /\ From \notin DOMAIN dest ->
                          [a \in DOMAIN dest \cup {From} |->
                             IF a = From THEN Sum - CalFee ELSE Dust]
                     [] OTHER -> sent
    /\ UNCHANGED <<request, used, hasDust>>

Next == Refuse \/ TakeForFee \/ AddDust \/ Pay

Spec == Init /\ [][Next]_vars

-----------------------------------------------------------------------------
(* What must hold.                                                         *)

Done == pc = "done"

Inputs == {used[k] : k \in DOMAIN used}

\* The fee the network takes.
Paid == MapThenSumSet(LAMBDA k : txout[k], Inputs) - Total(vouts)

\* An output is in the inputs twice only if the larger ones did not cover the fee.
DustTwiceOnlyWhenShort ==
    Done /\ Cardinality(Inputs) < Len(used) =>
        MapThenSumSet(LAMBDA k : txout[k], {k \in DOMAIN txout : txout[k] > Dust}) < Fee

\* The network gets the fee worked out from the size, whether or not an output
\* of Dust pays for the one sent, and whether or not there is change; or the
\* reserve without the dust, since that alone is asked of the wallet.
PaysForSize ==
    Done /\ Cardinality(Inputs) = Len(used) =>
        Paid >= SizeFee \/ Paid >= Fee - Dust

\* A transfer is refused only for its number of receivers, or because the wallet's
\* outputs or the reserve do not pay for it.
RefusedForCause ==
    pc = "refused" =>
        \/ Cardinality(DOMAIN dest) # 1
        \/ Total(txout) < Fee
        \/ SizeFee > Fee
=============================================================================
