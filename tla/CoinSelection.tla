---------------------------- MODULE CoinSelection ----------------------------
(***************************************************************************)
(* sim_btc_create_transaction of utils/sim_btc_utils.py: choose unspent    *)
(* outputs of an address to pay what is asked for, and work out fee and    *)
(* change.  A wallet with many outputs is tidied up on the way: the one    *)
(* output that pays for all is taken if there is one, and the smallest are *)
(* added to it.                                                            *)
(*                                                                         *)
(* hc_create_transaction of utils/hc_utils.py chooses in the same way,     *)
(* with other thresholds (15 and 10), and pays differently: HcPay.         *)
(*                                                                         *)
(* Amounts are whole satoshis: round(x, 8) in the code.                    *)
(***************************************************************************)
EXTENDS Integers, Sequences, FiniteSets, FiniteSetsExt

CONSTANTS
    Coin,       \* the amounts an unspent output may have
    MaxCoins,   \* bound on their number
    Payee,      \* destination addresses
    From,       \* from_addr, which may be a destination too
    Amount,     \* the amounts that may be asked for
    Fee,        \* config["fee"]: what is reserved for the fee
    PerFee,     \* config["per_fee"], per 1000 bytes
    VinSize, VoutSize, Unit,   \* bytes per input and output; 1000
    Many,       \* a wallet with more outputs than this (8) is tidied up
    AtLeast,    \* with at least this many inputs (5)
    Dust        \* change must be more than this (546)

VARIABLES
    txout,     \* what ListUnSpent lists, sorted by amount, the largest first
    dest,      \* dest_info
    isFast,    \* is_fast
    fullSend,  \* full_send
    pc,        \* "large" -> "greedy" or "pad" -> "pay" -> "done" or "refused"
    used,      \* vin_need: indices into txout, in the order they are taken
    vouts      \* the outputs of the transaction

request == <<txout, dest, isFast, fullSend>>
vars == <<request, pc, used, vouts>>

Total(f) == MapThenSumSet(LAMBDA a : f[a], DOMAIN f)

\* What ListUnSpent may list, nothing included: then it did not answer, or has none.
Wallets == UNION {{s \in [1..n -> Coin] : \A k \in 1..(n - 1) : s[k] >= s[k + 1]} :
                    n \in 0..MaxCoins}

Dests == UNION {[S -> Amount] : S \in (SUBSET (Payee \cup {From})) \ {{}}}

TypeOK ==
    /\ txout \in Seq(Coin) /\ Len(txout) <= MaxCoins
    /\ dest \in Dests /\ isFast \in BOOLEAN /\ fullSend \in BOOLEAN
    /\ pc \in {"large", "greedy", "pad", "pay", "done", "refused"}
    /\ used \in Seq(DOMAIN txout) /\ Len(used) <= Len(txout)
    /\ DOMAIN vouts \subseteq Payee \cup {From}

Init ==
    /\ txout \in Wallets /\ dest \in Dests
    /\ isFast \in BOOLEAN /\ fullSend \in BOOLEAN
    /\ pc = "large" /\ used = <<>> /\ vouts = [a \in {} |-> 0]

Sum       == MapThenSumSet(LAMBDA k : txout[used[k]], DOMAIN used)
AllNeeded == Total(dest) + Fee

\* The outputs that would each pay for all.
Enough == {k \in DOMAIN txout : txout[k] >= AllNeeded}

\* An empty wallet pays nothing.  In a large one the smallest of them is taken; if
\* all outputs are that large, none is taken here.
TakeOne ==
    /\ pc = "large"
    /\ CASE txout = <<>> -> pc' = "refused" /\ UNCHANGED used
         [] Len(txout) > Many /\ Enough # {} ->
              pc' = "pad" /\ used' = IF Enough = DOMAIN txout THEN <<>> ELSE <<Max(Enough)>>
         [] OTHER -> pc' = "greedy" /\ UNCHANGED used
    /\ UNCHANGED <<request, vouts>>

Covered == Sum >= AllNeeded

\* The largest first, until they suffice.
TakeLargest ==
    /\ pc = "greedy"
    /\ IF Covered \/ Len(used) = Len(txout)
         THEN pc' = "pad" /\ UNCHANGED used
         ELSE used' = Append(used, Len(used) + 1) /\ UNCHANGED pc
    /\ UNCHANGED <<request, vouts>>

\* Mutants of Fillers: what is in use already is not left out; nor what is counted.
FillersAnyway == [k \in 1..(AtLeast - Len(used)) |-> Len(txout) + 1 - k]

FillersAll == [k \in 1..AtLeast |-> Len(txout) + 1 - k]

InUse(j) == \E k \in DOMAIN used : used[k] = j

\* Of the last AtLeast - Len(used) outputs those that are not in use, the smallest first.
Fillers ==
    LET last == {j \in (Len(txout) + Len(used) - AtLeast + 1)..Len(txout) : ~InUse(j)}
    IN  [k \in 1..Cardinality(last) |->
           CHOOSE j \in last : Cardinality({h \in last : h >= j}) = k]

Pad ==
    /\ pc = "pad"
    /\ used' = IF Len(txout) > Many /\ Len(used) < AtLeast THEN used \o Fillers ELSE used
    /\ pc' = "pay"
    /\ UNCHANGED <<request, vouts>>

\* Mutant of SizeFee: rounded down.
SizeFeeDown == ((Len(used) * VinSize + (Cardinality(DOMAIN dest) + 1) * VoutSize) \div Unit) * PerFee

\* math.ceil(trx_size / 1000.0) * per_fee, with an output for the change.
SizeFee ==
    LET size == Len(used) * VinSize + (Cardinality(DOMAIN dest) + 1) * VoutSize
    IN  ((size + Unit - 1) \div Unit) * PerFee

CalFee == IF isFast THEN Fee ELSE SizeFee

\* Mutant of LeftOver: the wrong way round.
LeftOverReversed == CalFee - Fee

\* What full_send adds to a payment.
LeftOver == Fee - CalFee

Change(fee) == Sum - Total(dest) - fee

\* The outputs, if the fee is f and d is to be paid.
WithChange(d, f) ==
    CASE Change(f) = 0 -> d
      [] Change(f) # 0 /\ From \in DOMAIN d -> [d EXCEPT ![From] = @ + Change(f)]
      [] Change(f) > Dust /\ From \notin DOMAIN d ->
           [a \in DOMAIN d \cup {From} |-> IF a = From THEN Change(f) ELSE d[a]]
      [] OTHER -> d

\* With full_send, one payee, the first of the dict, gets what of the reserved fee
\* is left over, and the fee is the reserved one from then on.  The node makes no
\* transaction with an output below zero.
Pay ==
    /\ pc = "pay"
    /\ \/ Sum < AllNeeded /\ pc' = "refused" /\ UNCHANGED vouts
       \/ Sum >= AllNeeded /\ ~fullSend /\ CalFee > Fee /\ pc' = "refused" /\ UNCHANGED vouts
       \/ /\ Sum >= AllNeeded /\ ~fullSend /\ CalFee <= Fee
          /\ vouts' = WithChange(dest, CalFee)
          /\ pc' = "done"
       \/ /\ Sum >= AllNeeded /\ fullSend
          /\ \E k \in DOMAIN dest :
               LET d == [dest EXCEPT ![k] = @ + LeftOver] IN
               IF d[k] < 0 THEN pc' = "refused" /\ UNCHANGED vouts
                           ELSE pc' = "done" /\ vouts' = WithChange(d, Fee)
    /\ UNCHANGED <<request, used>>

Next == TakeOne \/ TakeLargest \/ Pad \/ Pay

Spec == Init /\ [][Next]_vars

-----------------------------------------------------------------------------
(* hc: no fast or full mode, and the fee worked out is not compared with   *)
(* the reserve.                                                            *)

\* Mutant of HcRefuses: at the boundary.
HcRefusesExact == Sum <= AllNeeded

HcRefuses == ~Covered

\* Mutants of HcVouts: the fee reserved is kept, not the one worked out; the
\* wallet's own output is set to the change.
HcVoutsReserved == WithChange(dest, Fee)
HcVoutsReplaced ==
    IF From \in DOMAIN dest THEN [dest EXCEPT ![From] = Change(SizeFee)]
                            ELSE WithChange(dest, SizeFee)

HcVouts == WithChange(dest, SizeFee)

\* With the wallet's own address among the payees a fee above the reserve comes
\* out of its output, and the node makes no transaction with one below zero.
HcPay ==
    /\ pc = "pay"
    /\ IF HcRefuses \/ \E a \in DOMAIN HcVouts : HcVouts[a] < 0
         THEN pc' = "refused" /\ UNCHANGED vouts
         ELSE pc' = "done" /\ vouts' = HcVouts
    /\ UNCHANGED <<request, used>>

HcInit == Init /\ ~isFast /\ ~fullSend
HcNext == TakeOne \/ TakeLargest \/ Pad \/ HcPay
HcSpec == HcInit /\ [][HcNext]_vars

-----------------------------------------------------------------------------
(* What must hold.                                                         *)

Done == pc = "done"

Inputs == {used[k] : k \in DOMAIN used}

\* The fee the network takes.
Paid == MapThenSumSet(LAMBDA k : txout[k], Inputs) - Total(vouts)

\* No output is spent twice, whatever is taken, and then padded with.
SpentOnce == Cardinality(Inputs) = Len(used)

\* The fee pays for the transaction's size, with the outputs it really has, or is
\* the whole reserve; and beyond what was worked out it takes dust at most.
PaysForSize ==
    LET size == Len(used) * VinSize + Cardinality(DOMAIN vouts) * VoutSize
    IN  Done => /\ Paid * Unit >= (IF isFast THEN Fee * Unit ELSE size * PerFee)
                /\ Paid <= CalFee + Dust

\* A payee gets what is asked for, and with full_send no one gets less unless the
\* fee is larger than the reserve.
PayeesPaid ==
    Done => \A a \in DOMAIN dest \ {From} :
              /\ ~fullSend => vouts[a] = dest[a]
              /\ CalFee <= Fee => vouts[a] >= dest[a]

\* The request is refused only if the wallet lacks the money, or would need so
\* many outputs that the reserve does not pay for them, or the fee eats a payment.
RefusedForCause ==
    pc = "refused" =>
        \/ Total(txout) < AllNeeded
        \/ Sum >= AllNeeded /\ CalFee > Fee

\* The fee is never below the reserve or what the inputs need, whichever is
\* less, and takes no more than dust beyond what was worked out, although
\* nothing compares it with the reserve.
HcFeeInBounds ==
    Done => /\ Paid >= (IF SizeFee < Fee THEN SizeFee ELSE Fee)
            /\ Paid <= SizeFee + Dust

\* Every payee but the wallet itself gets what is asked for; the wallet loses no
\* more than the fee's excess over the reserve.
HcPayeesPaid ==
    Done => \A a \in DOMAIN dest :
              vouts[a] >= dest[a] - (IF a = From /\ SizeFee > Fee THEN SizeFee - Fee ELSE 0)

\* A request is refused for want of money, or because the fee eats the payment
\* to the wallet itself.
HcRefusedForCause ==
    pc = "refused" =>
        \/ Total(txout) < AllNeeded
        \/ From \in DOMAIN dest /\ SizeFee > Fee + dest[From]
=============================================================================
