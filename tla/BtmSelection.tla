---------------------------- MODULE BtmSelection ----------------------------
(***************************************************************************)
(* btm_create_transaction of utils/btm_utils.py.  The outputs are chosen   *)
(* as in CoinSelection, with other thresholds (20 and 6), but no more than *)
(* MaxInputs may be used, and the node estimates the fee of a first draft, *)
(* which gets a placeholder for the change if there is none.               *)
(***************************************************************************)
EXTENDS CoinSelection

CONSTANTS
    MaxInputs,     \* 8
    Estimates      \* the fees the node may estimate

VARIABLE estimate      \* est_fee of the draft

btmVars == <<vars, estimate>>

\* Mutant of Draft: the wallet's own output is set to the change.
DraftReplaced ==
    [a \in DOMAIN dest \cup {From} |-> IF a # From THEN dest[a] ELSE Change(Fee)]

\* The first draft: everything but the reserve is paid out, and the wallet has
\* an output of its own in any case.
Draft ==
    LET left == Change(Fee) IN
    IF From \in DOMAIN dest THEN [dest EXCEPT ![From] = @ + left]
    ELSE [a \in DOMAIN dest \cup {From} |->
            IF a # From THEN dest[a] ELSE IF left = 0 THEN 1 ELSE left]

\* Mutant of Surcharged: the estimate as it is.
SurchargedNot(e) == e

\* int(estimate_fee * 1.1)
Surcharged(e) == (11 * e) \div 10

BtmRefuses == Len(used) > MaxInputs \/ ~Covered

\* The rest of the reserve goes back to the wallet.
BtmPay ==
    /\ pc = "pay"
    /\ \/ BtmRefuses /\ pc' = "refused" /\ UNCHANGED <<vouts, estimate>>
       \/ /\ ~BtmRefuses
          /\ \E e \in Estimates :
                /\ estimate' = e
                /\ IF 11 * e >= 10 * Fee
                     THEN pc' = "refused" /\ UNCHANGED vouts
                     ELSE /\ pc' = "done"
                          /\ vouts' = [Draft EXCEPT ![From] = @ + Fee - Surcharged(e)]
    /\ UNCHANGED <<request, used>>

BtmInit == Init /\ ~isFast /\ ~fullSend /\ estimate = 0
BtmNext == ((TakeOne \/ TakeLargest \/ Pad) /\ UNCHANGED estimate) \/ BtmPay
BtmSpec == BtmInit /\ [][BtmNext]_btmVars

-----------------------------------------------------------------------------
\* The fee covers what the node asks for, and is below the reserve, whether
\* there is change, the placeholder, or an output of the wallet already.
BtmFeeInBounds == Done => Paid >= estimate /\ Paid < Fee

\* Every payee gets what is asked for.
BtmPayeesPaid == Done => \A a \in DOMAIN dest : vouts[a] >= dest[a]

\* A request is refused for want of money, for an estimate above the reserve, or
\* because the largest MaxInputs outputs do not pay for it; never because of the
\* outputs that tidying up adds.
BtmRefusedForCause ==
    pc = "refused" =>
        \/ Total(txout) < AllNeeded
        \/ 11 * estimate >= 10 * Fee
        \/ MapThenSumSet(LAMBDA k : txout[k], 1..MaxInputs) < AllNeeded
=============================================================================
