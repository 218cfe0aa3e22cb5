---------------------------- MODULE TxClassifier ----------------------------
(***************************************************************************)
(* collect_pretty_transaction of btc_data_collector/collect_btc_block.py   *)
(* and collect_pretty_transaction_btm, its twin for BTM: one pass over the *)
(* inputs and one over the outputs of a transaction decide whether it is a *)
(* deposit to a watched multisig ("LINK") address, a withdrawal from one,  *)
(* a transfer between two of them, or invalid, and what rows are recorded. *)
(*                                                                         *)
(* The loops are steps, so that a transaction may have any length.  The    *)
(* twins differ in how they read an input or an output, and are one        *)
(* machine over these readings.  What the passes do not look at is left    *)
(* out; what has no address has the address NoAddr.                        *)
(***************************************************************************)
EXTENDS Integers, FiniteSets, Amounts

CONSTANTS
    Address,    \* addresses
    NoAddr,     \* the empty string
    Watched,    \* multisig_address_cache
    Witness,    \* addresses of witness programs
    Hex,        \* per witness address: its scriptPubKey in hex
    Decimals,   \* 8: the decimals of an amount
    Tx          \* the transactions: [coin, vin, vout]

\* kind: "coin"; what is not a spend (a coinbase, an issuance), or not a payment
\* (a retirement): "void"; or of "another" asset, on the chain of BTM.
Input  == [addr : Address \cup {NoAddr}, kind : {"coin", "void", "another"}]
Output == [addr : Address \cup {NoAddr}, kind : {"coin", "void", "another"}, value : Nat]

Names == Address \cup {Hex[a] : a \in Witness}

\* A script is that of one address.  The chains of Bitcoin have one asset, on which the
\* comments of the functions rely, and the amounts of a transaction are numbers the
\* module can write.
ASSUME ClassifierAssumption ==
    /\ NoAddr \notin Names /\ Watched \subseteq Address \ Witness /\ Witness \subseteq Address
    /\ \A a, b \in Witness : Hex[a] \notin Address /\ (Hex[a] = Hex[b] => a = b)
    /\ Decimals \in Nat /\ MaxUnits \in Nat
    /\ \A tx \in Tx :
          /\ tx.coin \in {"btc", "btm"}
          /\ tx.vin \in Seq(Input) /\ tx.vout \in Seq(Output)
          /\ tx.coin = "btc" => /\ \A k \in DOMAIN tx.vout : tx.vout[k].kind = "coin"
                                /\ \A k \in DOMAIN tx.vin : tx.vin[k].kind # "another"
          /\ MapThenSumSet(LAMBDA k : tx.vout[k].value, DOMAIN tx.vout) <= MaxUnits

VARIABLES
    tx,         \* base_trx_data
    pc,         \* "vin" -> "vout" -> "type" -> "done"
    pos,        \* the input or output looked at next
    inSet,      \* in_set: its keys, the values are not used
    outSet,     \* out_set: what each address is paid
    linkIn,     \* multisig_in_addr
    linkOut,    \* multisig_out_addr
    isValid,    \* is_valid_tx
    type,       \* trx_data["type"]
    deposits,   \* what goes to deposit_transaction_cache
    withdraws   \* what goes to withdraw_transaction_cache

scan    == <<inSet, outSet, linkIn, linkOut, isValid>>
outcome == <<type, deposits, withdraws>>
classifyVars == <<tx, pc, pos, scan, outcome>>

\* trx_data["type"], by name: 0, 1, 2, and -3, -1, -2 for what is logged as an
\* error.  Rows are recorded of the first three only.
Types == {"transfer", "withdraw", "deposit",
          "bad transfer", "bad withdraw", "bad deposit", "nothing", "open"}

Text == [whole : Seq(0..9), frac : Seq(0..9)]
Row  == [from : Names, to : Address, amount : Text]

ClassifyTypeOK ==
    /\ pc \in {"vin", "vout", "type", "done"} /\ pos \in Nat \ {0}
    /\ inSet \subseteq Names
    /\ DOMAIN outSet \subseteq Address /\ \A a \in DOMAIN outSet : outSet[a] \in Nat
    /\ linkIn \in Address \cup {NoAddr} /\ linkOut \in Address \cup {NoAddr}
    /\ isValid \in BOOLEAN /\ type \in Types
    /\ \A r \in deposits \cup withdraws : r \in Row

ClassifyInit ==
    /\ tx \in Tx
    /\ pc = "vin" /\ pos = 1
    /\ inSet = {} /\ outSet = << >> /\ linkIn = NoAddr /\ linkOut = NoAddr
    /\ isValid = TRUE
    /\ type = "open" /\ deposits = {} /\ withdraws = {}

-----------------------------------------------------------------------------
(* The readings.                                                           *)

\* _get_vout_address: the output that is spent by its address, but by its script
\* if that is a witness program.
VoutAddress(a) == IF a \in Witness THEN Hex[a] ELSE a

BtcInAddress(in) == IF in.kind = "void" THEN NoAddr ELSE VoutAddress(in.addr)

\* Mutant of BtmInAddress: the asset is not looked at.
BtmInAddressAny(in) == IF in.kind = "void" THEN NoAddr ELSE in.addr

\* The type is "spend" and the asset that of BTM.
BtmInAddress(in) == IF in.kind # "coin" THEN NoAddr ELSE in.addr

InAddress(in) == IF tx.coin = "btm" THEN BtmInAddress(in) ELSE BtcInAddress(in)

\* Mutant of BtmOutAddress: the asset is not looked at.
BtmOutAddressAny(out) == IF out.kind = "void" THEN NoAddr ELSE out.addr

\* The type is "control" and the asset that of BTM.
BtmOutAddress(out) == IF out.kind # "coin" THEN NoAddr ELSE out.addr

\* "addresses"[0]
OutAddress(out) == IF tx.coin = "btm" THEN BtmOutAddress(out) ELSE out.addr

-----------------------------------------------------------------------------
\* One input.  Two different watched senders make the transaction invalid.
ScanIn ==
    /\ pc = "vin" /\ pos <= Len(tx.vin)
    /\ LET a == InAddress(tx.vin[pos]) IN
       /\ inSet' = inSet \cup ({a} \ {NoAddr})
       /\ linkIn' = IF a \in Watched /\ linkIn = NoAddr THEN a ELSE linkIn
       /\ isValid' = (isValid /\ ~(a \in Watched /\ linkIn \notin {NoAddr, a}))
    /\ pos' = pos + 1
    /\ UNCHANGED <<tx, pc, outSet, linkOut, outcome>>

EndIn ==
    /\ pc = "vin" /\ pos > Len(tx.vin)
    /\ pc' = "vout" /\ pos' = 1
    /\ UNCHANGED <<tx, scan, outcome>>

\* Mutant of IsChange: change is taken for a payment.
IsChangeNever(a) == FALSE

\* in_set.has_key(out_address)
IsChange(a) == a \in inSet

\* Mutant of PaidBefore: a second output to an address replaces the first.
PaidBeforeNone(a) == 0

PaidBefore(a) == IF a \in DOMAIN outSet THEN outSet[a] ELSE 0

\* One output.  A second output to a watched address, the same or another, makes
\* the transaction invalid.
ScanOut ==
    /\ pc = "vout" /\ pos <= Len(tx.vout)
    /\ LET a == OutAddress(tx.vout[pos]) IN
       IF a = NoAddr \/ IsChange(a)
         THEN UNCHANGED <<outSet, linkOut, isValid>>
         ELSE /\ outSet' = [b \in DOMAIN outSet \cup {a} |->
                             IF b = a THEN PaidBefore(a) + tx.vout[pos].value ELSE outSet[b]]
              /\ linkOut' = IF a \in Watched /\ linkOut = NoAddr THEN a ELSE linkOut
              /\ isValid' = (isValid /\ ~(a \in Watched /\ linkOut # NoAddr))
    /\ pos' = pos + 1
    /\ UNCHANGED <<tx, pc, inSet, linkIn, outcome>>

EndOut ==
    /\ pc = "vout" /\ pos > Len(tx.vout)
    /\ pc' = "type"
    /\ UNCHANGED <<tx, pos, scan, outcome>>

\* Mutants of OneSender: inputs are counted, not addresses; no test at all.
OneSenderInput == Len(tx.vin) = 1
OneSenderAny   == inSet # {}

\* len(in_set) == 1
OneSender == Cardinality(inSet) = 1

Kind ==
    CASE linkIn # NoAddr /\ linkOut # NoAddr -> IF isValid THEN "transfer" ELSE "bad transfer"
      [] linkIn # NoAddr /\ linkOut = NoAddr -> IF isValid THEN "withdraw" ELSE "bad withdraw"
      [] linkIn = NoAddr /\ linkOut # NoAddr ->
           IF isValid /\ OneSender THEN "deposit" ELSE "bad deposit"
      [] OTHER -> "nothing"

\* Mutant of Senders: the address of the first input, if it has one or not.
SendersFirst == {tx.vin[1].addr}

\* in_set.keys()[0] and out_set.values()[0]: a dict of Python 2 lists its keys in
\* an order that depends on their hashes.
Senders == inSet

Amount(n) == FixedText(n, Decimals)

Classify ==
    /\ pc = "type"
    /\ type' = Kind
    /\ IF Kind \in {"deposit", "transfer"}
         THEN \E f \in Senders, a \in DOMAIN outSet :
                deposits' = {[from |-> f, to |-> linkOut, amount |-> Amount(outSet[a])]}
         ELSE UNCHANGED deposits
    /\ withdraws' =
         IF Kind = "withdraw"
           THEN {[from |-> linkIn, to |-> a, amount |-> Amount(outSet[a])] : a \in DOMAIN outSet}
           ELSE withdraws
    /\ pc' = "done"
    /\ UNCHANGED <<tx, pos, scan>>

ClassifyNext == ScanIn \/ EndIn \/ ScanOut \/ EndOut \/ Classify

ClassifySpec == ClassifyInit /\ [][ClassifyNext]_classifyVars

-----------------------------------------------------------------------------
(* The comment of the function, as definitions over the whole transaction. *)

Coins(s)  == {k \in DOMAIN s : s[k].kind = "coin" /\ s[k].addr # NoAddr}
Spenders  == {tx.vin[k].addr : k \in Coins(tx.vin)}
Payments  == {k \in Coins(tx.vout) : tx.vout[k].addr \notin Spenders}
Receivers == {tx.vout[k].addr : k \in Payments}
LinksIn   == Spenders \cap Watched
LinksOut  == Receivers \cap Watched
PaidTo(a) == MapThenSumSet(LAMBDA k : tx.vout[k].value, {k \in Payments : tx.vout[k].addr = a})

\* "only one other address in vin and only one LINK address in vout"
IsDeposit == LinksIn = {} /\ Cardinality(Spenders) = 1 /\ Cardinality(LinksOut) = 1

\* "only one LINK address in vin and only other addresses in vout"
IsWithdraw == Cardinality(LinksIn) = 1 /\ LinksOut = {}

\* "only one LINK address in vin and only one other LINK address in vout"
IsTransfer == Cardinality(LinksIn) = 1 /\ Cardinality(LinksOut) = 1

\* No watched address is paid by two outputs.
Unsplit == Cardinality({k \in Payments : tx.vout[k].addr \in Watched}) = Cardinality(LinksOut)

\* No change goes back to a witness address.  (The code does not see that it is
\* change: the input is read as a script and the output as an address.)
ChangeSeen ==
    tx.coin = "btc" => \A k \in Coins(tx.vout) : tx.vout[k].addr \notin Spenders \cap Witness

Done == pc = "done"

\* What is recorded is what the comment says it is: rows of the deposit table
\* come only from deposits and transfers between watched addresses, rows of the
\* withdrawal table only from withdrawals.
RecordedIsOfItsKind ==
    Done => /\ deposits # {} => IsDeposit \/ IsTransfer
            /\ withdraws # {} => IsWithdraw

\* A deposit to a watched address that is paid by one output is recorded, as
\* sent by its one sender to that address.
DepositRecorded ==
    Done /\ IsDeposit /\ Unsplit =>
        \E r \in deposits : r.from \in {InAddress(in) : in \in Range(tx.vin)} /\ r.to \in LinksOut

\* A withdrawal is recorded with one row per receiver, of all it is paid, and
\* the change never is.
WithdrawalExact ==
    Done /\ IsWithdraw /\ ChangeSeen =>
        {[r EXCEPT !.amount = UnitsOf(@, Decimals)] : r \in withdraws}
          = {[from |-> f, to |-> a, amount |-> PaidTo(a)] : f \in LinksIn, a \in Receivers}

\* The amount of a deposit is what the watched address is paid, when the sender
\* pays no other address but himself.  (With a third receiver it may be what
\* that one is paid: out_set.values()[0].)
DepositAmountExact ==
    Done /\ Cardinality(Receivers) = 1 /\ ChangeSeen =>
        \A r \in deposits : UnitsOf(r.amount, Decimals) = PaidTo(r.to)

\* The scans, with their early returns, never let a transaction of the wrong kind
\* through to a table.
KindsRight == ClassifyTypeOK /\ RecordedIsOfItsKind

\* The rows of a transaction are complete and exact: no deposit is missed, no
\* receiver of a withdrawal left out, no change counted, no amount wrong.
RowsExact == DepositRecorded /\ WithdrawalExact /\ DepositAmountExact
=============================================================================
