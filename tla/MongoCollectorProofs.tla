------------------------- MODULE MongoCollectorProofs -------------------------
(***************************************************************************)
(* Proofs about the Mongo collectors.                                      *)
(*                                                                         *)
(* About TxClassifier, for any transactions of any length, any addresses   *)
(* and amounts:                                                            *)
(*   KindsAreRight          ClassifySpec => []KindsRight                   *)
(*   RowsAreExact           ClassifySpec => []RowsExact                    *)
(*                                                                         *)
(* About MongoCollector, for any chain, set of addresses, queue capacity,  *)
(* number of restarts and depth of confirmation:                           *)
(*   CollectorCorrect       Spec => []CollectorInv, the inductive invariant*)
(*   FinalBlocksOnly        Spec => []OnlyFinalBlocks                      *)
(*   TransfersStoredExact   Spec => []TransfersExact, for every coin       *)
(*   TablesStoredExact      OwnTag => (Spec => []StoredExact)              *)
(*   CollectorImplementsLog Spec => ImplementsTransferLog                  *)
(***************************************************************************)
EXTENDS MongoCollector, TxClassifier, DataLemmas

-----------------------------------------------------------------------------
(* TxClassifier.                                                           *)

\* The sum of the values of some outputs, as Payments and the assumption write it.
ValueSum(v, S) == MapThenSumSet(LAMBDA k : v[k].value, S)

\* It is the sum of the values, taken as a function.
LEMMA ValueSumIsSumOf ==
    ASSUME NEW v, NEW S, IsFiniteSet(S)
    PROVE  ValueSum(v, S) = SumOf([k \in S |-> v[k].value], S)
<1> DEFINE F == [k \in S |-> v[k].value]
<1> DEFINE Q(g) == g = [s \in SUBSET S |-> IF s = {} THEN 0 ELSE v[Pick(s)].value + g[s \ {Pick(s)}]]
<1>1. ASSUME NEW g PROVE Q(g) <=> IsSum(g, F, S)
  <2>1. \A s \in SUBSET S : s # {} => F[Pick(s)] = v[Pick(s)].value
    BY DEF Pick
  <2> HIDE DEF F
  <2> QED
    BY <2>1 DEF IsSum
<1> DEFINE it == CHOOSE g : Q(g)
<1> HIDE DEF F
<1>2. PICK h : IsSum(h, F, S) /\ SumOf(F, S) = h[S]
  BY SumByFunction
<1>3. Q(it)
  <2>1. Q(h)
    BY <1>1, <1>2
  <2> HIDE DEF Q
  <2> QED
    BY <2>1
<1>4. IsSum(it, F, S)
  <2> HIDE DEF Q, it
  <2> QED
    BY <1>1, <1>3
<1>5. it[S] = h[S]
  <2> HIDE DEF Q, it
  <2> QED
    BY <1>2, <1>4, SumUnique
<1>6. ValueSum(v, S) = it[S]
  BY DEF ValueSum, MapThenSumSet, MapThenFoldSet, Pick
<1> QED
  BY <1>2, <1>5, <1>6 DEF F

-----------------------------------------------------------------------------
(* The inductive invariant of the two passes.                              *)

\* What is read of an input, and of an output.
InAt(k)  == InAddress(tx.vin[k])
OutAt(k) == OutAddress(tx.vout[k])

\* The inputs and the outputs that have been looked at.
InsSeen  == IF pc = "vin" THEN 1..(pos - 1) ELSE DOMAIN tx.vin
OutsSeen == IF pc = "vin" THEN {} ELSE IF pc = "vout" THEN 1..(pos - 1) ELSE DOMAIN tx.vout

\* The outputs that were taken for payments, those to one address, those to a
\* watched one.
Paying      == {k \in OutsSeen : OutAt(k) # NoAddr /\ OutAt(k) \notin inSet}
PayingTo(a) == {k \in Paying : OutAt(k) = a}
Linked      == {k \in Paying : OutAt(k) \in Watched}

\* The amounts of the outputs.
Values == [k \in DOMAIN tx.vout |-> tx.vout[k].value]

\* Where the machine is.
PlaceInv ==
    /\ tx \in Tx /\ pc \in {"vin", "vout", "type", "done"} /\ pos \in Nat \ {0}
    /\ pc = "vin" => pos - 1 <= Len(tx.vin)
    /\ pc = "vout" => pos - 1 <= Len(tx.vout)

\* in_set has what was read of the inputs, and one watched sender if there is one.
InInv ==
    /\ inSet = {InAt(k) : k \in InsSeen} \ {NoAddr}
    /\ linkIn = NoAddr => inSet \cap Watched = {}
    /\ linkIn # NoAddr => linkIn \in inSet \cap Watched

\* out_set has what was paid to each receiver, and there is one watched receiver if there is any.
OutInv ==
    /\ DOMAIN outSet = {OutAt(k) : k \in Paying}
    /\ \A a \in DOMAIN outSet : outSet[a] = SumOf(Values, PayingTo(a))
    /\ linkOut = NoAddr => Linked = {}
    /\ linkOut # NoAddr => \E k \in Linked : linkOut = OutAt(k)

\* Valid is what has one watched sender at most, and one output to a watched address.
ValidInv == isValid = (inSet \cap Watched \subseteq {linkIn} /\ \A j, k \in Linked : j = k)

\* Nothing is recorded before the end.
OpenInv == pc # "done" => deposits = {} /\ withdraws = {} /\ type = "open"

\* The inductive invariant of the scans.
ScanInv == PlaceInv /\ InInv /\ OutInv /\ ValidInv /\ OpenInv

\* A transaction has numbered inputs and outputs.
LEMMA TxFacts ==
    ASSUME tx \in Tx
    PROVE  /\ tx.coin \in {"btc", "btm"} /\ Len(tx.vin) \in Nat /\ Len(tx.vout) \in Nat
           /\ DOMAIN tx.vin = 1..Len(tx.vin) /\ DOMAIN tx.vout = 1..Len(tx.vout)
           /\ \A k \in DOMAIN tx.vin : tx.vin[k] \in Input
           /\ \A k \in DOMAIN tx.vout : tx.vout[k] \in Output
<1>1. tx.coin \in {"btc", "btm"} /\ tx.vin \in Seq(Input) /\ tx.vout \in Seq(Output)
  BY ClassifierAssumption
<1>2. PICK v : v = tx.vin
  OBVIOUS
<1>3. PICK w : w = tx.vout
  OBVIOUS
<1>4. v \in Seq(Input) /\ w \in Seq(Output)
  BY <1>1, <1>2, <1>3
<1>5. /\ Len(v) \in Nat /\ DOMAIN v = 1..Len(v) /\ \A k \in DOMAIN v : v[k] \in Input
      /\ Len(w) \in Nat /\ DOMAIN w = 1..Len(w) /\ \A k \in DOMAIN w : w[k] \in Output
  BY <1>4
<1> QED
  BY <1>1, <1>2, <1>3, <1>5

\* What is read of an input or an output: an address, the script of one, or nothing.
LEMMA Readings ==
    ASSUME tx \in Tx
    PROVE  /\ \A k \in DOMAIN tx.vin : InAt(k) \in Names \cup {NoAddr}
           /\ \A k \in DOMAIN tx.vout : /\ OutAt(k) \in Address \cup {NoAddr}
                                        /\ OutAt(k) # NoAddr => OutAt(k) = tx.vout[k].addr
                                        /\ tx.vout[k].value \in Nat
<1>1. ASSUME NEW k \in DOMAIN tx.vin PROVE InAt(k) \in Names \cup {NoAddr}
  <2>1. tx.vin[k] \in Input
    BY TxFacts
  <2> QED
    BY <2>1 DEF InAt, InAddress, BtcInAddress, BtmInAddress, VoutAddress, Input, Names
<1>2. ASSUME NEW k \in DOMAIN tx.vout
      PROVE  /\ OutAt(k) \in Address \cup {NoAddr}
             /\ OutAt(k) # NoAddr => OutAt(k) = tx.vout[k].addr
             /\ tx.vout[k].value \in Nat
  <2>1. tx.vout[k] \in Output
    BY TxFacts
  <2> QED
    BY <2>1 DEF OutAt, OutAddress, BtmOutAddress, Output
<1> QED
  BY <1>1, <1>2

\* Nothing is not an address, and no such address is watched.
LEMMA NoAddrFacts ==
    NoAddr \notin Names /\ NoAddr \notin Address /\ NoAddr \notin Watched /\ Watched \subseteq Address
BY ClassifierAssumption DEF Names

\* What has been looked at is part of the transaction.
LEMMA OutsFacts ==
    ASSUME PlaceInv
    PROVE  /\ OutsSeen \subseteq DOMAIN tx.vout /\ InsSeen \subseteq DOMAIN tx.vin
           /\ IsFiniteSet(DOMAIN tx.vout) /\ IsFiniteSet(DOMAIN tx.vin)
           /\ \A S \in SUBSET DOMAIN tx.vout : IsFiniteSet(S)
           /\ \A k \in DOMAIN tx.vout : Values[k] \in Nat
<1>1. /\ Len(tx.vin) \in Nat /\ Len(tx.vout) \in Nat
      /\ DOMAIN tx.vin = 1..Len(tx.vin) /\ DOMAIN tx.vout = 1..Len(tx.vout)
  BY TxFacts DEF PlaceInv
<1>2. IsFiniteSet(DOMAIN tx.vout) /\ IsFiniteSet(DOMAIN tx.vin)
  BY <1>1, FS_Interval
<1>3. OutsSeen \subseteq DOMAIN tx.vout /\ InsSeen \subseteq DOMAIN tx.vin
  BY <1>1 DEF PlaceInv, OutsSeen, InsSeen
<1>4. \A k \in DOMAIN tx.vout : Values[k] \in Nat
  BY Readings DEF PlaceInv, Values
<1> QED
  BY <1>2, <1>3, <1>4, FS_Subset

\* Before the first input,
LEMMA InitScan == ClassifyInit => ScanInv
<1> SUFFICES ASSUME ClassifyInit PROVE ScanInv
  OBVIOUS
<1>1. PlaceInv
  BY TxFacts DEF ClassifyInit, PlaceInv
<1>2. InsSeen = {} /\ OutsSeen = {}
  BY DEF ClassifyInit, InsSeen, OutsSeen
<1>3. Paying = {} /\ Linked = {}
  BY <1>2 DEF Paying, Linked
<1>4. DOMAIN outSet = {}
  BY DEF ClassifyInit
<1>5. InInv
  BY <1>2 DEF ClassifyInit, InInv
<1>6. OutInv
  BY <1>3, <1>4 DEF ClassifyInit, OutInv
<1>7. isValid = TRUE /\ inSet = {}
  BY DEF ClassifyInit
<1>8. ValidInv
  BY <1>3, <1>7 DEF ValidInv
<1> QED
  BY <1>1, <1>5, <1>6, <1>8 DEF ScanInv, ClassifyInit, OpenInv

\* What a step that leaves the transaction alone does not change.
LEMMA SameReadings ==
    ASSUME tx' = tx
    PROVE  /\ \A k : InAt(k)' = InAt(k)
           /\ \A k : OutAt(k)' = OutAt(k)
           /\ Values' = Values
BY DEF InAt, OutAt, InAddress, OutAddress, BtcInAddress, BtmInAddress, BtmOutAddress, VoutAddress,
       Values

\* What was seen stays seen: the facts about the scans are those before.
LEMMA SameScan ==
    ASSUME InInv, OutInv, ValidInv, tx' = tx, InsSeen' = InsSeen, OutsSeen' = OutsSeen,
           inSet' = inSet, outSet' = outSet, linkIn' = linkIn, linkOut' = linkOut,
           isValid' = isValid
    PROVE  InInv' /\ OutInv' /\ ValidInv'
<1>1. Paying' = Paying
  BY SameReadings DEF Paying
<1>2. Linked' = Linked /\ \A b : PayingTo(b)' = PayingTo(b)
  BY <1>1, SameReadings DEF Linked, PayingTo
<1>3. InInv'
  <2>1. inSet' = {InAt(k)' : k \in InsSeen'} \ {NoAddr}
    BY SameReadings DEF InInv
  <2> QED
    BY <2>1 DEF InInv
<1>4. OutInv'
  <2>1. DOMAIN outSet' = {OutAt(k)' : k \in Paying'}
    BY <1>1, SameReadings DEF OutInv
  <2>2. \A b \in DOMAIN outSet' : outSet'[b] = SumOf(Values', PayingTo(b)')
    BY <1>2, SameReadings DEF OutInv
  <2>3. linkOut' # NoAddr => \E k \in Linked' : linkOut' = OutAt(k)'
    BY <1>2, SameReadings DEF OutInv
  <2> QED
    BY <1>2, <2>1, <2>2, <2>3 DEF OutInv
<1>5. ValidInv'
  BY <1>2 DEF ValidInv
<1> QED
  BY <1>3, <1>4, <1>5

\* An input that is looked at: the first watched sender is kept, another one makes the
\* transaction invalid.
LEMMA ScanInStep == ScanInv /\ ScanIn => ScanInv'
<1> SUFFICES ASSUME ScanInv, ScanIn PROVE ScanInv'
  OBVIOUS
<1> DEFINE a == InAt(pos)
<1>1. /\ pc = "vin" /\ pc' = "vin" /\ tx' = tx /\ tx \in Tx /\ pos \in Nat \ {0} /\ pos' = pos + 1
      /\ pos <= Len(tx.vin) /\ outSet' = outSet /\ linkOut' = linkOut
      /\ type' = type /\ deposits' = deposits /\ withdraws' = withdraws
  BY DEF ScanInv, PlaceInv, ScanIn, outcome
<1>2. /\ inSet' = inSet \cup ({a} \ {NoAddr})
      /\ linkIn' = IF a \in Watched /\ linkIn = NoAddr THEN a ELSE linkIn
      /\ isValid' = (isValid /\ ~(a \in Watched /\ linkIn \notin {NoAddr, a}))
  BY DEF ScanIn, InAt
<1>3. Len(tx.vin) \in Nat
  BY <1>1, TxFacts
<1>4. PlaceInv'
  BY <1>1, <1>3 DEF PlaceInv
<1>5. InsSeen' = InsSeen \cup {pos} /\ OutsSeen = {} /\ OutsSeen' = {}
  BY <1>1 DEF InsSeen, OutsSeen
<1>6. Paying = {} /\ Paying' = {} /\ Linked = {} /\ Linked' = {}
  BY <1>5 DEF Paying, Linked
<1>7. /\ inSet = {InAt(k) : k \in InsSeen} \ {NoAddr}
      /\ linkIn = NoAddr => inSet \cap Watched = {}
      /\ linkIn # NoAddr => linkIn \in inSet \cap Watched
      /\ isValid = (inSet \cap Watched \subseteq {linkIn})
  BY <1>6 DEF ScanInv, InInv, ValidInv
<1>8. inSet' = {InAt(k) : k \in InsSeen'} \ {NoAddr}
  BY <1>2, <1>5, <1>7
<1>9. inSet' = {InAt(k)' : k \in InsSeen'} \ {NoAddr}
  BY <1>1, <1>8, SameReadings
<1> HIDE DEF a
<1>10. /\ linkIn' = NoAddr => inSet' \cap Watched = {}
       /\ linkIn' # NoAddr => linkIn' \in inSet' \cap Watched
       /\ isValid' = (inSet' \cap Watched \subseteq {linkIn'})
  <2>1. NoAddr \notin Watched
    BY NoAddrFacts
  <2>2. CASE a \notin Watched
    <3>1. inSet' \cap Watched = inSet \cap Watched /\ linkIn' = linkIn /\ isValid' = (isValid /\ TRUE)
      BY <1>2, <2>2
    <3>2. isValid' = isValid
      BY <1>7, <3>1
    <3> QED
      BY <1>7, <3>1, <3>2
  <2>3. CASE a \in Watched
    <3>1. inSet' \cap Watched = (inSet \cap Watched) \cup {a} /\ a # NoAddr
      BY <1>2, <2>1, <2>3
    <3>2. CASE linkIn = NoAddr
      <4>1. linkIn' = a /\ inSet' \cap Watched = {a}
        BY <1>2, <1>7, <2>3, <3>1, <3>2
      <4>2. isValid = TRUE
        BY <1>7, <3>2
      <4>3. isValid' = TRUE
        BY <1>2, <3>2, <4>2
      <4> QED
        BY <3>1, <4>1, <4>3
    <3>3. CASE linkIn # NoAddr
      <4>1. linkIn' = linkIn
        BY <1>2, <3>3
      <4>2. isValid' = (isValid /\ linkIn = a)
        BY <1>2, <2>3, <3>3
      <4>3. (inSet' \cap Watched \subseteq {linkIn}) <=> (inSet \cap Watched \subseteq {linkIn} /\ linkIn = a)
        BY <3>1
      <4>4. isValid' = (inSet' \cap Watched \subseteq {linkIn})
        BY <1>7, <4>2, <4>3
      <4> QED
        BY <1>7, <3>1, <3>3, <4>1, <4>4
    <3> QED
      BY <3>2, <3>3
  <2> QED
    BY <2>2, <2>3
<1>11. InInv'
  BY <1>9, <1>10 DEF InInv
<1>12. OutInv'
  <2>1. DOMAIN outSet = {} /\ linkOut = NoAddr
    BY <1>6 DEF ScanInv, OutInv
  <2> QED
    BY <1>1, <1>6, <2>1 DEF OutInv
<1>13. ValidInv'
  BY <1>6, <1>10 DEF ValidInv
<1>14. OpenInv'
  BY <1>1 DEF ScanInv, OpenInv
<1> QED
  BY <1>4, <1>11, <1>12, <1>13, <1>14 DEF ScanInv

\* All inputs have been looked at.
LEMMA EndInStep == ScanInv /\ EndIn => ScanInv'
<1> SUFFICES ASSUME ScanInv, EndIn PROVE ScanInv'
  OBVIOUS
<1>1. /\ pc = "vin" /\ pc' = "vout" /\ tx' = tx /\ tx \in Tx /\ pos \in Nat \ {0} /\ pos' = 1
      /\ pos > Len(tx.vin) /\ pos - 1 <= Len(tx.vin)
      /\ inSet' = inSet /\ outSet' = outSet /\ linkIn' = linkIn /\ linkOut' = linkOut
      /\ isValid' = isValid
      /\ type' = type /\ deposits' = deposits /\ withdraws' = withdraws
  BY DEF ScanInv, PlaceInv, EndIn, scan, outcome
<1>2. Len(tx.vin) \in Nat /\ Len(tx.vout) \in Nat /\ DOMAIN tx.vin = 1..Len(tx.vin)
  BY <1>1, TxFacts
<1>3. PlaceInv'
  BY <1>1, <1>2 DEF PlaceInv
<1>4. InsSeen' = InsSeen /\ OutsSeen = {} /\ OutsSeen' = {}
  <2>1. pos - 1 = Len(tx.vin)
    BY <1>1, <1>2
  <2> QED
    BY <1>1, <1>2, <2>1 DEF InsSeen, OutsSeen
<1> QED
  BY <1>1, <1>3, <1>4, SameScan DEF ScanInv, OpenInv

\* An output that is looked at: what it pays is added to what its address was paid, unless
\* it is change; the first watched receiver is kept, any other output to one makes the
\* transaction invalid.
LEMMA ScanOutStep == ScanInv /\ ScanOut => ScanInv'
<1> SUFFICES ASSUME ScanInv, ScanOut PROVE ScanInv'
  OBVIOUS
<1> DEFINE a == OutAt(pos)
<1>1. /\ pc = "vout" /\ pc' = "vout" /\ tx' = tx /\ tx \in Tx /\ pos \in Nat \ {0} /\ pos' = pos + 1
      /\ pos <= Len(tx.vout) /\ inSet' = inSet /\ linkIn' = linkIn
      /\ type' = type /\ deposits' = deposits /\ withdraws' = withdraws
  BY DEF ScanInv, PlaceInv, ScanOut, outcome
<1>2. /\ Len(tx.vout) \in Nat /\ DOMAIN tx.vout = 1..Len(tx.vout) /\ pos \in DOMAIN tx.vout
  BY <1>1, TxFacts
<1>3. PlaceInv'
  BY <1>1, <1>2 DEF PlaceInv
<1>4. /\ InsSeen' = InsSeen /\ OutsSeen' = OutsSeen \cup {pos} /\ pos \notin OutsSeen
  BY <1>1 DEF InsSeen, OutsSeen
<1>5. InInv'
  <2>1. inSet = {InAt(k) : k \in InsSeen} \ {NoAddr}
    BY DEF ScanInv, InInv
  <2>2. inSet' = {InAt(k)' : k \in InsSeen'} \ {NoAddr}
    BY <1>1, <1>4, <2>1, SameReadings
  <2> QED
    BY <1>1, <2>2 DEF ScanInv, InInv
<1>6. OpenInv'
  BY <1>1 DEF ScanInv, OpenInv
<1>7. /\ Paying' = {k \in OutsSeen' : OutAt(k) # NoAddr /\ OutAt(k) \notin inSet}
      /\ Linked' = {k \in Paying' : OutAt(k) \in Watched}
      /\ \A b : PayingTo(b)' = {k \in Paying' : OutAt(k) = b}
  BY <1>1, SameReadings DEF Paying, Linked, PayingTo
<1>a. Values' = Values
  BY <1>1, SameReadings
<1>8. CASE a = NoAddr \/ IsChange(a)
  <2>1. outSet' = outSet /\ linkOut' = linkOut /\ isValid' = isValid
    BY <1>8 DEF ScanOut, OutAt
  <2>2. Paying' = Paying
    BY <1>4, <1>7, <1>8 DEF Paying, IsChange
  <2>3. Linked' = Linked /\ \A b : PayingTo(b)' = PayingTo(b)
    BY <1>7, <2>2 DEF Linked, PayingTo
  <2>4. OutInv'
    <3>1. DOMAIN outSet' = {OutAt(k)' : k \in Paying'}
      BY <1>1, <2>1, <2>2, SameReadings DEF ScanInv, OutInv
    <3>2. \A b \in DOMAIN outSet' : outSet'[b] = SumOf(Values', PayingTo(b)')
      BY <1>a, <2>1, <2>3 DEF ScanInv, OutInv
    <3>3. linkOut' # NoAddr => \E k \in Linked' : linkOut' = OutAt(k)'
      BY <1>1, <2>1, <2>3, SameReadings DEF ScanInv, OutInv
    <3> QED
      BY <2>1, <2>3, <3>1, <3>2, <3>3 DEF ScanInv, OutInv
  <2>5. ValidInv'
    BY <1>1, <2>1, <2>3 DEF ScanInv, ValidInv
  <2> QED
    BY <1>3, <1>5, <1>6, <2>4, <2>5 DEF ScanInv
<1>9. CASE ~(a = NoAddr \/ IsChange(a))
  <2>1. /\ outSet' = [b \in DOMAIN outSet \cup {a} |->
                        IF b = a THEN PaidBefore(a) + tx.vout[pos].value ELSE outSet[b]]
        /\ linkOut' = IF a \in Watched /\ linkOut = NoAddr THEN a ELSE linkOut
        /\ isValid' = (isValid /\ ~(a \in Watched /\ linkOut # NoAddr))
    BY <1>9 DEF ScanOut, OutAt
  <2>2. Paying' = Paying \cup {pos} /\ pos \notin Paying
    BY <1>4, <1>7, <1>9 DEF Paying, IsChange
  <2>3. /\ DOMAIN outSet = {OutAt(k) : k \in Paying}
        /\ \A b \in DOMAIN outSet : outSet[b] = SumOf(Values, PayingTo(b))
        /\ linkOut = NoAddr => Linked = {}
        /\ linkOut # NoAddr => \E k \in Linked : linkOut = OutAt(k)
        /\ isValid = (inSet \cap Watched \subseteq {linkIn} /\ \A j, k \in Linked : j = k)
    BY DEF ScanInv, OutInv, ValidInv
  <2>4. Linked' = IF a \in Watched THEN Linked \cup {pos} ELSE Linked
    BY <1>7, <2>2 DEF Linked
  <2>5. pos \notin Linked
    BY <2>2 DEF Linked
  <2>6. DOMAIN outSet' = {OutAt(k)' : k \in Paying'}
    <3>1. DOMAIN outSet' = {OutAt(k) : k \in Paying} \cup {OutAt(pos)}
      BY <2>1, <2>3
    <3>2. DOMAIN outSet' = {OutAt(k) : k \in Paying'}
      BY <2>2, <3>1
    <3> QED
      BY <1>1, <3>2, SameReadings
  <2>7. ASSUME NEW b \in DOMAIN outSet' PROVE outSet'[b] = SumOf(Values', PayingTo(b)')
    <3> DEFINE P == PayingTo(b)
    <3>1. P \in SUBSET DOMAIN tx.vout /\ IsFiniteSet(P)
      <4>1. P \subseteq OutsSeen
        BY DEF PayingTo, Paying
      <4> QED
        BY <4>1, OutsFacts DEF ScanInv
    <3>2. \A k \in DOMAIN tx.vout : Values[k] \in Nat
      BY OutsFacts DEF ScanInv
    <3>3. Values[pos] = tx.vout[pos].value
      BY <1>2 DEF Values
    <3>4. SumOf(Values, P) \in Int
      BY <3>1, <3>2, SumOfType
    <3>5. CASE b = a
      <4>1. PayingTo(b)' = P \cup {pos} /\ pos \notin P
        BY <1>7, <2>2, <3>5 DEF PayingTo
      <4>2. SumOf(Values, P \cup {pos}) = Values[pos] + SumOf(Values, P)
        <5> HIDE DEF P, a
        <5> QED
          BY <1>2, <3>1, <3>2, <4>1, SumOfAdd
      <4>3. outSet'[b] = PaidBefore(a) + tx.vout[pos].value
        BY <2>1, <3>5
      <4>4. PaidBefore(a) = SumOf(Values, P)
        <5>1. CASE a \in DOMAIN outSet
          BY <2>3, <3>5, <5>1 DEF PaidBefore
        <5>2. CASE a \notin DOMAIN outSet
          <6>1. P = {}
            BY <2>3, <3>5, <5>2 DEF PayingTo
          <6> QED
            BY <5>2, <6>1, SumOfEmpty DEF PaidBefore
        <5> QED
          BY <5>1, <5>2
      <4>5. PICK s \in Int, v \in Int : s = SumOf(Values, P) /\ v = Values[pos]
        BY <1>2, <3>2, <3>4
      <4>6. s + v = v + s
        OBVIOUS
      <4> HIDE DEF P, a
      <4> QED
        BY <1>a, <3>3, <4>1, <4>2, <4>3, <4>4, <4>5, <4>6
    <3>6. CASE b # a
      <4>1. PayingTo(b)' = P
        BY <1>7, <2>2, <3>6 DEF PayingTo
      <4>2. b \in DOMAIN outSet /\ outSet'[b] = outSet[b]
        BY <2>1, <3>6
      <4> QED
        BY <1>a, <2>3, <4>1, <4>2
    <3> QED
      BY <3>5, <3>6
  <2>8. NoAddr \notin Watched
    BY NoAddrFacts
  <2>9. /\ linkOut' = NoAddr => Linked' = {}
        /\ linkOut' # NoAddr => \E k \in Linked' : linkOut' = OutAt(k)
        /\ isValid' = (inSet \cap Watched \subseteq {linkIn} /\ \A j, k \in Linked' : j = k)
    <3>1. CASE a \notin Watched
      <4>1. linkOut' = linkOut /\ Linked' = Linked /\ isValid' = (isValid /\ TRUE)
        BY <2>1, <2>4, <3>1
      <4> QED
        BY <2>3, <4>1
    <3>2. CASE a \in Watched
      <4>1. Linked' = Linked \cup {pos}
        BY <2>4, <3>2
      <4>2. CASE linkOut = NoAddr
        <5>1. linkOut' = a /\ Linked' = {pos} /\ isValid' = (isValid /\ TRUE)
          BY <2>1, <2>3, <3>2, <4>1, <4>2
        <5>2. (\A j, k \in Linked' : j = k) /\ (\A j, k \in Linked : j = k)
          BY <2>3, <4>2, <5>1
        <5> QED
          BY <2>3, <2>8, <3>2, <5>1, <5>2
      <4>3. CASE linkOut # NoAddr
        <5>1. linkOut' = linkOut /\ isValid' = (isValid /\ FALSE)
          BY <2>1, <3>2, <4>3
        <5>2. ~(\A j, k \in Linked' : j = k)
          BY <2>3, <2>5, <4>1, <4>3
        <5>3. isValid' = FALSE
          BY <5>1
        <5> QED
          BY <2>3, <4>1, <4>3, <5>1, <5>2, <5>3
      <4> QED
        BY <4>2, <4>3
    <3> QED
      BY <3>1, <3>2
  <2>10. OutInv'
    <3>1. linkOut' # NoAddr => \E k \in Linked' : linkOut' = OutAt(k)'
      BY <1>1, <2>9, SameReadings
    <3> QED
      BY <2>6, <2>7, <2>9, <3>1 DEF OutInv
  <2>11. ValidInv'
    BY <1>1, <2>9 DEF ValidInv
  <2> QED
    BY <1>3, <1>5, <1>6, <2>10, <2>11 DEF ScanInv
<1> QED
  BY <1>8, <1>9

\* All outputs have been looked at.
LEMMA EndOutStep == ScanInv /\ EndOut => ScanInv'
<1> SUFFICES ASSUME ScanInv, EndOut PROVE ScanInv'
  OBVIOUS
<1>1. /\ pc = "vout" /\ pc' = "type" /\ tx' = tx /\ tx \in Tx /\ pos \in Nat \ {0} /\ pos' = pos
      /\ pos > Len(tx.vout) /\ pos - 1 <= Len(tx.vout)
      /\ inSet' = inSet /\ outSet' = outSet /\ linkIn' = linkIn /\ linkOut' = linkOut
      /\ isValid' = isValid
      /\ type' = type /\ deposits' = deposits /\ withdraws' = withdraws
  BY DEF ScanInv, PlaceInv, EndOut, scan, outcome
<1>2. Len(tx.vout) \in Nat /\ DOMAIN tx.vout = 1..Len(tx.vout)
  BY <1>1, TxFacts
<1>3. InsSeen' = InsSeen /\ OutsSeen' = OutsSeen
  <2>1. pos - 1 = Len(tx.vout)
    BY <1>1, <1>2
  <2> QED
    BY <1>1, <1>2, <2>1 DEF InsSeen, OutsSeen
<1>4. PlaceInv'
  BY <1>1 DEF PlaceInv
<1> QED
  BY <1>1, <1>3, <1>4, SameScan DEF ScanInv, OpenInv

-----------------------------------------------------------------------------
(* The comment of the function, read off the scans.                        *)

\* How the code reads the address of a spender.
Rd(b) == IF tx.coin = "btm" THEN b ELSE VoutAddress(b)

\* The readings of two addresses differ, and that of a watched one is itself.
LEMMA RdFacts ==
    /\ \A a, b \in Address : Rd(a) = Rd(b) => a = b
    /\ \A a \in Address : Rd(a) \in Names /\ (Rd(a) \in Watched <=> a \in Watched)
    /\ \A a \in Address : Rd(a) \in Address => Rd(a) = a
    /\ \A a \in Watched : Rd(a) = a
BY ClassifierAssumption DEF Rd, VoutAddress, Names

\* An input that spends a coin is read by its address, any other as nothing.
LEMMA InRead ==
    ASSUME tx \in Tx, NEW k \in DOMAIN tx.vin
    PROVE  /\ InAt(k) = IF k \in Coins(tx.vin) THEN Rd(tx.vin[k].addr) ELSE NoAddr
           /\ k \in Coins(tx.vin) => tx.vin[k].addr \in Address
<1>1. tx.vin[k] \in Input
  BY TxFacts
<1>2. tx.coin = "btc" => tx.vin[k].kind # "another"
  BY ClassifierAssumption
<1>3. tx.coin \in {"btc", "btm"} /\ NoAddr \notin Witness
  BY TxFacts, ClassifierAssumption DEF Names
<1> QED
  BY <1>1, <1>2, <1>3 DEF InAt, InAddress, BtcInAddress, BtmInAddress, VoutAddress, Coins, Rd, Input

\* An output that pays a coin is read by its address, any other as nothing.
LEMMA OutRead ==
    ASSUME tx \in Tx, NEW k \in DOMAIN tx.vout
    PROVE  /\ OutAt(k) = IF k \in Coins(tx.vout) THEN tx.vout[k].addr ELSE NoAddr
           /\ k \in Coins(tx.vout) => tx.vout[k].addr \in Address
<1>1. tx.vout[k] \in Output
  BY TxFacts
<1>2. tx.coin = "btc" => tx.vout[k].kind = "coin"
  BY ClassifierAssumption
<1>3. tx.coin \in {"btc", "btm"}
  BY TxFacts
<1> QED
  BY <1>1, <1>2, <1>3 DEF OutAt, OutAddress, BtmOutAddress, Coins, Output

\* After the scans in_set has each spender once, read; the watched ones are among them.
LEMMA SpendersSeen ==
    ASSUME ScanInv, pc = "type"
    PROVE  /\ Spenders \subseteq Address /\ inSet = {Rd(a) : a \in Spenders}
           /\ LinksIn = inSet \cap Watched
           /\ IsFiniteSet(Spenders) /\ IsFiniteSet(inSet)
           /\ Cardinality(inSet) = 1 <=> Cardinality(Spenders) = 1
<1>1. tx \in Tx /\ inSet = {InAt(k) : k \in DOMAIN tx.vin} \ {NoAddr}
  BY DEF ScanInv, PlaceInv, InInv, InsSeen
<1>2. Spenders \subseteq Address
  BY <1>1, InRead DEF Spenders, Coins
<1>3. inSet = {Rd(a) : a \in Spenders}
  <2>1. ASSUME NEW x \in inSet PROVE \E a \in Spenders : x = Rd(a)
    BY <1>1, InRead DEF Spenders
  <2>2. ASSUME NEW a \in Spenders PROVE Rd(a) \in inSet
    <3>1. PICK k \in Coins(tx.vin) : a = tx.vin[k].addr
      BY DEF Spenders
    <3>2. k \in DOMAIN tx.vin
      BY DEF Coins
    <3>3. InAt(k) = Rd(a)
      BY <1>1, <3>1, <3>2, InRead
    <3>4. Rd(a) # NoAddr
      BY <1>2, RdFacts, NoAddrFacts
    <3> QED
      BY <1>1, <3>2, <3>3, <3>4
  <2> QED
    BY <2>1, <2>2
<1>4. LinksIn = inSet \cap Watched
  <2>1. ASSUME NEW x \in inSet \cap Watched PROVE x \in Spenders
    <3>1. PICK a \in Spenders : x = Rd(a)
      BY <1>3
    <3>2. a \in Watched
      BY <1>2, <3>1, RdFacts
    <3> QED
      BY <3>1, <3>2, RdFacts
  <2>2. ASSUME NEW x \in Spenders \cap Watched PROVE x \in inSet
    BY <1>3, RdFacts
  <2> QED
    BY <2>1, <2>2 DEF LinksIn
<1>5. IsFiniteSet(Spenders)
  <2>1. IsFiniteSet(DOMAIN tx.vin)
    BY OutsFacts DEF ScanInv
  <2>2. Coins(tx.vin) \in SUBSET DOMAIN tx.vin
    BY DEF Coins
  <2>3. IsFiniteSet(Coins(tx.vin))
    BY <2>1, <2>2, FS_Subset
  <2> DEFINE g == [k \in Coins(tx.vin) |-> tx.vin[k].addr]
  <2>4. g \in Surjection(Coins(tx.vin), Spenders)
    BY DEF Surjection, Spenders
  <2> QED
    BY <2>3, <2>4, FS_Surjection
<1>6. IsFiniteSet(inSet)
  <2> DEFINE g == [a \in Spenders |-> Rd(a)]
  <2>1. g \in Surjection(Spenders, inSet)
    BY <1>3 DEF Surjection
  <2> QED
    BY <1>5, <2>1, FS_Surjection
<1>7. (\E x : inSet = {x}) <=> (\E x : Spenders = {x})
  <2>1. ASSUME NEW x, inSet = {x} PROVE \E y : Spenders = {y}
    <3>1. PICK a \in Spenders : Rd(a) = x
      BY <1>3, <2>1
    <3>2. \A b \in Spenders : b = a
      BY <1>2, <1>3, <2>1, <3>1, RdFacts
    <3>3. Spenders = {a}
      BY <3>2
    <3> QED
      BY <3>3
  <2>2. ASSUME NEW x, Spenders = {x} PROVE inSet = {Rd(x)}
    BY <1>3, <2>2
  <2> QED
    BY <2>1, <2>2
<1>8. Cardinality(inSet) = 1 <=> Cardinality(Spenders) = 1
  BY <1>5, <1>6, <1>7, FS_Singleton
<1> QED
  BY <1>2, <1>3, <1>4, <1>5, <1>6, <1>8

\* After the scans every payment was seen, and nothing else if change to a witness address
\* is not among the outputs; of the watched receivers it never matters.
LEMMA PaymentsSeen ==
    ASSUME ScanInv, pc = "type"
    PROVE  /\ Payments \subseteq Paying /\ (ChangeSeen => Payments = Paying)
           /\ Payments \subseteq DOMAIN tx.vout /\ Paying \subseteq DOMAIN tx.vout
           /\ \A k \in Paying : OutAt(k) = tx.vout[k].addr
           /\ Linked = {k \in Payments : tx.vout[k].addr \in Watched}
           /\ LinksOut = {OutAt(k) : k \in Linked}
           /\ IsFiniteSet(LinksOut) /\ IsFiniteSet(Receivers) /\ IsFiniteSet(Linked)
<1>1. /\ tx \in Tx
      /\ Paying = {k \in DOMAIN tx.vout : OutAt(k) # NoAddr /\ OutAt(k) \notin inSet}
  BY DEF ScanInv, PlaceInv, Paying, OutsSeen
<1>2. Spenders \subseteq Address /\ inSet = {Rd(a) : a \in Spenders}
  BY SpendersSeen
<1>3. ASSUME NEW k \in Paying
      PROVE  k \in Coins(tx.vout) /\ OutAt(k) = tx.vout[k].addr /\ tx.vout[k].addr \in Address
             /\ tx.vout[k].addr \notin inSet
  BY <1>1, OutRead
<1>4. Payments \subseteq Paying
  <2> SUFFICES ASSUME NEW k \in Payments PROVE k \in Paying
    OBVIOUS
  <2>1. k \in Coins(tx.vout) /\ k \in DOMAIN tx.vout /\ tx.vout[k].addr \notin Spenders
    BY DEF Payments, Coins
  <2>2. OutAt(k) = tx.vout[k].addr /\ tx.vout[k].addr \in Address
    BY <1>1, <2>1, OutRead
  <2>3. tx.vout[k].addr \notin inSet
    BY <1>2, <2>1, <2>2, RdFacts
  <2> QED
    BY <1>1, <2>1, <2>2, <2>3, NoAddrFacts
<1>5. ASSUME ChangeSeen, NEW k \in Paying PROVE k \in Payments
  <2>1. ASSUME tx.vout[k].addr \in Spenders PROVE FALSE
    <3>1. Rd(tx.vout[k].addr) \in inSet
      BY <1>2, <2>1
    <3>2. tx.coin \in {"btc", "btm"}
      BY <1>1, TxFacts
    <3>3. Rd(tx.vout[k].addr) = tx.vout[k].addr
      BY <1>3, <1>5, <2>1, <3>2 DEF Rd, VoutAddress, ChangeSeen
    <3> QED
      BY <1>3, <3>1, <3>3
  <2> QED
    BY <1>3, <2>1 DEF Payments
<1>6. Linked = {k \in Payments : tx.vout[k].addr \in Watched}
  <2>1. ASSUME NEW k \in Linked PROVE k \in Payments /\ tx.vout[k].addr \in Watched
    <3>1. k \in Paying /\ tx.vout[k].addr \in Watched /\ tx.vout[k].addr \notin inSet
      BY <1>3 DEF Linked
    <3>2. tx.vout[k].addr \notin Spenders
      BY <1>2, <3>1, RdFacts
    <3> QED
      BY <1>3, <3>1, <3>2 DEF Payments
  <2>2. ASSUME NEW k \in Payments, tx.vout[k].addr \in Watched PROVE k \in Linked
    BY <1>3, <1>4, <2>2 DEF Linked
  <2> QED
    BY <2>1, <2>2
<1>7. LinksOut = {OutAt(k) : k \in Linked}
  <2>1. ASSUME NEW x \in LinksOut PROVE \E k \in Linked : x = OutAt(k)
    <3>1. PICK k \in Payments : x = tx.vout[k].addr /\ x \in Watched
      BY DEF LinksOut, Receivers
    <3> QED
      BY <1>3, <1>4, <1>6, <3>1
  <2>2. ASSUME NEW k \in Linked PROVE OutAt(k) \in LinksOut
    <3>1. k \in Payments /\ tx.vout[k].addr \in Watched
      BY <1>6
    <3> QED
      BY <1>3, <1>4, <3>1 DEF LinksOut, Receivers
  <2> QED
    BY <2>1, <2>2
<1>8. Paying \subseteq DOMAIN tx.vout /\ Payments \subseteq DOMAIN tx.vout
  BY <1>1, <1>4
<1>9. IsFiniteSet(Payments) /\ IsFiniteSet(Linked)
  <2>1. Linked \subseteq DOMAIN tx.vout
    BY <1>6, <1>8
  <2> QED
    BY <1>8, <2>1, OutsFacts DEF ScanInv
<1>10. IsFiniteSet(Receivers)
  <2> DEFINE g == [k \in Payments |-> tx.vout[k].addr]
  <2>1. g \in Surjection(Payments, Receivers)
    BY DEF Surjection, Receivers
  <2> QED
    BY <1>9, <2>1, FS_Surjection
<1>11. IsFiniteSet(LinksOut)
  <2>1. LinksOut \in SUBSET Receivers
    BY DEF LinksOut
  <2> QED
    BY <1>10, <2>1, FS_Subset
<1> QED
  BY <1>3, <1>4, <1>5, <1>6, <1>7, <1>8, <1>9, <1>10, <1>11

\* A payment is a number the module writes, and the text is worth it.
LEMMA AmountRight ==
    ASSUME NEW n \in 0..MaxUnits
    PROVE  Amount(n) \in Text /\ UnitsOf(Amount(n), Decimals) = n
<1> DEFINE s == digits[n]
           p == Decimals
<1>1. MaxUnits \in Nat /\ p \in Nat
  BY ClassifierAssumption
<1>2. IsDigits(digits, MaxUnits)
  <2>1. digits = CHOOSE d : IsDigits(d, MaxUnits)
    BY DEF digits, IsDigits
  <2> QED
    BY <1>1, <2>1, DigitsExist
<1>3. s \in Seq(0..9) /\ Value(s) = n
  BY <1>1, <1>2, DigitsRight
<1>4. ASSUME NEW w, NEW f
      PROVE  UnitsOf([whole |-> w, frac |-> f], p) = TextValue(w, f, p)
  <2>1. ASSUME NEW t PROVE UnitsOf(t, p) = TextValue(t.whole, t.frac, p)
    BY DEF UnitsOf, Zeros, TextValue, Value, Pad
  <2> DEFINE t == [whole |-> w, frac |-> f]
  <2>2. t.whole = w /\ t.frac = f
    OBVIOUS
  <2> HIDE DEF t
  <2>3. UnitsOf(t, p) = TextValue(w, f, p)
    BY <2>1, <2>2
  <2> QED
    BY <2>3 DEF t
<1>5. ASSUME NEW w \in Seq(0..9), NEW f \in Seq(0..9) PROVE [whole |-> w, frac |-> f] \in Text
  BY DEF Text
<1>6. \A k : Zeros(k) = Pad(k)
  BY DEF Zeros, Pad
<1> HIDE DEF s, p
<1>7. CASE Len(s) <= p
  <2>1. /\ TextValue(<<0>>, Pad(p - Len(s)) \o s, p) = n
        /\ Pad(p - Len(s)) \o s \in Seq(0..9) /\ <<0>> \in Seq(0..9)
    BY <1>1, <1>3, <1>7, TextBelowOne
  <2>2. Amount(n) = [whole |-> <<0>>, frac |-> Pad(p - Len(s)) \o s]
    BY <1>6, <1>7 DEF Amount, FixedText, s, p
  <2> QED
    BY <1>4, <1>5, <2>1, <2>2 DEF p
<1>8. CASE ~(Len(s) <= p)
  <2> DEFINE w == SubSeq(s, 1, Len(s) - p)
             f == SubSeq(s, Len(s) - p + 1, Len(s))
  <2>1. TextValue(w, f, p) = n /\ w \in Seq(0..9) /\ f \in Seq(0..9)
    BY <1>1, <1>3, <1>8, TextAboveOne
  <2>2. Amount(n) = [whole |-> w, frac |-> f]
    BY <1>8 DEF Amount, FixedText, WholeOf, FracOf, s, p
  <2> HIDE DEF w, f
  <2> QED
    BY <1>4, <1>5, <2>1, <2>2 DEF p
<1> QED
  BY <1>7, <1>8

\* out_set has what each receiver is paid, a number the module can write.
LEMMA PaidRight ==
    ASSUME ScanInv, pc = "type"
    PROVE  /\ \A a \in DOMAIN outSet : outSet[a] \in 0..MaxUnits
           /\ DOMAIN outSet \subseteq Address
           /\ ChangeSeen => /\ DOMAIN outSet = Receivers
                            /\ \A a \in Receivers : outSet[a] = PaidTo(a)
<1>1. /\ DOMAIN outSet = {OutAt(k) : k \in Paying}
      /\ \A a \in DOMAIN outSet : outSet[a] = SumOf(Values, PayingTo(a))
      /\ tx \in Tx
  BY DEF ScanInv, OutInv, PlaceInv
<1>2. /\ \A k \in DOMAIN tx.vout : Values[k] \in Nat
      /\ IsFiniteSet(DOMAIN tx.vout) /\ \A S \in SUBSET DOMAIN tx.vout : IsFiniteSet(S)
  BY OutsFacts DEF ScanInv
<1>3. \A a : PayingTo(a) \in SUBSET DOMAIN tx.vout
  BY PaymentsSeen DEF PayingTo
<1>4. ASSUME NEW S \in SUBSET DOMAIN tx.vout
      PROVE  ValueSum(tx.vout, S) = SumOf(Values, S)
  <2> DEFINE F == [k \in S |-> tx.vout[k].value]
  <2>1. \A k \in S : F[k] = Values[k] /\ F[k] \in Int
    BY <1>2 DEF Values
  <2>2. IsFiniteSet(S)
    BY <1>2
  <2>3. ValueSum(tx.vout, S) = SumOf(F, S)
    BY <2>2, ValueSumIsSumOf
  <2> HIDE DEF F
  <2> QED
    BY <2>1, <2>2, <2>3, SumOfSame
<1>5. SumOf(Values, DOMAIN tx.vout) <= MaxUnits
  <2>1. ValueSum(tx.vout, DOMAIN tx.vout) <= MaxUnits
    BY <1>1, ClassifierAssumption DEF ValueSum
  <2> QED
    BY <1>4, <2>1
<1>6. ASSUME NEW a \in DOMAIN outSet PROVE outSet[a] \in 0..MaxUnits
  <2>1. /\ SumOf(Values, PayingTo(a)) \in Nat /\ SumOf(Values, DOMAIN tx.vout) \in Nat
        /\ SumOf(Values, PayingTo(a)) <= SumOf(Values, DOMAIN tx.vout)
    BY <1>2, <1>3, SumOfGrows
  <2>2. MaxUnits \in Nat
    BY ClassifierAssumption
  <2> QED
    BY <1>1, <1>5, <2>1, <2>2
<1>7. DOMAIN outSet \subseteq Address
  <2>1. \A k \in Paying : k \in DOMAIN tx.vout /\ OutAt(k) # NoAddr
    BY PaymentsSeen DEF Paying
  <2> QED
    BY <1>1, <2>1, Readings
<1>8. ASSUME ChangeSeen
      PROVE  DOMAIN outSet = Receivers /\ \A a \in Receivers : outSet[a] = PaidTo(a)
  <2>1. Payments = Paying /\ \A k \in Paying : OutAt(k) = tx.vout[k].addr
    BY <1>8, PaymentsSeen
  <2>2. DOMAIN outSet = Receivers
    BY <1>1, <2>1 DEF Receivers
  <2>3. ASSUME NEW a \in Receivers PROVE outSet[a] = PaidTo(a)
    <3>1. PayingTo(a) = {k \in Payments : tx.vout[k].addr = a}
      BY <2>1 DEF PayingTo
    <3>2. PaidTo(a) = ValueSum(tx.vout, PayingTo(a))
      BY <3>1 DEF PaidTo, ValueSum
    <3> QED
      BY <1>1, <1>3, <1>4, <2>2, <3>2
  <2> QED
    BY <2>2, <2>3
<1> QED
  BY <1>6, <1>7, <1>8

-----------------------------------------------------------------------------
(* What is recorded.                                                       *)

\* The scans decide as the comment does.
LEMMA KindRight ==
    ASSUME ScanInv, pc = "type"
    PROVE  /\ Kind = "transfer" => IsTransfer
           /\ Kind = "withdraw" => IsWithdraw
           /\ Kind = "deposit" => IsDeposit
           /\ IsDeposit /\ Unsplit => Kind = "deposit"
           /\ IsWithdraw => Kind = "withdraw"
           /\ Kind \in {"transfer", "deposit"} => linkOut \in LinksOut
           /\ Kind = "withdraw" => LinksIn = {linkIn}
           /\ Kind \in Types
<1>1. /\ linkIn = NoAddr => inSet \cap Watched = {}
      /\ linkIn # NoAddr => linkIn \in inSet \cap Watched
      /\ linkOut = NoAddr => Linked = {}
      /\ linkOut # NoAddr => \E k \in Linked : linkOut = OutAt(k)
      /\ isValid = (inSet \cap Watched \subseteq {linkIn} /\ \A j, k \in Linked : j = k)
  BY DEF ScanInv, InInv, OutInv, ValidInv
<1>2. /\ LinksIn = inSet \cap Watched /\ IsFiniteSet(LinksIn)
      /\ (Cardinality(inSet) = 1 <=> Cardinality(Spenders) = 1)
  <2>1. LinksIn \in SUBSET inSet
    BY SpendersSeen
  <2> QED
    BY <2>1, SpendersSeen, FS_Subset
<1>3. /\ Linked = {k \in Payments : tx.vout[k].addr \in Watched}
      /\ LinksOut = {OutAt(k) : k \in Linked}
      /\ IsFiniteSet(LinksOut) /\ IsFiniteSet(Linked)
  BY PaymentsSeen
<1>4. linkIn # NoAddr /\ isValid => LinksIn = {linkIn} /\ Cardinality(LinksIn) = 1
  <2>1. linkIn # NoAddr /\ isValid => LinksIn = {linkIn}
    BY <1>1, <1>2
  <2> QED
    BY <2>1, FS_Singleton
<1>5. linkOut # NoAddr /\ isValid => Cardinality(LinksOut) = 1
  <2> SUFFICES ASSUME linkOut # NoAddr, isValid PROVE Cardinality(LinksOut) = 1
    OBVIOUS
  <2>1. PICK k \in Linked : linkOut = OutAt(k)
    BY <1>1
  <2>2. Linked = {k}
    BY <1>1
  <2>3. LinksOut = {linkOut}
    BY <1>3, <2>1, <2>2
  <2> QED
    BY <2>3, FS_Singleton
<1>6. linkIn = NoAddr => LinksIn = {}
  BY <1>1, <1>2
<1>7. linkOut = NoAddr => LinksOut = {}
  BY <1>1, <1>3
<1>8. linkOut # NoAddr => linkOut \in LinksOut
  BY <1>1, <1>3
<1>9. IsDeposit /\ Unsplit => Kind = "deposit"
  <2> SUFFICES ASSUME IsDeposit, Unsplit PROVE Kind = "deposit"
    OBVIOUS
  <2>1. LinksIn = {} /\ Cardinality(inSet) = 1 /\ Cardinality(Linked) = 1
    BY <1>2, <1>3 DEF IsDeposit, Unsplit
  <2>2. \E k : Linked = {k}
    BY <1>3, <2>1, FS_Singleton
  <2>3. linkIn = NoAddr /\ linkOut # NoAddr
    BY <1>1, <1>2, <2>1, <2>2
  <2>4. isValid = TRUE
    BY <1>1, <1>2, <2>1, <2>2
  <2> QED
    BY <2>1, <2>3, <2>4 DEF Kind, OneSender
<1>10. IsWithdraw => Kind = "withdraw"
  <2> SUFFICES ASSUME IsWithdraw PROVE Kind = "withdraw"
    OBVIOUS
  <2>1. Cardinality(LinksIn) = 1 /\ LinksOut = {}
    BY DEF IsWithdraw
  <2>2. PICK a : LinksIn = {a}
    BY <1>2, <2>1, FS_Singleton
  <2>3. linkIn = a /\ linkIn # NoAddr
    BY <1>1, <1>2, <2>2
  <2>4. Linked = {} /\ linkOut = NoAddr
    BY <1>1, <1>3, <2>1
  <2>5. isValid = TRUE
    BY <1>1, <1>2, <2>2, <2>3, <2>4
  <2> QED
    BY <2>3, <2>4, <2>5 DEF Kind
<1>11. Kind = "transfer" => linkIn # NoAddr /\ linkOut # NoAddr /\ isValid
  BY DEF Kind
<1>12. Kind = "withdraw" => linkIn # NoAddr /\ linkOut = NoAddr /\ isValid
  BY DEF Kind
<1>13. Kind = "deposit" => linkIn = NoAddr /\ linkOut # NoAddr /\ isValid /\ OneSender
  BY DEF Kind
<1>14. Kind \in Types
  BY DEF Kind, Types
<1>15. Kind = "transfer" => IsTransfer
  BY <1>4, <1>5, <1>11 DEF IsTransfer
<1>16. Kind = "withdraw" => IsWithdraw /\ LinksIn = {linkIn}
  BY <1>4, <1>7, <1>12 DEF IsWithdraw
<1>17. Kind = "deposit" => IsDeposit
  BY <1>2, <1>5, <1>6, <1>13 DEF IsDeposit, OneSender
<1> QED
  BY <1>8, <1>9, <1>10, <1>11, <1>13, <1>14, <1>15, <1>16, <1>17

\* Nothing of the comment depends on where the machine is.
LEMMA SameComment ==
    ASSUME tx' = tx
    PROVE  /\ IsDeposit' = IsDeposit /\ IsWithdraw' = IsWithdraw /\ IsTransfer' = IsTransfer
           /\ Unsplit' = Unsplit /\ ChangeSeen' = ChangeSeen
           /\ LinksIn' = LinksIn /\ LinksOut' = LinksOut /\ Receivers' = Receivers
           /\ \A a : PaidTo(a)' = PaidTo(a)
           /\ {InAddress(in) : in \in Range(tx.vin)}' = {InAddress(in) : in \in Range(tx.vin)}
<1>1. /\ Coins(tx.vin)' = Coins(tx.vin) /\ Coins(tx.vout)' = Coins(tx.vout)
      /\ Spenders' = Spenders
  BY DEF Spenders, Coins
<1>2. Payments' = Payments
  BY <1>1 DEF Payments
<1>3. Receivers' = Receivers
  BY <1>2 DEF Receivers
<1>4. LinksIn' = LinksIn /\ LinksOut' = LinksOut
  BY <1>1, <1>3 DEF LinksIn, LinksOut
<1>5. IsDeposit' = IsDeposit /\ IsWithdraw' = IsWithdraw /\ IsTransfer' = IsTransfer
  BY <1>1, <1>4 DEF IsDeposit, IsWithdraw, IsTransfer
<1>6. Unsplit' = Unsplit /\ ChangeSeen' = ChangeSeen
  BY <1>1, <1>2, <1>4 DEF Unsplit, ChangeSeen
<1>7. ASSUME NEW a PROVE PaidTo(a)' = PaidTo(a)
  BY <1>2 DEF PaidTo, MapThenSumSet, MapThenFoldSet
<1>8. {InAddress(in) : in \in Range(tx.vin)}' = {InAddress(in) : in \in Range(tx.vin)}
  BY DEF InAddress, BtcInAddress, BtmInAddress, VoutAddress
<1> QED
  BY <1>3, <1>4, <1>5, <1>6, <1>7, <1>8

\* The rows of a withdrawal, of the state after a step.
LEMMA WithdrawalAfter ==
    ASSUME tx' = tx
    PROVE  WithdrawalExact' <=>
             (Done' /\ IsWithdraw /\ ChangeSeen =>
                {[r EXCEPT !.amount = UnitsOf(@, Decimals)] : r \in withdraws'}
                  = {[from |-> f, to |-> a, amount |-> PaidTo(a)] : f \in LinksIn, a \in Receivers})
<1>1. WithdrawalExact' <=>
        (Done' /\ IsWithdraw' /\ ChangeSeen' =>
           {[r EXCEPT !.amount = UnitsOf(@, Decimals)] : r \in withdraws'}
             = {[from |-> f, to |-> a, amount |-> PaidTo(a)'] : f \in LinksIn', a \in Receivers'})
  BY DEF WithdrawalExact
<1>2. {[from |-> f, to |-> a, amount |-> PaidTo(a)'] : f \in LinksIn', a \in Receivers'}
        = {[from |-> f, to |-> a, amount |-> PaidTo(a)] : f \in LinksIn, a \in Receivers}
  BY SameComment
<1> QED
  BY <1>1, <1>2, SameComment

\* The scans, the types, and what the rows are.
ClassifyInv == ScanInv /\ KindsRight /\ RowsExact

\* The invariant holds at the beginning,
LEMMA InitClassify == ClassifyInit => ClassifyInv
<1> SUFFICES ASSUME ClassifyInit PROVE ClassifyInv
  OBVIOUS
<1>1. ScanInv
  BY InitScan
<1>2. ClassifyTypeOK
  BY DEF ClassifyInit, ClassifyTypeOK, Types
<1>3. ~Done
  BY DEF ClassifyInit, Done
<1> QED
  BY <1>1, <1>2, <1>3 DEF ClassifyInv, KindsRight, RowsExact, RecordedIsOfItsKind, DepositRecorded,
     WithdrawalExact, DepositAmountExact

\* What the scans know has the types.
LEMMA ScanTyped ==
    ASSUME ScanInv, ~Done
    PROVE  ClassifyTypeOK
<1>1. tx \in Tx /\ InsSeen \subseteq DOMAIN tx.vin /\ OutsSeen \subseteq DOMAIN tx.vout
  BY OutsFacts DEF ScanInv, PlaceInv
<1>2. \A k \in Paying : k \in DOMAIN tx.vout /\ OutAt(k) \in Address
  BY <1>1, Readings DEF Paying
<1>3. inSet \subseteq Names
  BY <1>1, Readings DEF ScanInv, InInv
<1>4. DOMAIN outSet \subseteq Address
  BY <1>2 DEF ScanInv, OutInv
<1>5. ASSUME NEW a \in DOMAIN outSet PROVE outSet[a] \in Nat
  <2>1. PayingTo(a) \in SUBSET DOMAIN tx.vout
    BY <1>2 DEF PayingTo
  <2>2. SumOf(Values, PayingTo(a)) \in Nat
    BY <2>1, OutsFacts, SumOfGrows DEF ScanInv
  <2> QED
    BY <2>2 DEF ScanInv, OutInv
<1>6. linkIn \in Address \cup {NoAddr}
  BY NoAddrFacts DEF ScanInv, InInv
<1>7. linkOut \in Address \cup {NoAddr}
  BY <1>2 DEF ScanInv, OutInv, Linked
<1>8. isValid \in BOOLEAN
  BY DEF ScanInv, ValidInv
<1>9. type \in Types /\ deposits = {} /\ withdraws = {}
  BY DEF ScanInv, OpenInv, Done, Types
<1> QED
  BY <1>3, <1>4, <1>5, <1>6, <1>7, <1>8, <1>9 DEF ScanInv, PlaceInv, ClassifyTypeOK

\* the step that records keeps it,
LEMMA ClassifyStep == ScanInv /\ Classify => ClassifyInv'
<1> SUFFICES ASSUME ScanInv, Classify PROVE ClassifyInv'
  OBVIOUS
<1>1. /\ pc = "type" /\ pc' = "done" /\ tx' = tx /\ pos' = pos
      /\ inSet' = inSet /\ outSet' = outSet /\ linkIn' = linkIn /\ linkOut' = linkOut
      /\ isValid' = isValid /\ type' = Kind /\ deposits = {} /\ withdraws = {}
  BY DEF Classify, scan, ScanInv, OpenInv
<1>2. ScanInv'
  <2>1. InsSeen' = InsSeen /\ OutsSeen' = OutsSeen
    BY <1>1 DEF InsSeen, OutsSeen
  <2>2. PlaceInv'
    BY <1>1 DEF ScanInv, PlaceInv
  <2>3. OpenInv'
    BY <1>1 DEF OpenInv
  <2> QED
    BY <1>1, <2>1, <2>2, <2>3, SameScan DEF ScanInv
<1>3. deposits' # {} =>
        /\ Kind \in {"deposit", "transfer"}
        /\ \E f \in inSet, a \in DOMAIN outSet :
             deposits' = {[from |-> f, to |-> linkOut, amount |-> Amount(outSet[a])]}
  BY <1>1 DEF Classify, Senders
<1>4. /\ Kind # "withdraw" => withdraws' = {}
      /\ Kind = "withdraw" =>
           withdraws' = {[from |-> linkIn, to |-> a, amount |-> Amount(outSet[a])] : a \in DOMAIN outSet}
  BY <1>1 DEF Classify
<1>5. /\ \A a \in DOMAIN outSet : outSet[a] \in 0..MaxUnits
      /\ DOMAIN outSet \subseteq Address
      /\ ChangeSeen => /\ DOMAIN outSet = Receivers
                       /\ \A a \in Receivers : outSet[a] = PaidTo(a)
  BY <1>1, PaidRight
<1>6. \A a \in DOMAIN outSet : /\ Amount(outSet[a]) \in Text
                               /\ UnitsOf(Amount(outSet[a]), Decimals) = outSet[a]
  BY <1>5, AmountRight
<1>7. ClassifyTypeOK'
  <2>1. ClassifyTypeOK
    BY <1>1, ScanTyped DEF Done
  <2>2. Kind \in Types /\ (Kind \in {"transfer", "deposit"} => linkOut \in LinksOut)
        /\ (Kind = "withdraw" => LinksIn = {linkIn})
    BY <1>1, KindRight
  <2>3. LinksOut \subseteq Address /\ LinksIn \subseteq Names
    BY NoAddrFacts DEF LinksOut, LinksIn, Names
  <2>4. ASSUME NEW r \in deposits' PROVE r \in Row
    <3>1. PICK f \in inSet, a \in DOMAIN outSet :
              r = [from |-> f, to |-> linkOut, amount |-> Amount(outSet[a])]
      BY <1>3, <2>4
    <3>2. f \in Names /\ linkOut \in Address
      BY <1>3, <2>1, <2>2, <2>3, <2>4 DEF ClassifyTypeOK
    <3> QED
      BY <1>6, <3>1, <3>2 DEF Row
  <2>5. ASSUME NEW r \in withdraws' PROVE r \in Row
    <3>1. Kind = "withdraw"
      BY <1>4, <2>5
    <3>2. PICK a \in DOMAIN outSet :
              r = [from |-> linkIn, to |-> a, amount |-> Amount(outSet[a])]
      BY <1>4, <2>5, <3>1
    <3>3. linkIn \in Names /\ a \in Address
      BY <1>5, <2>2, <2>3, <3>1
    <3> QED
      BY <1>6, <3>2, <3>3 DEF Row
  <2> QED
    BY <1>1, <2>1, <2>2, <2>4, <2>5 DEF ClassifyTypeOK
<1>8. RecordedIsOfItsKind'
  <2>1. deposits' # {} => IsDeposit \/ IsTransfer
    BY <1>1, <1>3, KindRight
  <2>2. withdraws' # {} => IsWithdraw
    BY <1>1, <1>4, KindRight
  <2> QED
    BY <1>1, <2>1, <2>2, SameComment DEF RecordedIsOfItsKind
<1>9. DepositRecorded'
  <2> SUFFICES ASSUME IsDeposit, Unsplit
               PROVE  \E r \in deposits' : /\ r.from \in {InAddress(in) : in \in Range(tx.vin)}
                                           /\ r.to \in LinksOut
    BY <1>1, SameComment DEF DepositRecorded
  <2>1. Kind = "deposit" /\ linkOut \in LinksOut
    BY <1>1, KindRight
  <2>2. PICK f \in inSet, a \in DOMAIN outSet :
            deposits' = {[from |-> f, to |-> linkOut, amount |-> Amount(outSet[a])]}
    BY <2>1 DEF Classify, Senders
  <2>3. f \in {InAddress(in) : in \in Range(tx.vin)}
    <3>1. PICK k \in DOMAIN tx.vin : f = InAt(k)
      BY <1>1 DEF ScanInv, InInv, InsSeen
    <3>2. tx.vin[k] \in Range(tx.vin)
      BY DEF Range
    <3> QED
      BY <3>1, <3>2 DEF InAt
  <2> QED
    BY <2>1, <2>2, <2>3
<1>10. WithdrawalExact'
  <2> SUFFICES ASSUME IsWithdraw, ChangeSeen
               PROVE  {[r EXCEPT !.amount = UnitsOf(@, Decimals)] : r \in withdraws'}
                        = {[from |-> f, to |-> a, amount |-> PaidTo(a)] : f \in LinksIn, a \in Receivers}
    BY <1>1, WithdrawalAfter
  <2>1. Kind = "withdraw" /\ LinksIn = {linkIn}
    BY <1>1, KindRight
  <2>2. withdraws' = {[from |-> linkIn, to |-> a, amount |-> Amount(outSet[a])] : a \in Receivers}
    BY <1>4, <1>5, <2>1
  <2>3. ASSUME NEW a \in Receivers
        PROVE  [[from |-> linkIn, to |-> a, amount |-> Amount(outSet[a])]
                   EXCEPT !.amount = UnitsOf(@, Decimals)]
                 = [from |-> linkIn, to |-> a, amount |-> PaidTo(a)]
    <3>1. UnitsOf(Amount(outSet[a]), Decimals) = PaidTo(a)
      BY <1>5, <1>6
    <3> QED
      BY <3>1
  <2> DEFINE R(a) == [from |-> linkIn, to |-> a, amount |-> Amount(outSet[a])]
             C(r) == [r EXCEPT !.amount = UnitsOf(@, Decimals)]
             G(a) == [from |-> linkIn, to |-> a, amount |-> PaidTo(a)]
  <2>4. \A a \in Receivers : C(R(a)) = G(a)
    BY <2>3
  <2>5. withdraws' = {R(a) : a \in Receivers}
    BY <2>2
  <2>6. {[from |-> f, to |-> a, amount |-> PaidTo(a)] : f \in LinksIn, a \in Receivers}
          = {G(a) : a \in Receivers}
    BY <2>1
  <2>7. {C(r) : r \in withdraws'} = {G(a) : a \in Receivers}
    <3> HIDE DEF R, C, G
    <3> QED
      BY <2>4, <2>5
  <2> QED
    BY <2>6, <2>7
<1>11. DepositAmountExact'
  <2> SUFFICES ASSUME Cardinality(Receivers) = 1, ChangeSeen, NEW r \in deposits'
               PROVE  UnitsOf(r.amount, Decimals) = PaidTo(r.to)
    BY <1>1, SameComment DEF DepositAmountExact
  <2>1. PICK f \in inSet, a \in DOMAIN outSet :
            r = [from |-> f, to |-> linkOut, amount |-> Amount(outSet[a])]
    BY <1>3
  <2>2. IsFiniteSet(Receivers) /\ linkOut \in Receivers
    BY <1>1, <1>3, KindRight, PaymentsSeen DEF LinksOut
  <2>3. a = linkOut
    BY <1>5, <2>2, FS_Singleton
  <2> QED
    BY <1>5, <1>6, <2>1, <2>2, <2>3
<1> QED
  BY <1>2, <1>7, <1>8, <1>9, <1>10, <1>11 DEF ClassifyInv, KindsRight, RowsExact

\* and so does every other.
LEMMA ClassifyStays == ClassifyInv /\ [ClassifyNext]_classifyVars => ClassifyInv'
<1> SUFFICES ASSUME ClassifyInv, [ClassifyNext]_classifyVars PROVE ClassifyInv'
  OBVIOUS
<1>1. ScanInv
  BY DEF ClassifyInv
<1>2. ASSUME ScanIn \/ EndIn \/ ScanOut \/ EndOut PROVE ClassifyInv'
  <2>1. ScanInv'
    BY <1>1, <1>2, ScanInStep, EndInStep, ScanOutStep, EndOutStep
  <2>2. ~Done'
    BY <1>2 DEF ScanIn, EndIn, ScanOut, EndOut, Done
  <2>3. ClassifyTypeOK'
    BY <2>1, <2>2, ScanTyped, PTL
  <2> QED
    BY <2>1, <2>2, <2>3 DEF ClassifyInv, KindsRight, RowsExact, RecordedIsOfItsKind,
       DepositRecorded, WithdrawalExact, DepositAmountExact
<1>3. CASE Classify
  BY <1>1, <1>3, ClassifyStep
<1>4. CASE UNCHANGED classifyVars
  <2>1. /\ pc' = pc /\ tx' = tx /\ pos' = pos
        /\ inSet' = inSet /\ outSet' = outSet /\ linkIn' = linkIn /\ linkOut' = linkOut
        /\ isValid' = isValid /\ type' = type /\ deposits' = deposits /\ withdraws' = withdraws
    BY <1>4 DEF classifyVars, scan, outcome
  <2>2. ScanInv'
    <3>1. InsSeen' = InsSeen /\ OutsSeen' = OutsSeen
      BY <2>1 DEF InsSeen, OutsSeen
    <3> QED
      BY <1>1, <2>1, <3>1, SameScan DEF ScanInv, PlaceInv, OpenInv
  <2>3. KindsRight'
    BY <2>1, SameComment DEF ClassifyInv, KindsRight, ClassifyTypeOK, RecordedIsOfItsKind, Done
  <2>4. DepositRecorded' /\ DepositAmountExact'
    BY <2>1, SameComment DEF ClassifyInv, RowsExact, DepositRecorded, DepositAmountExact, Done
  <2>5. WithdrawalExact'
    BY <2>1, WithdrawalAfter DEF ClassifyInv, RowsExact, WithdrawalExact, Done
  <2> QED
    BY <2>2, <2>3, <2>4, <2>5 DEF ClassifyInv, RowsExact
<1> QED
  BY <1>2, <1>3, <1>4 DEF ClassifyNext

\* ClassifyInv is an invariant of the scans.
LEMMA ClassifyCorrect == ClassifySpec => []ClassifyInv
BY InitClassify, ClassifyStays, PTL DEF ClassifySpec

\* Whatever the transaction, rows of the deposit table come only from deposits and transfers
\* between watched addresses, those of the withdrawal table only from withdrawals.
THEOREM KindsAreRight == ClassifySpec => []KindsRight
<1>1. ClassifyInv => KindsRight
  BY DEF ClassifyInv
<1> QED
  BY <1>1, ClassifyCorrect, PTL

\* Whatever the transaction, a deposit that is paid by one output is recorded, a withdrawal
\* with one row per receiver of all it is paid, and the amounts are those of the outputs,
\* under the conditions the three parts name.
THEOREM RowsAreExact == ClassifySpec => []RowsExact
<1>1. ClassifyInv => RowsExact
  BY DEF ClassifyInv
<1> QED
  BY <1>1, ClassifyCorrect, PTL

-----------------------------------------------------------------------------
(* MongoCollector.  The inductive invariant: the blocks on their way from the node to the   *)
(* tables have consecutive numbers, the first of which is the last         *)
(* committed block or the next one.                                        *)

Collecting == producer \in {"start", "poll", "fetch"}

InHand == consumer \in {"handle", "flush"}

\* The number of the first block of the queue, or of the one fetched next.
QueueFirst == nextNum - Len(queue)

\* The number of the first block that is not handed to a flush thread yet.
HandFirst == IF InHand THEN QueueFirst - 1 ELSE QueueFirst

\* The number of the first block that is not in the tables yet.
First == IF flushes # {} THEN HandFirst - 1 ELSE HandFirst

\* What each thread has at each step, and that they start and end together.
ThreadInv ==
    /\ producer = "off" <=> consumer = "off"
    /\ ~Collecting => /\ queue = <<>> /\ flushes = {} /\ ~InHand /\ syncing
                      /\ consumer # "refresh"
    /\ producer = "start" => queue = <<>> /\ flushes = {} /\ ~InHand /\ nextNum = syncNum
    /\ producer = "start" => syncing /\ consumer # "refresh"
    /\ catchUp \/ ~syncing
    /\ \A f, g \in flushes : f = g

\* The numbers follow one another.
NumberInv ==
    /\ syncNum = 0 \/ syncNum < head - Safe
    /\ nextNum = 0 \/ nextNum <= head - Safe
    /\ Collecting =>
         /\ \A i \in 1..Len(queue) : queue[i].num = QueueFirst + i - 1
         /\ InHand => inHand.num = QueueFirst - 1
         /\ \A f \in flushes : f.num = HandFirst - 1
         /\ ~failed => First = syncNum \/ First = syncNum + 1

\* What is in flight or stored is of blocks no reorganisation reaches any more.
Final(h, k) == h < head - Safe /\ k = fork[h]

FlightInv ==
    /\ producer = "fetch" => Confirmed(nextNum)
    /\ \A i \in 1..Len(queue) : Final(queue[i].num, queue[i].fork)
    /\ InHand => Final(inHand.num, inHand.fork)
    /\ \A f \in flushes : Final(f.num, f.fork)

TablesFinal ==
    \A h \in Heights, k \in Forks :
        docs[<<h, k>>] # 0 \/ (\E m \in Move : rows[<<h, k, m>>] # 0) => Final(h, k)

\* The number of the block that is handled next.
HandledNext == IF consumer = "handle" THEN QueueFirst - 1 ELSE QueueFirst

\* The cache is filled again before the next block is handled.
RefreshDue == consumer = "refresh" \/ (consumer = "flush" /\ ~catchUp)

\* An address whose transfers are due is watched when its blocks are handled.
WatchInv ==
    /\ \A a \in Addr : dueFrom[a] # Never => a \in registered
    /\ watched \subseteq registered
    /\ producer # "off" /\ syncing => \A a \in Addr \ watched : dueFrom[a] = Never
    /\ producer # "off" /\ ~RefreshDue => \A a \in Addr \ watched : dueFrom[a] > HandledNext
    /\ consumer = "flush" => Due(inHand.num) \subseteq inHand.moves
    /\ \A f \in flushes : Due(f.num) \subseteq f.moves

\* The transfers of a block are all in the tables, once; or none is.
RowsIn(h)  == \A m \in Move : /\ rows[<<h, fork[h], m>>] \in {0, 1}
                              /\ m \in Due(h) => rows[<<h, fork[h], m>>] = 1
RowsOut(h) == \A k \in Forks, m \in Move : rows[<<h, k, m>>] = 0

DocIn(h)  == docs[<<h, fork[h]>>] = 1
DocOut(h) == \A k \in Forks : docs[<<h, k>>] = 0

\* What a flush thread has written.
Written(f) ==
    \A m \in Move : rows[<<f.num, f.fork, m>>] =
        IF m \in f.moves /\ \/ m.kind = "deposit" /\ f.step \in {"withdraw", "config"}
                            \/ m.kind = "withdraw" /\ f.step = "config"
        THEN 1 ELSE 0

WrittenDoc(f) == docs[<<f.num, f.fork>>] = IF f.step = "block" THEN 0 ELSE 1

RowsInv ==
    ~failed =>
      /\ Collecting =>
           /\ \A h \in Heights : h < First => RowsIn(h)
           /\ \A h \in Heights : h > First \/ (h = First /\ flushes = {}) => RowsOut(h)
           /\ \A f \in flushes : Written(f)
      /\ ~Collecting =>
           /\ \A h \in Heights : h < syncNum => RowsIn(h)
           /\ \A h \in Heights : h > syncNum + 1 => RowsOut(h)

DocsInv ==
    ~failed /\ OwnTag =>
      /\ Collecting =>
           /\ \A h \in Heights : h < First => DocIn(h)
           /\ \A h \in Heights : h > First \/ (h = First /\ flushes = {}) => DocOut(h)
           /\ \A f \in flushes : WrittenDoc(f)
      /\ ~Collecting =>
           /\ \A h \in Heights : h < syncNum => DocIn(h)
           /\ \A h \in Heights : h > syncNum + 1 => DocOut(h)

CollectorInv ==
    /\ TypeOK /\ ThreadInv /\ NumberInv /\ FlightInv /\ TablesFinal
    /\ WatchInv /\ RowsInv /\ DocsInv

-----------------------------------------------------------------------------
USE CollectorAssumption, FinalityAssumption
USE DEF Heights, Never, chain, addresses, mongo, fetching, handling

(* What the steps do to the tables.                                        *)

LEMMA DocsFlushed ==
    ASSUME NEW f, FlushStep(f), NEW h \in Heights, NEW k \in Forks
    PROVE  docs'[<<h, k>>] = IF f.step = "block" /\ h = f.num /\ k = f.fork
                             THEN docs[<<h, k>>] + 1 ELSE docs[<<h, k>>]
BY DEF FlushStep

LEMMA RowsFlushed ==
    ASSUME NEW f, FlushStep(f), NEW h \in Heights, NEW k \in Forks, NEW m \in Move
    PROVE  rows'[<<h, k, m>>] =
             IF m.kind = f.step /\ h = f.num /\ k = f.fork /\ m \in f.moves
             THEN rows[<<h, k, m>>] + 1 ELSE rows[<<h, k, m>>]
BY DEF FlushStep

\* Until a removal fails, nothing is left of the blocks collected again.
LEMMA Cleared ==
    ASSUME TypeOK, ClearGarbage, ~failed', NEW h \in Heights, NEW k \in Forks
    PROVE  /\ docs'[<<h, k>>] = IF h >= syncNum /\ OwnTag THEN 0 ELSE docs[<<h, k>>]
           /\ \A m \in Move : rows'[<<h, k, m>>] = IF h >= syncNum THEN 0 ELSE rows[<<h, k, m>>]
<1>1. PICK removed \in {{"block", "deposit", "withdraw"}}
                       \cup (IF MayFail THEN {{}, {"block"}, {"block", "deposit"}} ELSE {}) :
         /\ docs' = [x \in Heights \X Forks |->
                       IF Stale(x[1]) /\ OwnTag /\ "block" \in removed THEN 0 ELSE docs[x]]
         /\ rows' = [x \in Heights \X Forks \X Move |->
                       IF Stale(x[1]) /\ x[3].kind \in removed THEN 0 ELSE rows[x]]
         /\ failed' = (failed \/ "withdraw" \notin removed)
  BY DEF ClearGarbage
<1>2. removed = {"block", "deposit", "withdraw"}
  BY <1>1
<1>3. docs'[<<h, k>>] = IF Stale(h) /\ OwnTag THEN 0 ELSE docs[<<h, k>>]
  BY <1>1, <1>2
<1>4. ASSUME NEW m \in Move
      PROVE  rows'[<<h, k, m>>] = IF Stale(h) THEN 0 ELSE rows[<<h, k, m>>]
  BY <1>1, <1>2 DEF Move
<1> QED
  BY <1>3, <1>4 DEF Stale

\* Nothing is ever added by the removal.
LEMMA ClearedLess ==
    ASSUME TypeOK, ClearGarbage, NEW h \in Heights, NEW k \in Forks
    PROVE  /\ docs'[<<h, k>>] \in {0, docs[<<h, k>>]}
           /\ \A m \in Move : rows'[<<h, k, m>>] \in {0, rows[<<h, k, m>>]}
BY DEF ClearGarbage

\* A promise for later blocks changes nothing of what is due of this one.
LEMMA SameDue ==
    ASSUME NEW h \in Heights, dueFrom \in [Addr -> 0..Never], dueFrom' \in [Addr -> 0..Never],
           \A a \in Addr : \/ dueFrom'[a] = dueFrom[a]
                           \/ dueFrom'[a] > h /\ dueFrom[a] > h
    PROVE  Due(h)' = Due(h)
<1>1. \A m \in Transfers[h] : m.addr \in Addr
  BY DEF Move
<1>2. \A m \in Transfers[h] : h >= dueFrom'[m.addr] <=> h >= dueFrom[m.addr]
  BY <1>1
<1> QED
  BY <1>2 DEF Due

-----------------------------------------------------------------------------
(* What the invariant says of the numbers.                                 *)

LEMMA Numbers ==
    ASSUME CollectorInv
    PROVE  /\ Len(queue) \in Nat /\ head \in Nat /\ head <= Top
           /\ nextNum \in Nat /\ syncNum \in Nat
           /\ QueueFirst \in Int /\ HandFirst \in Int /\ First \in Int
           /\ First <= HandFirst /\ HandFirst <= QueueFirst /\ QueueFirst <= nextNum
           /\ nextNum <= head /\ syncNum <= head
           /\ QueueFirst - 1 <= HandFirst
<1>1. Len(queue) \in Nat /\ head \in 0..Top /\ nextNum \in 0..Top /\ syncNum \in 0..Top
  BY LenProperties DEF CollectorInv, TypeOK
<1>2. (syncNum = 0 \/ syncNum < head - Safe) /\ (nextNum = 0 \/ nextNum <= head - Safe)
  BY DEF CollectorInv, NumberInv
<1> QED
  BY <1>1, <1>2 DEF QueueFirst, HandFirst, First

LEMMA QueueTyped ==
    ASSUME TypeOK, NEW i \in 1..Len(queue)
    PROVE  queue[i].num \in Heights /\ queue[i].fork \in Forks /\ queue[i] \in Block
<1>1. queue[i] \in Block
  BY ElementOfSeq DEF TypeOK
<1> QED
  BY <1>1 DEF Block

LEMMA FlushNumber ==
    ASSUME CollectorInv, NEW f \in flushes
    PROVE  /\ Collecting /\ flushes = {f}
           /\ f \in Batch /\ f.num \in Heights /\ f.fork \in Forks /\ f.moves \subseteq Move
           /\ f.num = First /\ HandFirst = First + 1
           /\ f.num < head - Safe /\ f.fork = fork[f.num]
<1>1. Collecting /\ flushes = {f}
  BY DEF CollectorInv, ThreadInv
<1>2. f \in Batch /\ f.num \in Heights /\ f.fork \in Forks /\ f.moves \subseteq Move
  BY DEF CollectorInv, TypeOK, Batch
<1>3. f.num = HandFirst - 1 /\ First = HandFirst - 1 /\ HandFirst \in Int
  BY <1>1, Numbers DEF CollectorInv, NumberInv, First
<1>4. Final(f.num, f.fork)
  BY DEF CollectorInv, FlightInv
<1> QED
  BY <1>1, <1>2, <1>3, <1>4 DEF Final

\* A block is written one time only: there is one flush thread.
LEMMA OneFlush ==
    ASSUME NEW F, \A f, g \in F : f = g
    PROVE  IsFiniteSet(F) /\ Cardinality(F) <= 1
<1>1. CASE F = {}
  BY <1>1, FS_EmptySet
<1>2. CASE F # {}
  <2>1. PICK f \in F : TRUE
    BY <1>2
  <2>2. F = {f}
    BY <2>1
  <2>3. IsFiniteSet({f}) /\ Cardinality({f}) = 1
    BY FS_Singleton
  <2>4. 1 <= 1
    OBVIOUS
  <2> QED
    BY <2>2, <2>3, <2>4
<1> QED
  BY <1>1, <1>2

-----------------------------------------------------------------------------
(* Steps that leave the tables alone.                                      *)

LEMMA TablesKept ==
    ASSUME CollectorInv, UNCHANGED <<docs, rows, syncNum, failed, flushes>>,
           Collecting' = Collecting, Collecting => First' = First,
           \A h \in Heights : h <= head => Due(h)' = Due(h),
           \A h \in Heights : h < head - Safe => fork'[h] = fork[h]
    PROVE  RowsInv' /\ DocsInv'
<1>1. \A h \in Heights : h < First \/ h < syncNum => h <= head /\ h < head - Safe
  BY Numbers DEF CollectorInv, NumberInv
<1>2. \A h \in Heights : (h < First \/ h < syncNum) /\ RowsIn(h) => RowsIn(h)'
  BY <1>1 DEF RowsIn
<1>3. \A h \in Heights : (h < First \/ h < syncNum) /\ DocIn(h) => DocIn(h)'
  BY <1>1 DEF DocIn
<1>4. \A h \in Heights : RowsOut(h)' = RowsOut(h) /\ DocOut(h)' = DocOut(h)
  BY DEF RowsOut, DocOut
<1>5. \A f \in flushes : Written(f)' = Written(f) /\ WrittenDoc(f)' = WrittenDoc(f)
  BY DEF Written, WrittenDoc
<1>6. RowsInv'
  BY <1>2, <1>4, <1>5 DEF RowsInv, CollectorInv
<1>7. DocsInv'
  BY <1>3, <1>4, <1>5 DEF DocsInv, CollectorInv
<1> QED
  BY <1>6, <1>7

LEMMA SameFinal ==
    ASSUME CollectorInv, UNCHANGED <<docs, rows, head, fork>>
    PROVE  TablesFinal'
BY DEF CollectorInv, TablesFinal, Final

LEMMA InitCollector == Init => CollectorInv
<1> SUFFICES ASSUME Init PROVE CollectorInv
  OBVIOUS
<1> USE DEF Init
<1>1. queue \in Seq(Block) /\ Len(queue) = 0
  BY EmptySeq
<1>2. flushes = {} /\ Cardinality(flushes) = 0
  BY FS_EmptySet
<1>3. TypeOK
  <2>1. 0 \in Heights /\ 0 \in Forks /\ 0 \in 0..MaxBoots /\ Never \in 0..Never
    BY DEF Forks
  <2>2. inHand \in [num : Heights, fork : Forks, moves : SUBSET Move]
    BY <2>1 DEF NoBlock
  <2>3. /\ docs \in [Heights \X Forks -> Nat]
        /\ rows \in [Heights \X Forks \X Move -> Nat]
        /\ fork \in [Heights -> Forks] /\ dueFrom \in [Addr -> 0..Never]
    BY <2>1
  <2>4. /\ registered \subseteq Addr /\ watched \subseteq Addr
        /\ flushes \subseteq Batch /\ Cardinality(flushes) <= 1
        /\ Len(queue) <= QueueCap + 1
    BY <1>1, <1>2
  <2>5. /\ head \in Heights /\ syncNum \in Heights /\ nextNum \in Heights
        /\ boots \in 0..MaxBoots
    BY <2>1
  <2>6. producer \in {"off", "clear", "start", "poll", "fetch"}
    OBVIOUS
  <2>7. consumer \in {"off", "loop", "get", "handle", "flush", "refresh", "join"}
    OBVIOUS
  <2>8. /\ syncing \in BOOLEAN /\ catchUp \in BOOLEAN /\ stopFlag \in BOOLEAN
        /\ failed \in BOOLEAN
    OBVIOUS
  <2> HIDE DEF Init
  <2> QED
    BY <1>1, <2>2, <2>3, <2>4, <2>5, <2>6, <2>7, <2>8 DEF TypeOK
<1>4. ~Collecting /\ ~InHand
  BY DEF Collecting, InHand
<1>5. ThreadInv /\ NumberInv
  BY <1>4 DEF ThreadInv, NumberInv
<1>6. FlightInv
  BY <1>1, <1>4 DEF FlightInv
<1>7. TablesFinal
  BY DEF TablesFinal
<1>8. WatchInv
  BY DEF WatchInv
<1>9. RowsInv /\ DocsInv
  BY <1>4 DEF RowsInv, DocsInv, RowsOut, DocOut
<1> QED
  BY <1>3, <1>5, <1>6, <1>7, <1>8, <1>9 DEF CollectorInv

LEMMA GrowStep == ASSUME CollectorInv, Grow PROVE CollectorInv'
<1> USE DEF Grow
<1>1. head \in Nat /\ head' = head + 1 /\ head' \in Heights
  BY DEF CollectorInv, TypeOK
<1>2. TypeOK'
  BY <1>1 DEF CollectorInv, TypeOK
<1>3. /\ Collecting' = Collecting /\ InHand' = InHand /\ QueueFirst' = QueueFirst
      /\ HandFirst' = HandFirst /\ First' = First
  BY DEF Collecting, InHand, QueueFirst, HandFirst, First
<1>4. ThreadInv'
  BY <1>3 DEF CollectorInv, ThreadInv
<1>5. NumberInv'
  BY <1>1, <1>3, Numbers DEF CollectorInv, NumberInv
<1>6. \A h \in Heights : \A k : Final(h, k) => Final(h, k)'
  BY <1>1 DEF Final
<1>7. FlightInv'
  <2>1. \A i \in 1..Len(queue) : queue[i].num \in Heights
    BY QueueTyped DEF CollectorInv
  <2>2. inHand.num \in Heights /\ nextNum \in Heights /\ \A f \in flushes : f.num \in Heights
    BY DEF CollectorInv, TypeOK, Batch
  <2> QED
    BY <1>1, <1>3, <1>6, <2>1, <2>2 DEF CollectorInv, FlightInv, Confirmed
<1>8. TablesFinal'
  BY <1>6 DEF CollectorInv, TablesFinal
<1>9. WatchInv'
  BY <1>3 DEF CollectorInv, WatchInv, RefreshDue, HandledNext, Due
<1>10. RowsInv' /\ DocsInv'
  BY <1>3, TablesKept DEF Due
<1> QED
  BY <1>2, <1>4, <1>5, <1>7, <1>8, <1>9, <1>10 DEF CollectorInv

\* Only blocks nobody has fetched are ever replaced.
LEMMA ReorganiseStep == ASSUME CollectorInv, Reorganise PROVE CollectorInv'
<1>1. PICK d \in 1..MaxReorg :
        fork' = [h \in Heights |-> IF h \in {g \in Heights : head - d < g /\ g <= head}
                                   THEN 1 ELSE fork[h]]
  BY DEF Reorganise
<1>2. UNCHANGED <<head, addresses, mongo, fetching, queue, handling, flushes, stopFlag,
                  boots, failed>>
  BY DEF Reorganise
<1>3. head \in Nat
  BY DEF CollectorInv, TypeOK
<1>4. \A h \in Heights : h < head - Safe => fork'[h] = fork[h]
  BY <1>1, <1>3
<1>5. TypeOK'
  <2>1. fork' \in [Heights -> Forks]
    BY <1>1 DEF Forks, CollectorInv, TypeOK
  <2> QED
    BY <1>2, <2>1 DEF CollectorInv, TypeOK
<1>6. /\ Collecting' = Collecting /\ InHand' = InHand /\ QueueFirst' = QueueFirst
      /\ HandFirst' = HandFirst /\ First' = First
  BY <1>2 DEF Collecting, InHand, QueueFirst, HandFirst, First
<1>7. ThreadInv' /\ NumberInv'
  BY <1>2, <1>6 DEF CollectorInv, ThreadInv, NumberInv
<1>8. \A h \in Heights : \A k : Final(h, k) => Final(h, k)'
  BY <1>2, <1>4 DEF Final
<1>9. FlightInv'
  <2>1. \A i \in 1..Len(queue) : queue[i].num \in Heights
    BY QueueTyped DEF CollectorInv
  <2>2. inHand.num \in Heights /\ nextNum \in Heights /\ \A f \in flushes : f.num \in Heights
    BY DEF CollectorInv, TypeOK, Batch
  <2> QED
    BY <1>2, <1>6, <1>8, <2>1, <2>2 DEF CollectorInv, FlightInv, Confirmed
<1>10. TablesFinal'
  BY <1>2, <1>8 DEF CollectorInv, TablesFinal
<1>11. WatchInv'
  BY <1>2, <1>6 DEF CollectorInv, WatchInv, RefreshDue, HandledNext, Due
<1>12. RowsInv' /\ DocsInv'
  BY <1>2, <1>4, <1>6, TablesKept DEF Due
<1> QED
  BY <1>5, <1>7, <1>9, <1>10, <1>11, <1>12 DEF CollectorInv

\* A promise to addresses of S from height g on leaves the lower blocks as they were.
LEMMA PromiseFacts ==
    ASSUME CollectorInv, NEW S, NEW g \in 0..Never, Promise(S, g)
    PROVE  /\ dueFrom' \in [Addr -> 0..Never]
           /\ \A a \in Addr : IF a \in S THEN dueFrom'[a] <= g ELSE dueFrom'[a] = dueFrom[a]
           /\ \A a \in Addr : \/ dueFrom'[a] = dueFrom[a]
                              \/ dueFrom'[a] = g /\ dueFrom[a] > g /\ a \in S
           /\ \A h \in Heights : h < g => Due(h)' = Due(h)
<1>1. dueFrom \in [Addr -> 0..Never]
  BY DEF CollectorInv, TypeOK
<1>2. dueFrom' \in [Addr -> 0..Never]
  BY <1>1 DEF Promise
<1>3. \A a \in Addr : \/ dueFrom'[a] = dueFrom[a] /\ ~(a \in S /\ g < dueFrom[a])
                      \/ dueFrom'[a] = g /\ dueFrom[a] > g /\ a \in S
  BY <1>1 DEF Promise
<1>4. \A h \in Heights : h < g => Due(h)' = Due(h)
  BY <1>1, <1>2, <1>3, SameDue
<1> QED
  BY <1>1, <1>2, <1>3, <1>4

LEMMA RegisterStep == ASSUME CollectorInv, NEW a \in Addr, Register(a) PROVE CollectorInv'
<1>1. /\ a \notin registered /\ registered' = registered \cup {a}
      /\ UNCHANGED <<chain, mongo, fetching, queue, handling, flushes, stopFlag, boots, failed>>
  BY DEF Register
<1> DEFINE S == IF producer = "off" \/ ~syncing THEN {a} ELSE {}
<1>2. Promise(S, head + 1)
  BY DEF Register
<1>3. head \in 0..Top /\ head + 1 \in 0..Never
  BY DEF CollectorInv, TypeOK
<1>4. /\ dueFrom' \in [Addr -> 0..Never]
      /\ \A b \in Addr : \/ dueFrom'[b] = dueFrom[b]
                         \/ dueFrom'[b] = head + 1 /\ b \in S
      /\ \A h \in Heights : h < head + 1 => Due(h)' = Due(h)
  BY <1>2, <1>3, PromiseFacts
<1>5. TypeOK'
  BY <1>1, <1>4 DEF CollectorInv, TypeOK
<1>6. /\ Collecting' = Collecting /\ InHand' = InHand /\ QueueFirst' = QueueFirst
      /\ HandFirst' = HandFirst /\ First' = First
  BY <1>1 DEF Collecting, InHand, QueueFirst, HandFirst, First
<1>7. ThreadInv' /\ NumberInv'
  BY <1>1, <1>6 DEF CollectorInv, ThreadInv, NumberInv
<1>8. FlightInv' /\ TablesFinal'
  BY <1>1, <1>6 DEF CollectorInv, FlightInv, TablesFinal, Final, Confirmed
<1>9. WatchInv'
  <2>1. \A b \in Addr : dueFrom'[b] # Never => b \in registered'
    BY <1>1, <1>4 DEF CollectorInv, WatchInv
  <2>2. watched' \subseteq registered'
    BY <1>1 DEF CollectorInv, WatchInv
  <2>3. (producer' # "off" /\ syncing') => \A b \in Addr \ watched' : dueFrom'[b] = Never
    BY <1>1, <1>4 DEF CollectorInv, WatchInv
  <2>4. (producer' # "off" /\ ~RefreshDue') =>
            \A b \in Addr \ watched' : dueFrom'[b] > HandledNext'
    <3>1. HandledNext' = HandledNext /\ RefreshDue' = RefreshDue
      BY <1>1, <1>6 DEF HandledNext, RefreshDue
    <3>2. HandledNext <= head /\ HandledNext \in Int
      BY Numbers DEF HandledNext
    <3> QED
      BY <1>1, <1>3, <1>4, <3>1, <3>2 DEF CollectorInv, WatchInv
  <2>5. consumer' = "flush" => Due(inHand.num)' \subseteq inHand'.moves
    <3>1. consumer = "flush" => inHand.num \in Heights /\ inHand.num < head + 1
      BY <1>3 DEF CollectorInv, FlightInv, Final, InHand, TypeOK
    <3> QED
      BY <1>1, <1>4, <3>1 DEF CollectorInv, WatchInv
  <2>6. \A f \in flushes' : Due(f.num)' \subseteq f.moves
    <3>1. \A f \in flushes : f.num \in Heights /\ f.num < head + 1
      BY <1>3, FlushNumber
    <3> QED
      BY <1>1, <1>4, <3>1 DEF CollectorInv, WatchInv
  <2> QED
    BY <2>1, <2>2, <2>3, <2>4, <2>5, <2>6 DEF WatchInv
<1>10. RowsInv' /\ DocsInv'
  BY <1>1, <1>3, <1>4, <1>6, TablesKept
<1> QED
  BY <1>5, <1>7, <1>8, <1>9, <1>10 DEF CollectorInv

LEMMA BootStep == ASSUME CollectorInv, Boot PROVE CollectorInv'
<1>1. /\ producer = "off" /\ boots < MaxBoots /\ boots' = boots + 1
      /\ watched' = registered /\ producer' = "clear" /\ consumer' = "loop"
      /\ UNCHANGED <<chain, registered, mongo, nextNum, syncing, queue, inHand, catchUp,
                     flushes, stopFlag, failed>>
  BY DEF Boot
<1>2. syncNum \in 0..Top /\ syncNum \in 0..Never
  BY DEF CollectorInv, TypeOK
<1>3. /\ dueFrom' \in [Addr -> 0..Never]
      /\ \A b \in Addr : \/ dueFrom'[b] = dueFrom[b]
                         \/ dueFrom'[b] = syncNum /\ b \in registered
      /\ \A h \in Heights : h < syncNum => Due(h)' = Due(h)
  <2>1. Promise(registered, syncNum)
    BY DEF Boot
  <2> QED
    BY <1>2, <2>1, PromiseFacts
<1>4. TypeOK'
  BY <1>1, <1>3 DEF CollectorInv, TypeOK
<1>5. ~Collecting /\ ~Collecting' /\ ~InHand' /\ queue = <<>> /\ flushes = {} /\ syncing
  BY <1>1 DEF CollectorInv, ThreadInv, Collecting, InHand
<1>6. ThreadInv' /\ NumberInv'
  BY <1>1, <1>5 DEF CollectorInv, ThreadInv, NumberInv
<1>7. Len(queue) = 0
  BY <1>5, EmptySeq
<1>8. FlightInv' /\ TablesFinal'
  <2>1. FlightInv'
    BY <1>1, <1>5, <1>7 DEF FlightInv, Collecting
  <2>2. \A h, k : Final(h, k)' <=> Final(h, k)
    BY <1>1 DEF Final
  <2>3. TablesFinal'
    BY <1>1, <2>2 DEF CollectorInv, TablesFinal
  <2> QED
    BY <2>1, <2>3
<1>9. WatchInv'
  <2>1. \A b \in Addr : dueFrom'[b] # Never => b \in registered'
    BY <1>1, <1>3 DEF CollectorInv, WatchInv
  <2>2. \A b \in Addr \ watched' : dueFrom'[b] = Never
    BY <1>1, <2>1
  <2>3. HandledNext' <= Top /\ HandledNext' \in Int
    BY <1>1, <1>7, Numbers DEF HandledNext, QueueFirst
  <2> QED
    BY <1>1, <1>5, <2>1, <2>2, <2>3 DEF WatchInv
<1>10. \A h \in Heights : h < syncNum /\ RowsIn(h) => RowsIn(h)'
  BY <1>1, <1>3 DEF RowsIn
<1>11. RowsInv' /\ DocsInv'
  BY <1>1, <1>5, <1>10 DEF CollectorInv, RowsInv, DocsInv, RowsOut, DocIn, DocOut
<1> QED
  BY <1>4, <1>6, <1>8, <1>9, <1>11 DEF CollectorInv

LEMMA ClearStep == ASSUME CollectorInv, ClearGarbage PROVE CollectorInv'
<1>1. /\ producer = "clear" /\ producer' = "start" /\ nextNum' = syncNum
      /\ UNCHANGED <<chain, addresses, syncNum, syncing, queue, handling, flushes, stopFlag,
                     boots>>
  BY DEF ClearGarbage
<1>2. ~Collecting /\ Collecting' /\ ~InHand' /\ queue = <<>> /\ flushes = {} /\ syncing
      /\ consumer # "refresh" /\ Len(queue) = 0
  BY <1>1, EmptySeq DEF CollectorInv, ThreadInv, Collecting, InHand
<1>3. TypeOK'
  <2>1. docs' \in [Heights \X Forks -> Nat] /\ rows' \in [Heights \X Forks \X Move -> Nat]
        /\ failed' \in BOOLEAN
    BY DEF ClearGarbage, CollectorInv, TypeOK
  <2> QED
    BY <1>1, <2>1 DEF CollectorInv, TypeOK
<1>4. First' = syncNum /\ HandFirst' = syncNum /\ QueueFirst' = syncNum /\ syncNum \in Heights
  BY <1>1, <1>2 DEF First, HandFirst, QueueFirst, CollectorInv, TypeOK
<1>5. ThreadInv'
  BY <1>1, <1>2 DEF CollectorInv, ThreadInv
<1>6. NumberInv'
  <2>1. syncNum = 0 \/ syncNum <= head - Safe
    BY Numbers DEF CollectorInv, NumberInv
  <2> QED
    BY <1>1, <1>2, <1>4, <2>1 DEF CollectorInv, NumberInv
<1>7. FlightInv'
  BY <1>1, <1>2 DEF FlightInv
<1>8. TablesFinal'
  <2> SUFFICES ASSUME NEW h \in Heights, NEW k \in Forks,
                      docs'[<<h, k>>] # 0 \/ \E m \in Move : rows'[<<h, k, m>>] # 0
               PROVE  Final(h, k)'
    BY DEF TablesFinal
  <2>1. docs[<<h, k>>] # 0 \/ \E m \in Move : rows[<<h, k, m>>] # 0
    BY ClearedLess DEF CollectorInv
  <2> QED
    BY <1>1, <2>1 DEF CollectorInv, TablesFinal, Final
<1>9. WatchInv'
  <2>1. HandledNext' = syncNum
    BY <1>1, <1>2, <1>4 DEF HandledNext, InHand
  <2> QED
    BY <1>1, <1>2, <1>4, <2>1 DEF CollectorInv, WatchInv, RefreshDue, Due, InHand
<1>10. ASSUME ~failed'
       PROVE  ~failed
  BY <1>10 DEF ClearGarbage
<1>11. ASSUME ~failed', NEW h \in Heights, h < syncNum
       PROVE  RowsIn(h)' /\ (OwnTag => DocIn(h)')
  <2>1. RowsIn(h) /\ (OwnTag => DocIn(h))
    BY <1>2, <1>10, <1>11 DEF CollectorInv, RowsInv, DocsInv
  <2>2. fork[h] \in Forks /\ ~(h >= syncNum)
    BY <1>4, <1>11 DEF CollectorInv, TypeOK
  <2>3. docs'[<<h, fork[h]>>] = docs[<<h, fork[h]>>]
        /\ \A m \in Move : rows'[<<h, fork[h], m>>] = rows[<<h, fork[h], m>>]
    BY <1>11, <2>2, Cleared DEF CollectorInv
  <2> QED
    BY <1>1, <2>1, <2>3 DEF RowsIn, DocIn, Due
<1>12. ASSUME ~failed', NEW h \in Heights, h >= syncNum
       PROVE  RowsOut(h)' /\ (OwnTag => DocOut(h)')
  BY <1>12, Cleared DEF CollectorInv, RowsOut, DocOut
<1>13. RowsInv' /\ DocsInv'
  BY <1>1, <1>2, <1>4, <1>11, <1>12 DEF RowsInv, DocsInv
<1> QED
  BY <1>3, <1>5, <1>6, <1>7, <1>8, <1>9, <1>13 DEF CollectorInv

LEMMA StartCollectingStep == ASSUME CollectorInv, StartCollecting PROVE CollectorInv'
<1>1. /\ producer = "start" /\ producer' = "poll"
      /\ UNCHANGED <<chain, addresses, mongo, nextNum, syncing, queue, handling, flushes,
                     stopFlag, boots, failed>>
  BY DEF StartCollecting
<1>2. TypeOK'
  BY <1>1 DEF CollectorInv, TypeOK
<1>3. /\ Collecting /\ Collecting' /\ InHand' = InHand /\ QueueFirst' = QueueFirst
      /\ HandFirst' = HandFirst /\ First' = First
  BY <1>1 DEF Collecting, InHand, QueueFirst, HandFirst, First
<1>4. ThreadInv' /\ NumberInv'
  BY <1>1, <1>3 DEF CollectorInv, ThreadInv, NumberInv
<1>5. FlightInv' /\ TablesFinal'
  BY <1>1, <1>3 DEF CollectorInv, FlightInv, TablesFinal, Final
<1>6. WatchInv'
  BY <1>1, <1>3 DEF CollectorInv, WatchInv, RefreshDue, HandledNext, Due
<1>7. RowsInv' /\ DocsInv'
  BY <1>1, <1>3, TablesKept DEF Due
<1> QED
  BY <1>2, <1>4, <1>5, <1>6, <1>7 DEF CollectorInv

\* The thread has caught up: from the next block on everything registered is due.
LEMMA PollStep == ASSUME CollectorInv, Poll PROVE CollectorInv'
<1>1. /\ producer = "poll"
      /\ UNCHANGED <<chain, registered, mongo, nextNum, queue, handling, flushes, stopFlag,
                     boots, failed>>
  BY DEF Poll
<1>2. head \in 0..Top /\ head + 1 \in 0..Never
  BY DEF CollectorInv, TypeOK
<1>3. \/ Confirmed(nextNum) /\ producer' = "fetch" /\ syncing' = syncing /\ dueFrom' = dueFrom
      \/ producer' = "poll" /\ ~syncing' /\ syncing' \in BOOLEAN /\ Promise(registered, head + 1)
  BY <1>1 DEF Poll
<1>4. /\ dueFrom' \in [Addr -> 0..Never]
      /\ \A b \in Addr : \/ dueFrom'[b] = dueFrom[b]
                         \/ dueFrom'[b] = head + 1 /\ b \in registered /\ ~syncing'
      /\ \A h \in Heights : h < head + 1 => Due(h)' = Due(h)
  <2>1. CASE Promise(registered, head + 1)
    BY <1>2, <1>3, <2>1, PromiseFacts
  <2>2. CASE dueFrom' = dueFrom
    BY <2>2 DEF CollectorInv, TypeOK, Due
  <2> QED
    BY <1>3, <2>1, <2>2
<1>5. TypeOK'
  <2>1. producer' \in {"off", "clear", "start", "poll", "fetch"} /\ syncing' \in BOOLEAN
    BY <1>3 DEF CollectorInv, TypeOK
  <2> QED
    BY <1>1, <1>4, <2>1 DEF CollectorInv, TypeOK
<1>6. /\ Collecting /\ Collecting' /\ InHand' = InHand /\ QueueFirst' = QueueFirst
      /\ HandFirst' = HandFirst /\ First' = First
  BY <1>1, <1>3 DEF Collecting, InHand, QueueFirst, HandFirst, First
<1>7. ThreadInv' /\ NumberInv'
  BY <1>1, <1>3, <1>6 DEF CollectorInv, ThreadInv, NumberInv
<1>8. FlightInv' /\ TablesFinal'
  <2>1. producer' = "fetch" => Confirmed(nextNum)'
    BY <1>1, <1>3 DEF Confirmed
  <2> QED
    BY <1>1, <1>6, <2>1 DEF CollectorInv, FlightInv, TablesFinal, Final
<1>9. WatchInv'
  <2>1. \A b \in Addr : dueFrom'[b] # Never => b \in registered'
    BY <1>1, <1>4 DEF CollectorInv, WatchInv
  <2>2. (producer' # "off" /\ syncing') => \A b \in Addr \ watched' : dueFrom'[b] = Never
    BY <1>1, <1>3, <1>4 DEF CollectorInv, WatchInv
  <2>3. (producer' # "off" /\ ~RefreshDue') =>
            \A b \in Addr \ watched' : dueFrom'[b] > HandledNext'
    <3>1. HandledNext' = HandledNext /\ RefreshDue' = RefreshDue
      BY <1>1, <1>6 DEF HandledNext, RefreshDue
    <3>2. HandledNext <= head /\ HandledNext \in Int
      BY Numbers DEF HandledNext
    <3> QED
      BY <1>1, <1>2, <1>4, <3>1, <3>2 DEF CollectorInv, WatchInv
  <2>4. consumer' = "flush" => Due(inHand.num)' \subseteq inHand'.moves
    <3>1. consumer = "flush" => inHand.num \in Heights /\ inHand.num < head + 1
      BY <1>2 DEF CollectorInv, FlightInv, Final, InHand, TypeOK
    <3> QED
      BY <1>1, <1>4, <3>1 DEF CollectorInv, WatchInv
  <2>5. \A f \in flushes' : Due(f.num)' \subseteq f.moves
    <3>1. \A f \in flushes : f.num \in Heights /\ f.num < head + 1
      BY <1>2, FlushNumber
    <3> QED
      BY <1>1, <1>4, <3>1 DEF CollectorInv, WatchInv
  <2>6. watched' \subseteq registered'
    BY <1>1 DEF CollectorInv, WatchInv
  <2> QED
    BY <2>1, <2>2, <2>3, <2>4, <2>5, <2>6 DEF WatchInv
<1>10. RowsInv' /\ DocsInv'
  BY <1>1, <1>2, <1>4, <1>6, TablesKept
<1> QED
  BY <1>5, <1>7, <1>8, <1>9, <1>10 DEF CollectorInv

LEMMA FetchStep == ASSUME CollectorInv, Fetch PROVE CollectorInv'
<1>1. /\ producer = "fetch" /\ producer' = "poll"
      /\ UNCHANGED <<chain, addresses, mongo, syncing, handling, flushes, stopFlag, boots,
                     failed>>
  BY DEF Fetch
<1>2. Collecting /\ Collecting' /\ InHand' = InHand
  BY <1>1 DEF Collecting, InHand
<1>3. nextNum \in 0..Top /\ head \in 0..Top /\ nextNum < head - Safe /\ Len(queue) \in Nat
      /\ queue \in Seq(Block) /\ fork[nextNum] \in Forks
  BY <1>1, LenProperties DEF CollectorInv, TypeOK, FlightInv, Confirmed
<1> DEFINE b == [num |-> nextNum, fork |-> fork[nextNum]]
<1>4. \/ UNCHANGED <<queue, nextNum>>
      \/ Len(queue) <= QueueCap /\ queue' = Append(queue, b) /\ nextNum' = nextNum + 1
  BY <1>3 DEF Fetch
<1>5. b \in Block /\ b.num = nextNum /\ b.fork = fork[nextNum]
  BY <1>3 DEF Block
<1> HIDE DEF b
<1>6. /\ queue' \in Seq(Block) /\ Len(queue') <= QueueCap + 1 /\ nextNum' \in Heights
      /\ nextNum' <= head - Safe
      /\ QueueFirst' = QueueFirst
      /\ \A i \in 1..Len(queue') : \/ i \in 1..Len(queue) /\ queue'[i] = queue[i]
                                   \/ i = Len(queue) + 1 /\ queue'[i] = b
  <2>1. CASE UNCHANGED <<queue, nextNum>>
    BY <1>3, <2>1 DEF CollectorInv, TypeOK, QueueFirst
  <2>2. CASE Len(queue) <= QueueCap /\ queue' = Append(queue, b) /\ nextNum' = nextNum + 1
    <3>1. /\ queue' \in Seq(Block) /\ Len(queue') = Len(queue) + 1
          /\ \A i \in 1..Len(queue) : queue'[i] = queue[i]
          /\ queue'[Len(queue) + 1] = b
      BY <1>3, <1>5, <2>2, AppendProperties
    <3> QED
      BY <1>3, <2>2, <3>1 DEF QueueFirst
  <2> QED
    BY <1>4, <2>1, <2>2
<1>7. HandFirst' = HandFirst /\ First' = First
  BY <1>1, <1>2, <1>6 DEF HandFirst, First
<1>8. TypeOK'
  <2>1. producer' \in {"off", "clear", "start", "poll", "fetch"}
    BY <1>1
  <2> QED
    BY <1>1, <1>6, <2>1 DEF CollectorInv, TypeOK
<1>9. ThreadInv'
  BY <1>1, <1>2 DEF CollectorInv, ThreadInv
<1>10. NumberInv'
  <2>1. ASSUME NEW i \in 1..Len(queue')
        PROVE  queue'[i].num = QueueFirst' + i - 1
    <3>1. CASE i \in 1..Len(queue) /\ queue'[i] = queue[i]
      BY <1>2, <1>6, <3>1 DEF CollectorInv, NumberInv
    <3>2. CASE i = Len(queue) + 1 /\ queue'[i] = b
      BY <1>3, <1>5, <1>6, <3>2 DEF QueueFirst
    <3> QED
      BY <1>6, <3>1, <3>2
  <2> QED
    BY <1>1, <1>2, <1>6, <1>7, <2>1 DEF CollectorInv, NumberInv
<1>11. FlightInv'
  <2>1. \A i \in 1..Len(queue') : Final(queue'[i].num, queue'[i].fork)
    BY <1>1, <1>3, <1>5, <1>6 DEF CollectorInv, FlightInv, Final
  <2>2. producer' # "fetch" /\ UNCHANGED <<chain, inHand, flushes>>
    BY <1>1
  <2> QED
    BY <1>2, <2>1, <2>2 DEF CollectorInv, FlightInv, Final
<1>12. WatchInv' /\ TablesFinal'
  BY <1>1, <1>2, <1>6 DEF CollectorInv, WatchInv, TablesFinal, RefreshDue, HandledNext, Due, Final
<1>13. RowsInv' /\ DocsInv'
  BY <1>1, <1>2, <1>7, TablesKept DEF Due
<1> QED
  BY <1>8, <1>9, <1>10, <1>11, <1>12, <1>13 DEF CollectorInv

LEMMA LoopStep == ASSUME CollectorInv, Loop PROVE CollectorInv'
<1>1. /\ consumer = "loop" /\ consumer' \in {"get", "join"}
      /\ UNCHANGED <<chain, addresses, mongo, fetching, queue, inHand, catchUp, watched, flushes,
                     stopFlag, boots, failed>>
  BY DEF Loop
<1>2. TypeOK'
  <2>1. consumer' \in {"off", "loop", "get", "handle", "flush", "refresh", "join"}
    BY <1>1
  <2> QED
    BY <1>1, <2>1 DEF CollectorInv, TypeOK
<1>3. /\ Collecting' = Collecting /\ ~InHand /\ ~InHand' /\ QueueFirst' = QueueFirst
      /\ HandFirst' = HandFirst /\ First' = First
  BY <1>1 DEF Collecting, InHand, QueueFirst, HandFirst, First
<1>4. ThreadInv' /\ NumberInv'
  BY <1>1, <1>3 DEF CollectorInv, ThreadInv, NumberInv
<1>5. FlightInv' /\ TablesFinal'
  BY <1>1, <1>3 DEF CollectorInv, FlightInv, TablesFinal, Final, Confirmed
<1>6. WatchInv'
  BY <1>1, <1>3 DEF CollectorInv, WatchInv, RefreshDue, HandledNext, Due
<1>7. RowsInv' /\ DocsInv'
  BY <1>1, <1>3, TablesKept DEF Due
<1> QED
  BY <1>2, <1>4, <1>5, <1>6, <1>7 DEF CollectorInv

LEMMA GetStep == ASSUME CollectorInv, Get PROVE CollectorInv'
<1>1. /\ consumer = "get" /\ consumer' = "handle" /\ queue # <<>>
      /\ inHand' = [num |-> Head(queue).num, fork |-> Head(queue).fork, moves |-> {}]
      /\ queue' = Tail(queue)
      /\ UNCHANGED <<chain, addresses, mongo, fetching, catchUp, watched, flushes, stopFlag,
                     boots, failed>>
  BY DEF Get
<1>2. Collecting /\ Collecting' /\ ~InHand /\ InHand'
  BY <1>1 DEF Collecting, InHand, CollectorInv, ThreadInv
<1>3. /\ queue \in Seq(Block) /\ queue' \in Seq(Block) /\ Len(queue) \in Nat /\ Len(queue) >= 1
      /\ Len(queue') = Len(queue) - 1 /\ Head(queue) = queue[1] /\ 1 \in 1..Len(queue)
      /\ \A i \in 1..Len(queue') : i + 1 \in 1..Len(queue) /\ queue'[i] = queue[i + 1]
  <2>1. queue \in Seq(Block) /\ Len(queue) \in Nat
    BY LenProperties DEF CollectorInv, TypeOK
  <2>2. /\ queue' \in Seq(Block) /\ Len(queue') = Len(queue) - 1 /\ Head(queue) = queue[1]
        /\ \A i \in 1..Len(queue') : queue'[i] = queue[i + 1]
    BY <1>1, <2>1, HeadTailProperties
  <2>3. Len(queue) # 0
    BY <1>1, <2>1, EmptySeq
  <2> QED
    BY <2>1, <2>2, <2>3
<1>4. /\ queue[1].num = QueueFirst /\ queue[1].num \in Heights /\ queue[1].fork \in Forks
      /\ Final(queue[1].num, queue[1].fork)
  <2>1. queue[1].num = QueueFirst + 1 - 1 /\ QueueFirst \in Int
    BY <1>2, <1>3, Numbers DEF CollectorInv, NumberInv
  <2> QED
    BY <1>3, <2>1, QueueTyped DEF CollectorInv, FlightInv
<1>5. /\ inHand'.num = queue[1].num /\ inHand'.fork = queue[1].fork
      /\ inHand' \in [num : Heights, fork : Forks, moves : SUBSET Move]
  BY <1>1, <1>3, <1>4
<1>6. /\ nextNum \in Nat /\ QueueFirst' = QueueFirst + 1 /\ QueueFirst \in Int
  BY <1>1, <1>3, Numbers DEF QueueFirst
<1>7. HandFirst' = HandFirst /\ First' = First
  BY <1>1, <1>2, <1>6 DEF HandFirst, First
<1>8. TypeOK'
  <2>1. consumer' \in {"off", "loop", "get", "handle", "flush", "refresh", "join"}
    BY <1>1
  <2>2. Len(queue') <= QueueCap + 1
    BY <1>3 DEF CollectorInv, TypeOK
  <2>3. UNCHANGED <<chain, addresses, mongo, fetching, catchUp, watched, flushes, stopFlag,
                     boots, failed>>
    BY <1>1
  <2> QED
    BY <1>3, <1>5, <2>1, <2>2, <2>3 DEF CollectorInv, TypeOK
<1>9. ThreadInv'
  BY <1>1, <1>2 DEF CollectorInv, ThreadInv, Collecting
<1>10. NumberInv'
  <2>1. ASSUME NEW i \in 1..Len(queue')
        PROVE  queue'[i].num = QueueFirst' + i - 1
    <3>1. queue'[i].num = QueueFirst + (i + 1) - 1
      BY <1>2, <1>3 DEF CollectorInv, NumberInv
    <3> QED
      BY <1>6, <3>1
  <2>2. inHand'.num = QueueFirst' - 1
    BY <1>4, <1>5, <1>6
  <2>3. UNCHANGED <<syncNum, head, nextNum, flushes, failed>>
    BY <1>1
  <2> QED
    BY <1>2, <1>7, <2>1, <2>2, <2>3 DEF CollectorInv, NumberInv
<1>11. FlightInv'
  <2>1. \A i \in 1..Len(queue') : Final(queue'[i].num, queue'[i].fork)
    BY <1>3 DEF CollectorInv, FlightInv
  <2>2. Final(inHand'.num, inHand'.fork)
    BY <1>4, <1>5
  <2>3. UNCHANGED <<chain, fetching, flushes>>
    BY <1>1
  <2> QED
    BY <2>1, <2>2, <2>3 DEF CollectorInv, FlightInv, Final, Confirmed
<1>12. WatchInv' /\ TablesFinal'
  <2>1. HandledNext' = HandledNext /\ ~RefreshDue
    BY <1>1, <1>6 DEF HandledNext, RefreshDue
  <2>2. UNCHANGED <<chain, addresses, mongo, fetching, flushes, watched>> /\ consumer' = "handle"
    BY <1>1
  <2> QED
    BY <2>1, <2>2 DEF CollectorInv, WatchInv, TablesFinal, Due, Final
<1>13. RowsInv' /\ DocsInv'
  <2>1. UNCHANGED <<chain, addresses, mongo, flushes, failed>>
    BY <1>1
  <2> QED
    BY <1>2, <1>7, <2>1, TablesKept DEF Due
<1> QED
  BY <1>8, <1>9, <1>10, <1>11, <1>12, <1>13 DEF CollectorInv

\* All that is due of the block is picked: the addresses it is due of are watched.
LEMMA HandleStep == ASSUME CollectorInv, Handle PROVE CollectorInv'
<1>1. /\ consumer = "handle" /\ consumer' = "flush" /\ catchUp' = syncing
      /\ inHand' = [inHand EXCEPT !.moves = {m \in Transfers[inHand.num] : m.addr \in watched}]
      /\ UNCHANGED <<chain, addresses, mongo, fetching, queue, watched, flushes, stopFlag, boots,
                     failed>>
  BY DEF Handle
<1>2. Collecting /\ Collecting' /\ InHand /\ InHand' /\ producer # "off"
  BY <1>1 DEF Collecting, InHand, CollectorInv, ThreadInv
<1>3. inHand.num \in Heights /\ Transfers[inHand.num] \subseteq Move
  BY DEF CollectorInv, TypeOK
<1>4. /\ inHand'.num = inHand.num /\ inHand'.fork = inHand.fork
      /\ inHand'.moves = {m \in Transfers[inHand.num] : m.addr \in watched}
      /\ inHand' \in [num : Heights, fork : Forks, moves : SUBSET Move]
  BY <1>1, <1>3 DEF CollectorInv, TypeOK
<1>5. /\ QueueFirst' = QueueFirst /\ HandFirst' = HandFirst /\ First' = First
  BY <1>1, <1>2 DEF QueueFirst, HandFirst, First
<1>6. TypeOK'
  <2>1. consumer' \in {"off", "loop", "get", "handle", "flush", "refresh", "join"}
        /\ catchUp' \in BOOLEAN
    BY <1>1 DEF CollectorInv, TypeOK
  <2>2. UNCHANGED <<chain, addresses, mongo, fetching, queue, watched, flushes, stopFlag, boots,
                     failed>>
    BY <1>1
  <2> QED
    BY <1>4, <2>1, <2>2 DEF CollectorInv, TypeOK
<1>7. ThreadInv'
  BY <1>1, <1>2 DEF CollectorInv, ThreadInv, Collecting
<1>8. NumberInv' /\ FlightInv'
  <2>1. UNCHANGED <<chain, syncNum, fetching, queue, flushes, failed>>
    BY <1>1
  <2> QED
    BY <1>2, <1>4, <1>5, <2>1 DEF CollectorInv, NumberInv, FlightInv, Final, Confirmed
<1>9. inHand.num = HandledNext /\ HandledNext' = HandledNext + 1 /\ HandledNext \in Int
  <2>1. consumer = "handle" /\ consumer' = "flush"
    BY <1>1
  <2>2. inHand.num = QueueFirst - 1 /\ QueueFirst \in Int
    BY <1>2, Numbers DEF CollectorInv, NumberInv
  <2> QED
    BY <1>5, <2>1, <2>2 DEF HandledNext
<1>10. Due(inHand.num)' \subseteq inHand'.moves
  <2> SUFFICES ASSUME NEW m \in Transfers[inHand.num], inHand.num >= dueFrom[m.addr]
               PROVE  m.addr \in watched
    BY <1>1, <1>4 DEF Due
  <2>1. m.addr \in Addr
    BY <1>3 DEF Move
  <2>2. dueFrom[m.addr] \in 0..Never
    BY <2>1 DEF CollectorInv, TypeOK
  <2>3. ~RefreshDue
    BY <1>1 DEF RefreshDue
  <2> QED
    BY <1>2, <1>9, <2>1, <2>2, <2>3 DEF CollectorInv, WatchInv
<1>11. WatchInv'
  <2>1. UNCHANGED <<chain, addresses, mongo, fetching, queue, watched, flushes>>
    BY <1>1
  <2>2. producer' # "off" /\ ~RefreshDue' => \A a \in Addr \ watched' : dueFrom'[a] > HandledNext'
    <3>1. ~RefreshDue' => syncing
      BY <1>1 DEF RefreshDue
    <3>2. ~RefreshDue' => \A a \in Addr \ watched : dueFrom[a] = Never
      BY <1>2, <3>1 DEF CollectorInv, WatchInv
    <3>3. HandledNext' <= Top
      BY <1>1, <1>5, <1>9, Numbers DEF HandledNext
    <3> QED
      BY <1>9, <2>1, <3>2, <3>3
  <2> QED
    BY <1>10, <2>1, <2>2 DEF CollectorInv, WatchInv, Due
<1>12. TablesFinal' /\ RowsInv' /\ DocsInv'
  <2>1. UNCHANGED <<chain, addresses, mongo, flushes, failed>>
    BY <1>1
  <2> QED
    BY <1>2, <1>5, <2>1, TablesKept, SameFinal DEF Due
<1> QED
  BY <1>6, <1>7, <1>8, <1>11, <1>12 DEF CollectorInv

\* The block leaves the hand for a flush thread that has written nothing yet.
LEMMA StartFlushStep == ASSUME CollectorInv, StartFlush PROVE CollectorInv'
<1>0. PICK b : b = [num |-> inHand.num, fork |-> inHand.fork, moves |-> inHand.moves,
                    step |-> "block"]
  OBVIOUS
<1>1. /\ consumer = "flush" /\ consumer' = (IF catchUp THEN "loop" ELSE "refresh")
      /\ flushes = {} /\ flushes' = {b} /\ inHand' = NoBlock
      /\ UNCHANGED <<chain, addresses, mongo, fetching, queue, catchUp, watched, stopFlag, boots,
                     failed>>
  BY <1>0 DEF StartFlush, Joinable
<1>2. Collecting /\ Collecting' /\ InHand /\ ~InHand' /\ producer # "off"
  BY <1>1 DEF Collecting, InHand, CollectorInv, ThreadInv
<1>3. inHand \in [num : Heights, fork : Forks, moves : SUBSET Move]
  BY DEF CollectorInv, TypeOK
<1>4. /\ b \in Batch /\ b.num = inHand.num /\ b.fork = inHand.fork
      /\ b.moves = inHand.moves /\ b.step = "block"
  BY <1>0, <1>3 DEF Batch
<1>5. /\ QueueFirst' = QueueFirst /\ HandFirst' = HandFirst + 1 /\ First = HandFirst
      /\ First' = First /\ HandFirst \in Int /\ inHand.num = HandFirst
  <2>1. inHand.num = QueueFirst - 1 /\ QueueFirst \in Int
    BY <1>2, Numbers DEF CollectorInv, NumberInv
  <2>2. QueueFirst' = QueueFirst
    BY <1>1 DEF QueueFirst
  <2> QED
    BY <1>1, <1>2, <2>1, <2>2 DEF HandFirst, First
<1>6. TypeOK'
  <2>1. consumer' \in {"off", "loop", "get", "handle", "flush", "refresh", "join"}
    BY <1>1
  <2>2. inHand' \in [num : Heights, fork : Forks, moves : SUBSET Move]
    BY <1>1 DEF NoBlock, Forks
  <2>3. flushes' \subseteq Batch /\ Cardinality(flushes') <= 1
    <3>1. \A f, g \in {b} : f = g
      OBVIOUS
    <3> QED
      BY <1>1, <1>4, <3>1, OneFlush
  <2>4. UNCHANGED <<chain, addresses, mongo, fetching, queue, catchUp, watched, stopFlag, boots,
                     failed>>
    BY <1>1
  <2> QED
    BY <2>1, <2>2, <2>3, <2>4 DEF CollectorInv, TypeOK
<1>7. ThreadInv'
  <2>1. consumer' # "off"
    BY <1>1
  <2> QED
    BY <1>1, <1>2, <2>1 DEF CollectorInv, ThreadInv, Collecting
<1>8. NumberInv'
  <2>1. UNCHANGED <<syncNum, head, nextNum, queue, failed>>
    BY <1>1
  <2>2. \A f \in flushes' : f.num = HandFirst' - 1
    BY <1>1, <1>4, <1>5
  <2> QED
    BY <1>2, <1>5, <2>1, <2>2 DEF CollectorInv, NumberInv
<1>9. FlightInv'
  <2>1. Final(b.num, b.fork)
    BY <1>2, <1>4 DEF CollectorInv, FlightInv
  <2> QED
    BY <1>1, <1>2, <2>1 DEF CollectorInv, FlightInv, Final, Confirmed
<1>10. WatchInv'
  <2>1. RefreshDue' = RefreshDue /\ HandledNext' = HandledNext
    BY <1>1, <1>5 DEF RefreshDue, HandledNext
  <2>2. \A f \in flushes' : Due(f.num)' \subseteq f.moves
    BY <1>1, <1>4 DEF CollectorInv, WatchInv, Due
  <2>3. consumer' # "flush" /\ UNCHANGED <<addresses, fetching, watched>>
    BY <1>1
  <2> QED
    BY <2>1, <2>2, <2>3 DEF CollectorInv, WatchInv
<1>11. TablesFinal'
  BY <1>1, SameFinal
<1>12. \A h \in Heights : /\ RowsIn(h)' = RowsIn(h) /\ RowsOut(h)' = RowsOut(h)
                          /\ DocIn(h)' = DocIn(h) /\ DocOut(h)' = DocOut(h)
  BY <1>1 DEF RowsIn, RowsOut, DocIn, DocOut, Due
<1>13. RowsInv'
  <2>1. ASSUME ~failed'
        PROVE  Written(b)'
    <3>1. b.num \in Heights /\ b.fork \in Forks /\ RowsOut(b.num)
      BY <1>1, <1>2, <1>3, <1>4, <1>5, <2>1 DEF CollectorInv, RowsInv
    <3> QED
      BY <1>1, <1>4, <3>1 DEF Written, RowsOut
  <2> QED
    BY <1>1, <1>2, <1>5, <1>12, <2>1 DEF CollectorInv, RowsInv
<1>14. DocsInv'
  <2>1. ASSUME ~failed', OwnTag
        PROVE  WrittenDoc(b)'
    <3>1. b.num \in Heights /\ b.fork \in Forks /\ DocOut(b.num)
      BY <1>1, <1>2, <1>3, <1>4, <1>5, <2>1 DEF CollectorInv, DocsInv
    <3> QED
      BY <1>1, <1>4, <3>1 DEF WrittenDoc, DocOut
  <2> QED
    BY <1>1, <1>2, <1>5, <1>12, <2>1 DEF CollectorInv, DocsInv
<1> QED
  BY <1>6, <1>7, <1>8, <1>9, <1>10, <1>11, <1>13, <1>14 DEF CollectorInv

LEMMA RefreshStep == ASSUME CollectorInv, Refresh PROVE CollectorInv'
<1>1. /\ consumer = "refresh" /\ consumer' = "loop" /\ watched' = watched \cup registered
      /\ UNCHANGED <<chain, addresses, mongo, fetching, queue, inHand, catchUp, flushes, stopFlag,
                     boots, failed>>
  BY DEF Refresh
<1>2. Collecting /\ Collecting' /\ ~InHand /\ ~InHand'
  BY <1>1 DEF Collecting, InHand, CollectorInv, ThreadInv
<1>3. /\ QueueFirst' = QueueFirst /\ HandFirst' = HandFirst /\ First' = First
  BY <1>1, <1>2 DEF QueueFirst, HandFirst, First
<1>4. TypeOK'
  <2>1. consumer' \in {"off", "loop", "get", "handle", "flush", "refresh", "join"}
        /\ watched' \subseteq Addr
    BY <1>1 DEF CollectorInv, TypeOK
  <2> QED
    BY <1>1, <2>1 DEF CollectorInv, TypeOK
<1>5. ThreadInv' /\ NumberInv'
  BY <1>1, <1>2, <1>3 DEF CollectorInv, ThreadInv, NumberInv, Collecting
<1>6. FlightInv' /\ TablesFinal'
  BY <1>1, <1>2 DEF CollectorInv, FlightInv, TablesFinal, Final, Confirmed
<1>7. WatchInv'
  <2>1. \A a \in Addr \ watched' : dueFrom'[a] = Never
    BY <1>1 DEF CollectorInv, WatchInv
  <2>2. HandledNext' <= Top /\ HandledNext' \in Int
    BY <1>1, <1>3, Numbers DEF HandledNext
  <2> QED
    BY <1>1, <2>1, <2>2 DEF CollectorInv, WatchInv, Due
<1>8. RowsInv' /\ DocsInv'
  BY <1>1, <1>2, <1>3, TablesKept DEF Due
<1> QED
  BY <1>4, <1>5, <1>6, <1>7, <1>8 DEF CollectorInv

\* Whatever was in memory is fetched again: the number in b_config is not ahead
\* of the tables.
LEMMA GoneStep == ASSUME CollectorInv, Gone PROVE CollectorInv'
<1>1. /\ producer' = "off" /\ consumer' = "off" /\ flushes' = {} /\ queue' = <<>>
      /\ nextNum' = 0 /\ syncing' = TRUE /\ inHand' = NoBlock /\ catchUp' = TRUE
      /\ watched' = {} /\ stopFlag' = FALSE
      /\ UNCHANGED <<chain, addresses, mongo, boots, failed>>
  BY DEF Gone
<1>2. ~Collecting' /\ ~InHand'
  BY <1>1 DEF Collecting, InHand
<1>3. queue' \in Seq(Block) /\ Len(queue') = 0
  <2>1. queue' = <<>>
    BY <1>1
  <2> QED
    BY <2>1, EmptySeq
<1>4. TypeOK'
  <2>1. /\ producer' \in {"off", "clear", "start", "poll", "fetch"}
        /\ nextNum' \in Heights /\ syncing' \in BOOLEAN /\ catchUp' \in BOOLEAN
        /\ stopFlag' \in BOOLEAN /\ watched' \subseteq Addr
    BY <1>1
  <2>2. consumer' \in {"off", "loop", "get", "handle", "flush", "refresh", "join"}
    BY <1>1
  <2>3. inHand' \in [num : Heights, fork : Forks, moves : SUBSET Move]
    BY <1>1 DEF NoBlock, Forks
  <2>4. flushes' \subseteq Batch /\ Cardinality(flushes') <= 1
    BY <1>1, FS_EmptySet
  <2>5. Len(queue') <= QueueCap + 1
    BY <1>3
  <2>6. UNCHANGED <<chain, addresses, mongo, boots, failed>>
    BY <1>1
  <2> QED
    BY <1>3, <2>1, <2>2, <2>3, <2>4, <2>5, <2>6 DEF CollectorInv, TypeOK
<1>5. ThreadInv' /\ NumberInv'
  BY <1>1, <1>2 DEF CollectorInv, ThreadInv, NumberInv
<1>6. FlightInv'
  BY <1>1, <1>2, <1>3 DEF FlightInv
<1>7. TablesFinal' /\ WatchInv'
  BY <1>1 DEF CollectorInv, TablesFinal, WatchInv, Final
<1>8. \A h \in Heights : /\ RowsIn(h)' = RowsIn(h) /\ RowsOut(h)' = RowsOut(h)
                         /\ DocIn(h)' = DocIn(h) /\ DocOut(h)' = DocOut(h)
  BY <1>1 DEF RowsIn, RowsOut, DocIn, DocOut, Due
<1>9. /\ failed' = failed /\ syncNum' = syncNum /\ syncNum \in Nat /\ First \in Int
      /\ Collecting /\ ~failed => First = syncNum \/ First = syncNum + 1
  BY <1>1, Numbers DEF CollectorInv, NumberInv
<1>10. RowsInv'
  BY <1>2, <1>8, <1>9 DEF CollectorInv, RowsInv
<1>11. DocsInv'
  BY <1>2, <1>8, <1>9 DEF CollectorInv, DocsInv
<1> QED
  BY <1>4, <1>5, <1>6, <1>7, <1>10, <1>11 DEF CollectorInv

LEMMA StopStep == ASSUME CollectorInv, Stop PROVE CollectorInv'
<1>1. /\ stopFlag' = TRUE
      /\ UNCHANGED <<chain, addresses, mongo, fetching, queue, handling, flushes, boots, failed>>
  BY DEF Stop
<1>2. /\ Collecting' = Collecting /\ InHand' = InHand /\ QueueFirst' = QueueFirst
      /\ HandFirst' = HandFirst /\ First' = First
  BY <1>1 DEF Collecting, InHand, QueueFirst, HandFirst, First
<1>3. TypeOK' /\ ThreadInv' /\ NumberInv'
  BY <1>1, <1>2 DEF CollectorInv, TypeOK, ThreadInv, NumberInv
<1>4. FlightInv' /\ TablesFinal' /\ WatchInv'
  BY <1>1, <1>2 DEF CollectorInv, FlightInv, TablesFinal, WatchInv, Final, Confirmed,
                    RefreshDue, HandledNext, Due
<1>5. RowsInv' /\ DocsInv'
  BY <1>1, <1>2, TablesKept DEF Due
<1> QED
  BY <1>3, <1>4, <1>5 DEF CollectorInv

\* Once a write has failed only what is in flight and what is final still counts.
LEMMA FlushFailsStep == ASSUME CollectorInv, NEW f \in flushes, FlushFails(f) PROVE CollectorInv'
<1>1. /\ flushes' = flushes \ {f} /\ failed' = TRUE
      /\ UNCHANGED <<chain, addresses, mongo, fetching, queue, handling, stopFlag, boots>>
  BY DEF FlushFails
<1>2. flushes' = {} /\ Collecting
  BY <1>1, FlushNumber
<1>3. Collecting' /\ InHand' = InHand /\ QueueFirst' = QueueFirst /\ HandFirst' = HandFirst
  BY <1>1, <1>2 DEF Collecting, InHand, QueueFirst, HandFirst
<1>4. TypeOK'
  <2>1. flushes' \subseteq Batch /\ Cardinality(flushes') <= 1
    BY <1>2, FS_EmptySet
  <2> QED
    BY <1>1, <2>1 DEF CollectorInv, TypeOK
<1>5. ThreadInv' /\ NumberInv'
  BY <1>1, <1>2, <1>3 DEF CollectorInv, ThreadInv, NumberInv, Collecting
<1>6. FlightInv' /\ TablesFinal' /\ WatchInv'
  BY <1>1, <1>2, <1>3 DEF CollectorInv, FlightInv, TablesFinal, WatchInv, Final, Confirmed,
                    RefreshDue, HandledNext, Due
<1>7. RowsInv' /\ DocsInv'
  BY <1>1 DEF RowsInv, DocsInv
<1> QED
  BY <1>4, <1>5, <1>6, <1>7 DEF CollectorInv

-----------------------------------------------------------------------------
(* A flush thread: the number moves on after the last write of the block.  *)

LEMMA FlushStepStep == ASSUME CollectorInv, NEW f \in flushes, FlushStep(f) PROVE CollectorInv'
<1>1. /\ flushes = {f} /\ f \in Batch /\ f.num \in Heights /\ f.fork \in Forks
      /\ f.moves \subseteq Move /\ f.num = First /\ HandFirst = First + 1 /\ First \in Int
      /\ f.num < head - Safe /\ f.fork = fork[f.num] /\ Collecting
  BY FlushNumber, Numbers
<1>2. UNCHANGED <<chain, addresses, fetching, queue, handling, stopFlag, boots, failed>>
  BY DEF FlushStep
<1>3. PICK g : g = [f EXCEPT !.step = StepAfter(f.step)]
  OBVIOUS
<1>4. /\ g.num = f.num /\ g.fork = f.fork /\ g.moves = f.moves
      /\ f.step # "config" => g \in Batch /\ g.step = StepAfter(f.step)
      /\ f.step \in {"block", "deposit", "withdraw", "config"}
  BY <1>1, <1>3 DEF Batch, StepAfter
<1>5. flushes' = IF f.step = "config" THEN {} ELSE {g}
  <2>1. flushes' = Onward(f)
    BY <1>1 DEF FlushStep
  <2>2. Onward(f) = IF StepAfter(f.step) = "done" THEN {} ELSE {g}
    BY <1>3 DEF Onward
  <2>3. StepAfter(f.step) = "done" <=> f.step = "config"
    BY <1>4 DEF StepAfter
  <2> QED
    BY <2>1, <2>2, <2>3
<1>6. syncNum' = IF f.step = "config" THEN f.num ELSE syncNum
  BY DEF FlushStep
<1>7. /\ Collecting' /\ InHand' = InHand /\ QueueFirst' = QueueFirst /\ HandFirst' = HandFirst
      /\ First' = IF f.step = "config" THEN First + 1 ELSE First
  <2>1. Collecting' /\ InHand' = InHand /\ QueueFirst' = QueueFirst
    BY <1>1, <1>2 DEF Collecting, InHand, QueueFirst
  <2>2. HandFirst' = HandFirst
    BY <2>1 DEF HandFirst
  <2>3. flushes' = {} <=> f.step = "config"
    BY <1>5
  <2>4. First' = IF f.step = "config" THEN HandFirst ELSE HandFirst - 1
    BY <2>2, <2>3 DEF First
  <2> QED
    BY <1>1, <2>1, <2>2, <2>4
<1>8. TypeOK'
  <2>1. docs' \in [Heights \X Forks -> Nat] /\ rows' \in [Heights \X Forks \X Move -> Nat]
    BY DEF FlushStep, CollectorInv, TypeOK
  <2>2. flushes' \subseteq Batch
    BY <1>4, <1>5
  <2>3. Cardinality(flushes') <= 1
    <3>1. \A x, y \in flushes' : x = y
      BY <1>5
    <3> QED
      BY <3>1, OneFlush
  <2>4. syncNum' \in Heights
    BY <1>1, <1>6 DEF CollectorInv, TypeOK
  <2> QED
    BY <1>2, <2>1, <2>2, <2>3, <2>4 DEF CollectorInv, TypeOK
<1>9. ThreadInv'
  <2>1. \A x, y \in flushes' : x = y
    BY <1>5
  <2>2. producer' # "start"
    BY <1>1, <1>2 DEF CollectorInv, ThreadInv
  <2> QED
    BY <1>2, <1>7, <2>1, <2>2 DEF CollectorInv, ThreadInv
<1>10. NumberInv'
  <2>1. \A x \in flushes' : x.num = HandFirst' - 1
    BY <1>1, <1>4, <1>5, <1>7
  <2>2. syncNum' = 0 \/ syncNum' < head' - Safe
    BY <1>1, <1>2, <1>6 DEF CollectorInv, NumberInv
  <2>3. ~failed' => First' = syncNum' \/ First' = syncNum' + 1
    BY <1>1, <1>2, <1>6, <1>7 DEF CollectorInv, NumberInv
  <2> QED
    BY <1>1, <1>2, <1>7, <2>1, <2>2, <2>3 DEF CollectorInv, NumberInv
<1>11. FlightInv'
  <2>1. \A x \in flushes' : Final(x.num, x.fork)
    BY <1>1, <1>4, <1>5 DEF Final
  <2> QED
    BY <1>2, <1>7, <2>1 DEF CollectorInv, FlightInv, Final, Confirmed
<1>12. TablesFinal'
  <2> SUFFICES ASSUME NEW h \in Heights, NEW k \in Forks,
                      docs'[<<h, k>>] # 0 \/ \E m \in Move : rows'[<<h, k, m>>] # 0
               PROVE  Final(h, k)'
    BY DEF TablesFinal
  <2>1. CASE h = f.num /\ k = f.fork
    BY <1>1, <1>2, <2>1 DEF Final
  <2>2. CASE ~(h = f.num /\ k = f.fork)
    <3>1. docs'[<<h, k>>] = docs[<<h, k>>]
      BY <2>2, DocsFlushed
    <3>2. \A m \in Move : rows'[<<h, k, m>>] = rows[<<h, k, m>>]
      BY <2>2, RowsFlushed
    <3> QED
      BY <1>2, <3>1, <3>2 DEF CollectorInv, TablesFinal, Final
  <2> QED
    BY <2>1, <2>2
<1>13. WatchInv'
  <2>1. \A x \in flushes' : Due(x.num)' \subseteq x.moves
    BY <1>1, <1>2, <1>4, <1>5 DEF CollectorInv, WatchInv, Due
  <2> QED
    BY <1>2, <1>7, <2>1 DEF CollectorInv, WatchInv, RefreshDue, HandledNext, Due
<1>14. ASSUME NEW h \in Heights, h # f.num
       PROVE  /\ RowsIn(h)' = RowsIn(h) /\ RowsOut(h)' = RowsOut(h)
              /\ DocIn(h)' = DocIn(h) /\ DocOut(h)' = DocOut(h)
  <2>1. \A k \in Forks : docs'[<<h, k>>] = docs[<<h, k>>]
    BY <1>14, DocsFlushed
  <2>2. \A k \in Forks, m \in Move : rows'[<<h, k, m>>] = rows[<<h, k, m>>]
    BY <1>14, RowsFlushed
  <2>3. fork[h] \in Forks /\ fork' = fork /\ Due(h)' = Due(h)
    BY <1>2 DEF CollectorInv, TypeOK, Due
  <2> QED
    BY <2>1, <2>2, <2>3 DEF RowsIn, RowsOut, DocIn, DocOut
<1>15. ASSUME ~failed, f.step # "config"
       PROVE  Written(g)' /\ (OwnTag => WrittenDoc(g)')
  <2>1. Written(f) /\ (OwnTag => WrittenDoc(f))
    BY <1>1, <1>15 DEF CollectorInv, RowsInv, DocsInv
  <2>2. ASSUME NEW m \in Move
        PROVE  rows'[<<f.num, f.fork, m>>] =
                 IF m.kind = f.step /\ m \in f.moves THEN rows[<<f.num, f.fork, m>>] + 1
                 ELSE rows[<<f.num, f.fork, m>>]
    BY <1>1, RowsFlushed
  <2>3. docs'[<<f.num, f.fork>>] = IF f.step = "block" THEN docs[<<f.num, f.fork>>] + 1
                                   ELSE docs[<<f.num, f.fork>>]
    BY <1>1, DocsFlushed
  <2>4. g.step = (CASE f.step = "block" -> "deposit" [] f.step = "deposit" -> "withdraw"
                    [] f.step = "withdraw" -> "config")
    BY <1>4, <1>15 DEF StepAfter
  <2>5. \A m \in Move : m.kind \in {"deposit", "withdraw"}
    BY DEF Move
  <2>6. Written(g)'
    <3> SUFFICES ASSUME NEW m \in Move
                 PROVE  rows'[<<f.num, f.fork, m>>] =
                          IF m \in f.moves /\ \/ m.kind = "deposit" /\ g.step \in {"withdraw", "config"}
                                              \/ m.kind = "withdraw" /\ g.step = "config"
                          THEN 1 ELSE 0
      BY <1>4 DEF Written
    <3>1. rows[<<f.num, f.fork, m>>] =
            IF m \in f.moves /\ \/ m.kind = "deposit" /\ f.step \in {"withdraw", "config"}
                                \/ m.kind = "withdraw" /\ f.step = "config"
            THEN 1 ELSE 0
      BY <2>1 DEF Written
    <3>2. m.kind \in {"deposit", "withdraw"}
      BY <2>5
    <3>3. CASE f.step = "block"
      BY <2>2, <2>4, <3>1, <3>2, <3>3
    <3>4. CASE f.step = "deposit"
      BY <2>2, <2>4, <3>1, <3>2, <3>4
    <3>5. CASE f.step = "withdraw"
      BY <2>2, <2>4, <3>1, <3>2, <3>5
    <3> QED
      BY <1>4, <1>15, <3>3, <3>4, <3>5
  <2>7. OwnTag => WrittenDoc(g)'
    BY <1>4, <1>15, <2>1, <2>3, <2>4 DEF WrittenDoc
  <2> QED
    BY <2>6, <2>7
<1>16. ASSUME ~failed, f.step = "config"
       PROVE  RowsIn(f.num)' /\ (OwnTag => DocIn(f.num)')
  <2>1. Written(f) /\ (OwnTag => WrittenDoc(f))
    BY <1>1, <1>16 DEF CollectorInv, RowsInv, DocsInv
  <2>2. \A m \in Move : m.kind \in {"deposit", "withdraw"}
    BY DEF Move
  <2>3. ASSUME NEW m \in Move
        PROVE  rows'[<<f.num, f.fork, m>>] = IF m \in f.moves THEN 1 ELSE 0
    <3>1. rows'[<<f.num, f.fork, m>>] = rows[<<f.num, f.fork, m>>]
      BY <1>1, <1>16, <2>2, RowsFlushed
    <3> QED
      BY <1>16, <2>1, <2>2, <3>1 DEF Written
  <2>4. docs'[<<f.num, f.fork>>] = docs[<<f.num, f.fork>>]
    BY <1>1, <1>16, DocsFlushed
  <2>5. Due(f.num)' \subseteq f.moves /\ fork' = fork
    BY <1>2 DEF CollectorInv, WatchInv, Due
  <2> QED
    BY <1>1, <1>16, <2>1, <2>3, <2>4, <2>5 DEF RowsIn, DocIn, WrittenDoc
<1>17. RowsInv'
  <2> SUFFICES ASSUME ~failed'
               PROVE  /\ \A h \in Heights : h < First' => RowsIn(h)'
                      /\ \A h \in Heights : h > First' \/ (h = First' /\ flushes' = {}) => RowsOut(h)'
                      /\ \A x \in flushes' : Written(x)'
    BY <1>7 DEF RowsInv
  <2>1. ~failed
    BY <1>2
  <2>2. \A h \in Heights : h < First => RowsIn(h)
    BY <1>1, <2>1 DEF CollectorInv, RowsInv
  <2>3. \A h \in Heights : h > First => RowsOut(h)
    BY <1>1, <2>1 DEF CollectorInv, RowsInv
  <2>4. CASE f.step = "config"
    <3>1. First' = First + 1 /\ flushes' = {}
      BY <1>5, <1>7, <2>4
    <3>2. \A h \in Heights : h < First' => RowsIn(h)'
      BY <1>1, <1>14, <1>16, <2>1, <2>2, <2>4, <3>1
    <3>3. \A h \in Heights : h >= First' => RowsOut(h)'
      BY <1>1, <1>14, <2>3, <3>1
    <3> QED
      BY <1>1, <3>1, <3>2, <3>3
  <2>5. CASE f.step # "config"
    <3>1. First' = First /\ flushes' = {g}
      BY <1>5, <1>7, <2>5
    <3> QED
      BY <1>1, <1>14, <1>15, <2>1, <2>2, <2>3, <2>5, <3>1
  <2> QED
    BY <2>4, <2>5
<1>18. DocsInv'
  <2> SUFFICES ASSUME ~failed', OwnTag
               PROVE  /\ \A h \in Heights : h < First' => DocIn(h)'
                      /\ \A h \in Heights : h > First' \/ (h = First' /\ flushes' = {}) => DocOut(h)'
                      /\ \A x \in flushes' : WrittenDoc(x)'
    BY <1>7 DEF DocsInv
  <2>1. ~failed
    BY <1>2
  <2>2. \A h \in Heights : h < First => DocIn(h)
    BY <1>1, <2>1 DEF CollectorInv, DocsInv
  <2>3. \A h \in Heights : h > First => DocOut(h)
    BY <1>1, <2>1 DEF CollectorInv, DocsInv
  <2>4. CASE f.step = "config"
    <3>1. First' = First + 1 /\ flushes' = {}
      BY <1>5, <1>7, <2>4
    <3>2. \A h \in Heights : h < First' => DocIn(h)'
      BY <1>1, <1>14, <1>16, <2>1, <2>2, <2>4, <3>1
    <3>3. \A h \in Heights : h >= First' => DocOut(h)'
      BY <1>1, <1>14, <2>3, <3>1
    <3> QED
      BY <1>1, <3>1, <3>2, <3>3
  <2>5. CASE f.step # "config"
    <3>1. First' = First /\ flushes' = {g}
      BY <1>5, <1>7, <2>5
    <3> QED
      BY <1>1, <1>14, <1>15, <2>1, <2>2, <2>3, <2>5, <3>1
  <2> QED
    BY <2>4, <2>5
<1> QED
  BY <1>8, <1>9, <1>10, <1>11, <1>12, <1>13, <1>17, <1>18 DEF CollectorInv

-----------------------------------------------------------------------------
(* The invariant holds in every state the collector reaches.               *)

LEMMA CollectorStep == CollectorInv /\ [Next]_vars => CollectorInv'
<1> SUFFICES ASSUME CollectorInv, [Next]_vars
             PROVE  CollectorInv'
  OBVIOUS
<1>1. CASE Grow
  BY <1>1, GrowStep
<1>2. CASE Reorganise
  BY <1>2, ReorganiseStep
<1>3. CASE \E a \in Addr : Register(a)
  BY <1>3, RegisterStep
<1>4. CASE Boot
  BY <1>4, BootStep
<1>5. CASE Produce
  BY <1>5, ClearStep, StartCollectingStep, PollStep, FetchStep DEF Produce
<1>6. CASE Consume
  BY <1>6, LoopStep, GetStep, HandleStep, StartFlushStep, RefreshStep, GoneStep
     DEF Consume, Exit
<1>7. CASE Stop
  BY <1>7, StopStep
<1>8. CASE Kill
  BY <1>8, GoneStep DEF Kill
<1>9. CASE Flush
  BY <1>9, FlushStepStep DEF Flush
<1>10. CASE \E f \in flushes : FlushFails(f)
  BY <1>10, FlushFailsStep
<1>11. CASE UNCHANGED vars
  <2> USE <1>11 DEF vars
  <2>1. /\ Collecting' = Collecting /\ InHand' = InHand /\ QueueFirst' = QueueFirst
        /\ HandFirst' = HandFirst /\ First' = First
    BY DEF Collecting, InHand, QueueFirst, HandFirst, First
  <2>2. TypeOK' /\ ThreadInv' /\ NumberInv'
    BY <2>1 DEF CollectorInv, TypeOK, ThreadInv, NumberInv
  <2>3. FlightInv' /\ TablesFinal' /\ WatchInv'
    BY <2>1 DEF CollectorInv, FlightInv, TablesFinal, WatchInv, Final, Confirmed,
                RefreshDue, HandledNext, Due
  <2>4. RowsInv' /\ DocsInv'
    BY <2>1, TablesKept DEF Due
  <2> QED
    BY <2>2, <2>3, <2>4 DEF CollectorInv
<1> QED
  BY <1>1, <1>2, <1>3, <1>4, <1>5, <1>6, <1>7, <1>8, <1>9, <1>10, <1>11 DEF Next

\* The inductive invariant: the blocks in flight are consecutive, final, and
\* stand between the tables and the node with nothing left out.
THEOREM CollectorCorrect == Spec => []CollectorInv
<1>1. Init => CollectorInv
  BY InitCollector
<1>2. CollectorInv /\ [Next]_vars => CollectorInv'
  BY CollectorStep
<1> QED
  BY <1>1, <1>2, PTL DEF Spec

-----------------------------------------------------------------------------
(* What it means for the tables.                                           *)

\* What a fork of a block that is not final has in the tables: nothing.
LEMMA OtherForkEmpty ==
    ASSUME CollectorInv, NEW h \in Heights
    PROVE  /\ fork[h] \in Forks /\ 1 - fork[h] \in Forks /\ 1 - fork[h] # fork[h]
           /\ docs[<<h, 1 - fork[h]>>] = 0
           /\ \A m \in Move : rows[<<h, 1 - fork[h], m>>] = 0
<1>1. fork[h] \in Forks /\ 1 - fork[h] \in Forks /\ 1 - fork[h] # fork[h]
  BY DEF CollectorInv, TypeOK, Forks
<1> QED
  BY <1>1 DEF CollectorInv, TablesFinal, Final

\* Nothing is ever stored of a block that the chain has dropped, or drops later,
\* whatever writes fail: SAFE_BLOCK_FIELD keeps CollectBlockThread behind every
\* reorganisation.
THEOREM FinalBlocksOnly == Spec => []OnlyFinalBlocks
<1>1. CollectorInv => OnlyFinalBlocks
  BY OtherForkEmpty DEF OnlyFinalBlocks
<1> QED
  BY <1>1, CollectorCorrect, PTL

\* For every coin, also those whose block documents bear the wrong chainId: until
\* a write fails, the transfers of every block below the sync number are stored,
\* those due exactly once, none twice and none of a dropped block; blocks after
\* the next one have none, and a new process has taken out all that it collects
\* again.
TransfersExact ==
    ~failed =>
      /\ \A h \in 0..(syncNum - 1), m \in Move :
           /\ rows[<<h, fork[h], m>>] \in (IF m \in Due(h) THEN {1} ELSE {0, 1})
           /\ rows[<<h, 1 - fork[h], m>>] = 0
      /\ \A h \in (syncNum + 2)..Top, k \in Forks, m \in Move : rows[<<h, k, m>>] = 0
      /\ producer = "start" =>
           \A h \in syncNum..Top, k \in Forks, m \in Move : rows[<<h, k, m>>] = 0

\* The parts of RowsInv and DocsInv a reader of the tables can tell.
LEMMA Stored ==
    ASSUME CollectorInv, ~failed, NEW h \in Heights
    PROVE  /\ h < syncNum => RowsIn(h) /\ (OwnTag => DocIn(h))
           /\ h > syncNum + 1 => RowsOut(h) /\ (OwnTag => DocOut(h))
           /\ producer = "start" /\ h >= syncNum => RowsOut(h) /\ (OwnTag => DocOut(h))
<1>1. /\ syncNum \in Nat /\ First \in Int
      /\ Collecting => First = syncNum \/ First = syncNum + 1
  BY Numbers DEF CollectorInv, NumberInv
<1>2. producer = "start" => Collecting /\ First = syncNum /\ flushes = {}
  <2> SUFFICES ASSUME producer = "start"
               PROVE  Collecting /\ First = syncNum /\ flushes = {}
    OBVIOUS
  <2>1. Collecting /\ queue = <<>> /\ flushes = {} /\ ~InHand /\ nextNum = syncNum
    BY DEF CollectorInv, ThreadInv, Collecting
  <2>2. Len(queue) = 0
    BY <2>1, EmptySeq
  <2> QED
    BY <1>1, <2>1, <2>2 DEF First, HandFirst, QueueFirst
<1>3. CASE Collecting
  BY <1>1, <1>2, <1>3 DEF CollectorInv, RowsInv, DocsInv
<1>4. CASE ~Collecting
  BY <1>1, <1>2, <1>4 DEF CollectorInv, RowsInv, DocsInv
<1> QED
  BY <1>3, <1>4

\* What do_collect_app and flush_process store of the transfers is exact.
THEOREM TransfersStoredExact == Spec => []TransfersExact
<1>1. CollectorInv => TransfersExact
  <2> SUFFICES ASSUME CollectorInv, ~failed
               PROVE  TransfersExact
    BY DEF TransfersExact
  <2>1. syncNum \in Heights
    BY DEF CollectorInv, TypeOK
  <2>2. ASSUME NEW h \in 0..(syncNum - 1), NEW m \in Move
        PROVE  /\ rows[<<h, fork[h], m>>] \in (IF m \in Due(h) THEN {1} ELSE {0, 1})
               /\ rows[<<h, 1 - fork[h], m>>] = 0
    <3>1. h \in Heights /\ h < syncNum
      BY <2>1
    <3>2. RowsIn(h)
      BY <3>1, Stored
    <3> QED
      BY <3>1, <3>2, OtherForkEmpty DEF RowsIn
  <2>3. ASSUME NEW h \in (syncNum + 2)..Top
        PROVE  RowsOut(h)
    <3>1. h \in Heights /\ h > syncNum + 1
      BY <2>1
    <3> QED
      BY <3>1, Stored
  <2>4. ASSUME NEW h \in syncNum..Top, producer = "start"
        PROVE  RowsOut(h)
    <3>1. h \in Heights /\ h >= syncNum
      BY <2>1
    <3> QED
      BY <2>4, <3>1, Stored
  <2> QED
    BY <2>2, <2>3, <2>4 DEF TransfersExact, RowsOut
<1> QED
  BY <1>1, CollectorCorrect, PTL

\* When clear_last_garbage_data finds the block documents, because they bear the
\* chainId it looks for, the tables as a whole agree with the sync number.
THEOREM TablesStoredExact == OwnTag => (Spec => []StoredExact)
<1> SUFFICES ASSUME OwnTag
             PROVE  Spec => []StoredExact
  OBVIOUS
<1>1. CollectorInv => StoredExact
  <2> SUFFICES ASSUME CollectorInv
               PROVE  StoredExact
    OBVIOUS
  <2>1. syncNum \in Heights /\ TypeOK
    BY DEF CollectorInv, TypeOK
  <2>2. BelowSyncWhole
    <3> SUFFICES ASSUME ~failed, NEW h \in 0..(syncNum - 1)
                 PROVE  Whole(h)
      BY DEF BelowSyncWhole
    <3>1. h \in Heights /\ h < syncNum
      BY <2>1
    <3>2. RowsIn(h) /\ DocIn(h)
      BY <3>1, Stored
    <3>3. Docs(h) = 1
      <4>1. docs[<<h, fork[h]>>] = 1 /\ docs[<<h, 1 - fork[h]>>] = 0 /\ fork[h] \in {0, 1}
        BY <3>1, <3>2, OtherForkEmpty DEF DocIn, Forks
      <4> QED
        BY <4>1 DEF Docs
    <3> QED
      BY <3>1, <3>2, <3>3, OtherForkEmpty DEF Whole, RowsIn, DocIn
  <2>3. \A h \in Heights : RowsOut(h) /\ DocOut(h) =>
          Docs(h) = 0 /\ \A k \in Forks, m \in Move : rows[<<h, k, m>>] = 0
    BY DEF RowsOut, DocOut, Docs, Forks
  <2>4. OneBlockAhead
    <3> SUFFICES ASSUME ~failed, NEW h \in (syncNum + 2)..Top
                 PROVE  Docs(h) = 0 /\ \A k \in Forks, m \in Move : rows[<<h, k, m>>] = 0
      BY DEF OneBlockAhead
    <3>1. h \in Heights /\ h > syncNum + 1
      BY <2>1
    <3> QED
      BY <2>3, <3>1, Stored
  <2>5. GarbageCleared
    <3> SUFFICES ASSUME ~failed, producer = "start", NEW h \in syncNum..Top
                 PROVE  Docs(h) = 0 /\ \A k \in Forks, m \in Move : rows[<<h, k, m>>] = 0
      BY DEF GarbageCleared
    <3>1. h \in Heights /\ h >= syncNum
      BY <2>1
    <3> QED
      BY <2>3, <3>1, Stored
  <2> QED
    BY <2>1, <2>2, <2>4, <2>5 DEF StoredExact
<1> QED
  BY <1>1, CollectorCorrect, PTL

-----------------------------------------------------------------------------
(* The readers' view: every step of the collector is one of TransferLog's. *)

PhaseOfFirst ==
    Phase = IF ~Collecting THEN "down" ELSE IF First = syncNum THEN "again" ELSE "on"

LEMMA PhaseIsOfFirst == CollectorInv /\ ~failed => PhaseOfFirst
<1> SUFFICES ASSUME CollectorInv, ~failed
             PROVE  PhaseOfFirst
  OBVIOUS
<1>1. producer \in {"off", "clear"} <=> ~Collecting
  BY DEF CollectorInv, TypeOK, Collecting
<1>2. ASSUME Collecting
      PROVE  CollectingAgain <=> First = syncNum
  <2>1. /\ First = syncNum \/ First = syncNum + 1
        /\ \A i \in 1..Len(queue) : queue[i].num = QueueFirst + i - 1
        /\ InHand => inHand.num = QueueFirst - 1
        /\ \A f \in flushes : f.num = HandFirst - 1
    BY <1>2 DEF CollectorInv, NumberInv
  <2>2. /\ Len(queue) \in Nat /\ nextNum \in Nat /\ syncNum \in Nat
        /\ QueueFirst \in Int /\ HandFirst \in Int /\ First \in Int
        /\ First <= HandFirst /\ HandFirst <= QueueFirst /\ QueueFirst <= nextNum
    BY Numbers
  <2>3. DOMAIN queue = 1..Len(queue)
    BY LenProperties DEF CollectorInv, TypeOK
  <2>4. ASSUME CollectingAgain
        PROVE  First = syncNum
    <3>1. CASE nextNum = syncNum
      BY <2>1, <2>2, <3>1
    <3>2. CASE \E i \in DOMAIN queue : queue[i].num = syncNum
      BY <2>1, <2>2, <2>3, <3>2
    <3>3. CASE InHand /\ inHand.num = syncNum
      BY <2>1, <2>2, <3>3 DEF HandFirst
    <3>4. CASE \E f \in flushes : f.num = syncNum
      BY <3>4, FlushNumber
    <3> QED
      BY <2>4, <3>1, <3>2, <3>3, <3>4 DEF CollectingAgain, InHand
  <2>5. ASSUME First = syncNum
        PROVE  CollectingAgain
    <3>1. CASE flushes # {}
      BY <2>5, <3>1, FlushNumber DEF CollectingAgain
    <3>2. CASE flushes = {} /\ InHand
      BY <2>1, <2>5, <3>2 DEF CollectingAgain, First, HandFirst, InHand
    <3>3. CASE flushes = {} /\ ~InHand /\ Len(queue) = 0
      BY <2>2, <2>5, <3>3 DEF CollectingAgain, First, HandFirst, QueueFirst
    <3>4. CASE flushes = {} /\ ~InHand /\ Len(queue) # 0
      <4>1. 1 \in 1..Len(queue) /\ queue[1].num = QueueFirst + 1 - 1
        BY <2>1, <2>2, <3>4
      <4>2. First = QueueFirst
        BY <3>4 DEF First, HandFirst
      <4> QED
        BY <2>2, <2>3, <2>5, <4>1, <4>2 DEF CollectingAgain
    <3> QED
      BY <3>1, <3>2, <3>3, <3>4
  <2> QED
    BY <2>4, <2>5
<1>3. CASE ~Collecting
  BY <1>1, <1>3 DEF Phase, PhaseOfFirst
<1>4. CASE Collecting
  BY <1>1, <1>2, <1>4 DEF Phase, PhaseOfFirst
<1> QED
  BY <1>3, <1>4

\* Steps that move nothing a reader sees.
LEMMA Unseen ==
    ASSUME CollectorInv, CollectorInv', ~failed, ~failed',
           UNCHANGED <<syncNum, rows>>, Collecting' = Collecting, Collecting => First' = First
    PROVE  UNCHANGED Log!log
<1>1. Present' = Present
  BY DEF Present
<1>2. Phase' = Phase
  <2>1. PhaseOfFirst /\ PhaseOfFirst'
    BY PhaseIsOfFirst, PTL
  <2> QED
    BY <2>1 DEF PhaseOfFirst
<1> QED
  BY <1>1, <1>2 DEF Log!log

\* A write of one table: the transfers of the block in turn appear.
LEMMA FlushSeen ==
    ASSUME CollectorInv, CollectorInv', ~failed, ~failed', NEW f \in flushes, FlushStep(f)
    PROVE  [Log!LogNext]_(Log!log)
<1>1. /\ flushes = {f} /\ f \in Batch /\ f.num \in Heights /\ f.fork \in Forks
      /\ f.moves \subseteq Move /\ f.num = First /\ HandFirst = First + 1 /\ First \in Int
      /\ Collecting
  BY FlushNumber, Numbers
<1>2. UNCHANGED <<chain, addresses, fetching, queue, handling, stopFlag, boots, failed>>
      /\ syncNum' = IF f.step = "config" THEN f.num ELSE syncNum
  BY DEF FlushStep
<1>3. PhaseOfFirst /\ PhaseOfFirst'
  BY PhaseIsOfFirst, PTL
<1>4. f.step \in {"block", "deposit", "withdraw", "config"} /\ syncNum \in Nat
      /\ (First = syncNum \/ First = syncNum + 1)
  BY <1>1, Numbers DEF Batch, CollectorInv, NumberInv
<1>5. Log!Turn = First /\ Phase # "down"
  BY <1>1, <1>3, <1>4 DEF Log!Turn, PhaseOfFirst
<1>6. Collecting'
  BY <1>1, <1>2 DEF Collecting
<1>7. \A r \in LogRow : [kind |-> r.kind, addr |-> r.addr] \in Move
                        /\ r.block \in Heights /\ r.fork \in Forks
  BY DEF LogRow, Move
<1>8. CASE f.step = "config"
  <2>1. \A m \in Move : m.kind # "config"
    BY DEF Move
  <2>2. ASSUME NEW h \in Heights, NEW k \in Forks, NEW m \in Move
        PROVE  rows'[<<h, k, m>>] = rows[<<h, k, m>>]
    <3>1. m.kind # f.step
      BY <1>8, <2>1
    <3> QED
      BY <3>1, RowsFlushed
  <2>3. Present' = Present
    BY <1>7, <2>2 DEF Present
  <2>4. syncNum' = First /\ First <= Top
    BY <1>1, <1>2, <1>8
  <2>5. Phase' = "on"
    <3>1. flushes' = {}
      <4>1. Onward(f) = {}
        BY <1>8 DEF Onward, StepAfter
      <4> QED
        BY <1>1, <4>1 DEF FlushStep
    <3>2. HandFirst' = HandFirst
      BY <1>2 DEF HandFirst, QueueFirst, InHand
    <3>3. First' = syncNum' + 1
      BY <1>1, <2>4, <3>1, <3>2 DEF First
    <3>4. First' # syncNum'
      BY <1>1, <2>4, <3>3
    <3> QED
      BY <1>3, <1>6, <3>4 DEF PhaseOfFirst
  <2>6. Log!Commit
    BY <1>5, <2>3, <2>4, <2>5 DEF Log!Commit
  <2> QED
    BY <2>6 DEF Log!LogNext
<1>9. CASE f.step # "config"
  <2>1. syncNum' = syncNum /\ First' = First
    <3>1. flushes' # {}
      <4>1. Onward(f) # {}
        BY <1>4, <1>9 DEF Onward, StepAfter
      <4> QED
        BY <1>1, <4>1 DEF FlushStep
    <3>2. HandFirst' = HandFirst
      BY <1>2 DEF HandFirst, QueueFirst, InHand
    <3> QED
      BY <1>1, <1>2, <1>9, <3>1, <3>2 DEF First
  <2>2. Phase' = Phase
    BY <1>1, <1>3, <1>6, <2>1 DEF PhaseOfFirst
  <2> DEFINE new == {r \in LogRow : /\ r.block = f.num /\ r.fork = f.fork /\ r.kind = f.step
                                    /\ [kind |-> r.kind, addr |-> r.addr] \in f.moves}
  <2>3. Present' = Present \cup new
    <3> SUFFICES ASSUME NEW r \in LogRow
                 PROVE  r \in Present' <=> r \in Present \/ r \in new
      BY DEF Present
    <3> DEFINE m == [kind |-> r.kind, addr |-> r.addr]
    <3>1. m \in Move /\ m.kind = r.kind /\ r.block \in Heights /\ r.fork \in Forks
      BY <1>7
    <3>2. rows[<<r.block, r.fork, m>>] \in Nat
      BY <3>1 DEF CollectorInv, TypeOK
    <3>3. rows'[<<r.block, r.fork, m>>] =
            IF r \in new THEN rows[<<r.block, r.fork, m>>] + 1 ELSE rows[<<r.block, r.fork, m>>]
      <4>1. r \in new <=> m.kind = f.step /\ r.block = f.num /\ r.fork = f.fork /\ m \in f.moves
        BY <3>1
      <4> HIDE DEF new, m
      <4> QED
        BY <3>1, <4>1, RowsFlushed
    <3>4. /\ r \in Present' <=> rows'[<<r.block, r.fork, m>>] > 0
          /\ r \in Present <=> rows[<<r.block, r.fork, m>>] > 0
      BY DEF Present
    <3> HIDE DEF new, m
    <3> QED
      BY <3>2, <3>3, <3>4
  <2>4. new \in SUBSET {r \in LogRow : r.block = Log!Turn}
    BY <1>1, <1>5
  <2> HIDE DEF new
  <2>5. CASE new = {}
    BY <2>1, <2>2, <2>3, <2>5 DEF Log!log
  <2>6. CASE new # {}
    <3>1. Log!Store
      BY <1>5, <2>1, <2>2, <2>3, <2>4, <2>6 DEF Log!Store
    <3> QED
      BY <3>1 DEF Log!LogNext
  <2> QED
    BY <2>5, <2>6
<1> QED
  BY <1>8, <1>9

\* A new collector takes the last block out and collects it again.
LEMMA ClearSeen ==
    ASSUME CollectorInv, CollectorInv', ~failed, ~failed', ClearGarbage
    PROVE  Log!Clear
<1>1. /\ producer = "clear" /\ producer' = "start" /\ nextNum' = syncNum /\ syncNum' = syncNum
  BY DEF ClearGarbage
<1>2. Phase = "down"
  BY <1>1 DEF Phase
<1>3. Phase' = "again"
  BY <1>1 DEF Phase, CollectingAgain
<1>4. Present' = {r \in Present : r.block < syncNum}
  <2> SUFFICES ASSUME NEW r \in LogRow
               PROVE  r \in Present' <=> r \in Present /\ r.block < syncNum
    BY DEF Present
  <2> DEFINE m == [kind |-> r.kind, addr |-> r.addr]
  <2>1. m \in Move /\ r.block \in Heights /\ r.fork \in Forks
    BY DEF LogRow, Move
  <2>2. rows'[<<r.block, r.fork, m>>] =
          IF r.block >= syncNum THEN 0 ELSE rows[<<r.block, r.fork, m>>]
    BY <2>1, Cleared DEF CollectorInv
  <2>3. /\ r \in Present' <=> rows'[<<r.block, r.fork, m>>] > 0
        /\ r \in Present <=> rows[<<r.block, r.fork, m>>] > 0
    BY DEF Present
  <2>4. r.block \in Nat /\ syncNum \in Nat /\ rows[<<r.block, r.fork, m>>] \in Nat
    BY <2>1 DEF CollectorInv, TypeOK
  <2> HIDE DEF m
  <2> QED
    BY <2>2, <2>3, <2>4
<1> QED
  BY <1>1, <1>2, <1>3, <1>4 DEF Log!Clear

LEMMA LogStep ==
    ASSUME CollectorInv, CollectorInv', [Next]_vars, ~failed'
    PROVE  [Log!LogNext]_(Log!log)
<1>1. CASE failed
  BY <1>1 DEF Next, Grow, Reorganise, Register, Boot, Produce, ClearGarbage, StartCollecting,
              Poll, Fetch, Consume, Loop, Get, Handle, StartFlush, Refresh, Exit, Gone, Stop,
              Kill, Flush, FlushStep, FlushFails, vars
<1>2. CASE ~failed
  <2>1. ASSUME UNCHANGED <<syncNum, rows>>, Collecting' = Collecting,
               Collecting => First' = First
        PROVE  [Log!LogNext]_(Log!log)
    BY <1>2, <2>1, Unseen
  <2>2. /\ Len(queue) \in Nat /\ nextNum \in Nat
        /\ QueueFirst \in Int /\ HandFirst \in Int
    BY Numbers
  <2>3. CASE Grow \/ Reorganise \/ (\E a \in Addr : Register(a)) \/ Stop \/ UNCHANGED vars
    <3>1. UNCHANGED <<syncNum, rows, producer, consumer, nextNum, queue, flushes>>
      BY <2>3 DEF Grow, Reorganise, Register, Stop, vars
    <3> QED
      BY <2>1, <3>1 DEF Collecting, First, HandFirst, QueueFirst, InHand
  <2>4. CASE Boot
    <3>1. UNCHANGED <<syncNum, rows>> /\ producer = "off" /\ producer' = "clear"
      BY <2>4 DEF Boot
    <3> QED
      BY <2>1, <3>1 DEF Collecting
  <2>5. CASE ClearGarbage
    BY <1>2, <2>5, ClearSeen DEF Log!LogNext
  <2>6. CASE StartCollecting \/ Poll
    <3>1. /\ UNCHANGED <<syncNum, rows, consumer, nextNum, queue, flushes>>
          /\ Collecting /\ Collecting'
      BY <2>6 DEF StartCollecting, Poll, Collecting
    <3> QED
      BY <2>1, <3>1 DEF First, HandFirst, QueueFirst, InHand
  <2>7. CASE Fetch
    <3>1. /\ UNCHANGED <<syncNum, rows, consumer, flushes>>
          /\ Collecting /\ Collecting'
      BY <2>7 DEF Fetch, Collecting
    <3>2. QueueFirst' = QueueFirst
      <4>1. queue \in Seq(Block) /\ fork[nextNum] \in Forks /\ nextNum \in Heights
        BY DEF CollectorInv, TypeOK
      <4>2. [num |-> nextNum, fork |-> fork[nextNum]] \in Block
        BY <4>1 DEF Block
      <4>3. CASE UNCHANGED <<queue, nextNum>>
        BY <4>3 DEF QueueFirst
      <4>4. CASE /\ queue' = Append(queue, [num |-> nextNum, fork |-> fork[nextNum]])
                 /\ nextNum' = nextNum + 1
        <5>1. Len(queue') = Len(queue) + 1
          BY <4>1, <4>2, <4>4, AppendProperties
        <5> QED
          BY <2>2, <4>4, <5>1 DEF QueueFirst
      <4> QED
        BY <2>7, <4>3, <4>4 DEF Fetch
    <3> QED
      BY <2>1, <3>1, <3>2 DEF First, HandFirst, InHand
  <2>8. CASE Loop \/ Refresh
    <3>1. UNCHANGED <<syncNum, rows, producer, nextNum, queue, flushes>> /\ ~InHand /\ ~InHand'
      BY <2>8 DEF Loop, Refresh, InHand
    <3> QED
      BY <2>1, <3>1 DEF Collecting, First, HandFirst, QueueFirst
  <2>9. CASE Get
    <3>1. UNCHANGED <<syncNum, rows, producer, nextNum, flushes>> /\ ~InHand /\ InHand'
      BY <2>9 DEF Get, InHand
    <3>2. QueueFirst' = QueueFirst + 1
      <4>1. queue \in Seq(Block) /\ queue # <<>> /\ queue' = Tail(queue)
        BY <2>9 DEF Get, CollectorInv, TypeOK
      <4>2. Len(queue') = Len(queue) - 1
        BY <4>1, HeadTailProperties
      <4> QED
        BY <2>2, <3>1, <4>2 DEF QueueFirst
    <3>3. HandFirst' = HandFirst
      BY <2>2, <3>1, <3>2 DEF HandFirst
    <3> QED
      BY <2>1, <3>1, <3>3 DEF Collecting, First
  <2>10. CASE Handle
    <3>1. UNCHANGED <<syncNum, rows, producer, nextNum, queue, flushes>> /\ InHand /\ InHand'
      BY <2>10 DEF Handle, InHand
    <3> QED
      BY <2>1, <3>1 DEF Collecting, First, HandFirst, QueueFirst
  <2>11. CASE StartFlush
    <3>1. /\ UNCHANGED <<syncNum, rows, producer, nextNum, queue>> /\ InHand /\ ~InHand'
          /\ flushes = {} /\ flushes' # {}
      BY <2>11 DEF StartFlush, Joinable, InHand
    <3>2. HandFirst' = HandFirst + 1
      BY <2>2, <3>1 DEF HandFirst, QueueFirst
    <3> QED
      BY <2>1, <2>2, <3>1, <3>2 DEF Collecting, First
  <2>12. CASE Gone
    <3>1. producer' = "off" /\ UNCHANGED <<syncNum, rows>>
      BY <2>12 DEF Gone
    <3>2. Phase' = "down" /\ Present' = Present
      BY <3>1 DEF Phase, Present
    <3>3. CASE Phase = "down"
      BY <3>1, <3>2, <3>3 DEF Log!log
    <3>4. CASE Phase # "down"
      BY <3>1, <3>2, <3>4 DEF Log!LogNext, Log!Crash
    <3> QED
      BY <3>3, <3>4
  <2>13. CASE Flush
    BY <1>2, <2>13, FlushSeen DEF Flush
  <2>14. CASE \E f \in flushes : FlushFails(f)
    BY <2>14 DEF FlushFails
  <2> QED
    BY <2>3, <2>4, <2>5, <2>6, <2>7, <2>8, <2>9, <2>10, <2>11, <2>12, <2>13, <2>14
       DEF Next, Produce, Consume, Exit, Kill
<1> QED
  BY <1>1, <1>2

\* A step of the collector, as the readers of MongoDB see it.
SeenStep == [~failed' => Log!LogNext]_(Log!log)

\* Until a write fails, what the readers of MongoDB see is a transfer log: the
\* transfers of one block after the other appear, the sync number moves to a block
\* when they are in, and a restarted collector takes back its last block alone.
THEOREM CollectorImplementsLog == Spec => ImplementsTransferLog
<1>1. Init => Log!LogInit
  <2> SUFFICES ASSUME Init
               PROVE  Log!LogInit
    OBVIOUS
  <2>1. syncNum = 0 /\ Phase = "down"
    BY DEF Init, Phase
  <2>2. ASSUME NEW r \in LogRow
        PROVE  rows[<<r.block, r.fork, [kind |-> r.kind, addr |-> r.addr]>>] = 0
    BY DEF Init, LogRow, Move
  <2>3. Present = {}
    BY <2>2 DEF Present
  <2> QED
    BY <2>1, <2>3 DEF Log!LogInit
<1>2. CollectorInv /\ CollectorInv' /\ [Next]_vars => SeenStep
  BY LogStep DEF SeenStep
<1> QED
  BY <1>1, <1>2, CollectorCorrect, PTL DEF Spec, ImplementsTransferLog, SeenStep

===============================================================================
