--------------------------- MODULE UtxoIndexProofs ---------------------------
(***************************************************************************)
(* Proofs about UtxoIndex, for every chain that satisfies ChainShape and   *)
(* ChainRules, and about the lists of coins UtxoService makes of it:       *)
(*   TypeCorrect      Spec => []TypeOK                                     *)
(*   OutputsKept      Spec => []NoOutputLost, kills and replays included   *)
(*   IndexCorrect     Spec => []Exact: ViewExact, RestExact, NoFalseHalt   *)
(*                    and NoPaymentVanishes                                *)
(*   IndexImplementsLedger                                                 *)
(*                    Spec => ImplementsLedger                             *)
(*   CoinsListedRight ServiceSpec => []ListExact                           *)
(*   BalancesBetweenHeights                                                *)
(*                    ServiceSpec => []BalanceInBounds                     *)
(***************************************************************************)
EXTENDS UtxoService, DataLemmas

USE DEF Heights, Txs

-----------------------------------------------------------------------------
(* Facts about the chain.                                                  *)

LEMMA CreatedMember ==
    ASSUME NEW n \in 0..NumTx, NEW o
    PROVE  o \in Created(n) <=> \E i \in 1..n : o \in Vout[i]
BY DEF Created

LEMMA SpentMember ==
    ASSUME NEW n \in 0..NumTx, NEW o
    PROVE  o \in Spent(n) <=> \E i \in 1..n : o \in Vin[i]
BY DEF Spent

LEMMA CreatedMonotone ==
    ASSUME NEW m \in 0..NumTx, NEW n \in 0..NumTx, m <= n
    PROVE  Created(m) \subseteq Created(n)
BY ChainShape DEF Created

LEMMA SpentMonotone ==
    ASSUME NEW m \in 0..NumTx, NEW n \in 0..NumTx, m <= n
    PROVE  Spent(m) \subseteq Spent(n)
BY ChainShape DEF Spent

LEMMA NextTx ==
    ASSUME NEW n \in 0..NumTx, n < NumTx
    PROVE  /\ n + 1 \in Txs
           /\ Created(n + 1) = Created(n) \cup Vout[n + 1]
           /\ Spent(n + 1) = Spent(n) \cup Vin[n + 1]
           /\ Vout[n + 1] \cap Created(n) = {}
           /\ Vin[n + 1] \cap Spent(n) = {}
           /\ Vin[n + 1] \subseteq Spent(NumTx)
<1> n + 1 \in Txs /\ NumTx \in Nat
  BY ChainShape
<1>1. Created(n + 1) = Created(n) \cup Vout[n + 1]
  BY CreatedMember, ChainShape
<1>2. Spent(n + 1) = Spent(n) \cup Vin[n + 1]
  BY SpentMember, ChainShape
<1>3. Vout[n + 1] \cap Created(n) = {}
  BY CreatedMember, ChainShape, ChainRules
<1>4. Vin[n + 1] \cap Spent(n) = {}
  BY SpentMember, ChainShape, ChainRules
<1>5. Vin[n + 1] \subseteq Spent(NumTx)
  BY SpentMember, ChainShape
<1> QED
  BY <1>1, <1>2, <1>3, <1>4, <1>5

LEMMA ChainTyped ==
    /\ \A n \in 0..NumTx : Created(n) \subseteq Output
    /\ \A n \in 0..NumTx : Spent(n) \subseteq Output
BY ChainShape DEF Created, Spent

\* A block ends within the chain, blocks end in order, and the first h blocks
\* spend only what they create.
LEMMA BlockEndFacts ==
    ASSUME NEW h \in Heights
    PROVE  /\ BlockEnd[h] \in 0..NumTx
           /\ \A g \in Heights : g <= h => BlockEnd[g] <= BlockEnd[h]
           /\ Spent(BlockEnd[h]) \subseteq Created(BlockEnd[h])
BY ChainShape, ChainRules, SpentMember

\* The constants a fresh process starts from.
LEMMA Zeros == 0 \in Heights /\ 1 \in 1..(MaxHeight + 1) /\ 0 \in 0..NumTx
BY ChainShape

-----------------------------------------------------------------------------
(* Type correctness.                                                       *)

\* Every variable of the index keeps its type, and the handler's cursor stays
\* inside the block in hand.
THEOREM TypeCorrect == Spec => []TypeOK
<1>1. Init => TypeOK
  BY Zeros DEF Init, TypeOK, Steps, FlushSteps
<1>2. TypeOK /\ [Next]_vars => TypeOK'
  <2> SUFFICES ASSUME TypeOK, [Next]_vars PROVE TypeOK'
    OBVIOUS
  <2> USE ChainShape DEF TypeOK, Steps, FlushSteps, caches, stores
  <2>1. CASE Boot                  BY <2>1 DEF Boot
  <2>2. CASE NewBlocks
    <3>1. count' \in 1..(MaxHeight + 1)
      BY <2>2 DEF NewBlocks
    <3> QED
      BY <2>2, <3>1 DEF NewBlocks, Block
  <2>3. CASE MainFlush             BY <2>3 DEF MainFlush
  <2>4. CASE StartLow              BY <2>4 DEF StartLow, ResumeHeight
  <2>5. CASE Close                 BY <2>5, Zeros DEF Close, LoseMemory
  <2>6. CASE ReceiveBlock
    <3>1. Block \in 1..MaxHeight /\ lastHeight <= Block
      BY <2>6 DEF ReceiveBlock, Fed, Block
    <3>2. BlockEnd[lastHeight] \in 0..NumTx /\ BlockEnd[lastHeight] <= BlockEnd[Block]
      BY <3>1, BlockEndFacts
    <3> QED
      BY <2>6, <3>1, <3>2 DEF ReceiveBlock, Block
  <2>7. CASE SpendInput
    <3>1. Vin[cursor + 1] \subseteq Output
      BY <2>7, BlockEndFacts DEF SpendInput, InputsLeft
    <3> QED
      BY <2>7, <3>1 DEF SpendInput, SpentUtxo, Block
  <2>8. CASE DeferInput
    <3>1. Vin[cursor + 1] \subseteq Output
      BY <2>8, BlockEndFacts DEF DeferInput, InputsLeft
    <3> QED
      BY <2>8, <3>1 DEF DeferInput, Block
  <2>9. CASE MissInput             BY <2>9 DEF MissInput
  <2>10. CASE AddOutputs
    <3>1. cursor + 1 \in Txs /\ Vout[cursor + 1] \subseteq Output
      BY <2>10, BlockEndFacts DEF AddOutputs
    <3>2. cursor + 1 <= BlockEnd[Block] /\ BlockEnd[Block] \in 0..NumTx
      BY <2>10, BlockEndFacts DEF AddOutputs
    <3> QED
      BY <2>10, <3>1, <3>2 DEF AddOutputs, Block
  <2>11. CASE SettleInput          BY <2>11 DEF SettleInput, SpentUtxo, Block
  <2>12. CASE FinishBlock          BY <2>12 DEF FinishBlock, BlockDone, Block
  <2>13. CASE ReceiveExit          BY <2>13 DEF ReceiveExit
  <2>14. CASE FlushPutUtxo         BY <2>14 DEF FlushPutUtxo, FlushNext
  <2>15. CASE FlushDeleteUtxo      BY <2>15 DEF FlushDeleteUtxo, FlushNext
  <2>16. CASE FlushPutAddr         BY <2>16 DEF FlushPutAddr, FlushNext
  <2>17. CASE FlushDeleteAddr      BY <2>17 DEF FlushDeleteAddr, FlushNext
  <2>18. CASE FlushHeight          BY <2>18 DEF FlushHeight
  <2>19. CASE Signal               BY <2>19 DEF Signal, Block
  <2>20. CASE Kill
    <3>1. intact' \in BOOLEAN /\ LoseMemory /\ UNCHANGED <<stores, isBch>>
      BY <2>20 DEF Kill
    <3> QED
      BY <3>1, Zeros DEF LoseMemory
  <2>21. CASE UNCHANGED vars
    <3>1. UNCHANGED <<caches, stores>> /\ UNCHANGED control /\ UNCHANGED <<isBch, intact>>
      BY <2>21 DEF vars
    <3> QED
      BY <3>1 DEF control, Block
  <2> QED
    BY <2>1, <2>2, <2>3, <2>4, <2>5, <2>6, <2>7, <2>8, <2>9, <2>10, <2>11, <2>12,
       <2>13, <2>14, <2>15, <2>16, <2>17, <2>18, <2>19, <2>20, <2>21
    DEF Next, Main, HandleBlock, FlushDb
<1> QED
  BY <1>1, <1>2, PTL DEF Spec

-----------------------------------------------------------------------------
(* No output is lost.                                                      *)

\* The outputs created by the first n transactions that the chain never spends.
Kept(n) == Created(n) \ Spent(NumTx)

\* Only outputs the chain spends are ever queued for deletion.
SpentOnly ==
    /\ utxoSpent \subseteq Spent(NumTx)
    /\ addrSpent \subseteq Spent(NumTx)
    /\ deferred \subseteq Spent(NumTx)

\* Where the outputs to keep are: on their way from the caches to the stores.
KeptInv ==
    /\ Kept(BlockEnd[height]) \subseteq utxoDb \cap addrDb
    /\ pc \in {"tx", "dead"} =>
          /\ BlockEnd[lastHeight] <= cursor
          /\ Kept(cursor) \subseteq utxoDb \cup utxoCache
          /\ Kept(cursor) \subseteq addrDb \cup addrCache
    /\ pc \in {"idle", "main"} \cup FlushSteps =>
          /\ Kept(BlockEnd[lastHeight]) \subseteq utxoDb \cup utxoCache
          /\ Kept(BlockEnd[lastHeight]) \subseteq addrDb \cup addrCache
    /\ pc \in {"del", "aput", "adel", "height"} =>
          Kept(BlockEnd[lastHeight]) \subseteq utxoDb
    /\ pc \in {"adel", "height"} => Kept(BlockEnd[lastHeight]) \subseteq addrDb

\* The fast phase ends with is_done or with every block below count handled.
FastEnd ==
    /\ pc = "dead" => isDone
    /\ pc = "main" => after # "idle"
    /\ phase = "fast" /\ pc \in {"main"} \cup FlushSteps /\ after # "idle" /\ ~isDone =>
          count - 1 <= lastHeight

LostInv == TypeOK /\ SpentOnly /\ KeptInv /\ FastEnd

LEMMA KeptMonotone ==
    ASSUME NEW m \in 0..NumTx, NEW n \in 0..NumTx, m <= n
    PROVE  Kept(m) \subseteq Kept(n)
BY CreatedMonotone DEF Kept

LEMMA KeptNextTx ==
    ASSUME NEW n \in 0..NumTx, n < NumTx
    PROVE  Kept(n + 1) \subseteq Kept(n) \cup Vout[n + 1]
BY NextTx DEF Kept

LEMMA KeptNotSpent ==
    ASSUME NEW n \in 0..NumTx, NEW o \in Kept(n)
    PROVE  o \notin Spent(NumTx)
BY DEF Kept

LEMMA LostInit == Init => SpentOnly /\ KeptInv /\ FastEnd
<1> SUFFICES ASSUME Init PROVE SpentOnly /\ KeptInv /\ FastEnd
  OBVIOUS
<1>1. Kept(BlockEnd[height]) = {}
  BY ChainShape DEF Init, Kept, Created
<1> QED
  BY <1>1 DEF Init, SpentOnly, KeptInv, FastEnd, FlushSteps

LEMMA LostStep ==
    ASSUME LostInv, TypeOK', [Next]_vars
    PROVE  SpentOnly' /\ KeptInv' /\ FastEnd'
<1> USE DEF LostInv, TypeOK, SpentOnly, KeptInv, FastEnd, Steps, FlushSteps, caches, stores
<1>1. CASE Boot
  BY <1>1 DEF Boot
<1>2. CASE NewBlocks
  BY <1>2 DEF NewBlocks
<1>3. CASE MainFlush
  <2>1. pc = "dead" => Kept(BlockEnd[lastHeight]) \subseteq Kept(cursor)
    BY BlockEndFacts, KeptMonotone
  <2> QED
    BY <1>3, <2>1 DEF MainFlush
<1>4. CASE StartLow
  <2>1. count - 1 \in Heights /\ count - 1 <= lastHeight
    BY <1>4, ChainShape DEF StartLow, ResumeHeight
  <2>2. Kept(BlockEnd[count - 1]) \subseteq Kept(BlockEnd[lastHeight])
    BY <2>1, BlockEndFacts, KeptMonotone
  <2> QED
    BY <1>4, <2>2 DEF StartLow, ResumeHeight
<1>5. CASE Close
  BY <1>5 DEF Close, LoseMemory
<1>6. CASE ReceiveBlock
  BY <1>6 DEF ReceiveBlock
<1>7. CASE SpendInput
  <2>1. Vin[cursor + 1] \subseteq Spent(NumTx)
    BY <1>7, ChainShape, BlockEndFacts, NextTx DEF SpendInput, InputsLeft
  <2>2. PICK o \in Vin[cursor + 1] : SpentUtxo(o)
    BY <1>7 DEF SpendInput
  <2>3. o \notin Kept(cursor) /\ o \in Spent(NumTx)
    BY <2>1, KeptNotSpent
  <2> QED
    BY <1>7, <2>2, <2>3 DEF SpendInput, SpentUtxo
<1>8. CASE DeferInput
  <2>1. Vin[cursor + 1] \subseteq Spent(NumTx)
    BY <1>8, ChainShape, BlockEndFacts, NextTx DEF DeferInput, InputsLeft
  <2> QED
    BY <1>8, <2>1 DEF DeferInput
<1>9. CASE MissInput
  BY <1>9 DEF MissInput
<1>10. CASE AddOutputs
  <2>1. cursor < NumTx
    BY <1>10, ChainShape, BlockEndFacts DEF AddOutputs
  <2>2. Kept(cursor + 1) \subseteq Kept(cursor) \cup Vout[cursor + 1]
    BY <2>1, KeptNextTx
  <2> QED
    BY <1>10, <2>2, BlockEndFacts DEF AddOutputs
<1>11. CASE SettleInput
  <2>1. PICK o \in deferred :
           /\ \/ SpentUtxo(o)
              \/ addrCache' = addrCache \ {o} /\ UNCHANGED <<utxoCache, utxoSpent, addrSpent>>
           /\ deferred' = deferred \ {o}
    BY <1>11 DEF SettleInput
  <2>2. o \notin Kept(cursor) /\ o \in Spent(NumTx)
    BY KeptNotSpent
  <2> QED
    BY <1>11, <2>1, <2>2 DEF SettleInput, SpentUtxo
<1>12. CASE FinishBlock
  BY <1>12 DEF FinishBlock, BlockDone
<1>13. CASE ReceiveExit
  BY <1>13 DEF ReceiveExit, Fed, Block
<1>14. CASE FlushPutUtxo
  BY <1>14 DEF FlushPutUtxo, FlushNext, PutBatch
<1>15. CASE FlushDeleteUtxo
  <2>1. PICK b \in SUBSET utxoSpent : utxoDb' = utxoDb \ b
    BY <1>15 DEF FlushDeleteUtxo, FlushNext
  <2>2. \A n \in 0..NumTx : Kept(n) \cap b = {}
    BY KeptNotSpent
  <2> QED
    BY <1>15, <2>1, <2>2, BlockEndFacts DEF FlushDeleteUtxo, FlushNext
<1>16. CASE FlushPutAddr
  BY <1>16 DEF FlushPutAddr, FlushNext, PutBatch
<1>17. CASE FlushDeleteAddr
  <2>1. PICK b \in SUBSET addrSpent : addrDb' = addrDb \ b
    BY <1>17 DEF FlushDeleteAddr, FlushNext
  <2>2. \A n \in 0..NumTx : Kept(n) \cap b = {}
    BY KeptNotSpent
  <2> QED
    BY <1>17, <2>1, <2>2, BlockEndFacts DEF FlushDeleteAddr, FlushNext
<1>18. CASE FlushHeight
  BY <1>18 DEF FlushHeight
<1>19. CASE Signal
  BY <1>19 DEF Signal
<1>20. CASE Kill
  BY <1>20 DEF Kill, LoseMemory
<1>21. CASE UNCHANGED vars
  BY <1>21 DEF vars, control
<1> QED
  BY <1>1, <1>2, <1>3, <1>4, <1>5, <1>6, <1>7, <1>8, <1>9, <1>10, <1>11, <1>12,
     <1>13, <1>14, <1>15, <1>16, <1>17, <1>18, <1>19, <1>20, <1>21
  DEF Next, Main, HandleBlock, FlushDb

\* However often the process is killed, also inside flush_db, and whatever it
\* replays or halts on: an output created by the stored height that the chain
\* never spends is in both stores.
THEOREM OutputsKept == Spec => []NoOutputLost
<1>1. Init => SpentOnly /\ KeptInv /\ FastEnd
  BY LostInit
<1>2. TypeOK /\ TypeOK' /\ (SpentOnly /\ KeptInv /\ FastEnd) /\ [Next]_vars
         => (SpentOnly /\ KeptInv /\ FastEnd)'
  BY LostStep DEF LostInv
<1>3. KeptInv => NoOutputLost
  BY DEF KeptInv, NoOutputLost, Kept
<1> QED
  BY <1>1, <1>2, <1>3, TypeCorrect, PTL DEF Spec

-----------------------------------------------------------------------------
(* The index is exact while no kill falls inside a flush.                  *)

\* Outside a flush the stores describe the stored height, what is cached is
\* not stored yet, and what is queued for deletion is stored.
AtRest ==
    pc \notin FlushSteps =>
        /\ utxoDb = UnspentAt(height) /\ addrDb = UnspentAt(height)
        /\ utxoCache \cap utxoDb = {} /\ utxoSpent \subseteq utxoDb

\* The two indexes are cached alike, and no output is both cached and queued.
Caching ==
    /\ addrCache = utxoCache /\ addrSpent = utxoSpent
    /\ utxoCache \cap utxoSpent = {}
    /\ pc = "off" => utxoCache = {} /\ utxoSpent = {}

\* Heights stored, handled and fed come in this order; no handler has died.
Order ==
    /\ pc # "dead"
    /\ pc # "off" => height <= lastHeight /\ lastHeight < count

\* Stores and caches together stand for the chain applied so far.
View ==
    pc # "off" =>
        /\ Pending(utxoDb, utxoSpent, utxoCache) = AppliedSoFar
        /\ Pending(addrDb, addrSpent, addrCache) = AppliedSoFar

\* Inside a block.
InBlock ==
    pc = "tx" =>
        /\ BlockEnd[lastHeight] <= cursor
        /\ IF cursor < BlockEnd[Block] THEN handled \subseteq Vin[cursor + 1]
                                       ELSE handled = {}
        /\ deferred \subseteq Spent(cursor) \cup handled
        /\ deferred \subseteq Created(BlockEnd[Block])
        /\ SpentSoFar \subseteq Created(cursor)
        /\ Block < count
        /\ ~isBch => deferred = {}

\* Inside a flush: what each phase has achieved.
InFlush ==
    /\ pc \in {"del", "aput", "adel", "height"} => utxoCache \subseteq utxoDb
    /\ pc \in {"aput", "adel", "height"} => utxoSpent \cap utxoDb = {}
    /\ pc \in {"adel", "height"} => addrCache \subseteq addrDb
    /\ pc = "height" => addrSpent \cap addrDb = {}
    /\ pc \in {"put", "del"} => addrDb = UnspentAt(height)
    /\ pc = "aput" => UnspentAt(height) \subseteq addrDb
    /\ pc \in FlushSteps => addrDb \subseteq UnspentAt(height) \cup UnspentAt(lastHeight)

ExactInv == intact => AtRest /\ Caching /\ Order /\ View /\ InBlock /\ InFlush

LEMMA ExactInit == Init => ExactInv
<1> SUFFICES ASSUME Init PROVE ExactInv
  OBVIOUS
<1>1. UnspentAt(0) = {}
  BY ChainShape DEF UnspentAt, Unspent, Created
<1> QED
  BY <1>1 DEF Init, ExactInv, AtRest, Caching, Order, View, InBlock, InFlush, FlushSteps

\* In the middle of a block: what is stored was created before the cursor, and
\* the next input of the current transaction is not yet spent.
LEMMA BlockFacts ==
    ASSUME TypeOK, AtRest, Order, InBlock, pc = "tx"
    PROVE  /\ utxoDb \subseteq Created(cursor)
           /\ Block \in Heights /\ BlockEnd[Block] \in 0..NumTx
           /\ cursor < BlockEnd[Block] =>
                 /\ cursor < NumTx
                 /\ Vin[cursor + 1] \cap Spent(cursor) = {}
                 /\ Vin[cursor + 1] \subseteq Created(BlockEnd[Block])
                 /\ ~isBch => Vin[cursor + 1] \subseteq Created(cursor)
<1> USE DEF TypeOK
<1>1. Block \in Heights /\ BlockEnd[Block] \in 0..NumTx
  BY ChainShape, BlockEndFacts
<1>2. utxoDb \subseteq Created(BlockEnd[height])
  BY DEF AtRest, FlushSteps, UnspentAt, Unspent
<1>3. BlockEnd[height] \in 0..NumTx /\ BlockEnd[height] <= BlockEnd[lastHeight]
  BY BlockEndFacts DEF Order
<1>4. BlockEnd[lastHeight] \in 0..NumTx /\ BlockEnd[lastHeight] <= cursor
  BY BlockEndFacts DEF InBlock
<1>5. Created(BlockEnd[height]) \subseteq Created(cursor)
  BY <1>3, <1>4, CreatedMonotone
<1>6. ASSUME cursor < BlockEnd[Block]
      PROVE  /\ cursor < NumTx
             /\ Vin[cursor + 1] \cap Spent(cursor) = {}
             /\ Vin[cursor + 1] \subseteq Created(BlockEnd[Block])
             /\ ~isBch => Vin[cursor + 1] \subseteq Created(cursor)
  <2>1. cursor < NumTx /\ cursor + 1 \in Txs /\ cursor + 1 \in 1..BlockEnd[Block]
    BY <1>1, <1>6, ChainShape
  <2>2. Vin[cursor + 1] \subseteq Created(BlockEnd[Block])
    BY <1>1, <2>1, ChainRules
  <2>3. ~isBch => Vin[cursor + 1] \subseteq Created(cursor)
    BY <2>1 DEF ParentsFirst
  <2> QED
    BY <2>1, <2>2, <2>3, NextTx
<1> QED
  BY <1>1, <1>2, <1>5, <1>6

\* Going through one output o that is spent or put off.
LEMMA ExactSpend ==
    ASSUME TypeOK, AtRest, Caching, View, pc = "tx",
           utxoDb \subseteq Created(cursor),
           NEW o, o \notin SpentSoFar, Found(o), SpentUtxo(o), stores' = stores
    PROVE  /\ Pending(utxoDb', utxoSpent', utxoCache') = AppliedSoFar \ {o}
           /\ Pending(addrDb', addrSpent', addrCache') = AppliedSoFar \ {o}
           /\ addrCache' = utxoCache' /\ addrSpent' = utxoSpent'
           /\ utxoCache' \cap utxoSpent' = {}
           /\ utxoCache' \cap utxoDb' = {} /\ utxoSpent' \subseteq utxoDb'
           /\ o \in Created(cursor)
<1> USE DEF FlushSteps, stores
<1>1. utxoDb' = utxoDb /\ addrDb' = addrDb /\ utxoDb = addrDb
  BY DEF AtRest
<1>2. utxoCache \cap utxoDb = {} /\ utxoSpent \subseteq utxoDb
  BY DEF AtRest
<1>3. AppliedSoFar = (utxoDb \ utxoSpent) \cup utxoCache
  BY DEF View, Pending
<1>4. AppliedSoFar \subseteq Created(cursor)
  BY DEF AppliedSoFar
<1>5. o \in Created(cursor)
  BY <1>3, <1>4 DEF Found
<1>6. o \in AppliedSoFar
  BY <1>5 DEF AppliedSoFar
<1> QED
  BY <1>1, <1>2, <1>3, <1>5, <1>6 DEF Caching, SpentUtxo, Pending, Found

LEMMA ExactHandle ==
    ASSUME TypeOK, TypeOK', intact, intact', ExactInv, isBch' = isBch, HandleBlock
    PROVE  ExactInv'
<1> USE DEF TypeOK, FlushSteps, caches, stores
<1>a. AtRest /\ Caching /\ Order /\ View /\ InBlock /\ InFlush
  BY DEF ExactInv
<1>b. SUFFICES AtRest' /\ Caching' /\ Order' /\ View' /\ InBlock' /\ InFlush'
  BY DEF ExactInv
<1>1. CASE ReceiveBlock
  <2>1. lastHeight \in Heights /\ Block \in Heights /\ Block' = Block /\ lastHeight <= Block
    BY <1>1, <1>a, ChainShape DEF ReceiveBlock, Fed, Block
  <2>2. /\ BlockEnd[lastHeight] \in 0..NumTx /\ BlockEnd[Block] \in 0..NumTx
        /\ BlockEnd[lastHeight] <= BlockEnd[Block]
        /\ Spent(BlockEnd[lastHeight]) \subseteq Created(BlockEnd[lastHeight])
    BY <2>1, BlockEndFacts
  <2>3. AppliedSoFar' = AppliedSoFar
    BY <1>1 DEF ReceiveBlock, AppliedSoFar, SpentSoFar, UnspentAt, Unspent
  <2>4. View'
    BY <1>1, <1>a, <2>3 DEF ReceiveBlock, View, Pending
  <2>5. InBlock'
    <3>1. /\ UNCHANGED <<lastHeight, count>> /\ Block < count
          /\ cursor' = BlockEnd[lastHeight] /\ handled' = {} /\ deferred' = {}
      BY <1>1 DEF ReceiveBlock, Fed
    <3>2. SpentSoFar' = Spent(BlockEnd[lastHeight])
      BY <3>1 DEF SpentSoFar
    <3> QED
      BY <2>1, <2>2, <3>1, <3>2 DEF InBlock
  <2> QED
    BY <1>1, <1>a, <2>4, <2>5 DEF ReceiveBlock, AtRest, Caching, Order, InFlush
<1>2. CASE SpendInput
  <2>a. pc = "tx" /\ cursor < BlockEnd[Block] /\ stores' = stores
    BY <1>2 DEF SpendInput, InputsLeft
  <2>1. PICK o \in Vin[cursor + 1] \ handled :
           Found(o) /\ SpentUtxo(o) /\ handled' = handled \cup {o}
    BY <1>2 DEF SpendInput
  <2>2. o \notin SpentSoFar /\ o \notin deferred
    BY <1>a, <2>a, <2>1, BlockFacts DEF SpentSoFar, InBlock
  <2>3. /\ Pending(utxoDb', utxoSpent', utxoCache') = AppliedSoFar \ {o}
        /\ Pending(addrDb', addrSpent', addrCache') = AppliedSoFar \ {o}
        /\ addrCache' = utxoCache' /\ addrSpent' = utxoSpent'
        /\ utxoCache' \cap utxoSpent' = {}
        /\ utxoCache' \cap utxoDb' = {} /\ utxoSpent' \subseteq utxoDb'
        /\ o \in Created(cursor)
    BY <1>a, <2>a, <2>1, <2>2, BlockFacts, ExactSpend
  <2>4. UNCHANGED <<lastHeight, count, pc, cursor, deferred>> /\ Block' = Block
    BY <1>2 DEF SpendInput, Block
  <2>5. SpentSoFar' = SpentSoFar \cup {o}
    BY <2>1, <2>2, <2>4 DEF SpentSoFar
  <2>6. AppliedSoFar' = AppliedSoFar \ {o}
    BY <2>a, <2>4, <2>5 DEF AppliedSoFar
  <2>7. InBlock'
    BY <1>a, <2>a, <2>1, <2>3, <2>4, <2>5 DEF InBlock
  <2> QED
    BY <1>a, <2>a, <2>3, <2>4, <2>6, <2>7 DEF AtRest, Caching, Order, View, InFlush
<1>3. CASE DeferInput
  <2>a. pc = "tx" /\ cursor < BlockEnd[Block] /\ isBch
    BY <1>3 DEF DeferInput, InputsLeft
  <2>1. PICK o \in Vin[cursor + 1] \ handled :
           ~Found(o) /\ handled' = handled \cup {o} /\ deferred' = deferred \cup {o}
    BY <1>3 DEF DeferInput
  <2>2. o \notin SpentSoFar /\ o \notin deferred /\ o \in Created(BlockEnd[Block])
    BY <1>a, <2>a, <2>1, BlockFacts DEF SpentSoFar, InBlock
  <2>4. UNCHANGED <<caches, stores, lastHeight, count, pc, cursor>> /\ Block' = Block
    BY <1>3 DEF DeferInput, Block
  <2>5. SpentSoFar' = SpentSoFar
    BY <2>1, <2>2, <2>4, <1>a, <2>a, BlockFacts DEF SpentSoFar
  <2>6. AppliedSoFar' = AppliedSoFar
    BY <2>a, <2>4, <2>5 DEF AppliedSoFar
  <2>7. InBlock'
    BY <1>a, <2>a, <2>1, <2>2, <2>4, <2>5 DEF InBlock
  <2> QED
    BY <1>a, <2>a, <2>4, <2>6, <2>7 DEF AtRest, Caching, Order, View, InFlush
<1>4. CASE MissInput
  <2>a. pc = "tx" /\ cursor < BlockEnd[Block] /\ ~isBch
    BY <1>4 DEF MissInput, InputsLeft
  <2>1. PICK o \in Vin[cursor + 1] \ handled : ~Found(o)
    BY <1>4 DEF MissInput
  <2>2. o \in Created(cursor) /\ o \notin SpentSoFar
    BY <1>a, <2>a, <2>1, BlockFacts DEF SpentSoFar, InBlock
  <2>3. o \in Pending(utxoDb, utxoSpent, utxoCache)
    BY <1>a, <2>a, <2>2 DEF View, AppliedSoFar
  <2> QED
    BY <2>1, <2>3 DEF Pending, Found
<1>5. CASE AddOutputs
  <2>a. /\ pc = "tx" /\ cursor < BlockEnd[Block] /\ handled = Vin[cursor + 1]
        /\ utxoCache' = utxoCache \cup Vout[cursor + 1]
        /\ addrCache' = addrCache \cup Vout[cursor + 1]
        /\ cursor' = cursor + 1 /\ handled' = {}
        /\ UNCHANGED <<utxoSpent, addrSpent, stores, lastHeight, count, pc, deferred>>
        /\ Block' = Block
    BY <1>5 DEF AddOutputs, Block
  <2>1. /\ Created(cursor + 1) = Created(cursor) \cup Vout[cursor + 1]
        /\ Spent(cursor + 1) = Spent(cursor) \cup Vin[cursor + 1]
        /\ Vout[cursor + 1] \cap Created(cursor) = {}
    BY <1>a, <2>a, BlockFacts, NextTx
  <2>2. SpentSoFar' = SpentSoFar
    BY <2>a, <2>1 DEF SpentSoFar
  <2>3. AppliedSoFar' = AppliedSoFar \cup Vout[cursor + 1]
    BY <1>a, <2>a, <2>1, <2>2 DEF AppliedSoFar, InBlock
  <2>4. utxoDb \subseteq Created(cursor) /\ utxoSpent \subseteq utxoDb /\ utxoDb = addrDb
    BY <1>a, <2>a, BlockFacts DEF AtRest
  <2>5. View'
    BY <1>a, <2>a, <2>1, <2>3, <2>4 DEF View, Pending, Caching
  <2>6. InBlock'
    <3>1. cursor + 1 <= BlockEnd[Block] /\ BlockEnd[lastHeight] <= cursor + 1
      BY <1>a, <2>a, BlockFacts, BlockEndFacts DEF InBlock
    <3> QED
      BY <1>a, <2>a, <2>1, <2>2, <3>1 DEF InBlock
  <2> QED
    BY <1>a, <2>a, <2>1, <2>4, <2>5, <2>6 DEF AtRest, Caching, Order, InFlush
<1>6. CASE SettleInput
  <2>a. /\ pc = "tx" /\ cursor = BlockEnd[Block] /\ stores' = stores
        /\ UNCHANGED <<lastHeight, count, pc, cursor, handled>> /\ Block' = Block
    BY <1>6 DEF SettleInput, Block
  <2>1. PICK o \in deferred : /\ Found(o) => SpentUtxo(o)
                              /\ deferred' = deferred \ {o}
    BY <1>6 DEF SettleInput
  <2>2. o \notin SpentSoFar /\ o \in Created(cursor)
    BY <1>a, <2>a, <2>1 DEF SpentSoFar, InBlock
  <2>3. o \in Pending(utxoDb, utxoSpent, utxoCache)
    BY <1>a, <2>a, <2>2 DEF View, AppliedSoFar
  <2>4. Found(o) /\ SpentUtxo(o)
    BY <2>1, <2>3 DEF Pending, Found
  <2>5. /\ Pending(utxoDb', utxoSpent', utxoCache') = AppliedSoFar \ {o}
        /\ Pending(addrDb', addrSpent', addrCache') = AppliedSoFar \ {o}
        /\ addrCache' = utxoCache' /\ addrSpent' = utxoSpent'
        /\ utxoCache' \cap utxoSpent' = {}
        /\ utxoCache' \cap utxoDb' = {} /\ utxoSpent' \subseteq utxoDb'
    BY <1>a, <2>a, <2>2, <2>4, BlockFacts, ExactSpend
  <2>6. SpentSoFar' = SpentSoFar \cup {o}
    BY <1>a, <2>a, <2>1 DEF SpentSoFar, InBlock
  <2>7. AppliedSoFar' = AppliedSoFar \ {o}
    BY <2>a, <2>6 DEF AppliedSoFar
  <2>8. InBlock'
    BY <1>a, <2>a, <2>1, <2>2, <2>6 DEF InBlock
  <2> QED
    BY <1>a, <2>a, <2>5, <2>7, <2>8 DEF AtRest, Caching, Order, View, InFlush
<1>7. CASE FinishBlock
  <2>a. /\ pc = "tx" /\ cursor = BlockEnd[Block] /\ deferred = {} /\ handled = {}
        /\ lastHeight' = Block /\ pc' \in {"put", "idle"}
        /\ UNCHANGED <<caches, stores, count>>
    BY <1>7, <1>a, BlockFacts DEF FinishBlock, BlockDone, InBlock
  <2>1. AppliedSoFar' = AppliedSoFar
    BY <2>a DEF AppliedSoFar, SpentSoFar, UnspentAt, Unspent
  <2>2. lastHeight < Block
    BY DEF Block
  <2>3. Block < count
    BY <1>a, <2>a DEF InBlock
  <2> QED
    BY <1>a, <2>a, <2>1, <2>2, <2>3 DEF AtRest, Caching, Order, View, InBlock, InFlush
<1>8. CASE ReceiveExit
  <2>1. AppliedSoFar' = AppliedSoFar
    BY <1>8 DEF ReceiveExit, AppliedSoFar
  <2> QED
    BY <1>8, <1>a, <2>1 DEF ReceiveExit, AtRest, Caching, Order, View, InBlock, InFlush
<1> QED
  BY <1>1, <1>2, <1>3, <1>4, <1>5, <1>6, <1>7, <1>8 DEF HandleBlock

LEMMA ExactFlush ==
    ASSUME TypeOK, TypeOK', intact, intact', ExactInv, isBch' = isBch, FlushDb
    PROVE  ExactInv'
<1> USE DEF TypeOK, FlushSteps, caches, stores
<1>a. AtRest /\ Caching /\ Order /\ View /\ InBlock /\ InFlush
  BY DEF ExactInv
<1>b. SUFFICES AtRest' /\ Caching' /\ Order' /\ View' /\ InBlock' /\ InFlush'
  BY DEF ExactInv
<1>c. pc \in FlushSteps
  BY DEF FlushDb, FlushPutUtxo, FlushDeleteUtxo, FlushPutAddr, FlushDeleteAddr, FlushHeight
<1>d. /\ Pending(utxoDb, utxoSpent, utxoCache) = UnspentAt(lastHeight)
      /\ Pending(addrDb, addrSpent, addrCache) = UnspentAt(lastHeight)
  BY <1>a, <1>c DEF View, AppliedSoFar
<1>1. CASE FlushPutUtxo
  <2>1. PICK b \in SUBSET utxoCache : utxoDb' = utxoDb \cup b
    BY <1>1 DEF FlushPutUtxo, FlushNext
  <2>2. /\ pc = "put" /\ pc' \in {"put", "del"}
        /\ pc' = "del" => utxoCache \subseteq utxoDb'
        /\ UNCHANGED <<caches, addrDb, height, lastHeight, count>>
    BY <1>1 DEF FlushPutUtxo, FlushNext
  <2>3. Pending(utxoDb', utxoSpent, utxoCache) = Pending(utxoDb, utxoSpent, utxoCache)
    BY <2>1 DEF Pending
  <2> QED
    BY <1>a, <1>d, <2>2, <2>3
    DEF AtRest, Caching, Order, View, InBlock, InFlush, AppliedSoFar
<1>2. CASE FlushDeleteUtxo
  <2>1. PICK b \in SUBSET utxoSpent : utxoDb' = utxoDb \ b
    BY <1>2 DEF FlushDeleteUtxo, FlushNext
  <2>2. /\ pc = "del" /\ pc' \in {"del", "aput"}
        /\ pc' = "aput" => utxoSpent \cap utxoDb' = {}
        /\ UNCHANGED <<caches, addrDb, height, lastHeight, count>>
    BY <1>2 DEF FlushDeleteUtxo, FlushNext
  <2>3. Pending(utxoDb', utxoSpent, utxoCache) = Pending(utxoDb, utxoSpent, utxoCache)
    BY <2>1 DEF Pending
  <2>4. utxoCache \subseteq utxoDb'
    BY <1>a, <2>1, <2>2 DEF Caching, InFlush
  <2> QED
    BY <1>a, <1>d, <2>2, <2>3, <2>4
    DEF AtRest, Caching, Order, View, InBlock, InFlush, AppliedSoFar
<1>3. CASE FlushPutAddr
  <2>1. PICK b \in SUBSET addrCache : addrDb' = addrDb \cup b
    BY <1>3 DEF FlushPutAddr, FlushNext
  <2>2. /\ pc = "aput" /\ pc' \in {"aput", "adel"}
        /\ pc' = "adel" => addrCache \subseteq addrDb'
        /\ UNCHANGED <<caches, utxoDb, height, lastHeight, count>>
    BY <1>3 DEF FlushPutAddr, FlushNext
  <2>3. Pending(addrDb', addrSpent, addrCache) = Pending(addrDb, addrSpent, addrCache)
    BY <2>1 DEF Pending
  <2>4. addrDb' \subseteq UnspentAt(height) \cup UnspentAt(lastHeight)
    BY <1>a, <1>c, <1>d, <2>1 DEF InFlush, Pending
  <2> QED
    BY <1>a, <1>d, <2>1, <2>2, <2>3, <2>4
    DEF AtRest, Caching, Order, View, InBlock, InFlush, AppliedSoFar
<1>4. CASE FlushDeleteAddr
  <2>1. PICK b \in SUBSET addrSpent : addrDb' = addrDb \ b
    BY <1>4 DEF FlushDeleteAddr, FlushNext
  <2>2. /\ pc = "adel" /\ pc' \in {"adel", "height"}
        /\ pc' = "height" => addrSpent \cap addrDb' = {}
        /\ UNCHANGED <<caches, utxoDb, height, lastHeight, count>>
    BY <1>4 DEF FlushDeleteAddr, FlushNext
  <2>3. Pending(addrDb', addrSpent, addrCache) = Pending(addrDb, addrSpent, addrCache)
    BY <2>1 DEF Pending
  <2>4. addrCache \subseteq addrDb'
    BY <1>a, <2>1, <2>2 DEF Caching, InFlush
  <2> QED
    BY <1>a, <1>c, <1>d, <2>1, <2>2, <2>3, <2>4
    DEF AtRest, Caching, Order, View, InBlock, InFlush, AppliedSoFar
<1>5. CASE FlushHeight
  <2>1. utxoDb = UnspentAt(lastHeight) /\ addrDb = UnspentAt(lastHeight)
    BY <1>5, <1>a, <1>d DEF FlushHeight, InFlush, Pending
  <2>2. /\ height' = lastHeight /\ pc' \in {"idle", "main"}
        /\ utxoCache' = {} /\ utxoSpent' = {} /\ addrCache' = {} /\ addrSpent' = {}
        /\ UNCHANGED <<utxoDb, addrDb, lastHeight, count>>
    BY <1>5 DEF FlushHeight
  <2>3. View'
    BY <2>1, <2>2 DEF View, Pending, AppliedSoFar
  <2> QED
    BY <1>a, <1>c, <2>1, <2>2, <2>3 DEF AtRest, Caching, Order, InBlock, InFlush
<1> QED
  BY <1>1, <1>2, <1>3, <1>4, <1>5 DEF FlushDb

LEMMA ExactRest ==
    ASSUME TypeOK, TypeOK', intact, intact', ExactInv, FastEnd, isBch' = isBch,
           Main \/ Signal \/ Kill \/ UNCHANGED vars
    PROVE  ExactInv'
<1> USE DEF TypeOK, FlushSteps, caches, stores
<1>a. AtRest /\ Caching /\ Order /\ View /\ InBlock /\ InFlush
  BY DEF ExactInv
<1>b. SUFFICES AtRest' /\ Caching' /\ Order' /\ View' /\ InBlock' /\ InFlush'
  BY DEF ExactInv
<1>1. CASE Boot
  <2>1. height < count' /\ lastHeight' = height /\ pc' = "idle" /\ pc = "off"
    BY <1>1 DEF Boot
  <2>2. UNCHANGED <<caches, stores>>
    BY <1>1 DEF Boot
  <2>3. View'
    BY <1>a, <2>1, <2>2 DEF View, Pending, AppliedSoFar, AtRest, Caching
  <2> QED
    BY <1>a, <2>1, <2>2, <2>3 DEF AtRest, Caching, Order, InBlock, InFlush
<1>2. CASE NewBlocks
  <2>1. count < count'
    BY <1>2 DEF NewBlocks
  <2>2. UNCHANGED <<caches, stores, lastHeight, pc, cursor, handled, deferred>>
    BY <1>2 DEF NewBlocks
  <2>3. AppliedSoFar' = AppliedSoFar /\ SpentSoFar' = SpentSoFar /\ Block' = Block
    BY <2>2 DEF AppliedSoFar, SpentSoFar, Block
  <2>4. Block \in Nat
    BY DEF Block
  <2> QED
    BY <1>a, <2>1, <2>2, <2>3, <2>4 DEF AtRest, Caching, Order, View, InBlock, InFlush
<1>3. CASE MainFlush
  <2>1. pc = "main" /\ pc' = "put" /\ UNCHANGED <<caches, stores, lastHeight, count>>
    BY <1>3, <1>a DEF MainFlush, Order
  <2>2. AppliedSoFar' = AppliedSoFar
    BY <2>1 DEF AppliedSoFar
  <2> QED
    BY <1>a, <2>1, <2>2 DEF AtRest, Caching, Order, View, InBlock, InFlush
<1>4. CASE StartLow
  <2>1. lastHeight' = count - 1 /\ pc = "main" /\ pc' = "idle"
        /\ UNCHANGED <<caches, stores, count>>
    BY <1>4 DEF StartLow, ResumeHeight
  <2>2. lastHeight' = lastHeight
    BY <1>4, <1>a, <2>1 DEF StartLow, ResumeHeight, FastEnd, Order
  <2>3. AppliedSoFar' = AppliedSoFar
    BY <2>1, <2>2 DEF AppliedSoFar
  <2> QED
    BY <1>a, <2>1, <2>2, <2>3 DEF AtRest, Caching, Order, View, InBlock, InFlush
<1>5. CASE Close
  <2>1. pc = "main" /\ UNCHANGED stores /\ LoseMemory
    BY <1>5, <1>a DEF Close, Order
  <2> QED
    BY <1>a, <2>1 DEF LoseMemory, AtRest, Caching, Order, View, InBlock, InFlush
<1>6. CASE Signal \/ UNCHANGED vars
  <2>1. UNCHANGED <<caches, stores, lastHeight, count, pc, cursor, handled, deferred>>
    BY <1>6 DEF Signal, vars, control
  <2>2. AppliedSoFar' = AppliedSoFar /\ SpentSoFar' = SpentSoFar /\ Block' = Block
    BY <2>1 DEF AppliedSoFar, SpentSoFar, Block
  <2> QED
    BY <1>a, <2>1, <2>2 DEF AtRest, Caching, Order, View, InBlock, InFlush
<1>7. CASE Kill
  <2>1. pc \notin FlushSteps /\ UNCHANGED stores /\ LoseMemory
    BY <1>7 DEF Kill
  <2> QED
    BY <1>a, <2>1 DEF LoseMemory, AtRest, Caching, Order, View, InBlock, InFlush
<1> QED
  BY <1>1, <1>2, <1>3, <1>4, <1>5, <1>6, <1>7 DEF Main

LEMMA ExactStep ==
    ASSUME TypeOK, TypeOK', ExactInv, FastEnd, [Next]_vars
    PROVE  ExactInv'
<1>1. CASE ~intact'
  BY <1>1 DEF ExactInv
<1>2. CASE intact'
  <2>1. intact /\ isBch' = isBch
    BY <1>2 DEF Next, Main, HandleBlock, FlushDb, Boot, NewBlocks, MainFlush, StartLow,
       Close, ReceiveBlock, SpendInput, DeferInput, MissInput, AddOutputs, SettleInput,
       FinishBlock, ReceiveExit, FlushPutUtxo, FlushDeleteUtxo, FlushPutAddr,
       FlushDeleteAddr, FlushHeight, Signal, Kill, vars
  <2> QED
    BY <1>2, <2>1, ExactHandle, ExactFlush, ExactRest DEF Next
<1> QED
  BY <1>1, <1>2

\* While no kill falls inside flush_db (and no start meets a node that lags):
\* the stores at rest are exactly the unspent outputs of the stored height;
\* stores and caches stand for the chain applied so far at every step; no
\* query ever sees a payment vanish; and no input is ever reported missing.
THEOREM IndexCorrect == Spec => []Exact
<1>1. Init => ExactInv /\ (SpentOnly /\ KeptInv /\ FastEnd)
  BY ExactInit, LostInit
<1>2. /\ TypeOK /\ TypeOK' /\ ExactInv /\ (SpentOnly /\ KeptInv /\ FastEnd)
      /\ [Next]_vars
      => ExactInv' /\ (SpentOnly /\ KeptInv /\ FastEnd)'
  BY ExactStep, LostStep DEF LostInv
<1>3. TypeOK /\ ExactInv => Exact
  <2> SUFFICES ASSUME TypeOK, intact, AtRest, Caching, Order, View, InFlush
               PROVE  ViewExact /\ RestExact /\ NoPaymentVanishes /\ NoFalseHalt
    BY DEF ExactInv, Exact, ViewExact, RestExact, NoPaymentVanishes, NoFalseHalt
  <2>1. ViewExact /\ RestExact /\ NoFalseHalt
    BY DEF ViewExact, RestExact, NoFalseHalt, View, AtRest, Order
  <2>2. NoPaymentVanishes
    <3>1. CASE pc \in {"adel", "height"}
      <4>1. AppliedSoFar = UnspentAt(lastHeight)
        BY <3>1 DEF AppliedSoFar
      <4>2. UnspentAt(lastHeight) \subseteq addrDb
        BY <3>1, <4>1 DEF View, Pending, InFlush
      <4> QED
        BY <3>1, <4>2 DEF NoPaymentVanishes, InFlush, FlushSteps
    <3>2. CASE pc \in {"put", "del", "aput"}
      BY <3>2 DEF NoPaymentVanishes, InFlush, FlushSteps
    <3>3. CASE pc \notin FlushSteps
      BY <3>3 DEF NoPaymentVanishes, AtRest
    <3> QED
      BY <3>1, <3>2, <3>3 DEF FlushSteps
  <2> QED
    BY <2>1, <2>2
<1> QED
  BY <1>1, <1>2, <1>3, TypeCorrect, PTL DEF Spec

-----------------------------------------------------------------------------
(* The index implements the ledger.                                        *)

\* What the ledger sees as its outputs are those of the stored height, and the
\* stored height only changes when a flush ends, forward.
LEMMA LedgerStep ==
    ASSUME TypeOK, TypeOK', intact, intact', ExactInv, ExactInv', [Next]_vars
    PROVE  [Ledger!LedgerNext]_(Ledger!ledgerVars)
<1> DEFINE listed == IF pc \in FlushSteps THEN UnspentAt(height) ELSE addrDb
<1>1. listed = UnspentAt(height) /\ listed' = UnspentAt(height')
  BY DEF ExactInv, AtRest, UnspentAt, Unspent
<1>2. CASE FlushHeight
  <2>1. height' = lastHeight /\ height <= lastHeight /\ lastHeight \in Heights
    BY <1>2 DEF FlushHeight, ExactInv, Order, TypeOK
  <2>2. CASE height = lastHeight
    BY <1>1, <2>1, <2>2 DEF Ledger!ledgerVars
  <2>3. CASE height < lastHeight
    <3>1. Ledger!Commit(lastHeight)
      BY <1>1, <2>1, <2>3 DEF Ledger!Commit, Ledger!UnspentAt, Ledger!Unspent,
         Ledger!Created, Ledger!Spent, UnspentAt, Unspent, Created, Spent
    <3> QED
      BY <2>1, <3>1 DEF Ledger!LedgerNext, Ledger!Heights
  <2> QED
    BY <2>1, <2>2, <2>3 DEF TypeOK
<1>3. CASE ~FlushHeight
  <2>1. height' = height
    BY <1>3 DEF Next, Main, HandleBlock, FlushDb, Boot, NewBlocks, MainFlush, StartLow,
       Close, ReceiveBlock, SpendInput, DeferInput, MissInput, AddOutputs, SettleInput,
       FinishBlock, ReceiveExit, FlushPutUtxo, FlushDeleteUtxo, FlushPutAddr,
       FlushDeleteAddr, Signal, Kill, vars, stores
  <2> QED
    BY <1>1, <2>1 DEF Ledger!ledgerVars
<1> QED
  BY <1>2, <1>3

\* As long as no kill falls inside a flush, the index looks, to a reader at rest
\* and to a restart, like a ledger that commits whole blocks in order.
THEOREM IndexImplementsLedger == Spec => ImplementsLedger
<1>1. Init => ExactInv /\ (SpentOnly /\ KeptInv /\ FastEnd) /\ TypeOK
  <2>1. Init => TypeOK
    BY Zeros DEF Init, TypeOK, Steps, FlushSteps
  <2> QED
    BY <2>1, ExactInit, LostInit DEF Init
<1>2. /\ TypeOK /\ TypeOK' /\ ExactInv /\ (SpentOnly /\ KeptInv /\ FastEnd)
      /\ [Next]_vars
      => ExactInv' /\ (SpentOnly /\ KeptInv /\ FastEnd)'
  BY ExactStep, LostStep DEF LostInv
<1>3. [Next]_vars => (intact' => intact)
  BY DEF Next, Main, HandleBlock, FlushDb, Boot, NewBlocks, MainFlush, StartLow,
     Close, ReceiveBlock, SpendInput, DeferInput, MissInput, AddOutputs, SettleInput,
     FinishBlock, ReceiveExit, FlushPutUtxo, FlushDeleteUtxo, FlushPutAddr,
     FlushDeleteAddr, FlushHeight, Signal, Kill, vars, stores
<1>4. Init => Ledger!LedgerInit
  BY DEF Init, Ledger!LedgerInit, FlushSteps
<1>5. /\ TypeOK /\ TypeOK' /\ ExactInv /\ ExactInv' /\ [Next]_vars
      => [intact' => Ledger!LedgerNext]_(Ledger!ledgerVars)
  BY <1>3, LedgerStep
<1> QED
  BY <1>1, <1>2, <1>4, <1>5, TypeCorrect, PTL DEF Spec, ImplementsLedger

-----------------------------------------------------------------------------
(* The service on top of the index.                                        *)

IndexInv == TypeOK /\ ExactInv /\ SpentOnly /\ KeptInv /\ FastEnd

LEMMA IndexAlways == Spec => []IndexInv
<1>1. Init => ExactInv /\ (SpentOnly /\ KeptInv /\ FastEnd)
  BY ExactInit, LostInit
<1>2. /\ TypeOK /\ TypeOK' /\ ExactInv /\ (SpentOnly /\ KeptInv /\ FastEnd)
      /\ [Next]_vars
      => ExactInv' /\ (SpentOnly /\ KeptInv /\ FastEnd)'
  BY ExactStep, LostStep DEF LostInv
<1>3. TypeOK /\ ExactInv /\ (SpentOnly /\ KeptInv /\ FastEnd) => IndexInv
  BY DEF IndexInv
<1> QED
  BY <1>1, <1>2, <1>3, TypeCorrect, PTL DEF Spec

\* The index goes on as if nobody asked.
LEMMA ServiceRunsIndex == ServiceSpec => Spec
<1>1. ServiceInit => Init
  BY DEF ServiceInit
<1>2. [ServiceNext]_serviceVars => [Next]_vars
  BY DEF ServiceNext, Rpc, GetBlockHeight, ListUnSpent, GetBalance, serviceVars
<1> QED
  BY <1>1, <1>2, PTL DEF ServiceSpec, Spec

\* The stored height moves forward only, and what is lost stays lost.
LEMMA Forward ==
    ASSUME IndexInv, IndexInv', [Next]_vars, intact'
    PROVE  intact /\ height <= height'
<1>1. intact
  BY DEF Next, Main, HandleBlock, FlushDb, Boot, NewBlocks, MainFlush, StartLow,
     Close, ReceiveBlock, SpendInput, DeferInput, MissInput, AddOutputs, SettleInput,
     FinishBlock, ReceiveExit, FlushPutUtxo, FlushDeleteUtxo, FlushPutAddr,
     FlushDeleteAddr, FlushHeight, Signal, Kill, vars, stores
<1>2. height \in Nat
  BY ChainShape DEF IndexInv, TypeOK
<1>3. CASE FlushHeight
  BY <1>1, <1>3 DEF FlushHeight, IndexInv, ExactInv, Order
<1>4. CASE ~FlushHeight
  <2>1. height' = height
    BY <1>4 DEF Next, Main, HandleBlock, FlushDb, Boot, NewBlocks, MainFlush, StartLow,
       Close, ReceiveBlock, SpendInput, DeferInput, MissInput, AddOutputs, SettleInput,
       FinishBlock, ReceiveExit, FlushPutUtxo, FlushDeleteUtxo, FlushPutAddr,
       FlushDeleteAddr, Signal, Kill, vars, stores
  <2>2. height <= height
    BY <1>2
  <2> QED
    BY <1>1, <2>1, <2>2
<1> QED
  BY <1>1, <1>3, <1>4

\* What a list made now has to do with an earlier height that the client knows.
LEMMA ListedNow ==
    ASSUME IndexInv, intact, pc # "off", Exact, NEW h \in Heights, h <= height
    PROVE  /\ addrDb \subseteq Created(BlockEnd[lastHeight]) \ Spent(BlockEnd[h])
           /\ UnspentAt(h) \ Spent(BlockEnd[lastHeight]) \subseteq addrDb
<1>1. h <= height /\ height <= lastHeight /\ height \in Heights /\ lastHeight \in Heights
  BY DEF IndexInv, ExactInv, Order, TypeOK
<1>2. /\ BlockEnd[h] \in 0..NumTx /\ BlockEnd[height] \in 0..NumTx
      /\ BlockEnd[lastHeight] \in 0..NumTx
      /\ BlockEnd[h] <= BlockEnd[height] /\ BlockEnd[height] <= BlockEnd[lastHeight]
  BY <1>1, BlockEndFacts
<1>3. /\ Created(BlockEnd[h]) \subseteq Created(BlockEnd[height])
      /\ Created(BlockEnd[height]) \subseteq Created(BlockEnd[lastHeight])
      /\ Spent(BlockEnd[h]) \subseteq Spent(BlockEnd[height])
      /\ Spent(BlockEnd[height]) \subseteq Spent(BlockEnd[lastHeight])
  BY <1>2, CreatedMonotone, SpentMonotone
<1>4. /\ UnspentAt(height) \subseteq addrDb \/ UnspentAt(lastHeight) \subseteq addrDb
      /\ addrDb \subseteq UnspentAt(height) \cup UnspentAt(lastHeight)
  BY DEF Exact, NoPaymentVanishes
<1>5. /\ UnspentAt(height) = Created(BlockEnd[height]) \ Spent(BlockEnd[height])
      /\ UnspentAt(lastHeight) = Created(BlockEnd[lastHeight]) \ Spent(BlockEnd[lastHeight])
      /\ UnspentAt(h) = Created(BlockEnd[h]) \ Spent(BlockEnd[h])
  BY DEF UnspentAt, Unspent
<1> QED
  BY <1>3, <1>4, <1>5

\* The client knows a height that was stored, and its last list fits that.
ClientInv == intact => seen \in Heights /\ seen <= height /\ ListSpendable /\ ListComplete

LEMMA ClientStep ==
    ASSUME IndexInv, IndexInv', Exact, ClientInv, [ServiceNext]_serviceVars
    PROVE  ClientInv'
<1> SUFFICES ASSUME intact'
             PROVE  (seen \in Heights /\ seen <= height /\ ListSpendable /\ ListComplete)'
  BY DEF ClientInv
<1>1. [Next]_vars
  BY DEF ServiceNext, Rpc, GetBlockHeight, ListUnSpent, GetBalance, serviceVars
<1>2. intact /\ height <= height'
  BY <1>1, Forward
<1>3. seen \in Heights /\ seen <= height /\ ListSpendable /\ ListComplete
  BY <1>2 DEF ClientInv
<1>4. height \in Heights /\ height' \in Heights
  BY DEF IndexInv, TypeOK
<1>5. CASE UNCHANGED <<seen, reply>>
  <2>1. seen \in Nat /\ height \in Nat /\ height' \in Nat
    BY <1>3, <1>4, ChainShape
  <2>2. seen' \in Heights /\ seen' <= height'
    BY <1>2, <1>3, <1>5, <2>1
  <2> QED
    BY <1>2, <1>3, <1>5, <2>2 DEF ListSpendable, ListComplete
<1>6. CASE GetBlockHeight
  <2>1. seen' = height /\ height' = height /\ reply' = reply
    BY <1>6 DEF GetBlockHeight, vars, stores
  <2>2. seen' \in Heights /\ seen' <= height'
    BY <1>4, <2>1, ChainShape
  <2> QED
    BY <1>2, <1>3, <2>1, <2>2 DEF ListSpendable, ListComplete
<1>7. CASE GetBalance
  <2>1. PICK a \in Addr :
           reply' = [call |-> "balance", addr |-> a, total |-> Worth(Owned(a, addrDb)),
                     from |-> height, upto |-> lastHeight]
    BY <1>7 DEF GetBalance
  <2>2. seen' = seen /\ height' = height /\ reply'.call # "list"
    BY <1>7, <2>1 DEF GetBalance, vars, stores
  <2> QED
    BY <1>3, <2>2 DEF ListSpendable, ListComplete
<1>8. CASE ListUnSpent
  <2>0. PICK a \in Addr : \E outs \in Lists(a) :
           reply' = [call |-> "list", addr |-> a, outs |-> outs,
                     seen |-> seen, upto |-> lastHeight]
    BY <1>8 DEF ListUnSpent
  <2>1. PICK outs \in Lists(a) :
           reply' = [call |-> "list", addr |-> a, outs |-> outs,
                     seen |-> seen, upto |-> lastHeight]
    BY <2>0
  <2>2. seen' = seen /\ height' = height /\ pc # "off"
    BY <1>8 DEF ListUnSpent, Serving, vars, stores
  <2>3. /\ reply'.addr = a /\ reply'.outs = outs /\ reply'.seen = seen /\ reply'.upto = lastHeight
    BY <2>1
  <2>4. /\ addrDb \subseteq Created(BlockEnd[lastHeight]) \ Spent(BlockEnd[seen])
        /\ UnspentAt(seen) \ Spent(BlockEnd[lastHeight]) \subseteq addrDb
    BY <1>2, <1>3, <2>2, ListedNow
  <2>5. outs \subseteq Listable(a) /\ (outs = Listable(a) \/ Cardinality(outs) = ListCap)
    BY DEF Lists
  <2>6. ListSpendable'
    BY <2>3, <2>4, <2>5 DEF ListSpendable, Listable, Owned, CoinsOf
  <2>7. ASSUME Cardinality(outs) < ListCap
        PROVE  outs = Listable(a)
    BY <2>5, <2>7, WalletAssumption
  <2>8. ListComplete'
    BY <2>3, <2>4, <2>7 DEF ListComplete, Listable, Owned, CoinsOf
  <2> QED
    BY <1>3, <2>2, <2>6, <2>8
<1> QED
  BY <1>5, <1>6, <1>7, <1>8 DEF ServiceNext, Rpc, serviceVars

\* The height and the coins are in different stores, are read in different calls,
\* and blocks are flushed and collectors restarted in between.  Still no list offers
\* a coin that the client could know to be spent, and one that has room leaves no
\* coin out.
THEOREM CoinsListedRight == ServiceSpec => []ListExact
<1>1. ServiceInit => ClientInv
  BY ChainShape, Zeros DEF ServiceInit, Init, ClientInv, ListSpendable, ListComplete, NoReply
<1>2. IndexInv /\ IndexInv' /\ Exact /\ ClientInv /\ [ServiceNext]_serviceVars => ClientInv'
  BY ClientStep
<1>3. Exact /\ ClientInv => ListExact
  BY DEF ClientInv, ListExact, ListSpendable, ListComplete
<1> QED
  BY <1>1, <1>2, <1>3, ServiceRunsIndex, IndexAlways, IndexCorrect, PTL DEF ServiceSpec

-----------------------------------------------------------------------------
(* Balances.                                                               *)

\* The worth of coins is a number that grows with their set.
LEMMA WorthGrows ==
    ASSUME NEW outs \in SUBSET Output, NEW some \in SUBSET outs
    PROVE  Worth(some) \in Nat /\ Worth(outs) \in Nat /\ Worth(some) <= Worth(outs)
<1>1. IsFiniteSet(outs) /\ \A o \in outs : Amount[o] \in Nat
  BY WalletAssumption, FS_Subset
<1>2. Worth(some) = SumOf(Amount, some) /\ Worth(outs) = SumOf(Amount, outs)
  BY DEF Worth, SumOf
<1> QED
  BY <1>1, <1>2, SumOfGrows

\* A balance that is read now fits the two heights it is read between.
LEMMA BalanceNow ==
    ASSUME IndexInv, intact, pc # "off", Exact, NEW a \in Addr
    PROVE  LET total == Worth(Owned(a, addrDb))
               old   == CoinsOf(a, UnspentAt(height))
               new   == CoinsOf(a, UnspentAt(lastHeight))
           IN  /\ total >= Worth(old) \/ total >= Worth(new)
               /\ total <= Worth(old \cup new)
<1> DEFINE mine == Owned(a, addrDb)
           old  == CoinsOf(a, UnspentAt(height))
           new  == CoinsOf(a, UnspentAt(lastHeight))
<1>1. /\ UnspentAt(height) \subseteq addrDb \/ UnspentAt(lastHeight) \subseteq addrDb
      /\ addrDb \subseteq UnspentAt(height) \cup UnspentAt(lastHeight)
  BY DEF Exact, NoPaymentVanishes
<1>2. /\ old \subseteq mine \/ new \subseteq mine
      /\ mine \subseteq old \cup new
  BY <1>1 DEF Owned, CoinsOf
<1>3. old \cup new \in SUBSET Output
  <2>1. height \in Heights /\ lastHeight \in Heights
    BY DEF IndexInv, TypeOK
  <2>2. BlockEnd[height] \in 0..NumTx /\ BlockEnd[lastHeight] \in 0..NumTx
    BY <2>1, BlockEndFacts
  <2> QED
    BY <2>2, ChainTyped DEF CoinsOf, UnspentAt, Unspent
<1> HIDE DEF mine, old, new
<1>4. /\ mine \in SUBSET Output
      /\ old \in SUBSET mine \/ new \in SUBSET mine
      /\ mine \in SUBSET (old \cup new)
  BY <1>2, <1>3
<1>5. /\ Worth(mine) \in Nat /\ Worth(mine) <= Worth(old \cup new)
  BY <1>3, <1>4, WorthGrows
<1>6. ASSUME NEW some \in SUBSET mine PROVE Worth(mine) >= Worth(some)
  <2>1. Worth(some) \in Nat /\ Worth(mine) \in Nat /\ Worth(some) <= Worth(mine)
    BY <1>4, WorthGrows
  <2> QED
    BY <2>1
<1> QED
  BY <1>4, <1>5, <1>6 DEF mine, old, new

LEMMA BalanceStep ==
    ASSUME IndexInv, IndexInv', Exact, BalanceInBounds, [ServiceNext]_serviceVars
    PROVE  BalanceInBounds'
<1> SUFFICES ASSUME intact', (reply.call = "balance")'
             PROVE  (LET old == CoinsOf(reply.addr, UnspentAt(reply.from))
                         new == CoinsOf(reply.addr, UnspentAt(reply.upto))
                     IN  /\ reply.total >= Worth(old) \/ reply.total >= Worth(new)
                         /\ reply.total <= Worth(old \cup new))'
  BY DEF BalanceInBounds
<1>1. [Next]_vars
  BY DEF ServiceNext, Rpc, GetBlockHeight, ListUnSpent, GetBalance, serviceVars
<1>2. intact
  BY <1>1, Forward
<1>3. CASE UNCHANGED reply
  BY <1>2, <1>3 DEF BalanceInBounds
<1>4. CASE ListUnSpent
  <2>1. (reply.call = "list")'
    BY <1>4 DEF ListUnSpent
  <2> QED
    BY <2>1
<1>5. CASE GetBalance
  <2>1. PICK a \in Addr :
           reply' = [call |-> "balance", addr |-> a, total |-> Worth(Owned(a, addrDb)),
                     from |-> height, upto |-> lastHeight]
    BY <1>5 DEF GetBalance
  <2>2. /\ (reply.addr)' = a /\ (reply.total)' = Worth(Owned(a, addrDb))
        /\ (reply.from)' = height /\ (reply.upto)' = lastHeight
    BY <2>1
  <2>3. pc # "off"
    BY <1>5 DEF GetBalance, Serving
  <2> QED
    BY <1>2, <2>2, <2>3, BalanceNow
<1> QED
  BY <1>3, <1>4, <1>5 DEF ServiceNext, Rpc, GetBlockHeight, serviceVars

\* A balance is summed up from one snapshot of addrDb, also in the middle of a
\* flush.  It is never less than what the address had at both heights, nor more than
\* the coins of the two: money that moves to a new coin is not missed meanwhile.
THEOREM BalancesBetweenHeights == ServiceSpec => []BalanceInBounds
<1>1. ServiceInit => BalanceInBounds
  BY DEF ServiceInit, BalanceInBounds, NoReply
<1>2. IndexInv /\ IndexInv' /\ Exact /\ BalanceInBounds /\ [ServiceNext]_serviceVars
      => BalanceInBounds'
  BY BalanceStep
<1> QED
  BY <1>1, <1>2, ServiceRunsIndex, IndexAlways, IndexCorrect, PTL DEF ServiceSpec
=============================================================================
