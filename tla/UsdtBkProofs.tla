---------------------------- MODULE UsdtBkProofs ----------------------------
(***************************************************************************)
(* Proofs about the two smaller Bitcoin-side collectors.  For              *)
(* UsdtCollector, with any chain, any queue and batch size and any number  *)
(* of restarts:                                                            *)
(*   UsdtCorrect        Spec => []UsdtInv, the inductive invariant         *)
(*   UsdtStoredExact    Spec => []StoredExact: the tables agree with the   *)
(*                      sync number                                        *)
(*   UsdtImplementsLog  Spec => ImplementsTransferLog                      *)
(* For BkCollector, with any number of contracts, any window and any       *)
(* number of restarts:                                                     *)
(*   RoundCorrect       BkSpec => []RoundInv, the inductive invariant      *)
(*   BookCorrect        BkSpec => []BookSound: a book that is out of date  *)
(*                      is read again, and never mixes two times           *)
(*   BookOnlyReplaced   BkSpec => RemovedOnceRead: when the rows of a      *)
(*                      contract go their replacement is in memory         *)
(***************************************************************************)
EXTENDS UsdtCollector, BkCollector, FiniteSetTheorems, SequenceTheorems, TLAPS

-----------------------------------------------------------------------------
(* The inductive invariant: until a request is left without a result, the  *)
(* blocks on their way from the node to the tables have consecutive        *)
(* numbers, the first of which is the last committed block or the next one.*)

Collecting == producer \in {"poll", "join"}

\* The number of the first block no greenlet has fetched for the queue.
Unqueued == IF producer = "join" THEN startId ELSE nextNum

\* The number of the first block of the queue; of the first that is not handed to a
\* flush thread; of the first that is not in the tables.
QueueFirst == Unqueued - Len(queue)
HandFirst  == IF consumer = "flush" THEN QueueFirst - 1 ELSE QueueFirst
First      == IF flushes # {} THEN HandFirst - 1 ELSE HandFirst

\* What each thread has at each step, and that they start and end together.
ThreadInv ==
    /\ producer = "off" <=> consumer = "off"
    /\ ~Collecting => queue = <<>> /\ flushes = {} /\ consumer \in {"off", "get"}
    /\ producer # "join" => running = {}
    /\ \A f, g \in flushes : f = g
    /\ consumer = "dead" => silent

\* The greenlets of a batch are for the blocks of the batch, each for one of them.
BatchInv ==
    /\ producer = "join" =>
         /\ startId < nextNum /\ nextNum - startId <= CollectThread
         /\ Len(queue) <= QueueCap
         /\ running \cup datas \subseteq startId..(nextNum - 1)
         /\ ~silent => running \cup datas = startId..(nextNum - 1)

\* Nothing is fetched of a block that may be replaced, and nothing recorded but what
\* its block holds.
ConfirmedInv ==
    /\ nextNum = 0 \/ nextNum <= Latest
    /\ syncNum = 0 \/ syncNum < Latest
    /\ \A k \in 1..Len(queue) : queue[k] < Latest
    /\ consumer = "flush" => inHand.num < Latest /\ inHand.rows = Recorded(inHand.num)
    /\ \A f \in flushes : f.num < Latest /\ f.rows = Recorded(f.num)
    /\ \A r \in Row : rows[r] > 0 => r.block < Latest /\ r \in Recorded(r.block)

\* Until a request is left without a result, the blocks on their way have consecutive
\* numbers, the first of which is the last committed block or the next one.
NumberInv ==
    ~silent /\ Collecting =>
        /\ First = syncNum \/ First = syncNum + 1
        /\ \A k \in 1..Len(queue) : queue[k] = QueueFirst + k - 1
        /\ consumer = "flush" => inHand.num = QueueFirst - 1
        /\ \A f \in flushes : f.num = HandFirst - 1

\* The transfers of a block are all in the tables, once; or none is.
RowsIn(h)  == \A r \in Row : r.block = h => rows[r] = IF r \in Recorded(h) THEN 1 ELSE 0
RowsOut(h) == \A r \in Row : r.block = h => rows[r] = 0

\* What a flush thread has written.
Written(f) ==
    \A r \in Row : r.block = f.num =>
        rows[r] = IF r \in f.rows /\ \/ r.kind = "deposit" /\ f.step \in {"withdraw", "config"}
                                     \/ r.kind = "withdraw" /\ f.step = "config"
                  THEN 1 ELSE 0

RowsInv ==
    ~silent =>
      /\ Collecting =>
           /\ \A h \in Heights : h < First => RowsIn(h)
           /\ \A h \in Heights : h > First \/ (h = First /\ flushes = {}) => RowsOut(h)
           /\ \A f \in flushes : Written(f)
      /\ ~Collecting =>
           /\ \A h \in Heights : h < syncNum => RowsIn(h)
           /\ \A h \in Heights : h > syncNum + 1 => RowsOut(h)

UsdtInv ==
    /\ TypeOK /\ ThreadInv /\ BatchInv /\ ConfirmedInv /\ NumberInv /\ RowsInv

-----------------------------------------------------------------------------
USE DEF Heights

LEMMA Constants ==
    /\ Top \in Nat /\ Safe \in Nat /\ Safe <= Top /\ QueueCap \in Nat
    /\ CollectThread \in Nat /\ CollectThread > 0 /\ MaxBoots \in Nat
    /\ Watched \subseteq Addr /\ \A h \in Heights : Txs[h] \subseteq Tx
BY UsdtAssumption

LEMMA RecordedRows ==
    ASSUME NEW h \in Heights
    PROVE  /\ Recorded(h) \subseteq Row
           /\ \A r \in Recorded(h) : r.block = h
<1>1. ASSUME NEW tx \in Txs[h], KindOf(tx) # "nothing"
      PROVE  KindOf(tx) \in {"deposit", "withdraw"}
  <2>1. tx \in Tx
    BY Constants
  <2>2. tx.valid \in BOOLEAN /\ ({tx.from, tx.to} \cap Watched # {} =>
                                    tx.from \in Watched \/ tx.to \in Watched)
    BY <2>1 DEF Tx
  <2> QED
    BY <1>1, <2>2 DEF KindOf
<1>2. ASSUME NEW r \in Recorded(h)
      PROVE  r \in Row /\ r.block = h
  <2>1. PICK tx \in Txs[h] : /\ KindOf(tx) # "nothing"
                             /\ r = [block |-> h, kind |-> KindOf(tx), tx |-> tx]
    BY DEF Recorded
  <2>2. tx \in UNION {Txs[k] : k \in Heights}
    OBVIOUS
  <2> QED
    BY <1>1, <2>1, <2>2 DEF Row
<1> QED
  BY <1>2

LEMMA Numbers ==
    ASSUME UsdtInv
    PROVE  /\ Len(queue) \in Nat /\ head \in Nat /\ head <= Top
           /\ nextNum \in Nat /\ syncNum \in Nat /\ startId \in Nat
           /\ Latest \in Int /\ Latest <= head /\ Latest <= Top - Safe
           /\ Unqueued \in Int /\ QueueFirst \in Int /\ HandFirst \in Int /\ First \in Int
           /\ First <= HandFirst /\ HandFirst <= QueueFirst /\ QueueFirst <= Unqueued
           /\ QueueFirst - 1 <= HandFirst /\ HandFirst - 1 <= First
           /\ Unqueued <= nextNum
<1>1. Len(queue) \in Nat /\ head \in 0..Top /\ nextNum \in 0..(Top - Safe) /\ syncNum \in 0..Top
      /\ startId \in 0..Top
  BY LenProperties DEF UsdtInv, TypeOK
<1>2. Latest \in Int /\ Latest <= head /\ Latest <= Top - Safe
  BY <1>1, Constants DEF Latest
<1>3. producer = "join" => startId < nextNum
  BY DEF UsdtInv, BatchInv
<1>4. Unqueued \in Int /\ Unqueued <= nextNum
  BY <1>1, <1>3, Constants DEF Unqueued
<1> QED
  BY <1>1, <1>2, <1>4, Constants DEF QueueFirst, HandFirst, First

LEMMA FlushNumber ==
    ASSUME UsdtInv, NEW f \in flushes
    PROVE  /\ Collecting /\ flushes = {f} /\ f \in Writing
           /\ f.num \in Heights /\ f.num < Latest
           /\ f.rows = Recorded(f.num) /\ f.rows \subseteq Row
           /\ \A r \in f.rows : r.block = f.num
           /\ ~silent => f.num = First /\ HandFirst = First + 1
<1>1. Collecting /\ flushes = {f} /\ f \in Writing
  BY DEF UsdtInv, ThreadInv, TypeOK
<1>2. f.num \in Heights /\ f.num < Latest /\ f.rows = Recorded(f.num)
  BY <1>1 DEF UsdtInv, ConfirmedInv, Writing
<1>3. f.rows \subseteq Row /\ \A r \in f.rows : r.block = f.num
  BY <1>2, RecordedRows
<1>4. ~silent => f.num = First /\ HandFirst = First + 1
  <2>1. ~silent => f.num = HandFirst - 1
    BY <1>1 DEF UsdtInv, NumberInv
  <2>2. First = HandFirst - 1 /\ HandFirst \in Int
    BY <1>1, Numbers DEF First
  <2> QED
    BY <2>1, <2>2
<1> QED
  BY <1>1, <1>2, <1>3, <1>4

LEMMA OneFlush ==
    ASSUME NEW F, \A f, g \in F : f = g
    PROVE  IsFiniteSet(F) /\ Cardinality(F) <= 1
<1>1. CASE F = {}
  BY <1>1, FS_EmptySet
<1>2. CASE F # {}
  <2>1. PICK f \in F : TRUE
    BY <1>2
  <2>2. F = {f}
    BY <2>1
  <2>3. IsFiniteSet({f}) /\ Cardinality({f}) = 1
    BY FS_Singleton
  <2>4. 1 <= 1
    OBVIOUS
  <2> QED
    BY <2>2, <2>3, <2>4
<1> QED
  BY <1>1, <1>2

-----------------------------------------------------------------------------
(* The steps.                                                              *)

\* Steps that leave the tables alone.
LEMMA TablesKept ==
    ASSUME UsdtInv, UNCHANGED <<rows, syncNum>>, silent => silent',
           Collecting' = Collecting, Collecting => First' = First,
           flushes' = flushes
    PROVE  RowsInv'
<1>1. \A h \in Heights : RowsIn(h)' = RowsIn(h) /\ RowsOut(h)' = RowsOut(h)
  BY DEF RowsIn, RowsOut
<1>2. \A f \in flushes : Written(f)' = Written(f)
  BY DEF Written
<1> QED
  BY <1>1, <1>2 DEF RowsInv, UsdtInv

LEMMA InitUsdt == Init => UsdtInv
<1> SUFFICES ASSUME Init PROVE UsdtInv
  OBVIOUS
<1>1. /\ head = 0 /\ syncNum = 0 /\ rows = [r \in Row |-> 0]
      /\ producer = "off" /\ nextNum = 0 /\ startId = 0 /\ running = {} /\ datas = {}
      /\ queue = <<>> /\ consumer = "off" /\ inHand = NoBlock
      /\ flushes = {} /\ boots = 0 /\ silent = FALSE
  BY DEF Init
<1>2. queue \in Seq(Heights) /\ Len(queue) = 0
  BY <1>1, EmptySeq
<1>3. TypeOK
  <2>1. 0 \in Heights /\ 0 \in 0..(Top - Safe) /\ 0 \in 0..MaxBoots /\ 0 <= QueueCap + CollectThread
    BY Constants
  <2>2. NoBlock \in Batch
    BY <2>1 DEF NoBlock, Batch
  <2>3. flushes \subseteq Writing /\ Cardinality(flushes) <= 1
    BY <1>1, FS_EmptySet
  <2>4. rows \in [Row -> Nat]
    BY <1>1
  <2> QED
    BY <1>1, <1>2, <2>1, <2>2, <2>3, <2>4 DEF TypeOK
<1>4. ~Collecting
  BY <1>1 DEF Collecting
<1>5. ThreadInv /\ BatchInv /\ NumberInv
  BY <1>1, <1>4 DEF ThreadInv, BatchInv, NumberInv
<1>6. ConfirmedInv
  BY <1>1, <1>2 DEF ConfirmedInv
<1>7. RowsInv
  BY <1>1, <1>4, Constants DEF RowsInv, RowsOut
<1> QED
  BY <1>3, <1>5, <1>6, <1>7 DEF UsdtInv

LEMMA GrowStep == ASSUME UsdtInv, Grow PROVE UsdtInv'
<1>1. head' = head + 1 /\ head' \in Heights /\ Latest' = Latest + 1 /\ Latest \in Int
  <2>1. head \in Nat /\ head < Top /\ head' = head + 1
    BY Numbers DEF Grow
  <2>2. head' \in Heights
    BY <2>1, Constants
  <2> QED
    BY <2>1, <2>2, Constants DEF Latest
<1>2. /\ UNCHANGED <<syncNum, rows, producer, nextNum, startId, running, datas, queue>>
      /\ UNCHANGED <<consumer, inHand, flushes, boots, silent>>
  BY DEF Grow, mongo, fetching, handling
<1>3. TypeOK'
  BY <1>1, <1>2 DEF UsdtInv, TypeOK
<1>4. Collecting' = Collecting /\ QueueFirst' = QueueFirst /\ HandFirst' = HandFirst
      /\ First' = First
  BY <1>2 DEF Collecting, First, HandFirst, QueueFirst, Unqueued
<1>5. ThreadInv' /\ BatchInv' /\ NumberInv'
  BY <1>2, <1>4 DEF UsdtInv, ThreadInv, BatchInv, NumberInv
<1>6. ConfirmedInv'
  <2>1. \A n \in Heights : n < Latest => n < Latest'
    BY <1>1
  <2>2. \A k \in 1..Len(queue) : queue[k] \in Heights
    BY ElementOfSeq DEF UsdtInv, TypeOK
  <2>3. inHand.num \in Heights /\ (\A f \in flushes : f.num \in Heights)
        /\ \A r \in Row : r.block \in Heights
    BY DEF UsdtInv, TypeOK, Batch, Writing, Row
  <2>4. nextNum = 0 \/ nextNum <= Latest'
    BY <1>1, Numbers DEF UsdtInv, ConfirmedInv
  <2>5. syncNum \in Heights
    BY DEF UsdtInv, TypeOK
  <2> QED
    BY <1>2, <2>1, <2>2, <2>3, <2>4, <2>5 DEF UsdtInv, ConfirmedInv
<1>7. RowsInv'
  BY <1>2, <1>4, TablesKept
<1> QED
  BY <1>3, <1>5, <1>6, <1>7 DEF UsdtInv

LEMMA BootStep == ASSUME UsdtInv, Boot PROVE UsdtInv'
<1>1. /\ producer = "off" /\ producer' = "clear" /\ consumer' = "get" /\ boots' = boots + 1
      /\ boots < MaxBoots
      /\ UNCHANGED <<head, syncNum, rows, nextNum, startId, running, datas, queue, inHand>>
      /\ UNCHANGED <<flushes, silent>>
  BY DEF Boot, mongo
<1>2. boots' \in 0..MaxBoots
  BY <1>1, Constants DEF UsdtInv, TypeOK
<1>3. TypeOK'
  BY <1>1, <1>2 DEF UsdtInv, TypeOK
<1>4. ~Collecting /\ ~Collecting' /\ Latest' = Latest
  BY <1>1 DEF Collecting, Latest
<1>5. ThreadInv' /\ BatchInv' /\ NumberInv'
  BY <1>1, <1>4 DEF UsdtInv, ThreadInv, BatchInv, NumberInv
<1>6. ConfirmedInv'
  BY <1>1, <1>4 DEF UsdtInv, ConfirmedInv
<1>7. RowsInv'
  BY <1>1, <1>4, TablesKept DEF Collecting
<1> QED
  BY <1>3, <1>5, <1>6, <1>7 DEF UsdtInv

\* Whatever was in hand is gone; what is in the tables stays.
LEMMA KillStep == ASSUME UsdtInv, Kill PROVE UsdtInv'
<1>1. /\ producer' = "off" /\ nextNum' = 0 /\ startId' = 0 /\ running' = {} /\ datas' = {}
      /\ queue' = <<>> /\ consumer' = "off" /\ inHand' = NoBlock /\ flushes' = {}
      /\ UNCHANGED <<head, syncNum, rows, boots, silent>>
  BY DEF Kill, mongo
<1>2. queue' \in Seq(Heights) /\ Len(queue') = 0
  BY <1>1, EmptySeq
<1>3. TypeOK'
  <2>1. 0 \in Heights /\ 0 \in 0..(Top - Safe) /\ 0 <= QueueCap + CollectThread
    BY Constants
  <2>2. NoBlock \in Batch
    BY <2>1 DEF NoBlock, Batch
  <2>3. flushes' \subseteq Writing /\ Cardinality(flushes') <= 1
    BY <1>1, FS_EmptySet
  <2> QED
    BY <1>1, <1>2, <2>1, <2>2, <2>3 DEF UsdtInv, TypeOK
<1>4. ~Collecting' /\ Latest' = Latest
  BY <1>1 DEF Collecting, Latest
<1>5. ThreadInv' /\ BatchInv' /\ NumberInv'
  BY <1>1, <1>4 DEF UsdtInv, ThreadInv, BatchInv, NumberInv
<1>6. ConfirmedInv'
  BY <1>1, <1>2, <1>4 DEF UsdtInv, ConfirmedInv
<1>7. RowsInv'
  <2>1. \A h \in Heights : RowsIn(h)' = RowsIn(h) /\ RowsOut(h)' = RowsOut(h)
    BY <1>1 DEF RowsIn, RowsOut
  <2>2. ~silent /\ Collecting => First = syncNum \/ First = syncNum + 1
    BY DEF UsdtInv, NumberInv
  <2>3. ASSUME ~silent
        PROVE  /\ \A h \in Heights : h < syncNum => RowsIn(h)
               /\ \A h \in Heights : h > syncNum + 1 => RowsOut(h)
    <3>1. CASE Collecting
      <4>1. \A h \in Heights : /\ h < syncNum => h < First
                               /\ h > syncNum + 1 => h > First
        BY <2>2, <2>3, <3>1, Numbers
      <4> QED
        BY <2>3, <3>1, <4>1 DEF UsdtInv, RowsInv
    <3>2. CASE ~Collecting
      BY <2>3, <3>2 DEF UsdtInv, RowsInv
    <3> QED
      BY <3>1, <3>2
  <2> QED
    BY <1>1, <1>4, <2>1, <2>3 DEF RowsInv
<1> QED
  BY <1>3, <1>5, <1>6, <1>7 DEF UsdtInv

\* A new process takes out what it is going to collect again.
LEMMA ClearStep == ASSUME UsdtInv, ClearGarbage PROVE UsdtInv'
<1>1. /\ producer = "clear" /\ producer' = "poll" /\ nextNum' = syncNum
      /\ rows' = [r \in Row |-> IF r.block >= syncNum THEN 0 ELSE rows[r]]
      /\ UNCHANGED <<head, syncNum, startId, running, datas, queue, consumer, inHand>>
      /\ UNCHANGED <<flushes, boots, silent>>
  BY DEF ClearGarbage, handling
<1>2. ~Collecting /\ Collecting' /\ queue = <<>> /\ flushes = {} /\ consumer = "get"
  BY <1>1 DEF Collecting, UsdtInv, ThreadInv
<1>3. syncNum \in 0..(Top - Safe) /\ (syncNum = 0 \/ syncNum < Latest)
  BY Numbers, Constants DEF UsdtInv, ConfirmedInv
<1>4. TypeOK'
  <2>1. rows' \in [Row -> Nat]
    BY <1>1 DEF UsdtInv, TypeOK
  <2> QED
    BY <1>1, <1>3, <2>1 DEF UsdtInv, TypeOK
<1>5. Len(queue) = 0 /\ Latest' = Latest
  BY <1>1, <1>2, EmptySeq DEF Latest
<1>6. First' = syncNum
  BY <1>1, <1>2, <1>3, <1>5 DEF First, HandFirst, QueueFirst, Unqueued
<1>7. ThreadInv' /\ BatchInv'
  BY <1>1, <1>2 DEF UsdtInv, ThreadInv, BatchInv
<1>8. ConfirmedInv'
  <2>1. \A r \in Row : rows'[r] > 0 => rows[r] > 0
    BY <1>1
  <2>2. nextNum' = 0 \/ nextNum' <= Latest
    BY <1>1, <1>3, Numbers
  <2> QED
    BY <1>1, <1>2, <1>5, <2>1, <2>2 DEF UsdtInv, ConfirmedInv
<1>9. NumberInv'
  BY <1>1, <1>2, <1>5, <1>6 DEF NumberInv
<1>10. RowsInv'
  <2>1. ASSUME ~silent, NEW h \in Heights, h < syncNum
        PROVE  RowsIn(h)'
    <3>1. RowsIn(h)
      BY <1>2, <2>1 DEF UsdtInv, RowsInv
    <3>2. \A r \in Row : r.block = h => rows'[r] = rows[r]
      BY <1>1, <1>3, <2>1
    <3> QED
      BY <3>1, <3>2 DEF RowsIn
  <2>2. ASSUME NEW h \in Heights, h >= syncNum
        PROVE  RowsOut(h)'
    BY <1>1, <2>2 DEF RowsOut
  <2>3. \A h \in Heights : h > First' \/ h = First' => h >= syncNum
    BY <1>3, <1>6
  <2> QED
    BY <1>1, <1>2, <1>6, <2>1, <2>2, <2>3 DEF RowsInv
<1> QED
  BY <1>4, <1>7, <1>8, <1>9, <1>10 DEF UsdtInv

LEMMA BatchSizeFacts ==
    ASSUME UsdtInv, nextNum < Latest
    PROVE  /\ BatchSize \in Nat /\ BatchSize > 0 /\ BatchSize <= CollectThread
           /\ nextNum + BatchSize <= Latest
BY Numbers, Constants DEF BatchSize

LEMMA SpawnStep == ASSUME UsdtInv, Spawn PROVE UsdtInv'
<1>1. /\ producer = "poll" /\ nextNum < Latest /\ Len(queue) <= QueueCap
      /\ startId' = nextNum /\ nextNum' = nextNum + BatchSize
      /\ running' = nextNum..(nextNum + BatchSize - 1) /\ datas' = {} /\ producer' = "join"
      /\ UNCHANGED <<head, syncNum, rows, queue, consumer, inHand, flushes, boots, silent>>
  BY DEF Spawn, mongo, handling
<1>2. /\ BatchSize \in Nat /\ BatchSize > 0 /\ BatchSize <= CollectThread
      /\ nextNum + BatchSize <= Latest
  BY <1>1, BatchSizeFacts
<1>3. nextNum \in Nat /\ Latest <= Top - Safe /\ Latest \in Int
  BY Numbers
<1>4. nextNum' \in 0..(Top - Safe) /\ startId' \in Heights /\ running' \subseteq Heights
  BY <1>1, <1>2, <1>3, Constants
<1>5. TypeOK'
  BY <1>1, <1>4 DEF UsdtInv, TypeOK
<1>6. Collecting /\ Collecting' /\ Latest' = Latest
  BY <1>1 DEF Collecting, Latest
<1>7. QueueFirst' = QueueFirst
  BY <1>1 DEF QueueFirst, Unqueued
<1>8. HandFirst' = HandFirst /\ First' = First
  BY <1>1, <1>7 DEF HandFirst, First
<1>9. ThreadInv'
  BY <1>1, <1>6 DEF UsdtInv, ThreadInv
<1>10. BatchInv'
  <2>1. startId' < nextNum' /\ nextNum' - startId' <= CollectThread
    BY <1>1, <1>2, <1>3, Constants
  <2>2. running' \cup datas' = startId'..(nextNum' - 1)
    <3>1. nextNum' - 1 = nextNum + BatchSize - 1
      BY <1>1, <1>2, <1>3
    <3> QED
      BY <1>1, <3>1
  <2> QED
    BY <1>1, <2>1, <2>2 DEF BatchInv
<1>11. ConfirmedInv'
  BY <1>1, <1>2, <1>6 DEF UsdtInv, ConfirmedInv
<1>12. NumberInv'
  BY <1>1, <1>6, <1>7, <1>8 DEF UsdtInv, NumberInv
<1>13. RowsInv'
  BY <1>1, <1>6, <1>8, TablesKept DEF Collecting
<1> QED
  BY <1>5, <1>9, <1>10, <1>11, <1>12, <1>13 DEF UsdtInv

LEMMA GreenletStep == ASSUME UsdtInv, NEW h \in running, Greenlet(h) PROVE UsdtInv'
<1>1. /\ running' = running \ {h}
      /\ \/ datas' = datas \cup {h} /\ silent' = silent
         \/ silent' = TRUE /\ datas' = datas
      /\ UNCHANGED <<head, syncNum, rows, producer, nextNum, startId, queue, consumer, inHand>>
      /\ UNCHANGED <<flushes, boots>>
  BY DEF Greenlet, mongo, handling
<1>2. producer = "join"
  BY DEF UsdtInv, ThreadInv
<1>3. TypeOK'
  BY <1>1 DEF UsdtInv, TypeOK
<1>4. Collecting /\ Collecting' /\ Latest' = Latest /\ QueueFirst' = QueueFirst
  BY <1>1, <1>2 DEF Collecting, Latest, QueueFirst, Unqueued
<1>5. HandFirst' = HandFirst /\ First' = First /\ (silent => silent')
  BY <1>1, <1>4 DEF HandFirst, First
<1>6. ThreadInv'
  BY <1>1, <1>2, <1>4 DEF UsdtInv, ThreadInv
<1>7. BatchInv'
  <2>1. running' \cup datas' \subseteq running \cup datas
    BY <1>1
  <2>2. ~silent' => running' \cup datas' = running \cup datas
    BY <1>1
  <2> QED
    BY <1>1, <1>5, <2>1, <2>2 DEF UsdtInv, BatchInv
<1>8. ConfirmedInv'
  BY <1>1, <1>4 DEF UsdtInv, ConfirmedInv
<1>9. NumberInv'
  BY <1>1, <1>4, <1>5 DEF UsdtInv, NumberInv
<1>10. RowsInv'
  BY <1>1, <1>4, <1>5, TablesKept DEF Collecting
<1> QED
  BY <1>3, <1>6, <1>7, <1>8, <1>9, <1>10 DEF UsdtInv

\* The queue after a batch that is whole, and with its blocks one by one.
LEMMA Joined ==
    ASSUME UsdtInv, producer = "join"
    PROVE  /\ queue \o Batched \in Seq(Heights)
           /\ Len(queue \o Batched) = Len(queue) + (nextNum - startId)
           /\ \A k \in 1..Len(queue) : (queue \o Batched)[k] = queue[k]
           /\ \A k \in (Len(queue) + 1)..(Len(queue) + (nextNum - startId)) :
                 (queue \o Batched)[k] = startId + (k - Len(queue)) - 1
<1> DEFINE n == nextNum - startId
<1>1. n \in Nat /\ startId \in Nat /\ nextNum \in Nat /\ nextNum <= Top
  <2>1. startId \in Nat /\ nextNum \in Nat /\ startId < nextNum
    BY Numbers DEF UsdtInv, BatchInv
  <2>2. nextNum <= Top
    BY Constants DEF UsdtInv, TypeOK
  <2> QED
    BY <2>1, <2>2
<1>2. Batched = [k \in 1..n |-> startId + k - 1]
  BY DEF Batched
<1>3. \A k \in 1..n : startId + k - 1 \in Heights
  BY <1>1, Constants
<1> HIDE DEF n
<1>4. Batched \in Seq(Heights) /\ Len(Batched) = n /\ \A k \in 1..n : Batched[k] = startId + k - 1
  BY <1>1, <1>2, <1>3
<1>5. queue \in Seq(Heights) /\ Len(queue) \in Nat
  BY LenProperties DEF UsdtInv, TypeOK
<1>6. /\ queue \o Batched \in Seq(Heights)
      /\ Len(queue \o Batched) = Len(queue) + Len(Batched)
      /\ \A k \in 1..(Len(queue) + Len(Batched)) :
           (queue \o Batched)[k] = IF k <= Len(queue) THEN queue[k] ELSE Batched[k - Len(queue)]
  BY <1>4, <1>5, ConcatProperties
<1>7. ASSUME NEW k \in (Len(queue) + 1)..(Len(queue) + n)
      PROVE  (queue \o Batched)[k] = startId + (k - Len(queue)) - 1
  <2>1. k \in 1..(Len(queue) + Len(Batched)) /\ ~(k <= Len(queue)) /\ k - Len(queue) \in 1..n
    BY <1>1, <1>4, <1>5
  <2> QED
    BY <1>4, <1>6, <2>1
<1>8. \A k \in 1..Len(queue) : (queue \o Batched)[k] = queue[k]
  BY <1>1, <1>4, <1>5, <1>6
<1> QED
  BY <1>4, <1>6, <1>7, <1>8 DEF n

LEMMA JoinStep == ASSUME UsdtInv, JoinAll PROVE UsdtInv'
<1>1. /\ producer = "join" /\ running = {} /\ producer' = "poll"
      /\ queue' = IF Cardinality(datas) = nextNum - startId THEN queue \o Batched ELSE queue
      /\ startId' = 0 /\ datas' = {}
      /\ UNCHANGED <<head, syncNum, rows, nextNum, running, consumer, inHand, flushes>>
      /\ UNCHANGED <<boots, silent>>
  BY DEF JoinAll, mongo, handling
<1>2. /\ Len(queue) \in Nat /\ nextNum \in Nat /\ startId \in Nat /\ startId < nextNum
      /\ nextNum - startId <= CollectThread /\ Len(queue) <= QueueCap
      /\ syncNum \in Nat /\ Latest \in Int
  BY <1>1, Numbers DEF UsdtInv, BatchInv
<1>3. nextNum <= Latest
  BY <1>2 DEF UsdtInv, ConfirmedInv
<1>4. ~silent => queue' = queue \o Batched
  <2> SUFFICES ASSUME ~silent PROVE Cardinality(datas) = nextNum - startId
    BY <1>1
  <2>1. datas = startId..(nextNum - 1)
    BY <1>1 DEF UsdtInv, BatchInv
  <2>2. Cardinality(startId..(nextNum - 1)) = (nextNum - 1) - startId + 1
    BY <1>2, FS_Interval
  <2> QED
    BY <1>2, <2>1, <2>2
<1>5. queue' \in Seq(Heights) /\ Len(queue') <= QueueCap + CollectThread
  <2>1. queue \in Seq(Heights)
    BY DEF UsdtInv, TypeOK
  <2>2. CASE queue' = queue
    BY <1>2, <2>1, <2>2, Constants
  <2>3. CASE queue' = queue \o Batched
    <3>1. queue' \in Seq(Heights) /\ Len(queue') = Len(queue) + (nextNum - startId)
      BY <1>1, <2>3, Joined
    <3> QED
      BY <1>2, <3>1, Constants
  <2> QED
    BY <1>1, <2>2, <2>3
<1>6. TypeOK'
  BY <1>1, <1>5, Constants DEF UsdtInv, TypeOK
<1>7. Collecting /\ Collecting' /\ Latest' = Latest
  BY <1>1 DEF Collecting, Latest
<1>8. \A k \in 1..Len(queue') : queue'[k] < Latest
  <2>1. \A k \in 1..Len(queue) : queue[k] < Latest
    BY DEF UsdtInv, ConfirmedInv
  <2>2. CASE queue' = queue
    BY <2>1, <2>2
  <2>3. ASSUME queue' = queue \o Batched, NEW k \in 1..Len(queue')
        PROVE  queue'[k] < Latest
    <3>1. Len(queue') = Len(queue) + (nextNum - startId)
      BY <1>1, <2>3, Joined
    <3>2. CASE k <= Len(queue)
      <4>1. k \in 1..Len(queue) /\ queue'[k] = queue[k]
        BY <1>1, <1>2, <2>3, <3>2, Joined
      <4> QED
        BY <2>1, <4>1
    <3>3. CASE k > Len(queue)
      <4>1. k \in (Len(queue) + 1)..(Len(queue) + (nextNum - startId))
        BY <1>2, <2>3, <3>1, <3>3
      <4>2. queue'[k] = startId + (k - Len(queue)) - 1
        BY <1>1, <2>3, <4>1, Joined
      <4> QED
        BY <1>2, <1>3, <4>1, <4>2
    <3> QED
      BY <1>2, <3>2, <3>3
  <2> QED
    BY <1>1, <2>2, <2>3
<1>9. ThreadInv' /\ BatchInv'
  BY <1>1, <1>7 DEF UsdtInv, ThreadInv, BatchInv
<1>10. ConfirmedInv'
  BY <1>1, <1>7, <1>8 DEF UsdtInv, ConfirmedInv
<1>11. ASSUME ~silent
       PROVE  /\ QueueFirst' = QueueFirst
              /\ \A k \in 1..Len(queue') : queue'[k] = QueueFirst + k - 1
  <2>1. Len(queue') = Len(queue) + (nextNum - startId)
    BY <1>1, <1>4, <1>11, Joined
  <2>2. QueueFirst = startId - Len(queue)
    BY <1>1 DEF QueueFirst, Unqueued
  <2>3. QueueFirst' = nextNum - Len(queue')
    BY <1>1 DEF QueueFirst, Unqueued
  <2>4. \A k \in 1..Len(queue) : queue[k] = QueueFirst + k - 1
    BY <1>7, <1>11 DEF UsdtInv, NumberInv
  <2>5. ASSUME NEW k \in 1..Len(queue')
        PROVE  queue'[k] = QueueFirst + k - 1
    <3>1. CASE k <= Len(queue)
      <4>1. k \in 1..Len(queue) /\ queue'[k] = queue[k]
        BY <1>1, <1>2, <1>4, <1>11, <3>1, Joined
      <4> QED
        BY <2>4, <4>1
    <3>2. CASE k > Len(queue)
      <4>1. k \in (Len(queue) + 1)..(Len(queue) + (nextNum - startId))
        BY <1>2, <2>1, <3>2
      <4>2. queue'[k] = startId + (k - Len(queue)) - 1
        BY <1>1, <1>4, <1>11, <4>1, Joined
      <4> QED
        BY <1>2, <2>2, <4>1, <4>2
    <3> QED
      BY <1>2, <3>1, <3>2
  <2> QED
    BY <1>2, <2>1, <2>2, <2>3, <2>5
<1>12. ~silent => HandFirst' = HandFirst /\ First' = First
  BY <1>1, <1>11 DEF HandFirst, First
<1>13. NumberInv'
  BY <1>1, <1>7, <1>11, <1>12 DEF UsdtInv, NumberInv
<1>14. RowsInv'
  <2>1. CASE silent
    BY <1>1, <2>1 DEF RowsInv
  <2>2. CASE ~silent
    BY <1>1, <1>7, <1>12, <2>2, TablesKept DEF Collecting
  <2> QED
    BY <2>1, <2>2
<1> QED
  BY <1>6, <1>9, <1>10, <1>13, <1>14 DEF UsdtInv

LEMMA GetStep == ASSUME UsdtInv, Get PROVE UsdtInv'
<1>1. /\ consumer = "get" /\ queue # <<>> /\ queue' = Tail(queue)
      /\ \/ /\ inHand' = [num |-> Head(queue), rows |-> Recorded(Head(queue))]
            /\ consumer' = "flush" /\ silent' = silent
         \/ consumer' = "dead" /\ silent' = TRUE /\ inHand' = inHand
      /\ UNCHANGED <<head, syncNum, rows, producer, nextNum, startId, running, datas>>
      /\ UNCHANGED <<flushes, boots>>
  BY DEF Get, mongo, fetching
<1>2. /\ queue \in Seq(Heights) /\ Len(queue) \in Nat \ {0}
      /\ queue' \in Seq(Heights) /\ Len(queue') = Len(queue) - 1
      /\ \A k \in 1..Len(queue') : queue'[k] = queue[k + 1]
      /\ Head(queue) = queue[1] /\ Head(queue) \in Heights
  <2>1. queue \in Seq(Heights) /\ queue # <<>>
    BY <1>1 DEF UsdtInv, TypeOK
  <2>2. /\ Tail(queue) \in Seq(Heights) /\ Len(Tail(queue)) = Len(queue) - 1
        /\ Head(queue) \in Heights
        /\ \A k \in 1..Len(Tail(queue)) : Tail(queue)[k] = queue[k + 1]
        /\ Len(queue) \in Nat \ {0}
    BY <2>1, HeadTailProperties, EmptySeq
  <2>3. Head(queue) = queue[1]
    OBVIOUS
  <2> QED
    BY <1>1, <2>1, <2>2, <2>3
<1>3. inHand' \in Batch
  <2>1. Recorded(Head(queue)) \subseteq Row
    BY <1>2, RecordedRows
  <2>2. [num |-> Head(queue), rows |-> Recorded(Head(queue))] \in Batch
    BY <1>2, <2>1 DEF Batch
  <2> QED
    BY <1>1, <2>2 DEF UsdtInv, TypeOK
<1>4. Len(queue') <= QueueCap + CollectThread
  BY <1>2, Constants DEF UsdtInv, TypeOK
<1>5. TypeOK'
  BY <1>1, <1>2, <1>3, <1>4 DEF UsdtInv, TypeOK
<1>6. Collecting /\ Collecting' /\ Latest' = Latest
  <2>1. Collecting
    BY <1>1 DEF UsdtInv, ThreadInv
  <2> QED
    BY <1>1, <2>1 DEF Collecting, Latest
<1>7. QueueFirst' = QueueFirst + 1 /\ QueueFirst \in Int
  <2>1. Unqueued' = Unqueued /\ Unqueued \in Int
    BY <1>1, Numbers DEF Unqueued
  <2> QED
    BY <1>2, <2>1 DEF QueueFirst
<1>8. consumer' = "flush" => HandFirst' = HandFirst /\ First' = First
  BY <1>1, <1>7 DEF HandFirst, First
<1>9. ThreadInv'
  BY <1>1, <1>6 DEF UsdtInv, ThreadInv, Collecting
<1>10. BatchInv'
  BY <1>1, <1>2, Constants DEF UsdtInv, BatchInv
<1>11. ConfirmedInv'
  <2>1. \A k \in 1..Len(queue') : k + 1 \in 1..Len(queue)
    BY <1>2
  <2>2. 1 \in 1..Len(queue)
    BY <1>2
  <2>3. (\A k \in 1..Len(queue') : queue'[k] < Latest) /\ Head(queue) < Latest
    BY <1>2, <2>1, <2>2 DEF UsdtInv, ConfirmedInv
  <2>4. consumer' = "flush" => inHand'.num < Latest /\ inHand'.rows = Recorded(inHand'.num)
    BY <1>1, <2>3
  <2> QED
    BY <1>1, <1>6, <2>3, <2>4 DEF UsdtInv, ConfirmedInv
<1>12. NumberInv'
  <2> SUFFICES ASSUME ~silent' PROVE NumberInv'
    BY DEF NumberInv
  <2>1. consumer' = "flush" /\ inHand'.num = Head(queue) /\ ~silent
    BY <1>1
  <2>2. \A k \in 1..Len(queue) : queue[k] = QueueFirst + k - 1
    BY <1>6, <2>1 DEF UsdtInv, NumberInv
  <2>3. ASSUME NEW k \in 1..Len(queue')
        PROVE  queue'[k] = QueueFirst' + k - 1
    <3>1. k + 1 \in 1..Len(queue)
      BY <1>2
    <3>2. queue'[k] = QueueFirst + (k + 1) - 1
      BY <1>2, <2>2, <3>1
    <3> QED
      BY <1>7, <3>2
  <2>4. inHand'.num = QueueFirst' - 1
    <3>1. 1 \in 1..Len(queue) /\ Head(queue) = queue[1]
      BY <1>2
    <3>2. queue[1] = QueueFirst + 1 - 1
      BY <2>2, <3>1
    <3> QED
      BY <1>7, <2>1, <3>1, <3>2
  <2>5. (First' = syncNum \/ First' = syncNum + 1) /\ \A f \in flushes : f.num = HandFirst' - 1
    BY <1>6, <1>8, <2>1 DEF UsdtInv, NumberInv
  <2> QED
    BY <1>1, <2>3, <2>4, <2>5 DEF NumberInv
<1>13. RowsInv'
  <2>1. CASE silent'
    BY <2>1 DEF RowsInv
  <2>2. CASE ~silent'
    BY <1>1, <1>6, <1>8, <2>2, TablesKept DEF Collecting
  <2> QED
    BY <2>1, <2>2
<1> QED
  BY <1>5, <1>9, <1>10, <1>11, <1>12, <1>13 DEF UsdtInv

LEMMA StartFlushStep == ASSUME UsdtInv, StartFlush PROVE UsdtInv'
<1>1. /\ consumer = "flush" /\ flushes = {}
      /\ flushes' = {[num |-> inHand.num, rows |-> inHand.rows, step |-> "deposit"]}
      /\ inHand' = NoBlock /\ consumer' = "get"
      /\ UNCHANGED <<head, syncNum, rows, producer, nextNum, startId, running, datas, queue>>
      /\ UNCHANGED <<boots, silent>>
  BY DEF StartFlush, mongo, fetching
<1>2. inHand.num \in Heights /\ inHand.rows \subseteq Row
  BY DEF UsdtInv, TypeOK, Batch
<1>3. PICK f \in Writing :
        flushes' = {f} /\ f.num = inHand.num /\ f.rows = inHand.rows /\ f.step = "deposit"
  <2> DEFINE e == [num |-> inHand.num, rows |-> inHand.rows, step |-> "deposit"]
  <2>1. e \in Writing
    BY <1>2 DEF Writing
  <2>2. flushes' = {e} /\ e.num = inHand.num /\ e.rows = inHand.rows /\ e.step = "deposit"
    BY <1>1
  <2> HIDE DEF e
  <2> QED
    BY <2>1, <2>2
<1>4. TypeOK'
  <2>1. NoBlock \in Batch
    BY Constants DEF NoBlock, Batch
  <2>2. flushes' \subseteq Writing /\ Cardinality(flushes') <= 1
    BY <1>1, <1>3, OneFlush
  <2> QED
    BY <1>1, <2>1, <2>2 DEF UsdtInv, TypeOK
<1>5. Collecting /\ Collecting' /\ Latest' = Latest
  <2>1. Collecting
    BY <1>1 DEF UsdtInv, ThreadInv
  <2> QED
    BY <1>1, <2>1 DEF Collecting, Latest
<1>6. /\ QueueFirst' = QueueFirst /\ QueueFirst \in Int
      /\ HandFirst = QueueFirst - 1 /\ HandFirst' = QueueFirst
      /\ First = HandFirst /\ First' = First
  <2>1. QueueFirst' = QueueFirst /\ QueueFirst \in Int
    BY <1>1, Numbers DEF QueueFirst, Unqueued
  <2>2. HandFirst = QueueFirst - 1 /\ HandFirst' = QueueFirst
    BY <1>1, <2>1 DEF HandFirst
  <2>3. First = HandFirst /\ First' = HandFirst' - 1
    BY <1>1 DEF First
  <2> QED
    BY <2>1, <2>2, <2>3
<1>7. ThreadInv' /\ BatchInv'
  BY <1>1, <1>5 DEF UsdtInv, ThreadInv, BatchInv, Collecting
<1>8. ConfirmedInv'
  BY <1>1, <1>3, <1>5 DEF UsdtInv, ConfirmedInv
<1>9. NumberInv'
  <2> SUFFICES ASSUME ~silent PROVE NumberInv'
    BY <1>1 DEF NumberInv
  <2>1. f.num = HandFirst' - 1
    BY <1>1, <1>3, <1>5, <1>6 DEF UsdtInv, NumberInv
  <2>2. First' = syncNum \/ First' = syncNum + 1
    BY <1>5, <1>6 DEF UsdtInv, NumberInv
  <2>3. \A k \in 1..Len(queue) : queue[k] = QueueFirst + k - 1
    BY <1>5 DEF UsdtInv, NumberInv
  <2> QED
    BY <1>1, <1>3, <1>6, <2>1, <2>2, <2>3 DEF NumberInv
<1>10. RowsInv'
  <2> SUFFICES ASSUME ~silent PROVE RowsInv'
    BY <1>1 DEF RowsInv
  <2>1. \A h \in Heights : RowsIn(h)' = RowsIn(h) /\ RowsOut(h)' = RowsOut(h)
    BY <1>1 DEF RowsIn, RowsOut
  <2>2. f.num = First /\ First \in Heights
    <3>1. inHand.num = QueueFirst - 1
      BY <1>1, <1>5 DEF UsdtInv, NumberInv
    <3> QED
      BY <1>2, <1>3, <1>6, <3>1
  <2>3. RowsOut(First)
    BY <1>1, <1>5, <2>2 DEF UsdtInv, RowsInv
  <2>4. Written(f)'
    BY <1>1, <1>3, <2>2, <2>3 DEF Written, RowsOut
  <2>5. /\ \A x \in flushes' : Written(x)'
        /\ flushes' # {}
    BY <1>3, <2>4
  <2>6. /\ \A h \in Heights : h < First => RowsIn(h)
        /\ \A h \in Heights : h > First => RowsOut(h)
    BY <1>5 DEF UsdtInv, RowsInv
  <2> QED
    BY <1>5, <1>6, <2>1, <2>5, <2>6 DEF RowsInv
<1> QED
  BY <1>4, <1>7, <1>8, <1>9, <1>10 DEF UsdtInv

\* What one write does to the rows: those of the block that is flushed, of the kind of
\* the table, and no other.
LEMMA RowsFlushed ==
    ASSUME UsdtInv, NEW f \in flushes, FlushStep(f), NEW r \in Row
    PROVE  /\ rows[r] \in Nat
           /\ rows'[r] = IF r \in f.rows /\ r.kind = f.step THEN rows[r] + 1 ELSE rows[r]
           /\ r \in f.rows => r.block = f.num
<1>1. rows[r] \in Nat
  BY DEF UsdtInv, TypeOK
<1>2. rows'[r] = IF r \in f.rows /\ r.kind = f.step THEN rows[r] + 1 ELSE rows[r]
  BY DEF FlushStep
<1>3. r \in f.rows => r.block = f.num
  BY FlushNumber
<1> QED
  BY <1>1, <1>2, <1>3

LEMMA FlushingStep == ASSUME UsdtInv, NEW f \in flushes, FlushStep(f) PROVE UsdtInv'
<1> DEFINE g == [f EXCEPT !.step = After(f.step)]
<1>1. /\ rows' = [r \in Row |-> IF r \in f.rows /\ r.kind = f.step THEN rows[r] + 1 ELSE rows[r]]
      /\ syncNum' = IF f.step = "config" THEN f.num ELSE syncNum
      /\ flushes' = IF f.step = "config" THEN flushes \ {f} ELSE (flushes \ {f}) \cup {g}
      /\ UNCHANGED <<head, producer, nextNum, startId, running, datas, queue, consumer, inHand>>
      /\ UNCHANGED <<boots, silent>>
  BY DEF FlushStep, fetching, handling
<1>2. /\ Collecting /\ flushes = {f} /\ f \in Writing
      /\ f.num \in Heights /\ f.num < Latest /\ f.rows = Recorded(f.num) /\ f.rows \subseteq Row
      /\ ~silent => f.num = First /\ HandFirst = First + 1
  BY FlushNumber
<1>3. f.step \in {"deposit", "withdraw", "config"}
  BY <1>2 DEF Writing
<1>4. /\ g \in Writing /\ g.num = f.num /\ g.rows = f.rows /\ g.step = After(f.step)
      /\ After(f.step) \in {"withdraw", "config"}
  BY <1>2 DEF Writing, After
<1> HIDE DEF g
<1>5. flushes' = IF f.step = "config" THEN {} ELSE {g}
  BY <1>1, <1>2
<1>6. TypeOK'
  <2>1. rows' \in [Row -> Nat]
    BY <1>1 DEF UsdtInv, TypeOK
  <2>2. syncNum' \in Heights
    BY <1>1, <1>2 DEF UsdtInv, TypeOK
  <2>3. flushes' \subseteq Writing /\ Cardinality(flushes') <= 1
    BY <1>4, <1>5, OneFlush
  <2> QED
    BY <1>1, <2>1, <2>2, <2>3 DEF UsdtInv, TypeOK
<1>7. Collecting' /\ Latest' = Latest /\ QueueFirst' = QueueFirst /\ HandFirst' = HandFirst
  BY <1>1, <1>2 DEF Collecting, Latest, HandFirst, QueueFirst, Unqueued
<1>8. ThreadInv' /\ BatchInv'
  BY <1>1, <1>2, <1>5, <1>7 DEF UsdtInv, ThreadInv, BatchInv
<1>9. ConfirmedInv'
  <2>1. ASSUME NEW r \in Row, rows'[r] > 0
        PROVE  r.block < Latest /\ r \in Recorded(r.block)
    <3>1. CASE r \in f.rows
      BY <1>2, <3>1, RowsFlushed
    <3>2. CASE r \notin f.rows
      <4>1. rows[r] > 0
        BY <2>1, <3>2, RowsFlushed
      <4> QED
        BY <4>1 DEF UsdtInv, ConfirmedInv
    <3> QED
      BY <3>1, <3>2
  <2>2. syncNum' = 0 \/ syncNum' < Latest
    BY <1>1, <1>2 DEF UsdtInv, ConfirmedInv
  <2>3. \A x \in flushes' : x.num < Latest /\ x.rows = Recorded(x.num)
    BY <1>2, <1>4, <1>5
  <2> QED
    BY <1>1, <1>7, <2>1, <2>2, <2>3 DEF UsdtInv, ConfirmedInv
<1>10. ASSUME ~silent
       PROVE  /\ First' = IF f.step = "config" THEN First + 1 ELSE First
              /\ First \in Int /\ f.num = First /\ HandFirst = First + 1
  <2>1. f.num = First /\ HandFirst = First + 1 /\ First \in Int
    BY <1>2, <1>10, Numbers
  <2>2. First' = IF f.step = "config" THEN HandFirst ELSE HandFirst - 1
    BY <1>5, <1>7 DEF First
  <2> QED
    BY <2>1, <2>2
<1>11. NumberInv'
  <2> SUFFICES ASSUME ~silent PROVE NumberInv'
    BY <1>1 DEF NumberInv
  <2>1. First' = syncNum' \/ First' = syncNum' + 1
    BY <1>1, <1>2, <1>10 DEF UsdtInv, NumberInv
  <2>2. \A x \in flushes' : x.num = HandFirst' - 1
    BY <1>4, <1>5, <1>7, <1>10
  <2> QED
    BY <1>1, <1>2, <1>7, <2>1, <2>2 DEF UsdtInv, NumberInv
<1>12. RowsInv'
  <2> SUFFICES ASSUME ~silent PROVE RowsInv'
    BY <1>1 DEF RowsInv
  <2>1. \A h \in Heights : h # f.num => RowsIn(h)' = RowsIn(h) /\ RowsOut(h)' = RowsOut(h)
    <3>1. ASSUME NEW h \in Heights, h # f.num, NEW r \in Row, r.block = h
          PROVE  rows'[r] = rows[r]
      BY <3>1, RowsFlushed
    <3> QED
      BY <3>1 DEF RowsIn, RowsOut
  <2>2. Written(f)
    BY <1>2 DEF UsdtInv, RowsInv
  <2>3. \A h \in Heights : /\ h < First => RowsIn(h)
                           /\ h > First => RowsOut(h)
    BY <1>2 DEF UsdtInv, RowsInv
  <2>4. CASE f.step = "config"
    <3>1. \A r \in Row : r.kind # "config"
      BY DEF Row
    <3>2. \A r \in Row : rows'[r] = rows[r]
      BY <2>4, <3>1, RowsFlushed
    <3>3. \A r \in Row : r.kind = "deposit" \/ r.kind = "withdraw"
      BY DEF Row
    <3>4. RowsIn(f.num)'
      BY <1>2, <2>2, <2>4, <3>2, <3>3 DEF RowsIn, Written
    <3>5. \A h \in Heights : h < First' => h < First \/ h = f.num
      BY <1>10, <2>4
    <3>6. \A h \in Heights : h > First' \/ h = First' => h > First /\ h # f.num
      BY <1>10, <2>4
    <3>7. \A h \in Heights : h < First => h # f.num
      BY <1>10
    <3>8. flushes' = {}
      BY <1>5, <2>4
    <3> QED
      BY <1>7, <2>1, <2>3, <3>4, <3>5, <3>6, <3>7, <3>8 DEF RowsInv
  <2>5. CASE f.step # "config"
    <3>1. First' = First /\ flushes' = {g} /\ flushes' # {}
      BY <1>5, <1>10, <2>5
    <3>2. Written(g)'
      <4> SUFFICES ASSUME NEW r \in Row, r.block = f.num
                   PROVE  rows'[r] = IF r \in f.rows /\
                                        \/ r.kind = "deposit" /\ After(f.step) \in {"withdraw", "config"}
                                        \/ r.kind = "withdraw" /\ After(f.step) = "config"
                                     THEN 1 ELSE 0
        BY <1>4 DEF Written
      <4>1. rows[r] = IF r \in f.rows /\ \/ r.kind = "deposit" /\ f.step \in {"withdraw", "config"}
                                         \/ r.kind = "withdraw" /\ f.step = "config"
                      THEN 1 ELSE 0
        BY <2>2 DEF Written
      <4>2. r.kind \in {"deposit", "withdraw"}
        BY DEF Row
      <4>3. CASE f.step = "deposit"
        BY <4>1, <4>2, <4>3, RowsFlushed DEF After
      <4>4. CASE f.step = "withdraw"
        BY <4>1, <4>2, <4>4, RowsFlushed DEF After
      <4> QED
        BY <1>3, <2>5, <4>3, <4>4
    <3>3. \A h \in Heights : h < First \/ h > First => h # f.num
      BY <1>10
    <3> QED
      BY <1>7, <2>1, <2>3, <3>1, <3>2, <3>3 DEF RowsInv
  <2> QED
    BY <2>4, <2>5
<1> QED
  BY <1>6, <1>8, <1>9, <1>11, <1>12 DEF UsdtInv

\* One lemma for each step of the next-state relation.
LEMMA UsdtStep == ASSUME UsdtInv, [Next]_vars PROVE UsdtInv'
<1>1. CASE UNCHANGED vars
  <2>1. /\ UNCHANGED <<head, syncNum, rows, producer, nextNum, startId, running, datas, queue>>
        /\ UNCHANGED <<consumer, inHand, flushes, boots, silent>>
    BY <1>1 DEF vars, mongo, fetching, handling
  <2>2. TypeOK'
    BY <2>1 DEF UsdtInv, TypeOK
  <2>3. Collecting' = Collecting /\ QueueFirst' = QueueFirst /\ HandFirst' = HandFirst
        /\ First' = First /\ Latest' = Latest
    BY <2>1 DEF Collecting, First, HandFirst, QueueFirst, Unqueued, Latest
  <2>4. ThreadInv' /\ BatchInv' /\ NumberInv' /\ ConfirmedInv'
    BY <2>1, <2>3 DEF UsdtInv, ThreadInv, BatchInv, NumberInv, ConfirmedInv
  <2>5. RowsInv'
    BY <2>1, <2>3, TablesKept
  <2> QED
    BY <2>2, <2>4, <2>5 DEF UsdtInv
<1>2. CASE Grow
  BY <1>2, GrowStep
<1>3. CASE Boot
  BY <1>3, BootStep
<1>4. CASE Produce
  BY <1>4, ClearStep, SpawnStep, JoinStep, GreenletStep DEF Produce
<1>5. CASE Consume
  BY <1>5, GetStep, StartFlushStep DEF Consume
<1>6. CASE Flush
  BY <1>6, FlushingStep DEF Flush
<1>7. CASE Kill
  BY <1>7, KillStep
<1> QED
  BY <1>1, <1>2, <1>3, <1>4, <1>5, <1>6, <1>7 DEF Next

\* The invariant behind the two results below: until a request is left without a
\* result, the blocks between the node and the tables have consecutive numbers, and
\* a block before them is recorded, once.
THEOREM UsdtCorrect == Spec => []UsdtInv
<1>1. Init => UsdtInv
  BY InitUsdt
<1>2. UsdtInv /\ [Next]_vars => UsdtInv'
  BY UsdtStep
<1> QED
  BY <1>1, <1>2, PTL DEF Spec

LEMMA OwedIsRecorded ==
    ASSUME NEW h \in Heights, h # 0, NEW tx \in Txs[h], Owed(tx) # "nothing"
    PROVE  /\ [block |-> h, kind |-> Owed(tx), tx |-> tx] \in Recorded(h)
<1>1. tx \in Tx
  BY Constants
<1>2. tx.valid \in BOOLEAN
  BY <1>1 DEF Tx
<1>3. IsOfUsdt(tx) /\ KindOf(tx) = Owed(tx)
  BY <1>2 DEF Owed, KindOf
<1> QED
  BY <1>3 DEF Recorded

LEMMA StoredBelow == ASSUME UsdtInv, ~silent, NEW h \in Heights, h < syncNum PROVE RowsIn(h)
<1>1. CASE Collecting
  <2>1. h < First
    BY <1>1, Numbers DEF UsdtInv, NumberInv
  <2> QED
    BY <1>1, <2>1 DEF UsdtInv, RowsInv
<1>2. CASE ~Collecting
  BY <1>2 DEF UsdtInv, RowsInv
<1> QED
  BY <1>1, <1>2

\* However the greenlets of a batch, the flush threads, kills and restarts fall: every
\* block up to the committed one is recorded, and none twice.
THEOREM UsdtStoredExact == Spec => []StoredExact
<1>1. UsdtInv => StoredExact
  <2> SUFFICES ASSUME UsdtInv PROVE StoredExact
    OBVIOUS
  <2>1. ASSUME ~silent, NEW h \in 1..(syncNum - 1), NEW tx \in Txs[h], Owed(tx) # "nothing"
        PROVE  rows[[block |-> h, kind |-> Owed(tx), tx |-> tx]] = 1
    <3>1. h \in Heights /\ h # 0 /\ h < syncNum
      BY Constants DEF UsdtInv, TypeOK
    <3> DEFINE r == [block |-> h, kind |-> Owed(tx), tx |-> tx]
    <3>2. r \in Recorded(h)
      BY <2>1, <3>1, OwedIsRecorded
    <3>3. r \in Row /\ r.block = h
      BY <3>1, <3>2, RecordedRows
    <3> HIDE DEF r
    <3>4. rows[r] = 1
      BY <2>1, <3>1, <3>2, <3>3, StoredBelow DEF RowsIn
    <3> QED
      BY <3>4 DEF r
  <2>2. BelowSyncStored
    BY <2>1 DEF BelowSyncStored
  <2>3. OnlyConfirmed
    BY DEF UsdtInv, ConfirmedInv, OnlyConfirmed
  <2> QED
    BY <2>2, <2>3 DEF UsdtInv, StoredExact
<1> QED
  BY <1>1, UsdtCorrect, PTL

-----------------------------------------------------------------------------
(* The readers' view: every step of the collector is one of TransferLog's. *)

PhaseOfFirst ==
    Phase = IF ~Collecting THEN "down" ELSE IF First = syncNum THEN "again" ELSE "on"

LEMMA PhaseIsOfFirst == UsdtInv /\ ~silent => PhaseOfFirst
<1> SUFFICES ASSUME UsdtInv, ~silent
             PROVE  PhaseOfFirst
  OBVIOUS
<1>1. producer \in {"off", "clear"} <=> ~Collecting
  BY DEF UsdtInv, TypeOK, Collecting
<1>2. ASSUME Collecting
      PROVE  CollectingAgain <=> First = syncNum
  <2>1. /\ First = syncNum \/ First = syncNum + 1
        /\ \A k \in 1..Len(queue) : queue[k] = QueueFirst + k - 1
        /\ consumer = "flush" => inHand.num = QueueFirst - 1
    BY <1>2 DEF UsdtInv, NumberInv
  <2>2. /\ Len(queue) \in Nat /\ nextNum \in Nat /\ syncNum \in Nat /\ startId \in Nat
        /\ Unqueued \in Int /\ QueueFirst \in Int /\ HandFirst \in Int /\ First \in Int
        /\ First <= HandFirst /\ HandFirst <= QueueFirst /\ QueueFirst <= Unqueued
        /\ Unqueued <= nextNum
    BY Numbers
  <2>3. DOMAIN queue = 1..Len(queue)
    BY LenProperties DEF UsdtInv, TypeOK
  <2>4. ASSUME CollectingAgain
        PROVE  First = syncNum
    <3>1. CASE nextNum = syncNum
      BY <2>1, <2>2, <3>1
    <3>2. CASE producer = "join" /\ startId = syncNum
      BY <2>1, <2>2, <3>2 DEF Unqueued
    <3>3. CASE \E k \in DOMAIN queue : queue[k] = syncNum
      BY <2>1, <2>2, <2>3, <3>3
    <3>4. CASE consumer = "flush" /\ inHand.num = syncNum
      BY <2>1, <2>2, <3>4 DEF HandFirst
    <3>5. CASE \E f \in flushes : f.num = syncNum
      BY <3>5, FlushNumber
    <3> QED
      BY <2>4, <3>1, <3>2, <3>3, <3>4, <3>5 DEF CollectingAgain
  <2>5. ASSUME First = syncNum
        PROVE  CollectingAgain
    <3>1. CASE flushes # {}
      BY <2>5, <3>1, FlushNumber DEF CollectingAgain
    <3>2. CASE flushes = {} /\ consumer = "flush"
      BY <2>1, <2>5, <3>2 DEF CollectingAgain, First, HandFirst
    <3>3. CASE flushes = {} /\ consumer # "flush" /\ Len(queue) = 0
      BY <2>2, <2>5, <3>3 DEF CollectingAgain, First, HandFirst, QueueFirst, Unqueued
    <3>4. CASE flushes = {} /\ consumer # "flush" /\ Len(queue) # 0
      <4>1. 1 \in 1..Len(queue) /\ queue[1] = QueueFirst + 1 - 1
        BY <2>1, <2>2, <3>4
      <4>2. First = QueueFirst
        BY <3>4 DEF First, HandFirst
      <4> QED
        BY <2>2, <2>3, <2>5, <4>1, <4>2 DEF CollectingAgain
    <3> QED
      BY <3>1, <3>2, <3>3, <3>4
  <2> QED
    BY <2>4, <2>5
<1>3. CASE ~Collecting
  BY <1>1, <1>3 DEF Phase, PhaseOfFirst
<1>4. CASE Collecting
  BY <1>1, <1>2, <1>4 DEF Phase, PhaseOfFirst
<1> QED
  BY <1>3, <1>4

\* Steps that move nothing a reader sees.
LEMMA Unseen ==
    ASSUME UsdtInv, UsdtInv', ~silent, ~silent',
           UNCHANGED <<syncNum, rows>>, Collecting' = Collecting, Collecting => First' = First
    PROVE  UNCHANGED Log!log
<1>1. Present' = Present
  BY DEF Present
<1>2. Phase' = Phase
  <2>1. PhaseOfFirst /\ PhaseOfFirst'
    BY PhaseIsOfFirst, PTL
  <2> QED
    BY <2>1 DEF PhaseOfFirst
<1> QED
  BY <1>1, <1>2 DEF Log!log

\* A write of one table: the transfers of the block in turn appear.
LEMMA FlushSeen ==
    ASSUME UsdtInv, UsdtInv', ~silent, ~silent', NEW f \in flushes, FlushStep(f)
    PROVE  [Log!LogNext]_(Log!log)
<1>1. /\ flushes = {f} /\ f \in Writing /\ f.num \in Heights /\ f.num < Latest
      /\ f.rows = Recorded(f.num) /\ f.rows \subseteq Row
      /\ f.num = First /\ HandFirst = First + 1 /\ First \in Int /\ Collecting
  BY FlushNumber, Numbers
<1>2. /\ UNCHANGED <<head, producer, nextNum, startId, running, datas, queue, consumer, inHand>>
      /\ syncNum' = IF f.step = "config" THEN f.num ELSE syncNum
      /\ flushes' = IF f.step = "config" THEN flushes \ {f}
                    ELSE (flushes \ {f}) \cup {[f EXCEPT !.step = After(f.step)]}
  BY DEF FlushStep, fetching, handling
<1>3. PhaseOfFirst /\ PhaseOfFirst'
  BY PhaseIsOfFirst, PTL
<1>4. f.step \in {"deposit", "withdraw", "config"} /\ syncNum \in Nat
      /\ (First = syncNum \/ First = syncNum + 1)
  BY <1>1, Numbers DEF Writing, UsdtInv, NumberInv
<1>5. Log!Turn = First /\ Phase # "down"
  BY <1>1, <1>3, <1>4 DEF Log!Turn, PhaseOfFirst
<1>6. Collecting' /\ HandFirst' = HandFirst
  BY <1>1, <1>2 DEF Collecting, HandFirst, QueueFirst, Unqueued
<1>7. CASE f.step = "config"
  <2>1. \A r \in Row : r.kind # "config"
    BY DEF Row
  <2>2. Present' = Present
    <3>1. \A r \in Row : rows'[r] = rows[r]
      BY <1>7, <2>1, RowsFlushed
    <3> QED
      BY <3>1 DEF Present
  <2>3. syncNum' = First /\ First <= Top
    BY <1>1, <1>2, <1>7
  <2>4. First' = syncNum' + 1
    <3>1. flushes' = {}
      BY <1>1, <1>2, <1>7
    <3> QED
      BY <1>1, <1>6, <2>3, <3>1 DEF First
  <2>5. Phase' = "on"
    <3>1. First' # syncNum'
      BY <1>1, <2>3, <2>4
    <3> QED
      BY <1>3, <1>6, <3>1 DEF PhaseOfFirst
  <2>6. Log!Commit
    BY <1>5, <2>2, <2>3, <2>5 DEF Log!Commit
  <2> QED
    BY <2>6 DEF Log!LogNext
<1>8. CASE f.step # "config"
  <2>1. syncNum' = syncNum /\ First' = First
    <3>1. flushes' # {}
      BY <1>2, <1>8
    <3> QED
      BY <1>1, <1>2, <1>6, <1>8, <3>1 DEF First
  <2>2. Phase' = Phase
    BY <1>1, <1>3, <1>6, <2>1 DEF PhaseOfFirst
  <2> DEFINE new == {r \in f.rows : r.kind = f.step}
  <2>3. Present' = Present \cup new
    <3> SUFFICES ASSUME NEW r \in Row
                 PROVE  rows'[r] > 0 <=> rows[r] > 0 \/ r \in new
      BY <1>1 DEF Present
    <3> QED
      BY RowsFlushed
  <2>4. new \in SUBSET {r \in LogRow : r.block = Log!Turn}
    <3>1. \A r \in f.rows : r.block = f.num /\ r \in LogRow
      BY <1>1, FlushNumber DEF LogRow
    <3> QED
      BY <1>1, <1>5, <3>1
  <2> HIDE DEF new
  <2>5. CASE new = {}
    BY <2>1, <2>2, <2>3, <2>5 DEF Log!log
  <2>6. CASE new # {}
    <3>1. Log!Store
      BY <1>5, <2>1, <2>2, <2>3, <2>4, <2>6 DEF Log!Store
    <3> QED
      BY <3>1 DEF Log!LogNext
  <2> QED
    BY <2>5, <2>6
<1> QED
  BY <1>7, <1>8

\* A new collector takes the last block out and collects it again.
LEMMA ClearSeen == ASSUME UsdtInv, ClearGarbage PROVE Log!Clear
<1>1. /\ producer = "clear" /\ producer' = "poll" /\ nextNum' = syncNum /\ syncNum' = syncNum
      /\ rows' = [r \in Row |-> IF r.block >= syncNum THEN 0 ELSE rows[r]]
  BY DEF ClearGarbage
<1>2. Phase = "down"
  BY <1>1 DEF Phase
<1>3. Phase' = "again"
  BY <1>1 DEF Phase, CollectingAgain
<1>4. Present' = {r \in Present : r.block < syncNum}
  <2>1. \A r \in Row : r.block \in Nat /\ rows[r] \in Nat
    <3>1. \A r \in Row : r.block \in Heights
      BY DEF Row
    <3>2. \A r \in Row : rows[r] \in Nat
      BY DEF UsdtInv, TypeOK
    <3> QED
      BY <3>1, <3>2, Constants
  <2>2. syncNum \in Nat
    BY Numbers
  <2>3. \A r \in Row : rows'[r] > 0 <=> rows[r] > 0 /\ r.block < syncNum
    BY <1>1, <2>1, <2>2
  <2> QED
    BY <2>3 DEF Present
<1> QED
  BY <1>1, <1>2, <1>3, <1>4 DEF Log!Clear

LEMMA LogStep ==
    ASSUME UsdtInv, UsdtInv', [Next]_vars, ~silent'
    PROVE  [Log!LogNext]_(Log!log)
<1>0. ~silent
  BY DEF Next, Grow, Boot, Produce, ClearGarbage, Spawn, JoinAll, Greenlet, Consume, Get,
         StartFlush, Flush, FlushStep, Kill, vars
<1>1. ASSUME UNCHANGED <<syncNum, rows>>, Collecting' = Collecting, Collecting => First' = First
      PROVE  [Log!LogNext]_(Log!log)
  BY <1>0, <1>1, Unseen
<1>2. CASE Grow \/ UNCHANGED vars
  <2>1. UNCHANGED <<syncNum, rows, producer, nextNum, startId, queue, consumer, flushes>>
    BY <1>2 DEF Grow, vars, mongo, fetching, handling
  <2> QED
    BY <1>1, <2>1 DEF Collecting, First, HandFirst, QueueFirst, Unqueued
<1>3. CASE Boot
  <2>1. UNCHANGED <<syncNum, rows>> /\ producer = "off" /\ producer' = "clear"
    BY <1>3 DEF Boot, mongo
  <2> QED
    BY <1>1, <2>1 DEF Collecting
<1>4. CASE ClearGarbage
  BY <1>4, ClearSeen DEF Log!LogNext
<1>5. CASE Spawn
  <2>1. /\ UNCHANGED <<syncNum, rows, queue, consumer, flushes>>
        /\ producer = "poll" /\ producer' = "join" /\ startId' = nextNum
    BY <1>5 DEF Spawn, mongo, handling
  <2> QED
    BY <1>1, <2>1 DEF Collecting, First, HandFirst, QueueFirst, Unqueued
<1>6. CASE \E h \in running : Greenlet(h)
  <2>1. UNCHANGED <<syncNum, rows, queue, consumer, flushes, producer, startId, nextNum>>
    BY <1>6 DEF Greenlet, mongo, handling
  <2> QED
    BY <1>1, <2>1 DEF Collecting, First, HandFirst, QueueFirst, Unqueued
<1>7. CASE JoinAll
  <2>1. /\ UNCHANGED <<syncNum, rows, consumer, flushes, nextNum>>
        /\ producer = "join" /\ producer' = "poll" /\ running = {}
        /\ queue' = IF Cardinality(datas) = nextNum - startId THEN queue \o Batched ELSE queue
    BY <1>7 DEF JoinAll, mongo, handling
  <2>2. nextNum \in Nat /\ startId \in Nat /\ startId < nextNum /\ Len(queue) \in Nat
    BY <2>1, Numbers DEF UsdtInv, BatchInv
  <2>3. Cardinality(datas) = nextNum - startId
    <3>1. datas = startId..(nextNum - 1)
      BY <1>0, <2>1 DEF UsdtInv, BatchInv
    <3>2. Cardinality(startId..(nextNum - 1)) = (nextNum - 1) - startId + 1
      BY <2>2, FS_Interval
    <3> QED
      BY <2>2, <3>1, <3>2
  <2>4. Len(queue') = Len(queue) + (nextNum - startId)
    BY <2>1, <2>3, Joined
  <2>5. QueueFirst' = QueueFirst
    BY <2>1, <2>2, <2>4 DEF QueueFirst, Unqueued
  <2> QED
    BY <1>1, <2>1, <2>5 DEF Collecting, First, HandFirst
<1>8. CASE Get
  <2>1. /\ UNCHANGED <<syncNum, rows, producer, nextNum, startId, flushes>>
        /\ queue # <<>> /\ queue' = Tail(queue) /\ consumer = "get"
        /\ (consumer' = "flush" \/ silent')
    BY <1>8 DEF Get, mongo, fetching
  <2>2. Len(queue') = Len(queue) - 1 /\ Len(queue) \in Nat
    <3>1. queue \in Seq(Heights)
      BY DEF UsdtInv, TypeOK
    <3> QED
      BY <2>1, <3>1, HeadTailProperties, LenProperties
  <2>3. QueueFirst' = QueueFirst + 1 /\ QueueFirst \in Int
    <3>1. Unqueued' = Unqueued /\ Unqueued \in Int
      BY <2>1, Numbers DEF Unqueued
    <3> QED
      BY <2>2, <3>1 DEF QueueFirst
  <2>4. HandFirst' = HandFirst
    BY <2>1, <2>3 DEF HandFirst
  <2> QED
    BY <1>1, <2>1, <2>4 DEF Collecting, First
<1>9. CASE StartFlush
  <2>1. /\ UNCHANGED <<syncNum, rows, producer, nextNum, startId, queue>>
        /\ flushes = {} /\ flushes' # {} /\ consumer = "flush" /\ consumer' = "get"
    BY <1>9 DEF StartFlush, mongo, fetching
  <2>2. QueueFirst' = QueueFirst /\ QueueFirst \in Int
    BY <2>1, Numbers DEF QueueFirst, Unqueued
  <2>3. HandFirst' = HandFirst + 1 /\ HandFirst \in Int
    BY <2>1, <2>2 DEF HandFirst
  <2> QED
    BY <1>1, <2>1, <2>3 DEF Collecting, First
<1>10. CASE Flush
  BY <1>0, <1>10, FlushSeen DEF Flush
<1>11. CASE Kill
  <2>1. producer' = "off" /\ UNCHANGED <<syncNum, rows>>
    BY <1>11 DEF Kill, mongo
  <2>2. Phase' = "down" /\ Present' = Present
    BY <2>1 DEF Phase, Present
  <2>3. CASE Phase = "down"
    BY <2>1, <2>2, <2>3 DEF Log!log
  <2>4. CASE Phase # "down"
    BY <2>1, <2>2, <2>4 DEF Log!LogNext, Log!Crash
  <2> QED
    BY <2>3, <2>4
<1> QED
  BY <1>2, <1>3, <1>4, <1>5, <1>6, <1>7, <1>8, <1>9, <1>10, <1>11 DEF Next, Produce, Consume

SeenStep == [~silent' => Log!LogNext]_(Log!log)

\* Each step of the collector's threads is a step of the abstract log or leaves it as
\* it is, as long as the node answers.
THEOREM UsdtImplementsLog == Spec => ImplementsTransferLog
<1>1. Init => Log!LogInit
  <2> SUFFICES ASSUME Init PROVE Log!LogInit
    OBVIOUS
  <2>1. syncNum = 0 /\ Phase = "down"
    BY DEF Init, Phase
  <2>2. Present = {}
    BY DEF Init, Present
  <2> QED
    BY <2>1, <2>2 DEF Log!LogInit
<1>2. UsdtInv /\ UsdtInv' /\ [Next]_vars => SeenStep
  BY LogStep DEF SeenStep
<1> QED
  BY <1>1, <1>2, UsdtCorrect, PTL DEF Spec, ImplementsTransferLog, SeenStep

-----------------------------------------------------------------------------
(* The collector of the exchange contracts: its inductive invariant.        *)

\* A contract is in hand.
Busy == pc \in {"check", "read", "remove"}

\* What is still to be looked at in this round.
Ahead == {x \in todo \cup {item} : x \in todo \/ Busy}

\* What each stage of the round has in memory.
StageInv ==
    /\ Busy => item \in Listing
    /\ pc \in {"off", "ask", "insert", "save"} => todo = {}
    /\ pc \in {"off", "ask", "save"} => orderList = {}
    /\ pc = "ask" => lastBlock = saved

\* No number comes from beyond the chain, and a block that is named for a contract
\* has happened to it.
BlockInv ==
    /\ \A c \in Contract : orders[c] <= bkHead
    /\ saved <= bkHead + 1 /\ lastBlock <= bkHead + 1
    /\ \A x \in Ahead \cup orderList \cup book :
         x.block > 0 /\ x.block <= orders[x.contract]

\* A contract is listed once, read once, and inserted after it has been removed.
OnceInv ==
    /\ \A x, y \in Ahead : x.contract = y.contract => x = y
    /\ Busy => item \notin todo
    /\ \A x, y \in orderList : x.contract = y.contract => x = y
    /\ \A x \in orderList, y \in Ahead :
         x.contract = y.contract => pc = "remove" /\ y = item
    /\ \A x \in orderList, y \in book :
         x.contract = y.contract =>
             pc = "remove" /\ x.contract = item.contract /\ x.block >= y.block
    /\ pc = "remove" => \E x \in orderList : x.contract = item.contract

\* What the round touches would be listed again after a kill.
AgainInv ==
    \A x \in Ahead \cup orderList : orders[x.contract] >= saved - Window

\* The contract has changed so late that the next round lists it.
Late(c) ==
    /\ orders[c] >= lastBlock - Window
    /\ \A x \in Ahead : orders[c] >= x.block + 1 - Window

\* The book and the orders about to be inserted are those of the chain.
Shown(c) ==
    /\ orders[c] > 0 => [contract |-> c, block |-> orders[c]] \in book \cup orderList
    /\ \A x \in book \cup orderList : x.contract = c => x.block = orders[c]

\* The contract is still to be read in this round, or has been read and not yet
\* removed, and has not changed since.
Pending(c) ==
    \E x \in Ahead : /\ x.contract = c
                     /\ pc = "remove" /\ x = item =>
                          [contract |-> c, block |-> orders[c]] \in orderList

\* As long as the node answers, no contract is left behind by a round.
CoverInv ==
    ~bkSilent /\ pc \notin {"off", "ask"} =>
        \A c \in Contract : Late(c) \/ Pending(c) \/ Shown(c)

RoundInv ==
    /\ BookSound
    /\ StageInv /\ BlockInv /\ OnceInv /\ AgainInv /\ CoverInv

-----------------------------------------------------------------------------
USE BkAssumption
USE DEF BkHeights, Listing, bkMongo, memory

\* A process that goes on with what is left takes one contract out of it, or has
\* nothing left.
LEMMA NextOfLeft ==
    ASSUME NEW left \in SUBSET Listing, NextOf(left)
    PROVE  /\ pc' \in {"check", "insert"}
           /\ todo' \subseteq left
           /\ Ahead' = left
           /\ pc' = "check" => item' \in Listing /\ item' \in left /\ item' \notin todo'
           /\ pc' = "insert" => todo' = {} /\ item' = <<>>
BY DEF NextOf, Ahead, Busy

LEMMA InitRound == BkInit => RoundInv
<1> SUFFICES ASSUME BkInit PROVE RoundInv
  OBVIOUS
<1> USE DEF BkInit
<1>1. BkTypeOK
  <2>1. 0 \in BkHeights /\ 0 \in 0..(BkTop + 1) /\ 0 \in 0..BkMaxBoots
    OBVIOUS
  <2> QED
    BY <2>1 DEF BkTypeOK
<1>2. Ahead = {} /\ book = {} /\ orderList = {} /\ ~Busy
  BY DEF Ahead, Busy
<1>3. StageInv /\ BlockInv /\ OnceInv /\ AgainInv /\ CoverInv
  BY <1>2 DEF StageInv, BlockInv, OnceInv, AgainInv, CoverInv
<1>4. NothingForgotten /\ NeverMixed
  BY DEF NothingForgotten, NeverMixed, Current
<1> QED
  BY <1>1, <1>3, <1>4 DEF RoundInv, BookSound

USE DEF RoundInv, BookSound

LEMMA GrowRound == ASSUME RoundInv, BkGrow PROVE RoundInv'
<1> USE DEF BkGrow
<1>1. bkHead' = bkHead + 1 /\ bkHead' \in BkHeights
  BY DEF BkTypeOK
<1>2. \A c \in Contract : \/ orders'[c] = orders[c]
                          \/ orders'[c] = bkHead + 1 /\ orders'[c] > orders[c]
  BY DEF BkTypeOK, BlockInv
<1>3. BkTypeOK'
  BY <1>1 DEF BkTypeOK
<1>4. Ahead' = Ahead /\ Busy' = Busy
  BY DEF Ahead, Busy
<1>5. StageInv' /\ OnceInv'
  BY <1>4 DEF StageInv, OnceInv
<1>6. \A x \in Ahead \cup orderList \cup book : x \in Listing
  BY DEF BkTypeOK, StageInv, Ahead
<1>7. BlockInv'
  BY <1>1, <1>2, <1>4, <1>6 DEF BlockInv, BkTypeOK
<1>8. AgainInv'
  BY <1>1, <1>2, <1>4, <1>6 DEF AgainInv, BlockInv, BkTypeOK
<1>9. NeverMixed'
  BY DEF NeverMixed
<1>10. ASSUME ~bkSilent, NEW c \in Contract
       PROVE  {x \in book : x.contract = c} = Current(c)' \/ orders'[c] >= saved - Window
  <2>1. CASE orders'[c] = orders[c]
    BY <2>1, <1>10 DEF NothingForgotten, Current
  <2>2. CASE orders'[c] = bkHead + 1
    BY <2>2 DEF BlockInv, BkTypeOK
  <2> QED
    BY <2>1, <2>2, <1>2
<1>11. NothingForgotten'
  BY <1>10 DEF NothingForgotten, Current
<1>12. ASSUME NEW c \in Contract, orders'[c] = orders[c]
       PROVE  /\ Late(c) => Late(c)'
              /\ Pending(c) => Pending(c)'
              /\ Shown(c) => Shown(c)'
  BY <1>12, <1>4 DEF Late, Pending, Shown
<1>13. ASSUME NEW c \in Contract, orders'[c] = bkHead + 1
       PROVE  Late(c)'
  BY <1>13, <1>4, <1>6, <1>1 DEF Late, BlockInv, BkTypeOK
<1>14. CoverInv'
  BY <1>2, <1>12, <1>13 DEF CoverInv
<1> QED
  BY <1>3, <1>5, <1>7, <1>8, <1>9, <1>11, <1>14

LEMMA BootRound == ASSUME RoundInv, BkBoot \/ BkKill PROVE RoundInv'
<1> USE DEF BkBoot, BkKill
<1>1. BkTypeOK'
  BY DEF BkTypeOK
<1>2. Ahead' = {} /\ orderList' = {} /\ ~Busy' /\ lastBlock' <= bkHead + 1
  BY DEF Ahead, Busy, StageInv, BlockInv, BkTypeOK
<1>3. StageInv'
  BY <1>2 DEF StageInv
<1>4. BlockInv' /\ OnceInv' /\ AgainInv'
  BY <1>2 DEF BlockInv, OnceInv, AgainInv, StageInv
<1>5. NothingForgotten' /\ NeverMixed' /\ CoverInv'
  BY DEF NothingForgotten, NeverMixed, Current, CoverInv
<1> QED
  BY <1>1, <1>3, <1>4, <1>5

LEMMA AskRound == ASSUME RoundInv, Ask PROVE RoundInv'
<1> DEFINE left == {[contract |-> c, block |-> orders[c]] :
                       c \in {d \in Contract : orders[d] > 0 /\ orders[d] >= Since}}
<1> USE DEF Ask
<1>1. CASE NextOf(left) /\ bkSilent' = bkSilent
  <2>1. left \in SUBSET Listing
    BY DEF BkTypeOK
  <2>2. \A x \in left : /\ x.contract \in Contract /\ x.block = orders[x.contract]
                        /\ x.block > 0 /\ x.block >= saved - Window
    BY DEF BkTypeOK, StageInv, Since
  <2>3. \A c \in Contract :
          orders[c] > 0 /\ orders[c] >= saved - Window =>
              [contract |-> c, block |-> orders[c]] \in left
    BY DEF BkTypeOK, StageInv, Since
  <2>4. /\ pc' \in {"check", "insert"}
        /\ todo' \subseteq left
        /\ Ahead' = left
        /\ pc' = "check" => item' \in Listing /\ item' \in left /\ item' \notin todo'
        /\ pc' = "insert" => todo' = {} /\ item' = <<>>
    BY <1>1, <2>1, NextOfLeft
  <2> HIDE DEF left
  <2>5. orderList = {} /\ orderList' = {} /\ lastBlock = saved
    BY DEF StageInv
  <2>6. BkTypeOK'
    BY <2>1, <2>4, <1>1 DEF BkTypeOK
  <2>7. StageInv'
    BY <2>4, <2>5 DEF StageInv, Busy
  <2>8. BlockInv'
    BY <2>1, <2>2, <2>4, <2>5 DEF BlockInv, BkTypeOK
  <2>9. OnceInv'
    <3>1. \A x, y \in left : x.contract = y.contract => x = y
      BY <2>1, <2>2
    <3> QED
      BY <3>1, <2>4, <2>5 DEF OnceInv, Busy
  <2>10. AgainInv'
    BY <2>2, <2>4, <2>5 DEF AgainInv
  <2>11. NothingForgotten' /\ NeverMixed'
    BY <1>1 DEF NothingForgotten, NeverMixed, Current
  <2>12. ASSUME ~bkSilent, NEW c \in Contract
         PROVE  Pending(c)' \/ Shown(c)'
    <3>1. CASE orders[c] > 0 /\ orders[c] >= saved - Window
      <4>1. [contract |-> c, block |-> orders[c]] \in Ahead'
        BY <2>3, <2>4, <3>1
      <4> QED
        BY <4>1, <2>4 DEF Pending
    <3>2. CASE orders[c] = 0
      BY <3>2, <2>5 DEF Shown, BlockInv, BkTypeOK
    <3>3. CASE orders[c] > 0 /\ ~(orders[c] >= saved - Window)
      <4>1. {x \in book : x.contract = c} = {[contract |-> c, block |-> orders[c]]}
        BY <2>12, <3>3 DEF NothingForgotten, Current
      <4>2. /\ [contract |-> c, block |-> orders[c]] \in book
            /\ \A x \in book : x.contract = c => x = [contract |-> c, block |-> orders[c]]
        BY <4>1
      <4> QED
        BY <4>2, <2>5 DEF Shown
    <3> QED
      BY <3>1, <3>2, <3>3 DEF BkTypeOK
  <2>13. CoverInv'
    BY <2>12, <1>1 DEF CoverInv
  <2> QED
    BY <2>6, <2>7, <2>8, <2>9, <2>10, <2>11, <2>13
<1>2. CASE bkSilent' = TRUE /\ pc' = "save" /\ UNCHANGED <<todo, item>>
  <2>1. BkTypeOK'
    BY <1>2 DEF BkTypeOK
  <2>2. Ahead' = {} /\ orderList' = {} /\ ~Busy'
    BY <1>2 DEF Ahead, Busy, StageInv
  <2>3. StageInv'
    BY <1>2, <2>2 DEF StageInv
  <2>4. BlockInv' /\ OnceInv' /\ AgainInv'
    BY <1>2, <2>2 DEF BlockInv, OnceInv, AgainInv, StageInv
  <2>5. NothingForgotten' /\ NeverMixed' /\ CoverInv'
    BY <1>2 DEF NothingForgotten, NeverMixed, CoverInv
  <2> QED
    BY <2>1, <2>3, <2>4, <2>5
<1> QED
  BY <1>1, <1>2

\* An item that gets no result is passed over.
LEMMA SilentRound ==
    ASSUME RoundInv, pc \in {"check", "read"}, bkSilent' = TRUE,
           lastBlock' = Later(item.block), NextOf(todo),
           UNCHANGED <<bkHead, orders, book, saved, orderList, bkBoots>>
    PROVE  RoundInv'
<1>1. item \in Listing /\ item \notin todo /\ Ahead = todo \cup {item}
  BY DEF StageInv, OnceInv, Ahead, Busy
<1>2. /\ pc' \in {"check", "insert"}
      /\ todo' \subseteq todo
      /\ Ahead' = todo
      /\ pc' = "check" => item' \in Listing /\ item' \in todo /\ item' \notin todo'
      /\ pc' = "insert" => todo' = {} /\ item' = <<>>
  BY NextOfLeft DEF BkTypeOK
<1>3. lastBlock' \in 0..(BkTop + 1) /\ lastBlock' <= bkHead + 1
  BY <1>1 DEF Later, BlockInv, BkTypeOK
<1>4. BkTypeOK'
  BY <1>1, <1>2, <1>3 DEF BkTypeOK
<1>5. StageInv'
  BY <1>2 DEF StageInv, Busy
<1>6. BlockInv'
  BY <1>1, <1>2, <1>3 DEF BlockInv
<1>7. OnceInv'
  BY <1>1, <1>2 DEF OnceInv, Busy
<1>8. AgainInv'
  BY <1>1, <1>2 DEF AgainInv
<1>9. NothingForgotten' /\ NeverMixed' /\ CoverInv'
  BY DEF NothingForgotten, NeverMixed, CoverInv
<1> QED
  BY <1>4, <1>5, <1>6, <1>7, <1>8, <1>9

LEMMA CheckRound == ASSUME RoundInv, Check PROVE RoundInv'
<1> USE DEF Check
<1>1. CASE pc' = "read" /\ UNCHANGED <<todo, item, lastBlock, bkSilent>>
  <2>1. Ahead' = Ahead /\ Busy' = Busy
    BY <1>1 DEF Ahead, Busy
  <2>2. BkTypeOK' /\ StageInv' /\ BlockInv' /\ OnceInv' /\ AgainInv'
    BY <1>1, <2>1 DEF BkTypeOK, StageInv, BlockInv, OnceInv, AgainInv
  <2>3. NothingForgotten' /\ NeverMixed'
    BY <1>1 DEF NothingForgotten, NeverMixed, Current
  <2>4. CoverInv'
    BY <1>1, <2>1 DEF CoverInv, Late, Pending, Shown
  <2> QED
    BY <2>2, <2>3, <2>4
<1>2. CASE bkSilent' = TRUE /\ lastBlock' = Later(item.block) /\ NextOf(todo)
  BY <1>2, SilentRound
<1> QED
  BY <1>1, <1>2

LEMMA ReadRound == ASSUME RoundInv, Read PROVE RoundInv'
<1> USE DEF Read
<1> DEFINE now == [contract |-> item.contract, block |-> orders[item.contract]]
<1>1. CASE orderList' = orderList \cup {now} /\ pc' = "remove"
           /\ UNCHANGED <<todo, item, lastBlock, bkSilent>>
  <2>1. Ahead' = Ahead /\ Busy' = Busy /\ item \in Listing /\ item \in Ahead
    BY <1>1 DEF Ahead, Busy, StageInv
  <2>2. now \in Listing /\ now.contract = item.contract /\ now.block = orders[now.contract]
    BY <2>1 DEF BkTypeOK
  <2> HIDE DEF now
  <2>3. BkTypeOK' /\ StageInv'
    BY <1>1, <2>1, <2>2 DEF BkTypeOK, StageInv
  <2>4. BlockInv' /\ AgainInv'
    BY <1>1, <2>1, <2>2 DEF BlockInv, AgainInv, BkTypeOK
  <2>5. OnceInv'
    <3>1. \A y \in book : y.contract = now.contract => now.block >= y.block
      BY <2>2 DEF BlockInv
    <3> QED
      BY <1>1, <2>1, <2>2, <3>1 DEF OnceInv
  <2>6. NothingForgotten' /\ NeverMixed'
    BY <1>1 DEF NothingForgotten, NeverMixed, Current
  <2>7. ASSUME NEW c \in Contract, Late(c)
        PROVE  Late(c)'
    BY <1>1, <2>1, <2>7 DEF Late
  <2>8. ASSUME NEW c \in Contract, c = item.contract
        PROVE  Pending(c)'
    BY <1>1, <2>1, <2>8 DEF Pending, now
  <2>9. ASSUME NEW c \in Contract, c # item.contract
        PROVE  /\ Pending(c) => Pending(c)'
               /\ Shown(c) => Shown(c)'
    BY <1>1, <2>1, <2>2, <2>9 DEF Pending, Shown
  <2>10. CoverInv'
    BY <1>1, <2>7, <2>8, <2>9 DEF CoverInv
  <2> QED
    BY <2>3, <2>4, <2>5, <2>6, <2>10
<1>2. CASE bkSilent' = TRUE /\ lastBlock' = Later(item.block) /\ NextOf(todo)
           /\ UNCHANGED orderList
  BY <1>2, SilentRound
<1> QED
  BY <1>1, <1>2

LEMMA RemoveRound == ASSUME RoundInv, Remove PROVE RoundInv'
<1> USE DEF Remove, Kept
<1>1. item \in Listing /\ item \notin todo /\ Ahead = todo \cup {item}
  BY DEF StageInv, OnceInv, Ahead, Busy
<1>2. /\ pc' \in {"check", "insert"}
      /\ todo' \subseteq todo
      /\ Ahead' = todo
      /\ pc' = "check" => item' \in Listing /\ item' \in todo /\ item' \notin todo'
      /\ pc' = "insert" => todo' = {} /\ item' = <<>>
  BY NextOfLeft DEF BkTypeOK
<1>3. /\ lastBlock' \in 0..(BkTop + 1) /\ lastBlock' <= bkHead + 1
      /\ lastBlock' = lastBlock \/ lastBlock' = item.block + 1
  BY <1>1 DEF Later, BlockInv, BkTypeOK
<1>4. BkTypeOK'
  BY <1>1, <1>2, <1>3 DEF BkTypeOK
<1>5. StageInv'
  BY <1>2 DEF StageInv, Busy
<1>6. BlockInv'
  BY <1>1, <1>2, <1>3 DEF BlockInv
<1>7. OnceInv'
  BY <1>1, <1>2 DEF OnceInv, Busy
<1>8. AgainInv'
  BY <1>1, <1>2 DEF AgainInv
<1>9. orders[item.contract] >= saved - Window
  BY <1>1 DEF AgainInv
<1>10. ASSUME NEW c \in Contract, c # item.contract
       PROVE  {x \in book' : x.contract = c} = {x \in book : x.contract = c}
  BY <1>10
<1>11. NothingForgotten' /\ NeverMixed'
  BY <1>9, <1>10 DEF NothingForgotten, NeverMixed, Current
<1>12. ASSUME NEW c \in Contract, Late(c)
       PROVE  Late(c)'
  BY <1>12, <1>1, <1>2, <1>3 DEF Late
<1>13. ASSUME NEW c \in Contract, c # item.contract
       PROVE  /\ Pending(c) => Pending(c)'
              /\ Shown(c) => Shown(c)'
  BY <1>13, <1>1, <1>2 DEF Pending, Shown
<1>14. ASSUME NEW c \in Contract, c = item.contract, Pending(c) \/ Shown(c)
       PROVE  Shown(c)'
  <2>1. [contract |-> c, block |-> orders[c]] \in orderList
    <3>1. CASE Pending(c)
      BY <1>14, <3>1, <1>1 DEF Pending, OnceInv
    <3>2. CASE Shown(c)
      <4>1. PICK x \in orderList : x.contract = item.contract
        BY DEF OnceInv
      <4>2. x \in Listing /\ x.block = orders[c]
        BY <3>2, <4>1, <1>14 DEF Shown, BkTypeOK
      <4>3. x = [contract |-> c, block |-> orders[c]]
        BY <4>1, <4>2, <1>14
      <4> QED
        BY <4>1, <4>3
    <3> QED
      BY <1>14, <3>1, <3>2
  <2>2. \A x \in orderList : x.contract = c => x.block = orders[c]
    BY <2>1 DEF OnceInv
  <2> QED
    BY <2>1, <2>2, <1>14 DEF Shown
<1>15. CoverInv'
  BY <1>12, <1>13, <1>14 DEF CoverInv
<1> QED
  BY <1>4, <1>5, <1>6, <1>7, <1>8, <1>11, <1>15

LEMMA InsertRound == ASSUME RoundInv, Insert PROVE RoundInv'
<1> USE DEF Insert
<1>1. Ahead = {} /\ Ahead' = {} /\ ~Busy'
  BY DEF Ahead, Busy, StageInv
<1>2. book \cup orderList = book' \cup orderList'
  OBVIOUS
<1>3. BkTypeOK' /\ StageInv' /\ AgainInv'
  BY <1>1 DEF BkTypeOK, StageInv, AgainInv
<1>4. BlockInv'
  BY <1>1, <1>2 DEF BlockInv
<1>5. OnceInv' /\ NeverMixed'
  BY <1>1 DEF OnceInv, NeverMixed
<1>6. NothingForgotten'
  <2> SUFFICES ASSUME ~bkSilent, NEW c \in Contract
               PROVE  \/ {x \in book' : x.contract = c} = Current(c)
                      \/ orders[c] >= saved - Window
    BY DEF NothingForgotten, Current
  <2>1. CASE \E x \in orderList : x.contract = c
    BY <2>1 DEF AgainInv
  <2>2. CASE ~ \E x \in orderList : x.contract = c
    <3>1. {x \in book' : x.contract = c} = {x \in book : x.contract = c}
      BY <2>2
    <3> QED
      BY <3>1 DEF NothingForgotten
  <2> QED
    BY <2>1, <2>2
<1>7. ASSUME NEW c \in Contract
      PROVE  /\ Late(c) => Late(c)'
             /\ ~Pending(c)
             /\ Shown(c) => Shown(c)'
  BY <1>1, <1>2 DEF Late, Pending, Shown
<1>8. CoverInv'
  BY <1>7 DEF CoverInv
<1> QED
  BY <1>3, <1>4, <1>5, <1>6, <1>8

LEMMA SaveRound == ASSUME RoundInv, Save PROVE RoundInv'
<1> USE DEF Save, ToSave
<1>1. Ahead = {} /\ Ahead' = {} /\ orderList = {} /\ orderList' = {} /\ ~Busy'
  BY DEF Ahead, Busy, StageInv
<1>2. BkTypeOK' /\ StageInv'
  BY <1>1 DEF BkTypeOK, StageInv
<1>3. BlockInv' /\ OnceInv' /\ AgainInv'
  BY <1>1 DEF BlockInv, OnceInv, AgainInv
<1>4. NeverMixed' /\ CoverInv'
  BY DEF NeverMixed, CoverInv
<1>5. ASSUME ~bkSilent, NEW c \in Contract, Shown(c)
      PROVE  {x \in book : x.contract = c} = Current(c)
  <2>1. CASE orders[c] = 0
    <3>1. \A x \in book : x.contract # c
      BY <2>1, <1>1 DEF BlockInv, BkTypeOK
    <3> QED
      BY <2>1, <3>1 DEF Current
  <2>2. CASE orders[c] > 0
    <3>1. [contract |-> c, block |-> orders[c]] \in book
      BY <2>2, <1>5, <1>1 DEF Shown
    <3>2. \A x \in book : x.contract = c => x = [contract |-> c, block |-> orders[c]]
      BY <1>5, <1>1 DEF Shown, BkTypeOK
    <3> QED
      BY <2>2, <3>1, <3>2 DEF Current
  <2> QED
    BY <2>1, <2>2 DEF BkTypeOK
<1>6. ASSUME ~bkSilent, NEW c \in Contract
      PROVE  Late(c) \/ Shown(c)
  BY <1>6, <1>1 DEF CoverInv, Pending
<1>7. NothingForgotten'
  BY <1>5, <1>6 DEF NothingForgotten, Current, Late
<1> QED
  BY <1>2, <1>3, <1>4, <1>7

\* The invariant of a round of the collector, whose parts say why BookSound holds:
\* a contract that is not in the book as it is on the chain is still to be read,
\* about to be inserted, or so late that the next round lists it.
THEOREM RoundCorrect == BkSpec => []RoundInv
<1>1. BkInit => RoundInv
  BY InitRound
<1>2. RoundInv /\ [BkNext]_bkVars => RoundInv'
  <2> SUFFICES ASSUME RoundInv, [BkNext]_bkVars PROVE RoundInv'
    OBVIOUS
  <2> HIDE DEF RoundInv
  <2>1. CASE BkGrow    BY <2>1, GrowRound
  <2>2. CASE BkBoot    BY <2>2, BootRound
  <2>3. CASE BkKill    BY <2>3, BootRound
  <2>4. CASE Ask     BY <2>4, AskRound
  <2>5. CASE Check   BY <2>5, CheckRound
  <2>6. CASE Read    BY <2>6, ReadRound
  <2>7. CASE Remove  BY <2>7, RemoveRound
  <2>8. CASE Insert  BY <2>8, InsertRound
  <2>9. CASE Save    BY <2>9, SaveRound
  <2>10. CASE UNCHANGED bkVars
    BY <2>10 DEF bkVars, RoundInv, BkTypeOK, NothingForgotten, NeverMixed, Current, StageInv,
                 BlockInv, OnceInv, AgainInv, CoverInv, Late, Pending, Shown, Ahead, Busy
  <2> QED
    BY <2>1, <2>2, <2>3, <2>4, <2>5, <2>6, <2>7, <2>8, <2>9, <2>10 DEF BkNext, Run
<1> QED
  BY <1>1, <1>2, PTL DEF BkSpec

\* However kills fall between removing, inserting and saving: a book that is out of
\* date is read again from the saved number, and never shows two times at once.
THEOREM BookCorrect == BkSpec => []BookSound
<1>1. RoundInv => BookSound
  OBVIOUS
<1> QED
  BY <1>1, RoundCorrect, PTL

\* The rows of a contract only go when those that take their place have been read
\* and wait to be inserted.
ReplacementRead ==
    \A x \in book \ book' : \E y \in orderList' :
        y.contract = x.contract /\ y.block >= x.block

RemovedOnceRead == [][ReplacementRead]_bkVars

\* A contract that gets no result keeps its old rows, and rows are only taken out for
\* others that are as new.
THEOREM BookOnlyReplaced == BkSpec => RemovedOnceRead
<1>1. RoundInv /\ [BkNext]_bkVars => ReplacementRead
  <2> SUFFICES ASSUME RoundInv, [BkNext]_bkVars, NEW x \in book \ book'
               PROVE  \E y \in orderList' : y.contract = x.contract /\ y.block >= x.block
    BY DEF ReplacementRead
  <2>1. Remove
    BY DEF BkNext, Run, bkVars, BkGrow, BkBoot, BkKill, Ask, Check, Read, Insert, Save
  <2>2. x.contract = item.contract
    BY <2>1 DEF Remove, Kept, BkTypeOK
  <2>3. PICK y \in orderList : y.contract = item.contract
    BY <2>1 DEF Remove, OnceInv
  <2> QED
    BY <2>1, <2>2, <2>3 DEF Remove, OnceInv
<1> QED
  BY <1>1, RoundCorrect, PTL DEF BkSpec, RemovedOnceRead
=============================================================================
