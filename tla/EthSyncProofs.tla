----------------------------- MODULE EthSyncProofs -----------------------------
(***************************************************************************)
(* Proofs about EthSync, for any blocks, length of a round and number of   *)
(* coroutines:                                                             *)
(*   SyncCorrect      Spec => []SyncInv, the inductive invariant           *)
(*   SyncIsSound      Spec => []SyncSound                                  *)
(*   OnceRecorded     Spec => []RecordedOnce                               *)
(*   SyncImplementsLog  Spec => ImplementsEthLog                           *)
(***************************************************************************)
EXTENDS EthSync, FiniteSetTheorems, TLAPS

-----------------------------------------------------------------------------
(* The inductive invariant.                                                *)

Reading == {"fetch", "find", "write"}

\* Whatever fails: what the coroutines share, and what each has in hand, is of blocks
\* that are published.
InHandPublished ==
    \A c \in Coroutines :
        /\ pc[c] \in Reading => block[c] <= published
        /\ pc[c] = "persist" => num[c] <= published

AheadInv == NeverAhead /\ roundEnd <= published /\ InHandPublished

\* Until a call fails there is one coroutine.
Alone ==
    /\ timers = 0
    /\ \A c, d \in Coroutines : pc[c] # "off" /\ pc[d] # "off" => c = d

\* All transactions up to a block are recorded.
Recorded(n) == \A b \in Heights, k \in Kinds : b <= n /\ k \in Trxs[b] => rows[<<b, k>>] > 0

\* So are those of a block that are not left.
Handled(b, left) == \A k \in Trxs[b] : k \in left \/ rows[<<b, k>>] > 0

\* No withdrawal of ETH is recorded above a block.
NoneAbove(n) == \A b \in Heights : b > n => rows[<<b, "eth out">>] = 0

\* The withdrawals of ETH of the block in hand may be there from the round before.
LeftBefore(b) == rows[<<b, "eth out">>] <= (IF b = syncNum THEN 1 ELSE 0)

\* Where the one coroutine is: what is cleared, which block it is at, what of the
\* block is recorded.
ClearInv(c) == pc[c] \in {"clear in", "clear out"} => num[c] = syncNum + 1

LatestInv(c) ==
    pc[c] = "latest" =>
        /\ lastSync = syncNum \/ lastSync = syncNum + 1
        /\ NoneAbove(syncNum)
        /\ lastSync = syncNum => LeftBefore(syncNum)

RoundInv(c) ==
    pc[c] \in Reading =>
        /\ roundStart = block[c] + 1 /\ syncNum <= block[c] /\ block[c] <= roundEnd
        /\ syncNum < roundEnd /\ roundEnd <= syncNum + Round + 1
        /\ Recorded(block[c] - 1) /\ NoneAbove(block[c])

ItemInv(c) ==
    /\ pc[c] = "fetch" => LeftBefore(block[c])
    /\ pc[c] \in {"find", "write"} =>
          /\ todo[c] \subseteq Trxs[block[c]] /\ item[c] \in Trxs[block[c]] /\ item[c] \notin todo[c]
          /\ Handled(block[c], todo[c] \cup {item[c]})
          /\ "eth out" \in todo[c] \/ item[c] = "eth out" => LeftBefore(block[c])
    /\ pc[c] = "write" => (found[c] <=> IsKnown(block[c], item[c]))

PersistInv(c) ==
    pc[c] = "persist" =>
        /\ num[c] = lastSync /\ syncNum < num[c] /\ num[c] <= syncNum + Round + 1
        /\ Recorded(num[c]) /\ NoneAbove(num[c])

OneInv(c) == ClearInv(c) /\ LatestInv(c) /\ RoundInv(c) /\ ItemInv(c) /\ PersistInv(c)

\* Nothing twice; a withdrawal of ETH above the sync number once at most, too.
OnceInv ==
    \A b \in Heights :
        /\ \A k \in Kinds \ {"eth out"} : rows[<<b, k>>] <= 1
        /\ rows[<<b, "eth out">>] <= (IF b <= syncNum THEN 2 ELSE 1)

\* Only what a block holds is recorded.
OfChain == \A b \in Heights, k \in Kinds : rows[<<b, k>>] > 0 => k \in Trxs[b]

MongoInv == Recorded(syncNum) /\ OnceInv /\ OfChain

SyncInv ==
    /\ TypeOK /\ AheadInv
    /\ ~failed => Alone /\ MongoInv /\ \A c \in Coroutines : OneInv(c)

-----------------------------------------------------------------------------
(* Lemmas.                                                                 *)

LEMMA ConstantsTyped ==
    /\ Top \in Nat /\ Round \in Nat /\ Round > 0
    /\ Trxs \in [Heights -> SUBSET Kinds] /\ Trxs[0] = {}
BY EthSyncAssumption

LEMMA Numbers ==
    ASSUME TypeOK
    PROVE  /\ Top \in Nat /\ Round \in Nat /\ Round > 0
           /\ published \in Int /\ published <= Top /\ 0 <= published
           /\ syncNum \in Int /\ 0 <= syncNum /\ syncNum <= Top
           /\ lastSync \in Int /\ 0 <= lastSync /\ lastSync <= Top + 1
           /\ roundStart \in Int /\ roundEnd \in Int /\ 0 <= roundEnd /\ roundEnd <= Top
<1>1. /\ published \in Heights /\ syncNum \in Heights /\ roundEnd \in Heights
      /\ lastSync \in 0..(Top + 1) /\ roundStart \in 0..(Top + 1)
  BY DEF TypeOK
<1> QED
  BY <1>1, ConstantsTyped DEF Heights

LEMMA HeightsAre ==
    /\ \A b \in Heights : b \in Int /\ 0 <= b /\ b <= Top
    /\ \A b \in Int : 0 <= b /\ b <= Top => b \in Heights
BY ConstantsTyped DEF Heights

LEMMA OutIsKind == "eth out" \in Kinds /\ "eth in" \in Kinds
BY DEF Kinds, EthKinds

LEMMA TrxsAreKinds == \A b \in Heights : Trxs[b] \subseteq Kinds
BY ConstantsTyped

LEMMA RowsTyped ==
    ASSUME TypeOK
    PROVE  \A b \in Heights, k \in Kinds : rows[<<b, k>>] \in 0..3
<1>1. \A b \in Heights, k \in Kinds : <<b, k>> \in Heights \X Kinds
  OBVIOUS
<1> QED
  BY <1>1 DEF TypeOK

\* The one coroutine there is keeps what the rest says of all of them.
LEMMA OneOnly ==
    ASSUME TypeOK, Alone, NEW c \in Coroutines, pc[c] # "off",
           \A d \in Coroutines \ {c} : pc'[d] = pc[d], timers' = timers, OneInv(c)'
    PROVE  Alone' /\ \A d \in Coroutines : OneInv(d)'
<1>1. \A d \in Coroutines \ {c} : pc'[d] = "off"
  BY DEF Alone
<1>2. Alone'
  BY <1>1 DEF Alone
<1>3. ASSUME NEW d \in Coroutines
      PROVE  OneInv(d)'
  <2>1. CASE d = c
    BY <2>1
  <2>2. CASE d # c
    BY <1>1, <2>2 DEF OneInv, ClearInv, LatestInv, RoundInv, ItemInv, PersistInv, Reading
  <2> QED
    BY <2>1, <2>2
<1> QED
  BY <1>2, <1>3

\* What NextBlock changes keeps its types, and to what is published.
Bounded ==
    /\ lastSync \in 0..(Top + 1) /\ roundStart \in 0..(Top + 1) /\ roundEnd \in Heights
    /\ pc \in [Coroutines -> {"off", "state", "read", "clear in", "clear out", "latest",
                              "fetch", "find", "write", "persist", "rest"}]
    /\ num \in [Coroutines -> 0..(Top + 1)]
    /\ block \in [Coroutines -> Heights]
    /\ roundEnd <= published /\ InHandPublished

LEMMA NextBlockBounded ==
    ASSUME TypeOK, AheadInv, NEW c \in Coroutines, NEW s \in 0..(Top + 1), NEW e \in Heights,
           e <= published, NextBlock(c, s, e), published' = published
    PROVE  Bounded' /\ \A d \in Coroutines \ {c} : pc'[d] = pc[d]
<1>1. CASE s <= e
  <2>1. /\ block' = [block EXCEPT ![c] = s] /\ roundStart' = s + 1 /\ roundEnd' = e
        /\ pc' = [pc EXCEPT ![c] = "fetch"] /\ num' = num /\ lastSync' = lastSync
    BY <1>1 DEF NextBlock
  <2>2. s \in Heights /\ s + 1 \in 0..(Top + 1) /\ s <= published
    BY <1>1, Numbers, HeightsAre
  <2>3. /\ pc'[c] = "fetch" /\ block'[c] = s
        /\ \A d \in Coroutines \ {c} : pc'[d] = pc[d] /\ block'[d] = block[d]
    BY <2>1 DEF TypeOK
  <2>4. InHandPublished'
    BY <2>1, <2>2, <2>3 DEF AheadInv, InHandPublished, Reading
  <2> QED
    BY <2>1, <2>2, <2>3, <2>4 DEF Bounded, TypeOK
<1>2. CASE ~(s <= e)
  <2>1. /\ block' = block /\ roundStart' = s /\ roundEnd' = e /\ lastSync' = e
        /\ pc' = [pc EXCEPT ![c] = "persist"] /\ num' = [num EXCEPT ![c] = e]
    BY <1>2 DEF NextBlock
  <2>2. e \in 0..(Top + 1)
    BY Numbers, HeightsAre
  <2>3. /\ pc'[c] = "persist" /\ num'[c] = e
        /\ \A d \in Coroutines \ {c} : pc'[d] = pc[d] /\ num'[d] = num[d]
    BY <2>1 DEF TypeOK
  <2>4. InHandPublished'
    BY <2>1, <2>3 DEF AheadInv, InHandPublished, Reading
  <2> QED
    BY <2>1, <2>2, <2>3, <2>4 DEF Bounded, TypeOK
<1> QED
  BY <1>1, <1>2

LEMMA NextItemBounded ==
    ASSUME TypeOK, AheadInv, NEW c \in Coroutines, pc[c] \in Reading,
           NEW left \in SUBSET Kinds, NextItem(c, left), published' = published
    PROVE  /\ Bounded' /\ todo' \in [Coroutines -> SUBSET Kinds] /\ item' \in [Coroutines -> Kinds]
           /\ \A d \in Coroutines \ {c} : pc'[d] = pc[d]
<1>1. CASE left # {}
  <2>1. /\ pc' = [pc EXCEPT ![c] = "find"]
        /\ UNCHANGED <<lastSync, roundStart, roundEnd, num, block>>
    BY <1>1 DEF NextItem, globals
  <2>2. PICK k \in left : /\ item' = [item EXCEPT ![c] = k]
                          /\ todo' = [todo EXCEPT ![c] = left \ {k}]
    BY <1>1 DEF NextItem
  <2>3. pc'[c] = "find" /\ \A d \in Coroutines \ {c} : pc'[d] = pc[d]
    BY <2>1 DEF TypeOK
  <2>4. InHandPublished'
    BY <2>1, <2>3 DEF AheadInv, InHandPublished, Reading
  <2>5. Bounded'
    BY <2>1, <2>4 DEF Bounded, TypeOK, AheadInv
  <2> QED
    BY <2>2, <2>3, <2>5 DEF TypeOK
<1>2. CASE left = {}
  <2>1. /\ todo' = [todo EXCEPT ![c] = {}] /\ item' = item
        /\ NextBlock(c, roundStart, roundEnd)
    BY <1>2 DEF NextItem
  <2>2. roundStart \in 0..(Top + 1) /\ roundEnd \in Heights /\ roundEnd <= published
    BY DEF TypeOK, AheadInv
  <2>3. Bounded' /\ \A d \in Coroutines \ {c} : pc'[d] = pc[d]
    BY <2>1, <2>2, NextBlockBounded
  <2> QED
    BY <2>1, <2>3 DEF TypeOK
<1> QED
  BY <1>1, <1>2

\* The next transaction of the block, or the next block of the round, is taken when
\* what goes before it is recorded.
LEMMA NextItemFound ==
    ASSUME TypeOK, NEW c \in Coroutines, NEW n \in Heights, NEW left \in SUBSET Trxs[n],
           NextItem(c, left)
    PROVE  /\ block[c] = n /\ syncNum' = syncNum
           /\ roundStart = n + 1 /\ syncNum <= n /\ n <= roundEnd
           /\ syncNum < roundEnd /\ roundEnd <= syncNum + Round + 1
           /\ Recorded(n - 1)' /\ Handled(n, left)' /\ NoneAbove(n)'
           /\ "eth out" \in left => LeftBefore(n)'
           => OneInv(c)'
<1>a. SUFFICES ASSUME block[c] = n, syncNum' = syncNum,
                     roundStart = n + 1 /\ syncNum <= n /\ n <= roundEnd
                     /\ syncNum < roundEnd /\ roundEnd <= syncNum + Round + 1,
                     Recorded(n - 1)', Handled(n, left)', NoneAbove(n)',
                     "eth out" \in left => LeftBefore(n)'
              PROVE  OneInv(c)'
  OBVIOUS
<1>b. /\ roundStart = n + 1 /\ syncNum <= n /\ n <= roundEnd
      /\ syncNum < roundEnd /\ roundEnd <= syncNum + Round + 1
  BY <1>a
<1>c. NoneAbove(n)'
  BY <1>a
<1>d. syncNum' = syncNum
  BY <1>a
<1>0. n \in Int /\ 0 <= n /\ n <= Top
  BY HeightsAre
<1>1. CASE left # {}
  <2>1. /\ pc' = [pc EXCEPT ![c] = "find"]
        /\ UNCHANGED <<lastSync, roundStart, roundEnd, num, block>>
    BY <1>1 DEF NextItem, globals
  <2>2. PICK k \in left : /\ item' = [item EXCEPT ![c] = k]
                          /\ todo' = [todo EXCEPT ![c] = left \ {k}]
    BY <1>1 DEF NextItem
  <2>3. pc'[c] = "find" /\ item'[c] = k /\ todo'[c] = left \ {k} /\ block'[c] = n
    BY <1>a, <2>1, <2>2 DEF TypeOK
  <2>4. RoundInv(c)'
    BY <1>0, <1>a, <2>1, <2>3 DEF RoundInv
  <2>5. ItemInv(c)'
    <3>1. "eth out" \in todo'[c] \/ item'[c] = "eth out" => "eth out" \in left
      BY <2>3
    <3>2. (left \ {k}) \cup {k} = left
      OBVIOUS
    <3>3. /\ todo'[c] \subseteq Trxs[block'[c]] /\ item'[c] \in Trxs[block'[c]]
          /\ item'[c] \notin todo'[c] /\ todo'[c] \cup {item'[c]} = left
      BY <2>3, <3>2
    <3> QED
      BY <1>a, <2>3, <3>1, <3>3 DEF ItemInv
  <2>6. ClearInv(c)' /\ LatestInv(c)' /\ PersistInv(c)'
    BY <2>3 DEF ClearInv, LatestInv, PersistInv
  <2> QED
    BY <2>4, <2>5, <2>6 DEF OneInv
<1>2. CASE left = {}
  <2>1. NextBlock(c, roundStart, roundEnd)
    BY <1>2 DEF NextItem
  <2>2. Recorded(n)'
    <3> SUFFICES ASSUME NEW b \in Heights, NEW k \in Kinds, b <= n, k \in Trxs[b]
                 PROVE  rows'[<<b, k>>] > 0
      BY DEF Recorded
    <3>0. b \in Int
      BY HeightsAre
    <3>1. b = n \/ b <= n - 1
      BY <1>0, <3>0
    <3>2. CASE b = n
      BY <1>2, <1>a, <3>2 DEF Handled
    <3>3. CASE b <= n - 1
      BY <1>a, <3>3 DEF Recorded
    <3> QED
      BY <3>1, <3>2, <3>3
  <2>3. CASE roundStart <= roundEnd
    <3>1. /\ block' = [block EXCEPT ![c] = roundStart] /\ roundStart' = roundStart + 1
          /\ roundEnd' = roundEnd /\ pc' = [pc EXCEPT ![c] = "fetch"]
      BY <2>1, <2>3 DEF NextBlock
    <3>2. pc'[c] = "fetch" /\ block'[c] = n + 1
      BY <1>a, <3>1 DEF TypeOK
    <3>3. n + 1 \in Heights /\ (n + 1) - 1 = n
      BY <1>0, <1>b, <2>3, Numbers, HeightsAre
    <3>4. NoneAbove(n + 1)'
      <4>1. \A b \in Heights : b > n + 1 => b > n
        BY <1>0, HeightsAre
      <4> QED
        BY <1>c, <4>1 DEF NoneAbove
    <3>5. roundEnd \in Int /\ syncNum \in Int
      BY Numbers
    <3>6. /\ roundStart' = block'[c] + 1 /\ syncNum' <= block'[c] /\ block'[c] <= roundEnd'
          /\ syncNum' < roundEnd' /\ roundEnd' <= syncNum' + Round + 1
      BY <1>0, <1>b, <1>d, <2>3, <3>1, <3>2, <3>5, ConstantsTyped
    <3>7. RoundInv(c)'
      BY <2>2, <3>2, <3>3, <3>4, <3>6 DEF RoundInv
    <3>8. rows'[<<n + 1, "eth out">>] = 0
      <4>1. n + 1 > n
        BY <1>0
      <4> QED
        BY <1>c, <3>3, <4>1 DEF NoneAbove
    <3>9. LeftBefore(n + 1)'
      <4>1. \A t \in BOOLEAN : 0 <= (IF t THEN 1 ELSE 0)
        OBVIOUS
      <4> QED
        BY <3>8, <4>1, Zenon DEF LeftBefore
    <3>10. ItemInv(c)'
      BY <3>2, <3>9 DEF ItemInv
    <3>11. ClearInv(c)' /\ LatestInv(c)' /\ PersistInv(c)'
      BY <3>2 DEF ClearInv, LatestInv, PersistInv
    <3> QED
      BY <3>7, <3>10, <3>11 DEF OneInv
  <2>4. CASE ~(roundStart <= roundEnd)
    <3>1. /\ roundEnd' = roundEnd /\ lastSync' = roundEnd
          /\ pc' = [pc EXCEPT ![c] = "persist"] /\ num' = [num EXCEPT ![c] = roundEnd]
      BY <2>1, <2>4 DEF NextBlock
    <3>2. roundEnd = n
      BY <1>0, <1>b, <2>4, Numbers
    <3>3. pc'[c] = "persist" /\ num'[c] = n
      BY <3>1, <3>2 DEF TypeOK
    <3>4. PersistInv(c)'
      BY <1>a, <2>2, <3>1, <3>2, <3>3 DEF PersistInv
    <3>5. ClearInv(c)' /\ LatestInv(c)' /\ RoundInv(c)' /\ ItemInv(c)'
      BY <3>3 DEF ClearInv, LatestInv, RoundInv, ItemInv, Reading
    <3> QED
      BY <3>4, <3>5 DEF OneInv
  <2> QED
    BY <2>3, <2>4
<1> QED
  BY <1>1, <1>2
LEMMA SameMongo ==
    ASSUME MongoInv, rows' = rows, syncNum' = syncNum
    PROVE  MongoInv'
BY DEF MongoInv, Recorded, OnceInv, OfChain

\* A coroutine goes on to where it has nothing in hand.
Between == {"state", "read", "clear in", "clear out", "latest", "rest"}

LEMMA GoesOn ==
    ASSUME TypeOK, InHandPublished, NEW c \in Coroutines, NEW to \in Between,
           pc' = [pc EXCEPT ![c] = to], block' = block, published' = published,
           \A d \in Coroutines \ {c} : num'[d] = num[d]
    PROVE  /\ pc' \in [Coroutines -> {"off", "state", "read", "clear in", "clear out", "latest",
                                      "fetch", "find", "write", "persist", "rest"}]
           /\ pc'[c] = to /\ \A d \in Coroutines \ {c} : pc'[d] = pc[d]
           /\ InHandPublished'
BY DEF TypeOK, InHandPublished, Between, Reading

-----------------------------------------------------------------------------
(* One lemma per action.                                                   *)

LEMMA InitSync == Init => SyncInv
<1> SUFFICES ASSUME Init
             PROVE  SyncInv
  OBVIOUS
<1>1. /\ published = 0 /\ syncNum = 0 /\ rows = [x \in Heights \X Kinds |-> 0]
      /\ lastSync = 0 /\ roundStart = 0 /\ roundEnd = 0
      /\ pc = [c \in Coroutines |-> "off"] /\ num = [c \in Coroutines |-> 0]
      /\ block = [c \in Coroutines |-> 0] /\ todo = [c \in Coroutines |-> {}]
      /\ item = [c \in Coroutines |-> "eth in"] /\ found = [c \in Coroutines |-> FALSE]
      /\ timers = 0 /\ boots = 0 /\ failed = FALSE
  BY DEF Init
<1>2. Cardinality(Coroutines) \in Nat /\ MaxBoots \in Nat
  BY EthSyncAssumption, FS_CardinalityType
<1>3. 0 \in Heights /\ 0 \in 0..(Top + 1)
  BY ConstantsTyped, HeightsAre
<1>4. TypeOK
  <2>1. 0 \in 0..Cardinality(Coroutines) /\ 0 \in 0..MaxBoots /\ 0 \in 0..3
    BY <1>2
  <2>2. rows \in [Heights \X Kinds -> 0..3]
    BY <1>1, <2>1
  <2>3. /\ num \in [Coroutines -> 0..(Top + 1)] /\ block \in [Coroutines -> Heights]
        /\ todo \in [Coroutines -> SUBSET Kinds]
        /\ item \in [Coroutines -> Kinds] /\ found \in [Coroutines -> BOOLEAN]
    BY <1>1, <1>3, OutIsKind
  <2>4. pc \in [Coroutines -> {"off", "state", "read", "clear in", "clear out", "latest",
                               "fetch", "find", "write", "persist", "rest"}]
    BY <1>1
  <2> QED
    BY <1>1, <1>3, <2>1, <2>2, <2>3, <2>4 DEF TypeOK
<1>5. ASSUME NEW b \in Heights, NEW k \in Kinds
      PROVE  rows[<<b, k>>] = 0
  <2>1. <<b, k>> \in Heights \X Kinds
    OBVIOUS
  <2> QED
    BY <1>1, <2>1
<1>6. AheadInv
  <2>1. InHandPublished
    BY <1>1 DEF InHandPublished, Reading
  <2>2. published = 0 /\ syncNum = 0 /\ roundEnd = 0
    BY <1>1
  <2>3. NeverAhead
    BY <1>5, <2>2 DEF NeverAhead
  <2> QED
    BY <2>1, <2>2, <2>3 DEF AheadInv
<1>7. Alone
  BY <1>1 DEF Alone
<1>8. MongoInv
  <2>1. Recorded(syncNum)
    <3>1. \A b \in Heights : b <= 0 => b = 0
      BY HeightsAre
    <3> QED
      BY <1>1, <3>1, ConstantsTyped DEF Recorded
  <2>2. OnceInv
    <3>1. \A b \in Heights : rows[<<b, "eth out">>] = 0
      BY <1>5, OutIsKind
    <3>2. \A t \in BOOLEAN : 0 <= (IF t THEN 2 ELSE 1)
      OBVIOUS
    <3>3. \A b \in Heights : rows[<<b, "eth out">>] <= (IF b <= syncNum THEN 2 ELSE 1)
      BY <3>1, <3>2, Zenon
    <3>4. \A b \in Heights, k \in Kinds : rows[<<b, k>>] <= 1
      <4>1. 0 <= 1
        OBVIOUS
      <4> QED
        BY <1>5, <4>1, Zenon
    <3> QED
      BY <3>3, <3>4 DEF OnceInv
  <2>3. OfChain
    BY <1>5 DEF OfChain
  <2> QED
    BY <2>1, <2>2, <2>3 DEF MongoInv
<1>9. \A c \in Coroutines : OneInv(c)
  BY <1>1 DEF OneInv, ClearInv, LatestInv, RoundInv, ItemInv, PersistInv, Reading
<1> QED
  BY <1>4, <1>6, <1>7, <1>8, <1>9 DEF SyncInv

LEMMA PublishStep == ASSUME SyncInv, Publish PROVE SyncInv'
<1>1. /\ published < Top /\ published' = published + 1
      /\ UNCHANGED <<syncNum, rows, lastSync, roundStart, roundEnd, pc, num,
                     block, todo, item, found, timers, boots, failed>>
  BY DEF Publish, mongo, globals, inHand
<1>2. TypeOK
  BY DEF SyncInv
<1>3. published' \in Heights
  BY <1>1, <1>2, Numbers, HeightsAre
<1>4. TypeOK'
  BY <1>1, <1>2, <1>3 DEF TypeOK
<1>5. \A b \in Heights : b <= published => b <= published'
  BY <1>1, <1>2, Numbers, HeightsAre
<1>6. AheadInv'
  <2>1. syncNum <= published' /\ roundEnd <= published'
    BY <1>1, <1>2, Numbers DEF SyncInv, AheadInv, NeverAhead
  <2>2. ASSUME NEW c \in Coroutines
        PROVE  num[c] <= published => num[c] <= published'
    <3>1. num[c] \in 0..(Top + 1)
      BY <1>2 DEF TypeOK
    <3> QED
      BY <1>1, <1>2, <3>1, Numbers
  <2>3. InHandPublished'
    BY <1>1, <1>2, <1>5, <2>2 DEF TypeOK, SyncInv, AheadInv, InHandPublished
  <2>4. NeverAhead'
    BY <1>1, <1>5, <2>1 DEF SyncInv, AheadInv, NeverAhead
  <2> QED
    BY <1>1, <2>1, <2>3, <2>4 DEF AheadInv
<1>7. ASSUME ~failed'
      PROVE  Alone' /\ MongoInv' /\ \A c \in Coroutines : OneInv(c)'
  BY <1>1, <1>7, SameMongo
     DEF SyncInv, Alone, OneInv, ClearInv, LatestInv, RoundInv, ItemInv, PersistInv,
         Recorded, Handled, NoneAbove, LeftBefore, IsKnown
<1> QED
  BY <1>4, <1>6, <1>7 DEF SyncInv

LEMMA BootStep == ASSUME SyncInv, Boot PROVE SyncInv'
<1>1. /\ \A c \in Coroutines : pc[c] = "off"
      /\ boots < MaxBoots /\ boots' = boots + 1
      /\ UNCHANGED <<published, syncNum, rows, lastSync, roundStart, roundEnd, num,
                     block, todo, item, found, timers, failed>>
  BY DEF Boot, mongo, globals, inHand
<1>2. PICK c \in Coroutines : pc' = [pc EXCEPT ![c] = "state"]
  BY DEF Boot
<1>3. TypeOK /\ AheadInv
  BY DEF SyncInv
<1>4. "state" \in Between
  BY DEF Between
<1>5. /\ pc' \in [Coroutines -> {"off", "state", "read", "clear in", "clear out", "latest",
                                 "fetch", "find", "write", "persist", "rest"}]
      /\ pc'[c] = "state" /\ \A d \in Coroutines \ {c} : pc'[d] = pc[d]
      /\ InHandPublished'
  BY <1>1, <1>2, <1>3, <1>4, GoesOn DEF AheadInv
<1>6. boots' \in 0..MaxBoots
  <2>1. MaxBoots \in Nat /\ boots \in 0..MaxBoots
    BY <1>3, EthSyncAssumption DEF TypeOK
  <2> QED
    BY <1>1, <2>1
<1>7. TypeOK'
  BY <1>1, <1>3, <1>5, <1>6 DEF TypeOK
<1>8. AheadInv'
  BY <1>1, <1>3, <1>5 DEF AheadInv, NeverAhead
<1>9. ASSUME ~failed'
      PROVE  Alone' /\ MongoInv' /\ \A d \in Coroutines : OneInv(d)'
  <2>1. MongoInv'
    BY <1>1, <1>9, SameMongo DEF SyncInv
  <2>2. Alone'
    BY <1>1, <1>5, <1>9 DEF SyncInv, Alone
  <2>3. \A d \in Coroutines : pc'[d] \in {"off", "state"}
    BY <1>1, <1>5
  <2>4. \A d \in Coroutines : OneInv(d)'
    BY <2>3 DEF OneInv, ClearInv, LatestInv, RoundInv, ItemInv, PersistInv, Reading
  <2> QED
    BY <2>1, <2>2, <2>4
<1> QED
  BY <1>7, <1>8, <1>9 DEF SyncInv

LEMMA KillStep == ASSUME SyncInv, Kill PROVE SyncInv'
<1>1. /\ pc' = [c \in Coroutines |-> "off"] /\ num' = [c \in Coroutines |-> 0]
      /\ block' = [c \in Coroutines |-> 0] /\ todo' = [c \in Coroutines |-> {}]
      /\ item' = [c \in Coroutines |-> "eth in"] /\ found' = [c \in Coroutines |-> FALSE]
      /\ lastSync' = 0 /\ roundStart' = 0 /\ roundEnd' = 0 /\ timers' = 0
      /\ UNCHANGED <<published, syncNum, rows, boots, failed>>
  BY DEF Kill, mongo
<1>2. TypeOK /\ AheadInv
  BY DEF SyncInv
<1>3. 0 \in Heights /\ 0 \in 0..(Top + 1) /\ 0 <= published
  BY <1>2, ConstantsTyped, HeightsAre, Numbers
<1>4. Cardinality(Coroutines) \in Nat
  BY EthSyncAssumption, FS_CardinalityType
<1>5. TypeOK'
  <2>1. 0 \in 0..Cardinality(Coroutines)
    BY <1>4
  <2>2. /\ num' \in [Coroutines -> 0..(Top + 1)] /\ block' \in [Coroutines -> Heights]
        /\ todo' \in [Coroutines -> SUBSET Kinds]
        /\ item' \in [Coroutines -> Kinds] /\ found' \in [Coroutines -> BOOLEAN]
    BY <1>1, <1>3, OutIsKind
  <2>3. pc' \in [Coroutines -> {"off", "state", "read", "clear in", "clear out", "latest",
                                "fetch", "find", "write", "persist", "rest"}]
    BY <1>1
  <2> QED
    BY <1>1, <1>2, <1>3, <2>1, <2>2, <2>3 DEF TypeOK
<1>6. AheadInv'
  <2>1. InHandPublished'
    BY <1>1 DEF InHandPublished, Reading
  <2> QED
    BY <1>1, <1>2, <1>3, <2>1 DEF AheadInv, NeverAhead
<1>7. ASSUME ~failed'
      PROVE  Alone' /\ MongoInv' /\ \A c \in Coroutines : OneInv(c)'
  <2>1. MongoInv'
    BY <1>1, <1>7, SameMongo DEF SyncInv
  <2>2. Alone'
    BY <1>1 DEF Alone
  <2>3. \A c \in Coroutines : OneInv(c)'
    BY <1>1 DEF OneInv, ClearInv, LatestInv, RoundInv, ItemInv, PersistInv, Reading
  <2> QED
    BY <2>1, <2>2, <2>3
<1> QED
  BY <1>5, <1>6, <1>7 DEF SyncInv

LEMMA TimerStep == ASSUME SyncInv, Timer PROVE SyncInv'
<1>1. /\ timers > 0 /\ timers' = timers - 1
      /\ UNCHANGED <<published, syncNum, rows, lastSync, roundStart, roundEnd, num,
                     block, todo, item, found, boots, failed>>
  BY DEF Timer, mongo, globals, inHand
<1>2. PICK c \in Coroutines : pc' = [pc EXCEPT ![c] = "state"]
  BY DEF Timer
<1>3. TypeOK /\ AheadInv
  BY DEF SyncInv
<1>4. "state" \in Between
  BY DEF Between
<1>5. /\ pc' \in [Coroutines -> {"off", "state", "read", "clear in", "clear out", "latest",
                                 "fetch", "find", "write", "persist", "rest"}]
      /\ InHandPublished'
  BY <1>1, <1>2, <1>3, <1>4, GoesOn DEF AheadInv
<1>6. timers' \in 0..Cardinality(Coroutines)
  <2>1. Cardinality(Coroutines) \in Nat /\ timers \in 0..Cardinality(Coroutines)
    BY <1>3, EthSyncAssumption, FS_CardinalityType DEF TypeOK
  <2> QED
    BY <1>1, <2>1
<1>7. TypeOK'
  BY <1>1, <1>3, <1>5, <1>6 DEF TypeOK
<1>8. AheadInv'
  BY <1>1, <1>3, <1>5 DEF AheadInv, NeverAhead
<1>9. failed'
  BY <1>1 DEF SyncInv, Alone
<1> QED
  BY <1>7, <1>8, <1>9 DEF SyncInv

LEMMA RaiseStep == ASSUME SyncInv, NEW c \in Coroutines, Raise(c) PROVE SyncInv'
<1>1. /\ failed' = TRUE /\ timers' = timers + 1 /\ pc' = [pc EXCEPT ![c] = "state"]
      /\ Cardinality(Running) + timers < Cardinality(Coroutines)
      /\ UNCHANGED <<published, syncNum, rows, lastSync, roundStart, roundEnd, num,
                     block, todo, item, found, boots>>
  BY DEF Raise, mongo, globals, inHand
<1>2. TypeOK /\ AheadInv
  BY DEF SyncInv
<1>3. "state" \in Between
  BY DEF Between
<1>4. /\ pc' \in [Coroutines -> {"off", "state", "read", "clear in", "clear out", "latest",
                                 "fetch", "find", "write", "persist", "rest"}]
      /\ InHandPublished'
  BY <1>1, <1>2, <1>3, GoesOn DEF AheadInv
<1>5. timers' \in 0..Cardinality(Coroutines)
  <2>1. Cardinality(Coroutines) \in Nat /\ timers \in 0..Cardinality(Coroutines)
    BY <1>2, EthSyncAssumption, FS_CardinalityType DEF TypeOK
  <2>2. IsFiniteSet(Coroutines) /\ Running \subseteq Coroutines
    BY EthSyncAssumption DEF Running
  <2>3. Cardinality(Running) \in Nat
    BY <2>2, FS_Subset, FS_CardinalityType
  <2> QED
    BY <1>1, <2>1, <2>3
<1>6. TypeOK'
  BY <1>1, <1>2, <1>4, <1>5 DEF TypeOK
<1>7. AheadInv'
  BY <1>1, <1>2, <1>4 DEF AheadInv, NeverAhead
<1> QED
  BY <1>1, <1>6, <1>7 DEF SyncInv

\* A step that only takes a coroutine from one place between blocks to another.
LEMMA MovesOnly ==
    ASSUME SyncInv, NEW c \in Coroutines, NEW to \in {"state", "read"}, pc[c] # "off",
           pc' = [pc EXCEPT ![c] = to],
           UNCHANGED <<published, mongo, globals, num, inHand, timers, boots, failed>>
    PROVE  SyncInv'
<1>1. UNCHANGED <<published, syncNum, rows, lastSync, roundStart, roundEnd, num,
                  block, todo, item, found, timers, boots, failed>>
  BY DEF mongo, globals, inHand
<1>2. TypeOK /\ AheadInv
  BY DEF SyncInv
<1>3. to \in Between
  BY DEF Between
<1>4. /\ pc' \in [Coroutines -> {"off", "state", "read", "clear in", "clear out", "latest",
                                 "fetch", "find", "write", "persist", "rest"}]
      /\ pc'[c] = to /\ \A d \in Coroutines \ {c} : pc'[d] = pc[d]
      /\ InHandPublished'
  BY <1>1, <1>2, <1>3, GoesOn DEF AheadInv
<1>5. TypeOK'
  BY <1>1, <1>2, <1>4 DEF TypeOK
<1>6. AheadInv'
  BY <1>1, <1>2, <1>4 DEF AheadInv, NeverAhead
<1>7. ASSUME ~failed'
      PROVE  Alone' /\ MongoInv' /\ \A d \in Coroutines : OneInv(d)'
  <2>1. MongoInv' /\ Alone
    BY <1>1, <1>7, SameMongo DEF SyncInv
  <2>2. OneInv(c)'
    BY <1>4 DEF OneInv, ClearInv, LatestInv, RoundInv, ItemInv, PersistInv, Reading
  <2> QED
    BY <1>1, <1>2, <1>4, <2>1, <2>2, OneOnly
<1> QED
  BY <1>5, <1>6, <1>7 DEF SyncInv

LEMMA SetStateStep == ASSUME SyncInv, NEW c \in Coroutines, SetState(c) PROVE SyncInv'
BY MovesOnly DEF SetState

LEMMA RestStep == ASSUME SyncInv, NEW c \in Coroutines, Rest(c) PROVE SyncInv'
BY MovesOnly DEF Rest
LEMMA ReadSyncStep == ASSUME SyncInv, NEW c \in Coroutines, ReadSync(c) PROVE SyncInv'
<1>1. /\ pc[c] = "read" /\ num' = [num EXCEPT ![c] = syncNum + 1]
      /\ pc' = [pc EXCEPT ![c] = "clear in"]
      /\ UNCHANGED <<published, syncNum, rows, lastSync, roundStart, roundEnd,
                     block, todo, item, found, timers, boots, failed>>
  BY DEF ReadSync, Resume, mongo, globals, inHand
<1>2. TypeOK /\ AheadInv
  BY DEF SyncInv
<1>3. "clear in" \in Between
  BY DEF Between
<1>4. /\ \A d \in Coroutines \ {c} : num'[d] = num[d]
      /\ num'[c] = syncNum + 1 /\ num' \in [Coroutines -> 0..(Top + 1)]
  <2>1. syncNum + 1 \in 0..(Top + 1)
    BY <1>2, Numbers
  <2> QED
    BY <1>1, <1>2, <2>1 DEF TypeOK
<1>5. /\ pc' \in [Coroutines -> {"off", "state", "read", "clear in", "clear out", "latest",
                                 "fetch", "find", "write", "persist", "rest"}]
      /\ pc'[c] = "clear in" /\ \A d \in Coroutines \ {c} : pc'[d] = pc[d]
      /\ InHandPublished'
  BY <1>1, <1>2, <1>3, <1>4, GoesOn DEF AheadInv
<1>6. TypeOK'
  BY <1>1, <1>2, <1>4, <1>5 DEF TypeOK
<1>7. AheadInv'
  BY <1>1, <1>2, <1>5 DEF AheadInv, NeverAhead
<1>8. ASSUME ~failed'
      PROVE  Alone' /\ MongoInv' /\ \A d \in Coroutines : OneInv(d)'
  <2>1. MongoInv' /\ Alone
    BY <1>1, <1>8, SameMongo DEF SyncInv
  <2>2. OneInv(c)'
    BY <1>1, <1>4, <1>5 DEF OneInv, ClearInv, LatestInv, RoundInv, ItemInv, PersistInv, Reading
  <2> QED
    BY <1>1, <1>2, <1>5, <2>1, <2>2, OneOnly
<1> QED
  BY <1>6, <1>7, <1>8 DEF SyncInv

\* A removal leaves the rows below the height, and those of the other kinds.
LEMMA Removed ==
    ASSUME TypeOK, NEW kind \in Kinds, NEW from \in Int, Remove(kind, from)
    PROVE  /\ rows' \in [Heights \X Kinds -> 0..3]
           /\ \A b \in Heights, k \in Kinds :
                /\ k = kind /\ b >= from => rows'[<<b, k>>] = 0
                /\ ~(k = kind /\ b >= from) => rows'[<<b, k>>] = rows[<<b, k>>]
<1>1. rows' = [x \in Heights \X Kinds |-> IF x[2] = kind /\ x[1] >= from THEN 0 ELSE rows[x]]
  BY DEF Remove
<1>2. rows \in [Heights \X Kinds -> 0..3]
  BY DEF TypeOK
<1>3. ASSUME NEW b \in Heights, NEW k \in Kinds
      PROVE  /\ k = kind /\ b >= from => rows'[<<b, k>>] = 0
             /\ ~(k = kind /\ b >= from) => rows'[<<b, k>>] = rows[<<b, k>>]
  <2>1. <<b, k>> \in Heights \X Kinds /\ <<b, k>>[1] = b /\ <<b, k>>[2] = k
    OBVIOUS
  <2> QED
    BY <1>1, <2>1
<1> QED
  BY <1>1, <1>2, <1>3

\* What is above the sync number may go without harm.
LEMMA RemovedAbove ==
    ASSUME TypeOK, NEW kind \in Kinds, Remove(kind, syncNum + 1), syncNum' = syncNum, MongoInv
    PROVE  MongoInv' /\ (kind = "eth out" => NoneAbove(syncNum)')
<1>1. syncNum \in Int /\ syncNum + 1 \in Int
  BY Numbers
<1>2. \A b \in Heights, k \in Kinds :
        /\ k = kind /\ b >= syncNum + 1 => rows'[<<b, k>>] = 0
        /\ ~(k = kind /\ b >= syncNum + 1) => rows'[<<b, k>>] = rows[<<b, k>>]
  BY <1>1, Removed
<1>3. \A b \in Heights : (b <= syncNum => ~(b >= syncNum + 1)) /\ (b > syncNum => b >= syncNum + 1)
  BY <1>1, HeightsAre
<1>4. \A b \in Heights, k \in Kinds : rows'[<<b, k>>] = rows[<<b, k>>] \/ rows'[<<b, k>>] = 0
  BY <1>2
<1>5. Recorded(syncNum)'
  BY <1>2, <1>3 DEF MongoInv, Recorded
<1>6. OnceInv'
  <2>1. \A t \in BOOLEAN : 0 <= (IF t THEN 2 ELSE 1)
    OBVIOUS
  <2>2. \A b \in Heights : rows'[<<b, "eth out">>] <= (IF b <= syncNum THEN 2 ELSE 1)
    BY <1>4, <2>1, OutIsKind, Zenon DEF MongoInv, OnceInv
  <2>3. \A b \in Heights : \A k \in Kinds \ {"eth out"} : rows'[<<b, k>>] <= 1
    <3>1. 0 <= 1
      OBVIOUS
    <3> QED
      BY <1>4, <3>1, Zenon DEF MongoInv, OnceInv
  <2> QED
    BY <2>2, <2>3 DEF OnceInv
<1>7. OfChain'
  BY <1>4 DEF MongoInv, OfChain
<1>8. ASSUME kind = "eth out"
      PROVE  NoneAbove(syncNum)'
  BY <1>2, <1>3, <1>8, OutIsKind DEF NoneAbove
<1> QED
  BY <1>5, <1>6, <1>7, <1>8 DEF MongoInv

LEMMA RemovedAhead ==
    ASSUME TypeOK, NEW kind \in Kinds, NEW from \in Int, Remove(kind, from), NeverAhead,
           syncNum' = syncNum, published' = published
    PROVE  NeverAhead'
<1>1. \A b \in Heights, k \in Kinds : rows'[<<b, k>>] = rows[<<b, k>>] \/ rows'[<<b, k>>] = 0
  BY Removed
<1> QED
  BY <1>1 DEF NeverAhead

LEMMA ClearInStep == ASSUME SyncInv, NEW c \in Coroutines, ClearIn(c) PROVE SyncInv'
<1>1. /\ pc[c] = "clear in"
      /\ UNCHANGED <<published, syncNum, roundStart, roundEnd, num,
                     block, todo, item, found, timers, boots>>
  BY DEF ClearIn, inHand
<1>2. TypeOK /\ AheadInv
  BY DEF SyncInv
<1>3. num[c] \in 0..(Top + 1) /\ num[c] \in Int
  <2>1. num[c] \in 0..(Top + 1)
    BY <1>2 DEF TypeOK
  <2> QED
    BY <2>1, ConstantsTyped
<1>4. "clear out" \in Between /\ "latest" \in Between
  BY DEF Between
<1>5. CASE Remove("eth in", num[c]) /\ pc' = [pc EXCEPT ![c] = "clear out"]
           /\ UNCHANGED <<lastSync, failed>>
  <2>1. /\ pc' \in [Coroutines -> {"off", "state", "read", "clear in", "clear out", "latest",
                                   "fetch", "find", "write", "persist", "rest"}]
        /\ pc'[c] = "clear out" /\ \A d \in Coroutines \ {c} : pc'[d] = pc[d]
        /\ InHandPublished'
    BY <1>1, <1>2, <1>4, <1>5, GoesOn DEF AheadInv
  <2>2. rows' \in [Heights \X Kinds -> 0..3]
    BY <1>2, <1>3, <1>5, OutIsKind, Removed
  <2>3. TypeOK'
    BY <1>1, <1>2, <1>5, <2>1, <2>2 DEF TypeOK
  <2>4. AheadInv'
    BY <1>1, <1>2, <1>3, <1>5, <2>1, OutIsKind, RemovedAhead DEF AheadInv
  <2>5. ASSUME ~failed'
        PROVE  Alone' /\ MongoInv' /\ \A d \in Coroutines : OneInv(d)'
    <3>1. Alone /\ MongoInv /\ OneInv(c)
      BY <1>5, <2>5 DEF SyncInv
    <3>2. num[c] = syncNum + 1
      BY <1>1, <3>1 DEF OneInv, ClearInv
    <3>3. MongoInv'
      BY <1>1, <1>2, <1>5, <3>1, <3>2, OutIsKind, RemovedAbove
    <3>4. OneInv(c)'
      BY <1>1, <2>1, <3>2 DEF OneInv, ClearInv, LatestInv, RoundInv, ItemInv, PersistInv, Reading
    <3> QED
      BY <1>1, <1>2, <2>1, <3>1, <3>3, <3>4, OneOnly
  <2> QED
    BY <2>3, <2>4, <2>5 DEF SyncInv
<1>6. CASE failed' = TRUE /\ pc' = [pc EXCEPT ![c] = "latest"] /\ lastSync' = num[c]
           /\ UNCHANGED rows
  <2>1. /\ pc' \in [Coroutines -> {"off", "state", "read", "clear in", "clear out", "latest",
                                   "fetch", "find", "write", "persist", "rest"}]
        /\ InHandPublished'
    BY <1>1, <1>2, <1>4, <1>6, GoesOn DEF AheadInv
  <2>2. TypeOK'
    BY <1>1, <1>2, <1>3, <1>6, <2>1 DEF TypeOK
  <2>3. AheadInv'
    BY <1>1, <1>2, <1>6, <2>1 DEF AheadInv, NeverAhead
  <2> QED
    BY <1>6, <2>2, <2>3 DEF SyncInv
<1> QED
  BY <1>5, <1>6 DEF ClearIn

LEMMA ClearOutStep == ASSUME SyncInv, NEW c \in Coroutines, ClearOut(c) PROVE SyncInv'
<1>1. /\ pc[c] = "clear out" /\ lastSync' = num[c] /\ pc' = [pc EXCEPT ![c] = "latest"]
      /\ UNCHANGED <<published, syncNum, roundStart, roundEnd, num,
                     block, todo, item, found, timers, boots>>
  BY DEF ClearOut, inHand
<1>2. TypeOK /\ AheadInv
  BY DEF SyncInv
<1>3. num[c] \in 0..(Top + 1) /\ num[c] \in Int
  <2>1. num[c] \in 0..(Top + 1)
    BY <1>2 DEF TypeOK
  <2> QED
    BY <2>1, ConstantsTyped
<1>4. "latest" \in Between
  BY DEF Between
<1>5. /\ pc' \in [Coroutines -> {"off", "state", "read", "clear in", "clear out", "latest",
                                 "fetch", "find", "write", "persist", "rest"}]
      /\ pc'[c] = "latest" /\ \A d \in Coroutines \ {c} : pc'[d] = pc[d]
      /\ InHandPublished'
  BY <1>1, <1>2, <1>4, GoesOn DEF AheadInv
<1>6. CASE Remove("eth out", num[c]) /\ UNCHANGED failed
  <2>1. rows' \in [Heights \X Kinds -> 0..3]
    BY <1>2, <1>3, <1>6, OutIsKind, Removed
  <2>2. TypeOK'
    BY <1>1, <1>2, <1>3, <1>5, <1>6, <2>1 DEF TypeOK
  <2>3. AheadInv'
    BY <1>1, <1>2, <1>3, <1>5, <1>6, OutIsKind, RemovedAhead DEF AheadInv
  <2>4. ASSUME ~failed'
        PROVE  Alone' /\ MongoInv' /\ \A d \in Coroutines : OneInv(d)'
    <3>1. Alone /\ MongoInv /\ OneInv(c)
      BY <1>6, <2>4 DEF SyncInv
    <3>2. num[c] = syncNum + 1
      BY <1>1, <3>1 DEF OneInv, ClearInv
    <3>3. MongoInv' /\ NoneAbove(syncNum)'
      BY <1>1, <1>2, <1>6, <3>1, <3>2, OutIsKind, RemovedAbove
    <3>4. lastSync' = syncNum' + 1 /\ lastSync' # syncNum'
      <4>1. syncNum \in Int /\ syncNum' = syncNum /\ lastSync' = num[c]
        BY <1>1, <1>2, Numbers
      <4> QED
        BY <3>2, <4>1
    <3>5. LatestInv(c)'
      BY <3>3, <3>4 DEF LatestInv
    <3>6. OneInv(c)'
      BY <1>5, <3>5 DEF OneInv, ClearInv, RoundInv, ItemInv, PersistInv, Reading
    <3> QED
      BY <1>1, <1>2, <1>5, <3>1, <3>3, <3>6, OneOnly
  <2> QED
    BY <2>2, <2>3, <2>4 DEF SyncInv
<1>7. CASE failed' = TRUE /\ UNCHANGED rows
  <2>1. TypeOK'
    BY <1>1, <1>2, <1>3, <1>5, <1>7 DEF TypeOK
  <2>2. AheadInv'
    BY <1>1, <1>2, <1>5, <1>7 DEF AheadInv, NeverAhead
  <2> QED
    BY <1>7, <2>1, <2>2 DEF SyncInv
<1> QED
  BY <1>6, <1>7 DEF ClearOut
LEMMA EndsRight ==
    ASSUME TypeOK, lastSync < published
    PROVE  /\ EndOfRound \in Heights /\ EndOfRound <= published
           /\ lastSync < EndOfRound /\ EndOfRound <= lastSync + Round
<1>1. /\ lastSync \in Int /\ 0 <= lastSync /\ published \in Int /\ published <= Top
      /\ Round \in Nat /\ Round > 0
  BY Numbers
<1>2. CASE lastSync + Round >= published
  <2>1. EndOfRound = published
    BY <1>2 DEF EndOfRound
  <2> QED
    BY <1>1, <1>2, <2>1, HeightsAre
<1>3. CASE ~(lastSync + Round >= published)
  <2>1. EndOfRound = lastSync + Round
    BY <1>3 DEF EndOfRound
  <2>2. /\ lastSync + Round \in Int /\ 0 <= lastSync + Round /\ lastSync + Round <= Top
        /\ lastSync + Round <= published /\ lastSync < lastSync + Round
        /\ lastSync + Round <= lastSync + Round
    BY <1>1, <1>3, ConstantsTyped
  <2>3. lastSync + Round \in Heights
    BY <2>2, HeightsAre
  <2> QED
    BY <2>1, <2>2, <2>3
<1> QED
  BY <1>2, <1>3

LEMMA LatestStep == ASSUME SyncInv, NEW c \in Coroutines, Latest(c) PROVE SyncInv'
<1>1. /\ pc[c] = "latest"
      /\ UNCHANGED <<published, syncNum, rows, todo, item, found, timers, boots, failed>>
  BY DEF Latest, mongo
<1>2. TypeOK /\ AheadInv
  BY DEF SyncInv
<1>3. CASE lastSync >= published
  <2>1. /\ roundStart' = published /\ roundEnd' = published /\ pc' = [pc EXCEPT ![c] = "rest"]
        /\ UNCHANGED <<num, lastSync, block>>
    BY <1>3 DEF Latest
  <2>2. "rest" \in Between
    BY DEF Between
  <2>3. /\ pc' \in [Coroutines -> {"off", "state", "read", "clear in", "clear out", "latest",
                                   "fetch", "find", "write", "persist", "rest"}]
        /\ pc'[c] = "rest" /\ \A d \in Coroutines \ {c} : pc'[d] = pc[d]
        /\ InHandPublished'
    BY <1>1, <1>2, <2>1, <2>2, GoesOn DEF AheadInv
  <2>4. published \in 0..(Top + 1) /\ published <= published
    BY <1>2, Numbers
  <2>5. TypeOK'
    BY <1>1, <1>2, <2>1, <2>3, <2>4 DEF TypeOK
  <2>6. AheadInv'
    BY <1>1, <1>2, <2>1, <2>3, <2>4 DEF AheadInv, NeverAhead
  <2>7. ASSUME ~failed'
        PROVE  Alone' /\ MongoInv' /\ \A d \in Coroutines : OneInv(d)'
    <3>1. MongoInv' /\ Alone
      BY <1>1, <2>7, SameMongo DEF SyncInv
    <3>2. OneInv(c)'
      BY <2>3 DEF OneInv, ClearInv, LatestInv, RoundInv, ItemInv, PersistInv, Reading
    <3> QED
      BY <1>1, <1>2, <2>3, <3>1, <3>2, OneOnly
  <2> QED
    BY <2>5, <2>6, <2>7 DEF SyncInv
<1>4. CASE ~(lastSync >= published)
  <2>1. NextBlock(c, lastSync, EndOfRound)
    BY <1>4 DEF Latest
  <2>2. lastSync < published /\ lastSync \in 0..(Top + 1)
    <3>1. lastSync \in 0..(Top + 1)
      BY <1>2 DEF TypeOK
    <3> QED
      BY <1>2, <1>4, <3>1, Numbers
  <2>3. /\ EndOfRound \in Heights /\ EndOfRound <= published
        /\ lastSync < EndOfRound /\ EndOfRound <= lastSync + Round
    BY <1>2, <2>2, EndsRight
  <2>4. Bounded' /\ \A d \in Coroutines \ {c} : pc'[d] = pc[d]
    BY <1>1, <1>2, <2>1, <2>2, <2>3, NextBlockBounded
  <2>5. TypeOK'
    BY <1>1, <1>2, <2>4 DEF TypeOK, Bounded
  <2>6. AheadInv'
    BY <1>1, <1>2, <2>4 DEF AheadInv, NeverAhead, Bounded
  <2>7. ASSUME ~failed'
        PROVE  Alone' /\ MongoInv' /\ \A d \in Coroutines : OneInv(d)'
    <3>1. MongoInv' /\ Alone /\ MongoInv /\ OneInv(c)
      BY <1>1, <2>7, SameMongo DEF SyncInv
    <3>2. /\ lastSync = syncNum \/ lastSync = syncNum + 1
          /\ NoneAbove(syncNum)
          /\ lastSync = syncNum => LeftBefore(syncNum)
      BY <1>1, <3>1 DEF OneInv, LatestInv
    <3>3. /\ lastSync \in Int /\ syncNum \in Int /\ EndOfRound \in Int /\ Round \in Nat
          /\ lastSync \in Heights /\ lastSync <= EndOfRound
      BY <1>2, <2>2, <2>3, Numbers, HeightsAre
    <3>4. /\ block' = [block EXCEPT ![c] = lastSync] /\ roundStart' = lastSync + 1
          /\ roundEnd' = EndOfRound /\ pc' = [pc EXCEPT ![c] = "fetch"]
      BY <2>1, <3>3 DEF NextBlock
    <3>5. pc'[c] = "fetch" /\ block'[c] = lastSync
      BY <1>2, <3>4 DEF TypeOK
    <3>6. /\ roundStart' = block'[c] + 1 /\ syncNum' <= block'[c] /\ block'[c] <= roundEnd'
          /\ syncNum' < roundEnd' /\ roundEnd' <= syncNum' + Round + 1
      <4>1. /\ syncNum <= lastSync /\ lastSync <= syncNum + 1
            /\ syncNum < EndOfRound /\ EndOfRound <= syncNum + Round + 1
        BY <2>3, <3>2, <3>3
      <4> QED
        BY <1>1, <3>3, <3>4, <3>5, <4>1
    <3>7. Recorded(lastSync - 1) /\ NoneAbove(lastSync) /\ LeftBefore(lastSync)
      <4>1. \A b \in Heights : (b <= lastSync - 1 => b <= syncNum) /\ (b > lastSync => b > syncNum)
        BY <3>2, <3>3, HeightsAre
      <4>2. Recorded(lastSync - 1) /\ NoneAbove(lastSync)
        BY <3>1, <3>2, <4>1 DEF MongoInv, Recorded, NoneAbove
      <4>3. CASE lastSync = syncNum
        <5>1. LeftBefore(lastSync)
          BY <3>2, <4>3 DEF LeftBefore
        <5> QED
          BY <4>2, <5>1
      <4>4. CASE lastSync = syncNum + 1
        <5>1. lastSync > syncNum
          BY <3>3, <4>4
        <5>2. rows[<<lastSync, "eth out">>] = 0
          BY <3>2, <3>3, <5>1 DEF NoneAbove
        <5>3. \A t \in BOOLEAN : 0 <= (IF t THEN 1 ELSE 0)
          OBVIOUS
        <5>4. LeftBefore(lastSync)
          BY <5>2, <5>3, Zenon DEF LeftBefore
        <5> QED
          BY <4>2, <5>4
      <4> QED
        BY <3>2, <4>2, <4>3, <4>4
    <3>8. Recorded(block[c] - 1)' /\ NoneAbove(block[c])' /\ LeftBefore(block[c])'
      BY <1>1, <3>5, <3>7 DEF Recorded, NoneAbove, LeftBefore
    <3>9. RoundInv(c)'
      BY <3>6, <3>8 DEF RoundInv
    <3>10. ItemInv(c)'
      BY <3>5, <3>8 DEF ItemInv
    <3>11. ClearInv(c)' /\ LatestInv(c)' /\ PersistInv(c)'
      BY <3>5 DEF ClearInv, LatestInv, PersistInv
    <3>12. OneInv(c)'
      BY <3>9, <3>10, <3>11 DEF OneInv
    <3> QED
      BY <1>1, <1>2, <2>4, <3>1, <3>12, OneOnly
  <2> QED
    BY <2>5, <2>6, <2>7 DEF SyncInv
<1> QED
  BY <1>3, <1>4

LEMMA PersistStep == ASSUME SyncInv, NEW c \in Coroutines, Persist(c) PROVE SyncInv'
<1>1. /\ pc[c] = "persist" /\ syncNum' = num[c] /\ pc' = [pc EXCEPT ![c] = "latest"]
      /\ UNCHANGED <<published, rows, lastSync, roundStart, roundEnd, num,
                     block, todo, item, found, timers, boots, failed>>
  BY DEF Persist, Committed, globals, inHand
<1>2. TypeOK /\ AheadInv
  BY DEF SyncInv
<1>3. "latest" \in Between
  BY DEF Between
<1>4. /\ pc' \in [Coroutines -> {"off", "state", "read", "clear in", "clear out", "latest",
                                 "fetch", "find", "write", "persist", "rest"}]
      /\ pc'[c] = "latest" /\ \A d \in Coroutines \ {c} : pc'[d] = pc[d]
      /\ InHandPublished'
  BY <1>1, <1>2, <1>3, GoesOn DEF AheadInv
<1>5. num[c] \in Heights /\ num[c] \in Int /\ num[c] <= published
  <2>1. num[c] \in 0..(Top + 1) /\ num[c] <= published
    BY <1>1, <1>2 DEF TypeOK, AheadInv, InHandPublished
  <2> QED
    BY <1>2, <2>1, Numbers, HeightsAre
<1>6. TypeOK'
  BY <1>1, <1>2, <1>4, <1>5 DEF TypeOK
<1>7. AheadInv'
  BY <1>1, <1>2, <1>4, <1>5 DEF AheadInv, NeverAhead
<1>8. ASSUME ~failed'
      PROVE  Alone' /\ MongoInv' /\ \A d \in Coroutines : OneInv(d)'
  <2>1. MongoInv /\ Alone /\ OneInv(c)
    BY <1>1, <1>8 DEF SyncInv
  <2>2. /\ num[c] = lastSync /\ syncNum < num[c]
        /\ Recorded(num[c]) /\ NoneAbove(num[c])
    BY <1>1, <2>1 DEF OneInv, PersistInv
  <2>3. syncNum \in Int
    BY <1>2, Numbers
  <2>4. Recorded(syncNum)' /\ NoneAbove(syncNum)'
    BY <1>1, <2>2 DEF Recorded, NoneAbove
  <2>5. OnceInv'
    <3>1. ASSUME NEW b \in Heights
          PROVE  rows[<<b, "eth out">>] <= (IF b <= num[c] THEN 2 ELSE 1)
      <4>1. b \in Int
        BY HeightsAre
      <4>2. rows[<<b, "eth out">>] \in 0..3
        BY <1>2, RowsTyped, OutIsKind
      <4>3. rows[<<b, "eth out">>] <= (IF b <= syncNum THEN 2 ELSE 1)
        BY <2>1 DEF MongoInv, OnceInv
      <4>4. CASE b <= syncNum
        <5>1. b <= num[c]
          BY <1>5, <2>2, <2>3, <4>1, <4>4
        <5> QED
          BY <4>3, <4>4, <5>1
      <4>5. CASE ~(b <= syncNum)
        <5>1. rows[<<b, "eth out">>] <= 1
          BY <4>3, <4>5
        <5>2. \A n \in 0..3 : n <= 1 => n <= 2
          OBVIOUS
        <5> QED
          BY <4>2, <5>1, <5>2
      <4> QED
        BY <4>4, <4>5
    <3>2. \A b \in Heights : rows'[<<b, "eth out">>] <= (IF b <= syncNum' THEN 2 ELSE 1)
      BY <1>1, <3>1
    <3> QED
      BY <1>1, <2>1, <3>2 DEF MongoInv, OnceInv
  <2>6. MongoInv'
    BY <1>1, <2>1, <2>4, <2>5 DEF MongoInv, OfChain
  <2>7. LeftBefore(syncNum)'
    <3>1. ~(num[c] <= syncNum)
      BY <1>5, <2>2, <2>3
    <3>2. rows[<<num[c], "eth out">>] <= 1
      BY <1>5, <2>1, <3>1 DEF MongoInv, OnceInv
    <3> QED
      BY <1>1, <3>2 DEF LeftBefore
  <2>8. LatestInv(c)'
    BY <1>1, <2>2, <2>4, <2>7 DEF LatestInv
  <2>9. OneInv(c)'
    BY <1>4, <2>8 DEF OneInv, ClearInv, RoundInv, ItemInv, PersistInv, Reading
  <2> QED
    BY <1>1, <1>2, <1>4, <2>1, <2>6, <2>9, OneOnly
<1> QED
  BY <1>6, <1>7, <1>8 DEF SyncInv

\* A step that takes the next transaction without a row.
LEMMA TakesNext ==
    ASSUME SyncInv, NEW c \in Coroutines, pc[c] \in Reading, NEW left \in SUBSET Kinds,
           NextItem(c, left), found' \in [Coroutines -> BOOLEAN], failed' \in BOOLEAN,
           UNCHANGED <<published, syncNum, rows, timers, boots>>
    PROVE  TypeOK' /\ AheadInv' /\ \A d \in Coroutines \ {c} : pc'[d] = pc[d]
<1>1. TypeOK /\ AheadInv
  BY DEF SyncInv
<1>2. /\ Bounded' /\ todo' \in [Coroutines -> SUBSET Kinds] /\ item' \in [Coroutines -> Kinds]
      /\ \A d \in Coroutines \ {c} : pc'[d] = pc[d]
  BY <1>1, NextItemBounded
<1>3. TypeOK'
  BY <1>1, <1>2 DEF TypeOK, Bounded
<1>4. AheadInv'
  BY <1>1, <1>2 DEF AheadInv, NeverAhead, Bounded
<1> QED
  BY <1>2, <1>3, <1>4

LEMMA FetchStep == ASSUME SyncInv, NEW c \in Coroutines, Fetch(c) PROVE SyncInv'
<1>1. pc[c] = "fetch" /\ UNCHANGED <<published, syncNum, rows, found, timers, boots>>
  BY DEF Fetch, mongo
<1>2. TypeOK /\ AheadInv
  BY DEF SyncInv
<1>3. PICK n \in Heights : block[c] = n
  BY <1>2 DEF TypeOK
<1>4. Trxs[n] \in SUBSET Kinds /\ Trxs[n] \ ErcKinds \in SUBSET Kinds
  BY TrxsAreKinds
<1>5. pc[c] \in Reading /\ found' \in [Coroutines -> BOOLEAN]
  BY <1>1, <1>2 DEF Reading, TypeOK
<1>6. CASE NextItem(c, Trxs[n]) /\ failed' = failed
  <2>1. failed' \in BOOLEAN
    BY <1>2, <1>6 DEF TypeOK
  <2>2. TypeOK' /\ AheadInv' /\ \A d \in Coroutines \ {c} : pc'[d] = pc[d]
    BY <1>1, <1>4, <1>5, <1>6, <2>1, TakesNext
  <2>3. ASSUME ~failed'
        PROVE  Alone' /\ MongoInv' /\ \A d \in Coroutines : OneInv(d)'
    <3>1. MongoInv' /\ Alone /\ OneInv(c)
      BY <1>1, <1>6, <2>3, SameMongo DEF SyncInv
    <3>2. /\ roundStart = n + 1 /\ syncNum <= n /\ n <= roundEnd
          /\ syncNum < roundEnd /\ roundEnd <= syncNum + Round + 1
      BY <1>3, <1>5, <3>1 DEF OneInv, RoundInv
    <3>3. Recorded(n - 1) /\ NoneAbove(n) /\ LeftBefore(n)
      BY <1>1, <1>3, <1>5, <3>1 DEF OneInv, RoundInv, ItemInv
    <3>4. Recorded(n - 1)' /\ NoneAbove(n)' /\ LeftBefore(n)'
      BY <1>1, <3>3 DEF Recorded, NoneAbove, LeftBefore
    <3>5. Handled(n, Trxs[n])'
      BY DEF Handled
    <3>6. OneInv(c)'
      BY <1>1, <1>2, <1>3, <1>6, <3>2, <3>4, <3>5, NextItemFound
    <3> QED
      BY <1>1, <1>2, <2>2, <3>1, <3>6, OneOnly
  <2> QED
    BY <2>2, <2>3 DEF SyncInv
<1>7. CASE failed' = TRUE /\ NextItem(c, Trxs[n] \ ErcKinds)
  BY <1>1, <1>4, <1>5, <1>7, TakesNext DEF SyncInv
<1> QED
  BY <1>3, <1>6, <1>7 DEF Fetch

LEMMA SkipStep == ASSUME SyncInv, NEW c \in Coroutines, Skip(c) PROVE SyncInv'
<1>1. /\ failed' = TRUE /\ pc[c] \in {"find", "write"} /\ NextItem(c, todo[c])
      /\ found' = [found EXCEPT ![c] = FALSE]
      /\ UNCHANGED <<published, syncNum, rows, timers, boots>>
  BY DEF Skip, mongo
<1>2. TypeOK
  BY DEF SyncInv
<1>3. pc[c] \in Reading /\ todo[c] \in SUBSET Kinds /\ found' \in [Coroutines -> BOOLEAN]
  BY <1>1, <1>2 DEF Reading, TypeOK
<1> QED
  BY <1>1, <1>3, TakesNext DEF SyncInv

LEMMA FindStep == ASSUME SyncInv, NEW c \in Coroutines, Find(c) PROVE SyncInv'
<1>1. /\ pc[c] = "find" /\ found' = [found EXCEPT ![c] = IsKnown(block[c], item[c])]
      /\ pc' = [pc EXCEPT ![c] = "write"]
      /\ UNCHANGED <<published, syncNum, rows, lastSync, roundStart, roundEnd, num,
                     block, todo, item, timers, boots, failed>>
  BY DEF Find, mongo, globals
<1>2. TypeOK /\ AheadInv
  BY DEF SyncInv
<1>3. IsKnown(block[c], item[c]) \in BOOLEAN
  BY DEF IsKnown
<1>4. /\ pc'[c] = "write" /\ \A d \in Coroutines \ {c} : pc'[d] = pc[d]
      /\ found'[c] = IsKnown(block[c], item[c])
      /\ pc' \in [Coroutines -> {"off", "state", "read", "clear in", "clear out", "latest",
                                 "fetch", "find", "write", "persist", "rest"}]
      /\ found' \in [Coroutines -> BOOLEAN]
  BY <1>1, <1>2, <1>3 DEF TypeOK
<1>5. TypeOK'
  BY <1>1, <1>2, <1>4 DEF TypeOK
<1>6. AheadInv'
  <2>1. InHandPublished'
    BY <1>1, <1>2, <1>4 DEF AheadInv, InHandPublished, Reading
  <2> QED
    BY <1>1, <1>2, <2>1 DEF AheadInv, NeverAhead
<1>7. ASSUME ~failed'
      PROVE  Alone' /\ MongoInv' /\ \A d \in Coroutines : OneInv(d)'
  <2>1. MongoInv' /\ Alone /\ OneInv(c)
    BY <1>1, <1>7, SameMongo DEF SyncInv
  <2>2. RoundInv(c)'
    BY <1>1, <2>1 DEF OneInv, RoundInv, Reading, Recorded, NoneAbove
  <2>3. ItemInv(c)'
    <3>1. /\ todo[c] \subseteq Trxs[block[c]] /\ item[c] \in Trxs[block[c]]
          /\ item[c] \notin todo[c] /\ Handled(block[c], todo[c] \cup {item[c]})
          /\ "eth out" \in todo[c] \/ item[c] = "eth out" => LeftBefore(block[c])
      BY <1>1, <2>1 DEF OneInv, ItemInv
    <3>2. Handled(block[c], todo[c] \cup {item[c]})'
      BY <1>1, <3>1 DEF Handled
    <3>3. "eth out" \in todo'[c] \/ item'[c] = "eth out" => LeftBefore(block[c])'
      BY <1>1, <3>1 DEF LeftBefore
    <3>4. found'[c] <=> IsKnown(block[c], item[c])'
      BY <1>1, <1>4 DEF IsKnown
    <3> QED
      BY <1>1, <1>4, <3>1, <3>2, <3>3, <3>4 DEF ItemInv
  <2>4. OneInv(c)'
    BY <1>4, <2>2, <2>3 DEF OneInv, ClearInv, LatestInv, PersistInv
  <2> QED
    BY <1>1, <1>2, <1>4, <2>1, <2>4, OneOnly
<1> QED
  BY <1>5, <1>6, <1>7 DEF SyncInv
\* The row that is written, and the others.
LEMMA Written ==
    ASSUME TypeOK, NEW c \in Coroutines, NEW n \in Heights, NEW i \in Kinds,
           block[c] = n, item[c] = i,
           rows' = IF found[c] THEN rows ELSE [rows EXCEPT ![<<block[c], item[c]>>] = Count(@)]
    PROVE  /\ rows' \in [Heights \X Kinds -> 0..3]
           /\ \A b \in Heights, k \in Kinds :
                b # n \/ k # i => rows'[<<b, k>>] = rows[<<b, k>>]
           /\ found[c] => rows'[<<n, i>>] = rows[<<n, i>>]
           /\ ~found[c] => /\ rows'[<<n, i>>] > 0
                           /\ rows'[<<n, i>>] <= rows[<<n, i>>] + 1
<1>1. rows \in [Heights \X Kinds -> 0..3] /\ <<n, i>> \in Heights \X Kinds
  BY DEF TypeOK
<1>2. CASE found[c]
  BY <1>1, <1>2
<1>3. CASE ~found[c]
  <2>1. rows' = [rows EXCEPT ![<<n, i>>] = Count(rows[<<n, i>>])]
    BY <1>3
  <2>2. PICK m \in 0..3 : rows[<<n, i>>] = m
    BY <1>1
  <2>3. Count(m) \in 0..3 /\ Count(m) > 0 /\ Count(m) <= m + 1
    BY DEF Count
  <2>4. rows'[<<n, i>>] = Count(m)
    BY <1>1, <2>1, <2>2
  <2>5. rows' \in [Heights \X Kinds -> 0..3]
    BY <1>1, <2>1, <2>2, <2>3
  <2>6. ASSUME NEW b \in Heights, NEW k \in Kinds, b # n \/ k # i
        PROVE  rows'[<<b, k>>] = rows[<<b, k>>]
    <3>1. <<b, k>> \in Heights \X Kinds /\ <<b, k>> # <<n, i>>
      BY <2>6
    <3> QED
      BY <1>1, <2>1, <3>1
  <2> QED
    BY <1>3, <2>2, <2>3, <2>4, <2>5, <2>6
<1> QED
  BY <1>2, <1>3

LEMMA WriteStep == ASSUME SyncInv, NEW c \in Coroutines, Write(c) PROVE SyncInv'
<1>1. /\ pc[c] = "write" /\ NextItem(c, todo[c])
      /\ rows' = IF found[c] THEN rows ELSE [rows EXCEPT ![<<block[c], item[c]>>] = Count(@)]
      /\ found' = [found EXCEPT ![c] = FALSE]
      /\ UNCHANGED <<published, syncNum, timers, boots, failed>>
  BY DEF Write
<1>2. TypeOK /\ AheadInv
  BY DEF SyncInv
<1>3. PICK n \in Heights : block[c] = n
  BY <1>2 DEF TypeOK
<1>4. PICK i \in Kinds : item[c] = i
  BY <1>2 DEF TypeOK
<1>5. PICK left \in SUBSET Kinds : todo[c] = left
  BY <1>2 DEF TypeOK
<1>6. /\ rows' \in [Heights \X Kinds -> 0..3]
      /\ \A b \in Heights, k \in Kinds : b # n \/ k # i => rows'[<<b, k>>] = rows[<<b, k>>]
      /\ found[c] => rows'[<<n, i>>] = rows[<<n, i>>]
      /\ ~found[c] => rows'[<<n, i>>] > 0 /\ rows'[<<n, i>>] <= rows[<<n, i>>] + 1
  BY <1>1, <1>2, <1>3, <1>4, Written
<1>7. pc[c] \in Reading /\ found' \in [Coroutines -> BOOLEAN]
  BY <1>1, <1>2 DEF Reading, TypeOK
<1>8. /\ Bounded' /\ todo' \in [Coroutines -> SUBSET Kinds] /\ item' \in [Coroutines -> Kinds]
      /\ \A d \in Coroutines \ {c} : pc'[d] = pc[d]
  BY <1>1, <1>2, <1>5, <1>7, NextItemBounded
<1>9. TypeOK'
  BY <1>1, <1>2, <1>6, <1>7, <1>8 DEF TypeOK, Bounded
<1>10. AheadInv'
  <2>1. n <= published
    BY <1>2, <1>3, <1>7 DEF AheadInv, InHandPublished
  <2>2. \A b \in Heights, k \in Kinds : rows'[<<b, k>>] > 0 => b <= published
    BY <1>2, <1>6, <2>1 DEF AheadInv, NeverAhead
  <2> QED
    BY <1>1, <1>2, <1>8, <2>2 DEF AheadInv, NeverAhead, Bounded
<1>11. ASSUME ~failed'
       PROVE  Alone' /\ MongoInv' /\ \A d \in Coroutines : OneInv(d)'
  <2>1. MongoInv /\ Alone /\ OneInv(c)
    BY <1>1, <1>11 DEF SyncInv
  <2>2. /\ roundStart = n + 1 /\ syncNum <= n /\ n <= roundEnd
        /\ syncNum < roundEnd /\ roundEnd <= syncNum + Round + 1
        /\ Recorded(n - 1) /\ NoneAbove(n)
    BY <1>3, <1>7, <2>1 DEF OneInv, RoundInv
  <2>3. /\ left \subseteq Trxs[n] /\ i \in Trxs[n] /\ i \notin left
        /\ Handled(n, left \cup {i})
        /\ "eth out" \in left \/ i = "eth out" => LeftBefore(n)
    BY <1>1, <1>3, <1>4, <1>5, <2>1 DEF OneInv, ItemInv
  <2>4. found[c] <=> (i # "eth out" /\ rows[<<n, i>>] > 0)
    BY <1>1, <1>3, <1>4, <2>1 DEF OneInv, ItemInv, IsKnown
  <2>5. rows'[<<n, i>>] > 0
    BY <1>6, <2>4
  <2>6. \A b \in Heights, k \in Kinds : rows[<<b, k>>] > 0 => rows'[<<b, k>>] > 0
    BY <1>6, <2>5
  <2>7. Recorded(syncNum)' /\ Recorded(n - 1)'
    BY <1>1, <2>1, <2>2, <2>6 DEF MongoInv, Recorded
  <2>8. Handled(n, left)'
    BY <2>3, <2>5, <2>6, TrxsAreKinds DEF Handled
  <2>9. NoneAbove(n)'
    <3>1. \A b \in Heights : b > n => b # n
      BY HeightsAre
    <3> QED
      BY <1>6, <2>2, <3>1, OutIsKind DEF NoneAbove
  <2>10. "eth out" \in left => LeftBefore(n)'
    BY <1>1, <1>6, <2>3, OutIsKind DEF LeftBefore
  <2>11. OfChain'
    BY <1>6, <2>1, <2>3 DEF MongoInv, OfChain
  <2>12. OnceInv'
    <3>1. ASSUME i # "eth out"
          PROVE  rows'[<<n, i>>] <= 1
      <4>1. CASE found[c]
        BY <1>6, <2>1, <3>1, <4>1 DEF MongoInv, OnceInv
      <4>2. CASE ~found[c]
        <5>1. rows[<<n, i>>] \in 0..3 /\ ~(rows[<<n, i>>] > 0)
          BY <1>2, <2>4, <3>1, <4>2, RowsTyped
        <5>2. rows'[<<n, i>>] <= rows[<<n, i>>] + 1 /\ rows'[<<n, i>>] \in 0..3
          BY <1>6, <4>2
        <5> QED
          BY <5>1, <5>2
      <4> QED
        BY <4>1, <4>2
    <3>2. ASSUME i = "eth out"
          PROVE  rows'[<<n, i>>] <= (IF n <= syncNum THEN 2 ELSE 1)
      <4>1. ~found[c]
        BY <2>4, <3>2
      <4>2. rows'[<<n, i>>] <= rows[<<n, i>>] + 1
        BY <1>6, <4>1
      <4>3. rows[<<n, i>>] <= (IF n = syncNum THEN 1 ELSE 0)
        BY <2>3, <3>2 DEF LeftBefore
      <4>4. rows[<<n, i>>] \in 0..3 /\ rows'[<<n, i>>] \in 0..3
        BY <1>2, <1>6, RowsTyped
      <4>5. n \in Int /\ syncNum \in Int
        BY <1>2, HeightsAre, Numbers
      <4>6. CASE n = syncNum
        <5>1. n <= syncNum
          BY <4>5, <4>6
        <5>2. rows[<<n, i>>] <= 1
          BY <4>3, <4>6
        <5>3. rows'[<<n, i>>] <= 2
          BY <4>2, <4>4, <5>2
        <5> QED
          BY <5>1, <5>3
      <4>7. CASE n # syncNum
        <5>1. ~(n <= syncNum)
          BY <2>2, <4>5, <4>7
        <5>2. rows[<<n, i>>] <= 0
          BY <4>3, <4>7
        <5>3. rows'[<<n, i>>] <= 1
          BY <4>2, <4>4, <5>2
        <5> QED
          BY <5>1, <5>3
      <4> QED
        BY <4>6, <4>7
    <3>3. \A b \in Heights : \A k \in Kinds \ {"eth out"} : rows'[<<b, k>>] <= 1
      BY <1>6, <2>1, <3>1 DEF MongoInv, OnceInv
    <3>4. \A b \in Heights : rows'[<<b, "eth out">>] <= (IF b <= syncNum THEN 2 ELSE 1)
      BY <1>6, <2>1, <3>2, OutIsKind DEF MongoInv, OnceInv
    <3> QED
      BY <1>1, <3>3, <3>4 DEF OnceInv
  <2>13. MongoInv'
    BY <2>7, <2>11, <2>12 DEF MongoInv
  <2>14. OneInv(c)'
    BY <1>1, <1>2, <1>3, <1>5, <2>2, <2>3, <2>7, <2>8, <2>9, <2>10, NextItemFound
  <2> QED
    BY <1>1, <1>2, <1>8, <2>1, <2>13, <2>14, OneOnly
<1> QED
  BY <1>9, <1>10, <1>11 DEF SyncInv

LEMMA SyncStep == SyncInv /\ [Next]_vars => SyncInv'
<1> SUFFICES ASSUME SyncInv, [Next]_vars
             PROVE  SyncInv'
  OBVIOUS
<1>1. CASE UNCHANGED vars
  <2>1. UNCHANGED <<published, syncNum, rows, lastSync, roundStart, roundEnd, pc, num,
                    block, todo, item, found, timers, boots, failed>>
    BY <1>1 DEF vars, mongo, globals, inHand
  <2>2. TypeOK' /\ AheadInv'
    BY <2>1 DEF SyncInv, TypeOK, AheadInv, NeverAhead, InHandPublished
  <2>3. ASSUME ~failed'
        PROVE  Alone' /\ MongoInv' /\ \A c \in Coroutines : OneInv(c)'
    BY <2>1, <2>3, SameMongo
       DEF SyncInv, Alone, OneInv, ClearInv, LatestInv, RoundInv, ItemInv, PersistInv,
           Recorded, Handled, NoneAbove, LeftBefore, IsKnown
  <2> QED
    BY <2>2, <2>3 DEF SyncInv
<1>2. CASE Publish \/ Boot \/ Kill \/ Timer
  BY <1>2, PublishStep, BootStep, KillStep, TimerStep
<1>3. CASE \E c \in Coroutines : Raise(c) \/ Step(c) \/ Skip(c)
  BY <1>3, RaiseStep, SkipStep, SetStateStep, ReadSyncStep, ClearInStep, ClearOutStep,
     LatestStep, RestStep, PersistStep, FetchStep, FindStep, WriteStep DEF Step
<1> QED
  BY <1>1, <1>2, <1>3 DEF Next

-----------------------------------------------------------------------------
(* The theorems.                                                           *)

\* The inductive invariant holds: until a call fails there is one coroutine, and it
\* finds recorded what goes before the block it is at.
THEOREM SyncCorrect == Spec => []SyncInv
<1>1. Init => SyncInv
  BY InitSync
<1>2. SyncInv /\ [Next]_vars => SyncInv'
  BY SyncStep
<1> QED
  BY <1>1, <1>2, PTL DEF Spec

\* Rounds that begin with the block the last one ended with: as long as calls succeed
\* every transaction up to the sync number is recorded; whatever fails, neither the
\* number nor a row is ahead of what eth_collect has published.
THEOREM SyncIsSound == Spec => []SyncSound
<1>1. SyncInv => SyncSound
  <2> SUFFICES ASSUME SyncInv
               PROVE  SyncSound
    OBVIOUS
  <2>1. TypeOK /\ NeverAhead
    BY DEF SyncInv, AheadInv
  <2>2. ASSUME ~failed, NEW b \in 1..syncNum, NEW k \in Trxs[b]
        PROVE  rows[<<b, k>>] > 0
    <3>1. b \in Heights /\ b <= syncNum
      BY <2>1, Numbers, HeightsAre
    <3>2. k \in Kinds
      BY <3>1, TrxsAreKinds
    <3> QED
      BY <2>2, <3>1, <3>2 DEF SyncInv, MongoInv, Recorded
  <2> QED
    BY <2>1, <2>2 DEF SyncSound, BelowSyncRecorded
<1> QED
  BY <1>1, SyncCorrect, PTL

\* The last block of a round is read again at the start of the next: nothing is
\* recorded twice for all that, but a withdrawal of ETH, and that no more often.
THEOREM OnceRecorded == Spec => []RecordedOnce
<1>1. SyncInv => RecordedOnce
  <2> SUFFICES ASSUME SyncInv, ~failed, NEW b \in Heights, NEW k \in Kinds
               PROVE  rows[<<b, k>>] <= (IF k = "eth out" THEN 2 ELSE 1)
    BY DEF RecordedOnce
  <2>1. TypeOK /\ OnceInv
    BY DEF SyncInv, MongoInv
  <2>2. CASE k = "eth out"
    <3>1. rows[<<b, k>>] \in 0..3
      BY <2>1, RowsTyped
    <3>2. rows[<<b, k>>] <= (IF b <= syncNum THEN 2 ELSE 1)
      BY <2>1, <2>2 DEF OnceInv
    <3>3. \A n \in 0..3 : n <= 1 => n <= 2
      OBVIOUS
    <3>4. rows[<<b, k>>] <= 2
      BY <3>1, <3>2, <3>3
    <3> QED
      BY <2>2, <3>4
  <2>3. CASE k # "eth out"
    BY <2>1, <2>3 DEF OnceInv
  <2> QED
    BY <2>2, <2>3
<1> QED
  BY <1>1, SyncCorrect, PTL
-----------------------------------------------------------------------------
(* The refinement of EthLog.                                               *)

On == {"latest", "fetch", "find", "write", "persist"}

LEMMA PhaseOfOne ==
    Alone => \A c \in Coroutines :
                 /\ pc[c] \in On => Phase = "on"
                 /\ pc[c] # "off" /\ pc[c] \notin On => Phase = "down"
BY DEF Alone, Phase, On

\* What MongoDB holds of a block is what the readers see of it.
LEMMA PresentIs ==
    \A b \in Heights, k \in Kinds :
        [block |-> b, kind |-> k] \in Present <=> rows[<<b, k>>] > 0
BY DEF Present

LEMMA RowsAre ==
    /\ \A r \in [block : Heights, kind : Kinds] :
          r.block \in Heights /\ r.kind \in Kinds /\ r = [block |-> r.block, kind |-> r.kind]
    /\ Present \subseteq [block : Heights, kind : Kinds]
    /\ LogRow \subseteq [block : Heights, kind : Kinds]
BY DEF Present, LogRow

\* All rows of the log up to a block are there once its transactions are recorded.
LEMMA CompleteWhen ==
    ASSUME NEW n \in Int, Recorded(n)
    PROVE  Log!Complete(n)
<1> SUFFICES ASSUME NEW r \in LogRow, r.block <= n
             PROVE  r \in Present
  BY DEF Log!Complete, Log!Above
<1>1. r \in [block : Heights, kind : Kinds] /\ r.kind \in Trxs[r.block]
  BY DEF LogRow
<1> QED
  BY <1>1 DEF Recorded, Present

LEMMA RemovedSeen ==
    ASSUME TypeOK, OfChain, NEW kind \in Kinds, Remove(kind, syncNum + 1)
    PROVE  Present' = Present \ {r \in Log!Above : r.kind \in {kind}}
<1>1. syncNum \in Int /\ syncNum + 1 \in Int
  BY Numbers
<1>2. \A b \in Heights, k \in Kinds :
        /\ k = kind /\ b >= syncNum + 1 => rows'[<<b, k>>] = 0
        /\ ~(k = kind /\ b >= syncNum + 1) => rows'[<<b, k>>] = rows[<<b, k>>]
  BY <1>1, Removed
<1>3. ASSUME NEW r \in [block : Heights, kind : Kinds]
      PROVE  r \in Present' <=> r \in Present /\ ~(r \in LogRow /\ r.block > syncNum /\ r.kind = kind)
  <2>1. r.block \in Heights /\ r.kind \in Kinds
    OBVIOUS
  <2>2. r.block > syncNum <=> r.block >= syncNum + 1
    BY <1>1, <2>1, HeightsAre
  <2>3. r \in Present <=> rows[<<r.block, r.kind>>] > 0
    BY DEF Present
  <2>4. r \in Present' <=> rows'[<<r.block, r.kind>>] > 0
    BY DEF Present
  <2>5. CASE r.kind = kind /\ r.block >= syncNum + 1
    <3>1. rows'[<<r.block, r.kind>>] = 0
      BY <1>2, <2>1, <2>5
    <3>2. r \notin Present'
      BY <2>4, <3>1
    <3>3. r \in Present => r \in LogRow
      BY <2>1, <2>3 DEF OfChain, LogRow
    <3> QED
      BY <2>2, <2>5, <3>2, <3>3
  <2>6. CASE ~(r.kind = kind /\ r.block >= syncNum + 1)
    <3>1. rows'[<<r.block, r.kind>>] = rows[<<r.block, r.kind>>]
      BY <1>2, <2>1, <2>6
    <3> QED
      BY <2>2, <2>3, <2>4, <2>6, <3>1
  <2> QED
    BY <2>5, <2>6
<1>4. Present \subseteq [block : Heights, kind : Kinds] /\ Present' \subseteq [block : Heights, kind : Kinds]
  BY DEF Present
<1> QED
  BY <1>3, <1>4 DEF Log!Above

\* A write adds a row of the block in hand, or one that was there.
LEMMA WriteSeen ==
    ASSUME SyncInv, ~failed, NEW c \in Coroutines, Write(c), Phase = "on", Phase' = "on"
    PROVE  [Log!EthNext]_(Log!ethLog)
<1>1. /\ pc[c] = "write" /\ syncNum' = syncNum
      /\ rows' = IF found[c] THEN rows ELSE [rows EXCEPT ![<<block[c], item[c]>>] = Count(@)]
  BY DEF Write
<1>2. TypeOK /\ MongoInv /\ OneInv(c)
  BY DEF SyncInv
<1>3. PICK n \in Heights : block[c] = n
  BY <1>2 DEF TypeOK
<1>4. PICK i \in Kinds : item[c] = i
  BY <1>2 DEF TypeOK
<1>5. pc[c] \in Reading
  BY <1>1 DEF Reading
<1>6. n <= roundEnd /\ roundEnd <= syncNum + Round + 1 /\ Recorded(n - 1)
  BY <1>2, <1>3, <1>5 DEF OneInv, RoundInv
<1>7. i \in Trxs[n] /\ (found[c] <=> i # "eth out" /\ rows[<<n, i>>] > 0)
  BY <1>1, <1>2, <1>3, <1>4 DEF OneInv, ItemInv, IsKnown
<1>8. /\ \A b \in Heights, k \in Kinds : b # n \/ k # i => rows'[<<b, k>>] = rows[<<b, k>>]
      /\ found[c] => rows'[<<n, i>>] = rows[<<n, i>>]
      /\ ~found[c] => rows'[<<n, i>>] > 0
  BY <1>1, <1>2, <1>3, <1>4, Written
<1>9. rows'[<<n, i>>] > 0
  BY <1>7, <1>8
<1>10. [block |-> n, kind |-> i] \in LogRow
  BY <1>7 DEF LogRow
<1>11. Present' = Present \cup {[block |-> n, kind |-> i]}
  <2>1. ASSUME NEW b \in Heights, NEW k \in Kinds
        PROVE  rows'[<<b, k>>] > 0 <=> rows[<<b, k>>] > 0 \/ (b = n /\ k = i)
    BY <1>8, <1>9
  <2>2. ASSUME NEW r \in [block : Heights, kind : Kinds]
        PROVE  r \in Present' <=> r \in Present \/ r = [block |-> n, kind |-> i]
    BY <2>1 DEF Present
  <2>3. Present \subseteq [block : Heights, kind : Kinds] /\ Present' \subseteq [block : Heights, kind : Kinds]
        /\ [block |-> n, kind |-> i] \in [block : Heights, kind : Kinds]
    BY DEF Present
  <2> QED
    BY <2>2, <2>3
<1>12. CASE [block |-> n, kind |-> i] \in Present
  <2>1. Present' = Present
    BY <1>11, <1>12
  <2> QED
    BY <1>1, <2>1 DEF Log!ethLog
<1>13. CASE [block |-> n, kind |-> i] \notin Present
  <2>1. n \in Int /\ syncNum \in Int /\ roundEnd \in Int /\ Round \in Nat /\ n - 1 \in Int
    BY <1>2, Numbers, HeightsAre
  <2>2. ~(rows[<<n, i>>] > 0)
    BY <1>13, PresentIs
  <2>3. ~(n <= syncNum)
    BY <1>2, <1>7, <2>2 DEF MongoInv, Recorded
  <2>4. n > syncNum /\ n <= syncNum + (Round + 1)
    BY <1>6, <2>1, <2>3
  <2>5. Log!Complete(n - 1)
    BY <1>6, <2>1, CompleteWhen
  <2>6. [block |-> n, kind |-> i] \in Log!Above \ Present
    BY <1>10, <1>13, <2>4 DEF Log!Above
  <2>7. Log!Store
    BY <1>1, <1>11, <2>4, <2>5, <2>6 DEF Log!Store
  <2> QED
    BY <2>7 DEF Log!EthNext
<1> QED
  BY <1>12, <1>13

LEMMA LogStep ==
    ASSUME SyncInv, SyncInv', [Next]_vars, ~failed'
    PROVE  [Log!EthNext]_(Log!ethLog)
<1>1. ~failed
  BY DEF Next, Publish, Boot, Kill, Timer, Raise, Step, Skip, SetState, ReadSync, ClearIn,
         ClearOut, Latest, Rest, Persist, Fetch, Find, Write, vars, MayFail
<1>2. TypeOK /\ Alone /\ MongoInv /\ \A c \in Coroutines : OneInv(c)
  BY <1>1 DEF SyncInv
<1>3. \A c \in Coroutines :
        /\ pc[c] \in On => Phase = "on"
        /\ pc[c] # "off" /\ pc[c] \notin On => Phase = "down"
  BY <1>2, PhaseOfOne
<1>4. \A c \in Coroutines :
        /\ pc'[c] \in On => Phase' = "on"
        /\ pc'[c] # "off" /\ pc'[c] \notin On => Phase' = "down"
  <2>1. Alone'
    BY DEF SyncInv
  <2>2. (Alone => \A c \in Coroutines :
                     /\ pc[c] \in On => Phase = "on"
                     /\ pc[c] # "off" /\ pc[c] \notin On => Phase = "down")'
    BY PhaseOfOne, PTL
  <2> QED
    BY <2>1, <2>2
<1>5. ASSUME UNCHANGED <<syncNum, rows>>, Phase' = Phase
      PROVE  [Log!EthNext]_(Log!ethLog)
  <2>1. Present' = Present
    BY <1>5 DEF Present
  <2> QED
    BY <1>5, <2>1 DEF Log!ethLog
<1>6. ASSUME UNCHANGED <<syncNum, rows>>, Phase' = "down"
      PROVE  [Log!EthNext]_(Log!ethLog)
  <2>1. Present' = Present
    BY <1>6 DEF Present
  <2>2. CASE Phase = "on"
    BY <1>6, <2>1, <2>2 DEF Log!EthNext, Log!Pause
  <2>3. CASE Phase # "on"
    <3>1. Phase = "down"
      BY <2>3 DEF Phase
    <3> QED
      BY <1>5, <1>6, <3>1
  <2> QED
    BY <2>2, <2>3
<1>7. CASE Publish \/ UNCHANGED vars
  <2>1. UNCHANGED <<syncNum, rows, pc>>
    BY <1>7 DEF Publish, vars, mongo
  <2>2. Phase' = Phase
    BY <2>1 DEF Phase
  <2> QED
    BY <1>5, <2>1, <2>2
<1>8. CASE Boot \/ Kill
  <2>1. UNCHANGED <<syncNum, rows>>
    BY <1>8 DEF Boot, Kill, mongo
  <2>2. \A c \in Coroutines : pc'[c] \in {"off", "state"}
    <3>1. CASE Boot
      BY <1>2, <3>1 DEF Boot, TypeOK
    <3>2. CASE Kill
      BY <3>2 DEF Kill
    <3> QED
      BY <1>8, <3>1, <3>2
  <2>3. Phase' = "down"
    BY <2>2 DEF Phase
  <2> QED
    BY <1>6, <2>1, <2>3
<1>9. ~Timer
  BY <1>2, Numbers DEF Timer, Alone
<1>10. ASSUME NEW c \in Coroutines
       PROVE  ~Raise(c) /\ ~Skip(c)
  BY DEF Raise, Skip
<1>11. ASSUME NEW c \in Coroutines, SetState(c) \/ ReadSync(c) \/ Rest(c)
       PROVE  [Log!EthNext]_(Log!ethLog)
  <2>1. UNCHANGED <<syncNum, rows>> /\ pc'[c] \in {"state", "read", "clear in"}
    BY <1>2, <1>11 DEF SetState, ReadSync, Rest, mongo, TypeOK
  <2>2. Phase' = "down"
    BY <1>4, <2>1 DEF On
  <2> QED
    BY <1>6, <2>1, <2>2
<1>12. ASSUME NEW c \in Coroutines, ClearIn(c) \/ ClearOut(c)
       PROVE  [Log!EthNext]_(Log!ethLog)
  <2>1. pc[c] \in {"clear in", "clear out"} /\ syncNum' = syncNum
    BY <1>12 DEF ClearIn, ClearOut
  <2>2. num[c] = syncNum + 1
    BY <1>2, <2>1 DEF OneInv, ClearInv
  <2>3. PICK kind \in {"eth in", "eth out"} :
           Remove(kind, syncNum + 1) /\ pc'[c] \in {"clear out", "latest"}
    BY <1>2, <1>12, <2>2 DEF ClearIn, ClearOut, TypeOK
  <2>4. kind \in Kinds /\ OfChain
    BY <1>2, OutIsKind DEF MongoInv
  <2>5. Present' = Present \ {r \in Log!Above : r.kind \in {kind}}
    BY <1>2, <2>3, <2>4, RemovedSeen
  <2>6. Phase = "down" /\ Phase' \in {"down", "on"}
    BY <1>3, <1>4, <2>1, <2>3 DEF On
  <2>7. {kind} \in SUBSET {"eth in", "eth out"}
    OBVIOUS
  <2>8. Log!Clear
    BY <2>1, <2>5, <2>6, <2>7 DEF Log!Clear
  <2> QED
    BY <2>8 DEF Log!EthNext
<1>13. ASSUME NEW c \in Coroutines, Latest(c) \/ Fetch(c) \/ Find(c)
       PROVE  [Log!EthNext]_(Log!ethLog)
  <2>1. UNCHANGED <<syncNum, rows>> /\ pc[c] \in On
    BY <1>13 DEF Latest, Fetch, Find, mongo, On
  <2>2. pc'[c] \in {"rest", "fetch", "find", "write", "persist"}
    BY <1>2, <1>13 DEF Latest, Fetch, Find, NextItem, NextBlock, TypeOK
  <2>3. Phase = "on"
    BY <1>3, <2>1
  <2>4. CASE pc'[c] = "rest"
    <3>1. Phase' = "down"
      BY <1>4, <2>4 DEF On
    <3> QED
      BY <1>6, <2>1, <3>1
  <2>5. CASE pc'[c] # "rest"
    <3>1. Phase' = "on"
      BY <1>4, <2>2, <2>5 DEF On
    <3> QED
      BY <1>5, <2>1, <2>3, <3>1
  <2> QED
    BY <2>4, <2>5
<1>14. ASSUME NEW c \in Coroutines, Persist(c)
       PROVE  [Log!EthNext]_(Log!ethLog)
  <2>1. pc[c] = "persist" /\ syncNum' = num[c] /\ rows' = rows /\ pc'[c] = "latest"
    BY <1>2, <1>14 DEF Persist, Committed, TypeOK
  <2>2. syncNum < num[c] /\ num[c] <= syncNum + Round + 1 /\ Recorded(num[c])
    BY <1>2, <2>1 DEF OneInv, PersistInv
  <2>3. syncNum \in Int /\ Round \in Nat /\ num[c] \in Int /\ num[c] <= Top
    <3>1. num[c] \in 0..(Top + 1) /\ num[c] <= published
      BY <1>2, <2>1 DEF TypeOK, SyncInv, AheadInv, InHandPublished
    <3> QED
      BY <1>2, <3>1, Numbers
  <2>4. num[c] \in (syncNum + 1)..(syncNum + (Round + 1))
    BY <2>2, <2>3
  <2>5. Log!Complete(num[c])
    <3>1. PICK n \in Int : num[c] = n
      BY <2>3
    <3>2. Log!Complete(n)
      BY <2>2, <3>1, CompleteWhen
    <3> QED
      BY <3>1, <3>2
  <2>6. Present' = Present /\ Phase = "on" /\ Phase' = "on"
    BY <1>3, <1>4, <2>1 DEF On, Present
  <2>7. Log!Commit
    BY <2>1, <2>3, <2>4, <2>5, <2>6 DEF Log!Commit
  <2> QED
    BY <2>7 DEF Log!EthNext
<1>15. ASSUME NEW c \in Coroutines, Write(c)
       PROVE  [Log!EthNext]_(Log!ethLog)
  <2>1. pc[c] = "write" /\ pc'[c] \in {"fetch", "find", "persist"}
    BY <1>2, <1>15 DEF Write, NextItem, NextBlock, TypeOK
  <2>2. Phase = "on" /\ Phase' = "on"
    BY <1>3, <1>4, <2>1 DEF On
  <2> QED
    BY <1>1, <1>15, <2>2, WriteSeen
<1> QED
  BY <1>7, <1>8, <1>9, <1>10, <1>11, <1>12, <1>13, <1>14, <1>15 DEF Next, Step

\* A step of the collector, as the readers of MongoDB see it.
SeenStep == [~failed' => Log!EthNext]_(Log!ethLog)

\* As long as every call succeeds, readers see rows appear block after block, a round
\* ahead of the sync number at most, though blocks are read twice and cleared only in
\* part; and the number moves over blocks whose rows are all there.
THEOREM SyncImplementsLog == Spec => ImplementsEthLog
<1>1. Init => Log!EthInit
  <2> SUFFICES ASSUME Init
               PROVE  Log!EthInit
    OBVIOUS
  <2>1. syncNum = 0 /\ pc = [c \in Coroutines |-> "off"] /\ rows = [x \in Heights \X Kinds |-> 0]
    BY DEF Init
  <2>2. Phase = "down"
    BY <2>1 DEF Phase
  <2>3. Present = {}
    BY <2>1 DEF Present
  <2> QED
    BY <2>1, <2>2, <2>3 DEF Log!EthInit
<1>2. SyncInv /\ SyncInv' /\ [Next]_vars => SeenStep
  BY LogStep DEF SeenStep
<1> QED
  BY <1>1, <1>2, SyncCorrect, PTL DEF Spec, ImplementsEthLog, SeenStep
===============================================================================
