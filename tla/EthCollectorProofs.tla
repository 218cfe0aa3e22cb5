------------------------- MODULE EthCollectorProofs -------------------------
(***************************************************************************)
(* Proofs about EthCollector, for any number of goroutines, interval,      *)
(* channel capacity and length of the chain, provided there are at least   *)
(* as many handlers as collectors (ProcessorAssumption):                   *)
(*   FlowCorrect        Spec => []FlowInv, the inductive invariant         *)
(*   AllFedStored       Spec => []FedIsStored                              *)
(*   CheckpointIsSound  Spec => []CheckpointSound                          *)
(***************************************************************************)
EXTENDS EthCollector, FiniteSetTheorems, SequenceTheorems, TLAPS

-----------------------------------------------------------------------------
(* The inductive invariant.                                                *)

\* Where heights are, after main has fed them: in heightChan, with a collector, in
\* blockChan, with a handler.
HeightsIn(chan) == {chan[i] : i \in {j \in 1..Len(chan) : chan[j] # Token}}

Holding == {"trx", "erc", "mark"}

Waiting      == HeightsIn(heightChan)
AtCollectors == {fetched[c] : c \in {d \in Collectors : collector[d] = "push"}}
InChannel    == HeightsIn(blockChan)
AtHandlers   == {block[h] : h \in {g \in Handlers : handler[g] \in Holding}}
InHand       == AtCollectors \cup InChannel \cup AtHandlers

\* Who has had its token.
Ending  == {c \in Collectors : collector[c] \in {"token", "exited"}}
GoneOnes   == {c \in Collectors : collector[c] = "exited"}
Leaving == {h \in Handlers : handler[h] \in {"wait", "bump", "pass", "exited"}}
Counted == {h \in Handlers : handler[h] \in {"pass", "exited"}}

\* The tokens among the first n of a channel.
Tokens(chan, n) == {i \in 1..n : chan[i] = Token}

\* What a process begins and ends with.
Off ==
    /\ heightChan = <<>> /\ blockChan = <<>>
    /\ phase = "fast" /\ base = 0 /\ next = 0 /\ count = 0 /\ tokens = 0
    /\ isDone = FALSE /\ exitCount = 0
    /\ \A c \in Collectors : collector[c] = "exited"
    /\ \A h \in Handlers : handler[h] = "exited"

\* How far main has fed.
MainInv ==
    /\ mainPc = "off" => Off
    /\ base <= next /\ next <= count
    /\ mainPc = "send" => next < count
    /\ mainPc = "tokens" => tokens > 0
    /\ mainPc = "join" => tokens = 0
    /\ phase = "fast" /\ mainPc \in {"tokens", "join"} => isDone \/ next = count
    /\ phase = "low" /\ mainPc # "send" => next = count

\* The heights in heightChan ascend, and only tokens are behind a token.
WaitInv ==
    /\ \A i, j \in 1..Len(heightChan) : i < j /\ heightChan[j] # Token =>
          heightChan[i] # Token /\ heightChan[i] < heightChan[j]
    /\ \A b \in Waiting : base <= b /\ b < next
    /\ mainPc \in {"check", "send"} => \A i \in 1..Len(heightChan) : heightChan[i] # Token

\* Every height before those that wait: it has been read.
AllRead(b) == \A x \in Waiting : b < x

\* What has been read, was read in order, and is in one place.
HandInv ==
    /\ \A b \in InHand : base <= b /\ b < next /\ AllRead(b)
    /\ \A c, d \in Collectors :
          collector[c] = "push" /\ collector[d] = "push" /\ fetched[c] = fetched[d] => c = d
    /\ \A i, j \in 1..Len(blockChan) : blockChan[i] # Token /\ blockChan[i] = blockChan[j] => i = j
    /\ \A h, g \in Handlers :
          handler[h] \in Holding /\ handler[g] \in Holding /\ block[h] = block[g] => h = g
    /\ AtCollectors \cap InChannel = {} /\ AtCollectors \cap AtHandlers = {}
    /\ InChannel \cap AtHandlers = {}

\* The checkpoint of this process is of a block it has read.
MarkInv ==
    mainPc # "off" =>
        base <= trxHeight /\ (trxHeight # base => trxHeight < next /\ AllRead(trxHeight))

\* What is not stored yet is on its way; what is on its way is not stored yet.
StoreInv ==
    /\ OncePerProcess
    /\ mainPc # "off" => \A b \in Heights :
          b >= next \/ b \in Waiting \cup AtCollectors \cup InChannel =>
              trxData[b] < boots /\ ercData[b] < boots
    /\ \A h \in Handlers :
          /\ handler[h] = "trx" => trxData[block[h]] < boots
          /\ handler[h] \in {"trx", "erc"} => ercData[block[h]] < boots
          /\ handler[h] \in {"erc", "mark"} /\ ~failed => trxData[block[h]] > 0
          /\ handler[h] = "mark" /\ ~failed => ercData[block[h]] > 0
    /\ mainPc # "off" /\ ~failed => \A b \in Heights :
          base <= b /\ b < next =>
              \/ b \in Waiting \cup AtCollectors \cup InChannel
              \/ \E h \in Handlers : handler[h] \in {"trx", "erc"} /\ block[h] = b
              \/ Stored(b)

\* The fast phase: each collector takes one of main's tokens, and none before every
\* height has been read.
FastFeed ==
    /\ mainPc \in {"check", "send"} => Ending = {}
    /\ Ending # {} => Waiting = {}
    /\ mainPc \in {"tokens", "join"} =>
          Cardinality(Tokens(heightChan, Len(heightChan))) + tokens + Cardinality(Ending) = collect_threads

\* The tokens of the collectors are counted, up to the point where exit_count tells the
\* handlers that all blocks are in blockChan; so before any block in the channel there
\* are fewer tokens, those already taken included, than collectors.
FastExit ==
    /\ exitCount < collect_threads =>
          /\ exitCount = Cardinality(Ending)
          /\ \A h \in Handlers : handler[h] \notin {"bump", "pass", "exited"}
          /\ Cardinality(Tokens(blockChan, Len(blockChan))) + Cardinality(Leaving) <= Cardinality(GoneOnes)
    /\ exitCount >= collect_threads => Ending = Collectors
    /\ \A i \in 1..Len(blockChan) : blockChan[i] # Token =>
          Cardinality(Tokens(blockChan, i)) + Cardinality(Leaving) < collect_threads
    /\ exitCount <= Cardinality(Ending) + Cardinality(Counted)

\* The low phase: one goroutine of each kind, and so one order of blocks.
LowFeed == LowCollector \in Ending => Waiting = {} /\ mainPc \in {"tokens", "join"}

LowRun ==
    /\ \A c \in Collectors : c # LowCollector => collector[c] = "exited"
    /\ \A h \in Handlers : h # LowHandler => handler[h] = "exited"
    /\ collector[LowCollector] # "exited" =>
          LowHandler \notin Leaving /\ \A i \in 1..Len(blockChan) : blockChan[i] # Token
    /\ LowHandler \in Leaving => InChannel = {}
    /\ \A i, j \in 1..Len(blockChan) : i < j /\ blockChan[j] # Token =>
          blockChan[i] # Token /\ blockChan[i] < blockChan[j]
    /\ \A b \in AtCollectors, x \in InChannel \cup AtHandlers : x < b
    /\ \A b \in AtHandlers, x \in InChannel : b < x
    /\ exitCount <= collect_threads + handle_threads + (IF LowCollector \in Ending THEN 1 ELSE 0)
    /\ handler[LowHandler] = "bump" => exitCount < handle_threads

FlowInv ==
    /\ TypeOK /\ MainInv /\ WaitInv /\ HandInv /\ MarkInv /\ StoreInv
    /\ mainPc # "off" /\ phase = "fast" => FastFeed /\ FastExit
    /\ phase = "low" => LowFeed /\ LowRun
    /\ CheckpointCovered

-----------------------------------------------------------------------------
(* Channels and counts.                                                    *)

USE EthAssumption
USE DEF Token

Items == Heights \cup {Token}

LEMMA AppendFacts ==
    ASSUME NEW S, NEW s \in Seq(S), NEW e \in S
    PROVE  /\ Append(s, e) \in Seq(S)
           /\ Len(s) \in Nat
           /\ Len(Append(s, e)) = Len(s) + 1
           /\ \A i \in 1..Len(s) : Append(s, e)[i] = s[i]
           /\ Append(s, e)[Len(s) + 1] = e
BY AppendProperties, LenProperties

LEMMA TailFacts ==
    ASSUME NEW S, NEW s \in Seq(S), s # <<>>
    PROVE  /\ Tail(s) \in Seq(S)
           /\ Len(s) \in Nat /\ Len(s) > 0
           /\ Len(Tail(s)) = Len(s) - 1
           /\ \A i \in 1..(Len(s) - 1) : Tail(s)[i] = s[i + 1]
           /\ Head(s) = s[1]
           /\ Head(s) \in S
<1>1. /\ Tail(s) \in Seq(S) /\ Len(Tail(s)) = Len(s) - 1 /\ Head(s) \in S
      /\ \A i \in 1..Len(Tail(s)) : Tail(s)[i] = s[i + 1]
      /\ Len(s) \in Nat \ {0}
  BY HeadTailProperties, EmptySeq
<1>2. Head(s) = s[1]
  OBVIOUS
<1> QED
  BY <1>1, <1>2

\* What a channel holds after a send, and held before a receive.
LEMMA HeightsAppend ==
    ASSUME NEW s \in Seq(Items), NEW e \in Items
    PROVE  HeightsIn(Append(s, e)) = HeightsIn(s) \cup (IF e = Token THEN {} ELSE {e})
<1>1. /\ Len(s) \in Nat /\ Len(Append(s, e)) = Len(s) + 1
      /\ \A i \in 1..Len(s) : Append(s, e)[i] = s[i]
      /\ Append(s, e)[Len(s) + 1] = e
  BY AppendFacts
<1> QED
  BY <1>1 DEF HeightsIn

LEMMA HeightsTail ==
    ASSUME NEW s \in Seq(Items), s # <<>>
    PROVE  HeightsIn(s) = HeightsIn(Tail(s)) \cup (IF Head(s) = Token THEN {} ELSE {Head(s)})
<1>1. /\ Len(s) \in Nat /\ Len(s) > 0 /\ Len(Tail(s)) = Len(s) - 1
      /\ \A i \in 1..(Len(s) - 1) : Tail(s)[i] = s[i + 1]
      /\ Head(s) = s[1]
  BY TailFacts
<1>2. ASSUME NEW x \in HeightsIn(s) PROVE x \in HeightsIn(Tail(s)) \cup (IF Head(s) = Token THEN {} ELSE {Head(s)})
  <2>1. PICK i \in 1..Len(s) : s[i] # Token /\ x = s[i]
    BY <1>2 DEF HeightsIn
  <2>2. CASE i = 1
    BY <1>1, <2>1, <2>2
  <2>3. CASE i # 1
    <3>1. i - 1 \in 1..Len(Tail(s)) /\ Tail(s)[i - 1] = s[i]
      BY <1>1, <2>1, <2>3
    <3> QED
      BY <2>1, <3>1 DEF HeightsIn
  <2> QED
    BY <2>2, <2>3
<1>3. ASSUME NEW x \in HeightsIn(Tail(s)) PROVE x \in HeightsIn(s)
  <2>1. PICK i \in 1..Len(Tail(s)) : Tail(s)[i] # Token /\ x = Tail(s)[i]
    BY <1>3 DEF HeightsIn
  <2>2. i + 1 \in 1..Len(s) /\ s[i + 1] = Tail(s)[i]
    BY <1>1, <2>1
  <2> QED
    BY <2>1, <2>2 DEF HeightsIn
<1>4. Head(s) # Token => Head(s) \in HeightsIn(s)
  BY <1>1 DEF HeightsIn
<1> QED
  BY <1>2, <1>3, <1>4

LEMMA HeightsAre ==
    ASSUME NEW s \in Seq(Items)
    PROVE  HeightsIn(s) \subseteq Heights /\ HeightsIn(s) \subseteq Nat
BY DEF HeightsIn, Items, Heights

LEMMA TokensFinite ==
    ASSUME NEW s, NEW n \in Nat
    PROVE  IsFiniteSet(Tokens(s, n)) /\ Cardinality(Tokens(s, n)) \in Nat
<1>1. IsFiniteSet(1..n) /\ Tokens(s, n) \in SUBSET (1..n)
  BY FS_Interval DEF Tokens
<1> QED
  BY <1>1, FS_Subset, FS_CardinalityType

LEMMA TokensAppend ==
    ASSUME NEW s \in Seq(Items), NEW e \in Items
    PROVE  /\ \A n \in 0..Len(s) : Tokens(Append(s, e), n) = Tokens(s, n)
           /\ Cardinality(Tokens(Append(s, e), Len(s) + 1))
                = Cardinality(Tokens(s, Len(s))) + (IF e = Token THEN 1 ELSE 0)
<1>1. /\ Len(s) \in Nat
      /\ \A i \in 1..Len(s) : Append(s, e)[i] = s[i]
      /\ Append(s, e)[Len(s) + 1] = e
  BY AppendFacts
<1>2. \A n \in 0..Len(s) : Tokens(Append(s, e), n) = Tokens(s, n)
  BY <1>1 DEF Tokens
<1>3. Tokens(Append(s, e), Len(s) + 1)
        = Tokens(s, Len(s)) \cup (IF e = Token THEN {Len(s) + 1} ELSE {})
  BY <1>1 DEF Tokens
<1>4. Len(s) + 1 \notin Tokens(s, Len(s)) /\ IsFiniteSet(Tokens(s, Len(s)))
  BY <1>1, TokensFinite DEF Tokens
<1>5. Cardinality(Tokens(s, Len(s)) \cup {Len(s) + 1}) = Cardinality(Tokens(s, Len(s))) + 1
  BY <1>4, FS_AddElement
<1>6. CASE e = Token
  BY <1>2, <1>3, <1>5, <1>6
<1>7. CASE e # Token
  <2>1. Tokens(Append(s, e), Len(s) + 1) = Tokens(s, Len(s)) /\ Cardinality(Tokens(s, Len(s))) \in Nat
    BY <1>1, <1>3, <1>7, TokensFinite
  <2> QED
    BY <1>2, <1>7, <2>1
<1> QED
  BY <1>6, <1>7

LEMMA TokensTail ==
    ASSUME NEW s \in Seq(Items), s # <<>>, NEW n \in 1..Len(s)
    PROVE  Cardinality(Tokens(s, n))
             = Cardinality(Tokens(Tail(s), n - 1)) + (IF Head(s) = Token THEN 1 ELSE 0)
<1>1. /\ Len(s) \in Nat /\ Len(s) > 0 /\ Len(Tail(s)) = Len(s) - 1
      /\ \A i \in 1..(Len(s) - 1) : Tail(s)[i] = s[i + 1]
      /\ Head(s) = s[1]
  BY TailFacts
<1> DEFINE T == Tokens(Tail(s), n - 1)
           U == {i \in 2..n : s[i] = Token}
           f == [i \in T |-> i + 1]
<1>2. IsFiniteSet(T) /\ IsFiniteSet(Tokens(s, n))
  BY <1>1, TokensFinite
<1>3. \A i \in T : f[i] \in U
  BY <1>1 DEF Tokens
<1>4. \A i, j \in T : f[i] = f[j] => i = j
  BY DEF Tokens
<1>5. \A j \in U : \E i \in T : f[i] = j
  <2> SUFFICES ASSUME NEW j \in U PROVE j - 1 \in T /\ f[j - 1] = j
    OBVIOUS
  <2>1. j - 1 \in 1..(n - 1) /\ Tail(s)[j - 1] = s[j]
    BY <1>1
  <2> QED
    BY <2>1 DEF Tokens
<1>6. f \in Bijection(T, U)
  <2>1. f \in [T -> U]
    BY <1>3
  <2> HIDE DEF T, U, f
  <2> QED
    BY <1>4, <1>5, <2>1 DEF Bijection, Injection, Surjection, IsInjective
<1>7. Cardinality(U) = Cardinality(T) /\ IsFiniteSet(U)
  <2> HIDE DEF T, U, f
  <2> QED
    BY <1>2, <1>6, FS_Bijection DEF ExistsBijection
<1>8. CASE Head(s) = Token
  <2>1. Tokens(s, n) = U \cup {1} /\ 1 \notin U
    BY <1>1, <1>8 DEF Tokens
  <2>2. Cardinality(U \cup {1}) = Cardinality(U) + 1
    <3> HIDE DEF U
    <3> QED
      BY <1>7, <2>1, FS_AddElement
  <2> QED
    BY <1>7, <1>8, <2>1, <2>2
<1>9. CASE Head(s) # Token
  <2>1. Tokens(s, n) = U
    BY <1>1, <1>9 DEF Tokens
  <2>2. Cardinality(T) \in Nat
    <3> HIDE DEF T
    <3> QED
      BY <1>2, FS_CardinalityType
  <2> QED
    BY <1>7, <1>9, <2>1, <2>2
<1> QED
  BY <1>8, <1>9

\* How many goroutines there are.
LEMMA Threads ==
    /\ collect_threads \in Nat /\ collect_threads > 0
    /\ handle_threads \in Nat /\ handle_threads > 0
    /\ LowCollector \in Collectors /\ LowHandler \in Handlers
<1>1. /\ collect_threads \in Nat /\ collect_threads # 0
      /\ handle_threads \in Nat /\ handle_threads # 0
  BY FS_CardinalityType, FS_EmptySet DEF collect_threads, handle_threads
<1>2. LowCollector \in Collectors /\ LowHandler \in Handlers
  BY DEF LowCollector, LowHandler
<1> QED
  BY <1>1, <1>2

\* The parts of them are finite.
LEMMA Parts ==
    /\ \A S \in SUBSET Collectors : /\ IsFiniteSet(S) /\ Cardinality(S) \in Nat
                                    /\ Cardinality(S) <= collect_threads
                                    /\ Cardinality(S) = collect_threads => S = Collectors
    /\ \A S \in SUBSET Handlers : /\ IsFiniteSet(S) /\ Cardinality(S) \in Nat
                                  /\ Cardinality(S) <= handle_threads
                                  /\ Cardinality(S) = handle_threads => S = Handlers
BY FS_Subset, FS_CardinalityType DEF collect_threads, handle_threads

LEMMA AddOne ==
    ASSUME NEW S, NEW x, IsFiniteSet(S), x \notin S
    PROVE  Cardinality(S \cup {x}) = Cardinality(S) + 1
BY FS_AddElement

-----------------------------------------------------------------------------
(* The process: where it begins and how it ends.                           *)

USE DEF channels, mainVars, collectorVars, handlerVars, tables

\* The types, one by one.
LEMMA Types ==
    ASSUME TypeOK
    PROVE  /\ heightChan \in Seq(Items) /\ blockChan \in Seq(Items)
           /\ Len(heightChan) \in Nat /\ Len(blockChan) \in Nat
           /\ base \in Nat /\ next \in Nat /\ count \in Nat /\ tokens \in Nat /\ exitCount \in Nat
           /\ base <= Top /\ next <= Top /\ count <= Top /\ Top \in Nat /\ Top > 0
           /\ trxHeight \in Nat /\ boots \in Nat
           /\ trxData \in [Heights -> Nat] /\ ercData \in [Heights -> Nat]
           /\ Waiting \subseteq Heights /\ InChannel \subseteq Heights /\ Heights \subseteq Nat
<1>1. heightChan \in Seq(Items) /\ blockChan \in Seq(Items)
  BY DEF TypeOK, Items
<1>2. Len(heightChan) \in Nat /\ Len(blockChan) \in Nat
  BY <1>1, LenProperties
<1>3. /\ base \in 0..Top /\ next \in 0..Top /\ count \in 0..Top /\ trxHeight \in 0..Top
      /\ tokens \in 0..collect_threads /\ boots \in 0..MaxBoots
      /\ exitCount \in 0..(collect_threads + handle_threads + 1)
      /\ trxData \in [Heights -> Nat] /\ ercData \in [Heights -> Nat]
  BY DEF TypeOK
<1>4. Waiting \subseteq Heights /\ InChannel \subseteq Heights
  BY <1>1, HeightsAre DEF Waiting, InChannel
<1>5. Heights \subseteq Nat
  BY DEF Heights
<1> QED
  BY <1>1, <1>2, <1>3, <1>4, <1>5, Threads

\* A process that is off has nothing in hand.
LEMMA OffIsIdle ==
    ASSUME Off
    PROVE  Waiting = {} /\ InHand = {} /\ AtCollectors = {} /\ InChannel = {} /\ AtHandlers = {}
<1>1. heightChan = <<>> /\ blockChan = <<>>
  BY DEF Off
<1>2. Waiting = {} /\ InChannel = {}
  BY <1>1 DEF Waiting, InChannel, HeightsIn
<1>3. AtCollectors = {}
  BY DEF Off, AtCollectors
<1>4. AtHandlers = {}
  BY DEF Off, AtHandlers, Holding
<1> QED
  BY <1>2, <1>3, <1>4 DEF InHand

LEMMA OffSound ==
    ASSUME TypeOK, mainPc = "off", Off, OncePerProcess
    PROVE  FlowInv
<1>1. Waiting = {} /\ InHand = {} /\ AtCollectors = {} /\ InChannel = {} /\ AtHandlers = {}
  BY OffIsIdle
<1>2. /\ heightChan = <<>> /\ blockChan = <<>>
      /\ phase = "fast" /\ base = 0 /\ next = 0 /\ count = 0
      /\ \A c \in Collectors : collector[c] = "exited"
      /\ \A h \in Handlers : handler[h] = "exited"
  BY DEF Off
<1>3. MainInv
  BY <1>2 DEF MainInv
<1>4. WaitInv
  BY <1>1, <1>2 DEF WaitInv
<1>5. HandInv
  BY <1>1, <1>2 DEF HandInv, Holding
<1>6. MarkInv
  BY DEF MarkInv
<1>7. StoreInv
  BY <1>2 DEF StoreInv
<1>8. CheckpointCovered
  BY <1>2 DEF CheckpointCovered
<1> QED
  BY <1>2, <1>3, <1>4, <1>5, <1>6, <1>7, <1>8 DEF FlowInv

LEMMA InitFlow == Init => FlowInv
<1> SUFFICES ASSUME Init PROVE FlowInv
  OBVIOUS
<1>1. /\ heightChan = <<>> /\ blockChan = <<>>
      /\ mainPc = "off" /\ phase = "fast" /\ base = 0 /\ next = 0 /\ count = 0 /\ tokens = 0
      /\ isDone = FALSE /\ exitCount = 0 /\ boots = 1 /\ failed = FALSE
      /\ ercData = trxData
      /\ collector = [c \in Collectors |-> "exited"] /\ fetched = [c \in Collectors |-> 0]
      /\ handler = [h \in Handlers |-> "exited"] /\ block = [h \in Handlers |-> 0]
  BY DEF Init
<1>2. PICK left \in 0..(Top - 1) :
        /\ trxHeight = left
        /\ trxData = [h \in Heights |-> IF left > 0 /\ h <= left THEN 1 ELSE 0]
  BY DEF Init
<1>3. Off
  BY <1>1 DEF Off
<1>4. trxData \in [Heights -> Nat] /\ \A b \in Heights : trxData[b] <= 1
  BY <1>2
<1>5. OncePerProcess
  BY <1>1, <1>4 DEF OncePerProcess
<1>6. TypeOK
  <2>1. /\ heightChan \in Seq(Heights \cup {Token}) /\ Len(heightChan) <= ChanCap
        /\ blockChan \in Seq(Heights \cup {Token}) /\ Len(blockChan) <= ChanCap
    BY <1>1, EmptySeq
  <2>2. 0 \in 0..Top /\ trxHeight \in 0..Top /\ boots \in 0..MaxBoots
    BY <1>1, <1>2
  <2>3. tokens \in 0..collect_threads /\ exitCount \in 0..(collect_threads + handle_threads + 1)
    BY <1>1, Threads
  <2>4. /\ collector \in [Collectors -> {"read", "push", "token", "exited"}]
        /\ fetched \in [Collectors -> 0..Top] /\ block \in [Handlers -> 0..Top]
    BY <1>1, <2>2
  <2>5. handler \in [Handlers -> {"get", "trx", "erc", "mark", "wait", "bump", "pass", "exited"}]
    BY <1>1
  <2> QED
    BY <1>1, <1>4, <2>1, <2>2, <2>3, <2>4, <2>5 DEF TypeOK
<1> QED
  BY <1>1, <1>3, <1>5, <1>6, OffSound

\* Whatever step it is killed at, or comes to its end.
LEMMA GoneStep == ASSUME FlowInv, Gone PROVE FlowInv'
<1>1. /\ heightChan' = <<>> /\ blockChan' = <<>>
      /\ mainPc' = "off" /\ phase' = "fast" /\ base' = 0 /\ next' = 0 /\ count' = 0 /\ tokens' = 0
      /\ isDone' = FALSE /\ exitCount' = 0
      /\ collector' = [c \in Collectors |-> "exited"] /\ fetched' = [c \in Collectors |-> 0]
      /\ handler' = [h \in Handlers |-> "exited"] /\ block' = [h \in Handlers |-> 0]
      /\ UNCHANGED <<trxData, ercData, trxHeight, boots, failed>>
  BY DEF Gone
<1>2. Off'
  BY <1>1 DEF Off
<1>3. OncePerProcess'
  BY <1>1 DEF FlowInv, StoreInv, OncePerProcess
<1>4. TypeOK'
  <2>1. /\ heightChan' \in Seq(Heights \cup {Token}) /\ Len(heightChan') <= ChanCap
        /\ blockChan' \in Seq(Heights \cup {Token}) /\ Len(blockChan') <= ChanCap
    BY <1>1, EmptySeq
  <2>2. 0 \in 0..Top /\ trxHeight' \in 0..Top /\ boots' \in 0..MaxBoots /\ failed' \in BOOLEAN
        /\ trxData' \in [Heights -> Nat] /\ ercData' \in [Heights -> Nat]
    BY <1>1 DEF FlowInv, TypeOK
  <2>3. tokens' \in 0..collect_threads /\ exitCount' \in 0..(collect_threads + handle_threads + 1)
    BY <1>1, Threads
  <2>4. /\ collector' \in [Collectors -> {"read", "push", "token", "exited"}]
        /\ fetched' \in [Collectors -> 0..Top] /\ block' \in [Handlers -> 0..Top]
    BY <1>1, <2>2
  <2>5. handler' \in [Handlers -> {"get", "trx", "erc", "mark", "wait", "bump", "pass", "exited"}]
    BY <1>1
  <2> QED
    BY <1>1, <2>1, <2>2, <2>3, <2>4, <2>5 DEF TypeOK
<1>5. (TypeOK /\ mainPc = "off" /\ Off /\ OncePerProcess => FlowInv)'
  BY OffSound, PTL
<1> QED
  BY <1>1, <1>2, <1>3, <1>4, <1>5

-----------------------------------------------------------------------------
(* What a step leaves alone.                                               *)

LEMMA Frames ==
    /\ UNCHANGED heightChan => Waiting' = Waiting
    /\ UNCHANGED blockChan => InChannel' = InChannel
    /\ UNCHANGED <<collector, fetched>> => AtCollectors' = AtCollectors
    /\ UNCHANGED <<handler, block>> => AtHandlers' = AtHandlers
    /\ UNCHANGED collector => Ending' = Ending /\ GoneOnes' = GoneOnes
    /\ UNCHANGED handler => Leaving' = Leaving /\ Counted' = Counted
<1>1. UNCHANGED heightChan => Waiting' = Waiting
  BY DEF Waiting, HeightsIn
<1>2. UNCHANGED blockChan => InChannel' = InChannel
  BY DEF InChannel, HeightsIn
<1>3. UNCHANGED <<collector, fetched>> => AtCollectors' = AtCollectors
  BY DEF AtCollectors
<1>4. UNCHANGED <<handler, block>> => AtHandlers' = AtHandlers
  BY DEF AtHandlers
<1>5. UNCHANGED collector => Ending' = Ending /\ GoneOnes' = GoneOnes
  BY DEF Ending, GoneOnes
<1>6. UNCHANGED handler => Leaving' = Leaving /\ Counted' = Counted
  BY DEF Leaving, Counted
<1> QED
  BY <1>1, <1>2, <1>3, <1>4, <1>5, <1>6

\* The turns of main that send nothing touch neither blocks nor goroutines.
LEMMA MainTurns ==
    ASSUME FlowInv, mainPc # "off", mainPc' # "off",
           UNCHANGED <<channels, phase, base, next, exitCount, collectorVars, handlerVars,
                       tables, boots, failed>>,
           mainPc' \in {"check", "send"} => mainPc \in {"check", "send"},
           TypeOK', MainInv', phase = "fast" => FastFeed', phase = "low" => LowFeed'
    PROVE  FlowInv'
<1>1. /\ heightChan' = heightChan /\ blockChan' = blockChan /\ phase' = phase /\ base' = base
      /\ next' = next /\ exitCount' = exitCount /\ collector' = collector /\ fetched' = fetched
      /\ handler' = handler /\ block' = block /\ trxData' = trxData /\ ercData' = ercData
      /\ trxHeight' = trxHeight /\ boots' = boots /\ failed' = failed
  OBVIOUS
<1>2. /\ Waiting' = Waiting /\ InChannel' = InChannel /\ AtCollectors' = AtCollectors
      /\ AtHandlers' = AtHandlers /\ InHand' = InHand
      /\ Ending' = Ending /\ GoneOnes' = GoneOnes /\ Leaving' = Leaving /\ Counted' = Counted
  BY <1>1, Frames DEF InHand
<1>3. WaitInv'
  BY <1>1, <1>2 DEF FlowInv, WaitInv
<1>4. HandInv'
  BY <1>1, <1>2 DEF FlowInv, HandInv, AllRead
<1>5. MarkInv'
  BY <1>1, <1>2 DEF FlowInv, MarkInv, AllRead
<1>6. StoreInv'
  BY <1>1, <1>2 DEF FlowInv, StoreInv, OncePerProcess, Stored
<1>7. CheckpointCovered'
  BY <1>1 DEF FlowInv, CheckpointCovered, Stored
<1>8. phase = "fast" => FastExit'
  BY <1>1, <1>2 DEF FlowInv, FastExit, Tokens
<1>9. phase = "low" => LowRun'
  BY <1>1, <1>2 DEF FlowInv, LowRun
<1> QED
  BY <1>1, <1>3, <1>4, <1>5, <1>6, <1>7, <1>8, <1>9 DEF FlowInv

LEMMA FastCheckStep == ASSUME FlowInv, FastCheck PROVE FlowInv'
<1>1. /\ mainPc = "check" /\ phase = "fast"
      /\ UNCHANGED <<channels, phase, base, next, exitCount, collectorVars, handlerVars,
                     tables, boots, failed>>
      /\ count' = count /\ isDone' = isDone
      /\ \/ next < count /\ ~isDone /\ mainPc' = "send" /\ tokens' = tokens
         \/ ~(next < count /\ ~isDone) /\ mainPc' = "tokens" /\ tokens' = collect_threads
  BY DEF FastCheck
<1>2. Waiting' = Waiting /\ Ending' = Ending
  BY <1>1, Frames
<1>3. TypeOK'
  <2>1. tokens' \in 0..collect_threads
    BY <1>1, Threads DEF FlowInv, TypeOK
  <2>2. mainPc' \in {"off", "check", "send", "tokens", "join"}
    BY <1>1
  <2> QED
    BY <1>1, <2>1, <2>2 DEF FlowInv, TypeOK
<1>4. MainInv'
  BY <1>1, Threads, Types DEF FlowInv, MainInv
<1>5. FastFeed'
  <2>1. FastFeed /\ WaitInv
    BY <1>1 DEF FlowInv
  <2>2. Ending = {} /\ Cardinality(Ending) = 0
    BY <1>1, <2>1, FS_EmptySet DEF FastFeed
  <2>3. Tokens(heightChan, Len(heightChan)) = {}
    BY <1>1, <2>1 DEF WaitInv, Tokens
  <2>4. Tokens(heightChan, Len(heightChan))' = {}
    BY <1>1, <2>3 DEF Tokens
  <2>5. Cardinality(Tokens(heightChan, Len(heightChan))') = 0
    BY <2>4, FS_EmptySet
  <2> QED
    BY <1>1, <1>2, <2>2, <2>5, Threads DEF FastFeed
<1> QED
  BY <1>1, <1>3, <1>4, <1>5, MainTurns

LEMMA LowPollStep == ASSUME FlowInv, LowPoll PROVE FlowInv'
<1>1. /\ mainPc = "check" /\ phase = "low"
      /\ UNCHANGED <<channels, phase, base, next, exitCount, collectorVars, handlerVars,
                     tables, boots, failed>>
      /\ isDone' = isDone
      /\ \/ isDone /\ mainPc' = "tokens" /\ tokens' = 1 /\ count' = count
         \/ count' \in (count + 1)..Top /\ mainPc' = "send" /\ tokens' = tokens
  BY DEF LowPoll
<1>2. Waiting' = Waiting /\ Ending' = Ending
  BY <1>1, Frames
<1>3. TypeOK'
  <2>1. tokens' \in 0..collect_threads /\ mainPc' \in {"off", "check", "send", "tokens", "join"}
    BY <1>1, Threads DEF FlowInv, TypeOK
  <2>2. count' \in 0..Top
    BY <1>1, Types DEF FlowInv, TypeOK
  <2> QED
    BY <1>1, <2>1, <2>2 DEF FlowInv, TypeOK
<1>4. MainInv'
  BY <1>1, Types DEF FlowInv, MainInv
<1>5. LowFeed'
  BY <1>1, <1>2 DEF FlowInv, LowFeed
<1> QED
  BY <1>1, <1>3, <1>4, <1>5, MainTurns

LEMMA SignalStep == ASSUME FlowInv, Signal PROVE FlowInv'
<1>1. /\ mainPc # "off" /\ isDone' = TRUE
      /\ UNCHANGED <<channels, mainVars, exitCount, collectorVars, handlerVars, tables, boots, failed>>
  BY DEF Signal
<1>2. Waiting' = Waiting /\ Ending' = Ending
  BY <1>1, Frames
<1>3. TypeOK'
  BY <1>1 DEF FlowInv, TypeOK
<1>4. MainInv'
  BY <1>1 DEF FlowInv, MainInv
<1>5. phase = "fast" => FastFeed'
  BY <1>1, <1>2 DEF FlowInv, FastFeed, Tokens
<1>6. phase = "low" => LowFeed'
  BY <1>1, <1>2 DEF FlowInv, LowFeed
<1> QED
  BY <1>1, <1>3, <1>4, <1>5, <1>6, MainTurns

\* A process starts with empty channels, and every goroutine at its beginning.
LEMMA BootStep == ASSUME FlowInv, Boot PROVE FlowInv'
<1>1. /\ mainPc = "off" /\ boots < MaxBoots
      /\ count' \in trxHeight..Top
      /\ mainPc' = "check" /\ phase' = "fast" /\ base' = trxHeight /\ next' = trxHeight
      /\ collector' = [c \in Collectors |-> "read"]
      /\ handler' = [h \in Handlers |-> "get"]
      /\ boots' = boots + 1
      /\ heightChan' = heightChan /\ blockChan' = blockChan /\ tokens' = tokens
      /\ isDone' = isDone /\ exitCount' = exitCount /\ fetched' = fetched /\ block' = block
      /\ trxData' = trxData /\ ercData' = ercData /\ trxHeight' = trxHeight /\ failed' = failed
  BY DEF Boot
<1>2. Off
  BY <1>1 DEF FlowInv, MainInv
<1>3. /\ heightChan = <<>> /\ blockChan = <<>> /\ exitCount = 0 /\ tokens = 0
  BY <1>2 DEF Off
<1>4. Waiting' = {} /\ InChannel' = {}
  BY <1>1, <1>2, Frames, OffIsIdle
<1>5. AtCollectors' = {} /\ AtHandlers' = {} /\ InHand' = {}
  BY <1>1, <1>4 DEF AtCollectors, AtHandlers, Holding, InHand
<1>6. Ending' = {} /\ GoneOnes' = {} /\ Leaving' = {} /\ Counted' = {}
  BY <1>1 DEF Ending, GoneOnes, Leaving, Counted
<1>7. TypeOK'
  <2>1. base' \in 0..Top /\ next' \in 0..Top /\ count' \in 0..Top /\ boots' \in 0..MaxBoots
    BY <1>1, Types DEF FlowInv, TypeOK
  <2>2. /\ collector' \in [Collectors -> {"read", "push", "token", "exited"}]
        /\ handler' \in [Handlers -> {"get", "trx", "erc", "mark", "wait", "bump", "pass", "exited"}]
    BY <1>1
  <2> QED
    BY <1>1, <2>1, <2>2 DEF FlowInv, TypeOK
<1>8. MainInv'
  BY <1>1, Types DEF FlowInv, MainInv
<1>9. WaitInv'
  BY <1>1, <1>3, <1>4 DEF WaitInv
<1>10. HandInv'
  BY <1>1, <1>3, <1>4, <1>5 DEF HandInv, Holding
<1>11. MarkInv'
  BY <1>1, Types DEF FlowInv, MarkInv
<1>12. StoreInv'
  <2>1. \A b \in Heights : trxData[b] <= boots /\ ercData[b] <= boots
                            /\ trxData[b] \in Nat /\ ercData[b] \in Nat
    BY Types DEF FlowInv, StoreInv, OncePerProcess
  <2>2. boots \in Nat
    BY Types DEF FlowInv
  <2>3. \A b \in Heights : trxData'[b] < boots' /\ ercData'[b] < boots'
    BY <1>1, <2>1, <2>2
  <2>4. \A b \in Heights : trxData'[b] <= boots' /\ ercData'[b] <= boots'
    BY <1>1, <2>1, <2>2
  <2>5. \A b \in Heights : ~(base' <= b /\ b < next')
    BY <1>1, Types DEF FlowInv
  <2> QED
    BY <1>1, <2>3, <2>4, <2>5 DEF StoreInv, OncePerProcess
<1>13. FastFeed' /\ FastExit'
  <2>1. Cardinality({}) = 0
    BY FS_EmptySet
  <2>2. FastFeed'
    BY <1>1, <1>6 DEF FastFeed
  <2>3. Tokens(blockChan, Len(blockChan))' = {}
    BY <1>1, <1>3 DEF Tokens
  <2>4. \A h \in Handlers : handler'[h] = "get"
    BY <1>1
  <2>5. Len(blockChan') = 0 /\ exitCount' = 0
    BY <1>1, <1>3
  <2>6. FastExit'
    BY <1>6, <2>1, <2>3, <2>4, <2>5, Threads DEF FastExit
  <2> QED
    BY <2>2, <2>6
<1>14. CheckpointCovered'
  BY <1>1 DEF CheckpointCovered
<1> QED
  BY <1>1, <1>7, <1>8, <1>9, <1>10, <1>11, <1>12, <1>13, <1>14 DEF FlowInv

\* A height is sent while no token has been, so it is behind all that wait.
LEMMA SendHeightStep == ASSUME FlowInv, SendHeight PROVE FlowInv'
<1>1. /\ mainPc = "send" /\ Len(heightChan) < ChanCap
      /\ heightChan' = Append(heightChan, next) /\ next' = next + 1
      /\ mainPc' = IF phase = "low" /\ next + 1 < count THEN "send" ELSE "check"
      /\ blockChan' = blockChan /\ phase' = phase /\ base' = base /\ count' = count
      /\ tokens' = tokens /\ isDone' = isDone /\ exitCount' = exitCount
      /\ collector' = collector /\ fetched' = fetched /\ handler' = handler /\ block' = block
      /\ trxData' = trxData /\ ercData' = ercData /\ trxHeight' = trxHeight
      /\ boots' = boots /\ failed' = failed
  BY DEF SendHeight, Send
<1>2. /\ InChannel' = InChannel /\ AtCollectors' = AtCollectors
      /\ AtHandlers' = AtHandlers /\ InHand' = InHand
      /\ Ending' = Ending /\ GoneOnes' = GoneOnes /\ Leaving' = Leaving /\ Counted' = Counted
  BY <1>1, Frames DEF InHand
<1>3. /\ next \in Nat /\ count \in Nat /\ base \in Nat /\ next < count /\ count <= Top /\ Top \in Nat
      /\ base <= next /\ heightChan \in Seq(Items) /\ Len(heightChan) \in Nat
      /\ Waiting \subseteq Nat /\ trxHeight \in Nat
  BY <1>1, Types DEF FlowInv, MainInv
<1>4. next \in Heights /\ next \in Items /\ next # Token
  BY <1>3 DEF Heights, Items
<1>5. Waiting' = Waiting \cup {next}
  BY <1>1, <1>3, <1>4, HeightsAppend DEF Waiting, HeightsIn
<1>6. /\ heightChan' \in Seq(Items) /\ Len(heightChan') = Len(heightChan) + 1
      /\ \A i \in 1..Len(heightChan) : heightChan'[i] = heightChan[i]
      /\ heightChan'[Len(heightChan) + 1] = next
  BY <1>1, <1>3, <1>4, AppendFacts
<1>7. mainPc' \in {"send", "check"}
  BY <1>1
<1>8. TypeOK'
  <2>1. heightChan' \in Seq(Heights \cup {Token}) /\ Len(heightChan') <= ChanCap
    BY <1>1, <1>3, <1>6 DEF Items
  <2>2. next' \in 0..Top /\ mainPc' \in {"off", "check", "send", "tokens", "join"}
    BY <1>1, <1>3, <1>7
  <2> QED
    BY <1>1, <2>1, <2>2 DEF FlowInv, TypeOK
<1>9. MainInv'
  BY <1>1, <1>3 DEF FlowInv, MainInv
<1>10. \A b \in Waiting : base <= b /\ b < next
  BY DEF FlowInv, WaitInv
<1>11. WaitInv'
  <2>1. \A i \in 1..Len(heightChan) : heightChan[i] # Token
    BY <1>1 DEF FlowInv, WaitInv
  <2>2. \A i \in 1..Len(heightChan) : heightChan[i] \in Waiting
    BY <2>1 DEF Waiting, HeightsIn
  <2>3. \A i, j \in 1..Len(heightChan) : i < j => heightChan[i] < heightChan[j]
    BY <2>1 DEF FlowInv, WaitInv
  <2>4. \A i \in 1..Len(heightChan) : heightChan[i] < next
    BY <1>10, <2>2
  <2>5. \A i \in 1..Len(heightChan') : heightChan'[i] # Token
    BY <1>3, <1>4, <1>6, <2>1
  <2>6. ASSUME NEW i \in 1..Len(heightChan'), NEW j \in 1..Len(heightChan'), i < j
        PROVE heightChan'[i] < heightChan'[j]
    <3>1. CASE j = Len(heightChan) + 1
      BY <1>3, <1>6, <2>4, <2>6, <3>1
    <3>2. CASE j \in 1..Len(heightChan)
      BY <1>3, <1>6, <2>3, <2>6, <3>2
    <3> QED
      BY <1>3, <1>6, <3>1, <3>2
  <2>7. \A b \in Waiting' : base <= b /\ b < next + 1
    BY <1>3, <1>5, <1>10
  <2> QED
    BY <1>1, <2>5, <2>6, <2>7 DEF WaitInv
<1>12. HandInv'
  <2>1. \A b \in InHand : base <= b /\ b < next + 1 /\ \A x \in Waiting \cup {next} : b < x
    <3>1. InHand \subseteq Nat
      BY <1>3 DEF FlowInv, TypeOK, InHand, AtCollectors, InChannel, AtHandlers, Heights, HeightsIn, Items
    <3> QED
      BY <1>3, <3>1 DEF FlowInv, HandInv, AllRead
  <2>2. \A b \in InHand' : base' <= b /\ b < next' /\ AllRead(b)'
    BY <1>1, <1>2, <1>5, <2>1 DEF AllRead
  <2> QED
    BY <1>1, <1>2, <2>2 DEF FlowInv, HandInv
<1>13. MarkInv'
  <2>1. base <= trxHeight /\ (trxHeight # base => trxHeight < next /\ AllRead(trxHeight))
    BY <1>1 DEF FlowInv, MarkInv
  <2> QED
    BY <1>1, <1>3, <1>5, <2>1 DEF MarkInv, AllRead
<1>14. StoreInv'
  <2>1. OncePerProcess'
    BY <1>1 DEF FlowInv, StoreInv, OncePerProcess
  <2>2. \A b \in Heights :
          b >= next' \/ b \in Waiting' \cup AtCollectors' \cup InChannel' =>
              trxData'[b] < boots' /\ ercData'[b] < boots'
    BY <1>1, <1>2, <1>3, <1>5, Types DEF FlowInv, StoreInv
  <2>3. \A h \in Handlers :
          /\ handler'[h] = "trx" => trxData'[block'[h]] < boots'
          /\ handler'[h] \in {"trx", "erc"} => ercData'[block'[h]] < boots'
          /\ handler'[h] \in {"erc", "mark"} /\ ~failed' => trxData'[block'[h]] > 0
          /\ handler'[h] = "mark" /\ ~failed' => ercData'[block'[h]] > 0
    BY <1>1 DEF FlowInv, StoreInv
  <2>4. ~failed => \A b \in Heights :
          base <= b /\ b < next' =>
              \/ b \in Waiting' \cup AtCollectors' \cup InChannel'
              \/ \E h \in Handlers : handler[h] \in {"trx", "erc"} /\ block[h] = b
              \/ Stored(b)
    BY <1>1, <1>2, <1>3, <1>5, Types DEF FlowInv, StoreInv
  <2>5. \A b \in Heights : Stored(b)' <=> Stored(b)
    BY <1>1 DEF Stored
  <2> QED
    BY <1>1, <2>1, <2>2, <2>3, <2>4, <2>5 DEF StoreInv
<1>15. phase = "fast" => FastFeed' /\ FastExit'
  <2> SUFFICES ASSUME phase = "fast" PROVE FastFeed' /\ FastExit'
    OBVIOUS
  <2>1. FastFeed /\ FastExit
    BY <1>1 DEF FlowInv
  <2>2. FastFeed'
    BY <1>1, <1>2, <1>7, <2>1 DEF FastFeed
  <2>3. FastExit'
    BY <1>1, <1>2, <2>1 DEF FastExit, Tokens
  <2> QED
    BY <2>2, <2>3
<1>16. phase = "low" => LowFeed' /\ LowRun'
  BY <1>1, <1>2 DEF FlowInv, LowFeed, LowRun
<1>17. CheckpointCovered'
  BY <1>1 DEF FlowInv, CheckpointCovered, Stored
<1> QED
  BY <1>1, <1>8, <1>9, <1>11, <1>12, <1>13, <1>14, <1>15, <1>16, <1>17 DEF FlowInv

LEMMA SendTokenStep == ASSUME FlowInv, SendToken PROVE FlowInv'
<1>1. /\ mainPc = "tokens" /\ Len(heightChan) < ChanCap
      /\ heightChan' = Append(heightChan, Token) /\ tokens' = tokens - 1
      /\ mainPc' = IF tokens = 1 THEN "join" ELSE "tokens"
      /\ next' = next /\ blockChan' = blockChan /\ phase' = phase /\ base' = base /\ count' = count
      /\ isDone' = isDone /\ exitCount' = exitCount
      /\ collector' = collector /\ fetched' = fetched /\ handler' = handler /\ block' = block
      /\ trxData' = trxData /\ ercData' = ercData /\ trxHeight' = trxHeight
      /\ boots' = boots /\ failed' = failed
  BY DEF SendToken, Send
<1>2. /\ InChannel' = InChannel /\ AtCollectors' = AtCollectors
      /\ AtHandlers' = AtHandlers /\ InHand' = InHand
      /\ Ending' = Ending /\ GoneOnes' = GoneOnes /\ Leaving' = Leaving /\ Counted' = Counted
  BY <1>1, Frames DEF InHand
<1>3. /\ tokens \in Nat /\ tokens > 0 /\ heightChan \in Seq(Items) /\ Len(heightChan) \in Nat
  BY <1>1, Types DEF FlowInv, MainInv
<1>4. Token \in Items
  BY DEF Items
<1>5. Waiting' = Waiting
  BY <1>1, <1>3, <1>4, HeightsAppend DEF Waiting, HeightsIn
<1>6. /\ heightChan' \in Seq(Items) /\ Len(heightChan') = Len(heightChan) + 1
      /\ \A i \in 1..Len(heightChan) : heightChan'[i] = heightChan[i]
      /\ heightChan'[Len(heightChan) + 1] = Token
  BY <1>1, <1>3, <1>4, AppendFacts
<1>7. mainPc' \in {"join", "tokens"}
  BY <1>1
<1>8. TypeOK'
  <2>1. heightChan' \in Seq(Heights \cup {Token}) /\ Len(heightChan') <= ChanCap
    BY <1>1, <1>3, <1>6 DEF Items
  <2>2. tokens' \in 0..collect_threads /\ mainPc' \in {"off", "check", "send", "tokens", "join"}
    BY <1>1, <1>3, <1>7, Threads DEF FlowInv, TypeOK
  <2> QED
    BY <1>1, <2>1, <2>2 DEF FlowInv, TypeOK
<1>9. MainInv'
  BY <1>1, <1>3 DEF FlowInv, MainInv
<1>11. WaitInv'
  <2>1. \A i, j \in 1..Len(heightChan') : i < j /\ heightChan'[j] # Token =>
          heightChan'[i] # Token /\ heightChan'[i] < heightChan'[j]
    <3> SUFFICES ASSUME NEW i \in 1..Len(heightChan'), NEW j \in 1..Len(heightChan'), i < j, heightChan'[j] # Token
                 PROVE heightChan'[i] # Token /\ heightChan'[i] < heightChan'[j]
      OBVIOUS
    <3>1. i \in 1..Len(heightChan) /\ j \in 1..Len(heightChan)
      BY <1>3, <1>6
    <3> QED
      BY <1>6, <3>1 DEF FlowInv, WaitInv
  <2> QED
    BY <1>1, <1>5, <1>7, <2>1 DEF FlowInv, WaitInv
<1>12. HandInv'
  BY <1>1, <1>2, <1>5 DEF FlowInv, HandInv, AllRead
<1>13. MarkInv'
  BY <1>1, <1>5 DEF FlowInv, MarkInv, AllRead
<1>14. StoreInv'
  BY <1>1, <1>2, <1>5 DEF FlowInv, StoreInv, OncePerProcess, Stored
<1>15. phase = "fast" => FastFeed' /\ FastExit'
  <2> SUFFICES ASSUME phase = "fast" PROVE FastFeed' /\ FastExit'
    OBVIOUS
  <2>1. FastFeed /\ FastExit
    BY <1>1 DEF FlowInv
  <2>2. Cardinality(Tokens(heightChan', Len(heightChan'))) = Cardinality(Tokens(heightChan, Len(heightChan))) + 1
    BY <1>1, <1>3, <1>4, <1>6, TokensAppend
  <2>3. Cardinality(Tokens(heightChan, Len(heightChan))) \in Nat /\ Cardinality(Ending) \in Nat
    BY <1>3, TokensFinite, Parts DEF Ending
  <2>4. Cardinality(Tokens(heightChan', Len(heightChan'))) + tokens' + Cardinality(Ending) = collect_threads
    BY <1>1, <1>3, <2>1, <2>2, <2>3 DEF FastFeed
  <2>5. FastFeed'
    BY <1>1, <1>2, <1>5, <1>7, <2>1, <2>4 DEF FastFeed, Tokens
  <2>6. FastExit'
    BY <1>1, <1>2, <2>1 DEF FastExit, Tokens
  <2> QED
    BY <2>5, <2>6
<1>16. phase = "low" => LowFeed' /\ LowRun'
  BY <1>1, <1>2, <1>5 DEF FlowInv, LowFeed, LowRun
<1>17. CheckpointCovered'
  BY <1>1 DEF FlowInv, CheckpointCovered, Stored
<1> QED
  BY <1>1, <1>8, <1>9, <1>11, <1>12, <1>13, <1>14, <1>15, <1>16, <1>17 DEF FlowInv

-----------------------------------------------------------------------------
(* The end of a phase.                                                     *)

\* When all goroutines of the fast phase have exited, nothing is on its way: each
\* handler has taken an exit block, and before a block in the channel there cannot
\* have been as many of those as there are handlers.
LEMMA NothingLeft ==
    ASSUME FlowInv, Joined
    PROVE  /\ mainPc = "join" /\ tokens = 0
           /\ Waiting = {} /\ InHand = {} /\ AtCollectors = {} /\ InChannel = {} /\ AtHandlers = {}
           /\ phase = "fast" => \A i \in 1..Len(heightChan) : heightChan[i] # Token
<1>1. /\ mainPc = "join" /\ tokens = 0
      /\ \A c \in Collectors : collector[c] = "exited"
      /\ \A h \in Handlers : handler[h] = "exited"
  BY DEF Joined, FlowInv, MainInv
<1>2. AtCollectors = {} /\ AtHandlers = {} /\ Ending = Collectors /\ Leaving = Handlers
  BY <1>1 DEF AtCollectors, AtHandlers, Holding, Ending, Leaving
<1>3. heightChan \in Seq(Items) /\ blockChan \in Seq(Items) /\ Len(heightChan) \in Nat /\ Len(blockChan) \in Nat
  BY Types DEF FlowInv
<1>4. CASE phase = "fast"
  <2>1. FastFeed /\ FastExit
    BY <1>1, <1>4 DEF FlowInv
  <2>2. Waiting = {}
    BY <1>2, <2>1 DEF FastFeed
  <2>3. /\ Cardinality(Tokens(heightChan, Len(heightChan))) \in Nat
        /\ IsFiniteSet(Tokens(heightChan, Len(heightChan)))
    BY <1>3, TokensFinite
  <2>4. Cardinality(Ending) = collect_threads /\ Cardinality(Leaving) = handle_threads
    BY <1>2 DEF collect_threads, handle_threads
  <2>5. Cardinality(Tokens(heightChan, Len(heightChan))) = 0
    BY <1>1, <2>1, <2>3, <2>4, Threads DEF FastFeed
  <2>6. Tokens(heightChan, Len(heightChan)) = {}
    BY <2>3, <2>5, FS_EmptySet
  <2>7. \A i \in 1..Len(heightChan) : heightChan[i] # Token
    BY <2>6 DEF Tokens
  <2>8. \A i \in 1..Len(blockChan) : blockChan[i] = Token
    <3> SUFFICES ASSUME NEW i \in 1..Len(blockChan), blockChan[i] # Token PROVE FALSE
      OBVIOUS
    <3>1. Cardinality(Tokens(blockChan, i)) + Cardinality(Leaving) < collect_threads
      BY <2>1 DEF FastExit
    <3>2. Cardinality(Tokens(blockChan, i)) \in Nat
      BY <1>3, TokensFinite
    <3> QED
      BY <2>4, <3>1, <3>2, Threads, ProcessorAssumption
  <2>9. InChannel = {}
    BY <2>8 DEF InChannel, HeightsIn
  <2> QED
    BY <1>1, <1>2, <2>2, <2>7, <2>9 DEF InHand
<1>5. CASE phase = "low"
  <2>1. LowFeed /\ LowRun
    BY <1>5 DEF FlowInv
  <2>2. Waiting = {} /\ InChannel = {}
    BY <1>2, <2>1, Threads DEF LowFeed, LowRun
  <2> QED
    BY <1>1, <1>2, <1>5, <2>2 DEF InHand
<1> QED
  BY <1>4, <1>5 DEF FlowInv, TypeOK

\* All that main has fed by then is stored.
LEMMA JoinedStored ==
    ASSUME FlowInv
    PROVE  FedIsStored
<1> SUFFICES ASSUME Joined, ~failed, NEW b \in Heights, base <= b, b < next PROVE Stored(b)
  BY DEF FedIsStored
<1>1. mainPc = "join" /\ Waiting = {} /\ AtCollectors = {} /\ InChannel = {}
  BY NothingLeft
<1>2. \A h \in Handlers : handler[h] = "exited"
  BY DEF Joined
<1>3. \/ b \in Waiting \cup AtCollectors \cup InChannel
      \/ \E h \in Handlers : handler[h] \in {"trx", "erc"} /\ block[h] = b
      \/ Stored(b)
  BY <1>1 DEF FlowInv, StoreInv
<1> QED
  BY <1>1, <1>2, <1>3

LEMMA StartLowStep == ASSUME FlowInv, StartLow PROVE FlowInv'
<1>1. /\ Joined /\ phase = "fast" /\ ~isDone
      /\ blockChan' = <<>> /\ phase' = "low" /\ mainPc' = "check" /\ next' = count
      /\ collector' = [collector EXCEPT ![LowCollector] = "read"]
      /\ handler' = [handler EXCEPT ![LowHandler] = "get"]
      /\ heightChan' = heightChan /\ base' = base /\ count' = count /\ tokens' = tokens
      /\ isDone' = isDone /\ exitCount' = exitCount /\ fetched' = fetched /\ block' = block
      /\ trxData' = trxData /\ ercData' = ercData /\ trxHeight' = trxHeight
      /\ boots' = boots /\ failed' = failed
  BY DEF StartLow, Drained, LowStart
<1>2. /\ mainPc = "join" /\ tokens = 0 /\ Waiting = {}
      /\ \A i \in 1..Len(heightChan) : heightChan[i] # Token
  BY <1>1, NothingLeft
<1>3. next = count
  BY <1>1, <1>2 DEF FlowInv, MainInv
<1>4. /\ \A c \in Collectors : collector[c] = "exited"
      /\ \A h \in Handlers : handler[h] = "exited"
  BY <1>1 DEF Joined
<1>5. /\ collector' \in [Collectors -> {"read", "push", "token", "exited"}]
      /\ handler' \in [Handlers -> {"get", "trx", "erc", "mark", "wait", "bump", "pass", "exited"}]
      /\ collector'[LowCollector] = "read" /\ handler'[LowHandler] = "get"
      /\ \A c \in Collectors : c # LowCollector => collector'[c] = "exited"
      /\ \A h \in Handlers : h # LowHandler => handler'[h] = "exited"
  BY <1>1, <1>4, Threads DEF FlowInv, TypeOK
<1>6. /\ \A c \in Collectors : collector'[c] \in {"read", "exited"}
      /\ \A h \in Handlers : handler'[h] \in {"get", "exited"}
  BY <1>5
<1>7. Waiting' = {} /\ InChannel' = {} /\ AtCollectors' = {} /\ AtHandlers' = {} /\ InHand' = {}
  <2>1. Waiting' = {}
    BY <1>1, <1>2, Frames
  <2>2. InChannel' = {}
    BY <1>1 DEF InChannel, HeightsIn
  <2>3. AtCollectors' = {} /\ AtHandlers' = {}
    BY <1>6 DEF AtCollectors, AtHandlers, Holding
  <2> QED
    BY <2>1, <2>2, <2>3 DEF InHand
<1>8. TypeOK'
  <2>1. blockChan' \in Seq(Heights \cup {Token}) /\ Len(blockChan') <= ChanCap
    BY <1>1, EmptySeq
  <2> QED
    BY <1>1, <1>3, <1>5, <2>1 DEF FlowInv, TypeOK
<1>9. MainInv'
  BY <1>1, <1>2, <1>3 DEF FlowInv, MainInv
<1>10. WaitInv'
  BY <1>1, <1>2, <1>7 DEF FlowInv, WaitInv
<1>11. HandInv'
  BY <1>1, <1>6, <1>7 DEF HandInv, Holding
<1>12. MarkInv'
  BY <1>1, <1>2, <1>3, <1>7 DEF FlowInv, MarkInv, AllRead
<1>13. \A b \in Heights : Stored(b)' <=> Stored(b)
  BY <1>1 DEF Stored
<1>14. ~failed => \A b \in Heights : base <= b /\ b < next => Stored(b)
  BY <1>1, JoinedStored DEF FedIsStored
<1>15. StoreInv'
  <2>1. OncePerProcess'
    BY <1>1 DEF FlowInv, StoreInv, OncePerProcess
  <2>2. \A b \in Heights :
          b >= next' \/ b \in Waiting' \cup AtCollectors' \cup InChannel' =>
              trxData'[b] < boots' /\ ercData'[b] < boots'
    BY <1>1, <1>2, <1>3, <1>7 DEF FlowInv, StoreInv
  <2> QED
    BY <1>1, <1>3, <1>6, <1>13, <1>14, <2>1, <2>2 DEF StoreInv
<1>16. LowFeed'
  BY <1>5, <1>7 DEF LowFeed, Ending
<1>17. LowRun'
  <2>1. exitCount <= collect_threads + handle_threads
    <3>1. exitCount <= Cardinality(Ending) + Cardinality(Counted)
      BY <1>1, <1>2 DEF FlowInv, FastExit
    <3>2. /\ Cardinality(Ending) \in Nat /\ Cardinality(Ending) <= collect_threads
          /\ Cardinality(Counted) \in Nat /\ Cardinality(Counted) <= handle_threads
      BY Parts DEF Ending, Counted
    <3> QED
      BY <3>1, <3>2, Threads, Types DEF FlowInv
  <2>2. LowCollector \notin Ending' /\ LowHandler \notin Leaving'
    BY <1>5 DEF Ending, Leaving
  <2>3. Len(blockChan') = 0
    BY <1>1
  <2> QED
    BY <1>1, <1>5, <1>7, <2>1, <2>2, <2>3, Threads DEF LowRun
<1>18. CheckpointCovered'
  <2>1. trxHeight # base => trxHeight < next
    BY <1>2 DEF FlowInv, MarkInv
  <2>2. trxHeight # base /\ ~failed => \A b \in Heights : base <= b /\ b <= trxHeight => Stored(b)
    BY <1>14, <2>1, Types DEF FlowInv
  <2> QED
    BY <1>1, <1>13, <2>2 DEF CheckpointCovered
<1> QED
  BY <1>1, <1>8, <1>9, <1>10, <1>11, <1>12, <1>15, <1>16, <1>17, <1>18 DEF FlowInv

\* Each turn of main.
LEMMA MainStep == ASSUME FlowInv, Boot \/ Main \/ Signal \/ Kill PROVE FlowInv'
<1>1. CASE Boot
  BY <1>1, BootStep
<1>2. CASE FastCheck
  BY <1>2, FastCheckStep
<1>3. CASE LowPoll
  BY <1>3, LowPollStep
<1>4. CASE SendHeight
  BY <1>4, SendHeightStep
<1>5. CASE SendToken
  BY <1>5, SendTokenStep
<1>6. CASE StartLow
  BY <1>6, StartLowStep
<1>7. CASE End
  BY <1>7, GoneStep DEF End
<1>8. CASE Signal
  BY <1>8, SignalStep
<1>9. CASE Kill
  BY <1>9, GoneStep DEF Kill
<1> QED
  BY <1>1, <1>2, <1>3, <1>4, <1>5, <1>6, <1>7, <1>8, <1>9 DEF Main

-----------------------------------------------------------------------------
(* The collectors.                                                         *)

\* A goroutine that has not exited belongs to a process that runs, and in the low phase
\* it is the one of its kind.
LEMMA Running ==
    ASSUME FlowInv
    PROVE  /\ \A c \in Collectors : collector[c] # "exited" =>
                 mainPc # "off" /\ (phase = "low" => c = LowCollector)
           /\ \A h \in Handlers : handler[h] # "exited" =>
                 mainPc # "off" /\ (phase = "low" => h = LowHandler)
           /\ phase \in {"fast", "low"} /\ base <= next
BY DEF FlowInv, TypeOK, MainInv, Off, LowRun

\* What a collector reads is before all that still wait and after all read before.
LEMMA ReadHeightStep ==
    ASSUME FlowInv, NEW c \in Collectors, Read(c), Head(heightChan) # Token
    PROVE  FlowInv'
<1> DEFINE x == Head(heightChan)
<1>1. /\ collector[c] = "read" /\ heightChan # <<>> /\ heightChan' = Tail(heightChan)
      /\ fetched' = [fetched EXCEPT ![c] = x]
      /\ collector' = [collector EXCEPT ![c] = "push"]
      /\ exitCount' = exitCount
      /\ blockChan' = blockChan /\ mainPc' = mainPc /\ phase' = phase /\ base' = base
      /\ next' = next /\ count' = count /\ tokens' = tokens /\ isDone' = isDone
      /\ handler' = handler /\ block' = block
      /\ trxData' = trxData /\ ercData' = ercData /\ trxHeight' = trxHeight
      /\ boots' = boots /\ failed' = failed
  BY DEF Read
<1>2. mainPc # "off" /\ (phase = "low" => c = LowCollector) /\ phase \in {"fast", "low"}
  BY <1>1, Running
<1>3. /\ InChannel' = InChannel /\ AtHandlers' = AtHandlers
      /\ Leaving' = Leaving /\ Counted' = Counted
  BY <1>1, Frames
<1>4. /\ heightChan \in Seq(Items) /\ Len(heightChan) \in Nat /\ Waiting \subseteq Heights
      /\ base \in Nat /\ next \in Nat /\ trxHeight \in Nat /\ Heights \subseteq Nat
      /\ blockChan \in Seq(Items)
  BY Types DEF FlowInv
<1>5. /\ heightChan' \in Seq(Items) /\ Len(heightChan) > 0
      /\ Len(heightChan') = Len(heightChan) - 1
      /\ \A i \in 1..Len(heightChan') : heightChan'[i] = heightChan[i + 1]
      /\ x = heightChan[1] /\ x \in Items
  BY <1>1, <1>4, TailFacts
<1>6. x \in Heights /\ x # Token
  BY <1>5 DEF Items
<1>7. Waiting = Waiting' \cup {x} /\ Waiting' \subseteq Waiting
  <2>1. HeightsIn(heightChan) = HeightsIn(heightChan') \cup {x}
    BY <1>1, <1>4, <1>6, HeightsTail
  <2>2. Waiting' = HeightsIn(heightChan')
    BY DEF Waiting, HeightsIn
  <2> QED
    BY <2>1, <2>2 DEF Waiting
<1> HIDE DEF x
<1>8. \A b \in Waiting' : x < b
  <2> SUFFICES ASSUME NEW i \in 1..Len(heightChan'), heightChan'[i] # Token PROVE x < heightChan'[i]
    BY DEF Waiting, HeightsIn
  <2>1. i + 1 \in 1..Len(heightChan) /\ 1 \in 1..Len(heightChan) /\ 1 < i + 1
        /\ heightChan'[i] = heightChan[i + 1]
    BY <1>4, <1>5
  <2> QED
    BY <1>5, <2>1 DEF FlowInv, WaitInv
<1>9. base <= x /\ x < next
  BY <1>7 DEF FlowInv, WaitInv
<1>10. /\ collector' \in [Collectors -> {"read", "push", "token", "exited"}]
       /\ collector'[c] = "push" /\ fetched'[c] = x
       /\ \A d \in Collectors : d # c => collector'[d] = collector[d] /\ fetched'[d] = fetched[d]
       /\ \A d \in Collectors : collector'[d] \in {"token", "exited"} <=> collector[d] \in {"token", "exited"}
       /\ \A d \in Collectors : collector'[d] = "exited" <=> collector[d] = "exited"
  BY <1>1 DEF FlowInv, TypeOK
<1>11. Ending' = Ending /\ GoneOnes' = GoneOnes
  BY <1>10 DEF Ending, GoneOnes
<1>12. AtCollectors' = AtCollectors \cup {x}
  BY <1>1, <1>10 DEF AtCollectors
<1>13. \A b \in InHand : base <= b /\ b < next /\ b < x
  BY <1>7 DEF FlowInv, HandInv, AllRead
<1>14. x \notin AtCollectors /\ x \notin InChannel /\ x \notin AtHandlers
  BY <1>4, <1>6, <1>13 DEF InHand
<1>15. TypeOK'
  <2>1. heightChan' \in Seq(Heights \cup {Token}) /\ Len(heightChan') <= ChanCap
    BY <1>4, <1>5 DEF Items, FlowInv, TypeOK
  <2>2. fetched' \in [Collectors -> 0..Top]
    <3>1. x \in 0..Top
      BY <1>6, Types DEF Heights, FlowInv
    <3> QED
      BY <1>1, <3>1 DEF FlowInv, TypeOK
  <2> QED
    BY <1>1, <1>10, <2>1, <2>2 DEF FlowInv, TypeOK
<1>16. MainInv'
  BY <1>1, <1>2 DEF FlowInv, MainInv
<1>17. WaitInv'
  <2>1. \A i, j \in 1..Len(heightChan') : i < j /\ heightChan'[j] # Token =>
          heightChan'[i] # Token /\ heightChan'[i] < heightChan'[j]
    <3> SUFFICES ASSUME NEW i \in 1..Len(heightChan'), NEW j \in 1..Len(heightChan'), i < j, heightChan'[j] # Token
                 PROVE heightChan'[i] # Token /\ heightChan'[i] < heightChan'[j]
      OBVIOUS
    <3>1. /\ i + 1 \in 1..Len(heightChan) /\ j + 1 \in 1..Len(heightChan) /\ i + 1 < j + 1
          /\ heightChan'[i] = heightChan[i + 1] /\ heightChan'[j] = heightChan[j + 1]
      BY <1>4, <1>5
    <3> QED
      BY <3>1 DEF FlowInv, WaitInv
  <2>2. mainPc \in {"check", "send"} => \A i \in 1..Len(heightChan') : heightChan'[i] # Token
    <3> SUFFICES ASSUME mainPc \in {"check", "send"}, NEW i \in 1..Len(heightChan') PROVE heightChan'[i] # Token
      OBVIOUS
    <3>1. i + 1 \in 1..Len(heightChan) /\ heightChan'[i] = heightChan[i + 1]
      BY <1>4, <1>5
    <3> QED
      BY <3>1 DEF FlowInv, WaitInv
  <2> QED
    BY <1>1, <1>7, <2>1, <2>2 DEF FlowInv, WaitInv
<1>18. HandInv'
  <2>1. \A b \in InHand' : base' <= b /\ b < next' /\ AllRead(b)'
    <3>1. InHand' = InHand \cup {x}
      BY <1>3, <1>12 DEF InHand
    <3>2. \A b \in InHand : AllRead(b)
      BY DEF FlowInv, HandInv
    <3> QED
      BY <1>1, <1>7, <1>8, <1>9, <1>13, <3>1, <3>2 DEF AllRead
  <2>2. \A d \in Collectors : d # c /\ collector[d] = "push" => fetched[d] # x
    BY <1>14 DEF AtCollectors
  <2>3. \A d, e \in Collectors :
          collector'[d] = "push" /\ collector'[e] = "push" /\ fetched'[d] = fetched'[e] => d = e
    BY <1>10, <2>2 DEF FlowInv, HandInv
  <2>4. /\ AtCollectors' \cap InChannel' = {} /\ AtCollectors' \cap AtHandlers' = {}
        /\ InChannel' \cap AtHandlers' = {}
    BY <1>3, <1>12, <1>14 DEF FlowInv, HandInv
  <2> QED
    BY <1>1, <2>1, <2>3, <2>4 DEF FlowInv, HandInv
<1>19. MarkInv'
  BY <1>1, <1>7 DEF FlowInv, MarkInv, AllRead
<1>20. StoreInv'
  <2>1. Waiting \cup AtCollectors \cup InChannel = (Waiting \cup AtCollectors \cup InChannel)'
    BY <1>3, <1>7, <1>12
  <2> QED
    BY <1>1, <2>1 DEF FlowInv, StoreInv, OncePerProcess, Stored
<1>21. phase = "fast" => FastFeed' /\ FastExit'
  <2> SUFFICES ASSUME phase = "fast" PROVE FastFeed' /\ FastExit'
    OBVIOUS
  <2>1. FastFeed /\ FastExit
    BY <1>2 DEF FlowInv
  <2>2. Ending = {}
    BY <1>7, <2>1 DEF FastFeed
  <2>3. Cardinality(Tokens(heightChan', Len(heightChan'))) = Cardinality(Tokens(heightChan, Len(heightChan)))
    <3>1. Cardinality(Tokens(heightChan, Len(heightChan)))
            = Cardinality(Tokens(Tail(heightChan), Len(heightChan) - 1)) + (IF Head(heightChan) = Token THEN 1 ELSE 0)
      BY <1>1, <1>4, <1>5, TokensTail
    <3>2. Cardinality(Tokens(heightChan', Len(heightChan'))) \in Nat
      BY <1>4, <1>5, TokensFinite
    <3> QED
      BY <1>1, <1>5, <1>6, <3>1, <3>2 DEF x
  <2>4. FastFeed'
    BY <1>1, <1>11, <2>1, <2>2, <2>3 DEF FastFeed, Tokens
  <2>5. FastExit'
    BY <1>1, <1>3, <1>11, <2>1 DEF FastExit, Tokens
  <2> QED
    BY <2>4, <2>5
<1>22. phase = "low" => LowFeed' /\ LowRun'
  <2> SUFFICES ASSUME phase = "low" PROVE LowFeed' /\ LowRun'
    OBVIOUS
  <2>1. LowFeed /\ LowRun /\ c = LowCollector
    BY <1>2 DEF FlowInv
  <2>2. c \notin Ending
    BY <1>1 DEF Ending
  <2>3. \A b \in InChannel \cup AtHandlers : b < x
    BY <1>13 DEF InHand
  <2>4. \A b \in AtCollectors', y \in InChannel' \cup AtHandlers' : y < b
    BY <1>3, <1>12, <2>1, <2>3 DEF LowRun
  <2>5. LowFeed'
    BY <1>11, <2>1, <2>2 DEF LowFeed
  <2> QED
    BY <1>1, <1>3, <1>10, <1>11, <2>1, <2>4, <2>5 DEF LowRun
<1>23. CheckpointCovered'
  BY <1>1 DEF FlowInv, CheckpointCovered, Stored
<1> QED
  BY <1>1, <1>2, <1>15, <1>16, <1>17, <1>18, <1>19, <1>20, <1>21, <1>22, <1>23 DEF FlowInv

\* A token is read when no height waits any more; exit_count comes to collect_threads
\* with the last of them.
LEMMA ReadTokenStep ==
    ASSUME FlowInv, NEW c \in Collectors, Read(c), Head(heightChan) = Token
    PROVE  FlowInv'
<1>1. /\ collector[c] = "read" /\ heightChan # <<>> /\ heightChan' = Tail(heightChan)
      /\ fetched' = fetched
      /\ collector' = [collector EXCEPT ![c] = "token"]
      /\ exitCount' = exitCount + 1
      /\ blockChan' = blockChan /\ mainPc' = mainPc /\ phase' = phase /\ base' = base
      /\ next' = next /\ count' = count /\ tokens' = tokens /\ isDone' = isDone
      /\ handler' = handler /\ block' = block
      /\ trxData' = trxData /\ ercData' = ercData /\ trxHeight' = trxHeight
      /\ boots' = boots /\ failed' = failed
  BY DEF Read
<1>2. mainPc # "off" /\ (phase = "low" => c = LowCollector) /\ phase \in {"fast", "low"}
  BY <1>1, Running
<1>3. /\ InChannel' = InChannel /\ AtHandlers' = AtHandlers
      /\ Leaving' = Leaving /\ Counted' = Counted
  BY <1>1, Frames
<1>4. /\ heightChan \in Seq(Items) /\ Len(heightChan) \in Nat /\ exitCount \in Nat
      /\ blockChan \in Seq(Items) /\ Len(blockChan) \in Nat
  BY Types DEF FlowInv
<1>5. /\ heightChan' \in Seq(Items) /\ Len(heightChan) > 0
      /\ Len(heightChan') = Len(heightChan) - 1
      /\ \A i \in 1..Len(heightChan') : heightChan'[i] = heightChan[i + 1]
      /\ heightChan[1] = Token
  BY <1>1, <1>4, TailFacts
<1>6. Waiting = {}
  <2> SUFFICES ASSUME NEW j \in 1..Len(heightChan), heightChan[j] # Token PROVE FALSE
    BY DEF Waiting, HeightsIn
  <2>1. 1 \in 1..Len(heightChan) /\ 1 < j
    BY <1>4, <1>5
  <2> QED
    BY <1>5, <2>1 DEF FlowInv, WaitInv
<1>7. Waiting' = {}
  <2>1. HeightsIn(heightChan) = HeightsIn(heightChan') \cup {}
    BY <1>1, <1>4, HeightsTail
  <2>2. Waiting' = HeightsIn(heightChan')
    BY DEF Waiting, HeightsIn
  <2> QED
    BY <1>6, <2>1, <2>2 DEF Waiting
<1>8. mainPc \in {"tokens", "join"}
  <2>1. mainPc \notin {"check", "send"}
    BY <1>4, <1>5 DEF FlowInv, WaitInv
  <2> QED
    BY <1>2, <2>1 DEF FlowInv, TypeOK
<1>10. /\ collector' \in [Collectors -> {"read", "push", "token", "exited"}]
       /\ collector'[c] = "token"
       /\ \A d \in Collectors : d # c => collector'[d] = collector[d]
       /\ \A d \in Collectors : collector'[d] = "push" <=> collector[d] = "push"
  BY <1>1 DEF FlowInv, TypeOK
<1>11. Ending' = Ending \cup {c} /\ GoneOnes' = GoneOnes /\ c \notin Ending
  BY <1>1, <1>10 DEF Ending, GoneOnes
<1>12. AtCollectors' = AtCollectors /\ InHand' = InHand
  BY <1>1, <1>3, <1>10 DEF AtCollectors, InHand
<1>13. /\ IsFiniteSet(Ending) /\ Cardinality(Ending) \in Nat
       /\ Cardinality(Ending') = Cardinality(Ending) + 1
       /\ Cardinality(Counted) \in Nat /\ Cardinality(Counted) <= handle_threads
       /\ Cardinality(Ending) < collect_threads
       /\ Cardinality(Ending') = collect_threads => Ending' = Collectors
  <2>1. Ending \subseteq Collectors /\ Ending' \subseteq Collectors /\ Counted \subseteq Handlers
    BY <1>11 DEF Ending, Counted
  <2>2. IsFiniteSet(Ending) /\ Cardinality(Ending) \in Nat /\ Cardinality(Ending) <= collect_threads
    BY <2>1, Parts
  <2>3. Cardinality(Ending) # collect_threads
    BY <1>11, <2>1, Parts
  <2>4. Cardinality(Ending') = Cardinality(Ending) + 1
    BY <1>11, <2>2, AddOne
  <2> QED
    BY <2>1, <2>2, <2>3, <2>4, Parts, Threads
<1>14. phase = "fast" => exitCount < collect_threads /\ exitCount = Cardinality(Ending)
  <2>1. phase = "fast" => FastExit
    BY <1>2 DEF FlowInv
  <2> QED
    BY <1>4, <1>11, <2>1, Threads DEF FastExit
<1>15. TypeOK'
  <2>1. heightChan' \in Seq(Heights \cup {Token}) /\ Len(heightChan') <= ChanCap
    BY <1>4, <1>5 DEF Items, FlowInv, TypeOK
  <2>2. phase = "low" => exitCount <= collect_threads + handle_threads
    BY <1>2, <1>4, <1>11, Threads DEF FlowInv, LowRun
  <2>3. exitCount' \in 0..(collect_threads + handle_threads + 1)
    BY <1>1, <1>2, <1>4, <1>14, <2>2, Threads
  <2> QED
    BY <1>1, <1>10, <2>1, <2>3 DEF FlowInv, TypeOK
<1>16. MainInv'
  BY <1>1, <1>2 DEF FlowInv, MainInv
<1>17. WaitInv'
  <2>1. \A i \in 1..Len(heightChan') : heightChan'[i] = Token
    BY <1>7 DEF Waiting, HeightsIn
  <2> QED
    BY <1>1, <1>7, <1>8, <2>1 DEF WaitInv
<1>18. HandInv'
  <2>1. \A b \in InHand' : base' <= b /\ b < next' /\ AllRead(b)'
    BY <1>1, <1>7, <1>12 DEF FlowInv, HandInv, AllRead
  <2> QED
    BY <1>1, <1>3, <1>10, <1>12, <2>1 DEF FlowInv, HandInv
<1>19. MarkInv'
  BY <1>1, <1>7 DEF FlowInv, MarkInv, AllRead
<1>20. StoreInv'
  BY <1>1, <1>3, <1>6, <1>7, <1>12 DEF FlowInv, StoreInv, OncePerProcess, Stored
<1>21. phase = "fast" => FastFeed' /\ FastExit'
  <2> SUFFICES ASSUME phase = "fast" PROVE FastFeed' /\ FastExit'
    OBVIOUS
  <2>1. FastFeed /\ FastExit
    BY <1>2 DEF FlowInv
  <2>2. /\ Cardinality(Tokens(heightChan, Len(heightChan))) = Cardinality(Tokens(heightChan', Len(heightChan'))) + 1
        /\ Cardinality(Tokens(heightChan', Len(heightChan'))) \in Nat
    <3>1. Cardinality(Tokens(heightChan, Len(heightChan)))
            = Cardinality(Tokens(Tail(heightChan), Len(heightChan) - 1)) + (IF Head(heightChan) = Token THEN 1 ELSE 0)
      BY <1>1, <1>4, <1>5, TokensTail
    <3>2. Cardinality(Tokens(heightChan', Len(heightChan'))) \in Nat
      BY <1>4, <1>5, TokensFinite
    <3> QED
      BY <1>1, <1>5, <3>1, <3>2
  <2>3. tokens \in Nat
    BY Types DEF FlowInv
  <2>4. Cardinality(Tokens(heightChan', Len(heightChan'))) + tokens' + Cardinality(Ending') = collect_threads
    BY <1>1, <1>8, <1>13, <2>1, <2>2, <2>3, Threads DEF FastFeed
  <2>5. FastFeed'
    BY <1>1, <1>7, <1>8, <2>4 DEF FastFeed, Tokens
  <2>6. exitCount' = Cardinality(Ending')
    BY <1>1, <1>13, <1>14
  <2>7. exitCount' >= collect_threads => Ending' = Collectors
    BY <1>1, <1>4, <1>13, <1>14, <2>6, Threads
  <2>8. exitCount' <= Cardinality(Ending') + Cardinality(Counted')
    BY <1>1, <1>3, <1>4, <1>13, <2>6
  <2>9. /\ \A h \in Handlers : handler[h] \notin {"bump", "pass", "exited"}
        /\ Cardinality(Tokens(blockChan, Len(blockChan))) + Cardinality(Leaving) <= Cardinality(GoneOnes)
        /\ \A i \in 1..Len(blockChan) : blockChan[i] # Token =>
              Cardinality(Tokens(blockChan, i)) + Cardinality(Leaving) < collect_threads
    BY <1>14, <2>1 DEF FastExit
  <2>10. FastExit'
    BY <1>1, <1>3, <1>11, <2>6, <2>7, <2>8, <2>9 DEF FastExit, Tokens
  <2> QED
    BY <2>5, <2>10
<1>22. phase = "low" => LowFeed' /\ LowRun'
  <2> SUFFICES ASSUME phase = "low" PROVE LowFeed' /\ LowRun'
    OBVIOUS
  <2>1. LowFeed /\ LowRun /\ c = LowCollector
    BY <1>2 DEF FlowInv
  <2>2. LowFeed'
    BY <1>1, <1>7, <1>8 DEF LowFeed
  <2>3. LowHandler \notin Leaving /\ \A i \in 1..Len(blockChan) : blockChan[i] # Token
    BY <1>1, <2>1 DEF LowRun
  <2>4. handler[LowHandler] # "bump"
    BY <2>3, Threads DEF Leaving
  <2>5. exitCount' <= collect_threads + handle_threads + 1 /\ LowCollector \in Ending'
    BY <1>1, <1>4, <1>11, <2>1, Threads DEF LowRun
  <2> QED
    BY <1>1, <1>3, <1>10, <1>12, <2>1, <2>2, <2>3, <2>4, <2>5 DEF LowRun
<1>23. CheckpointCovered'
  BY <1>1 DEF FlowInv, CheckpointCovered, Stored
<1> QED
  BY <1>1, <1>2, <1>15, <1>16, <1>17, <1>18, <1>19, <1>20, <1>21, <1>22, <1>23 DEF FlowInv

\* A block goes into the channel behind all that went before, while exit_count says that
\* a collector is still at work.
LEMMA PushBlockStep ==
    ASSUME FlowInv, NEW c \in Collectors, PushBlock(c)
    PROVE  FlowInv'
<1> DEFINE x == fetched[c]
<1>1. /\ collector[c] = "push" /\ Len(blockChan) < ChanCap /\ blockChan' = Append(blockChan, x)
      /\ fetched' = [fetched EXCEPT ![c] = 0]
      /\ collector' = [collector EXCEPT ![c] = "read"]
      /\ exitCount' = exitCount
      /\ heightChan' = heightChan /\ mainPc' = mainPc /\ phase' = phase /\ base' = base
      /\ next' = next /\ count' = count /\ tokens' = tokens /\ isDone' = isDone
      /\ handler' = handler /\ block' = block
      /\ trxData' = trxData /\ ercData' = ercData /\ trxHeight' = trxHeight
      /\ boots' = boots /\ failed' = failed
  BY DEF PushBlock, Send
<1>2. mainPc # "off" /\ (phase = "low" => c = LowCollector) /\ phase \in {"fast", "low"}
  BY <1>1, Running
<1>3. /\ Waiting' = Waiting /\ AtHandlers' = AtHandlers
      /\ Leaving' = Leaving /\ Counted' = Counted
  BY <1>1, Frames
<1>4. /\ blockChan \in Seq(Items) /\ Len(blockChan) \in Nat /\ InChannel \subseteq Heights
      /\ Heights \subseteq Nat /\ exitCount \in Nat
      /\ base \in Nat /\ next \in Nat /\ Top \in Nat /\ next <= Top
  BY Types DEF FlowInv
<1>5. x \in AtCollectors /\ x \in InHand
  BY <1>1 DEF AtCollectors, InHand
<1>6. x \in Heights /\ x \in Items /\ x # Token /\ x \in 0..Top
  <2>1. x \in 0..Top /\ base <= x /\ x < next
    BY <1>5 DEF FlowInv, TypeOK, HandInv
  <2> QED
    BY <1>4, <2>1 DEF Heights, Items
<1> HIDE DEF x
<1>7. /\ blockChan' \in Seq(Items) /\ Len(blockChan') = Len(blockChan) + 1
      /\ \A i \in 1..Len(blockChan) : blockChan'[i] = blockChan[i]
      /\ blockChan'[Len(blockChan) + 1] = x
  BY <1>1, <1>4, <1>6, AppendFacts
<1>8. InChannel' = InChannel \cup {x}
  <2>1. HeightsIn(blockChan') = HeightsIn(blockChan) \cup {x}
    BY <1>1, <1>4, <1>6, HeightsAppend
  <2>2. InChannel' = HeightsIn(blockChan')
    BY DEF InChannel, HeightsIn
  <2> QED
    BY <2>1, <2>2 DEF InChannel
<1>10. /\ collector' \in [Collectors -> {"read", "push", "token", "exited"}]
       /\ collector'[c] = "read"
       /\ \A d \in Collectors : d # c => collector'[d] = collector[d] /\ fetched'[d] = fetched[d]
  BY <1>1 DEF FlowInv, TypeOK
<1>11. Ending' = Ending /\ GoneOnes' = GoneOnes /\ c \notin Ending /\ c \notin GoneOnes
  BY <1>1, <1>10 DEF Ending, GoneOnes
<1>12. AtCollectors = AtCollectors' \cup {x} /\ x \notin AtCollectors' /\ AtCollectors' \subseteq AtCollectors
  <2>1. \A d \in Collectors : d # c /\ collector[d] = "push" => fetched[d] # x
    BY <1>1 DEF FlowInv, HandInv, x
  <2> QED
    BY <1>1, <1>10, <2>1 DEF AtCollectors, x
<1>13. InHand' = InHand
  BY <1>3, <1>8, <1>12 DEF InHand
<1>14. x \notin InChannel /\ x \notin AtHandlers
  BY <1>5 DEF FlowInv, HandInv
<1>15. TypeOK'
  <2>1. blockChan' \in Seq(Heights \cup {Token}) /\ Len(blockChan') <= ChanCap
    BY <1>1, <1>4, <1>7 DEF Items
  <2>2. fetched' \in [Collectors -> 0..Top]
    <3>1. 0 \in 0..Top
      BY <1>4
    <3> QED
      BY <1>1, <3>1 DEF FlowInv, TypeOK
  <2> QED
    BY <1>1, <1>10, <2>1, <2>2 DEF FlowInv, TypeOK
<1>16. MainInv'
  BY <1>1, <1>2 DEF FlowInv, MainInv
<1>17. WaitInv'
  BY <1>1, <1>3 DEF FlowInv, WaitInv
<1>18. HandInv'
  <2>1. \A b \in InHand' : base' <= b /\ b < next' /\ AllRead(b)'
    BY <1>1, <1>3, <1>13 DEF FlowInv, HandInv, AllRead
  <2>2. \A d, e \in Collectors :
          collector'[d] = "push" /\ collector'[e] = "push" /\ fetched'[d] = fetched'[e] => d = e
    BY <1>10 DEF FlowInv, HandInv
  <2>3. \A i \in 1..Len(blockChan) : blockChan[i] # x
    BY <1>6, <1>14 DEF InChannel, HeightsIn
  <2>4. \A i, j \in 1..Len(blockChan') : blockChan'[i] # Token /\ blockChan'[i] = blockChan'[j] => i = j
    <3> SUFFICES ASSUME NEW i \in 1..Len(blockChan'), NEW j \in 1..Len(blockChan'),
                        blockChan'[i] # Token, blockChan'[i] = blockChan'[j]
                 PROVE i = j
      OBVIOUS
    <3>1. CASE i \in 1..Len(blockChan) /\ j \in 1..Len(blockChan)
      BY <1>7, <3>1 DEF FlowInv, HandInv
    <3>2. CASE i = Len(blockChan) + 1 /\ j \in 1..Len(blockChan)
      BY <1>7, <2>3, <3>2
    <3>3. CASE i \in 1..Len(blockChan) /\ j = Len(blockChan) + 1
      BY <1>7, <2>3, <3>3
    <3> QED
      BY <1>4, <1>7, <3>1, <3>2, <3>3
  <2>5. /\ AtCollectors' \cap InChannel' = {} /\ AtCollectors' \cap AtHandlers' = {}
        /\ InChannel' \cap AtHandlers' = {}
    BY <1>3, <1>8, <1>12, <1>14 DEF FlowInv, HandInv
  <2> QED
    BY <1>1, <2>1, <2>2, <2>4, <2>5 DEF FlowInv, HandInv
<1>19. MarkInv'
  BY <1>1, <1>3 DEF FlowInv, MarkInv, AllRead
<1>20. StoreInv'
  <2>1. Waiting \cup AtCollectors \cup InChannel = (Waiting \cup AtCollectors \cup InChannel)'
    BY <1>3, <1>8, <1>12
  <2> QED
    BY <1>1, <2>1 DEF FlowInv, StoreInv, OncePerProcess, Stored
<1>21. phase = "fast" => FastFeed' /\ FastExit'
  <2> SUFFICES ASSUME phase = "fast" PROVE FastFeed' /\ FastExit'
    OBVIOUS
  <2>1. FastFeed /\ FastExit
    BY <1>2 DEF FlowInv
  <2>2. FastFeed'
    BY <1>1, <1>3, <1>11, <2>1 DEF FastFeed, Tokens
  <2>3. exitCount < collect_threads
    BY <1>4, <1>11, <2>1, Threads DEF FastExit
  <2>4. Cardinality(GoneOnes) < collect_threads
    <3>1. GoneOnes \subseteq Collectors
      BY DEF GoneOnes
    <3> QED
      BY <1>11, <3>1, Parts, Threads
  <2>5. Cardinality(GoneOnes) \in Nat /\ Cardinality(Leaving) \in Nat
    BY Parts DEF GoneOnes, Leaving
  <2>6. /\ \A n \in 0..Len(blockChan) : Tokens(blockChan', n) = Tokens(blockChan, n)
        /\ Cardinality(Tokens(blockChan', Len(blockChan) + 1)) = Cardinality(Tokens(blockChan, Len(blockChan)))
    <3>1. Cardinality(Tokens(blockChan, Len(blockChan))) \in Nat
      BY <1>4, TokensFinite
    <3> QED
      BY <1>1, <1>4, <1>6, <3>1, TokensAppend
  <2>7. Cardinality(Tokens(blockChan', Len(blockChan'))) + Cardinality(Leaving) <= Cardinality(GoneOnes)
    BY <1>7, <2>1, <2>3, <2>6 DEF FastExit
  <2>8. \A i \in 1..Len(blockChan') : blockChan'[i] # Token =>
          Cardinality(Tokens(blockChan', i)) + Cardinality(Leaving) < collect_threads
    <3> SUFFICES ASSUME NEW i \in 1..Len(blockChan'), blockChan'[i] # Token
                 PROVE Cardinality(Tokens(blockChan', i)) + Cardinality(Leaving) < collect_threads
      OBVIOUS
    <3>1. CASE i \in 1..Len(blockChan)
      <4>1. Tokens(blockChan', i) = Tokens(blockChan, i)
        BY <1>4, <2>6, <3>1
      <4> QED
        BY <1>7, <2>1, <3>1, <4>1 DEF FastExit
    <3>2. CASE i = Len(blockChan) + 1
      <4>1. Cardinality(Tokens(blockChan', i)) \in Nat
        BY <1>4, <3>2, TokensFinite
      <4> QED
        BY <1>7, <2>4, <2>5, <2>7, <3>2, <4>1, Threads
    <3> QED
      BY <1>4, <1>7, <3>1, <3>2
  <2>9. FastExit'
    BY <1>1, <1>3, <1>11, <2>1, <2>7, <2>8 DEF FastExit, Tokens
  <2> QED
    BY <2>2, <2>9
<1>22. phase = "low" => LowFeed' /\ LowRun'
  <2> SUFFICES ASSUME phase = "low" PROVE LowFeed' /\ LowRun'
    OBVIOUS
  <2>1. LowFeed /\ LowRun /\ c = LowCollector
    BY <1>2 DEF FlowInv
  <2>2. LowHandler \notin Leaving /\ \A i \in 1..Len(blockChan) : blockChan[i] # Token
    BY <1>1, <2>1 DEF LowRun
  <2>3. AtCollectors' = {}
    BY <1>10, <2>1 DEF AtCollectors, LowRun
  <2>4. (\A y \in InChannel : y < x) /\ (\A b \in AtHandlers : b < x)
    BY <1>5, <2>1 DEF LowRun
  <2>5. \A i \in 1..Len(blockChan') : blockChan'[i] # Token
    BY <1>4, <1>6, <1>7, <2>2
  <2>6. \A i \in 1..Len(blockChan) : blockChan[i] < x
    BY <2>2, <2>4 DEF InChannel, HeightsIn
  <2>7. \A i, j \in 1..Len(blockChan') : i < j => blockChan'[i] < blockChan'[j]
    <3> SUFFICES ASSUME NEW i \in 1..Len(blockChan'), NEW j \in 1..Len(blockChan'), i < j
                 PROVE blockChan'[i] < blockChan'[j]
      OBVIOUS
    <3>1. i \in 1..Len(blockChan)
      BY <1>4, <1>7
    <3>2. CASE j = Len(blockChan) + 1
      BY <1>7, <2>6, <3>1, <3>2
    <3>3. CASE j \in 1..Len(blockChan)
      BY <1>7, <2>1, <2>2, <3>1, <3>3 DEF LowRun
    <3> QED
      BY <1>4, <1>7, <3>2, <3>3
  <2>8. \A b \in AtHandlers', y \in InChannel' : b < y
    BY <1>3, <1>8, <2>1, <2>4 DEF LowRun
  <2>9. LowFeed'
    BY <1>1, <1>3, <1>11, <2>1 DEF LowFeed
  <2> QED
    BY <1>1, <1>3, <1>10, <1>11, <2>1, <2>2, <2>3, <2>5, <2>7, <2>8, <2>9 DEF LowRun
<1>23. CheckpointCovered'
  BY <1>1 DEF FlowInv, CheckpointCovered, Stored
<1> QED
  BY <1>1, <1>2, <1>15, <1>16, <1>17, <1>18, <1>19, <1>20, <1>21, <1>22, <1>23 DEF FlowInv

\* An exit block, behind all blocks too.
LEMMA ExitBlockSent ==
    ASSUME FlowInv, blockChan' = Append(blockChan, Token)
    PROVE  /\ blockChan' \in Seq(Items) /\ Len(blockChan) \in Nat
           /\ Len(blockChan') = Len(blockChan) + 1
           /\ \A i \in 1..Len(blockChan) : blockChan'[i] = blockChan[i]
           /\ blockChan'[Len(blockChan) + 1] = Token
           /\ \A i \in 1..Len(blockChan') : blockChan'[i] # Token => i \in 1..Len(blockChan)
           /\ InChannel' = InChannel
           /\ \A i \in 1..Len(blockChan) : Tokens(blockChan', i) = Tokens(blockChan, i)
           /\ Cardinality(Tokens(blockChan', Len(blockChan'))) = Cardinality(Tokens(blockChan, Len(blockChan))) + 1
           /\ Cardinality(Tokens(blockChan, Len(blockChan))) \in Nat
<1>1. blockChan \in Seq(Items) /\ Len(blockChan) \in Nat
  BY Types DEF FlowInv
<1>2. Token \in Items
  BY DEF Items
<1>3. /\ blockChan' \in Seq(Items) /\ Len(blockChan') = Len(blockChan) + 1
      /\ \A i \in 1..Len(blockChan) : blockChan'[i] = blockChan[i]
      /\ blockChan'[Len(blockChan) + 1] = Token
  BY <1>1, <1>2, AppendFacts
<1>4. \A i \in 1..Len(blockChan') : blockChan'[i] # Token => i \in 1..Len(blockChan)
  BY <1>1, <1>3
<1>5. InChannel' = InChannel
  <2>1. HeightsIn(blockChan') = HeightsIn(blockChan) \cup {}
    BY <1>1, <1>2, HeightsAppend
  <2>2. InChannel' = HeightsIn(blockChan')
    BY DEF InChannel, HeightsIn
  <2> QED
    BY <2>1, <2>2 DEF InChannel
<1>6. /\ \A i \in 0..Len(blockChan) : Tokens(blockChan', i) = Tokens(blockChan, i)
      /\ Cardinality(Tokens(blockChan', Len(blockChan) + 1)) = Cardinality(Tokens(blockChan, Len(blockChan))) + 1
  BY <1>1, <1>2, TokensAppend
<1>7. \A i \in 1..Len(blockChan) : Tokens(blockChan', i) = Tokens(blockChan, i)
  BY <1>1, <1>6
<1> QED
  BY <1>1, <1>3, <1>4, <1>5, <1>6, <1>7, TokensFinite

LEMMA PushTokenStep ==
    ASSUME FlowInv, NEW c \in Collectors, PushToken(c)
    PROVE  FlowInv'
<1>1. /\ collector[c] = "token" /\ Len(blockChan) < ChanCap /\ blockChan' = Append(blockChan, Token)
      /\ fetched' = fetched
      /\ collector' = [collector EXCEPT ![c] = "exited"]
      /\ exitCount' = exitCount
      /\ heightChan' = heightChan /\ mainPc' = mainPc /\ phase' = phase /\ base' = base
      /\ next' = next /\ count' = count /\ tokens' = tokens /\ isDone' = isDone
      /\ handler' = handler /\ block' = block
      /\ trxData' = trxData /\ ercData' = ercData /\ trxHeight' = trxHeight
      /\ boots' = boots /\ failed' = failed
  BY DEF PushToken, Send
<1>2. mainPc # "off" /\ (phase = "low" => c = LowCollector) /\ phase \in {"fast", "low"}
  BY <1>1, Running
<1>3. /\ Waiting' = Waiting /\ AtHandlers' = AtHandlers
      /\ Leaving' = Leaving /\ Counted' = Counted
  BY <1>1, Frames
<1>4. /\ blockChan' \in Seq(Items) /\ Len(blockChan) \in Nat
      /\ Len(blockChan') = Len(blockChan) + 1
      /\ \A i \in 1..Len(blockChan) : blockChan'[i] = blockChan[i]
      /\ \A i \in 1..Len(blockChan') : blockChan'[i] # Token => i \in 1..Len(blockChan)
      /\ InChannel' = InChannel
      /\ \A i \in 1..Len(blockChan) : Tokens(blockChan', i) = Tokens(blockChan, i)
      /\ Cardinality(Tokens(blockChan', Len(blockChan'))) = Cardinality(Tokens(blockChan, Len(blockChan))) + 1
      /\ Cardinality(Tokens(blockChan, Len(blockChan))) \in Nat
  BY <1>1, ExitBlockSent
<1>10. /\ collector' \in [Collectors -> {"read", "push", "token", "exited"}]
       /\ collector'[c] = "exited"
       /\ \A d \in Collectors : d # c => collector'[d] = collector[d]
       /\ \A d \in Collectors : collector'[d] \in {"token", "exited"} <=> collector[d] \in {"token", "exited"}
       /\ \A d \in Collectors : collector'[d] = "push" <=> collector[d] = "push"
  BY <1>1 DEF FlowInv, TypeOK
<1>11. /\ Ending' = Ending /\ GoneOnes' = GoneOnes \cup {c} /\ c \notin GoneOnes
       /\ AtCollectors' = AtCollectors
  BY <1>1, <1>10 DEF Ending, GoneOnes, AtCollectors
<1>12. InHand' = InHand
  BY <1>3, <1>4, <1>11 DEF InHand
<1>15. TypeOK'
  <2>1. blockChan' \in Seq(Heights \cup {Token}) /\ Len(blockChan') <= ChanCap
    BY <1>1, <1>4 DEF Items
  <2> QED
    BY <1>1, <1>10, <2>1 DEF FlowInv, TypeOK
<1>16. MainInv'
  BY <1>1, <1>2 DEF FlowInv, MainInv
<1>17. WaitInv'
  BY <1>1, <1>3 DEF FlowInv, WaitInv
<1>18. HandInv'
  <2>1. \A b \in InHand' : base' <= b /\ b < next' /\ AllRead(b)'
    BY <1>1, <1>3, <1>12 DEF FlowInv, HandInv, AllRead
  <2>2. \A i, j \in 1..Len(blockChan') : blockChan'[i] # Token /\ blockChan'[i] = blockChan'[j] => i = j
    BY <1>4 DEF FlowInv, HandInv
  <2> QED
    BY <1>1, <1>3, <1>4, <1>10, <1>11, <2>1, <2>2 DEF FlowInv, HandInv
<1>19. MarkInv'
  BY <1>1, <1>3 DEF FlowInv, MarkInv, AllRead
<1>20. StoreInv'
  BY <1>1, <1>3, <1>4, <1>11 DEF FlowInv, StoreInv, OncePerProcess, Stored
<1>21. phase = "fast" => FastFeed' /\ FastExit'
  <2> SUFFICES ASSUME phase = "fast" PROVE FastFeed' /\ FastExit'
    OBVIOUS
  <2>1. FastFeed /\ FastExit
    BY <1>2 DEF FlowInv
  <2>2. FastFeed'
    BY <1>1, <1>3, <1>11, <2>1 DEF FastFeed, Tokens
  <2>3. Cardinality(GoneOnes') = Cardinality(GoneOnes) + 1
    <3>1. IsFiniteSet(GoneOnes)
      BY Parts DEF GoneOnes
    <3> QED
      BY <1>11, <3>1, AddOne
  <2>4. Cardinality(GoneOnes) \in Nat /\ Cardinality(Leaving) \in Nat
    BY Parts DEF GoneOnes, Leaving
  <2>5. exitCount < collect_threads =>
          Cardinality(Tokens(blockChan', Len(blockChan'))) + Cardinality(Leaving) <= Cardinality(GoneOnes')
    BY <1>4, <2>1, <2>3, <2>4 DEF FastExit
  <2>6. \A i \in 1..Len(blockChan') : blockChan'[i] # Token =>
          Cardinality(Tokens(blockChan', i)) + Cardinality(Leaving) < collect_threads
    BY <1>4, <2>1 DEF FastExit
  <2>7. FastExit'
    BY <1>1, <1>3, <1>11, <2>1, <2>5, <2>6 DEF FastExit, Tokens
  <2> QED
    BY <2>2, <2>7
<1>22. phase = "low" => LowFeed' /\ LowRun'
  <2> SUFFICES ASSUME phase = "low" PROVE LowFeed' /\ LowRun'
    OBVIOUS
  <2>1. LowFeed /\ LowRun /\ c = LowCollector
    BY <1>2 DEF FlowInv
  <2>2. LowFeed'
    BY <1>1, <1>3, <1>11, <2>1 DEF LowFeed
  <2>3. \A i, j \in 1..Len(blockChan') : i < j /\ blockChan'[j] # Token =>
          blockChan'[i] # Token /\ blockChan'[i] < blockChan'[j]
    <3> SUFFICES ASSUME NEW i \in 1..Len(blockChan'), NEW j \in 1..Len(blockChan'), i < j, blockChan'[j] # Token
                 PROVE blockChan'[i] # Token /\ blockChan'[i] < blockChan'[j]
      OBVIOUS
    <3>1. j \in 1..Len(blockChan) /\ i \in 1..Len(blockChan)
      BY <1>4
    <3> QED
      BY <1>4, <2>1, <3>1 DEF LowRun
  <2> QED
    BY <1>1, <1>3, <1>4, <1>10, <1>11, <2>1, <2>2, <2>3 DEF LowRun
<1>23. CheckpointCovered'
  BY <1>1 DEF FlowInv, CheckpointCovered, Stored
<1> QED
  BY <1>1, <1>2, <1>15, <1>16, <1>17, <1>18, <1>19, <1>20, <1>21, <1>22, <1>23 DEF FlowInv

LEMMA CollectStep == ASSUME FlowInv, NEW c \in Collectors, Collect(c) PROVE FlowInv'
<1>1. CASE Read(c)
  BY <1>1, ReadHeightStep, ReadTokenStep
<1>2. CASE PushBlock(c)
  BY <1>2, PushBlockStep
<1>3. CASE PushToken(c)
  BY <1>3, PushTokenStep
<1> QED
  BY <1>1, <1>2, <1>3 DEF Collect

-----------------------------------------------------------------------------
(* The handlers.                                                           *)

\* What is left in the channel when its first element is received.
LEMMA Received ==
    ASSUME FlowInv, blockChan # <<>>, blockChan' = Tail(blockChan)
    PROVE  /\ blockChan' \in Seq(Items) /\ Len(blockChan) \in Nat /\ Len(blockChan) > 0
           /\ Len(blockChan') = Len(blockChan) - 1
           /\ \A i \in 1..Len(blockChan') : i + 1 \in 1..Len(blockChan) /\ blockChan'[i] = blockChan[i + 1]
           /\ Head(blockChan) = blockChan[1] /\ Head(blockChan) \in Items
           /\ InChannel = InChannel' \cup (IF Head(blockChan) = Token THEN {} ELSE {Head(blockChan)})
           /\ Head(blockChan) \notin InChannel'
           /\ \A i \in 0..Len(blockChan') :
                 /\ Cardinality(Tokens(blockChan', i)) \in Nat
                 /\ Cardinality(Tokens(blockChan, i + 1))
                      = Cardinality(Tokens(blockChan', i)) + (IF Head(blockChan) = Token THEN 1 ELSE 0)
<1>1. blockChan \in Seq(Items)
  BY Types DEF FlowInv
<1>2. /\ blockChan' \in Seq(Items) /\ Len(blockChan) \in Nat /\ Len(blockChan) > 0
      /\ Len(blockChan') = Len(blockChan) - 1
      /\ \A i \in 1..Len(blockChan') : blockChan'[i] = blockChan[i + 1]
      /\ Head(blockChan) = blockChan[1] /\ Head(blockChan) \in Items
  BY <1>1, TailFacts
<1>3. \A i \in 1..Len(blockChan') : i + 1 \in 1..Len(blockChan)
  BY <1>2
<1>4. InChannel' = HeightsIn(blockChan')
  BY DEF InChannel, HeightsIn
<1>5. InChannel = InChannel' \cup (IF Head(blockChan) = Token THEN {} ELSE {Head(blockChan)})
  <2>1. HeightsIn(blockChan) = HeightsIn(blockChan') \cup (IF Head(blockChan) = Token THEN {} ELSE {Head(blockChan)})
    BY <1>1, HeightsTail
  <2> QED
    BY <1>4, <2>1 DEF InChannel
<1>6. Head(blockChan) \notin InChannel'
  <2> SUFFICES ASSUME NEW i \in 1..Len(blockChan'), blockChan'[i] # Token, blockChan'[i] = Head(blockChan)
               PROVE FALSE
    BY <1>4 DEF HeightsIn
  <2>1. blockChan[i + 1] = blockChan[1] /\ 1 \in 1..Len(blockChan) /\ i + 1 # 1 /\ blockChan[1] # Token
    BY <1>2, <1>3
  <2> QED
    BY <1>3, <2>1 DEF FlowInv, HandInv
<1>7. ASSUME NEW i \in 0..Len(blockChan')
      PROVE  /\ Cardinality(Tokens(blockChan', i)) \in Nat
             /\ Cardinality(Tokens(blockChan, i + 1))
                      = Cardinality(Tokens(blockChan', i)) + (IF Head(blockChan) = Token THEN 1 ELSE 0)
  <2>1. i \in Nat /\ i + 1 \in 1..Len(blockChan) /\ (i + 1) - 1 = i
    BY <1>2
  <2>2. Cardinality(Tokens(blockChan, i + 1))
          = Cardinality(Tokens(Tail(blockChan), (i + 1) - 1)) + (IF Head(blockChan) = Token THEN 1 ELSE 0)
    BY <1>1, <2>1, TokensTail
  <2> QED
    BY <2>1, <2>2, TokensFinite
<1> QED
  BY <1>2, <1>3, <1>5, <1>6, <1>7

LEMMA GetBlockStep ==
    ASSUME FlowInv, NEW h \in Handlers, Get(h), Head(blockChan) # Token
    PROVE  FlowInv'
<1> DEFINE x == Head(blockChan)
<1>1. /\ handler[h] = "get" /\ blockChan # <<>> /\ blockChan' = Tail(blockChan)
      /\ block' = [block EXCEPT ![h] = x]
      /\ handler' = [handler EXCEPT ![h] = "trx"]
      /\ exitCount' = exitCount /\ collector' = collector /\ fetched' = fetched
      /\ heightChan' = heightChan /\ mainPc' = mainPc /\ phase' = phase /\ base' = base
      /\ next' = next /\ count' = count /\ tokens' = tokens /\ isDone' = isDone
      /\ trxData' = trxData /\ ercData' = ercData /\ trxHeight' = trxHeight
      /\ boots' = boots /\ failed' = failed
  BY DEF Get
<1>2. mainPc # "off" /\ (phase = "low" => h = LowHandler) /\ phase \in {"fast", "low"}
  BY <1>1, Running
<1>3. /\ Waiting' = Waiting /\ AtCollectors' = AtCollectors
      /\ Ending' = Ending /\ GoneOnes' = GoneOnes
  BY <1>1, Frames
<1>4. /\ blockChan' \in Seq(Items) /\ Len(blockChan) \in Nat /\ Len(blockChan) > 0
      /\ Len(blockChan') = Len(blockChan) - 1
      /\ \A i \in 1..Len(blockChan') : i + 1 \in 1..Len(blockChan) /\ blockChan'[i] = blockChan[i + 1]
      /\ x = blockChan[1] /\ x \in Items /\ x # Token
      /\ InChannel = InChannel' \cup {x} /\ x \notin InChannel'
      /\ \A i \in 0..Len(blockChan') :
             /\ Cardinality(Tokens(blockChan', i)) \in Nat
             /\ Cardinality(Tokens(blockChan, i + 1)) = Cardinality(Tokens(blockChan', i))
  <2>1. \A i \in 0..Len(blockChan') :
             /\ Cardinality(Tokens(blockChan', i)) \in Nat
             /\ Cardinality(Tokens(blockChan, i + 1)) = Cardinality(Tokens(blockChan', i)) + 0
    BY <1>1, Received
  <2>2. \A i \in 0..Len(blockChan') :
             /\ Cardinality(Tokens(blockChan', i)) \in Nat
             /\ Cardinality(Tokens(blockChan, i + 1)) = Cardinality(Tokens(blockChan', i))
    BY <2>1
  <2> QED
    BY <1>1, <2>2, Received
<1>5. x \in InChannel /\ x \in InHand /\ x \in Heights
  BY <1>4 DEF InHand, Items
<1> HIDE DEF x
<1>10. /\ handler' \in [Handlers -> {"get", "trx", "erc", "mark", "wait", "bump", "pass", "exited"}]
       /\ handler'[h] = "trx" /\ block'[h] = x
       /\ \A g \in Handlers : g # h => handler'[g] = handler[g] /\ block'[g] = block[g]
       /\ \A g \in Handlers : handler'[g] \in {"wait", "bump", "pass", "exited"}
                                 <=> handler[g] \in {"wait", "bump", "pass", "exited"}
       /\ \A g \in Handlers : handler'[g] \in {"pass", "exited"} <=> handler[g] \in {"pass", "exited"}
       /\ \A g \in Handlers : handler'[g] \in {"bump", "pass", "exited"}
                                 <=> handler[g] \in {"bump", "pass", "exited"}
  BY <1>1 DEF FlowInv, TypeOK
<1>11. Leaving' = Leaving /\ Counted' = Counted
  BY <1>10 DEF Leaving, Counted
<1>12. AtHandlers' = AtHandlers \cup {x} /\ InHand' = InHand
  <2>1. AtHandlers' = AtHandlers \cup {x}
    BY <1>1, <1>10 DEF AtHandlers, Holding
  <2> QED
    BY <1>3, <1>4, <2>1 DEF InHand
<1>14. x \notin AtCollectors /\ x \notin AtHandlers
  BY <1>5 DEF FlowInv, HandInv
<1>15. TypeOK'
  <2>1. blockChan' \in Seq(Heights \cup {Token}) /\ Len(blockChan') <= ChanCap
    BY <1>4 DEF Items, FlowInv, TypeOK
  <2>2. block' \in [Handlers -> 0..Top]
    <3>1. x \in 0..Top
      BY <1>5, Types DEF Heights, FlowInv
    <3> QED
      BY <1>1, <3>1 DEF FlowInv, TypeOK
  <2> QED
    BY <1>1, <1>10, <2>1, <2>2 DEF FlowInv, TypeOK
<1>16. MainInv'
  BY <1>1, <1>2 DEF FlowInv, MainInv
<1>17. WaitInv'
  BY <1>1, <1>3 DEF FlowInv, WaitInv
<1>18. HandInv'
  <2>1. \A b \in InHand' : base' <= b /\ b < next' /\ AllRead(b)'
    BY <1>1, <1>3, <1>12 DEF FlowInv, HandInv, AllRead
  <2>2. \A g \in Handlers : g # h /\ handler[g] \in Holding => block[g] # x
    BY <1>14 DEF AtHandlers
  <2>3. \A g, k \in Handlers :
          handler'[g] \in Holding /\ handler'[k] \in Holding /\ block'[g] = block'[k] => g = k
    BY <1>10, <2>2 DEF FlowInv, HandInv
  <2>4. \A i, j \in 1..Len(blockChan') : blockChan'[i] # Token /\ blockChan'[i] = blockChan'[j] => i = j
    <3> SUFFICES ASSUME NEW i \in 1..Len(blockChan'), NEW j \in 1..Len(blockChan'),
                        blockChan'[i] # Token, blockChan'[i] = blockChan'[j]
                 PROVE i = j
      OBVIOUS
    <3>1. i + 1 = j + 1
      BY <1>4 DEF FlowInv, HandInv
    <3> QED
      BY <1>4, <3>1
  <2>5. /\ AtCollectors' \cap InChannel' = {} /\ AtCollectors' \cap AtHandlers' = {}
        /\ InChannel' \cap AtHandlers' = {}
    BY <1>3, <1>4, <1>12, <1>14 DEF FlowInv, HandInv
  <2> QED
    BY <1>1, <2>1, <2>3, <2>4, <2>5 DEF FlowInv, HandInv
<1>19. MarkInv'
  BY <1>1, <1>3 DEF FlowInv, MarkInv, AllRead
<1>20. StoreInv'
  <2>1. trxData[x] < boots /\ ercData[x] < boots
    BY <1>2, <1>5 DEF FlowInv, StoreInv
  <2>2. \A g \in Handlers :
          /\ handler'[g] = "trx" => trxData[block'[g]] < boots
          /\ handler'[g] \in {"trx", "erc"} => ercData[block'[g]] < boots
          /\ handler'[g] \in {"erc", "mark"} /\ ~failed => trxData[block'[g]] > 0
          /\ handler'[g] = "mark" /\ ~failed => ercData[block'[g]] > 0
    <3> SUFFICES ASSUME NEW g \in Handlers
                 PROVE  /\ handler'[g] = "trx" => trxData[block'[g]] < boots
                        /\ handler'[g] \in {"trx", "erc"} => ercData[block'[g]] < boots
                        /\ handler'[g] \in {"erc", "mark"} /\ ~failed => trxData[block'[g]] > 0
                        /\ handler'[g] = "mark" /\ ~failed => ercData[block'[g]] > 0
      OBVIOUS
    <3>1. CASE g = h
      BY <1>10, <2>1, <3>1
    <3>2. CASE g # h
      BY <1>10, <3>2 DEF FlowInv, StoreInv
    <3> QED
      BY <3>1, <3>2
  <2>3. ~failed => \A b \in Heights :
          base <= b /\ b < next =>
              \/ b \in Waiting' \cup AtCollectors' \cup InChannel'
              \/ \E g \in Handlers : handler'[g] \in {"trx", "erc"} /\ block'[g] = b
              \/ Stored(b)
    <3> SUFFICES ASSUME ~failed, NEW b \in Heights, base <= b, b < next
                 PROVE  \/ b \in Waiting' \cup AtCollectors' \cup InChannel'
                        \/ \E g \in Handlers : handler'[g] \in {"trx", "erc"} /\ block'[g] = b
                        \/ Stored(b)
      OBVIOUS
    <3>1. \/ b \in Waiting \cup AtCollectors \cup InChannel
          \/ \E g \in Handlers : handler[g] \in {"trx", "erc"} /\ block[g] = b
          \/ Stored(b)
      BY <1>2 DEF FlowInv, StoreInv
    <3>2. CASE b = x
      BY <1>10, <3>2
    <3>3. CASE b # x /\ b \in Waiting \cup AtCollectors \cup InChannel
      BY <1>3, <1>4, <3>3
    <3>4. ASSUME NEW g \in Handlers, handler[g] \in {"trx", "erc"}, block[g] = b
          PROVE handler'[g] \in {"trx", "erc"} /\ block'[g] = b
      BY <1>1, <1>10, <3>4
    <3> QED
      BY <3>1, <3>2, <3>3, <3>4
  <2>4. \A b \in Heights : Stored(b)' <=> Stored(b)
    BY <1>1 DEF Stored
  <2>5. OncePerProcess'
    BY <1>1 DEF FlowInv, StoreInv, OncePerProcess
  <2>6. mainPc' # "off" => \A b \in Heights :
          b >= next' \/ b \in Waiting' \cup AtCollectors' \cup InChannel' =>
              trxData'[b] < boots' /\ ercData'[b] < boots'
    BY <1>1, <1>3, <1>4 DEF FlowInv, StoreInv
  <2> QED
    BY <1>1, <2>2, <2>3, <2>4, <2>5, <2>6 DEF StoreInv
<1>21. phase = "fast" => FastFeed' /\ FastExit'
  <2> SUFFICES ASSUME phase = "fast" PROVE FastFeed' /\ FastExit'
    OBVIOUS
  <2>1. FastFeed /\ FastExit
    BY <1>2 DEF FlowInv
  <2>2. FastFeed'
    BY <1>1, <1>3, <2>1 DEF FastFeed, Tokens
  <2>3. Cardinality(Tokens(blockChan', Len(blockChan'))) = Cardinality(Tokens(blockChan, Len(blockChan)))
    <3>1. Len(blockChan') \in 0..Len(blockChan') /\ Len(blockChan') + 1 = Len(blockChan)
      BY <1>4
    <3> QED
      BY <1>4, <3>1
  <2>4. \A i \in 1..Len(blockChan') : blockChan'[i] # Token =>
          Cardinality(Tokens(blockChan', i)) + Cardinality(Leaving) < collect_threads
    <3> SUFFICES ASSUME NEW i \in 1..Len(blockChan'), blockChan'[i] # Token
                 PROVE Cardinality(Tokens(blockChan', i)) + Cardinality(Leaving) < collect_threads
      OBVIOUS
    <3>1. i \in 0..Len(blockChan') /\ i + 1 \in 1..Len(blockChan) /\ blockChan[i + 1] # Token
      BY <1>4
    <3>2. Cardinality(Tokens(blockChan, i + 1)) + Cardinality(Leaving) < collect_threads
      BY <2>1, <3>1 DEF FastExit
    <3> QED
      BY <1>4, <3>1, <3>2
  <2>5. FastExit'
    BY <1>1, <1>3, <1>10, <1>11, <2>1, <2>3, <2>4 DEF FastExit, Tokens
  <2> QED
    BY <2>2, <2>5
<1>22. phase = "low" => LowFeed' /\ LowRun'
  <2> SUFFICES ASSUME phase = "low" PROVE LowFeed' /\ LowRun'
    OBVIOUS
  <2>1. LowFeed /\ LowRun /\ h = LowHandler
    BY <1>2 DEF FlowInv
  <2>2. LowFeed'
    BY <1>1, <1>3, <2>1 DEF LowFeed
  <2>3. AtHandlers = {} /\ AtHandlers' = {x}
    BY <1>1, <1>12, <2>1 DEF AtHandlers, LowRun, Holding
  <2>4. \A i, j \in 1..Len(blockChan') : i < j /\ blockChan'[j] # Token =>
          blockChan'[i] # Token /\ blockChan'[i] < blockChan'[j]
    <3> SUFFICES ASSUME NEW i \in 1..Len(blockChan'), NEW j \in 1..Len(blockChan'), i < j, blockChan'[j] # Token
                 PROVE blockChan'[i] # Token /\ blockChan'[i] < blockChan'[j]
      OBVIOUS
    <3>1. i + 1 < j + 1
      BY <1>4
    <3> QED
      BY <1>4, <2>1, <3>1 DEF LowRun
  <2>5. \A y \in InChannel' : x < y
    <3> SUFFICES ASSUME NEW i \in 1..Len(blockChan'), blockChan'[i] # Token PROVE x < blockChan'[i]
      BY DEF InChannel, HeightsIn
    <3>1. 1 \in 1..Len(blockChan) /\ 1 < i + 1
      BY <1>4
    <3> QED
      BY <1>4, <2>1, <3>1 DEF LowRun
  <2>6. \A b \in AtCollectors', y \in InChannel' \cup AtHandlers' : y < b
    BY <1>3, <1>4, <1>5, <1>12, <2>1 DEF LowRun
  <2>7. LowHandler \notin Leaving
    BY <1>1, <2>1 DEF Leaving
  <2>8. \A i \in 1..Len(blockChan') : collector[LowCollector] # "exited" => blockChan'[i] # Token
    BY <1>4, <2>1 DEF LowRun
  <2> QED
    BY <1>1, <1>3, <1>10, <1>11, <2>1, <2>2, <2>3, <2>4, <2>5, <2>6, <2>7, <2>8 DEF LowRun
<1>23. CheckpointCovered'
  BY <1>1 DEF FlowInv, CheckpointCovered, Stored
<1> QED
  BY <1>1, <1>2, <1>15, <1>16, <1>17, <1>18, <1>19, <1>20, <1>21, <1>22, <1>23 DEF FlowInv

\* A handler's exit block was in the channel before, and counts as well when taken.
LEMMA GetTokenStep ==
    ASSUME FlowInv, NEW h \in Handlers, Get(h), Head(blockChan) = Token
    PROVE  FlowInv'
<1>1. /\ handler[h] = "get" /\ blockChan # <<>> /\ blockChan' = Tail(blockChan)
      /\ block' = block
      /\ handler' = [handler EXCEPT ![h] = "wait"]
      /\ exitCount' = exitCount /\ collector' = collector /\ fetched' = fetched
      /\ heightChan' = heightChan /\ mainPc' = mainPc /\ phase' = phase /\ base' = base
      /\ next' = next /\ count' = count /\ tokens' = tokens /\ isDone' = isDone
      /\ trxData' = trxData /\ ercData' = ercData /\ trxHeight' = trxHeight
      /\ boots' = boots /\ failed' = failed
  BY DEF Get
<1>2. mainPc # "off" /\ (phase = "low" => h = LowHandler) /\ phase \in {"fast", "low"}
  BY <1>1, Running
<1>3. /\ Waiting' = Waiting /\ AtCollectors' = AtCollectors
      /\ Ending' = Ending /\ GoneOnes' = GoneOnes
  BY <1>1, Frames
<1>4. /\ blockChan' \in Seq(Items) /\ Len(blockChan) \in Nat /\ Len(blockChan) > 0
      /\ Len(blockChan') = Len(blockChan) - 1
      /\ \A i \in 1..Len(blockChan') : i + 1 \in 1..Len(blockChan) /\ blockChan'[i] = blockChan[i + 1]
      /\ blockChan[1] = Token
      /\ \A i \in 0..Len(blockChan') :
             /\ Cardinality(Tokens(blockChan', i)) \in Nat
             /\ Cardinality(Tokens(blockChan, i + 1)) = Cardinality(Tokens(blockChan', i)) + 1
  BY <1>1, Received
<1>5. InChannel' = InChannel
  <2>1. InChannel = InChannel' \cup {}
    BY <1>1, Received
  <2> QED
    BY <2>1
<1>10. /\ handler' \in [Handlers -> {"get", "trx", "erc", "mark", "wait", "bump", "pass", "exited"}]
       /\ handler'[h] = "wait"
       /\ \A g \in Handlers : g # h => handler'[g] = handler[g]
       /\ \A g \in Handlers : handler'[g] \in {"pass", "exited"} <=> handler[g] \in {"pass", "exited"}
       /\ \A g \in Handlers : handler'[g] \in {"bump", "pass", "exited"}
                                 <=> handler[g] \in {"bump", "pass", "exited"}
       /\ \A g \in Handlers : handler'[g] \in Holding <=> handler[g] \in Holding
       /\ \A g \in Handlers : handler'[g] \in Holding => handler'[g] = handler[g]
  BY <1>1 DEF FlowInv, TypeOK, Holding
<1>11. Leaving' = Leaving \cup {h} /\ h \notin Leaving /\ Counted' = Counted
  BY <1>1, <1>10 DEF Leaving, Counted
<1>12. AtHandlers' = AtHandlers /\ InHand' = InHand
  <2>1. AtHandlers' = AtHandlers
    BY <1>1, <1>10 DEF AtHandlers
  <2> QED
    BY <1>3, <1>5, <2>1 DEF InHand
<1>15. TypeOK'
  <2>1. blockChan' \in Seq(Heights \cup {Token}) /\ Len(blockChan') <= ChanCap
    BY <1>4 DEF Items, FlowInv, TypeOK
  <2> QED
    BY <1>1, <1>10, <2>1 DEF FlowInv, TypeOK
<1>16. MainInv'
  BY <1>1, <1>2 DEF FlowInv, MainInv
<1>17. WaitInv'
  BY <1>1, <1>3 DEF FlowInv, WaitInv
<1>18. HandInv'
  <2>1. \A b \in InHand' : base' <= b /\ b < next' /\ AllRead(b)'
    BY <1>1, <1>3, <1>12 DEF FlowInv, HandInv, AllRead
  <2>4. \A i, j \in 1..Len(blockChan') : blockChan'[i] # Token /\ blockChan'[i] = blockChan'[j] => i = j
    <3> SUFFICES ASSUME NEW i \in 1..Len(blockChan'), NEW j \in 1..Len(blockChan'),
                        blockChan'[i] # Token, blockChan'[i] = blockChan'[j]
                 PROVE i = j
      OBVIOUS
    <3>1. i + 1 = j + 1
      BY <1>4 DEF FlowInv, HandInv
    <3> QED
      BY <1>4, <3>1
  <2> QED
    BY <1>1, <1>3, <1>5, <1>10, <1>12, <2>1, <2>4 DEF FlowInv, HandInv
<1>19. MarkInv'
  BY <1>1, <1>3 DEF FlowInv, MarkInv, AllRead
<1>20. StoreInv'
  <2>1. \A g \in Handlers : handler'[g] \in {"trx", "erc", "mark"} => handler'[g] = handler[g]
    BY <1>10 DEF Holding
  <2>2. \A g \in Handlers : handler[g] \in {"trx", "erc"} => handler'[g] = handler[g]
    BY <1>1, <1>10
  <2> QED
    BY <1>1, <1>3, <1>5, <2>1, <2>2 DEF FlowInv, StoreInv, OncePerProcess, Stored
<1>21. phase = "fast" => FastFeed' /\ FastExit'
  <2> SUFFICES ASSUME phase = "fast" PROVE FastFeed' /\ FastExit'
    OBVIOUS
  <2>1. FastFeed /\ FastExit
    BY <1>2 DEF FlowInv
  <2>2. FastFeed'
    BY <1>1, <1>3, <2>1 DEF FastFeed, Tokens
  <2>3. Cardinality(Leaving') = Cardinality(Leaving) + 1 /\ Cardinality(Leaving) \in Nat
    <3>1. IsFiniteSet(Leaving) /\ Cardinality(Leaving) \in Nat
      BY Parts DEF Leaving
    <3> QED
      BY <1>11, <3>1, AddOne
  <2>4. /\ Cardinality(Tokens(blockChan, Len(blockChan))) = Cardinality(Tokens(blockChan', Len(blockChan'))) + 1
        /\ Cardinality(Tokens(blockChan', Len(blockChan'))) \in Nat
    <3>1. Len(blockChan') \in 0..Len(blockChan') /\ Len(blockChan') + 1 = Len(blockChan)
      BY <1>4
    <3> QED
      BY <1>4, <3>1
  <2>5. exitCount < collect_threads =>
          Cardinality(Tokens(blockChan', Len(blockChan'))) + Cardinality(Leaving') <= Cardinality(GoneOnes)
    <3>1. Cardinality(GoneOnes) \in Nat
      BY Parts DEF GoneOnes
    <3> QED
      BY <2>1, <2>3, <2>4, <3>1 DEF FastExit
  <2>6. \A i \in 1..Len(blockChan') : blockChan'[i] # Token =>
          Cardinality(Tokens(blockChan', i)) + Cardinality(Leaving') < collect_threads
    <3> SUFFICES ASSUME NEW i \in 1..Len(blockChan'), blockChan'[i] # Token
                 PROVE Cardinality(Tokens(blockChan', i)) + Cardinality(Leaving') < collect_threads
      OBVIOUS
    <3>1. i \in 0..Len(blockChan') /\ i + 1 \in 1..Len(blockChan) /\ blockChan[i + 1] # Token
      BY <1>4
    <3>2. Cardinality(Tokens(blockChan, i + 1)) + Cardinality(Leaving) < collect_threads
      BY <2>1, <3>1 DEF FastExit
    <3> QED
      BY <1>4, <2>3, <3>1, <3>2, Threads
  <2>7. FastExit'
    BY <1>1, <1>3, <1>10, <1>11, <2>1, <2>5, <2>6 DEF FastExit, Tokens
  <2> QED
    BY <2>2, <2>7
<1>22. phase = "low" => LowFeed' /\ LowRun'
  <2> SUFFICES ASSUME phase = "low" PROVE LowFeed' /\ LowRun'
    OBVIOUS
  <2>1. LowFeed /\ LowRun /\ h = LowHandler
    BY <1>2 DEF FlowInv
  <2>2. LowFeed'
    BY <1>1, <1>3, <2>1 DEF LowFeed
  <2>3. collector[LowCollector] = "exited"
    BY <1>4, <2>1 DEF LowRun
  <2>4. \A i \in 1..Len(blockChan') : blockChan'[i] = Token
    <3> SUFFICES ASSUME NEW i \in 1..Len(blockChan') PROVE blockChan'[i] = Token
      OBVIOUS
    <3>1. 1 \in 1..Len(blockChan) /\ 1 < i + 1
      BY <1>4
    <3> QED
      BY <1>4, <2>1, <3>1 DEF LowRun
  <2>5. InChannel' = {}
    BY <2>4 DEF InChannel, HeightsIn
  <2> QED
    BY <1>1, <1>3, <1>10, <1>12, <2>1, <2>2, <2>3, <2>4, <2>5 DEF LowRun
<1>23. CheckpointCovered'
  BY <1>1 DEF FlowInv, CheckpointCovered, Stored
<1> QED
  BY <1>1, <1>2, <1>15, <1>16, <1>17, <1>18, <1>19, <1>20, <1>21, <1>22, <1>23 DEF FlowInv

\* What a handler holds: it has been read, is nowhere else, and nobody else holds it.
LEMMA Held ==
    ASSUME FlowInv, NEW h \in Handlers, handler[h] \in Holding
    PROVE  /\ block[h] \in Heights /\ block[h] \in AtHandlers /\ block[h] \in InHand
           /\ base <= block[h] /\ block[h] < next /\ AllRead(block[h])
           /\ block[h] \notin Waiting \cup AtCollectors \cup InChannel
           /\ \A g \in Handlers : g # h /\ handler[g] \in Holding => block[g] # block[h]
           /\ mainPc # "off"
<1>1. block[h] \in AtHandlers /\ block[h] \in InHand
  BY DEF AtHandlers, InHand
<1>2. base <= block[h] /\ block[h] < next /\ AllRead(block[h])
  BY <1>1 DEF FlowInv, HandInv
<1>3. block[h] \in Heights
  <2>1. block[h] \in 0..Top /\ next \in Nat /\ next <= Top /\ Top \in Nat
    BY Types DEF FlowInv, TypeOK
  <2> QED
    BY <1>2, <2>1 DEF Heights
<1>4. block[h] \notin Waiting
  BY <1>2, <1>3, Types DEF AllRead, FlowInv
<1>5. block[h] \notin AtCollectors \cup InChannel
  BY <1>1 DEF FlowInv, HandInv
<1>6. \A g \in Handlers : g # h /\ handler[g] \in Holding => block[g] # block[h]
  BY DEF FlowInv, HandInv
<1>7. mainPc # "off"
  BY Running DEF Holding
<1> QED
  BY <1>1, <1>2, <1>3, <1>4, <1>5, <1>6, <1>7

\* A handler's steps between "get" and "get" concern the tables and its own block only:
\* the order of blocks, the counts of tokens and what main has fed stay.
LEMMA HoldingTurns ==
    ASSUME FlowInv, NEW h \in Handlers, handler[h] \in Holding,
           UNCHANGED <<channels, mainVars, isDone, exitCount, collectorVars, boots>>,
           \A g \in Handlers : g # h => handler'[g] = handler[g] /\ block'[g] = block[g],
           handler'[h] \in {"get", "erc", "mark"},
           handler'[h] # "get" => block'[h] = block[h],
           TypeOK', MarkInv', StoreInv', CheckpointCovered'
    PROVE  FlowInv'
<1>1. /\ heightChan' = heightChan /\ blockChan' = blockChan /\ mainPc' = mainPc /\ phase' = phase
      /\ base' = base /\ next' = next /\ count' = count /\ tokens' = tokens /\ isDone' = isDone
      /\ exitCount' = exitCount /\ collector' = collector /\ fetched' = fetched /\ boots' = boots
  OBVIOUS
<1>2. /\ mainPc # "off" /\ (phase = "low" => h = LowHandler) /\ phase \in {"fast", "low"}
  BY Running DEF Holding
<1>3. /\ Waiting' = Waiting /\ InChannel' = InChannel /\ AtCollectors' = AtCollectors
      /\ Ending' = Ending /\ GoneOnes' = GoneOnes
  BY <1>1, Frames
<1>4. /\ \A g \in Handlers : handler'[g] \in {"wait", "bump", "pass", "exited"}
                                 <=> handler[g] \in {"wait", "bump", "pass", "exited"}
      /\ \A g \in Handlers : handler'[g] \in {"pass", "exited"} <=> handler[g] \in {"pass", "exited"}
      /\ \A g \in Handlers : handler'[g] \in {"bump", "pass", "exited"}
                                 <=> handler[g] \in {"bump", "pass", "exited"}
      /\ \A g \in Handlers : handler'[g] = "exited" <=> handler[g] = "exited"
      /\ \A g \in Handlers : handler'[g] = "bump" <=> handler[g] = "bump"
      /\ \A g \in Handlers : handler'[g] \in Holding => handler[g] \in Holding /\ block'[g] = block[g]
  BY DEF Holding
<1>5. Leaving' = Leaving /\ Counted' = Counted
  BY <1>4 DEF Leaving, Counted
<1>6. AtHandlers' \subseteq AtHandlers /\ InHand' \subseteq InHand
  <2>1. AtHandlers' \subseteq AtHandlers
    BY <1>4 DEF AtHandlers
  <2> QED
    BY <1>3, <2>1 DEF InHand
<1>7. MainInv'
  BY <1>1, <1>2 DEF FlowInv, MainInv
<1>8. WaitInv'
  BY <1>1, <1>3 DEF FlowInv, WaitInv
<1>9. HandInv'
  <2>1. \A b \in InHand' : base' <= b /\ b < next' /\ AllRead(b)'
    BY <1>1, <1>3, <1>6 DEF FlowInv, HandInv, AllRead
  <2>2. \A g, k \in Handlers :
          handler'[g] \in Holding /\ handler'[k] \in Holding /\ block'[g] = block'[k] => g = k
    BY <1>4 DEF FlowInv, HandInv
  <2>3. /\ AtCollectors' \cap InChannel' = {} /\ AtCollectors' \cap AtHandlers' = {}
        /\ InChannel' \cap AtHandlers' = {}
    BY <1>3, <1>6 DEF FlowInv, HandInv
  <2> QED
    BY <1>1, <2>1, <2>2, <2>3 DEF FlowInv, HandInv
<1>10. phase = "fast" => FastFeed' /\ FastExit'
  <2> SUFFICES ASSUME phase = "fast" PROVE FastFeed' /\ FastExit'
    OBVIOUS
  <2>1. FastFeed /\ FastExit
    BY <1>2 DEF FlowInv
  <2>2. FastFeed'
    BY <1>1, <1>3, <2>1 DEF FastFeed, Tokens
  <2>3. FastExit'
    BY <1>1, <1>3, <1>4, <1>5, <2>1 DEF FastExit, Tokens
  <2> QED
    BY <2>2, <2>3
<1>11. phase = "low" => LowFeed' /\ LowRun'
  <2> SUFFICES ASSUME phase = "low" PROVE LowFeed' /\ LowRun'
    OBVIOUS
  <2>1. LowFeed /\ LowRun
    BY <1>2 DEF FlowInv
  <2>2. LowFeed'
    BY <1>1, <1>3, <2>1 DEF LowFeed
  <2>3. /\ \A b \in AtCollectors', x \in InChannel' \cup AtHandlers' : x < b
        /\ \A b \in AtHandlers', x \in InChannel' : b < x
    BY <1>3, <1>6, <2>1 DEF LowRun
  <2>4. LowRun'
    BY <1>1, <1>3, <1>4, <1>5, <2>1, <2>3, Threads DEF LowRun
  <2> QED
    BY <2>2, <2>4
<1> QED
  BY <1>1, <1>2, <1>7, <1>8, <1>9, <1>10, <1>11 DEF FlowInv

LEMMA InsertTrxStep ==
    ASSUME FlowInv, NEW h \in Handlers, InsertTrx(h)
    PROVE  FlowInv'
<1> DEFINE x == block[h]
<1>1. /\ handler[h] = "trx"
      /\ handler' = [handler EXCEPT ![h] = "erc"]
      /\ UNCHANGED <<channels, mainVars, isDone, exitCount, collectorVars, boots>>
      /\ heightChan' = heightChan /\ blockChan' = blockChan /\ mainPc' = mainPc /\ phase' = phase
      /\ base' = base /\ next' = next /\ collector' = collector /\ fetched' = fetched
      /\ block' = block /\ ercData' = ercData /\ trxHeight' = trxHeight /\ boots' = boots
  BY DEF InsertTrx
<1>2. \/ trxData' = [trxData EXCEPT ![x] = @ + 1] /\ failed' = failed
      \/ failed' = TRUE /\ trxData' = trxData
  BY DEF InsertTrx
<1>3. /\ x \in Heights /\ base <= x /\ x < next /\ mainPc # "off"
      /\ x \notin Waiting \cup AtCollectors \cup InChannel
      /\ \A g \in Handlers : g # h /\ handler[g] \in Holding => block[g] # x
      /\ handler[h] \in Holding
  BY <1>1, Held DEF Holding
<1> HIDE DEF x
<1>4. /\ Waiting' = Waiting /\ AtCollectors' = AtCollectors /\ InChannel' = InChannel
  BY <1>1, Frames
<1>5. /\ handler' \in [Handlers -> {"get", "trx", "erc", "mark", "wait", "bump", "pass", "exited"}]
      /\ handler'[h] = "erc" /\ \A g \in Handlers : g # h => handler'[g] = handler[g]
  BY <1>1 DEF FlowInv, TypeOK
<1>6. /\ trxData \in [Heights -> Nat] /\ failed \in BOOLEAN
  BY DEF FlowInv, TypeOK
<1>7. /\ trxData' \in [Heights -> Nat] /\ failed' \in BOOLEAN
      /\ \A b \in Heights : b # x => trxData'[b] = trxData[b]
      /\ trxData'[x] = trxData[x] \/ trxData'[x] = trxData[x] + 1
      /\ ~failed' => ~failed /\ trxData'[x] = trxData[x] + 1
  <2>1. failed' \in BOOLEAN /\ (~failed' => ~failed /\ trxData' = [trxData EXCEPT ![x] = @ + 1])
    BY <1>2, <1>6
  <2>2. trxData' = [trxData EXCEPT ![x] = @ + 1] \/ trxData' = trxData
    BY <1>2
  <2>3. trxData' = [trxData EXCEPT ![x] = @ + 1] => trxData'[x] = trxData[x] + 1
    BY <1>3, <1>6
  <2>4. /\ trxData' \in [Heights -> Nat]
        /\ \A b \in Heights : b # x => trxData'[b] = trxData[b]
        /\ trxData'[x] = trxData[x] \/ trxData'[x] = trxData[x] + 1
    BY <1>3, <1>6, <2>2
  <2> QED
    BY <2>1, <2>3, <2>4
<1>8. trxData[x] < boots /\ ercData[x] < boots
  BY <1>1 DEF FlowInv, StoreInv, x
<1>9. boots \in Nat /\ trxData[x] \in Nat /\ Heights \subseteq Nat
  BY <1>3, Types DEF FlowInv
<1>10. \A b \in Heights : Stored(b) => Stored(b)'
  BY <1>1, <1>6, <1>7 DEF Stored
<1>11. TypeOK'
  BY <1>1, <1>5, <1>7 DEF FlowInv, TypeOK
<1>12. MarkInv'
  BY <1>1, <1>4 DEF FlowInv, MarkInv, AllRead
<1>13. StoreInv'
  <2>1. OncePerProcess'
    <3>1. \A b \in Heights : trxData[b] <= boots /\ ercData[b] <= boots
      BY DEF FlowInv, StoreInv, OncePerProcess
    <3>2. trxData'[x] <= boots
      BY <1>7, <1>8, <1>9
    <3>3. \A b \in Heights : trxData'[b] <= boots /\ ercData[b] <= boots
      BY <1>7, <3>1, <3>2
    <3> QED
      BY <1>1, <3>3 DEF OncePerProcess
  <2>2. \A b \in Heights :
          b >= next' \/ b \in Waiting' \cup AtCollectors' \cup InChannel' =>
              trxData'[b] < boots' /\ ercData'[b] < boots'
    <3> SUFFICES ASSUME NEW b \in Heights, b >= next \/ b \in Waiting \cup AtCollectors \cup InChannel
                 PROVE trxData'[b] < boots /\ ercData[b] < boots
      BY <1>1, <1>4
    <3>1. b # x
      BY <1>3, <1>9, Types DEF FlowInv
    <3> QED
      BY <1>3, <1>7, <3>1 DEF FlowInv, StoreInv
  <2>3. \A g \in Handlers :
          /\ handler'[g] = "trx" => trxData'[block[g]] < boots
          /\ handler'[g] \in {"trx", "erc"} => ercData[block[g]] < boots
          /\ handler'[g] \in {"erc", "mark"} /\ ~failed' => trxData'[block[g]] > 0
          /\ handler'[g] = "mark" /\ ~failed' => ercData[block[g]] > 0
    <3> SUFFICES ASSUME NEW g \in Handlers
                 PROVE  /\ handler'[g] = "trx" => trxData'[block[g]] < boots
                        /\ handler'[g] \in {"trx", "erc"} => ercData[block[g]] < boots
                        /\ handler'[g] \in {"erc", "mark"} /\ ~failed' => trxData'[block[g]] > 0
                        /\ handler'[g] = "mark" /\ ~failed' => ercData[block[g]] > 0
      OBVIOUS
    <3>1. CASE g = h
      BY <1>5, <1>7, <1>8, <1>9, <3>1 DEF x
    <3>2. CASE g # h /\ handler[g] \in Holding
      <4>1. block[g] # x /\ block[g] \in Heights
        BY <1>3, <3>2, Held
      <4> QED
        BY <1>5, <1>7, <3>2, <4>1 DEF FlowInv, StoreInv
    <3>3. CASE g # h /\ handler[g] \notin Holding
      BY <1>5, <3>3 DEF Holding
    <3> QED
      BY <3>1, <3>2, <3>3
  <2>4. ~failed' => \A b \in Heights :
          base <= b /\ b < next =>
              \/ b \in Waiting \cup AtCollectors \cup InChannel
              \/ \E g \in Handlers : handler'[g] \in {"trx", "erc"} /\ block[g] = b
              \/ Stored(b)'
    <3> SUFFICES ASSUME ~failed', NEW b \in Heights, base <= b, b < next
                 PROVE  \/ b \in Waiting \cup AtCollectors \cup InChannel
                        \/ \E g \in Handlers : handler'[g] \in {"trx", "erc"} /\ block[g] = b
                        \/ Stored(b)'
      OBVIOUS
    <3>1. \/ b \in Waiting \cup AtCollectors \cup InChannel
          \/ \E g \in Handlers : handler[g] \in {"trx", "erc"} /\ block[g] = b
          \/ Stored(b)
      BY <1>3, <1>7 DEF FlowInv, StoreInv
    <3>2. \A g \in Handlers : handler[g] \in {"trx", "erc"} => handler'[g] \in {"trx", "erc"}
      BY <1>5
    <3> QED
      BY <1>10, <3>1, <3>2
  <2> QED
    BY <1>1, <1>4, <2>1, <2>2, <2>3, <2>4 DEF StoreInv
<1>14. CheckpointCovered'
  BY <1>1, <1>7, <1>10 DEF FlowInv, CheckpointCovered
<1> QED
  BY <1>1, <1>3, <1>5, <1>11, <1>12, <1>13, <1>14, HoldingTurns

LEMMA InsertErcStep ==
    ASSUME FlowInv, NEW h \in Handlers, InsertErc(h)
    PROVE  FlowInv'
<1> DEFINE x == block[h]
<1>1. /\ handler[h] = "erc"
      /\ UNCHANGED <<channels, mainVars, isDone, exitCount, collectorVars, boots>>
      /\ heightChan' = heightChan /\ blockChan' = blockChan /\ mainPc' = mainPc /\ phase' = phase
      /\ base' = base /\ next' = next /\ collector' = collector /\ fetched' = fetched
      /\ trxData' = trxData /\ trxHeight' = trxHeight /\ boots' = boots
  BY DEF InsertErc
<1>2. \/ ercData' = [ercData EXCEPT ![x] = @ + 1] /\ failed' = failed
      \/ failed' = TRUE /\ ercData' = ercData
  BY DEF InsertErc
<1>3. /\ x \in Heights /\ base <= x /\ x < next /\ mainPc # "off"
      /\ x \notin Waiting \cup AtCollectors \cup InChannel
      /\ \A g \in Handlers : g # h /\ handler[g] \in Holding => block[g] # x
      /\ handler[h] \in Holding
  BY <1>1, Held DEF Holding
<1>4. /\ Waiting' = Waiting /\ AtCollectors' = AtCollectors /\ InChannel' = InChannel
  BY <1>1, Frames
<1>5. /\ handler' \in [Handlers -> {"get", "trx", "erc", "mark", "wait", "bump", "pass", "exited"}]
      /\ block' \in [Handlers -> 0..Top]
      /\ \A g \in Handlers : g # h => handler'[g] = handler[g] /\ block'[g] = block[g]
      /\ handler'[h] \in {"get", "mark"} /\ (handler'[h] = "mark" => block'[h] = x)
  <2>1. 0 \in 0..Top
    BY Types DEF FlowInv
  <2>2. \/ handler' = [handler EXCEPT ![h] = "mark"] /\ block' = block
        \/ handler' = [handler EXCEPT ![h] = "get"] /\ block' = [block EXCEPT ![h] = 0]
    BY DEF InsertErc
  <2> QED
    BY <2>1, <2>2 DEF FlowInv, TypeOK
<1> HIDE DEF x
<1>6. /\ ercData \in [Heights -> Nat] /\ failed \in BOOLEAN
  BY DEF FlowInv, TypeOK
<1>7. /\ ercData' \in [Heights -> Nat] /\ failed' \in BOOLEAN
      /\ \A b \in Heights : b # x => ercData'[b] = ercData[b]
      /\ ercData'[x] = ercData[x] \/ ercData'[x] = ercData[x] + 1
      /\ ~failed' => ~failed /\ ercData'[x] = ercData[x] + 1
  <2>1. failed' \in BOOLEAN /\ (~failed' => ~failed /\ ercData' = [ercData EXCEPT ![x] = @ + 1])
    BY <1>2, <1>6
  <2>2. ercData' = [ercData EXCEPT ![x] = @ + 1] \/ ercData' = ercData
    BY <1>2
  <2>3. ercData' = [ercData EXCEPT ![x] = @ + 1] => ercData'[x] = ercData[x] + 1
    BY <1>3, <1>6
  <2>4. /\ ercData' \in [Heights -> Nat]
        /\ \A b \in Heights : b # x => ercData'[b] = ercData[b]
        /\ ercData'[x] = ercData[x] \/ ercData'[x] = ercData[x] + 1
    BY <1>3, <1>6, <2>2
  <2> QED
    BY <2>1, <2>3, <2>4
<1>8. ercData[x] < boots /\ (~failed => trxData[x] > 0)
  BY <1>1 DEF FlowInv, StoreInv, x
<1>9. boots \in Nat /\ ercData[x] \in Nat /\ Heights \subseteq Nat
  BY <1>3, Types DEF FlowInv
<1>10. /\ \A b \in Heights : Stored(b) => Stored(b)'
       /\ ~failed' => trxData'[x] > 0 /\ ercData'[x] > 0
  <2>1. \A b \in Heights : ercData'[b] = ercData[b] \/ ercData'[b] = ercData[b] + 1
    BY <1>7
  <2>2. \A b \in Heights : ercData[b] > 0 => ercData'[b] > 0
    BY <1>6, <2>1
  <2>3. \A b \in Heights : Stored(b) => Stored(b)'
    BY <1>1, <2>2 DEF Stored
  <2>4. ercData[x] + 1 > 0
    BY <1>9
  <2>5. ASSUME ~failed' PROVE trxData'[x] > 0 /\ ercData'[x] > 0
    <3>1. trxData[x] > 0 /\ ercData'[x] = ercData[x] + 1
      BY <1>7, <1>8, <2>5
    <3> QED
      BY <1>1, <2>4, <3>1
  <2> QED
    BY <2>3, <2>5
<1>11. TypeOK'
  BY <1>1, <1>5, <1>7 DEF FlowInv, TypeOK
<1>12. MarkInv'
  BY <1>1, <1>4 DEF FlowInv, MarkInv, AllRead
<1>13. StoreInv'
  <2>1. OncePerProcess'
    <3>1. \A b \in Heights : trxData[b] <= boots /\ ercData[b] <= boots
      BY DEF FlowInv, StoreInv, OncePerProcess
    <3>2. ercData'[x] <= boots
      BY <1>7, <1>8, <1>9
    <3>3. \A b \in Heights : trxData[b] <= boots /\ ercData'[b] <= boots
      BY <1>7, <3>1, <3>2
    <3> QED
      BY <1>1, <3>3 DEF OncePerProcess
  <2>2. \A b \in Heights :
          b >= next' \/ b \in Waiting' \cup AtCollectors' \cup InChannel' =>
              trxData'[b] < boots' /\ ercData'[b] < boots'
    <3> SUFFICES ASSUME NEW b \in Heights, b >= next \/ b \in Waiting \cup AtCollectors \cup InChannel
                 PROVE trxData[b] < boots /\ ercData'[b] < boots
      BY <1>1, <1>4
    <3>1. b # x
      BY <1>3, <1>9, Types DEF FlowInv
    <3> QED
      BY <1>3, <1>7, <3>1 DEF FlowInv, StoreInv
  <2>3. \A g \in Handlers :
          /\ handler'[g] = "trx" => trxData[block'[g]] < boots
          /\ handler'[g] \in {"trx", "erc"} => ercData'[block'[g]] < boots
          /\ handler'[g] \in {"erc", "mark"} /\ ~failed' => trxData[block'[g]] > 0
          /\ handler'[g] = "mark" /\ ~failed' => ercData'[block'[g]] > 0
    <3> SUFFICES ASSUME NEW g \in Handlers
                 PROVE  /\ handler'[g] = "trx" => trxData[block'[g]] < boots
                        /\ handler'[g] \in {"trx", "erc"} => ercData'[block'[g]] < boots
                        /\ handler'[g] \in {"erc", "mark"} /\ ~failed' => trxData[block'[g]] > 0
                        /\ handler'[g] = "mark" /\ ~failed' => ercData'[block'[g]] > 0
      OBVIOUS
    <3>1. CASE g = h
      BY <1>5, <1>7, <1>8, <1>9, <3>1
    <3>2. CASE g # h /\ handler[g] \in Holding
      <4>1. block[g] # x /\ block[g] \in Heights
        BY <1>3, <3>2, Held
      <4> QED
        BY <1>5, <1>7, <3>2, <4>1 DEF FlowInv, StoreInv
    <3>3. CASE g # h /\ handler[g] \notin Holding
      BY <1>5, <3>3 DEF Holding
    <3> QED
      BY <3>1, <3>2, <3>3
  <2>4. ~failed' => \A b \in Heights :
          base <= b /\ b < next =>
              \/ b \in Waiting \cup AtCollectors \cup InChannel
              \/ \E g \in Handlers : handler'[g] \in {"trx", "erc"} /\ block'[g] = b
              \/ Stored(b)'
    <3> SUFFICES ASSUME ~failed', NEW b \in Heights, base <= b, b < next
                 PROVE  \/ b \in Waiting \cup AtCollectors \cup InChannel
                        \/ \E g \in Handlers : handler'[g] \in {"trx", "erc"} /\ block'[g] = b
                        \/ Stored(b)'
      OBVIOUS
    <3>1. \/ b \in Waiting \cup AtCollectors \cup InChannel
          \/ \E g \in Handlers : handler[g] \in {"trx", "erc"} /\ block[g] = b
          \/ Stored(b)
      BY <1>3, <1>7 DEF FlowInv, StoreInv
    <3>2. CASE b = x
      BY <1>10, <3>2 DEF Stored
    <3>3. ASSUME NEW g \in Handlers, handler[g] \in {"trx", "erc"}, block[g] = b, b # x
          PROVE handler'[g] \in {"trx", "erc"} /\ block'[g] = b
      BY <1>5, <3>3 DEF x
    <3> QED
      BY <1>10, <3>1, <3>2, <3>3
  <2> QED
    BY <1>1, <1>4, <2>1, <2>2, <2>3, <2>4 DEF StoreInv
<1>14. CheckpointCovered'
  BY <1>1, <1>7, <1>10 DEF FlowInv, CheckpointCovered
<1>15. handler'[h] \in {"get", "erc", "mark"} /\ (handler'[h] # "get" => block'[h] = block[h])
  BY <1>5 DEF x
<1> QED
  BY <1>1, <1>3, <1>5, <1>11, <1>12, <1>13, <1>14, <1>15, HoldingTurns

\* In the low phase all blocks before the one that the checkpoint takes are stored: they
\* went before it in every channel and in every hand.
LEMMA MarkStep ==
    ASSUME FlowInv, NEW h \in Handlers, Mark(h)
    PROVE  FlowInv'
<1> DEFINE x == block[h]
<1>1. /\ handler[h] = "mark" /\ trxHeight' = x
      /\ handler' = [handler EXCEPT ![h] = "get"] /\ block' = [block EXCEPT ![h] = 0]
      /\ UNCHANGED <<channels, mainVars, isDone, exitCount, collectorVars, boots>>
      /\ heightChan' = heightChan /\ blockChan' = blockChan /\ mainPc' = mainPc /\ phase' = phase
      /\ base' = base /\ next' = next /\ collector' = collector /\ fetched' = fetched
      /\ trxData' = trxData /\ ercData' = ercData /\ boots' = boots /\ failed' = failed
  BY DEF Mark, Checkpoint
<1>2. /\ x \in Heights /\ base <= x /\ x < next /\ AllRead(x) /\ mainPc # "off" /\ x \in AtHandlers
      /\ handler[h] \in Holding
  BY <1>1, Held DEF Holding
<1>3. /\ Waiting' = Waiting /\ AtCollectors' = AtCollectors /\ InChannel' = InChannel
  BY <1>1, Frames
<1>4. ~failed => Stored(x)
  BY <1>1 DEF FlowInv, StoreInv, Stored
<1>5. /\ handler' \in [Handlers -> {"get", "trx", "erc", "mark", "wait", "bump", "pass", "exited"}]
      /\ block' \in [Handlers -> 0..Top]
      /\ \A g \in Handlers : g # h => handler'[g] = handler[g] /\ block'[g] = block[g]
      /\ handler'[h] = "get"
  <2>1. 0 \in 0..Top
    BY Types DEF FlowInv
  <2> QED
    BY <1>1, <2>1 DEF FlowInv, TypeOK
<1> HIDE DEF x
<1>6. \A b \in Heights : Stored(b)' <=> Stored(b)
  BY <1>1 DEF Stored
<1>7. TypeOK'
  <2>1. trxHeight' \in 0..Top
    BY <1>1, <1>2, Types DEF FlowInv, Heights
  <2> QED
    BY <1>1, <1>5, <2>1 DEF FlowInv, TypeOK
<1>8. MarkInv'
  BY <1>1, <1>2, <1>3 DEF MarkInv, AllRead
<1>9. StoreInv'
  <2>1. \A g \in Handlers : handler'[g] \in {"trx", "erc", "mark"} => handler'[g] = handler[g] /\ block'[g] = block[g]
    BY <1>5
  <2>2. \A g \in Handlers : handler[g] \in {"trx", "erc"} => handler'[g] = handler[g] /\ block'[g] = block[g]
    BY <1>1, <1>5
  <2>3. OncePerProcess'
    BY <1>1 DEF FlowInv, StoreInv, OncePerProcess
  <2>4. \A b \in Heights :
          b >= next' \/ b \in Waiting' \cup AtCollectors' \cup InChannel' =>
              trxData'[b] < boots' /\ ercData'[b] < boots'
    BY <1>1, <1>2, <1>3 DEF FlowInv, StoreInv
  <2>5. \A g \in Handlers :
          /\ handler'[g] = "trx" => trxData[block'[g]] < boots
          /\ handler'[g] \in {"trx", "erc"} => ercData[block'[g]] < boots
          /\ handler'[g] \in {"erc", "mark"} /\ ~failed => trxData[block'[g]] > 0
          /\ handler'[g] = "mark" /\ ~failed => ercData[block'[g]] > 0
    BY <2>1 DEF FlowInv, StoreInv
  <2>6. ~failed => \A b \in Heights :
          base <= b /\ b < next =>
              \/ b \in Waiting \cup AtCollectors \cup InChannel
              \/ \E g \in Handlers : handler'[g] \in {"trx", "erc"} /\ block'[g] = b
              \/ Stored(b)
    BY <1>2, <2>2 DEF FlowInv, StoreInv
  <2> QED
    BY <1>1, <1>3, <1>6, <2>3, <2>4, <2>5, <2>6 DEF StoreInv
<1>10. CheckpointCovered'
  <2> SUFFICES ASSUME phase = "low", ~failed, NEW b \in Heights, base <= b, b <= x PROVE Stored(b)
    BY <1>1, <1>6 DEF CheckpointCovered
  <2>1. LowRun /\ h = LowHandler
    BY <1>1, Running DEF FlowInv
  <2>2. CASE b = x
    BY <1>4, <2>2
  <2>3. CASE b # x
    <3>1. b < x /\ b < next /\ b \in Nat /\ x \in Nat
      BY <1>2, <2>3, Types DEF FlowInv
    <3>2. b \notin Waiting
      BY <1>2, <3>1 DEF AllRead
    <3>3. b \notin AtCollectors /\ b \notin InChannel
      BY <1>2, <2>1, <3>1 DEF LowRun
    <3>4. \A g \in Handlers : handler[g] \notin {"trx", "erc"}
      BY <1>1, <2>1 DEF LowRun
    <3> QED
      BY <1>2, <3>1, <3>2, <3>3, <3>4 DEF FlowInv, StoreInv
  <2> QED
    BY <2>2, <2>3
<1> QED
  BY <1>1, <1>2, <1>5, <1>7, <1>8, <1>9, <1>10, HoldingTurns

\* The steps of a handler that has had its exit block concern no block any more: they
\* change exit_count, and the channel by an exit block.
LEMMA LeavingTurns ==
    ASSUME FlowInv, NEW h \in Handlers, handler[h] \in {"wait", "bump", "pass"},
           UNCHANGED <<heightChan, mainVars, isDone, collectorVars, block, tables, boots, failed>>,
           blockChan' = blockChan \/ blockChan' = Append(blockChan, Token),
           \A g \in Handlers : g # h => handler'[g] = handler[g],
           handler'[h] \in {"bump", "pass", "exited"},
           TypeOK', phase = "fast" => FastExit', phase = "low" => LowRun'
    PROVE  FlowInv'
<1>1. /\ heightChan' = heightChan /\ mainPc' = mainPc /\ phase' = phase
      /\ base' = base /\ next' = next /\ count' = count /\ tokens' = tokens /\ isDone' = isDone
      /\ collector' = collector /\ fetched' = fetched /\ block' = block
      /\ trxData' = trxData /\ ercData' = ercData /\ trxHeight' = trxHeight
      /\ boots' = boots /\ failed' = failed
  OBVIOUS
<1>2. mainPc # "off" /\ phase \in {"fast", "low"}
  BY Running
<1>3. /\ Waiting' = Waiting /\ AtCollectors' = AtCollectors
      /\ Ending' = Ending /\ GoneOnes' = GoneOnes
  BY <1>1, Frames
<1>4. InChannel' = InChannel
  <2>1. CASE blockChan' = blockChan
    BY <2>1, Frames
  <2>2. CASE blockChan' = Append(blockChan, Token)
    BY <2>2, ExitBlockSent
  <2> QED
    BY <2>1, <2>2
<1>5. \A i, j \in 1..Len(blockChan') : blockChan'[i] # Token /\ blockChan'[i] = blockChan'[j] => i = j
  <2>1. CASE blockChan' = blockChan
    BY <2>1 DEF FlowInv, HandInv
  <2>2. CASE blockChan' = Append(blockChan, Token)
    BY <2>2, ExitBlockSent DEF FlowInv, HandInv
  <2> QED
    BY <2>1, <2>2
<1>6. \A g \in Handlers : handler'[g] \in Holding \/ handler[g] \in Holding => handler'[g] = handler[g]
  BY DEF Holding
<1>7. AtHandlers' = AtHandlers /\ InHand' = InHand
  <2>1. AtHandlers' = AtHandlers
    BY <1>1, <1>6 DEF AtHandlers
  <2> QED
    BY <1>3, <1>4, <2>1 DEF InHand
<1>8. MainInv'
  BY <1>1, <1>2 DEF FlowInv, MainInv
<1>9. WaitInv'
  BY <1>1, <1>3 DEF FlowInv, WaitInv
<1>10. HandInv'
  <2>1. \A b \in InHand' : base' <= b /\ b < next' /\ AllRead(b)'
    BY <1>1, <1>3, <1>7 DEF FlowInv, HandInv, AllRead
  <2>2. \A g, k \in Handlers :
          handler'[g] \in Holding /\ handler'[k] \in Holding /\ block'[g] = block'[k] => g = k
    BY <1>1, <1>6 DEF FlowInv, HandInv
  <2> QED
    BY <1>1, <1>3, <1>4, <1>5, <1>7, <2>1, <2>2 DEF FlowInv, HandInv
<1>11. MarkInv'
  BY <1>1, <1>3 DEF FlowInv, MarkInv, AllRead
<1>12. StoreInv'
  <2>1. \A g \in Handlers : handler'[g] \in {"trx", "erc", "mark"} => handler'[g] = handler[g]
    BY <1>6 DEF Holding
  <2>2. \A g \in Handlers : handler[g] \in {"trx", "erc"} => handler'[g] = handler[g]
    BY <1>6 DEF Holding
  <2> QED
    BY <1>1, <1>3, <1>4, <2>1, <2>2 DEF FlowInv, StoreInv, OncePerProcess, Stored
<1>13. phase = "fast" => FastFeed'
  <2>1. phase = "fast" => FastFeed
    BY <1>2 DEF FlowInv
  <2> QED
    BY <1>1, <1>3, <2>1 DEF FastFeed, Tokens
<1>14. phase = "low" => LowFeed'
  BY <1>1, <1>3 DEF FlowInv, LowFeed
<1>15. CheckpointCovered'
  BY <1>1 DEF FlowInv, CheckpointCovered, Stored
<1> QED
  BY <1>1, <1>2, <1>8, <1>9, <1>10, <1>11, <1>12, <1>13, <1>14, <1>15 DEF FlowInv

\* A handler comes to one of these steps when all collectors have had their tokens.
LEMMA LeavingThen ==
    ASSUME FlowInv, NEW h \in Handlers,
           \/ handler[h] = "wait" /\ exitCount >= collect_threads
           \/ handler[h] \in {"bump", "pass"}
    PROVE  /\ mainPc # "off" /\ phase \in {"fast", "low"}
           /\ phase = "fast" =>
                FastFeed /\ FastExit /\ Ending = Collectors /\ exitCount >= collect_threads
           /\ phase = "low" =>
                LowFeed /\ LowRun /\ h = LowHandler /\ collector[LowCollector] = "exited"
           /\ exitCount \in Nat /\ Cardinality(Ending) \in Nat /\ Cardinality(Ending) <= collect_threads
           /\ Cardinality(Counted) \in Nat /\ IsFiniteSet(Counted)
<1>1. mainPc # "off" /\ phase \in {"fast", "low"} /\ (phase = "low" => h = LowHandler)
  BY Running
<1>2. h \in Leaving
  BY DEF Leaving
<1>3. phase = "fast" => FastFeed /\ FastExit
  BY <1>1 DEF FlowInv
<1>4. exitCount \in Nat
  BY Types DEF FlowInv
<1>5. ASSUME phase = "fast" PROVE exitCount >= collect_threads /\ Ending = Collectors
  BY <1>3, <1>4, <1>5, Threads DEF FastExit
<1>6. phase = "low" => LowFeed /\ LowRun
  BY DEF FlowInv
<1>7. phase = "low" => collector[LowCollector] = "exited"
  BY <1>1, <1>2, <1>6 DEF LowRun
<1> QED
  BY <1>1, <1>2, <1>3, <1>4, <1>5, <1>6, <1>7, Parts DEF Ending, Counted

LEMMA AwaitStep ==
    ASSUME FlowInv, NEW h \in Handlers, Await(h)
    PROVE  FlowInv'
<1>1. /\ handler[h] = "wait" /\ exitCount >= collect_threads
      /\ handler' = [handler EXCEPT ![h] = IF exitCount < handle_threads THEN "bump" ELSE "exited"]
      /\ UNCHANGED <<heightChan, mainVars, isDone, collectorVars, block, tables, boots, failed>>
      /\ blockChan' = blockChan /\ exitCount' = exitCount /\ collector' = collector
      /\ fetched' = fetched /\ mainPc' = mainPc /\ phase' = phase
      /\ block' = block
  BY DEF Await, CollectorsGone, PassOn
<1>2. /\ handler' \in [Handlers -> {"get", "trx", "erc", "mark", "wait", "bump", "pass", "exited"}]
      /\ \A g \in Handlers : g # h => handler'[g] = handler[g]
      /\ handler'[h] \in {"bump", "exited"}
      /\ handler'[h] = "bump" => exitCount < handle_threads
  BY <1>1 DEF FlowInv, TypeOK
<1>3. /\ phase \in {"fast", "low"}
      /\ phase = "fast" =>
           FastFeed /\ FastExit /\ Ending = Collectors /\ exitCount >= collect_threads
      /\ phase = "low" =>
           LowFeed /\ LowRun /\ h = LowHandler /\ collector[LowCollector] = "exited"
      /\ exitCount \in Nat /\ Cardinality(Ending) \in Nat
      /\ Cardinality(Counted) \in Nat /\ IsFiniteSet(Counted)
  <2>1. phase \in {"fast", "low"}
    BY DEF FlowInv, TypeOK
  <2> QED
    BY <1>1, <2>1, LeavingThen
<1>4. /\ Waiting' = Waiting /\ AtCollectors' = AtCollectors /\ InChannel' = InChannel
      /\ Ending' = Ending /\ GoneOnes' = GoneOnes
  BY <1>1, Frames
<1>5. Leaving' = Leaving
  BY <1>1, <1>2 DEF Leaving
<1>6. Cardinality(Counted) <= Cardinality(Counted')
  <2>1. h \notin Counted
    BY <1>1 DEF Counted
  <2>2. Counted' = Counted \/ Counted' = Counted \cup {h}
    BY <1>1, <1>2 DEF Counted
  <2>3. Cardinality(Counted \cup {h}) = Cardinality(Counted) + 1
    BY <1>3, <2>1, AddOne
  <2>4. CASE Counted' = Counted
    BY <1>3, <2>4
  <2>5. CASE Counted' = Counted \cup {h}
    BY <1>3, <2>3, <2>5
  <2> QED
    BY <2>2, <2>4, <2>5
<1>7. TypeOK'
  BY <1>1, <1>2 DEF FlowInv, TypeOK
<1>8. phase = "fast" => FastExit'
  <2> SUFFICES ASSUME phase = "fast" PROVE FastExit'
    OBVIOUS
  <2>1. ~(exitCount < collect_threads)
    BY <1>1, <1>3, Threads
  <2>2. Cardinality(Counted') \in Nat
    BY Parts, <1>2 DEF Counted
  <2>3. exitCount' <= Cardinality(Ending') + Cardinality(Counted')
    BY <1>1, <1>3, <1>4, <1>6, <2>2 DEF FastExit
  <2>4. \A i \in 1..Len(blockChan') : blockChan'[i] # Token =>
          Cardinality(Tokens(blockChan, i)') + Cardinality(Leaving') < collect_threads
    BY <1>1, <1>3, <1>5 DEF FastExit, Tokens
  <2> QED
    BY <1>1, <1>3, <1>4, <2>1, <2>3, <2>4 DEF FastExit
<1>9. phase = "low" => LowRun'
  <2> SUFFICES ASSUME phase = "low" PROVE LowRun'
    OBVIOUS
  <2>1. AtHandlers' = {} /\ AtHandlers = {}
    BY <1>1, <1>2, <1>3 DEF AtHandlers, Holding, LowRun
  <2> QED
    BY <1>1, <1>2, <1>3, <1>4, <1>5, <2>1 DEF LowRun
<1> QED
  BY <1>1, <1>2, <1>7, <1>8, <1>9, LeavingTurns

LEMMA BumpStep ==
    ASSUME FlowInv, NEW h \in Handlers, Bump(h)
    PROVE  FlowInv'
<1>1. /\ handler[h] = "bump" /\ exitCount' = exitCount + 1
      /\ handler' = [handler EXCEPT ![h] = "pass"]
      /\ UNCHANGED <<heightChan, mainVars, isDone, collectorVars, block, tables, boots, failed>>
      /\ blockChan' = blockChan /\ collector' = collector
      /\ fetched' = fetched /\ mainPc' = mainPc /\ phase' = phase
      /\ block' = block
  BY DEF Bump
<1>2. /\ handler' \in [Handlers -> {"get", "trx", "erc", "mark", "wait", "bump", "pass", "exited"}]
      /\ \A g \in Handlers : g # h => handler'[g] = handler[g]
      /\ handler'[h] = "pass"
  BY <1>1 DEF FlowInv, TypeOK
<1>3. /\ phase \in {"fast", "low"}
      /\ phase = "fast" =>
           FastFeed /\ FastExit /\ Ending = Collectors /\ exitCount >= collect_threads
      /\ phase = "low" =>
           LowFeed /\ LowRun /\ h = LowHandler /\ collector[LowCollector] = "exited"
      /\ exitCount \in Nat /\ Cardinality(Ending) \in Nat /\ Cardinality(Ending) <= collect_threads
      /\ Cardinality(Counted) \in Nat /\ IsFiniteSet(Counted)
  <2>1. phase \in {"fast", "low"}
    BY DEF FlowInv, TypeOK
  <2> QED
    BY <1>1, <2>1, LeavingThen
<1>4. /\ Waiting' = Waiting /\ AtCollectors' = AtCollectors /\ InChannel' = InChannel
      /\ Ending' = Ending /\ GoneOnes' = GoneOnes
  BY <1>1, Frames
<1>5. Leaving' = Leaving
  BY <1>1, <1>2 DEF Leaving
<1>6. /\ Cardinality(Counted') = Cardinality(Counted) + 1
      /\ Cardinality(Counted') \in Nat /\ Cardinality(Counted') <= handle_threads
  <2>1. h \notin Counted
    BY <1>1 DEF Counted
  <2>2. Counted' = Counted \cup {h}
    BY <1>1, <1>2 DEF Counted
  <2>3. Counted' \subseteq Handlers
    BY DEF Counted
  <2> QED
    BY <1>3, <2>1, <2>2, <2>3, AddOne, Parts
<1>7. phase = "fast" => exitCount' <= Cardinality(Ending') + Cardinality(Counted')
  <2>1. phase = "fast" => exitCount <= Cardinality(Ending) + Cardinality(Counted)
    BY <1>3 DEF FastExit
  <2> QED
    BY <1>1, <1>3, <1>4, <1>6, <2>1
<1>8. phase = "low" => exitCount' <= handle_threads
  <2>1. phase = "low" => exitCount < handle_threads
    BY <1>1, <1>3 DEF LowRun
  <2> QED
    BY <1>1, <1>3, <2>1, Threads
<1>9. TypeOK'
  <2>1. exitCount' \in 0..(collect_threads + handle_threads + 1)
    <3>1. exitCount' \in Nat
      BY <1>1, <1>3
    <3>2. phase = "fast" => exitCount' <= collect_threads + handle_threads
      BY <1>3, <1>4, <1>6, <1>7, <3>1, Threads
    <3> QED
      BY <1>3, <1>8, <3>1, <3>2, Threads
  <2> QED
    BY <1>1, <1>2, <2>1 DEF FlowInv, TypeOK
<1>10. phase = "fast" => FastExit'
  <2> SUFFICES ASSUME phase = "fast" PROVE FastExit'
    OBVIOUS
  <2>1. ~(exitCount' < collect_threads)
    BY <1>1, <1>3, Threads
  <2>2. \A i \in 1..Len(blockChan') : blockChan'[i] # Token =>
          Cardinality(Tokens(blockChan, i)') + Cardinality(Leaving') < collect_threads
    BY <1>1, <1>3, <1>5 DEF FastExit, Tokens
  <2> QED
    BY <1>1, <1>3, <1>4, <1>7, <2>1, <2>2 DEF FastExit
<1>11. phase = "low" => LowRun'
  <2> SUFFICES ASSUME phase = "low" PROVE LowRun'
    OBVIOUS
  <2>1. AtHandlers' = {} /\ AtHandlers = {}
    BY <1>1, <1>2, <1>3 DEF AtHandlers, Holding, LowRun
  <2>2. exitCount' <= collect_threads + handle_threads + (IF LowCollector \in Ending' THEN 1 ELSE 0)
    BY <1>1, <1>3, <1>8, Threads
  <2> QED
    BY <1>1, <1>2, <1>3, <1>4, <1>5, <2>1, <2>2 DEF LowRun
<1> QED
  BY <1>1, <1>2, <1>9, <1>10, <1>11, LeavingTurns

LEMMA PassStep ==
    ASSUME FlowInv, NEW h \in Handlers, Pass(h)
    PROVE  FlowInv'
<1>1. /\ handler[h] = "pass" /\ Len(blockChan) < ChanCap /\ blockChan' = Append(blockChan, Token)
      /\ handler' = [handler EXCEPT ![h] = "exited"]
      /\ UNCHANGED <<heightChan, mainVars, isDone, collectorVars, block, tables, boots, failed>>
      /\ exitCount' = exitCount /\ collector' = collector
      /\ fetched' = fetched /\ mainPc' = mainPc /\ phase' = phase
      /\ block' = block
  BY DEF Pass, Send
<1>2. /\ handler' \in [Handlers -> {"get", "trx", "erc", "mark", "wait", "bump", "pass", "exited"}]
      /\ \A g \in Handlers : g # h => handler'[g] = handler[g]
      /\ handler'[h] = "exited"
  BY <1>1 DEF FlowInv, TypeOK
<1>3. /\ phase \in {"fast", "low"}
      /\ phase = "fast" =>
           FastFeed /\ FastExit /\ Ending = Collectors /\ exitCount >= collect_threads
      /\ phase = "low" =>
           LowFeed /\ LowRun /\ h = LowHandler /\ collector[LowCollector] = "exited"
      /\ exitCount \in Nat
  <2>1. phase \in {"fast", "low"}
    BY DEF FlowInv, TypeOK
  <2> QED
    BY <1>1, <2>1, LeavingThen
<1>4. /\ Waiting' = Waiting /\ AtCollectors' = AtCollectors
      /\ Ending' = Ending /\ GoneOnes' = GoneOnes
  BY <1>1, Frames
<1>5. Leaving' = Leaving /\ Counted' = Counted
  BY <1>1, <1>2 DEF Leaving, Counted
<1>6. /\ blockChan' \in Seq(Items) /\ Len(blockChan) \in Nat
      /\ Len(blockChan') = Len(blockChan) + 1
      /\ \A i \in 1..Len(blockChan) : blockChan'[i] = blockChan[i]
      /\ \A i \in 1..Len(blockChan') : blockChan'[i] # Token => i \in 1..Len(blockChan)
      /\ InChannel' = InChannel
      /\ \A i \in 1..Len(blockChan) : Tokens(blockChan', i) = Tokens(blockChan, i)
  BY <1>1, ExitBlockSent
<1>7. TypeOK'
  <2>1. blockChan' \in Seq(Heights \cup {Token}) /\ Len(blockChan') <= ChanCap
    BY <1>1, <1>6 DEF Items
  <2> QED
    BY <1>1, <1>2, <2>1 DEF FlowInv, TypeOK
<1>8. phase = "fast" => FastExit'
  <2> SUFFICES ASSUME phase = "fast" PROVE FastExit'
    OBVIOUS
  <2>1. ~(exitCount < collect_threads)
    BY <1>3, Threads
  <2>2. \A i \in 1..Len(blockChan') : blockChan'[i] # Token =>
          Cardinality(Tokens(blockChan', i)) + Cardinality(Leaving) < collect_threads
    BY <1>3, <1>6 DEF FastExit
  <2> QED
    BY <1>1, <1>3, <1>4, <1>5, <2>1, <2>2 DEF FastExit, Tokens
<1>9. phase = "low" => LowRun'
  <2> SUFFICES ASSUME phase = "low" PROVE LowRun'
    OBVIOUS
  <2>1. AtHandlers' = {} /\ AtHandlers = {}
    BY <1>1, <1>2, <1>3 DEF AtHandlers, Holding, LowRun
  <2>2. \A i, j \in 1..Len(blockChan') : i < j /\ blockChan'[j] # Token =>
          blockChan'[i] # Token /\ blockChan'[i] < blockChan'[j]
    <3> SUFFICES ASSUME NEW i \in 1..Len(blockChan'), NEW j \in 1..Len(blockChan'), i < j, blockChan'[j] # Token
                 PROVE blockChan'[i] # Token /\ blockChan'[i] < blockChan'[j]
      OBVIOUS
    <3>1. j \in 1..Len(blockChan) /\ i \in 1..Len(blockChan)
      BY <1>6
    <3> QED
      BY <1>3, <1>6, <3>1 DEF LowRun
  <2> QED
    BY <1>1, <1>2, <1>3, <1>4, <1>5, <1>6, <2>1, <2>2 DEF LowRun
<1> QED
  BY <1>1, <1>2, <1>7, <1>8, <1>9, LeavingTurns

LEMMA HandleStep == ASSUME FlowInv, NEW h \in Handlers, HandleOne(h) PROVE FlowInv'
<1>1. CASE Get(h)
  BY <1>1, GetBlockStep, GetTokenStep
<1>2. CASE InsertTrx(h)
  BY <1>2, InsertTrxStep
<1>3. CASE InsertErc(h)
  BY <1>3, InsertErcStep
<1>4. CASE Mark(h)
  BY <1>4, MarkStep
<1>5. CASE Await(h)
  BY <1>5, AwaitStep
<1>6. CASE Bump(h)
  BY <1>6, BumpStep
<1>7. CASE Pass(h)
  BY <1>7, PassStep
<1> QED
  BY <1>1, <1>2, <1>3, <1>4, <1>5, <1>6, <1>7 DEF HandleOne

-----------------------------------------------------------------------------
(* The theorems.                                                           *)

LEMMA StutterStep == ASSUME FlowInv, UNCHANGED vars PROVE FlowInv'
<1>1. /\ heightChan' = heightChan /\ blockChan' = blockChan /\ mainPc' = mainPc /\ phase' = phase
      /\ base' = base /\ next' = next /\ count' = count /\ tokens' = tokens /\ isDone' = isDone
      /\ exitCount' = exitCount /\ collector' = collector /\ fetched' = fetched
      /\ handler' = handler /\ block' = block /\ trxData' = trxData /\ ercData' = ercData
      /\ trxHeight' = trxHeight /\ boots' = boots /\ failed' = failed
  BY DEF vars
<1>2. Waiting' = Waiting /\ Ending' = Ending
  BY <1>1, Frames
<1>3. CASE mainPc = "off"
  <2>1. TypeOK' /\ mainPc' = "off"
    BY <1>1, <1>3 DEF FlowInv, TypeOK
  <2>2. Off'
    BY <1>1, <1>3 DEF FlowInv, MainInv, Off
  <2>3. OncePerProcess'
    BY <1>1 DEF FlowInv, StoreInv, OncePerProcess
  <2>4. (TypeOK /\ mainPc = "off" /\ Off /\ OncePerProcess => FlowInv)'
    BY OffSound, PTL
  <2> QED
    BY <2>1, <2>2, <2>3, <2>4
<1>4. CASE mainPc # "off"
  <2>1. TypeOK'
    BY <1>1 DEF FlowInv, TypeOK
  <2>2. MainInv'
    BY <1>1, <1>4 DEF FlowInv, MainInv
  <2>3. phase = "fast" => FastFeed'
    BY <1>1, <1>2, <1>4 DEF FlowInv, FastFeed, Tokens
  <2>4. phase = "low" => LowFeed'
    BY <1>1, <1>2 DEF FlowInv, LowFeed
  <2> QED
    BY <1>1, <1>4, <2>1, <2>2, <2>3, <2>4, MainTurns
<1> QED
  BY <1>3, <1>4

\* Every state of the two phases satisfies FlowInv.
THEOREM FlowCorrect == Spec => []FlowInv
<1>1. Init => FlowInv
  BY InitFlow
<1>2. FlowInv /\ [Next]_vars => FlowInv'
  <2> SUFFICES ASSUME FlowInv, [Next]_vars PROVE FlowInv'
    OBVIOUS
  <2>1. CASE Boot \/ Main \/ Signal \/ Kill
    BY <2>1, MainStep
  <2>2. ASSUME NEW c \in Collectors, Collect(c) PROVE FlowInv'
    BY <2>2, CollectStep
  <2>3. ASSUME NEW h \in Handlers, HandleOne(h) PROVE FlowInv'
    BY <2>3, HandleStep
  <2>4. CASE UNCHANGED vars
    BY <2>4, StutterStep
  <2> QED
    BY <2>1, <2>2, <2>3, <2>4 DEF Next
<1> QED
  BY <1>1, <1>2, PTL DEF Spec

\* However many goroutines there are and however their exit blocks go round, what main
\* has fed in a phase is stored when the phase ends (the two waits of main).
THEOREM AllFedStored == Spec => []FedIsStored
<1>1. FlowInv => FedIsStored
  BY JoinedStored
<1> QED
  BY <1>1, FlowCorrect, PTL

\* What the checkpoint of the fast phase has outrun is in somebody's hands: heights are
\* read in the order in which they are fed, and the checkpoint is of one that was read.
LEMMA OutrunInHand == ASSUME FlowInv PROVE LossBounded
<1> SUFFICES ASSUME mainPc # "off", ~failed, NEW b \in AtRisk
             PROVE  \/ \E c \in Collectors : collector[c] = "push" /\ fetched[c] = b
                    \/ \E h \in Handlers : handler[h] \in {"trx", "erc"} /\ block[h] = b
                    \/ \E i \in DOMAIN blockChan : blockChan[i] = b
  BY DEF LossBounded
<1>1. b \in Heights /\ base <= b /\ b < trxHeight /\ ~Stored(b)
  BY DEF AtRisk
<1>2. b \in Nat /\ trxHeight \in Nat /\ base \in Nat /\ next \in Nat /\ blockChan \in Seq(Items)
  BY <1>1, Types DEF FlowInv
<1>3. trxHeight < next /\ AllRead(trxHeight)
  BY <1>1, <1>2 DEF FlowInv, MarkInv
<1>4. b < next /\ b \notin Waiting
  BY <1>1, <1>2, <1>3 DEF AllRead
<1>5. \/ b \in AtCollectors \cup InChannel
      \/ \E h \in Handlers : handler[h] \in {"trx", "erc"} /\ block[h] = b
  BY <1>1, <1>4 DEF FlowInv, StoreInv
<1>6. CASE b \in AtCollectors
  BY <1>6 DEF AtCollectors
<1>7. CASE b \in InChannel
  <2>1. PICK i \in 1..Len(blockChan) : blockChan[i] = b
    BY <1>7 DEF InChannel, HeightsIn
  <2>2. i \in DOMAIN blockChan
    BY <1>2, LenProperties
  <2> QED
    BY <2>1, <2>2
<1> QED
  BY <1>5, <1>6, <1>7

\* The checkpoint of the low phase covers stored blocks only, that of the fast phase
\* loses none but those in hand, and no process stores a block twice (SetConfigHeight
\* in handle_block, and the change of phases in main).
THEOREM CheckpointIsSound == Spec => []CheckpointSound
<1>1. FlowInv => CheckpointSound
  BY OutrunInHand DEF CheckpointSound, FlowInv, StoreInv
<1> QED
  BY <1>1, FlowCorrect, PTL
=============================================================================
