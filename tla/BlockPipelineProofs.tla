------------------------- MODULE BlockPipelineProofs -------------------------
(***************************************************************************)
(* Proofs about BlockPipeline, for any heights, channel capacity, batch    *)
(* size and chunk:                                                         *)
(*   FlowCorrect            Spec => []FlowInv, the inductive invariant     *)
(*   PipelineOrderly        Spec => []Orderly                              *)
(*   PipelineNeverStuck     Spec => []NeverStuck: no deadlock but behind a *)
(*                          dead handler                                   *)
(*   PipelineImplementsFeed Spec => ImplementsFeed, what UtxoIndex relies  *)
(*                          on                                             *)
(***************************************************************************)
EXTENDS BlockPipeline, SequenceTheorems, WellFoundedInduction, TLAPS

-----------------------------------------------------------------------------
(* The inductive invariant: what is in flight is one run of heights, from  *)
(* what the handler got last to what main feeds next, and a token is only  *)
(* ever the last of its channel.                                           *)

\* The last height the handler has received.
Received == FirstHeight + Len(got)

\* Main has sent its token.
Told == mainPc \in {"join", "closed"}

\* How many heights wait in a channel that a token may close.
InBlockChan  == Len(blockChan) - (IF collectPc = "exited" /\ blockChan # <<>> THEN 1 ELSE 0)
InHeightChan == Len(heightChan) - (IF Told /\ heightChan # <<>> THEN 1 ELSE 0)

\* The last height before the batch in hand.
BeforeBatch == Received + InBlockChan - pushed

\* Where the tokens are.
TokenInv ==
    /\ \A i \in 1..Len(blockChan) :
         blockChan[i] = Token <=> collectPc = "exited" /\ i = Len(blockChan)
    /\ \A i \in 1..Len(heightChan) :
         heightChan[i] = Token <=> Told /\ i = Len(heightChan)
    /\ sawToken <=> Told /\ heightChan = <<>>
    /\ collectPc = "exited" => sawToken
    /\ handlerPc = "exited" <=> collectPc = "exited" /\ blockChan = <<>>
    /\ mainPc = "closed" => collectPc = "exited" /\ handlerPc # "running"
    /\ handlerPc = "dead" => isDone

\* What collect_block has in hand at each step.
BatchInv ==
    /\ collectPc \in {"read", "fetch"} => pushed = 0
    /\ collectPc = "read" => fetched = {} /\ ~sawToken /\ Len(batch) < Delta
    /\ collectPc = "fetch" /\ ~sawToken => Len(batch) = Delta
    /\ collectPc \in {"push", "exited"} => fetched = 1..Len(batch)
    /\ collectPc = "exited" => pushed = Len(batch)
    /\ Len(batch) <= Delta

\* The heights in flight are consecutive.
RunInv ==
    /\ \A i \in 1..Len(blockChan) : blockChan[i] # Token => blockChan[i] = Received + i
    /\ \A k \in 1..Len(batch) : batch[k] = BeforeBatch + k
    /\ \A i \in 1..Len(heightChan) :
         heightChan[i] # Token => heightChan[i] = BeforeBatch + Len(batch) + i
    /\ next = BeforeBatch + Len(batch) + InHeightChan + 1

\* How far main has fed.
FeedInv ==
    /\ next <= count /\ count <= LastCount
    /\ mainPc = "send" => next < count
    /\ phase = "fast" /\ mainPc \in {"token", "join", "closed"} => isDone \/ next = count
    /\ phase = "low" /\ mainPc # "send" => next = count
    /\ phase = "low" /\ mainPc \in {"token", "join", "closed"} => isDone

FlowInv == TypeOK /\ InOrder /\ TokenInv /\ BatchInv /\ RunInv /\ FeedInv

-----------------------------------------------------------------------------
(* Sequences and numbers.                                                  *)

\* A set of numbers that is not empty has a least one.
LEMMA Least ==
    ASSUME NEW T, T \subseteq Nat, T # {}
    PROVE  \E x \in T : \A y \in T : x <= y
<1>1. PICK x \in T : \A y \in T : <<y, x>> \notin OpToRel(<, Nat)
  BY NatLessThanWellFounded, WFMin
<1>2. \A y \in T : ~(y < x)
  BY <1>1 DEF OpToRel
<1> QED
  BY <1>2

LEMMA AppendFacts ==
    ASSUME NEW S, NEW s \in Seq(S), NEW e \in S
    PROVE  /\ Append(s, e) \in Seq(S)
           /\ Append(s, e) # <<>>
           /\ Len(s) \in Nat
           /\ Len(Append(s, e)) = Len(s) + 1
           /\ \A i \in 1..Len(s) : Append(s, e)[i] = s[i]
           /\ Append(s, e)[Len(s) + 1] = e
BY AppendProperties, LenProperties

LEMMA TailFacts ==
    ASSUME NEW S, NEW s \in Seq(S), s # <<>>
    PROVE  /\ Tail(s) \in Seq(S)
           /\ Len(s) \in Nat \ {0}
           /\ Len(Tail(s)) = Len(s) - 1
           /\ Tail(s) = <<>> <=> Len(s) = 1
           /\ \A i \in 1..(Len(s) - 1) : Tail(s)[i] = s[i + 1]
           /\ Head(s) = s[1]
           /\ Head(s) \in S
<1>1. /\ Tail(s) \in Seq(S) /\ Len(Tail(s)) = Len(s) - 1 /\ Head(s) \in S
      /\ \A i \in 1..Len(Tail(s)) : Tail(s)[i] = s[i + 1]
      /\ Len(s) \in Nat \ {0}
  BY HeadTailProperties, EmptySeq
<1>2. Tail(s) = <<>> <=> Len(Tail(s)) = 0
  BY <1>1, EmptySeq
<1>3. Head(s) = s[1]
  OBVIOUS
<1> QED
  BY <1>1, <1>2, <1>3

-----------------------------------------------------------------------------
USE PipelineAssumption
USE DEF mainVars, collectVars, handlerVars, Token

\* The last height in the handler's list is the last it has received.
LEMMA LastOf ==
    ASSUME NEW g \in Seq(Nat), \A i \in 1..Len(g) : g[i] = FirstHeight + i
    PROVE  (IF g = <<>> THEN FirstHeight ELSE g[Len(g)]) = FirstHeight + Len(g)
<1>1. Len(g) \in Nat /\ (g # <<>> => Len(g) \in 1..Len(g))
  BY EmptySeq, LenProperties
<1>2. g = <<>> => Len(g) = 0
  OBVIOUS
<1> QED
  BY <1>1, <1>2

LEMMA LastReceived ==
    ASSUME FlowInv
    PROVE  LastGot = Received /\ Received \in Nat
BY LastOf, LenProperties DEF FlowInv, TypeOK, InOrder, LastGot, Received

LEMMA InitFlow == Init => FlowInv
<1> SUFFICES ASSUME Init PROVE FlowInv
  OBVIOUS
<1> USE DEF Init
<1>1. \A S : <<>> \in Seq(S) /\ Len(<<>>) = 0
  BY EmptySeq
<1>2. TypeOK
  <2>1. /\ heightChan \in Seq(Nat \cup {-1}) /\ Len(heightChan) = 0
        /\ blockChan \in Seq(Nat \cup {-1}) /\ Len(blockChan) = 0
        /\ batch \in Seq(Nat) /\ Len(batch) = 0 /\ got \in Seq(Nat)
    BY <1>1
  <2>2. next \in Nat /\ count \in Nat /\ pushed \in 0..0
    OBVIOUS
  <2>3. phase \in {"fast", "low"} /\ isDone \in BOOLEAN /\ sawToken \in BOOLEAN
        /\ mainPc \in {"check", "send", "token", "join", "closed"}
        /\ collectPc \in {"read", "fetch", "push", "exited"}
    OBVIOUS
  <2>4. handlerPc \in {"running", "exited", "dead"}
    OBVIOUS
  <2>5. fetched \subseteq 1..Len(batch) /\ pushed \in 0..Len(batch)
    BY <2>1
  <2>6. Len(heightChan) <= ChanCap /\ Len(blockChan) <= ChanCap /\ Len(batch) <= BatchSize
    BY <2>1
  <2> QED
    BY <2>1, <2>2, <2>3, <2>4, <2>5, <2>6 DEF TypeOK
<1>3. TokenInv /\ InOrder
  BY DEF TokenInv, InOrder, Told
<1>4. BatchInv
  BY DEF BatchInv, Delta
<1>5. InBlockChan = 0 /\ InHeightChan = 0 /\ Received = FirstHeight
  BY DEF InBlockChan, InHeightChan, Received, Told
<1>6. RunInv
  BY <1>5 DEF RunInv, BeforeBatch
<1>7. FeedInv
  BY DEF FeedInv
<1> QED
  BY <1>2, <1>3, <1>4, <1>6, <1>7 DEF FlowInv

\* Main looks at its loops' conditions.
LEMMA CheckFlow ==
    ASSUME FlowInv, FastCheck \/ LowPoll PROVE FlowInv'
<1> USE DEF FlowInv, FastCheck, LowPoll
<1>1. TypeOK' /\ InOrder'
  <2>1. /\ count' \in Nat /\ mainPc' \in {"send", "token"}
        /\ UNCHANGED <<heightChan, blockChan, phase, isDone, next, collectVars, handlerVars>>
    BY DEF TypeOK
  <2> QED
    BY <2>1 DEF TypeOK, InOrder
<1>2. ~Told /\ ~Told' /\ InHeightChan' = InHeightChan /\ BeforeBatch' = BeforeBatch
  BY DEF Told, InHeightChan, BeforeBatch, InBlockChan, Received
<1>3. TokenInv'
  BY <1>2 DEF TokenInv
<1>4. BatchInv'
  BY DEF BatchInv, Delta
<1>5. RunInv'
  BY <1>2 DEF RunInv, Received
<1>6. FeedInv'
  BY DEF FeedInv, TypeOK
<1> QED
  BY <1>1, <1>3, <1>4, <1>5, <1>6

LEMMA SendFlow == ASSUME FlowInv, SendHeight PROVE FlowInv'
<1> USE DEF FlowInv, SendHeight, Send
<1>1. /\ heightChan \in Seq(Nat \cup {-1}) /\ next \in Nat
      /\ Len(heightChan) \in Nat /\ Len(heightChan') = Len(heightChan) + 1
      /\ heightChan' \in Seq(Nat \cup {-1}) /\ heightChan' # <<>>
      /\ \A i \in 1..Len(heightChan) : heightChan'[i] = heightChan[i]
      /\ heightChan'[Len(heightChan) + 1] = next
  <2>1. heightChan \in Seq(Nat \cup {-1}) /\ next \in Nat
    BY DEF TypeOK
  <2> QED
    BY <2>1, AppendFacts
<1>2. TypeOK' /\ InOrder'
  BY <1>1 DEF TypeOK, InOrder, MoreToSend
<1>3. /\ ~Told /\ ~Told' /\ InHeightChan = Len(heightChan)
      /\ InHeightChan' = InHeightChan + 1 /\ BeforeBatch' = BeforeBatch
  BY <1>1 DEF Told, InHeightChan, BeforeBatch, InBlockChan, Received, MoreToSend
<1>4. TokenInv'
  BY <1>1, <1>3 DEF TokenInv, MoreToSend
<1>5. BatchInv'
  BY DEF BatchInv, Delta
<1>6. RunInv'
  <2>1. BeforeBatch \in Int /\ Len(batch) \in Nat
    BY LenProperties DEF BeforeBatch, InBlockChan, Received, TypeOK
  <2> QED
    BY <1>1, <1>3, <2>1 DEF RunInv, Received
<1>7. FeedInv'
  BY <1>1 DEF FeedInv, TypeOK, MoreToSend
<1> QED
  BY <1>2, <1>4, <1>5, <1>6, <1>7

LEMMA TokenFlow == ASSUME FlowInv, SendToken PROVE FlowInv'
<1> USE DEF FlowInv, SendToken, Send
<1>1. /\ heightChan \in Seq(Nat \cup {-1})
      /\ Len(heightChan) \in Nat /\ Len(heightChan') = Len(heightChan) + 1
      /\ heightChan' \in Seq(Nat \cup {-1}) /\ heightChan' # <<>>
      /\ \A i \in 1..Len(heightChan) : heightChan'[i] = heightChan[i]
      /\ heightChan'[Len(heightChan) + 1] = -1
  <2>1. heightChan \in Seq(Nat \cup {-1}) /\ -1 \in Nat \cup {-1}
    BY DEF TypeOK
  <2> QED
    BY <2>1, AppendFacts
<1>2. TypeOK' /\ InOrder'
  BY <1>1 DEF TypeOK, InOrder
<1>3. /\ ~Told /\ Told' /\ InHeightChan' = InHeightChan /\ BeforeBatch' = BeforeBatch
  BY <1>1 DEF Told, InHeightChan, BeforeBatch, InBlockChan, Received
<1>4. TokenInv'
  BY <1>1, <1>3 DEF TokenInv
<1>5. BatchInv'
  BY DEF BatchInv, Delta
<1>6. RunInv'
  BY <1>1, <1>3 DEF RunInv, Received
<1>7. FeedInv'
  BY DEF FeedInv
<1> QED
  BY <1>2, <1>4, <1>5, <1>6, <1>7

\* The channels are empty when the low phase starts its goroutines.
LEMMA StartFlow == ASSUME FlowInv, StartLow PROVE FlowInv'
<1> USE DEF FlowInv, StartLow, Joined
<1>1. handlerPc = "exited" /\ heightChan = <<>> /\ blockChan = <<>> /\ pushed = Len(batch)
  BY DEF TokenInv, BatchInv, TypeOK
<1>2. \A S : <<>> \in Seq(S) /\ Len(<<>>) = 0
  BY EmptySeq
<1>3. next = Received + 1 /\ next = count /\ Received \in Nat
  BY <1>1, <1>2, LastReceived
    DEF RunInv, BeforeBatch, InBlockChan, InHeightChan, FeedInv, TypeOK
<1>4. TypeOK' /\ InOrder'
  <2>1. batch' \in Seq(Nat) /\ Len(batch') = 0
    BY <1>2
  <2>2. fetched' \subseteq 1..Len(batch') /\ pushed' \in 0..Len(batch')
    BY <2>1
  <2>3. next' \in Nat /\ sawToken' \in BOOLEAN
    BY DEF TypeOK
  <2>5. Len(batch') <= BatchSize
    BY <2>1
  <2>4. /\ mainPc' \in {"check", "send", "token", "join", "closed"}
        /\ collectPc' \in {"read", "fetch", "push", "exited"}
        /\ phase' \in {"fast", "low"} /\ handlerPc' \in {"running", "exited", "dead"}
    OBVIOUS
  <2> QED
    BY <2>1, <2>2, <2>3, <2>4, <2>5 DEF TypeOK, InOrder
<1>5. TokenInv'
  BY <1>1, <1>2 DEF TokenInv, Told
<1>6. BatchInv'
  BY <1>2 DEF BatchInv, Delta
<1>7. RunInv'
  BY <1>1, <1>2, <1>3 DEF RunInv, BeforeBatch, InBlockChan, InHeightChan, Received
<1>8. FeedInv'
  BY <1>3 DEF FeedInv
<1> QED
  BY <1>4, <1>5, <1>6, <1>7, <1>8

LEMMA CloseFlow == ASSUME FlowInv, Close \/ Signal PROVE FlowInv'
<1> USE DEF FlowInv, Close, Signal, Joined
<1>1. Told' = Told /\ InHeightChan' = InHeightChan /\ BeforeBatch' = BeforeBatch
  BY DEF Told, InHeightChan, BeforeBatch, InBlockChan, Received
<1>2. TypeOK' /\ InOrder'
  BY DEF TypeOK, InOrder
<1>3. TokenInv'
  BY <1>1 DEF TokenInv
<1>4. BatchInv'
  BY DEF BatchInv, Delta
<1>5. RunInv'
  BY <1>1 DEF RunInv, Received
<1>6. FeedInv'
  BY DEF FeedInv
<1> QED
  BY <1>2, <1>3, <1>4, <1>5, <1>6

LEMMA ReadFlow == ASSUME FlowInv, ReadHeight PROVE FlowInv'
<1> USE DEF FlowInv, ReadHeight
<1>1. /\ heightChan \in Seq(Nat \cup {-1}) /\ heightChan' \in Seq(Nat \cup {-1})
      /\ Len(heightChan) \in Nat \ {0} /\ Len(heightChan') = Len(heightChan) - 1
      /\ heightChan' = <<>> <=> Len(heightChan) = 1
      /\ \A i \in 1..(Len(heightChan) - 1) : heightChan'[i] = heightChan[i + 1]
      /\ Head(heightChan) = heightChan[1] /\ Head(heightChan) \in Nat \cup {-1}
  <2>1. heightChan \in Seq(Nat \cup {-1})
    BY DEF TypeOK
  <2> QED
    BY <2>1, TailFacts
<1>2. InBlockChan' = InBlockChan /\ BeforeBatch' = BeforeBatch /\ Told' = Told
      /\ Received' = Received
  BY DEF InBlockChan, BeforeBatch, Received, Told
<1>9. heightChan[1] = -1 <=> Told /\ Len(heightChan) = 1
  <2>1. 1 \in 1..Len(heightChan)
    BY <1>1
  <2> QED
    BY <2>1 DEF TokenInv
<1>3. CASE Head(heightChan) = -1
  <2>1. Told /\ Len(heightChan) = 1 /\ heightChan' = <<>>
        /\ InHeightChan = 0 /\ InHeightChan' = 0
    BY <1>1, <1>2, <1>3, <1>9, EmptySeq DEF InHeightChan
  <2>2. TypeOK' /\ InOrder'
    BY <1>1, <1>3 DEF TypeOK, InOrder
  <2>3. TokenInv'
    BY <1>1, <1>2, <1>3, <2>1 DEF TokenInv
  <2>4. BatchInv'
    BY <1>3 DEF BatchInv, Delta
  <2>5. RunInv'
    BY <1>1, <1>2, <1>3, <2>1 DEF RunInv
  <2>6. FeedInv'
    BY DEF FeedInv
  <2> QED
    BY <2>2, <2>3, <2>4, <2>5, <2>6
<1>4. CASE Head(heightChan) # -1
  <2>1. /\ Len(batch) \in Nat /\ Len(batch') = Len(batch) + 1
        /\ batch' \in Seq(Nat)
        /\ \A i \in 1..Len(batch) : batch'[i] = batch[i]
        /\ batch'[Len(batch) + 1] = heightChan[1]
    <3>1. batch \in Seq(Nat) /\ Head(heightChan) \in Nat
      BY <1>1, <1>4 DEF TypeOK
    <3>2. batch' = Append(batch, Head(heightChan))
      BY <1>4
    <3> HIDE DEF FlowInv, ReadHeight
    <3> QED
      BY <1>1, <3>1, <3>2, AppendFacts
  <2>2. /\ Len(batch) < Delta /\ Delta \in Nat /\ Delta <= BatchSize /\ Delta' = Delta
    BY DEF BatchInv, Delta, TypeOK
  <2>3. TypeOK' /\ InOrder'
    <3>1. fetched' = {} /\ pushed' = 0 /\ sawToken' = sawToken
      BY <1>4 DEF BatchInv
    <3>2. collectPc' \in {"read", "fetch"} /\ Len(batch') <= BatchSize
      BY <1>4, <2>1, <2>2
    <3>3. fetched' \subseteq 1..Len(batch') /\ pushed' \in 0..Len(batch')
      BY <2>1, <3>1
    <3>4. Len(heightChan') <= ChanCap
      BY <1>1 DEF TypeOK
    <3> QED
      BY <1>1, <2>1, <3>1, <3>2, <3>3, <3>4 DEF TypeOK, InOrder
  <2>4. TokenInv'
    <3>1. Len(heightChan) # 1 \/ ~Told
      BY <1>1, <1>4, <1>9
    <3>2. ASSUME NEW i \in 1..Len(heightChan')
          PROVE  heightChan'[i] = -1 <=> Told' /\ i = Len(heightChan')
      <4>1. i + 1 \in 1..Len(heightChan) /\ heightChan'[i] = heightChan[i + 1]
        BY <1>1
      <4>2. i + 1 = Len(heightChan) <=> i = Len(heightChan')
        BY <1>1
      <4> QED
        BY <1>2, <4>1, <4>2 DEF TokenInv
    <3>3. sawToken' = sawToken /\ collectPc # "exited" /\ collectPc' # "exited"
      BY <1>4
    <3>4. ~sawToken /\ ~(Told' /\ heightChan' = <<>>)
      BY <1>1, <1>2, <3>1 DEF BatchInv
    <3> QED
      BY <1>2, <3>2, <3>3, <3>4 DEF TokenInv, Told
  <2>5. BatchInv'
    BY <1>4, <2>1, <2>2 DEF BatchInv
  <2>6. InHeightChan' = InHeightChan - 1
    <3>1. heightChan # <<>> /\ (Told => heightChan' # <<>>)
      BY <1>1, <1>4, <1>9
    <3> QED
      BY <1>1, <1>2, <3>1 DEF InHeightChan
  <2>7. BeforeBatch \in Int /\ InHeightChan \in Int
    BY <1>1, LenProperties DEF BeforeBatch, InBlockChan, InHeightChan, Received, TypeOK
  <2>8. heightChan[1] = BeforeBatch + Len(batch) + 1
    BY <1>1, <1>4 DEF RunInv
  <2>9. RunInv'
    <3>1. \A k \in 1..Len(batch') : batch'[k] = BeforeBatch + k
      BY <2>1, <2>7, <2>8 DEF RunInv
    <3>2. \A i \in 1..Len(heightChan') :
            heightChan'[i] # -1 => heightChan'[i] = BeforeBatch + Len(batch') + i
      BY <1>1, <2>1, <2>7 DEF RunInv
    <3> QED
      BY <1>2, <2>1, <2>6, <2>7, <3>1, <3>2 DEF RunInv
  <2>10. FeedInv'
    BY DEF FeedInv
  <2> QED
    BY <2>3, <2>4, <2>5, <2>9, <2>10
<1> QED
  BY <1>3, <1>4

\* Fetching touches neither channel.
LEMMA FetchFlow ==
    ASSUME FlowInv, FetchDone \/ \E i \in 1..BatchSize : FetchBlock(i)
    PROVE  FlowInv'
<1> USE DEF FlowInv, FetchDone, FetchBlock, AllFetched
<1>1. /\ Told' = Told /\ InHeightChan' = InHeightChan /\ BeforeBatch' = BeforeBatch
      /\ InBlockChan' = InBlockChan /\ Received' = Received
  BY DEF Told, InHeightChan, BeforeBatch, InBlockChan, Received
<1>2. TypeOK' /\ InOrder'
  BY DEF TypeOK, InOrder
<1>3. TokenInv'
  BY <1>1 DEF TokenInv
<1>4. BatchInv'
  BY DEF BatchInv, Delta
<1>5. RunInv'
  BY <1>1 DEF RunInv
<1>6. FeedInv'
  BY DEF FeedInv
<1> QED
  BY <1>2, <1>3, <1>4, <1>5, <1>6

LEMMA PushFlow == ASSUME FlowInv, PushBlock PROVE FlowInv'
<1> USE DEF FlowInv, PushBlock, Send
<1>1. /\ pushed \in Nat /\ pushed + 1 \in 1..Len(batch) /\ Len(batch) \in Nat
      /\ pushed + 1 \in fetched
  BY LenProperties DEF TypeOK, BatchInv
<1>2. BlockToPush = batch[pushed + 1] /\ BlockToPush \in Nat
  BY <1>1, ElementOfSeq DEF BlockToPush, TypeOK
<1>3. /\ blockChan \in Seq(Nat \cup {-1}) /\ blockChan' \in Seq(Nat \cup {-1})
      /\ Len(blockChan) \in Nat /\ Len(blockChan') = Len(blockChan) + 1
      /\ blockChan' # <<>>
      /\ \A i \in 1..Len(blockChan) : blockChan'[i] = blockChan[i]
      /\ blockChan'[Len(blockChan) + 1] = BlockToPush
  <2>1. blockChan \in Seq(Nat \cup {-1}) /\ BlockToPush \in Nat \cup {-1}
    BY <1>2 DEF TypeOK
  <2> QED
    BY <2>1, AppendFacts
<1>4. TypeOK' /\ InOrder'
  BY <1>1, <1>3 DEF TypeOK, InOrder
<1>5. /\ Told' = Told /\ InHeightChan' = InHeightChan
      /\ Received' = Received /\ Received \in Int
      /\ InBlockChan = Len(blockChan) /\ InBlockChan' = InBlockChan + 1
      /\ BeforeBatch' = BeforeBatch
  BY <1>1, <1>3, LenProperties DEF Told, InHeightChan, BeforeBatch, InBlockChan, Received, TypeOK
<1>6. TokenInv'
  BY <1>2, <1>3, <1>5 DEF TokenInv
<1>7. BatchInv'
  BY <1>1 DEF BatchInv, Delta
<1>8. RunInv'
  <2>1. BlockToPush = Received + Len(blockChan) + 1
    BY <1>1, <1>2, <1>3, <1>5 DEF RunInv, BeforeBatch
  <2>2. \A i \in 1..Len(blockChan') : blockChan'[i] # -1 => blockChan'[i] = Received + i
    <3>1. ASSUME NEW i \in 1..Len(blockChan), blockChan'[i] # -1
          PROVE  blockChan'[i] = Received + i
      BY <1>3, <3>1 DEF RunInv
    <3>2. blockChan'[Len(blockChan) + 1] = Received + (Len(blockChan) + 1)
      BY <1>3, <1>5, <2>1
    <3> QED
      BY <1>3, <3>1, <3>2
  <2> QED
    BY <1>5, <2>2 DEF RunInv
<1>9. FeedInv'
  BY DEF FeedInv
<1> QED
  BY <1>4, <1>6, <1>7, <1>8, <1>9

LEMMA PushDoneFlow == ASSUME FlowInv, PushDone PROVE FlowInv'
<1> USE DEF FlowInv, PushDone, BatchPushed
<1>1. batch' \in Seq(Nat) /\ Len(batch') = 0 /\ Len(batch) \in Nat
  BY EmptySeq, LenProperties DEF TypeOK
<1>2. TypeOK' /\ InOrder'
  <2>1. fetched' \subseteq 1..Len(batch') /\ pushed' \in 0..Len(batch')
        /\ Len(batch') <= BatchSize
    BY <1>1
  <2>2. collectPc' \in {"read", "fetch", "push", "exited"}
    OBVIOUS
  <2> QED
    BY <1>1, <2>1, <2>2 DEF TypeOK, InOrder
<1>3. /\ Told' = Told /\ InHeightChan' = InHeightChan
      /\ Received' = Received /\ Received \in Int
      /\ InBlockChan' = InBlockChan /\ InBlockChan \in Int
      /\ BeforeBatch' = BeforeBatch + Len(batch)
  BY <1>1, LenProperties DEF Told, InHeightChan, BeforeBatch, InBlockChan, Received, TypeOK
<1>4. TokenInv'
  BY <1>3 DEF TokenInv
<1>5. BatchInv'
  BY <1>1 DEF BatchInv, Delta
<1>6. RunInv'
  BY <1>1, <1>3 DEF RunInv
<1>7. FeedInv'
  BY DEF FeedInv
<1> QED
  BY <1>2, <1>4, <1>5, <1>6, <1>7

LEMMA PushTokenFlow == ASSUME FlowInv, PushToken PROVE FlowInv'
<1> USE DEF FlowInv, PushToken, Send, BatchPushed
<1>1. /\ blockChan \in Seq(Nat \cup {-1}) /\ blockChan' \in Seq(Nat \cup {-1})
      /\ Len(blockChan) \in Nat /\ Len(blockChan') = Len(blockChan) + 1
      /\ blockChan' # <<>>
      /\ \A i \in 1..Len(blockChan) : blockChan'[i] = blockChan[i]
      /\ blockChan'[Len(blockChan) + 1] = -1
  <2>1. blockChan \in Seq(Nat \cup {-1}) /\ -1 \in Nat \cup {-1}
    BY DEF TypeOK
  <2> QED
    BY <2>1, AppendFacts
<1>2. TypeOK' /\ InOrder'
  BY <1>1 DEF TypeOK, InOrder
<1>3. /\ Told' = Told /\ InHeightChan' = InHeightChan /\ Received' = Received
      /\ InBlockChan' = InBlockChan /\ BeforeBatch' = BeforeBatch
  BY <1>1 DEF Told, InHeightChan, BeforeBatch, InBlockChan, Received
<1>4. TokenInv'
  BY <1>1, <1>3 DEF TokenInv
<1>5. BatchInv'
  BY DEF BatchInv, Delta
<1>6. RunInv'
  BY <1>1, <1>3 DEF RunInv
<1>7. FeedInv'
  BY DEF FeedInv
<1> QED
  BY <1>2, <1>4, <1>5, <1>6, <1>7

\* The handler takes the next height.
LEMMA HandleBlockFlow == ASSUME FlowInv, HandleBlock PROVE FlowInv'
<1> USE DEF FlowInv, HandleBlock
<1>1. /\ blockChan \in Seq(Nat \cup {-1}) /\ blockChan' \in Seq(Nat \cup {-1})
      /\ Len(blockChan) \in Nat \ {0} /\ Len(blockChan') = Len(blockChan) - 1
      /\ blockChan' = <<>> <=> Len(blockChan) = 1
      /\ \A i \in 1..(Len(blockChan) - 1) : blockChan'[i] = blockChan[i + 1]
      /\ Head(blockChan) = blockChan[1] /\ Head(blockChan) \in Nat
  <2>1. blockChan \in Seq(Nat \cup {-1})
    BY DEF TypeOK
  <2> QED
    BY <2>1, TailFacts
<1>2. /\ Len(got) \in Nat /\ Len(got') = Len(got) + 1 /\ got' \in Seq(Nat)
      /\ \A i \in 1..Len(got) : got'[i] = got[i]
      /\ got'[Len(got) + 1] = blockChan[1]
  <2>1. got \in Seq(Nat)
    BY DEF TypeOK
  <2> QED
    BY <1>1, <2>1, AppendFacts
<1>3. Received \in Nat /\ Received' = Received + 1 /\ blockChan[1] = Received + 1
  BY <1>1, <1>2, LastReceived DEF Received, RunInv
<1>4. TypeOK' /\ InOrder'
  <2>1. handlerPc' \in {"running", "exited", "dead"} /\ isDone' \in BOOLEAN
    BY DEF TypeOK
  <2>2. TypeOK'
    BY <1>1, <1>2, <2>1 DEF TypeOK
  <2>3. InOrder'
    BY <1>2, <1>3 DEF InOrder, Received
  <2> QED
    BY <2>2, <2>3
<1>10. ~(collectPc = "exited" /\ Len(blockChan) = 1)
  <2>1. 1 \in 1..Len(blockChan) /\ blockChan[1] # -1
    BY <1>1
  <2> QED
    BY <2>1 DEF TokenInv
<1>5. /\ Told' = Told /\ InHeightChan' = InHeightChan
      /\ InBlockChan \in Int /\ InBlockChan' = InBlockChan - 1
      /\ BeforeBatch' = BeforeBatch
  <2>1. collectPc = "exited" => blockChan' # <<>>
    BY <1>1, <1>10
  <2>2. Told' = Told /\ InHeightChan' = InHeightChan /\ UNCHANGED <<collectPc, pushed>>
    BY DEF Told, InHeightChan
  <2>3. blockChan # <<>>
    OBVIOUS
  <2>4. pushed \in Nat
    BY LenProperties DEF TypeOK
  <2> HIDE DEF FlowInv, HandleBlock
  <2>5. InBlockChan \in Int /\ InBlockChan' = InBlockChan - 1
    BY <1>1, <2>1, <2>2, <2>3 DEF InBlockChan
  <2> QED
    BY <1>3, <2>2, <2>4, <2>5 DEF BeforeBatch
<1>6. TokenInv'
  <2>1. collectPc = "exited" => blockChan' # <<>>
    BY <1>1, <1>10
  <2>2. ASSUME NEW i \in 1..Len(blockChan')
        PROVE  blockChan'[i] = -1 <=> collectPc = "exited" /\ i = Len(blockChan')
    <3>1. i + 1 \in 1..Len(blockChan) /\ blockChan'[i] = blockChan[i + 1]
      BY <1>1
    <3>2. i + 1 = Len(blockChan) <=> i = Len(blockChan')
      BY <1>1
    <3> QED
      BY <3>1, <3>2 DEF TokenInv
  <2>3. handlerPc' # "exited" /\ (handlerPc' = "dead" => isDone')
    OBVIOUS
  <2> QED
    BY <1>1, <1>5, <2>1, <2>2, <2>3 DEF TokenInv
<1>7. BatchInv'
  BY DEF BatchInv, Delta
<1>8. RunInv'
  <2>1. \A i \in 1..Len(blockChan') : blockChan'[i] # -1 => blockChan'[i] = Received' + i
    BY <1>1, <1>3 DEF RunInv
  <2> QED
    BY <1>5, <2>1 DEF RunInv
<1>9. FeedInv'
  BY DEF FeedInv
<1> QED
  BY <1>4, <1>6, <1>7, <1>8, <1>9

LEMMA HandleExitFlow == ASSUME FlowInv, HandleExit PROVE FlowInv'
<1> USE DEF FlowInv
<1>1. /\ blockChan \in Seq(Nat \cup {-1}) /\ blockChan' \in Seq(Nat \cup {-1})
      /\ Len(blockChan) \in Nat \ {0} /\ Len(blockChan') = Len(blockChan) - 1
      /\ blockChan' = <<>> <=> Len(blockChan) = 1
      /\ Head(blockChan) = blockChan[1] /\ Head(blockChan) = -1
  <2>1. blockChan \in Seq(Nat \cup {-1})
    BY DEF TypeOK
  <2>2. blockChan # <<>> /\ blockChan' = Tail(blockChan) /\ Head(blockChan) = -1
    BY DEF HandleExit
  <2> HIDE DEF FlowInv
  <2> QED
    BY <2>1, <2>2, TailFacts
<1>2. /\ UNCHANGED <<heightChan, phase, isDone, mainPc, next, count, collectPc, batch,
                     fetched, pushed, sawToken, got>>
      /\ handlerPc = "running" /\ handlerPc' = "exited"
  BY DEF HandleExit
<1>3. collectPc = "exited" /\ Len(blockChan) = 1
  <2>1. 1 \in 1..Len(blockChan) /\ blockChan[1] = -1
    BY <1>1
  <2> QED
    BY <2>1 DEF TokenInv
<1>4. Len(blockChan') = 0
  BY <1>1, <1>3
<1>5. blockChan' = <<>>
  BY <1>1, <1>3
<1>6. TypeOK' /\ InOrder'
  BY <1>1, <1>2, <1>4 DEF TypeOK, InOrder
<1>7. /\ Told' = Told /\ InHeightChan' = InHeightChan /\ Received' = Received
      /\ InBlockChan' = InBlockChan /\ BeforeBatch' = BeforeBatch
  <2>1. Told' = Told /\ InHeightChan' = InHeightChan /\ Received' = Received
    BY <1>2 DEF Told, InHeightChan, Received
  <2>2. InBlockChan = 0
    <3>1. blockChan # <<>>
      BY DEF HandleExit
    <3> QED
      BY <1>3, <3>1 DEF InBlockChan
  <2>3. InBlockChan' = 0
    BY <1>4, <1>5 DEF InBlockChan
  <2> QED
    BY <1>2, <2>1, <2>2, <2>3 DEF BeforeBatch
<1>8. TokenInv'
  BY <1>2, <1>3, <1>4, <1>5, <1>7 DEF TokenInv
<1>9. BatchInv'
  BY <1>2 DEF BatchInv, Delta
<1>10. RunInv'
  BY <1>2, <1>4, <1>7 DEF RunInv
<1>11. FeedInv'
  BY <1>2 DEF FeedInv
<1> QED
  BY <1>6, <1>8, <1>9, <1>10, <1>11

LEMMA StutterFlow == ASSUME FlowInv, UNCHANGED vars PROVE FlowInv'
<1> USE DEF FlowInv, vars
<1>1. TypeOK' /\ InOrder'
  BY DEF TypeOK, InOrder
<1>2. TokenInv' /\ BatchInv' /\ FeedInv'
  BY DEF TokenInv, Told, BatchInv, Delta, FeedInv
<1>3. RunInv'
  BY DEF RunInv, Told, InHeightChan, BeforeBatch, InBlockChan, Received
<1> QED
  BY <1>1, <1>2, <1>3

\* The invariant of the goroutines and their channels: everything in flight is one
\* run of consecutive heights.
THEOREM FlowCorrect == Spec => []FlowInv
<1>1. Init => FlowInv
  BY InitFlow
<1>2. FlowInv /\ [Next]_vars => FlowInv'
  <2> SUFFICES ASSUME FlowInv, [Next]_vars PROVE FlowInv'
    OBVIOUS
  <2>1. CASE FastCheck \/ LowPoll  BY <2>1, CheckFlow
  <2>2. CASE SendHeight            BY <2>2, SendFlow
  <2>3. CASE SendToken             BY <2>3, TokenFlow
  <2>4. CASE StartLow              BY <2>4, StartFlow
  <2>5. CASE Close \/ Signal       BY <2>5, CloseFlow
  <2>6. CASE ReadHeight            BY <2>6, ReadFlow
  <2>7. CASE FetchDone \/ \E i \in 1..BatchSize : FetchBlock(i)
    BY <2>7, FetchFlow
  <2>8. CASE PushBlock             BY <2>8, PushFlow
  <2>9. CASE PushDone              BY <2>9, PushDoneFlow
  <2>10. CASE PushToken            BY <2>10, PushTokenFlow
  <2>11. CASE HandleBlock          BY <2>11, HandleBlockFlow
  <2>12. CASE HandleExit           BY <2>12, HandleExitFlow
  <2>13. CASE UNCHANGED vars       BY <2>13, StutterFlow
  <2> QED
    BY <2>1, <2>2, <2>3, <2>4, <2>5, <2>6, <2>7, <2>8, <2>9, <2>10, <2>11, <2>12, <2>13
    DEF Next, Main, Collect, Handle
<1> QED
  BY <1>1, <1>2, PTL DEF Spec

\* Once the handler has its token, nothing is left in flight.
LEMMA FlowDrains == FlowInv => ExitDrains
<1> SUFFICES ASSUME FlowInv, handlerPc = "exited"
             PROVE  heightChan = <<>> /\ blockChan = <<>> /\ LastGot = next - 1
  BY DEF ExitDrains
<1>1. collectPc = "exited" /\ blockChan = <<>> /\ heightChan = <<>> /\ pushed = Len(batch)
  BY DEF FlowInv, TokenInv, BatchInv
<1>2. InBlockChan = 0 /\ InHeightChan = 0 /\ Len(batch) \in Nat
  BY <1>1, EmptySeq, LenProperties DEF InBlockChan, InHeightChan, FlowInv, TypeOK
<1>3. LastGot = Received /\ Received \in Nat
  BY LastReceived
<1> QED
  BY <1>1, <1>2, <1>3 DEF FlowInv, RunInv, BeforeBatch

\* Whatever the order of the fetches and wherever a stop falls, the handler gets
\* every height once and in order, and an exit token leaves nothing behind it.
THEOREM PipelineOrderly == Spec => []Orderly
<1>1. FlowInv => Orderly
  BY FlowDrains DEF FlowInv, Orderly
<1> QED
  BY <1>1, FlowCorrect, PTL

-----------------------------------------------------------------------------
(* No deadlock.  The guards of each goroutine's steps, as the actions have *)
(* them.                                                                   *)

MainCan ==
    \/ mainPc = "check" /\ (phase = "fast" \/ isDone \/ count < LastCount)
    \/ mainPc \in {"send", "token"} /\ Len(heightChan) < ChanCap
    \/ Joined

CanFetch(i) ==
    /\ i \in 1..Len(batch) \ fetched
    /\ \A k \in 1..(i - 1) : Fetcher(k) = Fetcher(i) => k \in fetched

CollectCan ==
    \/ collectPc = "read" /\ heightChan # <<>>
    \/ collectPc = "fetch" /\ (AllFetched \/ \E i \in 1..BatchSize : CanFetch(i))
    \/ collectPc = "push" /\ pushed < Len(batch) /\ Len(blockChan) < ChanCap
    \/ collectPc = "push" /\ BatchPushed /\ (~sawToken \/ Len(blockChan) < ChanCap)

HandleCan == handlerPc = "running" /\ blockChan # <<>>

\* While the process is not over, a goroutine can go on, but for a chain that has
\* stopped growing and for a handler that died behind a full channel.
NeverStuck ==
    mainPc # "closed" =>
        \/ MainCan \/ CollectCan \/ HandleCan
        \/ HungBehindDeadHandler
        \/ ~isDone /\ phase = "low" /\ count = LastCount

\* The fetching goroutines never wait on one another: the first position that is
\* missing is nobody's second.
LEMMA SomeFetch ==
    ASSUME FlowInv, collectPc = "fetch"
    PROVE  AllFetched \/ \E i \in 1..BatchSize : CanFetch(i)
<1>1. fetched \subseteq 1..Len(batch) /\ Len(batch) \in Nat /\ Len(batch) <= BatchSize
  BY LenProperties DEF FlowInv, TypeOK
<1>2. CASE fetched = 1..Len(batch)
  BY <1>2 DEF AllFetched
<1>3. CASE 1..Len(batch) \ fetched # {}
  <2>1. PICK i \in 1..Len(batch) \ fetched : \A k \in 1..Len(batch) \ fetched : i <= k
    <3>1. 1..Len(batch) \ fetched \subseteq Nat
      OBVIOUS
    <3> QED
      BY <1>3, <3>1, Least
  <2>2. \A k \in 1..(i - 1) : k \in fetched
    BY <1>1, <2>1
  <2> QED
    BY <1>1, <2>1, <2>2 DEF CanFetch
<1> QED
  BY <1>1, <1>2, <1>3

\* The only goroutines that ever hang do so behind a dead handler, for good.
THEOREM PipelineNeverStuck == Spec => []NeverStuck
<1>1. FlowInv => NeverStuck
  <2> SUFFICES ASSUME FlowInv, mainPc # "closed", ~MainCan, ~CollectCan, ~HandleCan,
                      ~(~isDone /\ phase = "low" /\ count = LastCount)
               PROVE  handlerPc = "dead" /\ collectPc = "push" /\ Len(blockChan) = ChanCap
    BY DEF NeverStuck, HungBehindDeadHandler
  <2>1. mainPc \in {"send", "token", "join"}
    BY DEF FlowInv, TypeOK, FeedInv, MainCan
  <2>2. heightChan = <<>> => Len(heightChan) = 0
    BY EmptySeq
  <2>3. collectPc \notin {"read", "fetch"}
    <3>1. collectPc # "fetch"
      BY SomeFetch DEF CollectCan
    <3>2. CASE collectPc = "read"
      <4>1. heightChan = <<>>
        BY <3>2 DEF CollectCan
      <4>2. ~sawToken
        BY <3>2 DEF FlowInv, BatchInv
      <4>3. mainPc \in {"send", "token"}
        BY <2>1, <4>1, <4>2 DEF FlowInv, TokenInv, Told
      <4> QED
        BY <4>1, <4>3, <2>2 DEF MainCan
    <3> QED
      BY <3>1, <3>2
  <2>4. collectPc # "exited"
    <3> SUFFICES ASSUME collectPc = "exited" PROVE FALSE
      OBVIOUS
    <3>1. mainPc = "join"
      BY <2>1 DEF FlowInv, TokenInv, Told
    <3>2. handlerPc = "running"
      BY <3>1 DEF MainCan, Joined
    <3>3. blockChan # <<>>
      BY <3>2 DEF FlowInv, TokenInv
    <3> QED
      BY <3>2, <3>3 DEF HandleCan
  <2>5. collectPc = "push" /\ ~(Len(blockChan) < ChanCap)
    BY <2>3, <2>4, LenProperties DEF FlowInv, TypeOK, CollectCan, BatchPushed
  <2>6. Len(blockChan) = ChanCap /\ blockChan # <<>>
    BY <2>5, LenProperties, EmptySeq DEF FlowInv, TypeOK
  <2>7. handlerPc = "dead"
    BY <2>5, <2>6 DEF HandleCan, FlowInv, TypeOK, TokenInv
  <2> QED
    BY <2>5, <2>6, <2>7
<1> QED
  BY <1>1, FlowCorrect, PTL

-----------------------------------------------------------------------------
(* The pipeline implements the feed.                                       *)

\* What the handler's last height is after a step that leaves its list alone.
LEMMA SameGot == ASSUME got' = got PROVE LastGot' = LastGot
BY DEF LastGot

LEMMA DeliverFeeds == ASSUME FlowInv, FlowInv', HandleBlock PROVE Feed!Deliver
<1>1. LastGot = Received /\ Received \in Nat
  BY LastReceived
<1>2. LastGot' = Received'
  BY LastOf DEF FlowInv, TypeOK, InOrder, LastGot, Received
<1>3. blockChan \in Seq(Nat \cup {-1}) /\ got \in Seq(Nat) /\ Head(blockChan) \in Nat
  <2>1. blockChan \in Seq(Nat \cup {-1}) /\ got \in Seq(Nat)
    BY DEF FlowInv, TypeOK
  <2> QED
    BY <2>1, HeadTailProperties DEF HandleBlock
<1>4. Received' = Received + 1
  BY <1>1, <1>3, AppendProperties, LenProperties DEF Received, HandleBlock
<1>5. Len(blockChan) \in Nat \ {0} /\ Head(blockChan) = blockChan[1]
      /\ 1 \in 1..Len(blockChan)
  BY <1>3, TailFacts DEF HandleBlock
<1>6. Head(blockChan) = Received + 1
  BY <1>1, <1>3, <1>5 DEF FlowInv, RunInv
<1>7. InBlockChan >= 1 /\ InBlockChan \in Int
  <2>1. ~(collectPc = "exited" /\ 1 = Len(blockChan))
    BY <1>3, <1>5 DEF FlowInv, TokenInv
  <2>5. Len(blockChan) \in Nat \ {0}
    BY <1>5
  <2>6. \A n \in Nat \ {0} : n \in Nat /\ n >= 1 /\ (n # 1 => n >= 2)
    OBVIOUS
  <2>2. Len(blockChan) \in Nat /\ Len(blockChan) >= 1
        /\ (collectPc = "exited" => Len(blockChan) >= 2)
    BY <2>5, <2>1, <2>6
  <2>3. CASE collectPc = "exited" /\ blockChan # <<>>
    BY <2>2, <2>3 DEF InBlockChan
  <2>4. CASE ~(collectPc = "exited" /\ blockChan # <<>>)
    <3>1. InBlockChan = Len(blockChan) - 0
      BY <2>4 DEF InBlockChan
    <3> QED
      BY <2>2, <3>1
  <2> QED
    BY <2>3, <2>4
<1>8. InHeightChan >= 0 /\ InHeightChan \in Int
  <2>1. heightChan \in Seq(Nat \cup {-1})
    BY DEF FlowInv, TypeOK
  <2>2. Len(heightChan) \in Nat /\ (heightChan # <<>> => Len(heightChan) > 0)
    BY <2>1, EmptySeq, LenProperties
  <2> QED
    BY <2>2 DEF InHeightChan
<1>9. Received + 1 < count
  <2>1. pushed \in Nat /\ Len(batch) \in Nat /\ pushed <= Len(batch)
    BY LenProperties DEF FlowInv, TypeOK
  <2>2. next = Received + InBlockChan - pushed + Len(batch) + InHeightChan + 1
    BY DEF FlowInv, RunInv, BeforeBatch
  <2>3. next <= count /\ count \in Nat
    BY DEF FlowInv, FeedInv, TypeOK
  <2> QED
    BY <1>1, <1>7, <1>8, <2>1, <2>2, <2>3
<1> QED
  BY <1>1, <1>2, <1>4, <1>6, <1>9 DEF Feed!Deliver, HandleBlock, mainVars

LEMMA ExitFeeds == ASSUME FlowInv, FlowInv', HandleExit PROVE Feed!Exit
<1>1. LastGot' = LastGot
  BY SameGot DEF HandleExit
<1>2. ExitDrains'
  BY LastOf, FlowDrains, EmptySeq, LenProperties, PTL
<1>3. LastGot = next - 1
  BY <1>1, <1>2 DEF ExitDrains, HandleExit, mainVars
<1>4. Told
  <2>1. collectPc = "exited"
    BY DEF FlowInv, TokenInv, HandleExit, collectVars
  <2> QED
    BY <2>1 DEF FlowInv, TokenInv
<1>5. /\ phase = "fast" => isDone \/ next = count
      /\ phase = "low" => isDone /\ next = count
  BY <1>4 DEF Told, FlowInv, FeedInv
<1>6. next \in Nat /\ phase \in {"fast", "low"}
  BY DEF FlowInv, TypeOK
<1> QED
  BY <1>1, <1>3, <1>5, <1>6 DEF Feed!Exit, HandleExit, mainVars

\* The low phase takes up where the fast one has fed the handler to.
LEMMA ResumeFeeds == ASSUME FlowInv, StartLow PROVE Feed!Resume
<1>1. handlerPc = "exited"
  BY DEF StartLow, Joined, FlowInv, TokenInv, TypeOK
<1>2. LastGot = next - 1 /\ LastGot' = LastGot
  BY <1>1, FlowDrains, SameGot DEF ExitDrains, StartLow
<1>3. next = count
  BY DEF FlowInv, FeedInv, StartLow, Joined
<1> QED
  BY <1>1, <1>2, <1>3 DEF Feed!Resume, StartLow

\* Every behaviour of the goroutines is one of the feed that module UtxoIndex takes
\* for granted.
THEOREM PipelineImplementsFeed == Spec => ImplementsFeed
<1> USE DEF Feed!feedVars
<1>1. Init => Feed!FeedInit
  BY DEF Init, Feed!FeedInit, LastGot
<1>2. FlowInv /\ FlowInv' /\ [Next]_vars => [Feed!FeedNext]_(Feed!feedVars)
  <2> SUFFICES ASSUME FlowInv, FlowInv', [Next]_vars
               PROVE  Feed!FeedNext \/ UNCHANGED Feed!feedVars
    OBVIOUS
  <2>1. CASE Collect \/ FastCheck \/ SendHeight \/ SendToken \/ Close
    BY <2>1, SameGot DEF Collect, ReadHeight, FetchDone, PushBlock, PushDone, PushToken,
                         FetchBlock, FastCheck, SendHeight, SendToken, Close, mainVars,
                         handlerVars
  <2>2. CASE HandleBlock
    BY <2>2, DeliverFeeds DEF Feed!FeedNext
  <2>3. CASE UNCHANGED vars
    BY <2>3, SameGot DEF vars, mainVars, handlerVars
  <2>4. CASE HandleExit
    BY <2>4, ExitFeeds DEF Feed!FeedNext
  <2>5. CASE StartLow
    BY <2>5, ResumeFeeds DEF Feed!FeedNext
  <2>6. CASE LowPoll
    BY <2>6, SameGot DEF Feed!FeedNext, Feed!Grow, LowPoll, handlerVars
  <2>7. CASE Signal
    BY <2>7, SameGot DEF Feed!FeedNext, Feed!Stop, Signal, mainVars, handlerVars
  <2> QED
    BY <2>1, <2>2, <2>3, <2>4, <2>5, <2>6, <2>7 DEF Next, Main, Handle
<1> QED
  BY <1>1, <1>2, FlowCorrect, PTL DEF Spec, ImplementsFeed, Feed!FeedSpec
=============================================================================
