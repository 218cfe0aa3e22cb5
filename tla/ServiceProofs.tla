---------------------------- MODULE ServiceProofs ----------------------------
(***************************************************************************)
(* Proofs about service/sim_api.py.                                        *)
(*                                                                         *)
(* The creation of transactions (CreateTransaction), for any wallet, any   *)
(* request and any configuration of the four chains:                       *)
(*   InputsAreSound    CreateSpec => []InputsSound                         *)
(*   PaymentsAreRight  CreateSpec => []PaymentRight                        *)
(*   RefusalsHaveCause CreateSpec => []RefusedForCause                     *)
(*                                                                         *)
(* The history (HistoryApi), for any transfers, heights and windows:       *)
(*   HistoryCorrect    HistorySpec => []HistoryInv, the inductive invariant*)
(*   NothingPassed     HistorySpec => []PassesNothing                      *)
(*                                                                         *)
(* What the workers keep for one another (ServiceCaches), for any number   *)
(* of workers, transactions, addresses and lists:                          *)
(*   AnswersAreTrue    ServiceSpec => []AnswersTrue                        *)
(*   AnswersGivenAgain ServiceSpec => NoResubmission                       *)
(*   BookRegistered    ServiceSpec => []Registered                         *)
(***************************************************************************)
EXTENDS HistoryApi, CreateTransaction, ServiceCaches, DataLemmas

-----------------------------------------------------------------------------
(* CreateTransaction.  What is asked and what is chosen, of btc, hc, btm.  *)

\* What these proofs ask of the configuration of a chain.
Chooses(c) ==
    /\ c.coin \subseteq Nat \ {0} /\ c.amount \subseteq Nat \ {0}
    /\ c.maxCoins \in Nat /\ c.fee \in Nat /\ c.perFee \in Nat /\ c.vinSize \in Nat
    /\ c.voutSize \in Nat /\ c.dust \in Nat /\ c.unit \in Nat \ {0}
    /\ c.many \in Nat /\ c.atLeast \in 1..c.many

\* The configurations of btc, hc and btm are such.
LEMMA ConfigsChoose == Chooses(Btc) /\ Chooses(Hc) /\ Chooses(Config["btm"])
<1>1. ASSUME NEW x \in Chains \ {"usdt"} PROVE Chooses(Config[x])
  <2>1. /\ Config[x].coin \subseteq Nat \ {0} /\ Config[x].amount \subseteq Nat \ {0}
        /\ {Config[x].maxCoins, Config[x].fee, Config[x].perFee, Config[x].vinSize,
            Config[x].voutSize, Config[x].dust} \subseteq Nat
        /\ Config[x].unit \in Nat \ {0}
    BY ConfigAssumption
  <2>2. Config[x].many \in Nat /\ Config[x].atLeast \in 1..Config[x].many
    BY ConfigAssumption
  <2> QED
    BY <2>1, <2>2 DEF Chooses
<1> QED
  BY <1>1 DEF Btc, Hc, Chains

\* The outputs taken, what outputs are worth, and what is to be paid.
Inputs == {used[k] : k \in DOMAIN used}

Worth(I) == SumOf(txout, I)

Needed(c) == SumOf(dest, DOMAIN dest) + c.fee

\* The sums of the utilities.
LEMMA SelectSums ==
    ASSUME NEW CONSTANT c
    PROVE  /\ \A f : Select(c)!Total(f) = SumOf(f, DOMAIN f)
           /\ Select(c)!Sum = SumAt(txout, used, DOMAIN used)
           /\ Select(c)!AllNeeded = Needed(c)
           /\ Select(c)!Paid = Worth(Inputs) - SumOf(vouts, DOMAIN vouts)
           /\ Select(c)!Inputs = Inputs
<1>1. \A f : Select(c)!Total(f) = SumOf(f, DOMAIN f)
  BY DEF Select!Total, SumOf, MapThenSumSet, MapThenFoldSet, Select!MapThenSumSet,
     Select!MapThenFoldSet
<1>2. Select(c)!Sum = SumAt(txout, used, DOMAIN used)
  BY DEF Select!Sum, SumAt, MapThenSumSet, MapThenFoldSet, Select!MapThenSumSet,
     Select!MapThenFoldSet
<1>3. Select(c)!Inputs = Inputs
  BY DEF Select!Inputs, Inputs
<1>4. Select(c)!AllNeeded = Needed(c)
  BY <1>1 DEF Select!AllNeeded, Needed
<1>5. Select(c)!MapThenSumSet(LAMBDA k : txout[k], Inputs) = Worth(Inputs)
  BY DEF Worth, SumOf, MapThenSumSet, MapThenFoldSet, Select!MapThenSumSet,
     Select!MapThenFoldSet
<1>6. Select(c)!Paid = Worth(Inputs) - SumOf(vouts, DOMAIN vouts)
  BY <1>1, <1>3, <1>5 DEF Select!Paid
<1> QED
  BY <1>1, <1>2, <1>3, <1>4, <1>6

\* A sequence of different indices.
LEMMA DifferentIndices ==
    ASSUME NEW N \in Nat, NEW u \in Seq(1..N), \A j, k \in DOMAIN u : u[j] = u[k] => j = k
    PROVE  LET Im == {u[k] : k \in DOMAIN u} IN
           /\ Im \subseteq 1..N /\ IsFiniteSet(Im) /\ Cardinality(Im) = Len(u)
           /\ Len(u) <= N /\ IsFiniteSet(DOMAIN u)
<1> DEFINE Im == {u[k] : k \in DOMAIN u}
           n == Len(u)
<1>1. n \in Nat /\ DOMAIN u = 1..n /\ u \in [1..n -> 1..N]
  OBVIOUS
<1>2. u \in [1..n -> Im] /\ Im \subseteq 1..N
  BY <1>1
<1>3. u \in Injection(1..n, Im) /\ u \in Surjection(1..n, Im)
  BY <1>1, <1>2 DEF Injection, Surjection, IsInjective
<1>4. IsFiniteSet(1..n) /\ Cardinality(1..n) = n /\ IsFiniteSet(1..N) /\ Cardinality(1..N) = N
  <2>1. ASSUME NEW m \in Nat PROVE IsFiniteSet(1..m) /\ Cardinality(1..m) = m
    <3>1. IsFiniteSet(1..m) /\ Cardinality(1..m) = IF 1 > m THEN 0 ELSE m - 1 + 1
      BY FS_Interval
    <3> QED
      BY <3>1
  <2> HIDE DEF n
  <2> QED
    BY <1>1, <2>1
<1>5. IsFiniteSet(Im) /\ Cardinality(Im) <= N
  BY <1>2, <1>4, FS_Subset
<1> HIDE DEF Im, n
<1>6. Cardinality(Im) = n
  BY <1>3, <1>4, FS_Surjection
<1> QED
  BY <1>1, <1>2, <1>4, <1>5, <1>6 DEF Im, n

\* The request.
Asking(c) ==
    /\ txout \in Seq(c.coin) /\ Len(txout) <= c.maxCoins
    /\ dest \in Select(c)!Dests /\ isFast \in BOOLEAN /\ fullSend \in BOOLEAN

\* The outputs that are taken, each once.
Taking ==
    /\ used \in Seq(DOMAIN txout)
    /\ \A j, k \in DOMAIN used : used[j] = used[k] => j = k

\* A wallet has finitely many outputs, each worth something, and a request has receivers.
LEMMA AskingFacts ==
    ASSUME NEW CONSTANT c, Chooses(c), Asking(c)
    PROVE  /\ Len(txout) \in Nat /\ DOMAIN txout = 1..Len(txout) /\ IsFiniteSet(DOMAIN txout)
           /\ \A k \in DOMAIN txout : txout[k] \in Nat /\ txout[k] > 0
           /\ DOMAIN dest \subseteq Payee \cup {From} /\ DOMAIN dest # {}
           /\ IsFiniteSet(DOMAIN dest) /\ \A a \in DOMAIN dest : dest[a] \in Nat /\ dest[a] > 0
           /\ SumOf(dest, DOMAIN dest) \in Nat /\ Needed(c) \in Nat
<1>1. txout \in Seq(Nat \ {0})
  BY DEF Asking, Chooses
<1>2. Len(txout) \in Nat /\ DOMAIN txout = 1..Len(txout)
      /\ \A k \in DOMAIN txout : txout[k] \in Nat /\ txout[k] > 0
  BY <1>1
<1>3. IsFiniteSet(DOMAIN txout)
  BY <1>2, FS_Interval
<1>4. PICK S \in (SUBSET (Payee \cup {From})) \ {{}} : dest \in [S -> c.amount]
  BY DEF Asking, Select!Dests
<1>5. IsFiniteSet(Payee \cup {From})
  BY ConfigAssumption, FS_AddElement
<1>6. DOMAIN dest = S /\ IsFiniteSet(S) /\ S \subseteq Payee \cup {From} /\ S # {}
  BY <1>4, <1>5, FS_Subset
<1>7. \A a \in S : dest[a] \in Nat /\ dest[a] > 0
  BY <1>4 DEF Chooses
<1>8. SumOf(dest, S) \in Nat
  BY <1>6, <1>7, SumOfGrows
<1> QED
  BY <1>2, <1>3, <1>6, <1>7, <1>8 DEF Needed, Chooses

\* More outputs are not worth less.
LEMMA WorthFacts ==
    ASSUME NEW CONSTANT c, Chooses(c), Asking(c), NEW J \in SUBSET DOMAIN txout
    PROVE  Worth(J) \in Nat /\ \A I \in SUBSET J : Worth(I) \in Nat /\ Worth(I) <= Worth(J)
<1>1. IsFiniteSet(J) /\ \A k \in J : txout[k] \in Nat
  BY AskingFacts, FS_Subset
<1> QED
  BY <1>1, SumOfGrows DEF Worth

\* As no output is taken twice, what is counted is what the outputs taken are worth.
LEMMA TakingFacts ==
    ASSUME NEW CONSTANT c, Chooses(c), Asking(c), Taking
    PROVE  /\ Inputs \subseteq DOMAIN txout /\ Cardinality(Inputs) = Len(used)
           /\ Len(used) \in Nat /\ DOMAIN used = 1..Len(used) /\ Len(used) <= Len(txout)
           /\ Select(c)!Sum = Worth(Inputs) /\ Worth(Inputs) \in Nat
<1>1. Len(txout) \in Nat /\ used \in Seq(1..Len(txout)) /\ DOMAIN txout = 1..Len(txout)
      /\ \A k \in DOMAIN txout : txout[k] \in Nat
  BY AskingFacts DEF Taking
<1>2. /\ Inputs \subseteq DOMAIN txout /\ Cardinality(Inputs) = Len(used)
      /\ Len(used) <= Len(txout) /\ IsFiniteSet(DOMAIN used)
  BY <1>1, DifferentIndices DEF Taking, Inputs
<1>3. SumAt(txout, used, DOMAIN used) = SumOf(txout, {used[k] : k \in DOMAIN used})
  <2>1. \A k \in DOMAIN used : txout[used[k]] \in Int
    BY <1>1
  <2> QED
    BY <1>2, <2>1, SumOfImage DEF Taking
<1>4. Worth(Inputs) \in Nat
  BY <1>2, WorthFacts
<1> QED
  BY <1>1, <1>2, <1>3, <1>4, SelectSums DEF Worth, Inputs

-----------------------------------------------------------------------------
(* The choice.                                                             *)

\* The largest outputs, and no more of them than are needed.
Greedy(c) ==
    /\ \A k \in DOMAIN used : used[k] = k
    /\ used # <<>> => Worth(1..(Len(used) - 1)) < Needed(c)

\* The values of stage.
Steps == {"large", "greedy", "pad", "pay", "done", "refused"}

\* How far the choice is at each step.
Choosing(c) ==
    /\ stage \in Steps
    /\ stage = "large" => used = <<>>
    /\ stage = "greedy" => Greedy(c)
    /\ stage = "pad" =>
         \/ Greedy(c) /\ (Worth(Inputs) >= Needed(c) \/ Len(used) = Len(txout))
         \/ \E k \in DOMAIN txout : used = <<k>> /\ txout[k] >= Needed(c)
         \/ /\ used = <<>> /\ Len(txout) > c.many
            /\ \A k \in DOMAIN txout : txout[k] >= Needed(c)
    /\ stage = "pay" =>
         /\ Worth(Inputs) >= Needed(c) \/ Worth(DOMAIN txout) < Needed(c)
         /\ Len(used) > c.atLeast => Greedy(c)

\* The inductive invariant of the choice.
SelectInv(c) ==
    /\ Asking(c) /\ Taking /\ Choosing(c)
    /\ DOMAIN vouts \subseteq Payee \cup {From}

\* Only what is taken changes.
SameRequest == UNCHANGED <<request, vouts>>

\* A step that leaves the request alone changes none of its sums.
LEMMA SameNumbers ==
    ASSUME NEW CONSTANT c, SameRequest
    PROVE  /\ Asking(c)' = Asking(c) /\ Needed(c)' = Needed(c)
           /\ \A I : Worth(I)' = Worth(I)
           /\ txout' = txout /\ vouts' = vouts
BY DEF SameRequest, request, Asking, Needed, Worth, Select!Dests

\* TakeOne: the smallest output that would pay for all, of a large wallet that has one,
\* nothing if all of them would; an empty wallet is refused.
LEMMA TakeOneChooses ==
    ASSUME NEW CONSTANT c, Chooses(c), SelectInv(c), Select(c)!TakeOne
    PROVE  SelectInv(c)' /\ (stage' = "refused" => txout = <<>>)
<1>1. SameRequest /\ stage = "large" /\ used = <<>>
  BY DEF Select!TakeOne, SelectInv, Choosing, SameRequest, request, Select!request
<1>2. Select(c)!Enough = {k \in DOMAIN txout : txout[k] >= Needed(c)}
  BY SelectSums DEF Select!Enough
<1> DEFINE E == {k \in DOMAIN txout : txout[k] >= Needed(c)}
<1>3. \/ txout = <<>> /\ stage' = "refused" /\ used' = used
      \/ Len(txout) > c.many /\ E # {} /\ stage' = "pad"
         /\ used' = IF E = DOMAIN txout THEN <<>> ELSE <<Select(c)!Max(E)>>
      \/ stage' = "greedy" /\ used' = used
  BY <1>2 DEF Select!TakeOne
<1>4. E # {} => Select(c)!Max(E) \in E
  <2>1. Select(c)!Max(E) = Max(E)
    BY DEF Select!Max, Max
  <2>2. Len(txout) \in Nat /\ E \in SUBSET (0..Len(txout))
    BY AskingFacts DEF SelectInv
  <2> HIDE DEF E
  <2> QED
    BY <2>1, <2>2, Largest
<1>5. Asking(c)' /\ (DOMAIN vouts \subseteq Payee \cup {From})'
  BY <1>1, SameNumbers DEF SelectInv
<1>6. txout' = txout /\ Needed(c)' = Needed(c)
  BY <1>1, SameNumbers
<1>7. CASE used' = <<>>
  <2>1. Taking'
    BY <1>6, <1>7 DEF Taking
  <2>2. Greedy(c)'
    BY <1>7 DEF Greedy
  <2>3. stage' = "pad" => Len(txout) > c.many /\ E = DOMAIN txout
    BY <1>3, <1>7
  <2>4. Choosing(c)'
    BY <1>3, <1>6, <1>7, <2>2, <2>3 DEF Choosing, Steps
  <2> QED
    BY <1>3, <1>5, <2>1, <2>4 DEF SelectInv
<1>8. CASE used' # <<>>
  <2>1. PICK k \in E : used' = <<k>> /\ stage' = "pad"
    BY <1>1, <1>3, <1>4, <1>8
  <2>2. k \in DOMAIN txout /\ txout[k] >= Needed(c)
    BY <2>1
  <2>3. Taking'
    BY <1>6, <2>1, <2>2 DEF Taking
  <2>4. Choosing(c)'
    BY <1>6, <2>1, <2>2 DEF Choosing, Steps
  <2> QED
    BY <1>5, <2>1, <2>3, <2>4 DEF SelectInv
<1> QED
  BY <1>7, <1>8

\* TakeLargest: outputs in the order of their size, the next only while those before are not enough.
LEMMA TakeLargestChooses ==
    ASSUME NEW CONSTANT c, Chooses(c), SelectInv(c), Select(c)!TakeLargest
    PROVE  SelectInv(c)' /\ stage' \in {"greedy", "pad"}
<1>1. SameRequest /\ stage = "greedy" /\ Greedy(c)
  BY DEF Select!TakeLargest, SelectInv, Choosing, SameRequest, request, Select!request
<1> DEFINE n == Len(used)
<1>2. /\ Inputs \subseteq DOMAIN txout /\ n \in Nat /\ DOMAIN used = 1..n /\ n <= Len(txout)
      /\ Select(c)!Sum = Worth(Inputs) /\ Worth(Inputs) \in Nat
  BY TakingFacts DEF SelectInv
<1>3. Len(txout) \in Nat /\ DOMAIN txout = 1..Len(txout) /\ Needed(c) \in Nat
  BY AskingFacts DEF SelectInv
<1>4. \/ stage' = "pad" /\ used' = used /\ (Worth(Inputs) >= Needed(c) \/ n = Len(txout))
      \/ /\ stage' = "greedy" /\ used' = Append(used, n + 1)
         /\ ~(Worth(Inputs) >= Needed(c)) /\ n # Len(txout)
  BY <1>1, <1>2, SelectSums DEF Select!TakeLargest, Select!Covered
<1>5. Inputs = 1..n /\ \A k \in 1..n : used[k] = k
  BY <1>1, <1>2 DEF Inputs, Greedy
<1>6. Asking(c)' /\ (DOMAIN vouts \subseteq Payee \cup {From})'
  BY <1>1, SameNumbers DEF SelectInv
<1>7. txout' = txout /\ Needed(c)' = Needed(c) /\ \A I : Worth(I)' = Worth(I)
  BY <1>1, SameNumbers
<1>8. CASE stage' = "pad"
  <2>2. stage' = "pad" /\ used' = used /\ (Worth(Inputs) >= Needed(c) \/ n = Len(txout))
    BY <1>4, <1>8
  <2>3. Taking' /\ Inputs' = Inputs
    BY <1>7, <2>2 DEF SelectInv, Taking, Inputs
  <2>4. Greedy(c)'
    BY <1>1, <1>7, <2>2 DEF Greedy
  <2>5. Worth(Inputs)' = Worth(Inputs)
    BY <1>7, <2>3 DEF Worth
  <2>6. Choosing(c)'
    BY <1>7, <2>2, <2>4, <2>5 DEF Choosing, Steps
  <2> QED
    BY <1>6, <2>2, <2>3, <2>6 DEF SelectInv
<1>9. CASE stage' = "greedy"
  <2>1. stage' = "greedy" /\ used' = Append(used, n + 1) /\ ~(Worth(Inputs) >= Needed(c))
        /\ n < Len(txout)
    <3>1. n # Len(txout) => n < Len(txout)
      <4>1. \A a, b \in Nat : a <= b /\ a # b => a < b
        OBVIOUS
      <4> HIDE DEF n
      <4> QED
        BY <1>2, <1>3, <4>1
    <3> QED
      BY <1>4, <1>9, <3>1
  <2>2. used' \in Seq(DOMAIN txout) /\ Len(used') = n + 1 /\ \A k \in 1..(n + 1) : used'[k] = k
    BY <1>2, <1>3, <1>5, <2>1 DEF SelectInv, Taking
  <2>3. DOMAIN used' = 1..(n + 1)
    BY <1>2, <2>2
  <2>4. Taking'
    BY <1>7, <2>2, <2>3 DEF Taking
  <2>5. Worth(1..n) < Needed(c) /\ (n + 1) - 1 = n
    BY <1>2, <1>3, <1>5, <2>1
  <2>6. Greedy(c)'
    BY <1>7, <2>2, <2>3, <2>5 DEF Greedy
  <2>7. Choosing(c)'
    BY <2>1, <2>6 DEF Choosing, Steps
  <2> QED
    BY <1>6, <2>1, <2>4, <2>7 DEF SelectInv
<1> QED
  BY <1>4, <1>8, <1>9

\* The k-th largest of some numbers, for every k.
LEMMA Ranks ==
    ASSUME NEW N \in Nat, NEW S \in SUBSET (1..N)
    PROVE  /\ IsFiniteSet(S) /\ Cardinality(S) \in Nat
           /\ \A k \in 1..Cardinality(S) : \E j \in S : Cardinality({h \in S : h >= j}) = k
<1> DEFINE From1(j) == {h \in S : h >= j}
           n == Cardinality(S)
           rank == [j \in S |-> Cardinality(From1(j))]
<1>1. IsFiniteSet(S) /\ n \in Nat
  <2>1. IsFiniteSet(1..N)
    BY FS_Interval
  <2> QED
    BY <2>1, FS_Subset, FS_CardinalityType
<1>2. ASSUME NEW j \in S
      PROVE  /\ From1(j) \subseteq S /\ IsFiniteSet(From1(j)) /\ j \in From1(j)
             /\ Cardinality(From1(j)) \in 1..n
  <2>1. From1(j) \subseteq S /\ j \in From1(j)
    OBVIOUS
  <2> HIDE DEF From1
  <2>2. IsFiniteSet(From1(j)) /\ Cardinality(From1(j)) <= n
    BY <1>1, <2>1, FS_Subset
  <2>3. Cardinality(From1(j)) \in Nat /\ Cardinality(From1(j)) # 0
    BY <2>1, <2>2, FS_CardinalityType, FS_EmptySet
  <2> HIDE DEF n
  <2> QED
    BY <1>1, <2>1, <2>2, <2>3
<1>3. ASSUME NEW q \in S, NEW j \in S, Cardinality(From1(q)) = Cardinality(From1(j))
      PROVE  q = j
  <2>1. ASSUME NEW x \in S, NEW y \in S, x < y,
               Cardinality(From1(x)) = Cardinality(From1(y))
        PROVE  FALSE
    <3>1. From1(y) \subseteq From1(x) /\ x \notin From1(y)
      <4>1. ASSUME NEW h \in S, h >= y PROVE h >= x
        BY <2>1, <4>1
      <4>2. ~(x >= y)
        BY <2>1
      <4> QED
        BY <4>1, <4>2
    <3>2. IsFiniteSet(From1(x)) /\ x \in From1(x)
      BY <1>2
    <3> HIDE DEF From1
    <3>3. From1(y) = From1(x)
      BY <2>1, <3>1, <3>2, FS_Subset
    <3> QED
      BY <3>1, <3>2, <3>3
  <2>2. q < j \/ j < q \/ q = j
    OBVIOUS
  <2> HIDE DEF From1
  <2> QED
    BY <1>3, <2>1, <2>2
<1> HIDE DEF From1, n
<1>4. rank \in [S -> 1..n]
  BY <1>2
<1>5. rank \in Injection(S, 1..n)
  BY <1>3, <1>4 DEF Injection, IsInjective
<1>6. IsFiniteSet(1..n) /\ Cardinality(1..n) = n
  <2>1. IsFiniteSet(1..n) /\ Cardinality(1..n) = IF 1 > n THEN 0 ELSE n - 1 + 1
    BY <1>1, FS_Interval
  <2> QED
    BY <1>1, <2>1
<1> HIDE DEF rank
<1>7. rank \in Surjection(S, 1..n)
  BY <1>5, <1>6, FS_Injection DEF n
<1>8. \A k \in 1..n : \E j \in S : rank[j] = k
  BY <1>7 DEF Surjection
<1> QED
  BY <1>1, <1>8 DEF rank, n, From1

\* The cardinality the utilities use is the one of the library.
LEMMA SameCardinality ==
    ASSUME NEW CONSTANT c, NEW S
    PROVE  Select(c)!Cardinality(S) = Cardinality(S)
BY DEF Select!Cardinality, Cardinality, Select!IsFiniteSet, IsFiniteSet

\* What is added is not in use yet.
LEMMA FillersRight ==
    ASSUME NEW CONSTANT c, Chooses(c), Asking(c), Taking, Len(txout) > c.many,
           Len(used) < c.atLeast
    PROVE  LET F == Select(c)!Fillers IN
           /\ F \in Seq(DOMAIN txout) /\ Len(F) <= c.atLeast - Len(used)
           /\ \A q \in DOMAIN F : ~\E j \in DOMAIN used : used[j] = F[q]
           /\ \A q, j \in DOMAIN F : F[q] = F[j] => q = j
           /\ used = <<>> => F # <<>>
<1> DEFINE N == Len(txout)
           m == Len(txout) + Len(used) - c.atLeast + 1
           S == {j \in m..N : ~\E k \in DOMAIN used : used[k] = j}
           n == Cardinality(S)
           F == [k \in 1..n |-> CHOOSE j \in S : Cardinality({h \in S : h >= j}) = k]
<1>1. N \in Nat /\ DOMAIN txout = 1..N /\ Len(used) \in Nat
  BY AskingFacts DEF Taking
<1>2. m \in 1..N /\ N - m + 1 = c.atLeast - Len(used)
  BY <1>1 DEF Chooses
<1>3. Select(c)!Fillers = F
  <2>1. Select(c)!Fillers = [k \in 1..Select(c)!Cardinality(S) |->
                               CHOOSE j \in S : Select(c)!Cardinality({h \in S : h >= j}) = k]
    BY DEF Select!Fillers, Select!InUse
  <2>2. /\ Select(c)!Cardinality(S) = Cardinality(S)
        /\ \A j : Select(c)!Cardinality({h \in S : h >= j}) = Cardinality({h \in S : h >= j})
    BY SameCardinality
  <2> HIDE DEF S
  <2> QED
    BY <2>1, <2>2
<1>4. S \subseteq 1..N /\ S \subseteq m..N
  BY <1>1, <1>2
<1>5. used = <<>> => S # {}
  <2>1. used = <<>> => N \in S
    BY <1>1, <1>2
  <2> QED
    BY <2>1
<1>6. \A j \in S : ~\E k \in DOMAIN used : used[k] = j
  OBVIOUS
<1> HIDE DEF N, m, S
<1>7. /\ IsFiniteSet(S) /\ n \in Nat
      /\ \A k \in 1..n : \E j \in S : Cardinality({h \in S : h >= j}) = k
  <2>1. S \in SUBSET (1..N)
    BY <1>4
  <2> QED
    BY <1>1, <2>1, Ranks
<1>8. n <= c.atLeast - Len(used)
  <2>1. IsFiniteSet(m..N) /\ Cardinality(m..N) = IF m > N THEN 0 ELSE N - m + 1
    BY <1>1, <1>2, FS_Interval
  <2>2. n <= Cardinality(m..N)
    BY <1>4, <2>1, FS_Subset
  <2> QED
    BY <1>1, <1>2, <2>1, <2>2
<1>9. n = 0 => S = {}
  BY <1>7, FS_EmptySet
<1> HIDE DEF n
<1>10. ASSUME NEW k \in 1..n PROVE F[k] \in S /\ Cardinality({h \in S : h >= F[k]}) = k
  BY <1>7
<1>11. DOMAIN F = 1..n
  OBVIOUS
<1> HIDE DEF F
<1>12. \A q, j \in 1..n : F[q] = F[j] => q = j
  BY <1>10
<1>13. F \in [1..n -> 1..N]
  <2>1. \A k \in 1..n : (CHOOSE j \in S : Cardinality({h \in S : h >= j}) = k) \in 1..N
    BY <1>4, <1>7
  <2> QED
    BY <2>1 DEF F
<1>14. F \in Seq(1..N) /\ Len(F) = n
  <2>1. ASSUME NEW k \in Nat, NEW T, NEW f \in [1..k -> T] PROVE f \in Seq(T) /\ Len(f) = k
    OBVIOUS
  <2> QED
    BY <1>7, <1>13, <2>1
<1>15. used = <<>> => F # <<>>
  BY <1>5, <1>7, <1>9, <1>14
<1>16. \A q \in 1..n : ~\E k \in DOMAIN used : used[k] = F[q]
  BY <1>6, <1>10
<1> QED
  BY <1>1, <1>3, <1>8, <1>11, <1>12, <1>14, <1>15, <1>16 DEF N

\* Pad: fillers are added to what is taken, never one of it, and only in a large wallet.
LEMMA PadChooses ==
    ASSUME NEW CONSTANT c, Chooses(c), SelectInv(c), Select(c)!Pad
    PROVE  SelectInv(c)' /\ stage' = "pay"
<1>1. SameRequest /\ stage = "pad" /\ stage' = "pay"
  BY DEF Select!Pad, SameRequest, request, Select!request
<1>2. Asking(c)' /\ (DOMAIN vouts \subseteq Payee \cup {From})'
  BY <1>1, SameNumbers DEF SelectInv
<1>3. txout' = txout /\ Needed(c)' = Needed(c) /\ \A I : Worth(I)' = Worth(I)
  BY <1>1, SameNumbers
<1> DEFINE n == Len(used)
           N == Len(txout)
           pads == N > c.many /\ n < c.atLeast
           F == Select(c)!Fillers
<1>4. /\ Inputs \subseteq DOMAIN txout /\ n \in Nat /\ DOMAIN used = 1..n /\ n <= N
      /\ Worth(Inputs) \in Nat /\ N \in Nat /\ DOMAIN txout = 1..N /\ Needed(c) \in Nat
  BY TakingFacts, AskingFacts DEF SelectInv
<1>5. c.many \in Nat /\ c.atLeast \in Nat /\ 1 <= c.atLeast /\ c.atLeast <= c.many
  BY DEF Chooses
<1>6. Worth(DOMAIN txout) \in Nat
  BY WorthFacts DEF SelectInv
<1>7. ASSUME NEW k \in DOMAIN txout PROVE txout[k] \in Nat /\ Worth({k}) = txout[k]
  <2>1. txout[k] \in Nat
    BY AskingFacts DEF SelectInv
  <2> QED
    BY <2>1, SumOfOne DEF Worth
<1>8. CASE ~pads
  <2>1. used' = used
    BY <1>8 DEF Select!Pad
  <2>2. Taking' /\ Inputs' = Inputs
    BY <1>3, <2>1 DEF SelectInv, Taking, Inputs
  <2>3. Worth(Inputs)' = Worth(Inputs) /\ Worth(DOMAIN txout)' = Worth(DOMAIN txout)
    BY <1>3, <2>2 DEF Worth
  <2>4. Greedy(c)' = Greedy(c)
    BY <1>3, <2>1 DEF Greedy
  <2>5. CASE Greedy(c) /\ Worth(Inputs) >= Needed(c)
    BY <1>1, <1>2, <1>3, <2>2, <2>3, <2>4, <2>5 DEF SelectInv, Choosing, Steps
  <2>6. CASE Greedy(c) /\ n = N
    <3>1. Inputs = 1..N
      BY <1>4, <2>6 DEF Greedy, Inputs
    <3>2. Worth(Inputs) >= Needed(c) \/ Worth(DOMAIN txout) < Needed(c)
      BY <1>4, <1>6, <3>1
    <3> QED
      BY <1>1, <1>2, <1>3, <2>2, <2>3, <2>4, <2>6, <3>2 DEF SelectInv, Choosing, Steps
  <2>7. ASSUME NEW k \in DOMAIN txout, used = <<k>>, txout[k] >= Needed(c)
        PROVE  SelectInv(c)'
    <3>1. Inputs = {k} /\ n = 1
      BY <2>7 DEF Inputs
    <3>2. Worth(Inputs) >= Needed(c)
      BY <1>7, <2>7, <3>1
    <3>3. ~(Len(used') > c.atLeast)
      BY <1>5, <2>1, <3>1
    <3> QED
      BY <1>1, <1>2, <1>3, <2>2, <2>3, <3>2, <3>3 DEF SelectInv, Choosing, Steps
  <2>8. ~(used = <<>> /\ N > c.many)
    BY <1>5, <1>8
  <2> QED
    BY <1>1, <2>5, <2>6, <2>7, <2>8 DEF SelectInv, Choosing
<1>9. CASE pads
  <2>1. used' = used \o F
    BY <1>9 DEF Select!Pad
  <2>2. /\ F \in Seq(DOMAIN txout) /\ Len(F) <= c.atLeast - n
        /\ \A q \in DOMAIN F : ~\E j \in DOMAIN used : used[j] = F[q]
        /\ \A q, j \in DOMAIN F : F[q] = F[j] => q = j
        /\ used = <<>> => F # <<>>
    BY <1>9, FillersRight DEF SelectInv
  <2> HIDE DEF F
  <2> DEFINE f == Len(F)
  <2>3. /\ f \in Nat /\ DOMAIN F = 1..f /\ used' \in Seq(DOMAIN txout) /\ Len(used') = n + f
        /\ \A q \in 1..n : used'[q] = used[q]
        /\ \A q \in 1..f : used'[n + q] = F[q]
    BY <1>4, <2>1, <2>2 DEF SelectInv, Taking
  <2>4. DOMAIN used' = 1..(n + f)
    BY <1>4, <2>3
  <2>5. \A q \in 1..(n + f) : q \in 1..n \/ \E j \in 1..f : q = n + j
    <3> HIDE DEF n, f
    <3> SUFFICES ASSUME NEW q \in 1..(n + f), q \notin 1..n PROVE q - n \in 1..f /\ q = n + (q - n)
      OBVIOUS
    <3> QED
      BY <1>4, <2>3
  <2>6. \A q, j \in 1..n : used[q] = used[j] => q = j
    BY <1>4 DEF SelectInv, Taking
  <2>7. Taking'
    <3>1. ASSUME NEW q \in 1..(n + f), NEW j \in 1..(n + f), used'[q] = used'[j]
          PROVE  q = j
      <4> HIDE DEF n, f
      <4>1. CASE q \in 1..n /\ j \in 1..n
        BY <2>3, <2>6, <3>1, <4>1
      <4>2. CASE q \in 1..n /\ j \notin 1..n
        <5>1. PICK k \in 1..f : j = n + k
          BY <2>5, <4>2
        <5>2. used[q] = F[k]
          BY <2>3, <3>1, <4>2, <5>1
        <5> QED
          BY <1>4, <2>2, <2>3, <4>2, <5>2
      <4>3. CASE q \notin 1..n /\ j \in 1..n
        <5>1. PICK k \in 1..f : q = n + k
          BY <2>5, <4>3
        <5>2. used[j] = F[k]
          BY <2>3, <3>1, <4>3, <5>1
        <5> QED
          BY <1>4, <2>2, <2>3, <4>3, <5>2
      <4>4. CASE q \notin 1..n /\ j \notin 1..n
        <5>1. PICK k \in 1..f : q = n + k
          BY <2>5, <4>4
        <5>2. PICK h \in 1..f : j = n + h
          BY <2>5, <4>4
        <5>3. F[k] = F[h]
          BY <2>3, <3>1, <5>1, <5>2
        <5> QED
          BY <2>2, <2>3, <5>1, <5>2, <5>3
      <4> QED
        BY <4>1, <4>2, <4>3, <4>4
    <3> QED
      BY <1>3, <2>3, <2>4, <3>1 DEF Taking
  <2>8. Inputs \subseteq Inputs' /\ Inputs' \subseteq DOMAIN txout
    <3>1. \A q \in 1..n : q \in 1..(n + f)
      BY <1>4, <2>3
    <3>2. \A q \in DOMAIN used : used[q] = used'[q] /\ q \in DOMAIN used'
      BY <1>4, <2>3, <2>4, <3>1
    <3> QED
      BY <2>3, <3>2 DEF Inputs
  <2>9. Worth(Inputs)' = Worth(Inputs') /\ Worth(Inputs') \in Nat
        /\ \A I \in SUBSET (Inputs') : Worth(I) \in Nat /\ Worth(I) <= Worth(Inputs')
    BY <1>3, <2>8, WorthFacts DEF SelectInv, Worth
  <2>10. Worth(Inputs') >= Needed(c) \/ Worth(DOMAIN txout) < Needed(c)
    <3>1. CASE Greedy(c) /\ Worth(Inputs) >= Needed(c)
      BY <1>4, <2>8, <2>9, <3>1
    <3>2. CASE Greedy(c) /\ n = N
      BY <1>4, <1>5, <1>9, <3>2
    <3>3. ASSUME NEW k \in DOMAIN txout, used = <<k>>, txout[k] >= Needed(c)
          PROVE  Worth(Inputs') >= Needed(c)
      <4>1. {k} \subseteq Inputs'
        BY <2>8, <3>3 DEF Inputs
      <4> QED
        <5>1. txout[k] \in Nat /\ Worth({k}) = txout[k]
          BY <1>7
        <5>2. Worth({k}) <= Worth(Inputs')
          BY <2>9, <4>1
        <5> QED
          BY <1>4, <2>9, <3>3, <5>1, <5>2
    <3>4. CASE used = <<>> /\ \A k \in DOMAIN txout : txout[k] >= Needed(c)
      <4>1. 1 \in 1..(n + f)
        BY <1>4, <2>2, <2>3, <3>4
      <4>2. used'[1] \in Inputs' /\ used'[1] \in DOMAIN txout
        BY <2>3, <2>4, <2>8, <4>1 DEF Inputs
      <4>3. PICK k \in DOMAIN txout : k \in Inputs' /\ txout[k] >= Needed(c)
        BY <3>4, <4>2
      <4>4. {k} \subseteq Inputs'
        BY <4>3
      <4> QED
        <5>1. txout[k] \in Nat /\ Worth({k}) = txout[k]
          BY <1>7
        <5>2. Worth({k}) <= Worth(Inputs')
          BY <2>9, <4>4
        <5> QED
          BY <1>4, <2>9, <4>3, <5>1, <5>2
    <3> QED
      BY <1>1, <3>1, <3>2, <3>3, <3>4 DEF SelectInv, Choosing
  <2>11. ~(Len(used') > c.atLeast)
    BY <1>4, <1>5, <2>2, <2>3
  <2>12. Choosing(c)'
    BY <1>1, <1>3, <2>9, <2>10, <2>11 DEF Choosing, Steps
  <2> QED
    BY <1>1, <1>2, <2>7, <2>12 DEF SelectInv
<1> QED
  BY <1>8, <1>9

-----------------------------------------------------------------------------
(* The payment.                                                            *)

\* The larger factor has the larger product.
LEMMA Monotone ==
    ASSUME NEW a \in Nat, NEW b \in Nat, NEW x \in Nat, a <= b
    PROVE  a * x <= b * x /\ a * x \in Nat /\ b * x \in Nat
<1>1. PICK d \in Nat : b = a + d
  <2>1. b - a \in Nat /\ b = a + (b - a)
    OBVIOUS
  <2> QED
    BY <2>1
<1>2. (a + d) * x = a * x + d * x /\ a * x \in Nat /\ d * x \in Nat
  OBVIOUS
<1>3. a * x <= a * x + d * x
  BY <1>2
<1> QED
  BY <1>1, <1>2, <1>3

\* A rounded up fee pays for the size.
LEMMA RoundedUpPays ==
    ASSUME NEW s \in Nat, NEW t \in Nat, s <= t, NEW u \in Nat \ {0}, NEW f \in Nat,
           NEW P \in Nat, P >= ((t + u - 1) \div u) * f
    PROVE  P * u >= s * f
<1> DEFINE q == (t + u - 1) \div u
           r == (t + u - 1) % u
<1>1. t + u - 1 \in Nat /\ q \in Nat /\ r \in 0..(u - 1) /\ t + u - 1 = u * q + r
  OBVIOUS
<1> HIDE DEF q, r
<1>2. u * q \in Nat /\ s <= u * q
  <2>1. u * q \in Nat
    BY <1>1
  <2>2. \A m \in Nat : t + u - 1 = m + r => s <= m
    BY <1>1
  <2> QED
    BY <1>1, <2>1, <2>2
<1>3. s * f <= (u * q) * f /\ s * f \in Nat
  BY <1>2, Monotone
<1>4. q * f \in Nat /\ (q * f) * u <= P * u /\ P * u \in Nat
  <2>1. q * f \in Nat
    BY <1>1
  <2>2. q * f <= P
    BY DEF q
  <2> QED
    BY <2>1, <2>2, Monotone
<1>5. (u * q) * f = (q * f) * u
  BY <1>1
<1> QED
  BY <1>3, <1>4, <1>5

\* The outputs with the change: all of it is paid out, or it is dust.
ChangeRight(c, d, f) ==
    LET v  == Select(c)!WithChange(d, f)
        ch == Select(c)!Change(f)
    IN  /\ DOMAIN v \in {DOMAIN d, DOMAIN d \cup {From}}
        /\ \A a \in DOMAIN d \ {From} : v[a] = d[a]
        /\ From \in DOMAIN d => v[From] = d[From] + ch
        /\ From \in DOMAIN v \ DOMAIN d => v[From] \in Int /\ v[From] > c.dust
        /\ \/ SumOf(v, DOMAIN v) = SumOf(d, DOMAIN d) + ch
           \/ SumOf(v, DOMAIN v) = SumOf(d, DOMAIN d) /\ ch <= c.dust

\* The utilities give the change back like this.
LEMMA ChangePaid ==
    ASSUME NEW CONSTANT c, NEW d, NEW f, IsFiniteSet(DOMAIN d), c.dust \in Nat,
           \A a \in DOMAIN d : d[a] \in Int, Select(c)!Change(f) \in Int
    PROVE  ChangeRight(c, d, f)
<1> DEFINE ch == Select(c)!Change(f)
           v == Select(c)!WithChange(d, f)
           S == DOMAIN d
<1>1. v = CASE ch = 0 -> d
            [] ch # 0 /\ From \in DOMAIN d -> [d EXCEPT ![From] = @ + ch]
            [] ch > c.dust /\ From \notin DOMAIN d ->
                 [a \in DOMAIN d \cup {From} |-> IF a = From THEN ch ELSE d[a]]
            [] OTHER -> d
  BY DEF Select!WithChange
<1> HIDE DEF v, ch
<1>2. SumOf(d, S) \in Int /\ ch \in Int
  BY SumOfType DEF ch
<1>3. CASE ch = 0
  <2>1. v = d
    BY <1>1, <1>3
  <2>2. \A a \in S : d[a] + 0 = d[a]
    OBVIOUS
  <2>3. SumOf(d, S) + 0 = SumOf(d, S)
    BY <1>2
  <2> HIDE DEF S
  <2> QED
    BY <1>2, <1>3, <2>1, <2>2, <2>3 DEF v, ch, S, ChangeRight
<1>4. CASE ch # 0 /\ From \in S
  <2>1. v = [d EXCEPT ![From] = @ + ch]
    BY <1>1, <1>2, <1>4
  <2>2. DOMAIN v = S /\ v[From] = d[From] + ch /\ \A a \in S \ {From} : v[a] = d[a]
    BY <1>4, <2>1
  <2> HIDE DEF S
  <2>3. SumOf(v, S) = SumOf(d, S) + ch
    BY <1>2, <1>4, <2>2, SumOfRaised DEF S
  <2> QED
    BY <1>2, <2>2, <2>3 DEF v, ch, S, ChangeRight
<1>5. CASE ch > c.dust /\ From \notin S
  <2>1. ch # 0
    BY <1>2, <1>5
  <2>2. v = [a \in S \cup {From} |-> IF a = From THEN ch ELSE d[a]]
    BY <1>1, <1>5, <2>1
  <2>3. DOMAIN v = S \cup {From} /\ v[From] = ch /\ \A a \in S : v[a] = d[a]
    BY <1>5, <2>2
  <2> HIDE DEF S
  <2>4. SumOf(v, S \cup {From}) = SumOf(d, S) + ch
    BY <1>2, <1>5, <2>3, SumOfExtended DEF S
  <2> QED
    BY <1>2, <1>5, <2>3, <2>4 DEF v, ch, S, ChangeRight
<1>6. CASE ch # 0 /\ From \notin S /\ ~(ch > c.dust)
  <2>1. v = d
    BY <1>1, <1>6
  <2>2. ch <= c.dust
    BY <1>2, <1>6
  <2> QED
    BY <1>2, <1>6, <2>1, <2>2 DEF v, ch, ChangeRight
<1> QED
  BY <1>3, <1>4, <1>5, <1>6

\* The numbers at a payment.
LEMMA PayNumbers ==
    ASSUME NEW CONSTANT c, Chooses(c), SelectInv(c)
    PROVE  /\ Worth(Inputs) \in Nat /\ Select(c)!Sum = Worth(Inputs)
           /\ SumOf(dest, DOMAIN dest) \in Nat /\ Needed(c) = SumOf(dest, DOMAIN dest) + c.fee
           /\ Needed(c) \in Nat
           /\ Select(c)!SizeFee \in Nat /\ c.fee \in Nat /\ c.dust \in Nat
           /\ Select(c)!CalFee = IF isFast THEN c.fee ELSE Select(c)!SizeFee
           /\ Select(c)!CalFee \in Nat
           /\ \A f : Select(c)!Change(f) = Worth(Inputs) - SumOf(dest, DOMAIN dest) - f
           /\ isFast \in BOOLEAN /\ fullSend \in BOOLEAN
<1>1. Worth(Inputs) \in Nat /\ Select(c)!Sum = Worth(Inputs) /\ Len(used) \in Nat
  BY TakingFacts DEF SelectInv
<1>2. /\ SumOf(dest, DOMAIN dest) \in Nat /\ Needed(c) \in Nat /\ IsFiniteSet(DOMAIN dest)
  BY AskingFacts DEF SelectInv
<1>3. Cardinality(DOMAIN dest) \in Nat
  BY <1>2, FS_CardinalityType
<1>4. /\ c.fee \in Nat /\ c.dust \in Nat /\ c.vinSize \in Nat /\ c.voutSize \in Nat
      /\ c.unit \in Nat \ {0} /\ c.perFee \in Nat
  BY DEF Chooses
<1>5. Select(c)!SizeFee \in Nat
  <2> DEFINE n == Len(used)
             m == Cardinality(DOMAIN dest) + 1
             size == n * c.vinSize + m * c.voutSize
  <2>1. Select(c)!SizeFee = ((size + c.unit - 1) \div c.unit) * c.perFee
    BY SameCardinality DEF Select!SizeFee
  <2>2. n \in Nat /\ m \in Nat
    BY <1>1, <1>3
  <2> HIDE DEF n, m
  <2>3. n * c.vinSize \in Nat /\ m * c.voutSize \in Nat
    BY <1>4, <2>2
  <2>4. size \in Nat
    BY <2>3
  <2> HIDE DEF size
  <2>5. (size + c.unit - 1) \in Nat
    BY <1>4, <2>4
  <2> DEFINE z == size + c.unit - 1
  <2>6. z \div c.unit \in Nat
    <3> HIDE DEF z
    <3> QED
      BY <1>4, <2>5 DEF z
  <2> HIDE DEF z
  <2>7. (z \div c.unit) * c.perFee \in Nat
    BY <1>4, <2>6
  <2> QED
    BY <2>1, <2>7 DEF z
<1>6. isFast \in BOOLEAN /\ fullSend \in BOOLEAN
  BY DEF SelectInv, Asking
<1>7. Select(c)!CalFee = (IF isFast THEN c.fee ELSE Select(c)!SizeFee)
  BY DEF Select!CalFee
<1>8. \A f : Select(c)!Change(f) = Worth(Inputs) - SumOf(dest, DOMAIN dest) - f
  BY <1>1, SelectSums DEF Select!Change
<1> QED
  BY <1>1, <1>2, <1>4, <1>5, <1>6, <1>7, <1>8 DEF Needed

\* A payment changes neither the request nor the choice.
LEMMA PayFrame ==
    ASSUME NEW CONSTANT c, Chooses(c), SelectInv(c), UNCHANGED <<request, used>>,
           stage' \in {"done", "refused"}, DOMAIN vouts' \subseteq Payee \cup {From}
    PROVE  /\ SelectInv(c)'
           /\ Select(c)!Paid' = Worth(Inputs) - SumOf(vouts', DOMAIN vouts')
           /\ Select(c)!SizeFee' = Select(c)!SizeFee /\ Select(c)!CalFee' = Select(c)!CalFee
           /\ Select(c)!Sum' = Select(c)!Sum /\ Select(c)!AllNeeded' = Select(c)!AllNeeded
           /\ Select(c)!Total(txout') = Worth(DOMAIN txout)
           /\ txout' = txout /\ dest' = dest /\ isFast' = isFast /\ fullSend' = fullSend
           /\ used' = used
<1>1. txout' = txout /\ dest' = dest /\ isFast' = isFast /\ fullSend' = fullSend /\ used' = used
  BY DEF request
<1>2. Asking(c)' /\ Taking'
  BY <1>1 DEF SelectInv, Asking, Taking, Select!Dests
<1>3. Choosing(c)'
  BY DEF Choosing, Steps
<1>4. Select(c)!Paid' = Worth(Inputs) - SumOf(vouts', DOMAIN vouts')
  <2>1. Inputs' = Inputs
    BY <1>1 DEF Inputs
  <2>2. Select(c)!Paid' = (Worth(Inputs) - SumOf(vouts, DOMAIN vouts))'
    BY DEF Select!Paid, Select!Inputs, Select!Total, Worth, Inputs, SumOf, MapThenSumSet,
       MapThenFoldSet, Select!MapThenSumSet, Select!MapThenFoldSet
  <2>3. Worth(Inputs)' = Worth(Inputs)
    BY <1>1, <2>1 DEF Worth
  <2> QED
    BY <2>2, <2>3
<1>5. Select(c)!SizeFee' = Select(c)!SizeFee /\ Select(c)!CalFee' = Select(c)!CalFee
  BY <1>1 DEF Select!SizeFee, Select!CalFee
<1>6. Select(c)!Sum' = Select(c)!Sum /\ Select(c)!AllNeeded' = Select(c)!AllNeeded
  BY <1>1 DEF Select!Sum, Select!AllNeeded, Select!Total, Select!MapThenSumSet,
     Select!MapThenFoldSet
<1>7. Select(c)!Total(txout') = Worth(DOMAIN txout)
  BY <1>1, SelectSums DEF Worth
<1> QED
  BY <1>1, <1>2, <1>3, <1>4, <1>5, <1>6, <1>7 DEF SelectInv

\* What an empty wallet lacks.
LEMMA NothingIsTooLittle ==
    ASSUME NEW CONSTANT c, Chooses(c), Asking(c), txout = <<>>
    PROVE  Select(c)!Total(txout) < Select(c)!AllNeeded
<1>1. Worth(DOMAIN txout) = 0
  BY SumOfEmpty DEF Worth
<1>2. /\ DOMAIN dest # {} /\ IsFiniteSet(DOMAIN dest)
      /\ \A a \in DOMAIN dest : dest[a] \in Nat /\ dest[a] > 0
      /\ SumOf(dest, DOMAIN dest) \in Nat
  BY AskingFacts
<1>3. PICK a \in DOMAIN dest : TRUE
  BY <1>2
<1>4. SumOf(dest, {a}) = dest[a] /\ SumOf(dest, {a}) <= SumOf(dest, DOMAIN dest)
  <2>1. {a} \in SUBSET DOMAIN dest
    BY <1>3
  <2> QED
    BY <1>2, <1>3, <2>1, SumOfOne, SumOfGrows
<1>5. SumOf(dest, DOMAIN dest) > 0
  BY <1>2, <1>3, <1>4
<1>6. c.fee \in Nat
  BY DEF Chooses
<1>7. 0 < Needed(c)
  BY <1>2, <1>5, <1>6 DEF Needed
<1> QED
  BY <1>1, <1>7, SelectSums DEF Worth

\* The invariant of btc.
BtcInv ==
    /\ SelectInv(Btc)
    /\ Select(Btc)!PaysForSize /\ Select(Btc)!PayeesPaid /\ Select(Btc)!RefusedForCause

\* What is paid out, with the change, leaves the fee, or no more than dust above it.
LeavesFee(c, d, f, e) ==
    LET v == Select(c)!WithChange(d, f)
        p == Worth(Inputs) - SumOf(v, DOMAIN v)
    IN  /\ DOMAIN v \in {DOMAIN dest, DOMAIN dest \cup {From}}
        /\ DOMAIN v \subseteq Payee \cup {From}
        /\ \A a \in DOMAIN dest \ {From} : v[a] = d[a]
        /\ From \in DOMAIN dest => v[From] = d[From] + Select(c)!Change(f)
        /\ From \in DOMAIN v \ DOMAIN dest => v[From] \in Int /\ v[From] > c.dust
        /\ p \in Int
        /\ \/ p = f - e
           \/ p = f - e + Select(c)!Change(f) /\ Select(c)!Change(f) <= c.dust

\* Outputs that hold e more than is asked for leave f - e to the network, up to dust.
LEMMA FeeLeft ==
    ASSUME NEW CONSTANT c, Chooses(c), SelectInv(c), NEW d, NEW f \in Int, NEW e \in Int,
           DOMAIN d = DOMAIN dest, \A a \in DOMAIN d : d[a] \in Int,
           SumOf(d, DOMAIN d) = SumOf(dest, DOMAIN dest) + e
    PROVE  LeavesFee(c, d, f, e)
<1> DEFINE v == Select(c)!WithChange(d, f)
           ch == Select(c)!Change(f)
           w == Worth(Inputs)
           s == SumOf(dest, DOMAIN dest)
           sv == SumOf(v, DOMAIN v)
<1>1. w \in Nat /\ s \in Nat /\ ch = w - s - f /\ c.dust \in Nat
  BY PayNumbers
<1>2. IsFiniteSet(DOMAIN dest) /\ DOMAIN dest \subseteq Payee \cup {From}
  BY AskingFacts DEF SelectInv
<1>3. ch \in Int
  BY <1>1
<1>4. /\ DOMAIN v \in {DOMAIN d, DOMAIN d \cup {From}}
      /\ \A a \in DOMAIN d \ {From} : v[a] = d[a]
      /\ From \in DOMAIN d => v[From] = d[From] + ch
      /\ From \in DOMAIN v \ DOMAIN d => v[From] \in Int /\ v[From] > c.dust
      /\ sv = SumOf(d, DOMAIN d) + ch \/ (sv = SumOf(d, DOMAIN d) /\ ch <= c.dust)
  <2>1. IsFiniteSet(DOMAIN d) /\ c.dust \in Nat /\ Select(c)!Change(f) \in Int
    BY <1>1, <1>2, <1>3
  <2>2. ChangeRight(c, d, f)
    BY <2>1, ChangePaid
  <2> QED
    BY <2>2 DEF ChangeRight
<1> HIDE DEF v, ch, w, s, sv
<1>5. PICK sd \in Int : sd = SumOf(d, DOMAIN d) /\ sd = s + e
  BY <1>1 DEF s
<1>6. w - sv \in Int /\ (w - sv = f - e \/ (w - sv = f - e + ch /\ ch <= c.dust))
  <2>1. sv = sd + ch \/ (sv = sd /\ ch <= c.dust)
    BY <1>4, <1>5
  <2>2. CASE sv = sd + ch
    BY <1>1, <1>3, <1>5, <2>2
  <2>3. CASE sv = sd /\ ch <= c.dust
    BY <1>1, <1>3, <1>5, <2>3
  <2> QED
    BY <2>1, <2>2, <2>3
<1>7. DOMAIN v \subseteq Payee \cup {From}
  BY <1>2, <1>4
<1> QED
  BY <1>4, <1>6, <1>7 DEF v, ch, w, sv, LeavesFee

\* A fee that is worked out for an output more than there may be pays for the size.
LEMMA FeePaysForSize ==
    ASSUME NEW CONSTANT c, Chooses(c), SelectInv(c), NEW D,
           D \in {DOMAIN dest, DOMAIN dest \cup {From}}, NEW P \in Nat, P >= Select(c)!SizeFee
    PROVE  P * c.unit >= (Len(used) * c.vinSize + Cardinality(D) * c.voutSize) * c.perFee
<1> DEFINE n == Len(used)
           m == Cardinality(DOMAIN dest) + 1
           k == Cardinality(D)
           s == n * c.vinSize + k * c.voutSize
           t == n * c.vinSize + m * c.voutSize
<1>1. n \in Nat
  BY TakingFacts DEF SelectInv
<1>2. IsFiniteSet(DOMAIN dest)
  BY AskingFacts DEF SelectInv
<1>3. m \in Nat /\ k \in Nat /\ k <= m
  <2>1. Cardinality(DOMAIN dest) \in Nat
    BY <1>2, FS_CardinalityType
  <2>2. Cardinality(DOMAIN dest \cup {From})
          = IF From \in DOMAIN dest THEN Cardinality(DOMAIN dest) ELSE Cardinality(DOMAIN dest) + 1
    BY <1>2, FS_AddElement
  <2>3. k \in {Cardinality(DOMAIN dest), Cardinality(DOMAIN dest) + 1}
    BY <2>2
  <2> QED
    BY <2>1, <2>3
<1>4. /\ c.vinSize \in Nat /\ c.voutSize \in Nat /\ c.unit \in Nat \ {0} /\ c.perFee \in Nat
  BY DEF Chooses
<1>5. Select(c)!SizeFee = ((t + c.unit - 1) \div c.unit) * c.perFee
  BY SameCardinality DEF Select!SizeFee
<1> HIDE DEF n, m, k
<1>6. k * c.voutSize <= m * c.voutSize /\ k * c.voutSize \in Nat /\ m * c.voutSize \in Nat
  BY <1>3, <1>4, Monotone
<1>7. n * c.vinSize \in Nat
  BY <1>1, <1>4
<1>8. s \in Nat /\ t \in Nat /\ s <= t
  BY <1>6, <1>7
<1> HIDE DEF s, t
<1>9. P * c.unit >= s * c.perFee
  BY <1>4, <1>5, <1>8, RoundedUpPays
<1> QED
  BY <1>9 DEF s, n, k

\* A finished transaction that leaves the fee in those bounds pays for its size.
LEMMA DonePays ==
    ASSUME NEW CONSTANT c, Chooses(c), SelectInv(c), UNCHANGED <<request, used>>,
           stage' = "done", DOMAIN vouts' \in {DOMAIN dest, DOMAIN dest \cup {From}},
           NEW P \in Int, P = Worth(Inputs) - SumOf(vouts', DOMAIN vouts'),
           Select(c)!CalFee <= P, P <= Select(c)!CalFee + c.dust
    PROVE  SelectInv(c)' /\ Select(c)!PaysForSize'
<1>1. DOMAIN vouts' \subseteq Payee \cup {From}
  BY AskingFacts DEF SelectInv
<1>2. /\ SelectInv(c)' /\ Select(c)!Paid' = P /\ Select(c)!CalFee' = Select(c)!CalFee
      /\ isFast' = isFast /\ used' = used
  BY <1>1, PayFrame
<1>3. /\ Select(c)!CalFee = IF isFast THEN c.fee ELSE Select(c)!SizeFee
      /\ Select(c)!CalFee \in Nat /\ c.fee \in Nat /\ c.unit \in Nat
  BY PayNumbers DEF Chooses
<1>4. P \in Nat
  BY <1>3
<1>5. ~isFast => P * c.unit >= (Len(used) * c.vinSize + Cardinality(DOMAIN vouts') * c.voutSize) * c.perFee
  BY <1>3, <1>4, FeePaysForSize
<1>6. isFast => P * c.unit >= c.fee * c.unit
  <2>1. isFast => c.fee <= P
    BY <1>3
  <2> QED
    BY <1>3, <1>4, <2>1, Monotone
<1>7. Select(c)!Cardinality(DOMAIN vouts') = Cardinality(DOMAIN vouts')
  BY SameCardinality
<1>8. Select(c)!PaysForSize'
  BY <1>2, <1>5, <1>6, <1>7 DEF Select!PaysForSize
<1> QED
  BY <1>2, <1>8

\* Pay of btc: fee, payees and refusals are right.
LEMMA BtcPays ==
    ASSUME NEW CONSTANT c, Chooses(c), SelectInv(c), Select(c)!Pay
    PROVE  /\ SelectInv(c)'
           /\ Select(c)!PaysForSize' /\ Select(c)!PayeesPaid' /\ Select(c)!RefusedForCause'
<1> DEFINE w == Worth(Inputs)
           s == SumOf(dest, DOMAIN dest)
           cal == Select(c)!CalFee
           left == Select(c)!LeftOver
           all == Worth(DOMAIN txout)
<1>1. stage = "pay" /\ UNCHANGED <<request, used>>
  BY DEF Select!Pay, request, Select!request
<1>2. /\ w \in Nat /\ s \in Nat /\ cal \in Nat /\ c.fee \in Nat /\ c.dust \in Nat
      /\ Select(c)!Sum = w /\ Select(c)!AllNeeded = s + c.fee /\ Needed(c) = s + c.fee
      /\ \A f : Select(c)!Change(f) = w - s - f
      /\ isFast \in BOOLEAN /\ fullSend \in BOOLEAN
  BY PayNumbers, SelectSums
<1>3. left = c.fee - cal
  BY DEF Select!LeftOver
<1>4. /\ IsFiniteSet(DOMAIN dest) /\ DOMAIN dest \subseteq Payee \cup {From}
      /\ \A a \in DOMAIN dest : dest[a] \in Nat /\ dest[a] > 0
  BY AskingFacts DEF SelectInv
<1>5. all \in Nat /\ (w >= s + c.fee \/ all < s + c.fee)
  <2>1. all \in Nat
    BY WorthFacts DEF SelectInv
  <2> QED
    BY <1>1, <1>2, <2>1 DEF SelectInv, Choosing
<1> HIDE DEF w, s, cal, left, all
<1>6. \/ stage' = "refused" /\ vouts' = vouts /\ w < s + c.fee
      \/ stage' = "refused" /\ vouts' = vouts /\ w >= s + c.fee /\ cal > c.fee
      \/ /\ stage' = "done" /\ w >= s + c.fee /\ ~fullSend /\ cal <= c.fee
         /\ vouts' = Select(c)!WithChange(dest, cal)
      \/ \E k \in DOMAIN dest :
            LET d == [dest EXCEPT ![k] = @ + left] IN
            /\ w >= s + c.fee /\ fullSend
            /\ \/ d[k] < 0 /\ stage' = "refused" /\ vouts' = vouts
               \/ ~(d[k] < 0) /\ stage' = "done" /\ vouts' = Select(c)!WithChange(d, c.fee)
  BY <1>2 DEF Select!Pay, w, s, cal, left
<1>7. ASSUME stage' = "refused", vouts' = vouts, w < s + c.fee \/ (w >= s + c.fee /\ cal > c.fee)
      PROVE  /\ SelectInv(c)'
             /\ Select(c)!PaysForSize' /\ Select(c)!PayeesPaid' /\ Select(c)!RefusedForCause'
  <2>1. DOMAIN vouts' \subseteq Payee \cup {From}
    BY <1>7 DEF SelectInv
  <2>2. /\ SelectInv(c)' /\ Select(c)!CalFee' = cal /\ Select(c)!Sum' = w
        /\ Select(c)!AllNeeded' = s + c.fee /\ Select(c)!Total(txout') = all
    BY <1>1, <1>2, <1>7, <2>1, PayFrame DEF cal, all, w
  <2>3. all < s + c.fee \/ (w >= s + c.fee /\ cal > c.fee)
    BY <1>2, <1>5, <1>7
  <2> QED
    BY <1>7, <2>2, <2>3 DEF Select!PaysForSize, Select!PayeesPaid, Select!RefusedForCause, Select!Done
<1>8. ASSUME stage' = "done", w >= s + c.fee, NEW d, NEW f \in Int, f <= c.fee, NEW e \in Int, f - e = cal,
             DOMAIN d = DOMAIN dest, \A a \in DOMAIN d : d[a] \in Int, SumOf(d, DOMAIN d) = s + e,
             vouts' = Select(c)!WithChange(d, f)
      PROVE  /\ SelectInv(c)' /\ Select(c)!PaysForSize' /\ Select(c)!RefusedForCause'
             /\ \A a \in DOMAIN dest \ {From} : vouts'[a] = d[a]
  <2> DEFINE P == w - SumOf(vouts', DOMAIN vouts')
             ch == Select(c)!Change(f)
  <2>1. /\ DOMAIN vouts' \in {DOMAIN dest, DOMAIN dest \cup {From}}
        /\ \A a \in DOMAIN dest \ {From} : vouts'[a] = d[a]
        /\ P \in Int
        /\ P = cal \/ (P = cal + ch /\ ch <= c.dust)
    <3>1. LeavesFee(c, d, f, e)
      BY <1>8, FeeLeft DEF s
    <3> QED
      BY <1>8, <3>1 DEF LeavesFee, w
  <2>2. ch = w - s - f /\ ch >= 0 /\ ch \in Int
    <3>1. ch = w - s - f
      BY <1>2
    <3> HIDE DEF ch
    <3> QED
      BY <1>2, <1>8, <3>1
  <2> HIDE DEF P, ch
  <2>3. cal <= P /\ P <= cal + c.dust
    BY <1>2, <2>1, <2>2
  <2>4. SelectInv(c)' /\ Select(c)!PaysForSize'
    BY <1>1, <1>8, <2>1, <2>3, DonePays DEF P, w, cal
  <2> QED
    BY <1>8, <2>1, <2>4 DEF Select!RefusedForCause
<1>9. CASE /\ stage' = "done" /\ w >= s + c.fee /\ ~fullSend /\ cal <= c.fee
           /\ vouts' = Select(c)!WithChange(dest, cal)
  <2>1. cal \in Int /\ 0 \in Int /\ cal - 0 = cal /\ SumOf(dest, DOMAIN dest) = s + 0
        /\ \A a \in DOMAIN dest : dest[a] \in Int
    BY <1>2, <1>4 DEF s
  <2>2. /\ SelectInv(c)' /\ Select(c)!PaysForSize' /\ Select(c)!RefusedForCause'
        /\ \A a \in DOMAIN dest \ {From} : vouts'[a] = dest[a]
    BY <1>8, <1>9, <2>1
  <2>3. dest' = dest
    BY <1>1 DEF request
  <2>4. \A a \in DOMAIN dest \ {From} : dest[a] >= dest[a]
    BY <1>4
  <2> QED
    BY <2>2, <2>3, <2>4 DEF Select!PayeesPaid
<1>10. ASSUME NEW k \in DOMAIN dest, w >= s + c.fee, fullSend,
              LET d == [dest EXCEPT ![k] = @ + left] IN
                \/ d[k] < 0 /\ stage' = "refused" /\ vouts' = vouts
                \/ ~(d[k] < 0) /\ stage' = "done" /\ vouts' = Select(c)!WithChange(d, c.fee)
       PROVE  /\ SelectInv(c)'
              /\ Select(c)!PaysForSize' /\ Select(c)!PayeesPaid' /\ Select(c)!RefusedForCause'
  <2> DEFINE d == [dest EXCEPT ![k] = @ + left]
  <2>1. /\ DOMAIN d = DOMAIN dest /\ d[k] = dest[k] + left
        /\ \A a \in DOMAIN dest \ {k} : d[a] = dest[a]
    OBVIOUS
  <2> HIDE DEF d
  <2>2. \/ d[k] < 0 /\ stage' = "refused" /\ vouts' = vouts
        \/ ~(d[k] < 0) /\ stage' = "done" /\ vouts' = Select(c)!WithChange(d, c.fee)
    BY <1>10 DEF d
  <2>3. left \in Int
    BY <1>2, <1>3
  <2>4. CASE d[k] < 0 /\ stage' = "refused" /\ vouts' = vouts
    <3>1. cal > c.fee
      BY <1>2, <1>3, <1>4, <2>1, <2>4
    <3> QED
      BY <1>7, <1>10, <2>4, <3>1
  <2>5. CASE stage' = "done" /\ vouts' = Select(c)!WithChange(d, c.fee)
    <3>1. \A a \in DOMAIN d : d[a] \in Int
      BY <1>4, <2>1, <2>3
    <3>2. SumOf(d, DOMAIN d) = s + left
      BY <1>4, <2>1, <2>3, SumOfRaised DEF s
    <3>3. c.fee - left = cal /\ c.fee <= c.fee /\ c.fee \in Int
      BY <1>2, <1>3
    <3>4. /\ SelectInv(c)' /\ Select(c)!PaysForSize' /\ Select(c)!RefusedForCause'
          /\ \A a \in DOMAIN dest \ {From} : vouts'[a] = d[a]
      BY <1>8, <1>10, <2>1, <2>3, <2>5, <3>1, <3>2, <3>3
    <3>5. dest' = dest /\ fullSend' = fullSend /\ Select(c)!CalFee' = cal
      BY <1>1 DEF request, cal, Select!CalFee, Select!SizeFee
    <3>6. cal <= c.fee => \A a \in DOMAIN dest : d[a] >= dest[a]
      BY <1>2, <1>3, <1>4, <2>1, <2>3
    <3> QED
      BY <1>10, <3>4, <3>5, <3>6 DEF Select!PayeesPaid
  <2> QED
    BY <2>2, <2>4, <2>5
<1> QED
  BY <1>6, <1>7, <1>9, <1>10

\* Pay of hc: fee, payees and refusals are right.
LEMMA HcPays ==
    ASSUME NEW CONSTANT c, Chooses(c), SelectInv(c), Select(c)!HcPay
    PROVE  /\ SelectInv(c)'
           /\ Select(c)!HcFeeInBounds' /\ Select(c)!HcPayeesPaid' /\ Select(c)!HcRefusedForCause'
<1> DEFINE w == Worth(Inputs)
           s == SumOf(dest, DOMAIN dest)
           sf == Select(c)!SizeFee
           ch == Select(c)!Change(sf)
           v == Select(c)!HcVouts
           all == Worth(DOMAIN txout)
           P == w - SumOf(v, DOMAIN v)
<1>1. stage = "pay" /\ UNCHANGED <<request, used>>
  BY DEF Select!HcPay, request, Select!request
<1>2. /\ w \in Nat /\ s \in Nat /\ sf \in Nat /\ c.fee \in Nat /\ c.dust \in Nat
      /\ Select(c)!Sum = w /\ Select(c)!AllNeeded = s + c.fee /\ Needed(c) = s + c.fee
      /\ ch = w - s - sf
  BY PayNumbers, SelectSums
<1>3. \A a \in DOMAIN dest : dest[a] \in Nat /\ dest[a] > 0
  BY AskingFacts DEF SelectInv
<1>4. all \in Nat /\ (w >= s + c.fee \/ all < s + c.fee)
  <2>1. all \in Nat
    BY WorthFacts DEF SelectInv
  <2> QED
    BY <1>1, <1>2, <2>1 DEF SelectInv, Choosing
<1>5. /\ DOMAIN v \in {DOMAIN dest, DOMAIN dest \cup {From}}
      /\ DOMAIN v \subseteq Payee \cup {From}
      /\ \A a \in DOMAIN dest \ {From} : v[a] = dest[a]
      /\ From \in DOMAIN dest => v[From] = dest[From] + ch
      /\ From \in DOMAIN v \ DOMAIN dest => v[From] \in Int /\ v[From] > c.dust
      /\ P \in Int
      /\ P = sf \/ (P = sf + ch /\ ch <= c.dust)
  <2>1. sf \in Int /\ 0 \in Int /\ s = s + 0 /\ \A a \in DOMAIN dest : dest[a] \in Int
    BY <1>2, <1>3
  <2>2. LeavesFee(c, dest, sf, 0)
    BY <2>1, FeeLeft
  <2> QED
    BY <1>2, <2>2 DEF LeavesFee, Select!HcVouts
<1>6. \/ stage' = "refused" /\ vouts' = vouts /\ w < s + c.fee
      \/ stage' = "refused" /\ vouts' = vouts /\ \E a \in DOMAIN v : v[a] < 0
      \/ stage' = "done" /\ vouts' = v /\ w >= s + c.fee
  BY <1>2 DEF Select!HcPay, Select!HcRefuses, Select!Covered
<1> HIDE DEF w, s, sf, ch, v, all, P
<1>7. CASE stage' = "refused" /\ vouts' = vouts
  <2>1. DOMAIN vouts' \subseteq Payee \cup {From}
    BY <1>7 DEF SelectInv
  <2>2. /\ SelectInv(c)' /\ Select(c)!SizeFee' = sf /\ dest' = dest
        /\ Select(c)!AllNeeded' = s + c.fee /\ Select(c)!Total(txout') = all
    BY <1>1, <1>2, <1>7, <2>1, PayFrame DEF sf, all
  <2>3. all < s + c.fee \/ (From \in DOMAIN dest /\ sf > c.fee + dest[From])
    <3>1. CASE w < s + c.fee
      BY <1>2, <1>4, <3>1
    <3>2. CASE w >= s + c.fee
      <4>1. PICK a \in DOMAIN v : v[a] < 0
        BY <1>2, <1>6, <1>7, <3>2
      <4>2. a = From
        BY <1>3, <1>5, <4>1
      <4>3. From \in DOMAIN dest
        BY <1>2, <1>5, <4>1, <4>2
      <4>4. dest[From] \in Nat /\ v[From] = dest[From] + ch /\ v[From] < 0
        BY <1>3, <1>5, <4>1, <4>2, <4>3
      <4>5. sf > c.fee + dest[From]
        BY <1>2, <3>2, <4>4
      <4> QED
        BY <4>3, <4>5
    <3> QED
      BY <1>2, <3>1, <3>2
  <2> QED
    BY <1>7, <2>2, <2>3
       DEF Select!HcFeeInBounds, Select!HcPayeesPaid, Select!HcRefusedForCause, Select!Done
<1>8. CASE stage' = "done" /\ vouts' = v /\ w >= s + c.fee
  <2>1. /\ SelectInv(c)' /\ Select(c)!Paid' = P /\ Select(c)!SizeFee' = sf /\ dest' = dest
    BY <1>1, <1>5, <1>8, PayFrame DEF sf, P, w
  <2>2. P >= (IF sf < c.fee THEN sf ELSE c.fee) /\ P <= sf + c.dust
    BY <1>2, <1>5, <1>8
  <2>3. Select(c)!HcFeeInBounds'
    BY <2>1, <2>2 DEF Select!HcFeeInBounds
  <2>4. \A a \in DOMAIN dest :
           v[a] >= dest[a] - (IF a = From /\ sf > c.fee THEN sf - c.fee ELSE 0)
    <3>1. \A a \in DOMAIN dest \ {From} : v[a] = dest[a] /\ dest[a] \in Nat
      BY <1>3, <1>5
    <3>2. From \in DOMAIN dest =>
            v[From] >= dest[From] - (IF sf > c.fee THEN sf - c.fee ELSE 0)
      <4> SUFFICES ASSUME From \in DOMAIN dest
                   PROVE  v[From] >= dest[From] - (IF sf > c.fee THEN sf - c.fee ELSE 0)
        OBVIOUS
      <4>1. v[From] = dest[From] + ch /\ dest[From] \in Nat
        BY <1>3, <1>5
      <4> QED
        BY <1>2, <1>8, <4>1
    <3> QED
      BY <3>1, <3>2
  <2> QED
    BY <1>8, <2>1, <2>3, <2>4 DEF Select!HcPayeesPaid, Select!HcRefusedForCause
<1> QED
  BY <1>6, <1>7, <1>8


-----------------------------------------------------------------------------
(* btm chooses as the utilities of btc and hc do.                          *)

\* Its sums are those of the utilities.
LEMMA BtmSums ==
    /\ \A f : Btm!Total(f) = SumOf(f, DOMAIN f)
    /\ Btm!Sum = Select(Config["btm"])!Sum
    /\ Btm!AllNeeded = Needed(Config["btm"])
    /\ Btm!Paid = Worth(Inputs) - SumOf(vouts, DOMAIN vouts)
    /\ \A J : Btm!MapThenSumSet(LAMBDA k : txout[k], J) = Worth(J)
<1>1. \A f : Btm!Total(f) = SumOf(f, DOMAIN f)
  BY DEF Btm!Total, SumOf, MapThenSumSet, MapThenFoldSet, Btm!MapThenSumSet, Btm!MapThenFoldSet
<1>2. Btm!Sum = Select(Config["btm"])!Sum
  BY DEF Select!Sum, Btm!Sum, Btm!MapThenSumSet, Btm!MapThenFoldSet, Select!MapThenSumSet,
     Select!MapThenFoldSet
<1>3. Btm!AllNeeded = Needed(Config["btm"])
  BY <1>1 DEF Btm!AllNeeded, Needed
<1>4. \A J : Btm!MapThenSumSet(LAMBDA k : txout[k], J) = Worth(J)
  BY DEF Worth, SumOf, MapThenSumSet, MapThenFoldSet, Btm!MapThenSumSet, Btm!MapThenFoldSet
<1>5. Btm!Paid = Worth(Inputs) - SumOf(vouts, DOMAIN vouts)
  BY <1>1, <1>4 DEF Btm!Paid, Btm!Inputs, Inputs
<1> QED
  BY <1>1, <1>2, <1>3, <1>4, <1>5

\* Its first step is theirs,
LEMMA BtmTakesOne ==
    ASSUME Btm!TakeOne
    PROVE  Select(Config["btm"])!TakeOne
<1>1. Btm!Enough = Select(Config["btm"])!Enough
  BY BtmSums, SelectSums DEF Btm!Enough, Select!Enough
<1>2. Btm!Max(Btm!Enough) = Select(Config["btm"])!Max(Select(Config["btm"])!Enough)
  BY <1>1 DEF Btm!Max, Select!Max
<1> QED
  BY <1>1, <1>2 DEF Btm!TakeOne, Select!TakeOne, Btm!request, Select!request

\* its second,
LEMMA BtmTakesLargest ==
    ASSUME Btm!TakeLargest
    PROVE  Select(Config["btm"])!TakeLargest
BY BtmSums, SelectSums
   DEF Btm!TakeLargest, Select!TakeLargest, Btm!Covered, Select!Covered, Btm!request, Select!request

\* and its third.
LEMMA BtmPads ==
    ASSUME Btm!Pad
    PROVE  Select(Config["btm"])!Pad
<1>1. Btm!Fillers = Select(Config["btm"])!Fillers
  BY DEF Btm!Fillers, Select!Fillers, Btm!InUse, Select!InUse, Btm!Cardinality,
     Select!Cardinality, Btm!IsFiniteSet, Select!IsFiniteSet
<1> QED
  BY <1>1 DEF Btm!Pad, Select!Pad, Btm!request, Select!request
\* The numbers of its configuration.
LEMMA BtmNumbers ==
    /\ {Config["btm"].maxInputs, Config["btm"].atLeast, Config["btm"].fee} \subseteq Nat
    /\ Config["btm"].maxInputs >= Config["btm"].atLeast
    /\ \A e \in Config["btm"].estimates : e \in Nat /\ e >= 10
<1>1. Config["btm"].fee \in Nat /\ Config["btm"].atLeast \in Nat
  BY ConfigsChoose DEF Chooses
<1> QED
  BY <1>1, ConfigAssumption

\* A tenth more than an estimate.
LEMMA SurchargeRight ==
    ASSUME NEW e \in Nat, e >= 10
    PROVE  /\ Btm!Surcharged(e) \in Nat /\ Btm!Surcharged(e) > e
           /\ \A f \in Nat : 11 * e < 10 * f => Btm!Surcharged(e) < f
<1>1. Btm!Surcharged(e) = (11 * e) \div 10
  BY DEF Btm!Surcharged
<1> QED
  BY <1>1

\* A sum of outputs, one of them raised or added.
LEMMA Raised ==
    ASSUME NEW d, NEW v, NEW x \in DOMAIN d, NEW e \in Int, IsFiniteSet(DOMAIN d),
           \A a \in DOMAIN d : d[a] \in Int, DOMAIN v = DOMAIN d,
           v[x] = d[x] + e, \A a \in DOMAIN d \ {x} : v[a] = d[a]
    PROVE  SumOf(v, DOMAIN d) = SumOf(d, DOMAIN d) + e
BY SumOfRaised

\* One output more.
LEMMA Extended ==
    ASSUME NEW d, NEW v, NEW x, x \notin DOMAIN d, IsFiniteSet(DOMAIN d),
           \A a \in DOMAIN d : d[a] \in Int, DOMAIN v = DOMAIN d \cup {x},
           v[x] \in Int, \A a \in DOMAIN d : v[a] = d[a]
    PROVE  SumOf(v, DOMAIN d \cup {x}) = SumOf(d, DOMAIN d) + v[x]
BY SumOfExtended

\* A btm transaction: the node's surcharged estimate is what is left, or one less.
LEMMA BtmOutputs ==
    ASSUME SelectInv(Config["btm"]), Worth(Inputs) >= Needed(Config["btm"]),
           NEW g \in Int, g <= Config["btm"].fee, NEW v,
           v = [Btm!Draft EXCEPT ![From] = @ + Config["btm"].fee - g]
    PROVE  /\ DOMAIN v \subseteq Payee \cup {From}
           /\ \A a \in DOMAIN dest : v[a] >= dest[a]
           /\ Worth(Inputs) - SumOf(v, DOMAIN v) \in {g, g - 1}
<1> DEFINE w == Worth(Inputs)
           s == SumOf(dest, DOMAIN dest)
           f == Config["btm"].fee
           left == Btm!Change(Config["btm"].fee)
           D == Btm!Draft
<1>1. Chooses(Config["btm"])
  BY ConfigsChoose
<1>2. /\ w \in Nat /\ s \in Nat /\ f \in Nat /\ Needed(Config["btm"]) = s + f
      /\ Select(Config["btm"])!Sum = w
  BY <1>1, PayNumbers
<1>3. left = w - s - f
  BY <1>2, BtmSums DEF Btm!Change
<1>4. /\ IsFiniteSet(DOMAIN dest) /\ DOMAIN dest \subseteq Payee \cup {From}
      /\ \A a \in DOMAIN dest : dest[a] \in Nat
  BY <1>1, AskingFacts DEF SelectInv
<1>5. D = IF From \in DOMAIN dest THEN [dest EXCEPT ![From] = @ + left]
          ELSE [a \in DOMAIN dest \cup {From} |->
                  IF a # From THEN dest[a] ELSE IF left = 0 THEN 1 ELSE left]
  BY DEF Btm!Draft
<1> HIDE DEF w, s, f, left, D
<1>6. left \in Nat
  BY <1>2, <1>3 DEF w
<1>7. v = [D EXCEPT ![From] = @ + f - g] /\ g <= f /\ f - g \in Nat
  BY <1>2 DEF D, f
<1>10. PICK u : u = v
  OBVIOUS
<1>8. CASE From \in DOMAIN dest
  <2>1. /\ DOMAIN u = DOMAIN dest /\ u[From] = (dest[From] + left) + f - g
        /\ \A a \in DOMAIN dest \ {From} : u[a] = dest[a]
    BY <1>5, <1>7, <1>8, <1>10
  <2>2. dest[From] \in Nat /\ left + (f - g) \in Int
    BY <1>4, <1>6, <1>7, <1>8
  <2>3. u[From] = dest[From] + (left + (f - g)) /\ u[From] >= dest[From]
    BY <1>2, <1>6, <1>7, <2>1, <2>2
  <2>4. SumOf(u, DOMAIN dest) = s + (left + (f - g))
    <3>1. \A a \in DOMAIN dest : dest[a] \in Int
      BY <1>4
    <3> QED
      BY <1>4, <1>8, <2>1, <2>2, <2>3, <3>1, Raised DEF s
  <2>5. w - (s + (left + (f - g))) = g
    BY <1>2, <1>3
  <2>6. \A a \in DOMAIN dest : u[a] >= dest[a]
    BY <1>4, <2>1, <2>3
  <2> QED
    BY <1>4, <1>10, <2>1, <2>4, <2>5, <2>6 DEF w
<1>9. CASE From \notin DOMAIN dest
  <2>1. PICK l \in Nat : l = IF left = 0 THEN 1 ELSE left
    BY <1>6
  <2>2. /\ DOMAIN u = DOMAIN dest \cup {From} /\ u[From] = l + f - g
        /\ \A a \in DOMAIN dest : u[a] = dest[a]
    BY <1>5, <1>7, <1>9, <1>10, <2>1
  <2>3. u[From] \in Int /\ u[From] = l + f - g
    BY <1>2, <2>2
  <2>4. SumOf(u, DOMAIN dest \cup {From}) = s + u[From]
    <3>1. \A a \in DOMAIN dest : dest[a] \in Int
      BY <1>4
    <3> QED
      BY <1>4, <1>9, <2>2, <2>3, <3>1, Extended DEF s
  <2>5. w - (s + (l + f - g)) \in {g, g - 1}
    BY <1>2, <1>3, <1>6, <2>1
  <2>6. \A a \in DOMAIN dest : u[a] >= dest[a]
    BY <1>4, <2>2
  <2> QED
    BY <1>4, <1>10, <2>2, <2>3, <2>4, <2>5, <2>6 DEF w
<1> QED
  BY <1>8, <1>9

\* What the largest outputs that may be used are worth, if more of them are needed.
LEMMA TooMany ==
    ASSUME SelectInv(Config["btm"]), stage = "pay", Len(used) > Config["btm"].maxInputs
    PROVE  Worth(1..Config["btm"].maxInputs) < Needed(Config["btm"])
<1> DEFINE c == Config["btm"]
           n == Len(used)
           m == c.maxInputs
<1>1. Chooses(c)
  BY ConfigsChoose
<1>2. n \in Nat /\ n <= Len(txout) /\ Len(txout) \in Nat /\ DOMAIN txout = 1..Len(txout)
      /\ Needed(c) \in Nat
  BY <1>1, TakingFacts, AskingFacts DEF SelectInv
<1>3. m \in Nat /\ c.atLeast \in Nat /\ m >= c.atLeast /\ n > m
  BY BtmNumbers
<1>4. n > c.atLeast
  <2> HIDE DEF n, m, c
  <2> QED
    BY <1>2, <1>3
<1>5. Greedy(c) /\ used # <<>>
  <2>1. Greedy(c)
    BY <1>4 DEF SelectInv, Choosing
  <2>2. used # <<>>
    BY <1>2, <1>3
  <2> QED
    BY <2>1, <2>2
<1>6. Worth(1..(n - 1)) < Needed(c)
  BY <1>5 DEF Greedy
<1> HIDE DEF n, m
<1>7. 1..(n - 1) \in SUBSET DOMAIN txout /\ 1..m \in SUBSET (1..(n - 1))
  BY <1>2, <1>3
<1>8. /\ Worth(1..(n - 1)) \in Nat /\ Worth(1..m) \in Nat
      /\ Worth(1..m) <= Worth(1..(n - 1))
  BY <1>1, <1>7, WorthFacts DEF SelectInv
<1> QED
  BY <1>2, <1>6, <1>8 DEF m

\* The invariant of btm.
BtmInv ==
    /\ SelectInv(Config["btm"])
    /\ estimate \in {0} \cup Config["btm"].estimates
    /\ Btm!BtmFeeInBounds /\ Btm!BtmPayeesPaid /\ Btm!BtmRefusedForCause

\* BtmPay: the node's estimate is paid for, with all of the rest given back, and it is
\* refused only when the largest outputs, of which few enough may be used, are too little.
LEMMA BtmPays ==
    ASSUME SelectInv(Config["btm"]), estimate \in {0} \cup Config["btm"].estimates, Btm!BtmPay
    PROVE  BtmInv'
<1> DEFINE c == Config["btm"]
           w == Worth(Inputs)
           s == SumOf(dest, DOMAIN dest)
           all == Worth(DOMAIN txout)
<1>1. Chooses(c) /\ stage = "pay" /\ UNCHANGED <<request, used>>
  BY ConfigsChoose DEF Btm!BtmPay, request, Btm!request
<1>2. /\ w \in Nat /\ s \in Nat /\ c.fee \in Nat /\ Needed(c) = s + c.fee /\ Needed(c) \in Nat
      /\ Select(c)!Sum = w /\ Btm!Sum = w /\ Btm!AllNeeded = Needed(c)
  BY <1>1, PayNumbers, BtmSums
<1>3. all \in Nat /\ (w >= Needed(c) \/ all < Needed(c))
  BY <1>1, <1>2, WorthFacts DEF SelectInv, Choosing
<1>4. txout' = txout /\ dest' = dest /\ used' = used
  BY <1>1 DEF request
<1>5. /\ Btm!Total(txout') = all /\ Btm!AllNeeded' = Needed(c)
      /\ Btm!BtmRefusedForCause' <=>
           (stage' = "refused" => \/ all < Needed(c) \/ 11 * estimate' >= 10 * c.fee
                                  \/ Worth(1..c.maxInputs) < Needed(c))
  <2>1. Btm!AllNeeded' = Btm!AllNeeded
    BY <1>4 DEF Btm!AllNeeded, Btm!Total, Btm!MapThenSumSet, Btm!MapThenFoldSet
  <2>2. Btm!Total(txout') = all
    BY <1>4, BtmSums DEF Worth
  <2>3. Btm!BtmRefusedForCause' <=>
           (stage' = "refused" => \/ Btm!Total(txout') < Btm!AllNeeded'
                                  \/ 11 * estimate' >= 10 * c.fee
                                  \/ Worth(1..c.maxInputs)' < Btm!AllNeeded')
    BY DEF Btm!BtmRefusedForCause, Worth, SumOf, MapThenSumSet, MapThenFoldSet,
           Btm!MapThenSumSet, Btm!MapThenFoldSet, Btm!Total, Btm!AllNeeded
  <2>4. Worth(1..c.maxInputs)' = Worth(1..c.maxInputs)
    BY <1>4 DEF Worth
  <2> QED
    BY <1>2, <2>1, <2>2, <2>3, <2>4
<1> HIDE DEF c, w, s, all
<1>6. ASSUME stage' \in {"done", "refused"}, DOMAIN vouts' \subseteq Payee \cup {From}
      PROVE  SelectInv(c)'
  BY <1>1, <1>6, PayFrame DEF c
<1>7. CASE stage' = "refused" /\ vouts' = vouts /\ estimate' \in {0} \cup c.estimates
  <2>1. SelectInv(c)'
    BY <1>6, <1>7 DEF SelectInv, c
  <2>2. \/ all < Needed(c)
        \/ 11 * estimate' >= 10 * c.fee
        \/ Worth(1..c.maxInputs) < Needed(c)
    <3>1. CASE Len(used) > c.maxInputs
      BY <1>1, <3>1, TooMany DEF c
    <3>2. CASE w < Needed(c)
      BY <1>2, <1>3, <3>2
    <3>3. CASE 11 * estimate' >= 10 * c.fee
      BY <3>3
    <3>4. \/ Len(used) > c.maxInputs \/ w < Needed(c) \/ 11 * estimate' >= 10 * c.fee
      BY <1>2, <1>7 DEF Btm!BtmPay, Btm!BtmRefuses, Btm!Covered, c
    <3> QED
      BY <3>1, <3>2, <3>3, <3>4
  <2>3. Btm!BtmRefusedForCause'
    BY <1>5, <2>2
  <2>4. Btm!BtmFeeInBounds' /\ Btm!BtmPayeesPaid'
    BY <1>7 DEF Btm!BtmFeeInBounds, Btm!BtmPayeesPaid, Btm!Done
  <2> QED
    BY <1>7, <2>1, <2>3, <2>4 DEF BtmInv, c
<1>8. ASSUME NEW e \in c.estimates, estimate' = e, stage' = "done", 11 * e < 10 * c.fee,
             w >= Needed(c),
             vouts' = [Btm!Draft EXCEPT ![From] = @ + c.fee - Btm!Surcharged(e)]
      PROVE  BtmInv'
  <2>1. e \in Nat /\ e >= 10
    BY <1>8, BtmNumbers DEF c
  <2> DEFINE g == Btm!Surcharged(e)
  <2>2. g \in Nat /\ g > e /\ g < c.fee
    BY <1>2, <1>8, <2>1, SurchargeRight
  <2>3. /\ DOMAIN vouts' \subseteq Payee \cup {From}
        /\ \A a \in DOMAIN dest : vouts'[a] >= dest[a]
        /\ w - SumOf(vouts', DOMAIN vouts') \in {g, g - 1}
    <3>1. g \in Int /\ g <= c.fee
      BY <1>2, <2>2
    <3> HIDE DEF g
    <3>2. vouts' = [Btm!Draft EXCEPT ![From] = @ + Config["btm"].fee - g]
      BY <1>8 DEF g, c
    <3> QED
      BY <1>8, <3>1, <3>2, BtmOutputs DEF w, c
  <2>4. SelectInv(c)'
    BY <1>6, <1>8, <2>3
  <2>5. Btm!Paid' = w - SumOf(vouts', DOMAIN vouts')
    <3>1. Inputs' = Inputs
      BY <1>4 DEF Inputs
    <3>2. Btm!Paid' = (Worth(Inputs) - SumOf(vouts, DOMAIN vouts))'
      BY DEF Btm!Paid, Btm!Inputs, Btm!Total, Worth, Inputs, SumOf, MapThenSumSet,
         MapThenFoldSet, Btm!MapThenSumSet, Btm!MapThenFoldSet
    <3>3. Worth(Inputs)' = Worth(Inputs)
      BY <1>4, <3>1 DEF Worth
    <3> QED
      BY <3>2, <3>3 DEF w
  <2>6. Btm!Paid' >= e /\ Btm!Paid' < c.fee
    BY <1>2, <2>1, <2>2, <2>3, <2>5
  <2>7. Btm!BtmFeeInBounds' /\ Btm!BtmPayeesPaid'
    BY <1>4, <1>8, <2>3, <2>6 DEF Btm!BtmFeeInBounds, Btm!BtmPayeesPaid, c
  <2>8. Btm!BtmRefusedForCause'
    BY <1>8 DEF Btm!BtmRefusedForCause
  <2> QED
    BY <1>8, <2>4, <2>7, <2>8 DEF BtmInv, c
<1>9. \/ stage' = "refused" /\ vouts' = vouts /\ estimate' \in {0} \cup c.estimates
      \/ /\ w >= Needed(c)
         /\ \E e \in c.estimates :
              /\ estimate' = e /\ stage' = "done" /\ ~(11 * e >= 10 * c.fee)
              /\ vouts' = [Btm!Draft EXCEPT ![From] = @ + c.fee - Btm!Surcharged(e)]
  BY <1>2 DEF Btm!BtmPay, Btm!BtmRefuses, Btm!Covered, c
<1>10. \A e \in c.estimates : ~(11 * e >= 10 * c.fee) => 11 * e < 10 * c.fee
  BY <1>2, BtmNumbers DEF c
<1> QED
  BY <1>7, <1>8, <1>9, <1>10

\* The choice keeps the invariant.
LEMMA BtmChooses ==
    ASSUME SelectInv(Config["btm"]), estimate \in {0} \cup Config["btm"].estimates,
           Btm!TakeOne \/ Btm!TakeLargest \/ Btm!Pad, estimate' = estimate
    PROVE  BtmInv'
<1> DEFINE c == Config["btm"]
<1>1. Chooses(c)
  BY ConfigsChoose
<1>2. /\ SelectInv(c)'
      /\ stage' \notin {"done"}
      /\ stage' = "refused" => txout = <<>> /\ SameRequest /\ dest' = dest
  <2>1. CASE Btm!TakeOne
    <3>1. SelectInv(c)' /\ (stage' = "refused" => txout = <<>>)
      BY <1>1, <2>1, BtmTakesOne, TakeOneChooses
    <3>2. SameRequest /\ dest' = dest /\ stage' # "done"
      BY <2>1 DEF Btm!TakeOne, SameRequest, request, Btm!request
    <3> QED
      BY <3>1, <3>2
  <2>2. CASE Btm!TakeLargest
    BY <1>1, <2>2, BtmTakesLargest, TakeLargestChooses
  <2>3. CASE Btm!Pad
    BY <1>1, <2>3, BtmPads, PadChooses
  <2> QED
    BY <2>1, <2>2, <2>3
<1>3. Btm!BtmFeeInBounds' /\ Btm!BtmPayeesPaid'
  BY <1>2 DEF Btm!BtmFeeInBounds, Btm!BtmPayeesPaid, Btm!Done
<1>4. Btm!BtmRefusedForCause'
  <2>1. CASE stage' = "refused"
    <3>1. Select(c)!Total(txout) < Select(c)!AllNeeded
      BY <1>1, <1>2, <2>1, NothingIsTooLittle DEF SelectInv
    <3>2. Btm!Total(txout) < Btm!AllNeeded
      BY <3>1, BtmSums, SelectSums
    <3>3. Btm!Total(txout)' = Btm!Total(txout) /\ Btm!AllNeeded' = Btm!AllNeeded
      <4>1. txout' = txout /\ dest' = dest
        BY <1>2, <2>1 DEF SameRequest, request
      <4> QED
        BY <4>1 DEF Btm!AllNeeded, Btm!Total, Btm!MapThenSumSet, Btm!MapThenFoldSet
    <3> QED
      BY <3>2, <3>3 DEF Btm!BtmRefusedForCause
  <2> QED
    BY <2>1 DEF Btm!BtmRefusedForCause
<1> QED
  BY <1>2, <1>3, <1>4 DEF BtmInv


-----------------------------------------------------------------------------
(* The Bitcoin outputs that pay for a transfer of tokens.                  *)

UsdtConfig == Config["usdt"]

\* The numbers of its configuration.
LEMMA UsdtNumbers ==
    /\ UsdtConfig.coin \subseteq Nat \ {0} /\ UsdtConfig.amount \subseteq Nat \ {0}
    /\ UsdtConfig.maxCoins \in Nat /\ UsdtConfig.fee \in Nat /\ UsdtConfig.fee > 0
    /\ UsdtConfig.perFee \in Nat /\ UsdtConfig.vinSize \in Nat /\ UsdtConfig.voutSize \in Nat
    /\ UsdtConfig.dust \in Nat /\ UsdtConfig.unit \in Nat \ {0} /\ UsdtConfig.payloadSize \in Nat
<1>1. "usdt" \in Chains
  BY DEF Chains
<1>2. /\ UsdtConfig.coin \subseteq Nat \ {0} /\ UsdtConfig.amount \subseteq Nat \ {0}
      /\ {UsdtConfig.maxCoins, UsdtConfig.fee, UsdtConfig.perFee, UsdtConfig.vinSize,
          UsdtConfig.voutSize, UsdtConfig.dust} \subseteq Nat
      /\ UsdtConfig.unit \in Nat \ {0}
  BY <1>1, ConfigAssumption DEF UsdtConfig
<1>3. UsdtConfig.payloadSize \in Nat /\ UsdtConfig.fee > 0
  BY ConfigAssumption DEF UsdtConfig
<1> QED
  BY <1>2, <1>3

\* The request.
UsdtAsking ==
    /\ txout \in Usdt!Wallets /\ omniBalance \in UsdtConfig.amount
    /\ dest \in UNION {[S -> UsdtConfig.amount] : S \in (SUBSET (Payee \cup {From})) \ {{}}}

\* The outputs that are counted: an output of dust, which comes last, is not.
Counted == IF hasDust THEN Len(used) - 1 ELSE Len(used)

\* The largest outputs are taken until the fee is paid, then one of dust may be.
UsdtTaking ==
    /\ used \in Seq(DOMAIN txout) /\ Counted \in Nat
    /\ \A k \in 1..Counted : used[k] = k
    /\ Counted > 0 => Worth(1..(Counted - 1)) < UsdtConfig.fee
    /\ hasDust => /\ txout[used[Len(used)]] = UsdtConfig.dust
                  /\ used # <<>> /\ Len(used) = Counted + 1

\* How far the choice is at each step.
UsdtChoosing ==
    /\ stage \in {"fee", "dust", "pay", "done", "refused"} /\ hasDust \in BOOLEAN
    /\ stage \in {"fee", "dust"} => hasDust = FALSE
    /\ stage \in {"dust", "pay", "done"} => Cardinality(DOMAIN dest) = 1
    /\ stage = "dust" => Worth(1..Counted) >= UsdtConfig.fee \/ Counted = Len(txout)
    /\ stage \in {"pay", "done"} => Worth(1..Counted) >= UsdtConfig.fee

\* The inductive invariant of the choice.
UsdtSelectInv ==
    /\ UsdtAsking /\ UsdtTaking /\ UsdtChoosing /\ DOMAIN vouts \subseteq Payee \cup {From}

\* A wallet is in the order of its outputs, the largest first.
LEMMA UsdtAskingFacts ==
    ASSUME UsdtAsking
    PROVE  /\ Len(txout) \in Nat /\ Len(txout) <= UsdtConfig.maxCoins
           /\ DOMAIN txout = 1..Len(txout) /\ IsFiniteSet(DOMAIN txout)
           /\ txout \in Seq(UsdtConfig.coin)
           /\ \A k \in DOMAIN txout : txout[k] \in Nat /\ txout[k] > 0
           /\ \A j, k \in DOMAIN txout : j <= k => txout[j] >= txout[k]
           /\ DOMAIN dest \subseteq Payee \cup {From} /\ IsFiniteSet(DOMAIN dest)
<1>1. PICK n \in 0..UsdtConfig.maxCoins :
         txout \in [1..n -> UsdtConfig.coin] /\ \A k \in 1..(n - 1) : txout[k] >= txout[k + 1]
  BY DEF UsdtAsking, Usdt!Wallets, UsdtConfig
<1>2. n \in Nat /\ n <= UsdtConfig.maxCoins
  BY <1>1, UsdtNumbers
<1>3. txout \in Seq(UsdtConfig.coin) /\ Len(txout) = n /\ DOMAIN txout = 1..n
  <2>1. ASSUME NEW T, NEW f \in [1..n -> T] PROVE f \in Seq(T) /\ Len(f) = n /\ DOMAIN f = 1..n
    BY <1>2
  <2> QED
    BY <1>1, <2>1
<1>4. \A k \in 1..n : txout[k] \in Nat /\ txout[k] > 0
  BY <1>1, UsdtNumbers
<1>5. txout \in [1..n -> Int]
  BY <1>1, UsdtNumbers
<1>6. \A j, k \in 1..n : j <= k => txout[j] >= txout[k]
  BY <1>1, <1>2, <1>5, SortedThroughout
<1>7. IsFiniteSet(1..n)
  BY <1>2, FS_Interval
<1>8. PICK S \in (SUBSET (Payee \cup {From})) \ {{}} : dest \in [S -> UsdtConfig.amount]
  BY DEF UsdtAsking
<1>9. IsFiniteSet(Payee \cup {From})
  BY ConfigAssumption, FS_AddElement
<1>10. DOMAIN dest = S /\ IsFiniteSet(S) /\ S \subseteq Payee \cup {From}
  BY <1>8, <1>9, FS_Subset
<1> QED
  BY <1>2, <1>3, <1>4, <1>6, <1>7, <1>10

\* More outputs are not worth less.
LEMMA UsdtWorth ==
    ASSUME UsdtAsking, NEW J \in SUBSET DOMAIN txout
    PROVE  Worth(J) \in Nat /\ \A I \in SUBSET J : Worth(I) \in Nat /\ Worth(I) <= Worth(J)
<1>1. IsFiniteSet(J) /\ \A k \in J : txout[k] \in Nat
  BY UsdtAskingFacts, FS_Subset
<1> QED
  BY <1>1, SumOfGrows DEF Worth

\* Its sums; that of the outputs taken is over those that are counted.
LEMMA UsdtSums ==
    /\ \A f : Usdt!Total(f) = SumOf(f, DOMAIN f)
    /\ Usdt!Sum = SumAt(txout, used, 1..Counted)
    /\ Usdt!Inputs = Inputs
    /\ \A J : Usdt!MapThenSumSet(LAMBDA k : txout[k], J) = Worth(J)
    /\ Usdt!Paid = Worth(Inputs) - SumOf(vouts, DOMAIN vouts)
    /\ \A S : Usdt!Cardinality(S) = Cardinality(S)
<1>1. \A f : Usdt!Total(f) = SumOf(f, DOMAIN f)
  BY DEF Usdt!Total, SumOf, MapThenSumSet, MapThenFoldSet, Usdt!MapThenSumSet,
     Usdt!MapThenFoldSet
<1>2. Usdt!Sum = SumAt(txout, used, 1..Counted)
  BY DEF Usdt!Sum, SumAt, Counted, MapThenSumSet, MapThenFoldSet, Usdt!MapThenSumSet,
     Usdt!MapThenFoldSet
<1>3. Usdt!Inputs = Inputs
  BY DEF Usdt!Inputs, Inputs
<1>4. \A J : Usdt!MapThenSumSet(LAMBDA k : txout[k], J) = Worth(J)
  BY DEF Worth, SumOf, MapThenSumSet, MapThenFoldSet, Usdt!MapThenSumSet, Usdt!MapThenFoldSet
<1>5. Usdt!Paid = Worth(Inputs) - SumOf(vouts, DOMAIN vouts)
  BY <1>1, <1>3, <1>4 DEF Usdt!Paid
<1>6. \A S : Usdt!Cardinality(S) = Cardinality(S)
  BY DEF Usdt!Cardinality, Cardinality, Usdt!IsFiniteSet, IsFiniteSet
<1> QED
  BY <1>1, <1>2, <1>3, <1>4, <1>5, <1>6

\* What is counted are the largest outputs, each once.
LEMMA UsdtTakingFacts ==
    ASSUME UsdtAsking, UsdtTaking
    PROVE  /\ Len(used) \in Nat /\ DOMAIN used = 1..Len(used)
           /\ Counted \in Nat /\ Counted <= Len(txout) /\ 1..Counted \subseteq DOMAIN txout
           /\ Len(used) = IF hasDust THEN Counted + 1 ELSE Counted
           /\ Usdt!Sum = Worth(1..Counted) /\ Worth(1..Counted) \in Nat
<1>1. Len(used) \in Nat /\ DOMAIN used = 1..Len(used) /\ Counted \in Nat
      /\ Len(used) = (IF hasDust THEN Counted + 1 ELSE Counted)
  BY DEF UsdtTaking, Counted
<1>2. \A k \in 1..Counted : used[k] = k /\ k \in DOMAIN txout
  <2>1. \A k \in 1..Counted : k \in DOMAIN used
    BY <1>1
  <2>2. \A k \in DOMAIN used : used[k] \in DOMAIN txout
    BY DEF UsdtTaking
  <2> QED
    BY <2>1, <2>2 DEF UsdtTaking
<1>3. Counted <= Len(txout)
  <2>1. Counted \in 1..Counted \/ Counted = 0
    BY <1>1
  <2> QED
    BY <1>1, <1>2, <2>1, UsdtAskingFacts
<1>4. IsFiniteSet(1..Counted) /\ \A k \in 1..Counted : txout[used[k]] \in Int
  <2>1. \A k \in 1..Counted : txout[k] \in Int
    BY <1>2, UsdtAskingFacts
  <2>2. \A k \in 1..Counted : txout[used[k]] \in Int
    BY <1>2, <2>1
  <2>3. \A m \in Nat : IsFiniteSet(1..m)
    BY FS_Interval
  <2> QED
    BY <1>1, <2>2, <2>3
<1>5. {used[k] : k \in 1..Counted} = 1..Counted
  BY <1>2
<1>6. SumAt(txout, used, 1..Counted) = Worth(1..Counted)
  <2>1. \A j, k \in 1..Counted : used[j] = used[k] => j = k
    BY <1>2
  <2>2. SumAt(txout, used, 1..Counted) = SumOf(txout, {used[k] : k \in 1..Counted})
    <3> DEFINE S == 1..Counted
    <3>1. /\ IsFiniteSet(S) /\ \A j, k \in S : used[j] = used[k] => j = k
          /\ \A k \in S : txout[used[k]] \in Int
      BY <1>4, <2>1
    <3> HIDE DEF S
    <3>2. SumAt(txout, used, S) = SumOf(txout, {used[k] : k \in S})
      BY <3>1, SumOfImage
    <3> QED
      BY <3>2 DEF S
  <2> QED
    BY <1>5, <2>2 DEF Worth
<1>7. 1..Counted \in SUBSET DOMAIN txout
  BY <1>2
<1>8. Worth(1..Counted) \in Nat
  BY <1>7, UsdtWorth
<1> QED
  BY <1>1, <1>3, <1>6, <1>7, <1>8, UsdtSums
\* The invariant of usdt.
UsdtInv ==
    /\ UsdtSelectInv
    /\ Usdt!DustTwiceOnlyWhenShort /\ Usdt!PaysForSize /\ Usdt!RefusedForCause

\* A step changes no part of the request.
LEMMA UsdtSameRequest ==
    ASSUME txout' = txout, dest' = dest, omniBalance' = omniBalance
    PROVE  /\ UsdtAsking' = UsdtAsking /\ \A J : Worth(J)' = Worth(J)
           /\ Usdt!Total(txout') = Worth(DOMAIN txout)
           /\ Usdt!RefusedForCause' <=>
                (stage' = "refused" => \/ Cardinality(DOMAIN dest) # 1
                                       \/ Worth(DOMAIN txout) < UsdtConfig.fee
                                       \/ Usdt!SizeFee' > UsdtConfig.fee)
<1>1. UsdtAsking' = UsdtAsking
  BY DEF UsdtAsking, Usdt!Wallets
<1>2. \A J : Worth(J)' = Worth(J)
  BY DEF Worth
<1>3. Usdt!Total(txout') = Worth(DOMAIN txout)
  BY UsdtSums DEF Worth
<1>4. Usdt!Cardinality(DOMAIN dest) = Cardinality(DOMAIN dest)
  BY UsdtSums
<1>5. Usdt!RefusedForCause' <=>
        (stage' = "refused" => \/ Usdt!Cardinality(DOMAIN dest) # 1
                               \/ Usdt!Total(txout') < UsdtConfig.fee
                               \/ Usdt!SizeFee' > UsdtConfig.fee)
  BY DEF Usdt!RefusedForCause, UsdtConfig
<1> QED
  BY <1>1, <1>2, <1>3, <1>4, <1>5

\* Refuse keeps the invariant.
LEMMA UsdtRefuses ==
    ASSUME UsdtSelectInv, Usdt!Refuse
    PROVE  UsdtInv'
<1>1. /\ txout' = txout /\ dest' = dest /\ omniBalance' = omniBalance
      /\ stage' = "refused" /\ used' = used /\ hasDust' = hasDust /\ vouts' = vouts
      /\ stage = "fee" /\ used = <<>>
      /\ txout = <<>> \/ Cardinality(DOMAIN dest) # 1
  BY UsdtSums DEF Usdt!Refuse, Usdt!Refuses, Usdt!request
<1>2. UsdtAsking' /\ \A J : Worth(J)' = Worth(J)
  BY <1>1, UsdtSameRequest DEF UsdtSelectInv
<1>3. UsdtTaking'
  <2>1. Counted' = Counted
    BY <1>1 DEF Counted
  <2> QED
    BY <1>1, <1>2, <2>1 DEF UsdtSelectInv, UsdtTaking
<1>4. UsdtSelectInv'
  BY <1>1, <1>2, <1>3 DEF UsdtSelectInv, UsdtChoosing
<1>5. txout = <<>> => Worth(DOMAIN txout) < UsdtConfig.fee
  <2>1. txout = <<>> => Worth(DOMAIN txout) = 0
    BY SumOfEmpty DEF Worth
  <2> QED
    BY <2>1, UsdtNumbers
<1>6. Usdt!RefusedForCause'
  BY <1>1, <1>5, UsdtSameRequest
<1>7. Usdt!DustTwiceOnlyWhenShort' /\ Usdt!PaysForSize'
  BY <1>1 DEF Usdt!DustTwiceOnlyWhenShort, Usdt!PaysForSize, Usdt!Done
<1> QED
  BY <1>4, <1>6, <1>7 DEF UsdtInv

\* TakeForFee keeps it: outputs are taken until they pay the fee.
LEMMA UsdtTakes ==
    ASSUME UsdtSelectInv, Usdt!TakeForFee
    PROVE  UsdtInv'
<1> DEFINE n == Len(used)
           N == Len(txout)
           f == UsdtConfig.fee
<1>1. /\ txout' = txout /\ dest' = dest /\ omniBalance' = omniBalance
      /\ hasDust' = hasDust /\ vouts' = vouts /\ stage = "fee" /\ hasDust = FALSE
      /\ Cardinality(DOMAIN dest) = 1
  BY UsdtSums DEF Usdt!TakeForFee, Usdt!Refuses, Usdt!request, UsdtSelectInv, UsdtChoosing
<1>2. UsdtAsking' /\ \A J : Worth(J)' = Worth(J)
  BY <1>1, UsdtSameRequest DEF UsdtSelectInv
<1>3. /\ n \in Nat /\ DOMAIN used = 1..n /\ Counted = n /\ n <= N /\ 1..n \subseteq DOMAIN txout
      /\ Usdt!Sum = Worth(1..n) /\ Worth(1..n) \in Nat
      /\ N \in Nat /\ DOMAIN txout = 1..N /\ f \in Nat
  BY <1>1, UsdtTakingFacts, UsdtAskingFacts, UsdtNumbers DEF UsdtSelectInv
<1>4. \/ stage' = "dust" /\ used' = used /\ (Worth(1..n) >= f \/ n = N)
      \/ stage' = "fee" /\ used' = Append(used, n + 1) /\ ~(Worth(1..n) >= f) /\ n # N
  BY <1>1, <1>3 DEF Usdt!TakeForFee, Usdt!FeeCovered, UsdtConfig
<1>5. stage' \in {"fee", "dust"} /\ (DOMAIN vouts \subseteq Payee \cup {From})'
  BY <1>1, <1>4 DEF UsdtSelectInv
<1>8. Usdt!DustTwiceOnlyWhenShort' /\ Usdt!PaysForSize' /\ Usdt!RefusedForCause'
  BY <1>5 DEF Usdt!DustTwiceOnlyWhenShort, Usdt!PaysForSize, Usdt!RefusedForCause, Usdt!Done
<1>6. CASE stage' = "dust"
  <2>1. used' = used /\ (Worth(1..n) >= f \/ n = N)
    BY <1>4, <1>6
  <2>2. Counted' = Counted
    BY <1>1, <2>1 DEF Counted
  <2>3. UsdtTaking'
    BY <1>1, <1>2, <2>1, <2>2 DEF UsdtSelectInv, UsdtTaking
  <2>4. UsdtChoosing'
    BY <1>1, <1>2, <1>3, <1>6, <2>1, <2>2 DEF UsdtChoosing
  <2> QED
    BY <1>2, <1>5, <1>8, <2>3, <2>4 DEF UsdtInv, UsdtSelectInv
<1>7. CASE stage' = "fee"
  <2>1. used' = Append(used, n + 1) /\ ~(Worth(1..n) >= f) /\ n < N
    <3>1. \A a, b \in Nat : a <= b /\ a # b => a < b
      OBVIOUS
    <3> HIDE DEF n, N
    <3> QED
      BY <1>3, <1>4, <1>7, <3>1
  <2>2. /\ used' \in Seq(DOMAIN txout) /\ Len(used') = n + 1
        /\ \A k \in 1..(n + 1) : used'[k] = k
    <3>1. \A k \in 1..n : used[k] = k
      BY <1>3 DEF UsdtSelectInv, UsdtTaking
    <3>2. n + 1 \in DOMAIN txout
      BY <1>3, <2>1
    <3>3. used \in Seq(DOMAIN txout)
      BY DEF UsdtSelectInv, UsdtTaking
    <3> QED
      BY <1>3, <2>1, <3>1, <3>2, <3>3
  <2>3. Counted' = n + 1
    BY <1>1, <2>2 DEF Counted
  <2>4. Worth(1..(n + 1 - 1)) < f
    <3>1. n + 1 - 1 = n
      BY <1>3
    <3>2. Worth(1..n) < f
      BY <1>3, <2>1
    <3> QED
      BY <3>1, <3>2
  <2>5. UsdtTaking'
    BY <1>1, <1>2, <1>3, <2>2, <2>3, <2>4 DEF UsdtTaking
  <2>6. UsdtChoosing'
    BY <1>1, <1>7 DEF UsdtChoosing
  <2> QED
    BY <1>2, <1>5, <1>8, <2>5, <2>6 DEF UsdtInv, UsdtSelectInv
<1> QED
  BY <1>5, <1>6, <1>7

\* AddDust keeps it: an output of dust is added, which may have been taken already.
LEMMA UsdtAddsDust ==
    ASSUME UsdtSelectInv, Usdt!AddDust
    PROVE  UsdtInv'
<1> DEFINE n == Len(used)
           N == Len(txout)
           f == UsdtConfig.fee
           D == Usdt!DustCoins
<1>1. /\ txout' = txout /\ dest' = dest /\ omniBalance' = omniBalance
      /\ vouts' = vouts /\ stage = "dust" /\ hasDust = FALSE
      /\ Cardinality(DOMAIN dest) = 1 /\ (Worth(1..Counted) >= f \/ Counted = N)
  BY DEF Usdt!AddDust, Usdt!request, UsdtSelectInv, UsdtChoosing
<1>2. UsdtAsking' /\ \A J : Worth(J)' = Worth(J)
  BY <1>1, UsdtSameRequest DEF UsdtSelectInv
<1>3. /\ n \in Nat /\ DOMAIN used = 1..n /\ Counted = n /\ n <= N /\ 1..n \subseteq DOMAIN txout
      /\ Usdt!Sum = Worth(1..n) /\ Worth(1..n) \in Nat
      /\ N \in Nat /\ DOMAIN txout = 1..N /\ f \in Nat
  BY <1>1, UsdtTakingFacts, UsdtAskingFacts, UsdtNumbers DEF UsdtSelectInv
<1>4. \/ /\ ~(Worth(1..n) >= f) /\ stage' = "refused" /\ used' = used /\ hasDust' = hasDust
      \/ /\ Worth(1..n) >= f /\ stage' = "pay" /\ D = {} /\ used' = used /\ hasDust' = FALSE
      \/ /\ Worth(1..n) >= f /\ stage' = "pay" /\ D # {}
         /\ used' = Append(used, Usdt!Min(D)) /\ hasDust' = TRUE
  BY <1>3 DEF Usdt!AddDust, Usdt!FeeCovered, UsdtConfig
<1>5. stage' \in {"refused", "pay"} /\ (DOMAIN vouts \subseteq Payee \cup {From})'
  BY <1>1, <1>4 DEF UsdtSelectInv
<1>6. Usdt!DustTwiceOnlyWhenShort' /\ Usdt!PaysForSize'
  BY <1>5 DEF Usdt!DustTwiceOnlyWhenShort, Usdt!PaysForSize, Usdt!Done
<1>7. CASE used' = used /\ hasDust' = FALSE
  <2>1. Counted' = Counted
    BY <1>1, <1>7 DEF Counted
  <2>2. UsdtTaking'
    BY <1>1, <1>2, <1>7, <2>1 DEF UsdtSelectInv, UsdtTaking
  <2>3. UsdtChoosing'
    BY <1>1, <1>2, <1>3, <1>4, <1>5, <1>7, <2>1 DEF UsdtChoosing
  <2>4. stage' = "refused" => Worth(DOMAIN txout) < f
    <3>1. stage' = "refused" => n = N /\ ~(Worth(1..n) >= f)
      BY <1>1, <1>3, <1>4
    <3> HIDE DEF n
    <3> QED
      BY <1>3, <3>1
  <2>5. Usdt!RefusedForCause'
    BY <1>1, <2>4, UsdtSameRequest
  <2> QED
    BY <1>2, <1>5, <1>6, <2>2, <2>3, <2>5 DEF UsdtInv, UsdtSelectInv
<1>8. CASE /\ Worth(1..n) >= f /\ stage' = "pay" /\ D # {}
           /\ used' = Append(used, Usdt!Min(D)) /\ hasDust' = TRUE
  <2> DEFINE m == Usdt!Min(D)
  <2>1. m \in D
    <3>1. D \subseteq Nat
      BY <1>3 DEF Usdt!DustCoins
    <3>2. Usdt!Min(D) = CHOOSE x \in D : \A y \in D : x <= y
      BY DEF Usdt!Min
    <3> HIDE DEF D
    <3>3. \E x \in D : \A y \in D : x <= y
      BY <1>8, <3>1, Smallest
    <3> QED
      BY <3>2, <3>3
  <2>2. m \in DOMAIN txout /\ txout[m] = UsdtConfig.dust
    BY <2>1 DEF Usdt!DustCoins, UsdtConfig
  <2> HIDE DEF m
  <2>3. /\ used' \in Seq(DOMAIN txout) /\ Len(used') = n + 1 /\ used'[n + 1] = m
        /\ \A k \in 1..n : used'[k] = used[k]
    <3>1. used' = Append(used, m) /\ used \in Seq(DOMAIN txout)
      BY <1>8 DEF UsdtSelectInv, UsdtTaking, m
    <3> QED
      BY <1>3, <2>2, <3>1
  <2>4. Counted' = n
    <3>1. Counted' = Len(used') - 1
      BY <1>8 DEF Counted
    <3> QED
      BY <1>3, <2>3, <3>1
  <2>5. \A k \in 1..n : used[k] = k
    BY <1>3 DEF UsdtSelectInv, UsdtTaking
  <2>6. n > 0 => Worth(1..(n - 1)) < f
    BY <1>3 DEF UsdtSelectInv, UsdtTaking
  <2>7. UsdtTaking'
    <3>1. used' # <<>>
      BY <1>3, <2>3
    <3> QED
      BY <1>1, <1>2, <1>3, <2>2, <2>3, <2>4, <2>5, <2>6, <3>1 DEF UsdtTaking
  <2>8. UsdtChoosing'
    BY <1>1, <1>2, <1>8, <2>4 DEF UsdtChoosing
  <2>9. Usdt!RefusedForCause'
    BY <1>8 DEF Usdt!RefusedForCause
  <2> QED
    BY <1>2, <1>5, <1>6, <2>7, <2>8, <2>9 DEF UsdtInv, UsdtSelectInv
<1> QED
  BY <1>1, <1>4, <1>7, <1>8
\* Different outputs, of which the one of dust comes last.
LEMMA UsdtInputs ==
    ASSUME UsdtAsking, UsdtTaking
    PROVE  LET m == used[Len(used)] IN
           /\ Inputs \subseteq DOMAIN txout
           /\ Inputs = IF hasDust THEN (1..Counted) \cup {m} ELSE 1..Counted
           /\ hasDust => m \in DOMAIN txout /\ txout[m] = UsdtConfig.dust
           /\ Cardinality(Inputs) = Len(used) =>
                Worth(Inputs) = Worth(1..Counted) + IF hasDust THEN UsdtConfig.dust ELSE 0
           /\ Cardinality(Inputs) < Len(used) => hasDust /\ m \in 1..Counted
<1> DEFINE n == Len(used)
           m == used[Len(used)]
           p == Counted
<1>1. /\ n \in Nat /\ DOMAIN used = 1..n /\ p \in Nat /\ 1..p \subseteq DOMAIN txout
      /\ n = IF hasDust THEN p + 1 ELSE p
  BY UsdtTakingFacts
<1>2. /\ \A k \in 1..p : used[k] = k
      /\ hasDust => txout[m] = UsdtConfig.dust
      /\ \A k \in 1..n : used[k] \in DOMAIN txout
  BY <1>1 DEF UsdtTaking
<1>3. Inputs \subseteq DOMAIN txout
  BY <1>1, <1>2 DEF Inputs
<1>4. hasDust => m \in DOMAIN txout
  BY <1>1, <1>2
<1>5. Inputs = IF hasDust THEN (1..p) \cup {m} ELSE 1..p
  <2>1. CASE hasDust
    <3>1. 1..n = 1..p \cup {n}
      BY <1>1, <2>1
    <3> QED
      BY <1>1, <1>2, <2>1, <3>1 DEF Inputs
  <2>2. CASE ~hasDust
    BY <1>1, <1>2, <2>2 DEF Inputs
  <2> QED
    BY <2>1, <2>2
<1>6. IsFiniteSet(1..p) /\ Cardinality(1..p) = p
  <2>1. ASSUME NEW a \in Nat PROVE IsFiniteSet(1..a) /\ Cardinality(1..a) = a
    <3>1. IsFiniteSet(1..a) /\ Cardinality(1..a) = IF 1 > a THEN 0 ELSE a - 1 + 1
      BY FS_Interval
    <3> QED
      BY <3>1
  <2> HIDE DEF p
  <2> QED
    BY <1>1, <2>1
<1>7. hasDust => Cardinality(Inputs) = IF m \in 1..p THEN p ELSE p + 1
  BY <1>5, <1>6, FS_AddElement
<1> HIDE DEF n, m, p
<1>8. Cardinality(Inputs) < n => hasDust /\ m \in 1..p
  BY <1>1, <1>5, <1>6, <1>7
<1>9. Cardinality(Inputs) = n =>
        Worth(Inputs) = Worth(1..p) + IF hasDust THEN UsdtConfig.dust ELSE 0
  <2>1. Worth(1..p) \in Nat
    BY UsdtTakingFacts DEF p
  <2>2. CASE ~hasDust
    BY <1>5, <2>1, <2>2
  <2>3. CASE hasDust /\ Cardinality(Inputs) = n
    <3>1. m \notin 1..p
      BY <1>1, <1>7, <2>3
    <3>2. \A k \in (1..p) \cup {m} : txout[k] \in Int
      BY <1>1, <1>4, <2>3, UsdtAskingFacts
    <3>3. Worth((1..p) \cup {m}) = txout[m] + Worth(1..p)
      <4> DEFINE S == 1..p
      <4>1. IsFiniteSet(S) /\ m \notin S /\ \A k \in S \cup {m} : txout[k] \in Int
        BY <1>6, <3>1, <3>2
      <4> HIDE DEF S
      <4>2. SumOf(txout, S \cup {m}) = txout[m] + SumOf(txout, S)
        BY <4>1, SumOfAdd
      <4> QED
        BY <4>2 DEF S, Worth
    <3> QED
      BY <1>2, <1>5, <2>1, <2>3, <3>3, UsdtNumbers
  <2> QED
    BY <2>2, <2>3
<1> QED
  BY <1>2, <1>3, <1>4, <1>5, <1>8, <1>9 DEF n, m, p

\* An output of dust that is taken once more is one of those that pay the fee.
LEMMA UsdtTwice ==
    ASSUME UsdtAsking, UsdtTaking, Cardinality(Inputs) < Len(used)
    PROVE  Worth({k \in DOMAIN txout : txout[k] > UsdtConfig.dust}) < UsdtConfig.fee
<1> DEFINE m == used[Len(used)]
           p == Counted
           L == {k \in DOMAIN txout : txout[k] > UsdtConfig.dust}
           f == UsdtConfig.fee
<1>1. hasDust /\ m \in 1..p /\ m \in DOMAIN txout /\ txout[m] = UsdtConfig.dust
  BY UsdtInputs
<1>2. p \in Nat /\ 1..p \subseteq DOMAIN txout /\ DOMAIN txout = 1..Len(txout)
      /\ Len(txout) \in Nat /\ (p > 0 => Worth(1..(p - 1)) < f)
      /\ f \in Nat /\ UsdtConfig.dust \in Nat
  BY UsdtTakingFacts, UsdtAskingFacts, UsdtNumbers DEF UsdtTaking
<1> HIDE DEF m, p, f
<1>3. L \subseteq 1..(p - 1)
  <2> SUFFICES ASSUME NEW k \in DOMAIN txout, txout[k] > UsdtConfig.dust PROVE k \in 1..(p - 1)
    OBVIOUS
  <2>1. ~(m <= k)
    <3>1. m <= k => txout[m] >= txout[k]
      BY <1>1, UsdtAskingFacts
    <3>2. txout[k] \in Nat
      BY UsdtAskingFacts
    <3> QED
      BY <1>1, <1>2, <3>1, <3>2
  <2> QED
    BY <1>1, <1>2, <2>1
<1> HIDE DEF L
<1>4. Worth(L) <= Worth(1..(p - 1)) /\ Worth(L) \in Nat /\ Worth(1..(p - 1)) \in Nat
  <2>1. 1..(p - 1) \in SUBSET DOMAIN txout
    BY <1>2
  <2> QED
    BY <1>3, <2>1, UsdtWorth
<1> QED
  BY <1>1, <1>2, <1>4 DEF L, f

\* The fee for the size is a number.
LEMMA UsdtSizeFee ==
    ASSUME UsdtAsking, UsdtTaking
    PROVE  Usdt!SizeFee \in Nat
<1> DEFINE n == Len(used)
           size == n * UsdtConfig.vinSize + 2 * UsdtConfig.voutSize + UsdtConfig.payloadSize
           z == size + UsdtConfig.unit - 1
<1>1. Usdt!SizeFee = (z \div UsdtConfig.unit) * UsdtConfig.perFee
  BY DEF Usdt!SizeFee, UsdtConfig
<1>2. n \in Nat
  BY UsdtTakingFacts
<1> HIDE DEF n
<1>3. n * UsdtConfig.vinSize \in Nat /\ 2 * UsdtConfig.voutSize \in Nat
  BY <1>2, UsdtNumbers
<1>4. size \in Nat
  BY <1>3, UsdtNumbers
<1> HIDE DEF size
<1>5. z \in Nat
  BY <1>4, UsdtNumbers
<1> HIDE DEF z
<1>6. z \div UsdtConfig.unit \in Nat
  BY <1>5, UsdtNumbers
<1>7. (z \div UsdtConfig.unit) * UsdtConfig.perFee \in Nat
  BY <1>6, UsdtNumbers
<1> QED
  BY <1>1, <1>7
\* What a transfer pays out: the one sent, of dust, and the change.
UsdtVouts(sent) ==
    CASE Usdt!CalFee = UsdtConfig.fee -> sent
      [] Usdt!CalFee # UsdtConfig.fee /\ From \in DOMAIN dest ->
           [sent EXCEPT ![From] = @ + Usdt!Sum - Usdt!CalFee]
      [] UsdtConfig.fee - Usdt!CalFee > UsdtConfig.dust /\ From \notin DOMAIN dest ->
           [a \in DOMAIN dest \cup {From} |->
              IF a = From THEN Usdt!Sum - Usdt!CalFee ELSE UsdtConfig.dust]
      [] OTHER -> sent

\* They go to payees and to the sender, and sum up to dust, or to that and all that is
\* counted but for the fee.
LEMMA UsdtOutputs ==
    ASSUME UsdtSelectInv, stage = "pay", NEW v,
           v = UsdtVouts([a \in DOMAIN dest |-> UsdtConfig.dust])
    PROVE  /\ DOMAIN v \subseteq Payee \cup {From}
           /\ SumOf(v, DOMAIN v) \in {UsdtConfig.dust,
                                      Usdt!Sum - Usdt!CalFee + UsdtConfig.dust}
<1> DEFINE sent == [a \in DOMAIN dest |-> UsdtConfig.dust]
           cal == Usdt!CalFee
           w == Usdt!Sum
           d == UsdtConfig.dust
           f == UsdtConfig.fee
<1>1. IsFiniteSet(DOMAIN dest) /\ DOMAIN dest \subseteq Payee \cup {From}
      /\ Cardinality(DOMAIN dest) = 1
  BY UsdtAskingFacts DEF UsdtSelectInv, UsdtChoosing
<1>2. PICK r : DOMAIN dest = {r}
  BY <1>1, FS_Singleton
<1>3. w \in Nat /\ cal \in Nat /\ d \in Nat /\ f \in Nat
  <2>1. Usdt!SizeFee \in Nat
    BY UsdtSizeFee DEF UsdtSelectInv
  <2>2. cal = IF hasDust THEN Usdt!SizeFee ELSE Usdt!SizeFee + UsdtConfig.dust
    BY DEF Usdt!CalFee, UsdtConfig
  <2> QED
    BY <2>1, <2>2, UsdtTakingFacts, UsdtNumbers DEF UsdtSelectInv
<1>4. v = CASE cal = f -> sent
            [] cal # f /\ From \in DOMAIN dest -> [sent EXCEPT ![From] = @ + w - cal]
            [] f - cal > d /\ From \notin DOMAIN dest ->
                 [a \in DOMAIN dest \cup {From} |-> IF a = From THEN w - cal ELSE d]
            [] OTHER -> sent
  BY DEF UsdtVouts
<1>5. PICK u : u = v
  OBVIOUS
<1> HIDE DEF cal, w, f, d
<1>6. DOMAIN sent = {r} /\ sent[r] = d
  BY <1>2 DEF d
<1>7. SumOf(sent, {r}) = d
  <2> HIDE DEF sent
  <2> QED
    BY <1>3, <1>6, SumOfOne
<1>8. CASE u = sent
  BY <1>1, <1>2, <1>5, <1>6, <1>7, <1>8 DEF d
<1>9. CASE From \in DOMAIN dest /\ u = [sent EXCEPT ![From] = @ + w - cal]
  <2>1. From = r /\ DOMAIN u = {r} /\ u[r] = d + w - cal
    BY <1>2, <1>6, <1>9
  <2>2. SumOf(u, {r}) = d + w - cal
    BY <1>3, <2>1, SumOfOne
  <2>3. d + w - cal = w - cal + d
    BY <1>3
  <2> QED
    BY <1>1, <1>2, <1>5, <2>1, <2>2, <2>3 DEF w, cal, d
<1>10. CASE /\ From \notin DOMAIN dest
            /\ u = [a \in DOMAIN dest \cup {From} |-> IF a = From THEN w - cal ELSE d]
  <2>1. From # r /\ DOMAIN u = {r} \cup {From} /\ u[From] = w - cal /\ u[r] = d
    BY <1>2, <1>10
  <2>2. w - cal \in Int /\ d \in Int
    BY <1>3
  <2>3. SumOf(u, {r} \cup {From}) = SumOf(sent, {r}) + u[From]
    <3>1. IsFiniteSet({r}) /\ From \notin {r}
      BY <2>1, FS_Singleton
    <3>2. \A y \in {r} : sent[y] \in Int /\ u[y] = sent[y]
      BY <1>6, <2>1, <2>2
    <3>3. PICK g : g = sent
      OBVIOUS
    <3> HIDE DEF sent
    <3>4. DOMAIN g = {r} /\ IsFiniteSet(DOMAIN g) /\ From \notin DOMAIN g
          /\ (\A a \in DOMAIN g : g[a] \in Int /\ u[a] = g[a])
          /\ DOMAIN u = DOMAIN g \cup {From} /\ u[From] \in Int
      BY <1>6, <2>1, <2>2, <3>1, <3>2, <3>3
    <3>5. SumOf(u, DOMAIN g \cup {From}) = SumOf(g, DOMAIN g) + u[From]
      BY <3>4, Extended
    <3> QED
      BY <3>3, <3>4, <3>5
  <2>4. SumOf(u, DOMAIN u) = (w - cal) + d /\ (w - cal) + d = d + (w - cal)
    BY <1>3, <1>7, <2>1, <2>3
  <2> QED
    BY <1>1, <1>2, <1>5, <2>1, <2>4 DEF w, cal, d
<1> QED
  BY <1>4, <1>5, <1>8, <1>9, <1>10

\* Pay keeps the invariant: what is left pays for the size.
LEMMA UsdtPays ==
    ASSUME UsdtSelectInv, Usdt!Pay
    PROVE  UsdtInv'
<1> DEFINE f == UsdtConfig.fee
           d == UsdtConfig.dust
           sf == Usdt!SizeFee
           w == Worth(1..Counted)
<1>1. /\ txout' = txout /\ dest' = dest /\ omniBalance' = omniBalance
      /\ used' = used /\ hasDust' = hasDust /\ stage = "pay"
  BY DEF Usdt!Pay, Usdt!request
<1>2. UsdtAsking' /\ \A J : Worth(J)' = Worth(J)
  BY <1>1, UsdtSameRequest DEF UsdtSelectInv
<1>3. Counted' = Counted /\ Inputs' = Inputs /\ sf' = sf
  BY <1>1 DEF Counted, Inputs, Usdt!SizeFee
<1>4. UsdtTaking'
  BY <1>1, <1>2, <1>3 DEF UsdtSelectInv, UsdtTaking
<1>5. \/ stage' = "refused" /\ vouts' = vouts /\ sf > f
      \/ /\ stage' = "done" /\ ~(sf > f)
         /\ vouts' = UsdtVouts([a \in DOMAIN dest |-> UsdtConfig.dust])
  BY DEF Usdt!Pay, UsdtVouts, UsdtConfig
<1>6. UsdtChoosing'
  <2>1. Counted' = Counted /\ Worth(1..Counted)' = Worth(1..Counted)
    BY <1>2, <1>3
  <2>2. /\ hasDust \in BOOLEAN /\ Cardinality(DOMAIN dest) = 1
        /\ Worth(1..Counted) >= UsdtConfig.fee
    BY <1>1 DEF UsdtSelectInv, UsdtChoosing
  <2> QED
    BY <1>1, <1>5, <2>1, <2>2 DEF UsdtChoosing
<1>7. CASE stage' = "refused" /\ vouts' = vouts /\ sf > f
  <2>1. Usdt!RefusedForCause'
    BY <1>1, <1>3, <1>7, UsdtSameRequest
  <2>2. Usdt!DustTwiceOnlyWhenShort' /\ Usdt!PaysForSize'
    BY <1>7 DEF Usdt!DustTwiceOnlyWhenShort, Usdt!PaysForSize, Usdt!Done
  <2> QED
    BY <1>2, <1>4, <1>6, <1>7, <2>1, <2>2 DEF UsdtInv, UsdtSelectInv
<1>8. CASE /\ stage' = "done" /\ ~(sf > f)
           /\ vouts' = UsdtVouts([a \in DOMAIN dest |-> UsdtConfig.dust])
  <2>1. /\ DOMAIN vouts' \subseteq Payee \cup {From}
        /\ SumOf(vouts', DOMAIN vouts') \in {d, Usdt!Sum - Usdt!CalFee + d}
    BY <1>1, <1>8, UsdtOutputs
  <2>2. /\ sf \in Nat /\ w \in Nat /\ d \in Nat /\ f \in Nat /\ Usdt!Sum = w /\ w >= f
        /\ Usdt!CalFee = IF hasDust THEN sf ELSE sf + d
    <3>1. sf \in Nat
      BY UsdtSizeFee DEF UsdtSelectInv
    <3>2. w \in Nat /\ Usdt!Sum = w
      BY UsdtTakingFacts DEF UsdtSelectInv
    <3>3. w >= f
      BY <1>1 DEF UsdtSelectInv, UsdtChoosing
    <3>4. Usdt!CalFee = IF hasDust THEN sf ELSE sf + d
      BY DEF Usdt!CalFee, UsdtConfig
    <3> QED
      BY <3>1, <3>2, <3>3, <3>4, UsdtNumbers
  <2>3. Usdt!Paid' = Worth(Inputs) - SumOf(vouts', DOMAIN vouts')
    <3>1. Usdt!Paid' = (Worth(Inputs) - SumOf(vouts, DOMAIN vouts))'
      BY DEF Usdt!Paid, Usdt!Inputs, Usdt!Total, Worth, Inputs, SumOf, MapThenSumSet,
         MapThenFoldSet, Usdt!MapThenSumSet, Usdt!MapThenFoldSet
    <3>2. Worth(Inputs)' = Worth(Inputs)
      BY <1>1, <1>3 DEF Worth
    <3> QED
      BY <3>1, <3>2
  <2>4. Cardinality(Inputs) = Len(used) => Usdt!Paid' >= sf \/ Usdt!Paid' >= f - d
    <3>1. Cardinality(Inputs) = Len(used) => Worth(Inputs) = w + IF hasDust THEN d ELSE 0
      BY UsdtInputs DEF UsdtSelectInv
    <3> SUFFICES ASSUME Cardinality(Inputs) = Len(used)
                 PROVE  Usdt!Paid' >= sf \/ Usdt!Paid' >= f - d
      OBVIOUS
    <3>2. PICK b \in Nat : b = (IF hasDust THEN d ELSE 0) /\ (hasDust => b = d) /\ (~hasDust => b = 0)
      BY <2>2
    <3>3. Usdt!CalFee = sf + d - b
      BY <2>2, <3>2
    <3> HIDE DEF sf, w, d, f
    <3>4. Usdt!Paid' \in {w + b - d, w + b - (w - (sf + d - b) + d)}
      BY <2>1, <2>2, <2>3, <3>1, <3>2, <3>3
    <3>5. CASE Usdt!Paid' = w + b - d
      BY <2>2, <3>2, <3>5
    <3>6. CASE Usdt!Paid' = w + b - (w - (sf + d - b) + d)
      BY <2>2, <3>2, <3>6
    <3> QED
      BY <3>4, <3>5, <3>6
  <2>5. Usdt!Cardinality(Inputs) = Cardinality(Inputs) /\ Usdt!Inputs' = Inputs
    BY <1>1, UsdtSums DEF Inputs, Usdt!Inputs
  <2>6. Usdt!PaysForSize'
    BY <1>1, <1>3, <2>4, <2>5 DEF Usdt!PaysForSize, UsdtConfig
  <2>7. Usdt!DustTwiceOnlyWhenShort'
    <3>1. Usdt!DustTwiceOnlyWhenShort' <=>
            (stage' = "done" /\ Usdt!Cardinality(Usdt!Inputs') < Len(used') =>
               Worth({k \in DOMAIN txout : txout[k] > d})' < f)
      BY DEF Usdt!DustTwiceOnlyWhenShort, Usdt!Done, Worth, SumOf, MapThenSumSet,
         MapThenFoldSet, Usdt!MapThenSumSet, Usdt!MapThenFoldSet, UsdtConfig
    <3>2. Worth({k \in DOMAIN txout : txout[k] > d})'
            = Worth({k \in DOMAIN txout : txout[k] > d})
      BY <1>1 DEF Worth
    <3> QED
      BY <1>1, <2>5, <3>1, <3>2, UsdtTwice DEF UsdtSelectInv
  <2>8. Usdt!RefusedForCause'
    BY <1>8 DEF Usdt!RefusedForCause
  <2> QED
    BY <1>2, <1>4, <1>6, <2>1, <2>6, <2>7, <2>8 DEF UsdtInv, UsdtSelectInv
<1> QED
  BY <1>5, <1>7, <1>8


-----------------------------------------------------------------------------
(* All chains together.                                                    *)

\* The invariant of hc.
HcInv ==
    /\ SelectInv(Hc)
    /\ Select(Hc)!HcFeeInBounds /\ Select(Hc)!HcPayeesPaid /\ Select(Hc)!HcRefusedForCause

\* What holds in every state: the choice of the chain, and what it is for.
CreateInv ==
    /\ chain \in Chains /\ isFast \in BOOLEAN /\ fullSend \in BOOLEAN
    /\ estimate \in {0} \cup Config["btm"].estimates
    /\ chain = "btc"  => BtcInv
    /\ chain = "hc"   => HcInv
    /\ chain = "btm"  => BtmInv
    /\ chain = "usdt" => UsdtInv

\* A call of a utility begins with a request, and nothing taken.
LEMMA SelectInit ==
    ASSUME NEW CONSTANT c, Chooses(c), Select(c)!Init
    PROVE  SelectInv(c) /\ stage = "large" /\ isFast \in BOOLEAN /\ fullSend \in BOOLEAN
<1>1. /\ txout \in Select(c)!Wallets /\ dest \in Select(c)!Dests /\ isFast \in BOOLEAN
      /\ fullSend \in BOOLEAN /\ stage = "large" /\ used = <<>> /\ DOMAIN vouts = {}
  BY DEF Select!Init
<1>2. txout \in Seq(c.coin) /\ Len(txout) <= c.maxCoins
  <2>1. PICK n \in 0..c.maxCoins : txout \in [1..n -> c.coin]
    BY <1>1 DEF Select!Wallets
  <2>2. n \in Nat /\ n <= c.maxCoins
    BY <2>1 DEF Chooses
  <2>3. ASSUME NEW T, NEW f \in [1..n -> T] PROVE f \in Seq(T) /\ Len(f) = n
    BY <2>2
  <2> QED
    BY <2>1, <2>2, <2>3
<1>3. Taking
  BY <1>1 DEF Taking
<1>4. Choosing(c)
  BY <1>1 DEF Choosing, Steps
<1> QED
  BY <1>1, <1>2, <1>3, <1>4 DEF SelectInv, Asking

\* So does one of usdt.
LEMMA UsdtInit ==
    ASSUME Usdt!Init
    PROVE  UsdtInv
<1>1. UsdtAsking
  BY DEF Usdt!Init, UsdtAsking, UsdtConfig
<1>2. stage = "fee" /\ used = <<>> /\ hasDust = FALSE /\ DOMAIN vouts = {}
  BY DEF Usdt!Init
<1>3. Counted = 0
  BY <1>2 DEF Counted
<1>4. UsdtTaking
  BY <1>2, <1>3 DEF UsdtTaking
<1>5. UsdtChoosing
  BY <1>2 DEF UsdtChoosing
<1>6. Usdt!DustTwiceOnlyWhenShort /\ Usdt!PaysForSize /\ Usdt!RefusedForCause
  BY <1>2 DEF Usdt!DustTwiceOnlyWhenShort, Usdt!PaysForSize, Usdt!RefusedForCause, Usdt!Done
<1> QED
  BY <1>1, <1>2, <1>4, <1>5, <1>6 DEF UsdtInv, UsdtSelectInv

\* The invariant holds when a call begins,
LEMMA InitCreate ==
    ASSUME CreateInit
    PROVE  CreateInv
<1>1. chain \in Chains /\ \E full \in BOOLEAN : Call(full)
  BY DEF CreateInit, CreateTrx, CreateFullSendTrx
<1>2. PICK full \in BOOLEAN : Call(full)
  BY <1>1
<1>3. CASE chain = "btc"
  <2>1. Select(Btc)!Init /\ estimate = 0
    BY <1>2, <1>3 DEF Call
  <2>2. SelectInv(Btc) /\ stage = "large" /\ isFast \in BOOLEAN /\ fullSend \in BOOLEAN
    BY <2>1, ConfigsChoose, SelectInit
  <2>3. BtcInv
    BY <2>2 DEF BtcInv, Select!PaysForSize, Select!PayeesPaid, Select!RefusedForCause, Select!Done
  <2> QED
    BY <1>1, <1>3, <2>1, <2>2, <2>3 DEF CreateInv
<1>4. CASE chain = "hc"
  <2>1. Select(Hc)!Init /\ estimate = 0
    BY <1>2, <1>4 DEF Call, Select!HcInit
  <2>2. SelectInv(Hc) /\ stage = "large" /\ isFast \in BOOLEAN /\ fullSend \in BOOLEAN
    BY <2>1, ConfigsChoose, SelectInit
  <2>3. HcInv
    BY <2>2 DEF HcInv, Select!HcFeeInBounds, Select!HcPayeesPaid, Select!HcRefusedForCause, Select!Done
  <2> QED
    BY <1>1, <1>4, <2>1, <2>2, <2>3 DEF CreateInv
<1>5. CASE chain = "btm"
  <2>1. Select(Config["btm"])!Init /\ estimate = 0
    BY <1>2, <1>5 DEF Call, Btm!BtmInit, Btm!Init, Select!Init, Btm!Wallets, Select!Wallets,
       Btm!Dests, Select!Dests
  <2>2. SelectInv(Config["btm"]) /\ stage = "large" /\ isFast \in BOOLEAN /\ fullSend \in BOOLEAN
    BY <2>1, ConfigsChoose, SelectInit
  <2>3. BtmInv
    BY <2>1, <2>2 DEF BtmInv, Btm!BtmFeeInBounds, Btm!BtmPayeesPaid, Btm!BtmRefusedForCause, Btm!Done
  <2> QED
    BY <1>1, <1>5, <2>1, <2>2, <2>3 DEF CreateInv
<1>6. CASE chain = "usdt"
  <2>1. Usdt!Init /\ estimate = 0 /\ isFast = FALSE /\ fullSend = FALSE
    BY <1>2, <1>6 DEF Call
  <2>2. UsdtInv
    BY <2>1, UsdtInit
  <2> QED
    BY <1>1, <1>6, <2>1, <2>2 DEF CreateInv
<1> QED
  BY <1>1, <1>3, <1>4, <1>5, <1>6 DEF Chains

\* The three steps of the choice.
LEMMA Choice ==
    ASSUME NEW CONSTANT c, Chooses(c), SelectInv(c),
           Select(c)!TakeOne \/ Select(c)!TakeLargest \/ Select(c)!Pad
    PROVE  /\ SelectInv(c)' /\ stage' # "done"
           /\ stage' = "refused" => Select(c)!Total(txout') < Select(c)!AllNeeded'
<1>1. CASE Select(c)!TakeOne
  <2>1. SelectInv(c)' /\ (stage' = "refused" => txout = <<>>)
    BY <1>1, TakeOneChooses
  <2>2. txout' = txout /\ dest' = dest /\ stage' # "done"
    BY <1>1 DEF Select!TakeOne, Select!request
  <2>3. stage' = "refused" => Select(c)!Total(txout) < Select(c)!AllNeeded
    BY <2>1, NothingIsTooLittle DEF SelectInv
  <2>4. Select(c)!Total(txout') = Select(c)!Total(txout) /\ Select(c)!AllNeeded' = Select(c)!AllNeeded
    BY <2>2 DEF Select!AllNeeded, Select!Total, Select!MapThenSumSet, Select!MapThenFoldSet
  <2> QED
    BY <2>1, <2>2, <2>3, <2>4
<1>2. CASE Select(c)!TakeLargest
  BY <1>2, TakeLargestChooses
<1>3. CASE Select(c)!Pad
  BY <1>3, PadChooses
<1> QED
  BY <1>1, <1>2, <1>3

\* the steps of btc keep it,
LEMMA BtcNext ==
    ASSUME BtcInv, Select(Btc)!Next
    PROVE  BtcInv'
<1>1. Chooses(Btc) /\ SelectInv(Btc)
  BY ConfigsChoose DEF BtcInv
<1>2. CASE Select(Btc)!TakeOne \/ Select(Btc)!TakeLargest \/ Select(Btc)!Pad
  <2>1. /\ SelectInv(Btc)' /\ stage' # "done"
        /\ stage' = "refused" => Select(Btc)!Total(txout') < Select(Btc)!AllNeeded'
    BY <1>1, <1>2, Choice
  <2>2. Select(Btc)!PaysForSize' /\ Select(Btc)!PayeesPaid'
    BY <2>1 DEF Select!PaysForSize, Select!PayeesPaid, Select!Done
  <2>3. Select(Btc)!RefusedForCause'
    BY <2>1 DEF Select!RefusedForCause
  <2> QED
    BY <2>1, <2>2, <2>3 DEF BtcInv
<1>3. CASE Select(Btc)!Pay
  BY <1>1, <1>3, BtcPays DEF BtcInv
<1> QED
  BY <1>2, <1>3 DEF Select!Next

\* those of hc,
LEMMA HcNext ==
    ASSUME HcInv, Select(Hc)!HcNext
    PROVE  HcInv'
<1>1. Chooses(Hc) /\ SelectInv(Hc)
  BY ConfigsChoose DEF HcInv
<1>2. CASE Select(Hc)!TakeOne \/ Select(Hc)!TakeLargest \/ Select(Hc)!Pad
  <2>1. /\ SelectInv(Hc)' /\ stage' # "done"
        /\ stage' = "refused" => Select(Hc)!Total(txout') < Select(Hc)!AllNeeded'
    BY <1>1, <1>2, Choice
  <2>2. Select(Hc)!HcFeeInBounds' /\ Select(Hc)!HcPayeesPaid'
    BY <2>1 DEF Select!HcFeeInBounds, Select!HcPayeesPaid, Select!Done
  <2>3. Select(Hc)!HcRefusedForCause'
    BY <2>1 DEF Select!HcRefusedForCause
  <2> QED
    BY <2>1, <2>2, <2>3 DEF HcInv
<1>3. CASE Select(Hc)!HcPay
  BY <1>1, <1>3, HcPays DEF HcInv
<1> QED
  BY <1>2, <1>3 DEF Select!HcNext
\* those of btm
LEMMA BtmNextKeeps ==
    ASSUME BtmInv, Btm!BtmNext
    PROVE  BtmInv'
<1>1. CASE (Btm!TakeOne \/ Btm!TakeLargest \/ Btm!Pad) /\ estimate' = estimate
  BY <1>1, BtmChooses DEF BtmInv
<1>2. CASE Btm!BtmPay
  BY <1>2, BtmPays DEF BtmInv
<1> QED
  BY <1>1, <1>2 DEF Btm!BtmNext

\* and those of usdt;
LEMMA UsdtNextKeeps ==
    ASSUME UsdtInv, Usdt!Next
    PROVE  UsdtInv'
<1>1. UsdtSelectInv
  BY DEF UsdtInv
<1> QED
  BY <1>1, UsdtRefuses, UsdtTakes, UsdtAddsDust, UsdtPays DEF Usdt!Next

\* so any step does,
LEMMA CreateStep ==
    ASSUME CreateInv, CreateNext
    PROVE  CreateInv'
<1>1. chain' = chain /\ chain \in Chains
  BY DEF CreateNext, CreateInv
<1>2. CASE chain = "btc"
  <2>1. Select(Btc)!Next /\ estimate' = estimate /\ BtcInv
    BY <1>2 DEF CreateNext, CreateInv
  <2>2. BtcInv'
    BY <2>1, BtcNext
  <2>3. isFast' \in BOOLEAN /\ fullSend' \in BOOLEAN
    BY <2>2 DEF BtcInv, SelectInv, Asking
  <2> QED
    BY <1>1, <1>2, <2>1, <2>2, <2>3 DEF CreateInv
<1>3. CASE chain = "hc"
  <2>1. Select(Hc)!HcNext /\ estimate' = estimate /\ HcInv
    BY <1>3 DEF CreateNext, CreateInv
  <2>2. HcInv'
    BY <2>1, HcNext
  <2>3. isFast' \in BOOLEAN /\ fullSend' \in BOOLEAN
    BY <2>2 DEF HcInv, SelectInv, Asking
  <2> QED
    BY <1>1, <1>3, <2>1, <2>2, <2>3 DEF CreateInv
<1>4. CASE chain = "btm"
  <2>1. Btm!BtmNext /\ BtmInv
    BY <1>4 DEF CreateNext, CreateInv
  <2>2. BtmInv'
    BY <2>1, BtmNextKeeps
  <2>3. isFast' \in BOOLEAN /\ fullSend' \in BOOLEAN
        /\ estimate' \in {0} \cup Config["btm"].estimates
    BY <2>2 DEF BtmInv, SelectInv, Asking
  <2> QED
    BY <1>1, <1>4, <2>1, <2>2, <2>3 DEF CreateInv
<1>5. CASE chain = "usdt"
  <2>1. Usdt!Next /\ UsdtInv /\ isFast' = isFast /\ fullSend' = fullSend /\ estimate' = estimate
    BY <1>5 DEF CreateNext, CreateInv
  <2>2. UsdtInv'
    BY <2>1, UsdtNextKeeps
  <2> QED
    BY <1>1, <1>5, <2>1, <2>2 DEF CreateInv
<1> QED
  BY <1>1, <1>2, <1>3, <1>4, <1>5 DEF Chains

\* What a utility knows is of its state.
LEMMA SelectStutter ==
    ASSUME NEW CONSTANT c, UNCHANGED createVars
    PROVE  SelectInv(c)' = SelectInv(c)
BY DEF createVars, request, SelectInv, Asking, Taking, Choosing, Greedy, Worth, Needed, Inputs,
   Select!Dests

\* and so does no step.
LEMMA CreateStutter ==
    ASSUME CreateInv, UNCHANGED createVars
    PROVE  CreateInv'
<1>1. /\ chain' = chain /\ isFast' = isFast /\ fullSend' = fullSend /\ estimate' = estimate
      /\ txout' = txout /\ dest' = dest /\ stage' = stage /\ used' = used /\ vouts' = vouts
      /\ omniBalance' = omniBalance /\ hasDust' = hasDust
  BY DEF createVars, request
<1>2. BtcInv' = BtcInv
  <2>1. SelectInv(Btc)' = SelectInv(Btc)
    BY SelectStutter
  <2>2. /\ Select(Btc)!PaysForSize' = Select(Btc)!PaysForSize
        /\ Select(Btc)!PayeesPaid' = Select(Btc)!PayeesPaid
        /\ Select(Btc)!RefusedForCause' = Select(Btc)!RefusedForCause
    BY <1>1 DEF Select!PaysForSize, Select!PayeesPaid, Select!RefusedForCause, Select!Done,
       Select!Paid, Select!Inputs, Select!CalFee, Select!SizeFee, Select!Total, Select!Sum,
       Select!AllNeeded, Select!MapThenSumSet, Select!MapThenFoldSet
  <2> QED
    BY <2>1, <2>2 DEF BtcInv
<1>3. HcInv' = HcInv
  <2>1. SelectInv(Hc)' = SelectInv(Hc)
    BY SelectStutter
  <2>2. /\ Select(Hc)!HcFeeInBounds' = Select(Hc)!HcFeeInBounds
        /\ Select(Hc)!HcPayeesPaid' = Select(Hc)!HcPayeesPaid
        /\ Select(Hc)!HcRefusedForCause' = Select(Hc)!HcRefusedForCause
    BY <1>1 DEF Select!HcFeeInBounds, Select!HcPayeesPaid, Select!HcRefusedForCause, Select!Done,
       Select!Paid, Select!Inputs, Select!SizeFee, Select!Total, Select!Sum,
       Select!AllNeeded, Select!MapThenSumSet, Select!MapThenFoldSet
  <2> QED
    BY <2>1, <2>2 DEF HcInv
<1>4. BtmInv' = BtmInv
  <2>1. SelectInv(Config["btm"])' = SelectInv(Config["btm"])
    BY SelectStutter
  <2>2. /\ Btm!BtmFeeInBounds' = Btm!BtmFeeInBounds
        /\ Btm!BtmPayeesPaid' = Btm!BtmPayeesPaid
        /\ Btm!BtmRefusedForCause' = Btm!BtmRefusedForCause
    BY <1>1 DEF Btm!BtmFeeInBounds, Btm!BtmPayeesPaid, Btm!BtmRefusedForCause, Btm!Done,
       Btm!Paid, Btm!Inputs, Btm!Total, Btm!AllNeeded, Btm!MapThenSumSet, Btm!MapThenFoldSet
  <2> QED
    BY <1>1, <2>1, <2>2 DEF BtmInv
<1>5. UsdtInv' = UsdtInv
  <2>1. UsdtSelectInv' = UsdtSelectInv
    BY <1>1 DEF UsdtSelectInv, UsdtAsking, UsdtTaking, UsdtChoosing, Counted, Worth, Usdt!Wallets
  <2>2. /\ Usdt!DustTwiceOnlyWhenShort' = Usdt!DustTwiceOnlyWhenShort
        /\ Usdt!PaysForSize' = Usdt!PaysForSize
        /\ Usdt!RefusedForCause' = Usdt!RefusedForCause
    BY <1>1 DEF Usdt!DustTwiceOnlyWhenShort, Usdt!PaysForSize, Usdt!RefusedForCause, Usdt!Done,
       Usdt!Paid, Usdt!Inputs, Usdt!Total, Usdt!SizeFee, Usdt!MapThenSumSet, Usdt!MapThenFoldSet
  <2> QED
    BY <2>1, <2>2 DEF UsdtInv
<1> QED
  BY <1>1, <1>2, <1>3, <1>4, <1>5 DEF CreateInv

\* CreateInv is an invariant of the calls.
LEMMA CreateInvariant == CreateSpec => []CreateInv
<1>1. CreateInit => CreateInv
  BY InitCreate
<1>2. CreateInv /\ [CreateNext]_createVars => CreateInv'
  BY CreateStep, CreateStutter
<1> QED
  BY <1>1, <1>2, PTL DEF CreateSpec

\* An output is taken once, and all that is known has its type.
LEMMA SelectRight ==
    ASSUME NEW CONSTANT c, Chooses(c), SelectInv(c)
    PROVE  /\ Select(c)!TypeOK /\ Cardinality(Inputs) = Len(used)
           /\ txout \in Seq(c.coin) /\ Len(txout) <= c.maxCoins
<1>1. /\ txout \in Seq(c.coin) /\ Len(txout) <= c.maxCoins
      /\ dest \in Select(c)!Dests /\ isFast \in BOOLEAN /\ fullSend \in BOOLEAN
      /\ stage \in {"large", "greedy", "pad", "pay", "done", "refused"}
      /\ used \in Seq(DOMAIN txout) /\ DOMAIN vouts \subseteq Payee \cup {From}
  BY DEF SelectInv, Asking, Taking, Choosing, Steps
<1>2. Len(used) <= Len(txout) /\ Cardinality(Inputs) = Len(used)
  BY TakingFacts DEF SelectInv
<1> QED
  BY <1>1, <1>2 DEF Select!TypeOK

\* The same, of every chain.
LEMMA SoundInputs ==
    ASSUME CreateInv
    PROVE  InputsSound
<1> DEFINE b == Config["btm"]
<1>1. chain = "btc" => Select(Btc)!TypeOK /\ Cardinality(Inputs) = Len(used)
  BY ConfigsChoose, SelectRight DEF CreateInv, BtcInv
<1>2. chain = "hc" => Select(Hc)!TypeOK /\ Cardinality(Inputs) = Len(used)
  BY ConfigsChoose, SelectRight DEF CreateInv, HcInv
<1>3. chain = "btm" => Btm!TypeOK /\ Cardinality(Inputs) = Len(used)
  <2>1. chain = "btm" => Select(b)!TypeOK /\ Cardinality(Inputs) = Len(used)
    BY ConfigsChoose, SelectRight DEF CreateInv, BtmInv
  <2>2. Select(b)!TypeOK => Btm!TypeOK
    BY DEF Select!TypeOK, Btm!TypeOK, Select!Dests, Btm!Dests
  <2> QED
    BY <2>1, <2>2
<1>4. chain = "usdt" => Usdt!TypeOK /\ Usdt!DustTwiceOnlyWhenShort
  <2> SUFFICES ASSUME chain = "usdt" PROVE Usdt!TypeOK /\ Usdt!DustTwiceOnlyWhenShort
    OBVIOUS
  <2>1. UsdtSelectInv /\ Usdt!DustTwiceOnlyWhenShort
    BY DEF CreateInv, UsdtInv
  <2>2. txout \in Seq(UsdtConfig.coin)
    BY <2>1, UsdtAskingFacts DEF UsdtSelectInv
  <2>3. hasDust => \E k \in DOMAIN used : txout[used[k]] = UsdtConfig.dust
    <3>1. /\ Len(used) \in Nat /\ DOMAIN used = 1..Len(used)
          /\ hasDust => Len(used) = Counted + 1 /\ Counted \in Nat
      BY <2>1, UsdtTakingFacts DEF UsdtSelectInv
    <3>2. hasDust => Len(used) \in DOMAIN used
      BY <3>1
    <3> QED
      BY <2>1, <3>2 DEF UsdtSelectInv, UsdtTaking
  <2>4. /\ omniBalance \in UsdtConfig.amount /\ used \in Seq(DOMAIN txout)
        /\ stage \in {"fee", "dust", "pay", "done", "refused"}
        /\ DOMAIN vouts \subseteq Payee \cup {From}
    BY <2>1 DEF UsdtSelectInv, UsdtAsking, UsdtTaking, UsdtChoosing
  <2> QED
    BY <2>1, <2>2, <2>3, <2>4 DEF Usdt!TypeOK, UsdtConfig
<1>5. CreateTypeOK
  BY <1>1, <1>2, <1>3, <1>4 DEF CreateTypeOK, CreateInv
<1>6. SpentOnce
  <2>1. Select(Btc)!SpentOnce <=> Cardinality(Inputs) = Len(used)
    BY SelectSums, SameCardinality DEF Select!SpentOnce
  <2>2. chain \in Chains
    BY DEF CreateInv
  <2> QED
    BY <1>1, <1>2, <1>3, <1>4, <2>1, <2>2 DEF SpentOnce, Chains
<1> QED
  BY <1>5, <1>6 DEF InputsSound

\* Whatever is asked of createTrx and createFullSendTrx, on whatever wallet, the inputs of
\* the transaction are outputs of it, and no output is spent twice, but for the one of dust
\* of usdt, and that only when the larger outputs do not pay its fee.
THEOREM InputsAreSound == CreateSpec => []InputsSound
BY CreateInvariant, SoundInputs, PTL

\* A finished transaction pays the payees what is asked for, and a fee that is neither too
\* low for its size or the node's estimate nor too high by more than dust.
THEOREM PaymentsAreRight == CreateSpec => []PaymentRight
<1>1. CreateInv => PaymentRight
  BY DEF CreateInv, BtcInv, HcInv, BtmInv, UsdtInv, PaymentRight, FeeInBounds, PayeesPaid
<1> QED
  BY <1>1, CreateInvariant, PTL

\* A call is refused only for want of money or for a fee that is too high.
THEOREM RefusalsHaveCause == CreateSpec => []RefusedForCause
<1>1. CreateInv => RefusedForCause
  BY DEF CreateInv, BtcInv, HcInv, BtmInv, UsdtInv, RefusedForCause
<1> QED
  BY <1>1, CreateInvariant, PTL


-----------------------------------------------------------------------------
(* HistoryApi.  The inductive invariant: what a caller has been answered   *)
(* can only grow wrong by a row that is written below its number; so it    *)
(* says which rows the collector may still write.                          *)

\* The blocks a window is about: those after the first number, up to the second.
WindowStart == blockNum + i * DepNum[historyChain]
WindowEnd   == blockNum + (i + 1) * DepNum[historyChain]

Counting  == {"withdraw?", "deposit?", "guardcall?"}
Searching == {"deposits", "withdraws", "guardcalls"}

\* A collector of btc that collects a block again has said so.
AgainSaid == historyChain = "btc" /\ phase = "again" => sync \in again

\* Rows come in the order of their blocks, so what is still to come lies behind all that
\* was written and all that was polled, but for blocks that are collected again.
ComesLater ==
    /\ historyChain = "btc" => /\ \A r \in present : r.block <= sync + 1
                        /\ \A k \in TransferKinds : polled[k] <= sync + 1
    /\ historyChain = "eth" =>
         \A r \in EthRow \ present : r.block > sync /\ r.block \notin again =>
            /\ \A p \in present : p.block <= r.block
            /\ \A k \in TransferKinds : polled[k] <= r.block

\* A number that is ahead of the collector is so by blocks that are known as raced.
Ahead == \A b \in 0..Top : sync < b /\ b <= cursor => b \in raced

\* What All.History was asked, and how far it has come with it.
AskedHistory ==
    /\ query # "idle" => upTo <= sync /\ blockNum = AskedFrom(cursor)
    /\ query \in {"idle"} \cup Counting => i = 0 /\ trxs = {}
    /\ query = "deposits" => trxs = {}
    /\ query \in {"guardcall?", "guardcalls"} => historyChain = "eth"
    /\ query \in Searching => \A r \in trxs : r.block <= WindowEnd

\* The transfers it has to find were committed when it began: none is behind the window,
\* and those in the window, of a kind it has looked for, it has.
ToFind == {r \in present : blockNum < r.block /\ r.block <= upTo /\ r.block \notin again}

LookedFor ==
    CASE query = "withdraws" -> {"deposit"} [] query = "guardcalls" -> {"deposit", "withdraw"} [] OTHER -> {}

Finds ==
    query \in Searching =>
        \A r \in ToFind : /\ r.block > WindowStart
                          /\ r.block <= WindowEnd /\ r.kind \in LookedFor => r \in trxs

HistoryInv ==
    /\ HistoryTypeOK /\ AgainSaid /\ ComesLater /\ Ahead /\ AskedHistory /\ Finds
    /\ PassesOnlyUncommitted /\ PollPassesNothing

-----------------------------------------------------------------------------
(* Numbers.                                                                *)

\* A set of numbers up to n that is not empty has a greatest one.
LEMMA Greatest ==
    ASSUME NEW n \in Nat, NEW T, T \subseteq 0..n, T # {}
    PROVE  Max(T) \in T /\ \A y \in T : y <= Max(T)
<1> DEFINE U == {x \in 0..n : n - x \in T}
<1>1. PICK t \in T : TRUE
  OBVIOUS
<1>2. n - t \in U /\ U \subseteq Nat
  BY <1>1
<1>3. PICK u \in U : \A y \in U : <<y, u>> \notin OpToRel(<, Nat)
  <2> HIDE DEF U
  <2> QED
    BY <1>2, NatLessThanWellFounded, WFMin
<1>4. \A y \in U : ~(y < u)
  BY <1>2, <1>3 DEF OpToRel
<1>5. n - u \in T /\ \A y \in T : n - u >= y
  <2>1. ASSUME NEW y \in T PROVE n - u >= y
    <3>1. n - y \in U
      BY <2>1
    <3>2. ~(n - y < u)
      BY <1>4, <3>1
    <3> QED
      BY <3>2
  <2> QED
    BY <2>1
<1>6. \E x \in T : \A y \in T : x >= y
  BY <1>5
<1>7. Max(T) \in T /\ \A y \in T : Max(T) >= y
  BY <1>6 DEF Max
<1> QED
  BY <1>7

\* What a call answers with is the greatest of the blocks it found and its number.
LEMMA NewestFacts ==
    ASSUME NEW S, \A r \in S : r.block \in 0..Top, NEW n \in 0..Top
    PROVE  /\ Newest(S, n) \in 0..Top /\ n <= Newest(S, n)
           /\ \A r \in S : r.block <= Newest(S, n)
           /\ Newest(S, n) = n \/ \E r \in S : Newest(S, n) = r.block
<1> DEFINE T == {r.block : r \in S} \cup {n}
<1>1. T \subseteq 0..Top /\ T # {} /\ n \in T /\ \A r \in S : r.block \in T
  OBVIOUS
<1>2. Top \in Nat
  BY LogAssumption
<1>3. Max(T) \in T /\ \A y \in T : y <= Max(T)
  <2> HIDE DEF T
  <2> QED
    BY <1>1, <1>2, Greatest
<1> QED
  BY <1>1, <1>3 DEF Newest

\* A window begins where the one before it ends.
LEMMA WindowFacts ==
    ASSUME NEW b \in Nat, NEW j \in Nat, NEW d \in Nat \ {0}
    PROVE  /\ b + j * d \in Nat /\ b + (j + 1) * d \in Nat
           /\ b + 0 * d = b
           /\ b + j * d <= b + (j + 1) * d
OBVIOUS

\* There are no more windows than blocks.
LEMMA WindowsBound ==
    ASSUME NEW u \in 0..Top, NEW b \in 0..Top, NEW d \in Nat \ {0}
    PROVE  (u - b) \div d \in Int /\ (u - b) \div d <= Top
<1>1. Top \in Nat
  BY LogAssumption
<1>2. PICK q \in Int : q = (u - b) \div d
  OBVIOUS
<1>3. d * q <= u - b
  BY <1>2
<1>4. CASE q <= 0
  BY <1>1, <1>2, <1>4
<1>5. CASE q > 0
  <2>1. q <= d * q
    BY <1>5
  <2> QED
    BY <1>1, <1>2, <1>3, <2>1
<1> QED
  BY <1>4, <1>5

-----------------------------------------------------------------------------
(* The beginning, and the collector.                                       *)

USE HistoryAssumption, LogAssumption

\* What is known of the constants, without the sets they are in.
LEMMA Sizes ==
    ASSUME historyChain \in HistoryChains
    PROVE  /\ Top \in Nat /\ EthBase \in 0..Top /\ DepNum[historyChain] \in Nat \ {0}
           /\ \A r \in Rows : r.block \in 0..Top /\ r.kind \in TransferKinds
           /\ historyChain = "btc" => Rows = Row /\ \A r \in Row : r.kind \in {"deposit", "withdraw"}
           /\ historyChain = "eth" => Rows = EthRow /\ \A r \in EthRow : r.block \in 1..Top
           /\ Rows' = IF historyChain' = "eth" THEN EthRow ELSE Row
BY DEF Rows, HistoryChains, TransferKinds

LEMMA InitHistory == HistoryInit => HistoryInv
<1> SUFFICES ASSUME HistoryInit PROVE HistoryInv
  OBVIOUS
<1>1. /\ historyChain \in HistoryChains /\ calls \in {{"all"}, TransferKinds}
      /\ query = "idle" /\ blockNum = 0 /\ upTo = 0 /\ found = FALSE /\ i = 0 /\ trxs = {}
      /\ cursor = 0 /\ seen = {} /\ again = {} /\ raced = {}
      /\ sync = 0 /\ present = {} /\ phase = "down"
  BY DEF HistoryInit, LogInit
<1>2. polled = [k \in TransferKinds |-> 0] /\ got = [k \in TransferKinds |-> {}]
  BY DEF HistoryInit
<1>3. HistoryTypeOK
  <2>1. Top \in Nat /\ 0 \in 0..Top
    OBVIOUS
  <2>2. Eth!EthTypeOK /\ LogTypeOK
    BY <1>1, <2>1 DEF LogTypeOK, Eth!EthTypeOK
  <2>3. polled \in [TransferKinds -> 0..Top] /\ got \in [TransferKinds -> SUBSET Rows]
    BY <1>2, <2>1
  <2> QED
    BY <1>1, <2>1, <2>2, <2>3 DEF HistoryTypeOK
<1>4. AgainSaid /\ ComesLater /\ Ahead
  BY <1>1, <1>2 DEF AgainSaid, ComesLater, Ahead
<1>5. AskedHistory /\ Finds
  BY <1>1 DEF AskedHistory, Finds, Counting, Searching
<1>6. PassesOnlyUncommitted /\ PollPassesNothing
  BY <1>1 DEF PassesOnlyUncommitted, PollPassesNothing
<1> QED
  BY <1>3, <1>4, <1>5, <1>6 DEF HistoryInv

\* What the collectors do to the transfers.
Collected ==
    /\ historyChain' = historyChain /\ UNCHANGED <<calls, allHistory, caller, polls, raced>>
    /\ sync' \in 0..Top /\ sync <= sync'
    /\ present' \subseteq Rows
    /\ phase' \in {"down", "on"} \cup (IF historyChain = "btc" THEN {"again"} ELSE {})
    /\ again \subseteq again' /\ again' \subseteq 0..Top
    /\ AgainSaid' /\ ComesLater'
    /\ \A r \in present' \ present :
         /\ r.block > sync \/ r.block \in again'
         /\ \A k \in TransferKinds : r.block < polled[k] => r.block \in again'

LEMMA CollectBtc ==
    ASSUME HistoryInv, historyChain = "btc", LogNext,
           again' = IF phase' = "again" THEN again \cup {sync} ELSE again,
           UNCHANGED <<historyChain, calls, allHistory, caller, polls, raced>>
    PROVE  Collected
<1>1. /\ sync \in 0..Top /\ present \subseteq Row /\ phase \in {"down", "again", "on"}
      /\ again \subseteq 0..Top /\ polled \in [TransferKinds -> 0..Top] /\ Rows = Row
      /\ Top \in Nat
  BY DEF HistoryInv, HistoryTypeOK, LogTypeOK, Rows
<1>2. /\ \A r \in present : r.block <= sync + 1
      /\ \A k \in TransferKinds : polled[k] <= sync + 1
      /\ phase = "again" => sync \in again
      /\ \A r \in Row : r.block \in 0..Top
  BY DEF HistoryInv, ComesLater, AgainSaid
<1>3. again \subseteq again' /\ again' \subseteq 0..Top /\ (phase' = "again" => sync \in again')
  BY <1>1
<1>4. polled' = polled /\ historyChain' = "btc"
  BY DEF polls
<1>5. CASE Clear
  <2>1. present' = {r \in present : r.block < sync} /\ phase' = "again" /\ sync' = sync
    BY <1>5 DEF Clear
  <2>2. AgainSaid' /\ ComesLater'
    BY <1>1, <1>2, <1>3, <1>4, <2>1 DEF AgainSaid, ComesLater
  <2> QED
    BY <1>1, <1>3, <2>1, <2>2 DEF Collected
<1>6. CASE Store
  <2>1. PICK new \in SUBSET {r \in Row : r.block = Turn} : present' = present \cup new
    BY <1>6 DEF Store
  <2>2. sync' = sync /\ phase' = phase
    BY <1>6 DEF Store
  <2>3. \A r \in new : r.block = IF phase = "again" THEN sync ELSE sync + 1
    BY <2>1 DEF Turn
  <2>4. \A r \in present' : r.block <= sync' + 1
    BY <1>1, <1>2, <2>1, <2>2, <2>3
  <2>5. ASSUME NEW r \in present' \ present
        PROVE  /\ r.block > sync \/ r.block \in again'
               /\ \A k \in TransferKinds : r.block < polled[k] => r.block \in again'
    <3>1. CASE phase = "again"
      BY <1>3, <2>1, <2>2, <2>3, <3>1
    <3>2. CASE phase # "again"
      <4>1. r.block = sync + 1
        BY <2>1, <2>3, <3>2
      <4>2. \A k \in TransferKinds : ~(r.block < polled[k])
        BY <1>1, <1>2, <4>1
      <4> QED
        BY <1>1, <4>1, <4>2
    <3> QED
      BY <3>1, <3>2
  <2>6. AgainSaid' /\ ComesLater'
    BY <1>2, <1>3, <1>4, <2>2, <2>4 DEF AgainSaid, ComesLater
  <2>7. present' \subseteq Row
    BY <1>1, <2>1
  <2> QED
    BY <1>1, <1>3, <2>2, <2>5, <2>6, <2>7 DEF Collected
<1>7. CASE Commit
  <2>1. Turn <= Top /\ sync' = Turn /\ phase' = "on" /\ present' = present
    BY <1>7 DEF Commit
  <2>2. sync' \in 0..Top /\ sync <= sync'
    BY <1>1, <2>1 DEF Turn
  <2>3. /\ \A r \in present' : r.block <= sync' + 1
        /\ \A k \in TransferKinds : polled'[k] <= sync' + 1
    <3>1. \A r \in present' : r.block \in 0..Top /\ r.block <= sync + 1
      BY <1>1, <1>2, <2>1
    <3>2. \A k \in TransferKinds : polled[k] \in 0..Top /\ polled[k] <= sync + 1
      BY <1>1, <1>2
    <3> QED
      BY <1>1, <1>4, <2>2, <3>1, <3>2
  <2>4. AgainSaid' /\ ComesLater'
    BY <1>4, <2>1, <2>3 DEF AgainSaid, ComesLater
  <2> QED
    BY <1>1, <1>3, <2>1, <2>2, <2>4 DEF Collected
<1>8. CASE Crash
  <2>1. phase' = "down" /\ sync' = sync /\ present' = present
    BY <1>8 DEF Crash
  <2>2. AgainSaid' /\ ComesLater'
    BY <1>2, <1>4, <2>1 DEF AgainSaid, ComesLater
  <2> QED
    BY <1>1, <1>3, <2>1, <2>2 DEF Collected
<1> QED
  BY <1>5, <1>6, <1>7, <1>8 DEF LogNext

LEMMA CollectEth ==
    ASSUME HistoryInv, historyChain = "eth", Eth!EthNext,
           again' = again \cup {r.block : r \in present \ present'},
           UNCHANGED <<historyChain, calls, allHistory, caller, polls, raced>>
    PROVE  Collected
<1>1. /\ sync \in 0..Top /\ present \subseteq EthRow /\ phase \in {"down", "on"}
      /\ again \subseteq 0..Top /\ polled \in [TransferKinds -> 0..Top] /\ Rows = EthRow
      /\ Top \in Nat /\ EthAhead \in Nat /\ \A r \in EthRow : r.block \in 0..Top
  BY DEF HistoryInv, HistoryTypeOK, Eth!EthTypeOK, Rows
<1>2. \A r \in EthRow \ present : r.block > sync /\ r.block \notin again =>
            /\ \A p \in present : p.block <= r.block
            /\ \A k \in TransferKinds : polled[k] <= r.block
  BY DEF HistoryInv, ComesLater
<1>3. again \subseteq again' /\ again' \subseteq 0..Top /\ \A r \in present \ present' : r.block \in again'
  BY <1>1
<1>4. polled' = polled /\ historyChain' = "eth"
  BY DEF polls
<1>5. AgainSaid'
  BY <1>4 DEF AgainSaid
<1>6. ASSUME present' = present, sync' \in 0..Top, sync <= sync', phase' \in {"down", "on"}
      PROVE  Collected
  <2>1. ComesLater'
    BY <1>1, <1>2, <1>3, <1>4, <1>6 DEF ComesLater
  <2> QED
    BY <1>1, <1>3, <1>5, <1>6, <2>1 DEF Collected
<1>7. CASE Eth!Clear
  <2>1. sync' = sync /\ phase' \in {"down", "on"} /\ present' \subseteq present
    BY <1>7 DEF Eth!Clear
  <2>2. ASSUME NEW r \in EthRow \ present', r.block > sync, r.block \notin again'
        PROVE  /\ \A p \in present' : p.block <= r.block
               /\ \A k \in TransferKinds : polled[k] <= r.block
    <3>1. r \in EthRow \ present /\ r.block \notin again
      BY <1>3, <2>2
    <3> QED
      BY <1>2, <2>1, <2>2, <3>1
  <2>3. ComesLater'
    BY <1>4, <2>1, <2>2 DEF ComesLater
  <2> QED
    BY <1>1, <1>3, <1>5, <2>1, <2>3 DEF Collected
<1>8. CASE Eth!Store
  <2>1. PICK n \in Eth!Above \ present : Eth!Complete(n.block - 1) /\ present' = present \cup {n}
    BY <1>8 DEF Eth!Store
  <2>2. sync' = sync /\ phase' = phase
    BY <1>8 DEF Eth!Store
  <2>3. n \in EthRow \ present /\ n.block > sync /\ n.block \in 0..Top
    BY <1>1, <2>1 DEF Eth!Above
  <2>4. ASSUME NEW r \in EthRow \ present', r.block > sync, r.block \notin again'
        PROVE  /\ \A p \in present' : p.block <= r.block
               /\ \A k \in TransferKinds : polled[k] <= r.block
    <3>1. r \in EthRow \ present /\ r.block \notin again /\ r.block \in 0..Top
      BY <1>1, <1>3, <2>1, <2>4
    <3>2. /\ \A p \in present : p.block <= r.block
          /\ \A k \in TransferKinds : polled[k] <= r.block
      BY <1>2, <2>4, <3>1
    <3>3. n.block <= r.block
      <4>1. ~(r.block <= n.block - 1)
        BY <2>1, <2>4, <3>1 DEF Eth!Complete, Eth!Above
      <4> QED
        BY <2>3, <3>1, <4>1
    <3> QED
      BY <2>1, <3>2, <3>3
  <2>5. ASSUME NEW k \in TransferKinds, n.block < polled[k]
        PROVE  n.block \in again'
    <3>1. ~(polled[k] <= n.block)
      BY <1>1, <2>3, <2>5
    <3> QED
      BY <1>2, <1>3, <2>3, <3>1
  <2>6. ComesLater'
    BY <1>4, <2>2, <2>4 DEF ComesLater
  <2>7. present' \subseteq EthRow /\ \A r \in present' \ present : r = n
    BY <1>1, <2>1, <2>3
  <2>8. \A r \in present' \ present :
          /\ r.block > sync \/ r.block \in again'
          /\ \A k \in TransferKinds : r.block < polled[k] => r.block \in again'
    BY <2>3, <2>5, <2>7
  <2> QED
    BY <1>1, <1>3, <1>5, <2>2, <2>6, <2>7, <2>8 DEF Collected
<1>9. CASE Eth!Commit
  <2>1. PICK b \in (sync + 1)..(sync + EthAhead) : b <= Top /\ sync' = b
    BY <1>9 DEF Eth!Commit
  <2>2. present' = present /\ phase' = phase
    BY <1>9 DEF Eth!Commit
  <2>3. sync' \in 0..Top /\ sync <= sync'
    BY <1>1, <2>1
  <2> QED
    BY <1>1, <1>6, <2>2, <2>3
<1>10. CASE Eth!Pause
  BY <1>1, <1>6, <1>10 DEF Eth!Pause
<1> QED
  BY <1>7, <1>8, <1>9, <1>10 DEF Eth!EthNext

LEMMA CollectStep == ASSUME HistoryInv, Collected PROVE HistoryInv'
<1>1. /\ UNCHANGED <<historyChain, calls, query, blockNum, upTo, found, i, trxs, cursor, seen, polled, got, raced>>
      /\ sync' \in 0..Top /\ sync <= sync' /\ present' \subseteq Rows
      /\ again \subseteq again' /\ again' \subseteq 0..Top
      /\ AgainSaid' /\ ComesLater'
  BY DEF Collected, allHistory, caller, polls
<1>2. /\ sync \in 0..Top /\ upTo \in 0..Top /\ cursor \in 0..Top /\ historyChain \in HistoryChains /\ Top \in Nat
      /\ Rows' = Rows /\ \A r \in Rows : r.block \in 0..Top
  <2>1. Rows' = Rows
    BY <1>1 DEF Rows
  <2>2. historyChain \in HistoryChains /\ sync \in 0..Top /\ upTo \in 0..Top /\ cursor \in 0..Top
    BY DEF HistoryInv, HistoryTypeOK, LogTypeOK, Eth!EthTypeOK
  <2> QED
    BY <2>1, <2>2, Sizes
<1>3. \A r \in present' \ present : r.block > sync \/ r.block \in again'
  BY DEF Collected
<1>4. HistoryTypeOK'
  <2>1. historyChain = "eth" => Eth!EthTypeOK'
    BY <1>1, Sizes, <1>2 DEF Eth!EthTypeOK, Collected
  <2>2. historyChain # "eth" => LogTypeOK'
    BY <1>1, <1>2 DEF LogTypeOK, Collected, Rows
  <2> QED
    BY <1>1, <1>2, <2>1, <2>2 DEF HistoryTypeOK, HistoryInv
<1>5. Ahead'
  BY <1>1, <1>2 DEF Ahead, HistoryInv
<1>6. AskedHistory'
  BY <1>1, <1>2 DEF AskedHistory, HistoryInv, AskedFrom, WindowEnd
<1>7. Finds'
  <2> SUFFICES ASSUME query \in Searching, NEW r \in ToFind'
               PROVE  /\ r.block > WindowStart
                      /\ r.block <= WindowEnd /\ r.kind \in LookedFor => r \in trxs
    BY <1>1 DEF Finds, WindowStart, WindowEnd, LookedFor
  <2>1. upTo <= sync
    BY DEF HistoryInv, AskedHistory, Searching
  <2>2. /\ r \in present' /\ blockNum < r.block /\ r.block <= upTo /\ r.block \notin again'
        /\ r.block \in 0..Top
    BY <1>1, <1>2 DEF ToFind
  <2>3. r \in ToFind
    BY <1>1, <1>2, <1>3, <2>1, <2>2 DEF ToFind
  <2> QED
    BY <2>3 DEF HistoryInv, Finds
<1>8. PassesOnlyUncommitted'
  <2> SUFFICES ASSUME NEW r \in present', r.block <= cursor, r \notin seen, r.block \notin again'
               PROVE  r.block \in raced \/ (historyChain = "eth" /\ r.block <= EthBase)
    BY <1>1 DEF PassesOnlyUncommitted
  <2>1. CASE r \in present
    BY <1>1, <2>1 DEF HistoryInv, PassesOnlyUncommitted
  <2>2. CASE r \notin present
    <3>1. r.block > sync /\ r.block \in 0..Top
      BY <1>1, <1>2, <1>3, <2>2
    <3> QED
      BY <3>1 DEF HistoryInv, Ahead
  <2> QED
    BY <2>1, <2>2
<1>9. PollPassesNothing'
  <2> SUFFICES ASSUME NEW k \in TransferKinds, NEW r \in present', r.kind = k, r.block < polled[k], r \notin got[k]
               PROVE  r.block \in again'
    BY <1>1 DEF PollPassesNothing
  <2>1. CASE r \in present
    BY <1>1, <2>1 DEF HistoryInv, PollPassesNothing
  <2>2. CASE r \notin present
    BY <2>2 DEF Collected
  <2> QED
    BY <2>1, <2>2
<1> QED
  BY <1>1, <1>4, <1>5, <1>6, <1>7, <1>8, <1>9 DEF HistoryInv

-----------------------------------------------------------------------------
(* All.History.  None of its queries changes what there is.                *)

OnlyReads == UNCHANGED <<sync, present, phase, historyChain, calls, polled, got, again>>

LEMMA ReadFrame ==
    ASSUME HistoryInv, OnlyReads
    PROVE  /\ AgainSaid' /\ ComesLater' /\ PollPassesNothing'
           /\ Rows' = Rows /\ \A r \in Rows : r.block \in 0..Top /\ r.kind \in TransferKinds
           /\ historyChain \in HistoryChains /\ Top \in Nat /\ sync \in 0..Top /\ upTo \in 0..Top /\ cursor \in 0..Top
           /\ blockNum \in 0..Top /\ i \in 0..Top /\ present \subseteq Rows /\ trxs \subseteq Rows
           /\ DepNum[historyChain] \in Nat \ {0} /\ seen \subseteq Rows /\ raced \subseteq 0..Top
           /\ (/\ query' \in {"idle"} \cup Counting \cup Searching
               /\ blockNum' \in 0..Top /\ upTo' \in 0..Top /\ found' \in BOOLEAN
               /\ i' \in 0..Top /\ trxs' \subseteq Rows /\ cursor' \in 0..Top /\ seen' \subseteq Rows
               /\ raced' \subseteq 0..Top
               => HistoryTypeOK')
<1>1. Rows' = Rows
  BY DEF Rows, OnlyReads
<1>2. /\ historyChain \in HistoryChains /\ sync \in 0..Top /\ upTo \in 0..Top /\ cursor \in 0..Top
      /\ blockNum \in 0..Top /\ i \in 0..Top /\ trxs \subseteq Rows
      /\ seen \subseteq Rows /\ raced \subseteq 0..Top /\ present \subseteq Rows
  BY DEF HistoryInv, HistoryTypeOK, LogTypeOK, Eth!EthTypeOK, Rows
<1>3. AgainSaid' /\ ComesLater' /\ PollPassesNothing'
  BY DEF OnlyReads, HistoryInv, AgainSaid, ComesLater, PollPassesNothing
<1>4. /\ calls' \in {{"all"}, TransferKinds} /\ again' \subseteq 0..Top /\ historyChain' \in HistoryChains
      /\ polled' \in [TransferKinds -> 0..Top] /\ got' \in [TransferKinds -> SUBSET Rows]
      /\ IF historyChain' = "eth" THEN Eth!EthTypeOK' ELSE LogTypeOK'
  BY DEF OnlyReads, HistoryInv, HistoryTypeOK, LogTypeOK, Eth!EthTypeOK
<1>5. /\ query' \in {"idle"} \cup Counting \cup Searching
      /\ blockNum' \in 0..Top /\ upTo' \in 0..Top /\ found' \in BOOLEAN
      /\ i' \in 0..Top /\ trxs' \subseteq Rows /\ cursor' \in 0..Top /\ seen' \subseteq Rows
      /\ raced' \subseteq 0..Top
      => HistoryTypeOK'
  BY <1>1, <1>4 DEF HistoryTypeOK, Counting, Searching
<1> QED
  BY <1>1, <1>2, <1>3, <1>5, Sizes

\* An answer is sound if what it passes, of what it had to find, it has found.
LEMMA AnswerStep ==
    ASSUME HistoryInv, OnlyReads, query # "idle", NEW S, S \subseteq Rows, NEW number \in 0..Top,
           Answer(S, number),
           \A r \in present : r.block <= number /\ r.block <= upTo /\ r.block \notin again =>
               r.block <= cursor \/ (historyChain = "eth" /\ r.block <= EthBase) \/ r \in S
    PROVE  HistoryInv'
<1>1. /\ cursor' = number /\ seen' = seen \cup S /\ raced' = raced \cup ((upTo + 1)..number)
      /\ query' = "idle" /\ blockNum' = 0 /\ upTo' = 0 /\ found' = FALSE /\ i' = 0 /\ trxs' = {}
  BY DEF Answer
<1>2. /\ AgainSaid' /\ ComesLater' /\ PollPassesNothing' /\ Rows' = Rows
      /\ Top \in Nat /\ sync \in 0..Top /\ upTo \in 0..Top /\ cursor \in 0..Top
      /\ present \subseteq Rows /\ seen \subseteq Rows /\ raced \subseteq 0..Top
      /\ \A r \in Rows : r.block \in 0..Top
  BY ReadFrame
<1>3. HistoryTypeOK'
  <2>1. raced' \subseteq 0..Top /\ 0 \in 0..Top /\ seen' \subseteq Rows
    BY <1>1, <1>2
  <2> QED
    BY <1>1, <2>1, ReadFrame
<1>4. upTo <= sync
  BY DEF HistoryInv, AskedHistory
<1>5. Ahead'
  <2> SUFFICES ASSUME NEW b \in 0..Top, sync < b, b <= number PROVE b \in raced'
    BY <1>1 DEF Ahead, OnlyReads
  <2> QED
    BY <1>1, <1>2, <1>4
<1>6. AskedHistory' /\ Finds'
  BY <1>1 DEF AskedHistory, Finds, Counting, Searching
<1>7. PassesOnlyUncommitted'
  <2> SUFFICES ASSUME NEW r \in present, r.block <= number, r \notin seen', r.block \notin again,
                      r.block \notin raced'
               PROVE  historyChain = "eth" /\ r.block <= EthBase
    BY <1>1 DEF PassesOnlyUncommitted, OnlyReads
  <2>1. r.block \in 0..Top /\ r.block <= upTo
    BY <1>1, <1>2
  <2>2. r \notin S /\ r \notin seen /\ r.block \notin raced
    BY <1>1
  <2> QED
    BY <2>1, <2>2 DEF HistoryInv, PassesOnlyUncommitted
<1> QED
  BY <1>2, <1>3, <1>5, <1>6, <1>7 DEF HistoryInv

\* A step within a call keeps what is said of the caller.
LEMMA GoesOn ==
    ASSUME HistoryInv, OnlyReads, UNCHANGED <<cursor, seen, raced>>
    PROVE  Ahead' /\ PassesOnlyUncommitted'
BY DEF HistoryInv, OnlyReads, Ahead, PassesOnlyUncommitted

LEMMA BeginStep == ASSUME HistoryInv, AskAll PROVE HistoryInv'
<1>1. /\ OnlyReads /\ UNCHANGED <<found, i, trxs, cursor, seen, raced>>
      /\ query = "idle" /\ blockNum' = AskedFrom(cursor) /\ upTo' = sync /\ query' = "withdraw?"
  BY DEF AskAll, OnlyReads, log, caller, polls
<1>2. AskedFrom(cursor) \in 0..Top /\ AskedFrom(cursor)' = AskedFrom(cursor)
  BY <1>1, ReadFrame DEF AskedFrom, OnlyReads
<1>3. found \in BOOLEAN /\ sync \in 0..Top
  BY DEF HistoryInv, HistoryTypeOK, LogTypeOK, Eth!EthTypeOK
<1>4. HistoryTypeOK'
  BY <1>1, <1>2, <1>3, ReadFrame DEF Counting
<1>5. AskedHistory'
  BY <1>1, <1>2, <1>3 DEF HistoryInv, AskedHistory, Counting, Searching, OnlyReads
<1>6. Finds'
  BY <1>1 DEF Finds, Searching
<1> QED
  BY <1>1, <1>4, <1>5, <1>6, ReadFrame, GoesOn DEF HistoryInv

LEMMA CountWithdrawsStep == ASSUME HistoryInv, CountWithdraws PROVE HistoryInv'
<1>1. /\ OnlyReads /\ UNCHANGED <<blockNum, upTo, i, trxs, cursor, seen, raced>>
      /\ query = "withdraw?" /\ query' = "deposit?" /\ found' = IsBehind("withdraw")
  BY DEF CountWithdraws, GoOn, OnlyReads, log, caller, polls
<1>2. found' \in BOOLEAN
  BY <1>1 DEF IsBehind
<1>3. HistoryTypeOK'
  BY <1>1, <1>2, ReadFrame DEF Counting
<1>4. AskedHistory' /\ Finds'
  BY <1>1 DEF HistoryInv, AskedHistory, Finds, Counting, Searching, AskedFrom, OnlyReads
<1> QED
  BY <1>1, <1>3, <1>4, ReadFrame, GoesOn DEF HistoryInv

\* The counts decide whether there is a search: it begins with the first window.
LEMMA DecideStep ==
    ASSUME HistoryInv, OnlyReads, query \in {"deposit?", "guardcall?"}, NEW any \in BOOLEAN, Decide(any)
    PROVE  HistoryInv'
<1>1. /\ Rows' = Rows /\ Top \in Nat /\ upTo \in 0..Top /\ cursor \in 0..Top
      /\ blockNum \in 0..Top /\ DepNum[historyChain] \in Nat \ {0} /\ historyChain \in HistoryChains
      /\ present \subseteq Rows /\ \A r \in Rows : r.block \in 0..Top
  BY ReadFrame
<1>2. i = 0 /\ trxs = {} /\ upTo <= sync /\ blockNum = AskedFrom(cursor)
  BY DEF HistoryInv, AskedHistory, Counting
<1>3. CASE any /\ Windows > 0
  <2>1. /\ query' = "deposits" /\ UNCHANGED <<blockNum, upTo, i, trxs, cursor, seen, raced, found>>
    BY <1>3 DEF Decide, GoOn, caller
  <2>2. HistoryTypeOK'
    BY <2>1, ReadFrame DEF HistoryInv, HistoryTypeOK, Searching
  <2>3. AskedHistory'
    BY <1>2, <2>1 DEF HistoryInv, AskedHistory, Counting, Searching, AskedFrom, OnlyReads
  <2>4. Finds'
    <3>1. WindowStart' = blockNum /\ LookedFor' = {}
      BY <1>1, <1>2, <2>1 DEF WindowStart, LookedFor, OnlyReads
    <3>2. \A r \in ToFind' : r.block > blockNum
      BY <1>1, <2>1 DEF ToFind, OnlyReads
    <3> QED
      BY <3>1, <3>2 DEF Finds
  <2> QED
    BY <2>1, <2>2, <2>3, <2>4, ReadFrame, GoesOn DEF HistoryInv
<1>4. CASE ~(any /\ Windows > 0)
  <2>1. PICK number : number = (IF any THEN cursor ELSE blockNum) /\ Answer({}, number)
    BY <1>4 DEF Decide
  <2>2. number \in 0..Top
    BY <1>1, <2>1
  <2>3. number = cursor \/ (historyChain = "eth" /\ number = EthBase)
    BY <1>2, <2>1 DEF AskedFrom
  <2> QED
    BY <2>1, <2>2, <2>3, AnswerStep
<1> QED
  BY <1>3, <1>4

LEMMA CountDepositsStep == ASSUME HistoryInv, CountDeposits PROVE HistoryInv'
<1>1. OnlyReads /\ query = "deposit?"
  BY DEF CountDeposits, OnlyReads, log, polls
<1>2. PICK any : any = (found \/ IsBehind("deposit"))
  OBVIOUS
<1>3. any \in BOOLEAN
  BY <1>2 DEF IsBehind
<1>4. CASE historyChain = "eth"
  <2>1. found' = any /\ GoOn("guardcall?")
    BY <1>2, <1>4 DEF CountDeposits
  <2>2. query' = "guardcall?" /\ UNCHANGED <<blockNum, upTo, i, trxs, cursor, seen, raced>>
    BY <2>1 DEF GoOn, caller
  <2>3. HistoryTypeOK'
    BY <1>1, <1>3, <2>1, <2>2, ReadFrame DEF Counting
  <2>4. AskedHistory' /\ Finds'
    BY <1>1, <1>4, <2>2 DEF HistoryInv, AskedHistory, Finds, Counting, Searching, AskedFrom, OnlyReads
  <2> QED
    BY <1>1, <2>2, <2>3, <2>4, ReadFrame, GoesOn DEF HistoryInv
<1>5. CASE historyChain # "eth"
  <2>1. Decide(any)
    BY <1>2, <1>5 DEF CountDeposits
  <2> QED
    BY <1>1, <1>3, <2>1, DecideStep
<1> QED
  BY <1>4, <1>5

LEMMA CountGuardCallsStep == ASSUME HistoryInv, CountGuardCalls PROVE HistoryInv'
<1>1. OnlyReads /\ query = "guardcall?" /\ Decide(found \/ IsBehind("guardcall"))
  BY DEF CountGuardCalls, OnlyReads, log, polls
<1>2. (found \/ IsBehind("guardcall")) \in BOOLEAN
  OBVIOUS
<1> QED
  BY <1>1, <1>2, DecideStep

\* A query of a window returns what there is in it of a kind.
LEMMA WindowQuery ==
    ASSUME HistoryInv, NEW k \in TransferKinds
    PROVE  /\ InWindow(k) \subseteq Rows
           /\ \A r \in InWindow(k) : r.block <= WindowEnd
           /\ \A r \in present : r.kind = k /\ WindowStart < r.block /\ r.block <= WindowEnd
                                   => r \in InWindow(k)
<1>1. present \subseteq Rows
  BY DEF HistoryInv, HistoryTypeOK, LogTypeOK, Eth!EthTypeOK, Rows
<1> QED
  BY <1>1 DEF InWindow, WindowStart, WindowEnd

LEMMA FindDepositsStep == ASSUME HistoryInv, FindDeposits PROVE HistoryInv'
<1>1. /\ OnlyReads /\ query = "deposits" /\ query' = "withdraws" /\ trxs' = InWindow("deposit")
      /\ UNCHANGED <<blockNum, upTo, found, i, cursor, seen, raced>>
  BY DEF FindDeposits, OnlyReads, log, caller, polls
<1>2. "deposit" \in TransferKinds
  BY DEF TransferKinds
<1>3. UNCHANGED <<WindowStart, WindowEnd, ToFind>>
  BY <1>1 DEF WindowStart, WindowEnd, ToFind, OnlyReads
<1>4. HistoryTypeOK'
  <2>1. found \in BOOLEAN /\ trxs' \subseteq Rows
    BY <1>1, <1>2, WindowQuery DEF HistoryInv, HistoryTypeOK
  <2> QED
    BY <1>1, <2>1, ReadFrame DEF Searching
<1>5. AskedHistory'
  <2>1. \A r \in trxs' : r.block <= WindowEnd'
    BY <1>1, <1>2, <1>3, WindowQuery
  <2> QED
    BY <1>1, <2>1 DEF HistoryInv, AskedHistory, Counting, Searching, AskedFrom, OnlyReads
<1>6. Finds'
  <2>1. LookedFor' = {"deposit"}
    BY <1>1 DEF LookedFor
  <2>2. \A r \in ToFind : r.block > WindowStart /\ r \in present
    BY <1>1 DEF HistoryInv, Finds, Searching, ToFind
  <2>3. ASSUME NEW r \in ToFind, r.block <= WindowEnd, r.kind = "deposit"
        PROVE  r \in trxs'
    BY <1>1, <1>2, <2>2, <2>3, WindowQuery
  <2> QED
    BY <1>3, <2>1, <2>2, <2>3 DEF Finds
<1> QED
  BY <1>1, <1>4, <1>5, <1>6, ReadFrame, GoesOn DEF HistoryInv

\* All of a window is found: the next one follows, or the answer.
LEMMA EndWindowStep ==
    ASSUME HistoryInv, OnlyReads, query \in {"withdraws", "guardcalls"}, NEW all, all \subseteq Rows,
           \A r \in all : r.block <= WindowEnd,
           \A r \in ToFind : r.block <= WindowEnd => r \in all,
           EndWindow(all)
    PROVE  HistoryInv'
<1>1. /\ Rows' = Rows /\ Top \in Nat /\ upTo \in 0..Top /\ cursor \in 0..Top /\ i \in 0..Top
      /\ blockNum \in 0..Top /\ DepNum[historyChain] \in Nat \ {0} /\ historyChain \in HistoryChains
      /\ present \subseteq Rows /\ \A r \in Rows : r.block \in 0..Top
  BY ReadFrame
<1>2. upTo <= sync /\ blockNum = AskedFrom(cursor)
  BY DEF HistoryInv, AskedHistory
<1>3. WindowEnd \in Nat /\ WindowStart \in Nat
  BY <1>1, WindowFacts DEF WindowEnd, WindowStart
<1>4. CASE all = {} /\ i + 1 < Windows
  <2>1. /\ query' = "deposits" /\ i' = i + 1 /\ trxs' = {}
        /\ UNCHANGED <<blockNum, upTo, found, cursor, seen, raced>>
    BY <1>4 DEF EndWindow, caller
  <2>2. i' \in 0..Top
    <3>1. (upTo - blockNum) \div DepNum[historyChain] \in Int /\ (upTo - blockNum) \div DepNum[historyChain] <= Top
      BY <1>1, WindowsBound
    <3> QED
      BY <1>1, <1>4, <2>1, <3>1 DEF Windows
  <2>3. HistoryTypeOK'
    BY <2>1, <2>2, <1>1, ReadFrame DEF HistoryInv, HistoryTypeOK, Searching
  <2>4. AskedHistory'
    BY <2>1 DEF HistoryInv, AskedHistory, Counting, Searching, AskedFrom, OnlyReads
  <2>5. Finds'
    <3>1. WindowStart' = WindowEnd /\ ToFind' = ToFind /\ LookedFor' = {}
      BY <2>1 DEF WindowStart, WindowEnd, ToFind, OnlyReads, LookedFor
    <3>2. ASSUME NEW r \in ToFind PROVE r.block > WindowEnd
      <4>1. ~(r.block <= WindowEnd)
        BY <1>4
      <4>2. r.block \in 0..Top
        BY <1>1 DEF ToFind
      <4> QED
        BY <1>1, <1>3, <4>1, <4>2
    <3> QED
      BY <3>1, <3>2 DEF Finds
  <2> QED
    BY <2>1, <2>3, <2>4, <2>5, ReadFrame, GoesOn DEF HistoryInv
<1>5. CASE ~(all = {} /\ i + 1 < Windows)
  <2>1. PICK number : number = Newest(all, blockNum) /\ Answer(all, number)
    BY <1>5 DEF EndWindow
  <2>2. number \in 0..Top /\ (number = blockNum \/ \E r \in all : number = r.block)
    BY <1>1, <2>1, NewestFacts
  <2>3. ASSUME NEW r \in present, r.block <= number, r.block <= upTo, r.block \notin again
        PROVE  r.block <= cursor \/ (historyChain = "eth" /\ r.block <= EthBase) \/ r \in all
    <3>1. r.block \in 0..Top
      BY <1>1
    <3>2. CASE r.block <= blockNum
      BY <1>2, <3>2 DEF AskedFrom
    <3>3. CASE blockNum < r.block
      <4>1. r \in ToFind
        BY <2>3, <3>3 DEF ToFind
      <4>2. number <= WindowEnd
        BY <1>1, <2>2, <2>3, <3>1, <3>3
      <4>3. r.block <= WindowEnd
        BY <1>3, <2>2, <2>3, <3>1, <4>2
      <4> QED
        BY <4>1, <4>3
    <3> QED
      BY <1>1, <3>1, <3>2, <3>3
  <2> QED
    BY <2>1, <2>2, <2>3, AnswerStep
<1> QED
  BY <1>4, <1>5

\* What was looked for before and what the query adds are all of the window.
LEMMA FoundAll ==
    ASSUME HistoryInv, query \in Searching, NEW k \in TransferKinds, NEW all, all = trxs \cup InWindow(k)
    PROVE  /\ all \subseteq Rows /\ \A r \in all : r.block <= WindowEnd
           /\ \A r \in ToFind : r.block > WindowStart
           /\ \A r \in ToFind : r.block <= WindowEnd /\ r.kind \in LookedFor \cup {k} => r \in all
<1>1. trxs \subseteq Rows /\ \A r \in trxs : r.block <= WindowEnd
  BY DEF HistoryInv, HistoryTypeOK, AskedHistory
<1>2. \A r \in ToFind : /\ r.block > WindowStart
                        /\ r.block <= WindowEnd /\ r.kind \in LookedFor => r \in trxs
  BY DEF HistoryInv, Finds
<1>3. \A r \in ToFind : r \in present
  BY DEF ToFind
<1> QED
  BY <1>1, <1>2, <1>3, WindowQuery

LEMMA FindWithdrawsStep == ASSUME HistoryInv, FindWithdraws PROVE HistoryInv'
<1>1. OnlyReads /\ query = "withdraws" /\ query \in Searching
  BY DEF FindWithdraws, OnlyReads, log, polls, Searching
<1>2. PICK all : all = trxs \cup InWindow("withdraw")
  OBVIOUS
<1>3. "withdraw" \in TransferKinds /\ LookedFor = {"deposit"}
  BY <1>1 DEF TransferKinds, LookedFor
<1>4. /\ all \subseteq Rows /\ \A r \in all : r.block <= WindowEnd
      /\ \A r \in ToFind : r.block > WindowStart
      /\ \A r \in ToFind : r.block <= WindowEnd /\ r.kind \in {"deposit", "withdraw"} => r \in all
  BY <1>1, <1>2, <1>3, FoundAll
<1>5. CASE historyChain # "eth"
  <2>1. EndWindow(all)
    BY <1>2, <1>5 DEF FindWithdraws
  <2>2. \A r \in ToFind : r.kind \in {"deposit", "withdraw"}
    BY <1>5 DEF ToFind, HistoryInv, HistoryTypeOK, LogTypeOK
  <2> QED
    BY <1>1, <1>4, <2>1, <2>2, EndWindowStep
<1>6. CASE historyChain = "eth"
  <2>1. /\ trxs' = all /\ query' = "guardcalls"
        /\ UNCHANGED <<blockNum, upTo, found, i, cursor, seen, raced>>
    BY <1>2, <1>6 DEF FindWithdraws, caller
  <2>2. UNCHANGED <<WindowStart, WindowEnd, ToFind>>
    BY <1>1, <2>1 DEF WindowStart, WindowEnd, ToFind, OnlyReads
  <2>3. HistoryTypeOK'
    BY <1>1, <1>4, <2>1, ReadFrame DEF HistoryInv, HistoryTypeOK, Searching
  <2>4. AskedHistory'
    BY <1>1, <1>4, <1>6, <2>1, <2>2 DEF HistoryInv, AskedHistory, Counting, Searching, AskedFrom, OnlyReads
  <2>5. Finds'
    BY <1>4, <2>1, <2>2 DEF Finds, LookedFor
  <2> QED
    BY <1>1, <2>1, <2>3, <2>4, <2>5, ReadFrame, GoesOn DEF HistoryInv
<1> QED
  BY <1>5, <1>6

LEMMA FindGuardCallsStep == ASSUME HistoryInv, FindGuardCalls PROVE HistoryInv'
<1>1. OnlyReads /\ query = "guardcalls" /\ query \in Searching
  BY DEF FindGuardCalls, OnlyReads, log, polls, Searching
<1>2. PICK all : all = trxs \cup InWindow("guardcall") /\ EndWindow(all)
  BY DEF FindGuardCalls
<1>3. "guardcall" \in TransferKinds /\ LookedFor = {"deposit", "withdraw"}
  BY <1>1 DEF TransferKinds, LookedFor
<1>4. \A r \in ToFind : r.kind \in TransferKinds
  BY ReadFrame, Sizes DEF ToFind, HistoryInv, HistoryTypeOK, LogTypeOK, Eth!EthTypeOK, Rows
<1>5. /\ all \subseteq Rows /\ \A r \in all : r.block <= WindowEnd
      /\ \A r \in ToFind : r.block <= WindowEnd => r \in all
  BY <1>1, <1>2, <1>3, <1>4, FoundAll DEF TransferKinds
<1> QED
  BY <1>1, <1>2, <1>5, EndWindowStep

-----------------------------------------------------------------------------
(* The other calls, and all together.                                      *)

LEMMA PollStep == ASSUME HistoryInv, NEW k \in TransferKinds, Poll(k) PROVE HistoryInv'
<1>1. /\ UNCHANGED <<sync, present, phase, historyChain, calls, query, blockNum, upTo, found, i, trxs, cursor, seen>>
      /\ UNCHANGED <<again, raced>>
  BY DEF Poll, log, allHistory, caller
<1>2. PICK S : S = {r \in present : r.kind = k /\ FromOn(r, polled[k])}
  OBVIOUS
<1>3. polled' = [polled EXCEPT ![k] = Newest(S, 0)] /\ got' = [got EXCEPT ![k] = got[k] \cup S]
  BY <1>2 DEF Poll
<1>4. /\ Rows' = Rows /\ Top \in Nat /\ sync \in 0..Top /\ present \subseteq Rows
      /\ \A r \in Rows : r.block \in 0..Top
  <2>1. Rows' = Rows
    BY <1>1 DEF Rows
  <2> QED
    BY <2>1, Sizes DEF HistoryInv, HistoryTypeOK, LogTypeOK, Eth!EthTypeOK, Rows
<1>5. polled \in [TransferKinds -> 0..Top] /\ got \in [TransferKinds -> SUBSET Rows]
  BY DEF HistoryInv, HistoryTypeOK
<1>6. /\ S \subseteq present /\ 0 \in 0..Top
      /\ Newest(S, 0) \in 0..Top /\ \A r \in S : r.block <= Newest(S, 0)
      /\ Newest(S, 0) = 0 \/ \E r \in S : Newest(S, 0) = r.block
  <2>1. S \subseteq present /\ 0 \in 0..Top /\ \A r \in S : r.block \in 0..Top
    BY <1>2, <1>4
  <2> QED
    BY <2>1, NewestFacts
<1>7. /\ polled' \in [TransferKinds -> 0..Top] /\ got' \in [TransferKinds -> SUBSET Rows]
      /\ polled'[k] = Newest(S, 0) /\ got'[k] = got[k] \cup S
      /\ \A h \in TransferKinds : h # k => polled'[h] = polled[h] /\ got'[h] = got[h]
  BY <1>3, <1>4, <1>5, <1>6
<1>8. HistoryTypeOK'
  BY <1>1, <1>4, <1>7 DEF HistoryInv, HistoryTypeOK, LogTypeOK, Eth!EthTypeOK
<1>9. ComesLater'
  <2>1. CASE historyChain = "btc"
    <3>1. /\ \A r \in present : r.block <= sync + 1
          /\ \A h \in TransferKinds : polled[h] <= sync + 1
      BY <2>1 DEF HistoryInv, ComesLater
    <3>2. Newest(S, 0) <= sync + 1
      BY <1>4, <1>6, <3>1
    <3> QED
      BY <1>1, <1>7, <2>1, <3>1, <3>2 DEF ComesLater
  <2>2. CASE historyChain = "eth"
    <3>1. ASSUME NEW r \in EthRow \ present, r.block > sync, r.block \notin again
          PROVE  /\ \A p \in present : p.block <= r.block
                 /\ \A h \in TransferKinds : polled'[h] <= r.block
      <4>1. /\ \A p \in present : p.block <= r.block
            /\ \A h \in TransferKinds : polled[h] <= r.block
        BY <2>2, <3>1 DEF HistoryInv, ComesLater
      <4>2. Newest(S, 0) <= r.block
        <5>1. r.block \in 0..Top
          BY <1>4, <2>2 DEF Rows
        <5> QED
          BY <1>6, <4>1, <5>1
      <4> QED
        BY <1>7, <4>1, <4>2
    <3> QED
      BY <1>1, <2>2, <3>1 DEF ComesLater
  <2> QED
    BY <2>1, <2>2 DEF HistoryInv, HistoryTypeOK, HistoryChains
<1>10. PollPassesNothing'
  <2> SUFFICES ASSUME NEW h \in TransferKinds, NEW r \in present, r.kind = h, r.block < polled'[h],
                      r \notin got'[h]
               PROVE  r.block \in again
    BY <1>1 DEF PollPassesNothing
  <2>1. CASE h # k
    BY <1>7, <2>1 DEF HistoryInv, PollPassesNothing
  <2>2. CASE h = k
    <3>1. r.block \in 0..Top /\ polled[k] \in 0..Top
      BY <1>4, <1>5
    <3>2. ~(r.block >= polled[k])
      BY <1>2, <1>7, <2>2 DEF FromOn
    <3> QED
      BY <1>7, <2>2, <3>1, <3>2 DEF HistoryInv, PollPassesNothing
  <2> QED
    BY <2>1, <2>2
<1>11. /\ AgainSaid' /\ Ahead' /\ AskedHistory' /\ PassesOnlyUncommitted'
  BY <1>1 DEF HistoryInv, AgainSaid, Ahead, AskedHistory, PassesOnlyUncommitted, AskedFrom, WindowEnd
<1>12. Finds'
  BY <1>1 DEF HistoryInv, Finds, ToFind, WindowStart, WindowEnd, LookedFor
<1> QED
  BY <1>8, <1>9, <1>10, <1>11, <1>12 DEF HistoryInv

\* What TLC checks of the invariant on small instances holds for all.
THEOREM HistoryCorrect == HistorySpec => []HistoryInv
<1>1. HistoryInit => HistoryInv
  BY InitHistory
<1>2. HistoryInv /\ [HistoryNext]_historyVars => HistoryInv'
  <2> SUFFICES ASSUME HistoryInv, [HistoryNext]_historyVars PROVE HistoryInv'
    OBVIOUS
  <2>1. CASE Collect
    <3>1. /\ UNCHANGED <<historyChain, calls, allHistory, caller, polls, raced>>
          /\ \/ /\ historyChain = "btc" /\ LogNext
                /\ again' = IF phase' = "again" THEN again \cup {sync} ELSE again
             \/ /\ historyChain = "eth" /\ Eth!EthNext
                /\ again' = again \cup {r.block : r \in present \ present'}
      BY <2>1 DEF Collect
    <3>2. Collected
      BY <3>1, CollectBtc, CollectEth
    <3> QED
      BY <3>2, CollectStep
  <2>2. CASE AllHistory
    BY <2>2, BeginStep, CountWithdrawsStep, CountDepositsStep, CountGuardCallsStep,
       FindDepositsStep, FindWithdrawsStep, FindGuardCallsStep DEF AllHistory
  <2>3. CASE \E k \in TransferKinds : Poll(k)
    BY <2>3, PollStep
  <2>4. CASE UNCHANGED historyVars
    <3>1. /\ UNCHANGED <<sync, present, phase, historyChain, calls, query, blockNum, upTo, found, i, trxs>>
          /\ UNCHANGED <<cursor, seen, polled, got, again, raced>>
      BY <2>4 DEF historyVars, log, allHistory, caller, polls
    <3>2. OnlyReads
      BY <3>1 DEF OnlyReads
    <3>3. HistoryTypeOK'
      BY <3>1 DEF HistoryInv, HistoryTypeOK, LogTypeOK, Eth!EthTypeOK, Rows
    <3>4. AskedHistory' /\ Finds'
      BY <3>1 DEF HistoryInv, AskedHistory, Finds, AskedFrom, ToFind, WindowStart, WindowEnd, LookedFor
    <3> QED
      BY <3>1, <3>2, <3>3, <3>4, ReadFrame, GoesOn DEF HistoryInv
  <2> QED
    BY <2>1, <2>2, <2>3, <2>4 DEF HistoryNext
<1> QED
  BY <1>1, <1>2, PTL DEF HistorySpec

\* Whichever of the history calls a client of the service polls, and however a collector
\* writes, dies and begins anew between the queries of an answer, it passes by no
\* transfer but those of blocks that were not committed when it was answered, or that
\* are collected again.
THEOREM NothingPassed == HistorySpec => []PassesNothing
<1>1. HistoryInv => PassesNothing
  BY DEF HistoryInv, PassesNothing
<1> QED
  BY <1>1, HistoryCorrect, PTL

-----------------------------------------------------------------------------
(* ServiceCaches.                                                          *)

\* What a step means for each part: the calls that are served, or nothing.
LEMMA PartSteps ==
    ASSUME [ServiceNext]_service
    PROVE  /\ [Next]_vars
           /\ [Broadcast!Next]_broadcastVars
           /\ [Book!Next]_addressVars
           /\ [Memory!ListNext]_listVars
           /\ [Memory!ClaimNext]_claimVars
           /\ [Balance!BalanceNext]_balanceVars
BY DEF ServiceNext, service, Queries, Broadcasts, Addresses, Lookups, Verdicts, Balances

-----------------------------------------------------------------------------
(* b_query_trans_cache.                                                    *)

USE FinalityAssumption, TrxAssumption
USE DEF Unknown, Mempool, Places, Coins, Calls

\* A record of a block no reorganisation reaches.
Deep(r) == r.place = place[r.trx] /\ r.place > Mempool /\ Confirmations(r.place) > SafeConf

\* What a worker is about to keep is as good as what is kept.
Sure(r) ==
    /\ coin # "eth" /\ r.by = "query" => Deep(r)
    /\ coin \in {"usdt", "btm"} => r.by = "query"
    /\ coin = "eth" => /\ r.place \in {place[r.trx]} \cup replaced /\ r.place > Mempool
                       /\ r.source \in {r.place, Mempool} \cup replaced

CacheInv ==
    /\ TypeOK
    /\ \A r \in cache : Sure(r)
    /\ \A w \in Workers :
         /\ pc[w] = "save" => Sure(call[w]) /\ call[w].place # Unknown
         /\ pc[w] = "receipt" =>
              /\ coin = "eth" /\ call[w].source # Unknown
              /\ call[w].source \in {place[call[w].trx], Mempool} \cup replaced

LEMMA InitCache == Init => CacheInv
<1> SUFFICES ASSUME Init PROVE CacheInv
  OBVIOUS
<1>1. (CHOOSE t \in Trx : TRUE) \in Trx
  OBVIOUS
<1>2. Unknown \in Places /\ Unknown <= 1 /\ 1 \in 1..MaxHeight
  OBVIOUS
<1>3. call \in [Workers -> Records]
  <2>1. Fresh(CHOOSE t \in Trx : TRUE, "query") \in Records
    BY <1>1, <1>2 DEF Fresh, Records
  <2>2. call = [w \in Workers |-> Fresh(CHOOSE t \in Trx : TRUE, "query")]
    BY DEF Init
  <2> QED
    BY <2>1, <2>2
<1>4. /\ coin \in Coins /\ tip = 1 /\ cache = {} /\ replaced = {}
      /\ place = [t \in Trx |-> Unknown] /\ pc = [w \in Workers |-> "idle"]
  BY DEF Init
<1>5. TypeOK
  BY <1>2, <1>3, <1>4 DEF TypeOK
<1> QED
  BY <1>4, <1>5 DEF CacheInv

\* What a reorganisation takes away is recorded as replaced, or was not deep.
LEMMA NodeGrowsStep == ASSUME CacheInv, NodeGrows PROVE CacheInv'
<1>1. PICK d \in 0..MaxReorg :
        /\ d < tip
        /\ \E new \in [{t \in Trx : place[t] > tip - d \/ place[t] <= Mempool}
                         -> {Unknown, Mempool} \cup (tip - d + 1)..(tip + 1)] :
             place' = [t \in Trx |-> IF place[t] > tip - d \/ place[t] <= Mempool
                                     THEN new[t] ELSE place[t]]
        /\ replaced' = IF coin = "eth" THEN replaced \cup (tip - d + 1)..tip ELSE replaced
  BY DEF NodeGrows
<1>2. tip < MaxHeight /\ tip' = tip + 1 /\ UNCHANGED <<coin, cache, pc, call>>
  BY DEF NodeGrows
<1>3. tip \in 1..MaxHeight /\ place \in [Trx -> Places] /\ \A t \in Trx : place[t] <= tip
  BY DEF CacheInv, TypeOK
<1>4. /\ place' \in [Trx -> Places]
      /\ \A t \in Trx : /\ place'[t] <= tip'
                        /\ \/ place'[t] = place[t]
                           \/ place[t] > tip - d /\ place[t] > Mempool
                           \/ place[t] <= Mempool
  BY <1>1, <1>2, <1>3
<1>5. replaced' \subseteq 1..MaxHeight /\ replaced \subseteq replaced'
  BY <1>1, <1>2, <1>3 DEF CacheInv, TypeOK
<1>6. TypeOK'
  BY <1>2, <1>3, <1>4, <1>5 DEF CacheInv, TypeOK
<1>7. ASSUME NEW t \in Trx, place[t] > Mempool, coin = "eth"
      PROVE  place[t] \in {place'[t]} \cup replaced'
  BY <1>1, <1>3, <1>4, <1>7
<1>8. ASSUME NEW r \in Records, Sure(r)
      PROVE  Sure(r)'
  <2>1. r.trx \in Trx /\ r.place \in Places /\ r.source \in Places
    BY DEF Records
  <2>2. (coin # "eth" /\ r.by = "query") => Deep(r)'
    BY <1>1, <1>2, <1>3, <1>4, <1>8, <2>1 DEF Sure, Deep, Confirmations
  <2>3. coin = "eth" => r.place \in {place'[r.trx]} \cup replaced'
    BY <1>5, <1>7, <1>8, <2>1 DEF Sure
  <2>4. coin = "eth" => r.place > Mempool /\ (r.source \in {r.place, Mempool} \cup replaced')
    BY <1>5, <1>8 DEF Sure
  <2>5. coin \in {"usdt", "btm"} => r.by = "query"
    BY <1>8 DEF Sure
  <2>6. coin' = coin
    BY <1>2
  <2> HIDE DEF Deep
  <2> QED
    BY <2>2, <2>3, <2>4, <2>5, <2>6 DEF Sure
<1>9. ASSUME NEW w \in Workers, pc[w] = "receipt"
      PROVE  call[w].source \in {place'[call[w].trx], Mempool} \cup replaced'
  <2>1. coin = "eth" /\ call[w].source # Unknown
        /\ call[w].source \in {place[call[w].trx], Mempool} \cup replaced
    BY <1>9 DEF CacheInv
  <2>2. call[w].trx \in Trx /\ place[call[w].trx] \in Places
    BY <1>3 DEF CacheInv, TypeOK, Records
  <2>3. CASE call[w].source = place[call[w].trx] /\ place[call[w].trx] > Mempool
    BY <1>7, <2>1, <2>2, <2>3
  <2>4. CASE call[w].source = place[call[w].trx] /\ ~(place[call[w].trx] > Mempool)
    BY <2>1, <2>2, <2>4
  <2>5. CASE call[w].source \in {Mempool} \cup replaced
    BY <1>5, <2>5
  <2> QED
    BY <2>1, <2>3, <2>4, <2>5
<1> QED
  BY <1>2, <1>6, <1>8, <1>9 DEF CacheInv, TypeOK

\* Steps of a worker leave the node alone.
LEMMA SureKept ==
    ASSUME UNCHANGED <<coin, tip, place, replaced>>
    PROVE  \A r : Sure(r)' = Sure(r)
BY DEF Sure, Deep, Confirmations

\* A worker whose call is not to be kept next has nothing to show.
LEMMA WorkerKept ==
    ASSUME CacheInv, NEW w \in Workers, NEW c \in Records, NEW p \in {"idle", "ask"},
           call' = [call EXCEPT ![w] = c], pc' = [pc EXCEPT ![w] = p],
           UNCHANGED <<coin, tip, place, cache, replaced>>
    PROVE  CacheInv'
<1>1. call' \in [Workers -> Records] /\ pc' \in [Workers -> {"idle", "ask", "receipt", "save"}]
  BY DEF CacheInv, TypeOK
<1>2. TypeOK'
  BY <1>1 DEF CacheInv, TypeOK
<1>3. \A v \in Workers : \/ pc'[v] \in {"idle", "ask"}
                         \/ pc'[v] = pc[v] /\ call'[v] = call[v]
  BY DEF CacheInv, TypeOK
<1> QED
  BY <1>2, <1>3, SureKept DEF CacheInv

LEMMA QueryStep ==
    ASSUME CacheInv, NEW w \in Workers, AnsweredFromCache(w) \/ Begin(w)
    PROVE  CacheInv'
<1>1. CASE AnsweredFromCache(w)
  <2>1. PICK r \in cache : call' = [call EXCEPT ![w] = r]
    BY <1>1 DEF AnsweredFromCache
  <2>2. r \in Records
    BY DEF CacheInv, TypeOK
  <2>3. pc' = [pc EXCEPT ![w] = "idle"] /\ UNCHANGED <<coin, tip, place, cache, replaced>>
    BY <1>1 DEF AnsweredFromCache, CacheInv, TypeOK
  <2> QED
    BY <2>1, <2>2, <2>3, WorkerKept
<1>2. CASE Begin(w)
  <2>1. PICK t \in Trx, c \in IF coin = "eth" THEN {"query"} ELSE Calls :
          call' = [call EXCEPT ![w] = Fresh(t, c)]
    BY <1>2 DEF Begin
  <2>2. Fresh(t, c) \in Records
    BY DEF Fresh, Records
  <2>3. pc' = [pc EXCEPT ![w] = "ask"] /\ UNCHANGED <<coin, tip, place, cache, replaced>>
    BY <1>2 DEF Begin
  <2> QED
    BY <2>1, <2>2, <2>3, WorkerKept
<1> QED
  BY <1>1, <1>2

LEMMA AnsweredStep == ASSUME CacheInv, NEW w \in Workers, Answered(w) PROVE CacheInv'
<1>1. /\ pc[w] = "ask" /\ coin # "eth"
      /\ UNCHANGED <<coin, tip, place, cache, replaced>>
  BY DEF Answered
<1>2. PICK p \in Found(call[w].trx) :
        /\ call' = [call EXCEPT ![w].place = p]
        /\ pc' = [pc EXCEPT ![w] =
             IF Succeeds(p) /\ (IF call[w].by = "query" THEN QueryCaches(p) ELSE BatchCaches(p))
             THEN "save" ELSE "idle"]
  BY DEF Answered
<1>3. call[w] \in Records /\ call[w].trx \in Trx /\ place[call[w].trx] \in Places
      /\ coin \in Coins /\ tip \in Nat /\ call[w].by \in Calls
  BY DEF CacheInv, TypeOK, Records
<1>4. p \in Places /\ (p = Unknown \/ p = place[call[w].trx])
      /\ (coin = "btm" => p = Unknown \/ Confirmations(p) > SafeConf)
  BY <1>3 DEF Found
<1>5. PICK c : c = [call[w] EXCEPT !.place = p]
  OBVIOUS
<1>6. c \in Records /\ c.trx = call[w].trx /\ c.by = call[w].by /\ c.place = p
  BY <1>3, <1>4, <1>5 DEF Records
<1>7. call' = [call EXCEPT ![w] = c]
  BY <1>2, <1>5 DEF CacheInv, TypeOK
<1>8. CASE pc' = [pc EXCEPT ![w] = "idle"]
  BY <1>1, <1>6, <1>7, <1>8, WorkerKept
<1>9. CASE pc' = [pc EXCEPT ![w] = "save"] /\ pc'[w] = "save"
  <2>1. p # Unknown /\ p = place[c.trx]
        /\ (IF c.by = "query" THEN QueryCaches(p) ELSE BatchCaches(p))
    BY <1>2, <1>3, <1>4, <1>6, <1>9 DEF Succeeds, CacheInv, TypeOK
  <2>2. c.by = "query" => Deep(c)
    <3>1. ASSUME c.by = "query"
          PROVE  Confirmations(p) > SafeConf
      BY <1>4, <2>1, <3>1 DEF QueryCaches
    <3>2. Confirmations(p) > SafeConf => p > Mempool
      BY <1>4 DEF Confirmations
    <3> QED
      BY <1>6, <2>1, <3>1, <3>2 DEF Deep
  <2>3. coin \in {"usdt", "btm"} => c.by = "query"
    BY <2>1 DEF BatchCaches
  <2>4. Sure(c) /\ c.place # Unknown
    BY <1>1, <1>6, <2>1, <2>2, <2>3 DEF Sure
  <2>5. call' \in [Workers -> Records] /\ pc' \in [Workers -> {"idle", "ask", "receipt", "save"}]
    BY <1>6, <1>7, <1>9 DEF CacheInv, TypeOK
  <2>6. TypeOK'
    BY <1>1, <2>5 DEF CacheInv, TypeOK
  <2>7. \A v \in Workers : \/ call'[v] = c /\ pc'[v] = "save"
                           \/ pc'[v] = pc[v] /\ call'[v] = call[v]
    BY <1>7, <1>9 DEF CacheInv, TypeOK
  <2> QED
    BY <1>1, <2>4, <2>6, <2>7, SureKept DEF CacheInv
<1>10. pc' = [pc EXCEPT ![w] = "idle"] \/ (pc' = [pc EXCEPT ![w] = "save"] /\ pc'[w] = "save")
  BY <1>2 DEF CacheInv, TypeOK
<1> QED
  BY <1>8, <1>9, <1>10

\* The two requests an answer of eth is made of.
LEMMA GetTrxStep == ASSUME CacheInv, NEW w \in Workers, GetTrx(w) PROVE CacheInv'
<1> DEFINE p == place[call[w].trx]
<1>1. /\ pc[w] = "ask" /\ coin = "eth"
      /\ call' = [call EXCEPT ![w].source = p]
      /\ pc' = [pc EXCEPT ![w] = IF p = Unknown THEN "idle" ELSE "receipt"]
      /\ UNCHANGED <<coin, tip, place, cache, replaced>>
  BY DEF GetTrx
<1>2. call[w] \in Records /\ call[w].trx \in Trx /\ p \in Places
  BY DEF CacheInv, TypeOK, Records
<1>3. /\ call' \in [Workers -> Records]
      /\ pc' \in [Workers -> {"idle", "ask", "receipt", "save"}]
      /\ call'[w].trx = call[w].trx /\ call'[w].source = p
  BY <1>1, <1>2 DEF CacheInv, TypeOK, Records
<1>4. TypeOK'
  BY <1>1, <1>3 DEF CacheInv, TypeOK
<1>5. \A v \in Workers : v # w => pc'[v] = pc[v] /\ call'[v] = call[v]
  BY <1>1 DEF CacheInv, TypeOK
<1>6. pc'[w] = IF p = Unknown THEN "idle" ELSE "receipt"
  BY <1>1 DEF CacheInv, TypeOK
<1> QED
  BY <1>1, <1>3, <1>4, <1>5, <1>6, SureKept DEF CacheInv

LEMMA GetTrxReceiptStep == ASSUME CacheInv, NEW w \in Workers, GetTrxReceipt(w) PROVE CacheInv'
<1> DEFINE p == place[call[w].trx]
<1>1. pc[w] = "receipt" /\ UNCHANGED <<coin, tip, place, cache, replaced>>
  BY DEF GetTrxReceipt
<1>2. call[w] \in Records /\ call[w].trx \in Trx /\ p \in Places
  BY DEF CacheInv, TypeOK, Records
<1>3. CASE ~HasReceipt(p)
  <2>1. PICK c : c = [call[w] EXCEPT !.source = Unknown]
    OBVIOUS
  <2>2. c \in Records
    <3>1. Unknown \in Places
      OBVIOUS
    <3> QED
      BY <1>2, <2>1, <3>1 DEF Records
  <2>3. call' = [call EXCEPT ![w] = c] /\ pc' = [pc EXCEPT ![w] = "idle"]
    BY <1>3, <2>1 DEF GetTrxReceipt, CacheInv, TypeOK
  <2> QED
    BY <1>1, <2>2, <2>3, WorkerKept
<1>4. CASE HasReceipt(p)
  <2>1. call' = [call EXCEPT ![w].place = p] /\ pc' = [pc EXCEPT ![w] = "save"]
    BY <1>4 DEF GetTrxReceipt
  <2>2. /\ call' \in [Workers -> Records]
        /\ pc' \in [Workers -> {"idle", "ask", "receipt", "save"}]
        /\ call'[w].trx = call[w].trx /\ call'[w].source = call[w].source /\ call'[w].place = p
    BY <1>2, <2>1 DEF CacheInv, TypeOK, Records
  <2>3. TypeOK'
    BY <1>1, <2>2 DEF CacheInv, TypeOK
  <2>4. \A v \in Workers : v # w => pc'[v] = pc[v] /\ call'[v] = call[v]
    BY <2>1 DEF CacheInv, TypeOK
  <2>5. p > Mempool /\ p # Unknown
    BY <1>2, <1>4 DEF HasReceipt
  <2>6. coin = "eth" /\ call[w].source \in {p, Mempool} \cup replaced
    BY <1>1 DEF CacheInv
  <2>7. Sure(call[w])' /\ call'[w].place # Unknown /\ pc'[w] = "save"
    BY <1>1, <2>1, <2>2, <2>5, <2>6 DEF Sure, CacheInv, TypeOK
  <2> QED
    BY <1>1, <2>3, <2>4, <2>7, SureKept DEF CacheInv
<1> QED
  BY <1>3, <1>4

LEMMA SaveStep == ASSUME CacheInv, NEW w \in Workers, Save(w) PROVE CacheInv'
<1>1. /\ pc[w] = "save" /\ cache' = cache \cup {call[w]} /\ pc' = [pc EXCEPT ![w] = "idle"]
      /\ UNCHANGED <<coin, tip, place, call, replaced>>
  BY DEF Save
<1>2. Sure(call[w]) /\ call[w].place # Unknown /\ call[w] \in Records
  BY <1>1 DEF CacheInv, TypeOK
<1>3. TypeOK'
  BY <1>1, <1>2 DEF CacheInv, TypeOK
<1>4. \A v \in Workers : pc'[v] = pc[v] \/ pc'[v] = "idle"
  BY <1>1 DEF CacheInv, TypeOK
<1> QED
  BY <1>1, <1>2, <1>3, <1>4, SureKept DEF CacheInv

LEMMA CacheStep == CacheInv /\ [Next]_vars => CacheInv'
<1> SUFFICES ASSUME CacheInv, [Next]_vars
             PROVE  CacheInv'
  OBVIOUS
<1>1. CASE Next
  BY <1>1, NodeGrowsStep, QueryStep, AnsweredStep, GetTrxStep, GetTrxReceiptStep, SaveStep
     DEF Next
<1>2. CASE UNCHANGED vars
  BY <1>2, SureKept DEF vars, CacheInv, TypeOK
<1> QED
  BY <1>1, <1>2

LEMMA CacheTrue == CacheInv => TypeOK /\ FinalByQuery /\ CachedIsFinal /\ EthAsMined
BY DEF CacheInv, Sure, Deep, FinalByQuery, CachedIsFinal, EthAsMined, TypeOK, Records

-----------------------------------------------------------------------------
(* bak_white_list_datas of each worker, and b_verify_cache.                *)

USE MemoryAssumption
USE DEF Memory!Ages

ListTyped ==
    /\ file \in Lists \cup {NoList}
    /\ list \in [Workers -> Lists \cup {NoList}]
    /\ age \in [Workers -> 0..(Keep + 1)] /\ lastIn \in [Lists -> 0..(Keep + 1)]
    /\ readOk \in [Workers -> BOOLEAN]

\* A worker whose last look succeeded has a list that was in the file then.
ListInv ==
    /\ ListTyped
    /\ file \in Lists => lastIn[file] = 0
    /\ \A w \in Workers : readOk[w] => list[w] \in Lists
    /\ Memory!ListFresh

LEMMA InitList == ServiceInit => ListInv
<1> SUFFICES ASSUME ServiceInit PROVE ListInv
  OBVIOUS
<1>1. Memory!Init
  BY DEF ServiceInit
<1>2. /\ file \in Lists \cup {NoList}
      /\ list = [w \in Workers |-> NoList] /\ age = [w \in Workers |-> Keep + 1]
      /\ readOk = [w \in Workers |-> FALSE]
      /\ lastIn = [l \in Lists |-> IF l = file THEN 0 ELSE Keep + 1]
  BY <1>1 DEF Memory!Init
<1> HIDE DEF ServiceInit
<1> QED
  BY <1>2 DEF ListInv, ListTyped, Memory!ListFresh

LEMMA OlderFacts ==
    ASSUME NEW n \in 0..(Keep + 1)
    PROVE  /\ Memory!Older(n) \in 0..(Keep + 1)
           /\ Memory!Older(n) <= Keep => n <= Keep /\ Memory!Older(n) = n + 1
           /\ Memory!Older(n) <= n + 1
BY DEF Memory!Older

LEMMA TickStep == ASSUME ListInv, Memory!Tick PROVE ListInv'
<1>1. /\ file' \in Lists \cup {NoList}
      /\ lastIn' = [l \in Lists |-> IF l = file' THEN 0 ELSE Memory!Older(lastIn[l])]
      /\ age' = [w \in Workers |-> Memory!Older(age[w])]
      /\ UNCHANGED <<list, readOk>>
  BY DEF Memory!Tick
<1>2. ListTyped'
  BY <1>1, OlderFacts DEF ListInv, ListTyped
<1>3. ASSUME NEW w \in Workers, readOk[w], age'[w] <= Keep
      PROVE  lastIn'[list[w]] <= age'[w]
  <2>1. age[w] \in 0..(Keep + 1) /\ age'[w] = Memory!Older(age[w])
    BY <1>1 DEF ListInv, ListTyped
  <2>2. age[w] <= Keep /\ age'[w] = age[w] + 1
    BY <1>3, <2>1, OlderFacts
  <2>3. list[w] \in Lists /\ lastIn[list[w]] \in 0..(Keep + 1) /\ lastIn[list[w]] <= age[w]
    BY <1>3, <2>2 DEF ListInv, ListTyped, Memory!ListFresh
  <2>4. lastIn'[list[w]] = 0 \/ lastIn'[list[w]] = Memory!Older(lastIn[list[w]])
    BY <1>1, <2>3
  <2>5. Memory!Older(lastIn[list[w]]) \in Int /\ Memory!Older(lastIn[list[w]]) <= lastIn[list[w]] + 1
    BY <2>3, OlderFacts
  <2> QED
    BY <2>1, <2>2, <2>3, <2>4, <2>5
<1>4. file' \in Lists => lastIn'[file'] = 0
  BY <1>1
<1> QED
  BY <1>1, <1>2, <1>3, <1>4 DEF ListInv, Memory!ListFresh

LEMMA QueryWhiteListStep ==
    ASSUME ListInv, NEW w \in Workers, Memory!QueryWhiteList(w)
    PROVE  ListInv'
<1>1. UNCHANGED <<file, lastIn>>
  BY DEF Memory!QueryWhiteList
<1>2. CASE age[w] > Keep
  <2>1. /\ age' = [age EXCEPT ![w] = 0]
        /\ list' = [list EXCEPT ![w] = IF file # NoList THEN file ELSE list[w]]
        /\ readOk' = [readOk EXCEPT ![w] = (file # NoList)]
    BY <1>2 DEF Memory!QueryWhiteList, Memory!Clock, Memory!LooksAgain
  <2>2. ListTyped'
    BY <1>1, <2>1 DEF ListInv, ListTyped
  <2>3. ASSUME NEW v \in Workers, readOk'[v]
        PROVE  list'[v] \in Lists /\ (age'[v] <= Keep => lastIn'[list'[v]] <= age'[v])
    <3>1. CASE v = w
      <4>1. readOk'[w] = (file # NoList)
        BY <2>1 DEF ListInv, ListTyped
      <4>2. file # NoList
        BY <2>3, <3>1, <4>1
      <4>3. list'[w] = file /\ age'[w] = 0
        BY <2>1, <4>2 DEF ListInv, ListTyped
      <4> QED
        BY <1>1, <3>1, <4>2, <4>3 DEF ListInv, ListTyped
    <3>2. CASE v # w
      BY <1>1, <2>1, <2>3, <3>2 DEF ListInv, ListTyped, Memory!ListFresh
    <3> QED
      BY <3>1, <3>2
  <2> QED
    BY <1>1, <2>2, <2>3 DEF ListInv, Memory!ListFresh
<1>3. CASE ~(age[w] > Keep)
  <2>1. UNCHANGED <<list, readOk, age>>
    BY <1>3 DEF Memory!QueryWhiteList, Memory!Clock, Memory!LooksAgain, ListInv, ListTyped
  <2> QED
    BY <1>1, <2>1 DEF ListInv, ListTyped, Memory!ListFresh
<1> QED
  BY <1>2, <1>3

LEMMA ListStep == ListInv /\ [Memory!ListNext]_listVars => ListInv'
<1> SUFFICES ASSUME ListInv, [Memory!ListNext]_listVars
             PROVE  ListInv'
  OBVIOUS
<1>1. CASE Memory!ListNext
  BY <1>1, TickStep, QueryWhiteListStep DEF Memory!ListNext
<1>2. CASE UNCHANGED listVars
  BY <1>2 DEF listVars, ListInv, ListTyped, Memory!ListFresh
<1> QED
  BY <1>1, <1>2

\* A claim on its way into b_verify_cache was confirmed.
ClaimInv ==
    /\ proved \subseteq Good
    /\ asks \in [Workers -> [claim : Claims, step : {"done", "node", "keep"}]]
    /\ verdict \in [Workers -> BOOLEAN]
    /\ \A w \in Workers : asks[w].step = "keep" => asks[w].claim \in Good
    /\ Memory!VerdictTrue

LEMMA InitClaim == ServiceInit => ClaimInv
<1> SUFFICES ASSUME ServiceInit PROVE ClaimInv
  OBVIOUS
<1>1. Memory!Init
  BY DEF ServiceInit
<1>2. /\ proved = {} /\ verdict = [w \in Workers |-> FALSE]
      /\ asks \in [Workers -> [claim : Claims, step : {"done"}]]
  BY <1>1 DEF Memory!Init
<1> QED
  BY <1>2 DEF ClaimInv, Memory!VerdictTrue

LEMMA ClaimStep == ClaimInv /\ [Memory!ClaimNext]_claimVars => ClaimInv'
<1> SUFFICES ASSUME ClaimInv, [Memory!ClaimNext]_claimVars
             PROVE  ClaimInv'
  OBVIOUS
<1>1. CASE UNCHANGED claimVars
  BY <1>1 DEF claimVars, ClaimInv, Memory!VerdictTrue
<1>2. ASSUME NEW w \in Workers, Memory!Recalled(w)
      PROVE  ClaimInv'
  BY <1>2 DEF Memory!Recalled, ClaimInv, Memory!VerdictTrue
<1>3. ASSUME NEW w \in Workers, Memory!AskNode(w)
      PROVE  ClaimInv'
  BY <1>3 DEF Memory!AskNode, ClaimInv, Memory!VerdictTrue
<1>4. ASSUME NEW w \in Workers, Memory!NodeVerifies(w)
      PROVE  ClaimInv'
  <2>1. PICK yes \in BOOLEAN :
          /\ yes => asks[w].claim \in Good
          /\ verdict' = [verdict EXCEPT ![w] = yes]
          /\ asks' = [asks EXCEPT ![w].step = IF yes THEN "keep" ELSE "done"]
    BY <1>4 DEF Memory!NodeVerifies, Memory!Kept
  <2>2. proved' = proved
    BY <1>4 DEF Memory!NodeVerifies
  <2>4. /\ asks' \in [Workers -> [claim : Claims, step : {"done", "node", "keep"}]]
        /\ asks'[w].claim = asks[w].claim
        /\ asks'[w].step = IF yes THEN "keep" ELSE "done"
        /\ \A v \in Workers : v # w => asks'[v] = asks[v]
    BY <2>1 DEF ClaimInv
  <2>5. verdict' \in [Workers -> BOOLEAN]
    BY <2>1 DEF ClaimInv
  <2>6. verdict'[w] = yes /\ \A v \in Workers : v # w => verdict'[v] = verdict[v]
    BY <2>1 DEF ClaimInv
  <2>7. \A v \in Workers : asks'[v].step = "keep" => asks'[v].claim \in Good
    BY <2>1, <2>4 DEF ClaimInv
  <2>8. \A v \in Workers : (verdict'[v] /\ asks'[v].step = "done") => asks'[v].claim \in Good
    <3>1. (verdict'[w] /\ asks'[w].step = "done") => asks'[w].claim \in Good
      BY <2>1, <2>4, <2>6
    <3> QED
      BY <2>4, <2>6, <3>1 DEF ClaimInv, Memory!VerdictTrue
  <2> QED
    BY <2>2, <2>4, <2>5, <2>7, <2>8 DEF ClaimInv, Memory!VerdictTrue
<1>5. ASSUME NEW w \in Workers, Memory!KeepClaim(w)
      PROVE  ClaimInv'
  BY <1>5 DEF Memory!KeepClaim, ClaimInv, Memory!VerdictTrue
<1> QED
  BY <1>1, <1>2, <1>3, <1>4, <1>5 DEF Memory!ClaimNext

-----------------------------------------------------------------------------
(* b_broadcast_trans_cache: TypeOK of its module is inductive, and says    *)
(* that the newest answer has its record until it may be swept.            *)

LEMMA InitBroadcast == ServiceInit => Broadcast!TypeOK
<1> SUFFICES ASSUME Broadcast!Init PROVE Broadcast!TypeOK
  BY DEF ServiceInit
<1> QED
  BY DEF Broadcast!Init, Broadcast!TypeOK, Broadcast!Ages, Broadcast!SweepAges, Broadcast!Results

LEMMA BroadcastTickStep == ASSUME Broadcast!TypeOK, Broadcast!Tick PROVE Broadcast!TypeOK'
<1>1. /\ answers' = {[r EXCEPT !.age = Broadcast!Older(r.age, KeepFor + 1)] : r \in answers}
      /\ swept' = [w \in Workers |-> Broadcast!Older(swept[w], SweepEvery + 1)]
      /\ stored' = [t \in Sent |-> Broadcast!Older(stored[t], KeepFor + 1)]
      /\ UNCHANGED <<step, asked, result>>
  BY DEF Broadcast!Tick
<1>2. \A n \in 0..(KeepFor + 1) : Broadcast!Older(n, KeepFor + 1) \in 0..(KeepFor + 1)
  BY DEF Broadcast!Older
<1>3. \A n \in 0..(SweepEvery + 1) : Broadcast!Older(n, SweepEvery + 1) \in 0..(SweepEvery + 1)
  BY DEF Broadcast!Older
<1>4. ASSUME NEW r \in answers
      PROVE  /\ [r EXCEPT !.age = Broadcast!Older(r.age, KeepFor + 1)]
                  \in [trx: Sent, age: 0..(KeepFor + 1), result: Broadcast!Results]
             /\ [r EXCEPT !.age = Broadcast!Older(r.age, KeepFor + 1)].trx = r.trx
             /\ [r EXCEPT !.age = Broadcast!Older(r.age, KeepFor + 1)].age
                  = Broadcast!Older(r.age, KeepFor + 1)
  <2>1. r \in [trx: Sent, age: 0..(KeepFor + 1), result: Broadcast!Results]
    BY DEF Broadcast!TypeOK, Broadcast!Ages
  <2>2. Broadcast!Older(r.age, KeepFor + 1) \in 0..(KeepFor + 1)
    BY <1>2, <2>1
  <2> QED
    BY <2>1, <2>2
<1>5. answers' \subseteq [trx: Sent, age: 0..(KeepFor + 1), result: Broadcast!Results]
  BY <1>1, <1>4
<1>6. ASSUME NEW t \in Sent, stored'[t] <= KeepFor
      PROVE  \E r \in answers' : r.trx = t /\ r.age = stored'[t]
  <2>1. stored[t] \in 0..(KeepFor + 1) /\ stored'[t] = Broadcast!Older(stored[t], KeepFor + 1)
    BY <1>1 DEF Broadcast!TypeOK, Broadcast!Ages
  <2>2. stored[t] <= KeepFor
    BY <1>6, <2>1 DEF Broadcast!Older
  <2>3. PICK r \in answers : r.trx = t /\ r.age = stored[t]
    BY <2>2 DEF Broadcast!TypeOK
  <2>4. [r EXCEPT !.age = Broadcast!Older(r.age, KeepFor + 1)] \in answers'
    BY <1>1
  <2> QED
    BY <1>4, <2>1, <2>3, <2>4
<1>7. /\ swept' \in [Workers -> 0..(SweepEvery + 1)] /\ stored' \in [Sent -> 0..(KeepFor + 1)]
  BY <1>1, <1>2, <1>3 DEF Broadcast!TypeOK, Broadcast!Ages, Broadcast!SweepAges
<1> QED
  BY <1>1, <1>5, <1>6, <1>7 DEF Broadcast!TypeOK, Broadcast!Ages, Broadcast!SweepAges

LEMMA BroadcastInsertStep ==
    ASSUME Broadcast!TypeOK, NEW w \in Workers, Broadcast!Insert(w)
    PROVE  Broadcast!TypeOK'
<1>1. /\ answers' = answers \cup {Broadcast!Record(w)}
      /\ stored' = [stored EXCEPT ![asked[w]] = 0]
      /\ step' = [step EXCEPT ![w] = IF swept[w] > SweepEvery THEN "sweep" ELSE "idle"]
      /\ UNCHANGED <<swept, asked, result>>
  BY DEF Broadcast!Insert
<1>2. /\ Broadcast!Record(w) \in [trx: Sent, age: 0..(KeepFor + 1), result: Broadcast!Results]
      /\ Broadcast!Record(w).trx = asked[w] /\ Broadcast!Record(w).age = 0 /\ asked[w] \in Sent
  BY DEF Broadcast!TypeOK, Broadcast!Record
<1>3. /\ stored' \in [Sent -> 0..(KeepFor + 1)]
      /\ \A t \in Sent : stored'[t] = IF t = asked[w] THEN 0 ELSE stored[t]
  BY <1>1, <1>2 DEF Broadcast!TypeOK, Broadcast!Ages
<1>4. ASSUME NEW t \in Sent, stored'[t] <= KeepFor
      PROVE  \E r \in answers' : r.trx = t /\ r.age = stored'[t]
  <2>1. CASE t = asked[w]
    BY <1>1, <1>2, <1>3, <2>1
  <2>2. CASE t # asked[w]
    BY <1>1, <1>3, <1>4, <2>2 DEF Broadcast!TypeOK
  <2> QED
    BY <2>1, <2>2
<1>5. step' \in [Workers -> {"idle", "node", "insert", "sweep"}]
  BY <1>1 DEF Broadcast!TypeOK
<1> HIDE DEF Broadcast!Insert
<1> QED
  BY <1>1, <1>2, <1>3, <1>4, <1>5 DEF Broadcast!TypeOK, Broadcast!Ages

LEMMA BroadcastStep == Broadcast!TypeOK /\ [Broadcast!Next]_broadcastVars => Broadcast!TypeOK'
<1> SUFFICES ASSUME Broadcast!TypeOK, [Broadcast!Next]_broadcastVars
             PROVE  Broadcast!TypeOK'
  OBVIOUS
<1>1. CASE UNCHANGED broadcastVars
  BY <1>1 DEF broadcastVars, Broadcast!TypeOK
<1>2. ASSUME NEW w \in Workers, Broadcast!AnsweredFromCache(w)
      PROVE  Broadcast!TypeOK'
  BY <1>2 DEF Broadcast!AnsweredFromCache, Broadcast!TypeOK
<1>3. ASSUME NEW w \in Workers, NEW t \in Sent, Broadcast!Submit(w, t)
      PROVE  Broadcast!TypeOK'
  BY <1>3 DEF Broadcast!Submit, Broadcast!TypeOK
<1>4. ASSUME NEW w \in Workers, Broadcast!NodeAnswers(w)
      PROVE  Broadcast!TypeOK'
  BY <1>4 DEF Broadcast!NodeAnswers, Broadcast!TypeOK
<1>5. ASSUME NEW w \in Workers, Broadcast!Sweep(w)
      PROVE  Broadcast!TypeOK'
  <2>1. /\ answers' = {r \in answers : ~(r.age > KeepFor)}
        /\ swept' = [swept EXCEPT ![w] = 0] /\ step' = [step EXCEPT ![w] = "idle"]
        /\ UNCHANGED <<asked, result, stored>>
    BY <1>5 DEF Broadcast!Sweep, Broadcast!Expired
  <2>2. ASSUME NEW t \in Sent, stored[t] <= KeepFor
        PROVE  \E r \in answers' : r.trx = t /\ r.age = stored[t]
    <3>1. PICK r \in answers : r.trx = t /\ r.age = stored[t]
      BY <2>2 DEF Broadcast!TypeOK
    <3>2. r \in answers'
      BY <2>1, <2>2, <3>1 DEF Broadcast!TypeOK, Broadcast!Ages
    <3> QED
      BY <3>1, <3>2
  <2>3. swept' \in [Workers -> 0..(SweepEvery + 1)]
        /\ step' \in [Workers -> {"idle", "node", "insert", "sweep"}]
    BY <2>1 DEF Broadcast!TypeOK, Broadcast!SweepAges
  <2> QED
    BY <2>1, <2>2, <2>3 DEF Broadcast!TypeOK, Broadcast!SweepAges
<1> QED
  BY <1>1, <1>2, <1>3, <1>4, <1>5, BroadcastTickStep, BroadcastInsertStep
     DEF Broadcast!Next, Broadcast!Serve

-----------------------------------------------------------------------------
(* b_<coin>_multisig_address, b_eths_address and who is told of them.      *)

USE AddressAssumption

\* What is registered of a coin's family.
Asked ==
    IF family = "eth" THEN Book!EthImports ELSE {Book!Create(a) : a \in Addr} \cup Book!WalletImports

BookTyped ==
    /\ family \in {"btc", "eth"}
    /\ rows \subseteq [chain : Book!Chains \cup {"btc"}, addr : Addr, contract : BOOLEAN]
    /\ told \subseteq Addr \X {"wallet", "normal", "erc"} /\ watched \subseteq Addr
    /\ at \in [Workers -> Book!Steps] /\ todo \in [Workers -> Seq(Asked)]
    /\ items \in 0..MaxItems /\ done \subseteq Asked /\ failed \in BOOLEAN

Telling == {"update", "tell", "tell erc"}

\* What is true of an item at the step a call has come to with it.
Ready(w, it) ==
    /\ it.chain # Unlisted
    /\ at[w] \in {"node", "remove", "insert again"} => it.op = "create"
    /\ at[w] \in Telling => it.op = "import"
    /\ at[w] \in {"look", "insert"} /\ it.op = "import" => family = "eth"
    /\ at[w] \in Telling /\ family = "eth" => Book!RowsOf(it) # {}
    /\ at[w] = "tell erc" => it.erc /\ (failed \/ <<it.addr, "normal">> \in told)

AllReady ==
    \A w \in Workers :
        /\ at[w] # "idle" => todo[w] # << >> /\ Ready(w, Book!Item(w))
        /\ at[w] = "idle" => todo[w] = << >> \/ Book!Item(w).chain = Unlisted

\* Who is about to tell eth_collect of a contract.
WillTell(a) == \E w \in Workers : at[w] \in {"tell", "tell erc"} /\ Book!Item(w).addr = a
                                  /\ Book!Item(w).erc

ContractsTold == \A r \in rows : r.contract => failed \/ <<r.addr, "erc">> \in told \/ WillTell(r.addr)

BookInv ==
    /\ BookTyped /\ AllReady
    /\ Book!BookHolds /\ Book!ImportsTold /\ ContractsTold /\ Book!OneRow

LEMMA ItemFacts ==
    ASSUME BookTyped, NEW it \in Asked
    PROVE  /\ it \in Book!Items /\ it.addr \in Addr /\ it.op \in {"create", "import"}
           /\ it.erc \in BOOLEAN /\ it.chain \in Book!Chains \cup {"btc"}
           /\ family = "btc" => it.chain = "btc" /\ it.erc = FALSE /\ it.chain # Unlisted
           /\ family = "eth" => it.op = "import" /\ it.chain # "btc"
           /\ it.op = "create" => it = Book!Create(it.addr)
<1>1. CASE family = "eth"
  <2>1. it \in Book!EthImports
    BY <1>1 DEF Asked
  <2> QED
    BY <1>1, <2>1 DEF Book!EthImports, Book!Items, Book!Chains
<1>2. CASE family = "btc"
  <2>1. it \in {Book!Create(a) : a \in Addr} \/ it \in Book!WalletImports
    BY <1>2 DEF Asked
  <2>2. "btc" # Unlisted
    OBVIOUS
  <2>3. CASE it \in Book!WalletImports
    BY <1>2, <2>2, <2>3 DEF Book!WalletImports, Book!Items
  <2>4. CASE it \in {Book!Create(a) : a \in Addr}
    <3>1. PICK a \in Addr : it = Book!Create(a)
      BY <2>4
    <3>2. it = [op |-> "create", chain |-> "btc", addr |-> a, erc |-> FALSE]
      BY <3>1 DEF Book!Create
    <3>3. it \in Book!Items
      BY <2>4 DEF Book!Items
    <3>4. /\ it.op = "create" /\ it.chain = "btc" /\ it.addr = a /\ it.erc = FALSE
      BY <3>2
    <3>5. it.erc \in BOOLEAN
      BY <3>4
    <3>6. it = Book!Create(it.addr)
      BY <3>1, <3>4
    <3>7. it.chain \in Book!Chains \cup {"btc"}
      BY <3>4
    <3> QED
      BY <1>2, <2>2, <3>3, <3>4, <3>5, <3>6, <3>7
  <2> QED
    BY <2>1, <2>3, <2>4
<1> QED
  BY <1>1, <1>2 DEF BookTyped

LEMMA ListFacts ==
    ASSUME NEW S, NEW s \in Seq(S), s # << >>
    PROVE  Head(s) \in S /\ Tail(s) \in Seq(S)
BY HeadTailProperties

LEMMA ItemOfWorker ==
    ASSUME BookTyped, NEW w \in Workers, todo[w] # << >>
    PROVE  Book!Item(w) \in Asked /\ Tail(todo[w]) \in Seq(Asked)
BY ListFacts DEF BookTyped, Book!Item

\* The step a new item begins with suits it.
LEMMA BeginsFacts ==
    ASSUME BookTyped, NEW s \in Seq(Asked)
    PROVE  /\ Book!Begins(s) \in {"idle", "node", "tell", "look"}
           /\ Book!Begins(s) = "idle" => s = << >> \/ Head(s).chain = Unlisted
           /\ Book!Begins(s) # "idle" =>
                /\ s # << >> /\ Head(s).chain # Unlisted
                /\ Book!Begins(s) = "node" => Head(s).op = "create"
                /\ Book!Begins(s) = "tell" => Head(s).op = "import" /\ family = "btc"
                /\ Book!Begins(s) = "look" => family = "eth"
<1>1. CASE s = << >> \/ Head(s).chain = Unlisted
  BY <1>1 DEF Book!Begins
<1>2. CASE s # << >> /\ Head(s).chain # Unlisted
  <2>1. Book!Begins(s) = Book!First(Head(s)) /\ Head(s) \in Asked
    BY <1>2, ListFacts DEF Book!Begins
  <2>2. PICK it \in Asked : it = Head(s)
    BY <2>1
  <2>3. /\ it.op \in {"create", "import"} /\ family \in {"btc", "eth"}
        /\ family = "btc" => it.chain = "btc"
        /\ family = "eth" => it.op = "import" /\ it.chain # "btc"
    BY ItemFacts DEF BookTyped
  <2>4. Book!First(it) = IF it.op = "create" THEN "node" ELSE IF it.chain = "btc" THEN "tell" ELSE "look"
    BY <2>3 DEF Book!First
  <2> QED
    BY <1>2, <2>1, <2>2, <2>3, <2>4
<1> QED
  BY <1>1, <1>2

LEMMA InitBook == ServiceInit => BookInv
<1> SUFFICES ASSUME Book!Init PROVE BookInv
  BY DEF ServiceInit
<1>1. /\ family \in {"btc", "eth"} /\ rows = {} /\ told = {} /\ watched = {}
      /\ at = [w \in Workers |-> "idle"] /\ todo = [w \in Workers |-> << >>]
      /\ items = 0 /\ done = {} /\ failed = FALSE
  BY DEF Book!Init
<1>2. << >> \in Seq(Asked)
  BY EmptySeq
<1>3. at \in [Workers -> Book!Steps] /\ todo \in [Workers -> Seq(Asked)] /\ items \in 0..MaxItems
  BY <1>1, <1>2 DEF Book!Steps
<1>4. AllReady
  BY <1>1 DEF AllReady
<1>5. BookTyped
  BY <1>1, <1>3 DEF BookTyped
<1> QED
  BY <1>1, <1>4, <1>5 DEF BookInv, Book!BookHolds, Book!ImportsTold, ContractsTold, Book!OneRow

\* A call of another worker is not disturbed by what is only added.
LEMMA OthersReady ==
    ASSUME BookInv, NEW v \in Workers, at'[v] = at[v], todo'[v] = todo[v],
           family' = family, told \subseteq told', failed => failed',
           family = "eth" => \A it : Book!RowsOf(it) # {} => Book!RowsOf(it)' # {}
    PROVE  /\ at'[v] # "idle" => todo'[v] # << >> /\ Ready(v, Book!Item(v))'
           /\ at'[v] = "idle" => todo'[v] = << >> \/ Book!Item(v)'.chain = Unlisted
<1>1. Book!Item(v)' = Book!Item(v)
  BY DEF Book!Item
<1> QED
  BY <1>1 DEF BookInv, AllReady, Ready, Telling

\* The next item of a list is ready at its first step.
LEMMA NextReady ==
    ASSUME BookInv, NEW w \in Workers, NEW s \in Seq(Asked), todo'[w] = s,
           at'[w] = Book!Begins(s), family' = family
    PROVE  /\ at'[w] # "idle" => todo'[w] # << >> /\ Ready(w, Book!Item(w))'
           /\ at'[w] = "idle" => todo'[w] = << >> \/ Book!Item(w)'.chain = Unlisted
           /\ at'[w] \in Book!Steps
<1>1. Book!Item(w)' = Head(s)
  BY DEF Book!Item
<1>2. BookTyped
  BY DEF BookInv
<1>3. /\ at'[w] \in {"idle", "node", "tell", "look"}
      /\ at'[w] = "idle" => s = << >> \/ Head(s).chain = Unlisted
      /\ at'[w] # "idle" =>
           /\ s # << >> /\ Head(s).chain # Unlisted
           /\ at'[w] = "node" => Head(s).op = "create"
           /\ at'[w] = "tell" => Head(s).op = "import" /\ family = "btc"
           /\ at'[w] = "look" => family = "eth"
  BY <1>2, BeginsFacts
<1> QED
  BY <1>1, <1>3 DEF Ready, Telling, Book!Steps

\* What a step of worker w with its item keeps, whatever it does to the rows.
BookFrame(w) ==
    /\ \A v \in Workers : v # w => at'[v] = at[v] /\ todo'[v] = todo[v]
    /\ family' = family

LEMMA AllReadyNext ==
    ASSUME BookInv, NEW w \in Workers, BookFrame(w), told \subseteq told', failed => failed',
           family = "eth" => \A it : Book!RowsOf(it) # {} => Book!RowsOf(it)' # {},
           at'[w] # "idle" => todo'[w] # << >> /\ Ready(w, Book!Item(w))',
           at'[w] = "idle" => todo'[w] = << >> \/ Book!Item(w)'.chain = Unlisted
    PROVE  AllReady'
<1>1. ASSUME NEW v \in Workers
      PROVE  /\ at'[v] # "idle" => todo'[v] # << >> /\ Ready(v, Book!Item(v))'
             /\ at'[v] = "idle" => todo'[v] = << >> \/ Book!Item(v)'.chain = Unlisted
  <2>1. CASE v = w
    BY <2>1
  <2>2. CASE v # w
    BY <2>2, OthersReady DEF BookFrame
  <2> QED
    BY <2>1, <2>2
<1> QED
  BY <1>1 DEF AllReady

\* The step of a call that ends, or goes on with, an item.
LEMMA FinishFacts ==
    ASSUME BookInv, NEW w \in Workers, todo[w] # << >>, Book!Finish(w), family' = family
    PROVE  /\ BookFrame(w) /\ done' = done \cup {Book!Item(w)} /\ done' \subseteq Asked
           /\ at' \in [Workers -> Book!Steps] /\ todo' \in [Workers -> Seq(Asked)]
           /\ at'[w] \notin {"insert again", "tell erc"}
           /\ at'[w] # "idle" => todo'[w] # << >> /\ Ready(w, Book!Item(w))'
           /\ at'[w] = "idle" => todo'[w] = << >> \/ Book!Item(w)'.chain = Unlisted
<1>1. /\ done' = done \cup {Book!Item(w)} /\ todo' = [todo EXCEPT ![w] = Tail(todo[w])]
      /\ at' = [at EXCEPT ![w] = Book!Begins(Tail(todo[w]))]
  BY DEF Book!Finish
<1>2. BookTyped
  BY DEF BookInv
<1>3. Book!Item(w) \in Asked /\ Tail(todo[w]) \in Seq(Asked)
  BY <1>2, ItemOfWorker
<1>4. /\ todo'[w] = Tail(todo[w]) /\ at'[w] = Book!Begins(Tail(todo[w]))
      /\ \A v \in Workers : v # w => at'[v] = at[v] /\ todo'[v] = todo[v]
  BY <1>1, <1>2 DEF BookTyped
<1>5. /\ at'[w] # "idle" => todo'[w] # << >> /\ Ready(w, Book!Item(w))'
      /\ at'[w] = "idle" => todo'[w] = << >> \/ Book!Item(w)'.chain = Unlisted
      /\ at'[w] \in Book!Steps
  BY <1>3, <1>4, NextReady
<1>6. at'[w] \in {"idle", "node", "tell", "look"}
  BY <1>2, <1>3, <1>4, BeginsFacts
<1>7. at' \in [Workers -> Book!Steps] /\ todo' \in [Workers -> Seq(Asked)]
  BY <1>1, <1>2, <1>3, <1>4, <1>5 DEF BookTyped
<1>8. done' \subseteq Asked
  BY <1>1, <1>2, <1>3 DEF BookTyped
<1> QED
  BY <1>1, <1>4, <1>5, <1>6, <1>7, <1>8 DEF BookFrame

LEMMA GoToFacts ==
    ASSUME BookInv, NEW w \in Workers, NEW s \in Book!Steps, Book!GoTo(w, s), family' = family
    PROVE  /\ BookFrame(w) /\ done' = done /\ todo' = todo
           /\ at' \in [Workers -> Book!Steps] /\ todo' \in [Workers -> Seq(Asked)] /\ at'[w] = s
           /\ \A v \in Workers : Book!Item(v)' = Book!Item(v)
<1>1. UNCHANGED <<todo, done>> /\ at' = [at EXCEPT ![w] = s]
  BY DEF Book!GoTo
<1> QED
  BY <1>1 DEF BookInv, BookTyped, BookFrame, Book!Item

\* The parts of BookInv after a step of worker w with the item it.
LEMMA BookHoldsNext ==
    ASSUME BookInv, NEW w \in Workers, NEW it, it = Book!Item(w), BookFrame(w), failed => failed',
           \A x : Book!RowsOf(x) # {} => Book!RowsOf(x)' # {},
           at[w] = "insert again" => Book!RowsOf(it)' # {},
           done' \subseteq done \cup {it},
           it \in done' \ done => \/ failed' \/ it.chain = Unlisted
                                  \/ it.op = "import" /\ family = "btc"
                                  \/ Book!RowsOf(it)' # {}
    PROVE  Book!BookHolds'
<1> SUFFICES ASSUME NEW x \in done', ~failed', x.chain # Unlisted,
                    ~(x.op = "import" /\ family = "btc"), Book!RowsOf(x)' = {}
             PROVE  \E v \in Workers : at'[v] = "insert again" /\ Book!Item(v)' = x
  BY DEF Book!BookHolds, BookFrame
<1>1. x \in done /\ Book!RowsOf(x) = {} /\ ~failed
  OBVIOUS
<1>2. PICK v \in Workers : at[v] = "insert again" /\ Book!Item(v) = x
  BY <1>1 DEF BookInv, Book!BookHolds
<1>3. v # w
  BY <1>2
<1> QED
  BY <1>2, <1>3 DEF BookFrame, Book!Item

LEMMA ImportsToldNext ==
    ASSUME BookInv, NEW it, told \subseteq told', failed => failed', family' = family,
           done' \subseteq done \cup {it},
           it \in done' /\ it.op = "import" =>
                \/ failed' \/ it.chain = Unlisted
                \/ family = "btc" /\ <<it.addr, "wallet">> \in told'
                \/ family = "eth" /\ <<it.addr, "normal">> \in told'
                                  /\ (it.erc => <<it.addr, "erc">> \in told')
    PROVE  Book!ImportsTold'
BY DEF BookInv, Book!ImportsTold

LEMMA ContractsToldNext ==
    ASSUME BookInv, NEW w \in Workers, NEW it, it = Book!Item(w), BookFrame(w),
           told \subseteq told', failed => failed',
           at[w] \in {"tell", "tell erc"} /\ it.erc =>
                \/ failed' \/ <<it.addr, "erc">> \in told'
                \/ at'[w] \in {"tell", "tell erc"} /\ Book!Item(w)' = it,
           \A r \in rows' : r.contract =>
                \/ \E q \in rows : q.contract /\ q.addr = r.addr
                \/ r.addr = it.addr /\ it.erc /\ at'[w] = "tell" /\ Book!Item(w)' = it
    PROVE  ContractsTold'
<1> SUFFICES ASSUME NEW r \in rows', r.contract, ~failed', <<r.addr, "erc">> \notin told'
             PROVE  WillTell(r.addr)'
  BY DEF ContractsTold
<1>1. CASE \E q \in rows : q.contract /\ q.addr = r.addr
  <2>1. WillTell(r.addr)
    BY <1>1 DEF BookInv, ContractsTold
  <2>2. PICK v \in Workers : at[v] \in {"tell", "tell erc"} /\ Book!Item(v).addr = r.addr
                             /\ Book!Item(v).erc
    BY <2>1 DEF WillTell
  <2>3. CASE v = w
    <3>1. at'[w] \in {"tell", "tell erc"} /\ Book!Item(w)' = it
      BY <2>2, <2>3
    <3> QED
      BY <2>2, <2>3, <3>1 DEF WillTell
  <2>4. CASE v # w
    <3>1. at'[v] = at[v] /\ Book!Item(v)' = Book!Item(v)
      BY <2>4 DEF BookFrame, Book!Item
    <3> QED
      BY <2>2, <3>1 DEF WillTell
  <2> QED
    BY <2>3, <2>4
<1>2. CASE r.addr = it.addr /\ it.erc /\ at'[w] = "tell" /\ Book!Item(w)' = it
  BY <1>2 DEF WillTell
<1> QED
  BY <1>1, <1>2

LEMMA CallStep == ASSUME BookInv, NEW w \in Workers, Book!Call(w) PROVE BookInv'
<1>1. /\ at[w] = "idle"
      /\ UNCHANGED <<family, rows, watched, told, done, failed>>
  BY DEF Book!Call, Book!table
<1>2. PICK s \in IF family = "eth" THEN Book!Batches(Book!EthImports)
                 ELSE {<<Book!Create(a)>> : a \in Addr} \cup Book!Batches(Book!WalletImports) :
        /\ items + Len(s) <= MaxItems /\ items' = items + Len(s)
        /\ todo' = [todo EXCEPT ![w] = s]
        /\ at' = [at EXCEPT ![w] = Book!Begins(s)]
  BY DEF Book!Call
<1>3. s \in Seq(Asked)
  <2>1. \A S : Book!Batches(S) \subseteq Seq(S)
    BY DEF Book!Batches
  <2>2. CASE family = "eth"
    BY <1>2, <2>1, <2>2 DEF Asked
  <2>3. CASE family # "eth" /\ s \in {<<Book!Create(a)>> : a \in Addr}
    <3>1. PICK a \in Addr : s = <<Book!Create(a)>>
      BY <2>3
    <3>2. Book!Create(a) \in Asked
      BY <2>3 DEF Asked
    <3> QED
      BY <3>1, <3>2
  <2>4. CASE family # "eth" /\ s \in Book!Batches(Book!WalletImports)
    <3>1. s \in Seq(Book!WalletImports)
      BY <2>1, <2>4
    <3>2. Book!WalletImports \subseteq Asked
      BY <2>4 DEF Asked
    <3> QED
      BY <3>1, <3>2
  <2> QED
    BY <1>2, <2>2, <2>3, <2>4
<1>4. /\ todo'[w] = s /\ at'[w] = Book!Begins(s)
      /\ \A v \in Workers : v # w => at'[v] = at[v] /\ todo'[v] = todo[v]
  BY <1>2 DEF BookInv, BookTyped
<1>5. BookFrame(w)
  BY <1>1, <1>4 DEF BookFrame
<1>6. /\ at'[w] # "idle" => todo'[w] # << >> /\ Ready(w, Book!Item(w))'
      /\ at'[w] = "idle" => todo'[w] = << >> \/ Book!Item(w)'.chain = Unlisted
      /\ at'[w] \in Book!Steps
  BY <1>1, <1>3, <1>4, NextReady
<1>7. AllReady'
  BY <1>1, <1>5, <1>6, AllReadyNext DEF Book!RowsOf
<1>8. BookTyped'
  <2>1. items' \in 0..MaxItems
    BY <1>2, <1>3, LenProperties DEF BookInv, BookTyped
  <2>2. at' \in [Workers -> Book!Steps] /\ todo' \in [Workers -> Seq(Asked)]
    BY <1>2, <1>3, <1>4, <1>6 DEF BookInv, BookTyped
  <2> QED
    BY <1>1, <2>1, <2>2 DEF BookInv, BookTyped, Asked
<1>9. PICK it : it = Book!Item(w)
  OBVIOUS
<1>10. Book!BookHolds' /\ Book!ImportsTold'
  <2>1. \A x : Book!RowsOf(x)' = Book!RowsOf(x)
    BY <1>1 DEF Book!RowsOf
  <2>2. Book!BookHolds /\ Book!ImportsTold
    BY DEF BookInv
  <2>3. \A v \in Workers : at[v] = "insert again" => at'[v] = at[v] /\ Book!Item(v)' = Book!Item(v)
    BY <1>1, <1>4 DEF Book!Item
  <2> QED
    BY <1>1, <2>1, <2>2, <2>3 DEF Book!BookHolds, Book!ImportsTold
<1>11. ContractsTold'
  BY <1>1, <1>5, <1>9, ContractsToldNext
<1>12. Book!OneRow'
  BY <1>1 DEF BookInv, Book!OneRow
<1> QED
  BY <1>7, <1>8, <1>10, <1>11, <1>12 DEF BookInv

\* What every step of worker w with its item it starts from.
LEMMA AtItem ==
    ASSUME BookInv, NEW w \in Workers, at[w] # "idle" \/ todo[w] # << >>
    PROVE  /\ todo[w] # << >> /\ Book!Item(w) \in Asked
           /\ at[w] # "idle" => Ready(w, Book!Item(w))
           /\ at[w] = "idle" => Book!Item(w).chain = Unlisted
BY ItemOfWorker DEF BookInv, AllReady

LEMMA PassOverStep == ASSUME BookInv, NEW w \in Workers, Book!PassOver(w) PROVE BookInv'
<1>1. /\ at[w] = "idle" /\ todo[w] # << >> /\ Book!Finish(w)
      /\ UNCHANGED <<family, rows, watched, told, items, failed>>
  BY DEF Book!PassOver, Book!table
<1>2. PICK it : it = Book!Item(w)
  OBVIOUS
<1>3. it \in Asked /\ it.chain = Unlisted
  BY <1>1, <1>2, AtItem
<1>4. /\ BookFrame(w) /\ done' = done \cup {it} /\ done' \subseteq Asked
      /\ at' \in [Workers -> Book!Steps] /\ todo' \in [Workers -> Seq(Asked)]
      /\ at'[w] # "idle" => todo'[w] # << >> /\ Ready(w, Book!Item(w))'
      /\ at'[w] = "idle" => todo'[w] = << >> \/ Book!Item(w)'.chain = Unlisted
  BY <1>1, <1>2, FinishFacts
<1>5. \A x : Book!RowsOf(x)' = Book!RowsOf(x)
  BY <1>1 DEF Book!RowsOf
<1>6. BookTyped'
  BY <1>1, <1>4 DEF BookInv, BookTyped, Asked
<1>7. AllReady'
  BY <1>1, <1>4, <1>5, AllReadyNext
<1>8. Book!BookHolds'
  BY <1>1, <1>2, <1>3, <1>4, <1>5, BookHoldsNext
<1>9. Book!ImportsTold'
  BY <1>1, <1>3, <1>4, ImportsToldNext
<1>10. ContractsTold'
  BY <1>1, <1>2, <1>4, ContractsToldNext
<1>11. Book!OneRow'
  BY <1>1 DEF BookInv, Book!OneRow
<1> QED
  BY <1>6, <1>7, <1>8, <1>9, <1>10, <1>11 DEF BookInv

\* The node makes the address, or refuses to and is not heeded.
LEMMA CreateAtNodeStep ==
    ASSUME BookInv, NEW w \in Workers, at[w] = "node", Book!GoTo(w, "look"),
           told' \in {told, told \cup {<<Book!Item(w).addr, "wallet">>}},
           failed' \in BOOLEAN, failed => failed', UNCHANGED <<family, rows, watched, items>>
    PROVE  BookInv'
<1>1. PICK it : it = Book!Item(w)
  OBVIOUS
<1>2. it \in Asked /\ Ready(w, it) /\ todo[w] # << >> /\ it.addr \in Addr
  BY <1>1, AtItem, ItemFacts DEF BookInv
<1>3. /\ BookFrame(w) /\ done' = done /\ todo' = todo
      /\ at' \in [Workers -> Book!Steps] /\ todo' \in [Workers -> Seq(Asked)] /\ at'[w] = "look"
      /\ Book!Item(w)' = it
  BY <1>1, GoToFacts DEF Book!Steps
<1>4. \A x : Book!RowsOf(x)' = Book!RowsOf(x)
  BY DEF Book!RowsOf
<1>5. told \subseteq told' /\ told' \subseteq Addr \X {"wallet", "normal", "erc"}
  BY <1>1, <1>2 DEF BookInv, BookTyped
<1>6. BookTyped'
  BY <1>3, <1>5 DEF BookInv, BookTyped, Asked
<1>7. Ready(w, it)'
  BY <1>2, <1>3 DEF Ready, Telling
<1>8. AllReady'
  BY <1>2, <1>3, <1>4, <1>5, <1>7, AllReadyNext
<1>9. Book!BookHolds'
  BY <1>1, <1>3, <1>4, <1>5, BookHoldsNext
<1>10. Book!ImportsTold'
  BY <1>5, <1>3 DEF BookInv, Book!ImportsTold
<1>11. ContractsTold'
  BY <1>1, <1>3, <1>5, ContractsToldNext
<1>12. Book!OneRow'
  BY DEF BookInv, Book!OneRow
<1> QED
  BY <1>6, <1>8, <1>9, <1>10, <1>11, <1>12 DEF BookInv

LEMMA LookStep == ASSUME BookInv, NEW w \in Workers, Book!Look(w) PROVE BookInv'
<1>1. PICK it : it = Book!Item(w)
  OBVIOUS
<1>2. at[w] = "look" /\ UNCHANGED <<family, rows, watched, told, items, failed>>
  BY DEF Book!Look, Book!table
<1>3. it \in Asked /\ Ready(w, it) /\ todo[w] # << >> /\ it.op \in {"create", "import"}
  BY <1>1, <1>2, AtItem, ItemFacts DEF BookInv
<1>4. PICK s \in {"insert", "remove", "update"} :
        /\ Book!GoTo(w, s)
        /\ s = "remove" => it.op = "create"
        /\ s = "update" => it.op = "import" /\ Book!RowsOf(it) # {}
  <2>1. CASE Book!RowsOf(it) = {}
    BY <1>1, <2>1 DEF Book!Look
  <2>2. CASE Book!RowsOf(it) # {} /\ it.op = "create"
    BY <1>1, <2>2 DEF Book!Look
  <2>3. CASE Book!RowsOf(it) # {} /\ it.op = "import"
    BY <1>1, <2>3 DEF Book!Look
  <2> QED
    BY <1>3, <2>1, <2>2, <2>3
<1>5. /\ BookFrame(w) /\ done' = done /\ todo' = todo
      /\ at' \in [Workers -> Book!Steps] /\ todo' \in [Workers -> Seq(Asked)] /\ at'[w] = s
      /\ Book!Item(w)' = it
  BY <1>1, <1>2, <1>4, GoToFacts DEF Book!Steps
<1>6. \A x : Book!RowsOf(x)' = Book!RowsOf(x)
  BY <1>2 DEF Book!RowsOf
<1>7. BookTyped'
  BY <1>2, <1>5 DEF BookInv, BookTyped, Asked
<1>8. Ready(w, it)'
  BY <1>2, <1>3, <1>4, <1>5, <1>6 DEF Ready, Telling
<1>9. AllReady'
  BY <1>2, <1>3, <1>4, <1>5, <1>6, <1>8, AllReadyNext
<1>10. Book!BookHolds'
  BY <1>1, <1>2, <1>5, <1>6, BookHoldsNext
<1>11. Book!ImportsTold'
  BY <1>2, <1>5 DEF BookInv, Book!ImportsTold
<1>12. ContractsTold'
  BY <1>1, <1>2, <1>5, ContractsToldNext
<1>13. Book!OneRow'
  BY <1>2 DEF BookInv, Book!OneRow
<1> QED
  BY <1>7, <1>9, <1>10, <1>11, <1>12, <1>13 DEF BookInv

\* A removed row comes back: its worker stands between remove_one and insert_one.
LEMMA RemoveStep == ASSUME BookInv, NEW w \in Workers, Book!Remove(w) PROVE BookInv'
<1>1. PICK it : it = Book!Item(w)
  OBVIOUS
<1>2. /\ at[w] = "remove" /\ rows' = rows \ Book!RowsOf(it) /\ Book!GoTo(w, "insert again")
      /\ UNCHANGED <<family, watched, told, items, failed>>
  BY <1>1 DEF Book!Remove
<1>3. it \in Asked /\ Ready(w, it) /\ todo[w] # << >> /\ it.op = "create"
  BY <1>1, <1>2, AtItem DEF Ready
<1>4. family = "btc" /\ it = Book!Create(it.addr)
  BY <1>3, ItemFacts DEF BookInv, BookTyped
<1>5. /\ BookFrame(w) /\ done' = done /\ todo' = todo
      /\ at' \in [Workers -> Book!Steps] /\ todo' \in [Workers -> Seq(Asked)]
      /\ at'[w] = "insert again" /\ Book!Item(w)' = it
  BY <1>1, <1>2, GoToFacts DEF Book!Steps
<1>6. BookTyped'
  BY <1>2, <1>5 DEF BookInv, BookTyped, Asked
<1>7. Ready(w, it)'
  BY <1>2, <1>3, <1>4, <1>5 DEF Ready, Telling
<1>8. AllReady'
  BY <1>2, <1>3, <1>4, <1>5, <1>7, AllReadyNext
<1>9. Book!BookHolds'
  <2> SUFFICES ASSUME NEW x \in done, ~failed, x.chain # Unlisted, x.op # "import",
                      Book!RowsOf(x)' = {}
               PROVE  \E v \in Workers : at'[v] = "insert again" /\ Book!Item(v)' = x
    BY <1>2, <1>4, <1>5 DEF Book!BookHolds
  <2>1. x \in Asked /\ x.op = "create" /\ x = Book!Create(x.addr)
    BY ItemFacts DEF BookInv, BookTyped
  <2>2. CASE x = it
    BY <1>5, <2>2
  <2>3. CASE x # it
    <3>1. x.addr # it.addr
      BY <1>4, <2>1, <2>3
    <3>2. Book!RowsOf(x)' = Book!RowsOf(x)
      BY <1>2, <3>1 DEF Book!RowsOf
    <3>3. PICK v \in Workers : at[v] = "insert again" /\ Book!Item(v) = x
      BY <3>2 DEF BookInv, Book!BookHolds
    <3>4. v # w
      BY <1>2, <3>3
    <3> QED
      BY <1>5, <3>3, <3>4 DEF BookFrame, Book!Item
  <2> QED
    BY <2>2, <2>3
<1>10. Book!ImportsTold'
  BY <1>2, <1>5 DEF BookInv, Book!ImportsTold
<1>11. ContractsTold'
  BY <1>1, <1>2, <1>5, ContractsToldNext
<1>12. Book!OneRow'
  BY <1>2, <1>4 DEF Book!OneRow
<1> QED
  BY <1>6, <1>8, <1>9, <1>10, <1>11, <1>12 DEF BookInv

\* insert_one: the second row of a key is refused for b_eths_address alone.
LEMMA InsertStep == ASSUME BookInv, NEW w \in Workers, Book!Insert(w) PROVE BookInv'
<1>1. PICK it : it = Book!Item(w)
  OBVIOUS
<1>2. /\ at[w] \in {"insert", "insert again"}
      /\ UNCHANGED <<family, watched, told, items, failed>>
  BY DEF Book!Insert
<1>3. it \in Asked /\ Ready(w, it) /\ todo[w] # << >> /\ it.op \in {"create", "import"}
      /\ it.addr \in Addr /\ it.erc \in BOOLEAN /\ it.chain \in Book!Chains \cup {"btc"}
  BY <1>1, <1>2, AtItem, ItemFacts DEF BookInv
<1> DEFINE row == [chain |-> it.chain, addr |-> it.addr, contract |-> it.erc]
<1>4. /\ row \in [chain : Book!Chains \cup {"btc"}, addr : Addr, contract : BOOLEAN]
      /\ row.chain = it.chain /\ row.addr = it.addr /\ row.contract = it.erc
  BY <1>3
<1>5. Book!Inserted(w) = rows \cup {row}
  BY <1>1 DEF Book!Inserted, Book!Row
<1> HIDE DEF row
<1>6. CASE it.op = "create"
  <2>1. rows' = rows \cup {row} /\ Book!Finish(w)
    BY <1>1, <1>5, <1>6 DEF Book!Insert
  <2>2. family = "btc" /\ it.erc = FALSE
    BY <1>3, <1>6, ItemFacts DEF BookInv, BookTyped
  <2>3. /\ BookFrame(w) /\ done' = done \cup {it} /\ done' \subseteq Asked
        /\ at' \in [Workers -> Book!Steps] /\ todo' \in [Workers -> Seq(Asked)]
        /\ at'[w] # "idle" => todo'[w] # << >> /\ Ready(w, Book!Item(w))'
        /\ at'[w] = "idle" => todo'[w] = << >> \/ Book!Item(w)'.chain = Unlisted
    BY <1>1, <1>2, <1>3, <2>1, FinishFacts
  <2>4. \A x : Book!RowsOf(x) # {} => Book!RowsOf(x)' # {}
    BY <2>1 DEF Book!RowsOf
  <2>5. row \in Book!RowsOf(it)'
    BY <1>4, <2>1 DEF Book!RowsOf
  <2>6. BookTyped'
    BY <1>2, <1>4, <2>1, <2>3 DEF BookInv, BookTyped, Asked
  <2>7. AllReady'
    BY <1>2, <2>3, <2>4, AllReadyNext
  <2>8. Book!BookHolds'
    BY <1>1, <1>2, <2>3, <2>4, <2>5, BookHoldsNext
  <2>9. Book!ImportsTold'
    BY <1>2, <1>6, <2>3, ImportsToldNext
  <2>10. ContractsTold'
    BY <1>1, <1>2, <1>4, <2>1, <2>2, <2>3, ContractsToldNext
  <2>11. Book!OneRow'
    BY <1>2, <2>2 DEF Book!OneRow
  <2> QED
    BY <2>6, <2>7, <2>8, <2>9, <2>10, <2>11 DEF BookInv
<1>7. CASE it.op = "import" /\ Book!RowsOf(it) = {}
  <2>1. rows' = rows \cup {row} /\ Book!GoTo(w, "tell")
    BY <1>1, <1>5, <1>7 DEF Book!Insert
  <2>2. family = "eth" /\ at[w] = "insert"
    BY <1>2, <1>3, <1>7 DEF Ready
  <2>3. /\ BookFrame(w) /\ done' = done /\ todo' = todo
        /\ at' \in [Workers -> Book!Steps] /\ todo' \in [Workers -> Seq(Asked)]
        /\ at'[w] = "tell" /\ Book!Item(w)' = it
    BY <1>1, <1>2, <2>1, GoToFacts DEF Book!Steps
  <2>4. \A x : Book!RowsOf(x) # {} => Book!RowsOf(x)' # {}
    BY <2>1 DEF Book!RowsOf
  <2>5. row \in Book!RowsOf(it)'
    BY <1>4, <2>1 DEF Book!RowsOf
  <2>6. BookTyped'
    BY <1>2, <1>4, <2>1, <2>3 DEF BookInv, BookTyped, Asked
  <2>7. Ready(w, it)'
    BY <1>3, <1>7, <2>3, <2>5 DEF Ready, Telling
  <2>8. AllReady'
    BY <1>2, <1>3, <2>3, <2>4, <2>7, AllReadyNext
  <2>9. Book!BookHolds'
    BY <1>1, <1>2, <2>2, <2>3, <2>4, BookHoldsNext
  <2>10. Book!ImportsTold'
    BY <1>2, <2>3 DEF BookInv, Book!ImportsTold
  <2>11. ContractsTold'
    BY <1>1, <1>2, <1>4, <2>1, <2>2, <2>3, ContractsToldNext
  <2>12. Book!OneRow'
    <3> SUFFICES ASSUME NEW p \in rows', NEW q \in rows', p.chain = q.chain, p.addr = q.addr
                 PROVE  p = q
      BY DEF Book!OneRow
    <3>1. Book!OneRow /\ \A r \in rows : ~(r.chain = row.chain /\ r.addr = row.addr)
      BY <1>4, <1>7 DEF BookInv, Book!RowsOf
    <3>2. CASE p \in rows /\ q \in rows
      BY <2>2, <3>1, <3>2 DEF Book!OneRow
    <3>3. CASE p = row \/ q = row
      BY <2>1, <3>1, <3>3
    <3> QED
      BY <2>1, <3>2, <3>3
  <2> QED
    BY <2>6, <2>8, <2>9, <2>10, <2>11, <2>12 DEF BookInv
<1>8. CASE it.op = "import" /\ Book!RowsOf(it) # {}
  <2>1. /\ at' = [at EXCEPT ![w] = "idle"] /\ todo' = [todo EXCEPT ![w] = << >>]
        /\ UNCHANGED <<rows, done>>
    BY <1>1, <1>8 DEF Book!Insert
  <2>2. at[w] = "insert"
    BY <1>2, <1>3, <1>8 DEF Ready
  <2>3. /\ at' \in [Workers -> Book!Steps] /\ todo' \in [Workers -> Seq(Asked)]
        /\ at'[w] = "idle" /\ todo'[w] = << >>
        /\ \A v \in Workers : v # w => at'[v] = at[v] /\ todo'[v] = todo[v]
    BY <2>1, EmptySeq DEF BookInv, BookTyped, Book!Steps
  <2>4. BookFrame(w) /\ \A x : Book!RowsOf(x)' = Book!RowsOf(x)
    BY <1>2, <2>1, <2>3 DEF BookFrame, Book!RowsOf
  <2>5. BookTyped'
    BY <1>2, <2>1, <2>3 DEF BookInv, BookTyped, Asked
  <2>6. AllReady'
    BY <1>2, <2>3, <2>4, AllReadyNext
  <2>7. Book!BookHolds'
    BY <1>1, <1>2, <2>1, <2>2, <2>4, BookHoldsNext
  <2>8. Book!ImportsTold'
    BY <1>2, <2>1 DEF BookInv, Book!ImportsTold
  <2>9. ContractsTold'
    BY <1>1, <1>2, <2>1, <2>2, <2>4, ContractsToldNext
  <2>10. Book!OneRow'
    BY <1>2, <2>1 DEF BookInv, Book!OneRow
  <2> QED
    BY <2>5, <2>6, <2>7, <2>8, <2>9, <2>10 DEF BookInv
<1> QED
  BY <1>3, <1>6, <1>7, <1>8

LEMMA UpdateStep == ASSUME BookInv, NEW w \in Workers, Book!Update(w) PROVE BookInv'
<1>1. PICK it : it = Book!Item(w)
  OBVIOUS
<1>2. /\ at[w] = "update" /\ Book!GoTo(w, "tell")
      /\ UNCHANGED <<family, watched, told, items, failed>>
  BY DEF Book!Update
<1>3. it \in Asked /\ Ready(w, it) /\ todo[w] # << >> /\ it.erc \in BOOLEAN
  BY <1>1, <1>2, AtItem, ItemFacts DEF BookInv
<1>4. rows' = {[r EXCEPT !.contract = IF r \in Book!RowsOf(it) THEN it.erc ELSE r.contract] : r \in rows}
  BY <1>1 DEF Book!Update
<1>5. ASSUME NEW q \in rows'
      PROVE  /\ q \in [chain : Book!Chains \cup {"btc"}, addr : Addr, contract : BOOLEAN]
             /\ \E r \in rows : /\ q.chain = r.chain /\ q.addr = r.addr
                                /\ q = [r EXCEPT !.contract = IF r \in Book!RowsOf(it) THEN it.erc ELSE r.contract]
                                /\ q.contract => r.contract \/ (r.addr = it.addr /\ it.erc)
  <2>1. PICK r \in rows : q = [r EXCEPT !.contract = IF r \in Book!RowsOf(it) THEN it.erc ELSE r.contract]
    BY <1>4
  <2>2. r \in [chain : Book!Chains \cup {"btc"}, addr : Addr, contract : BOOLEAN]
    BY DEF BookInv, BookTyped
  <2>3. CASE r \in Book!RowsOf(it)
    <3>1. q = [r EXCEPT !.contract = it.erc] /\ r.addr = it.addr
      BY <2>1, <2>3 DEF Book!RowsOf
    <3>2. /\ q \in [chain : Book!Chains \cup {"btc"}, addr : Addr, contract : BOOLEAN]
          /\ q.chain = r.chain /\ q.addr = r.addr /\ q.contract = it.erc
      BY <1>3, <2>2, <3>1
    <3> QED
      BY <2>1, <3>1, <3>2
  <2>4. CASE r \notin Book!RowsOf(it)
    <3>1. q = [r EXCEPT !.contract = r.contract]
      BY <2>1, <2>4
    <3>2. q = r
      BY <2>2, <3>1
    <3> QED
      BY <2>1, <2>2, <3>2
  <2> QED
    BY <2>3, <2>4
<1>6. ASSUME NEW r \in rows
      PROVE  \E q \in rows' : q.chain = r.chain /\ q.addr = r.addr
  <2> DEFINE q == [r EXCEPT !.contract = IF r \in Book!RowsOf(it) THEN it.erc ELSE r.contract]
  <2>1. r \in [chain : Book!Chains \cup {"btc"}, addr : Addr, contract : BOOLEAN]
    BY DEF BookInv, BookTyped
  <2>2. q \in rows'
    BY <1>4
  <2>3. q.chain = r.chain /\ q.addr = r.addr
    BY <2>1
  <2> HIDE DEF q
  <2> QED
    BY <2>2, <2>3
<1>7. /\ BookFrame(w) /\ done' = done /\ todo' = todo
      /\ at' \in [Workers -> Book!Steps] /\ todo' \in [Workers -> Seq(Asked)]
      /\ at'[w] = "tell" /\ Book!Item(w)' = it
  BY <1>1, <1>2, GoToFacts DEF Book!Steps
<1>8. \A x : Book!RowsOf(x) # {} => Book!RowsOf(x)' # {}
  BY <1>6 DEF Book!RowsOf
<1>9. BookTyped'
  BY <1>2, <1>5, <1>7 DEF BookInv, BookTyped, Asked
<1>10. Ready(w, it)'
  BY <1>2, <1>3, <1>7, <1>8 DEF Ready, Telling
<1>11. AllReady'
  BY <1>2, <1>3, <1>7, <1>8, <1>10, AllReadyNext
<1>12. Book!BookHolds'
  BY <1>1, <1>2, <1>7, <1>8, BookHoldsNext
<1>13. Book!ImportsTold'
  BY <1>2, <1>7 DEF BookInv, Book!ImportsTold
<1>14. ContractsTold'
  <2>1. \A q \in rows' : q.contract =>
          \/ \E r \in rows : r.contract /\ r.addr = q.addr
          \/ q.addr = it.addr /\ it.erc
    BY <1>5
  <2> QED
    BY <1>1, <1>2, <1>7, <2>1, ContractsToldNext
<1>15. Book!OneRow'
  <2> SUFFICES ASSUME family = "eth", NEW p \in rows', NEW q \in rows',
                      p.chain = q.chain, p.addr = q.addr
               PROVE  p = q
    BY <1>2 DEF Book!OneRow
  <2> DEFINE Set(r) == [r EXCEPT !.contract = IF r \in Book!RowsOf(it) THEN it.erc ELSE r.contract]
  <2>1. PICK r \in rows : p.chain = r.chain /\ p.addr = r.addr /\ p = Set(r)
    BY <1>5
  <2>2. PICK t \in rows : q.chain = t.chain /\ q.addr = t.addr /\ q = Set(t)
    BY <1>5
  <2> HIDE DEF Set
  <2>3. r = t
    BY <2>1, <2>2 DEF BookInv, Book!OneRow
  <2> QED
    BY <2>1, <2>2, <2>3
<1> QED
  BY <1>9, <1>11, <1>12, <1>13, <1>14, <1>15 DEF BookInv

\* The wallet or eth_collect is told, or refuses unnoticed.
LEMMA ToldStep ==
    ASSUME BookInv, NEW w \in Workers, at[w] = "tell",
           IF Book!AfterTell(Book!Item(w)) = "done" THEN Book!Finish(w) ELSE Book!GoTo(w, "tell erc"),
           told \subseteq told', told' \subseteq Addr \X {"wallet", "normal", "erc"},
           failed' \in BOOLEAN, failed => failed',
           ~failed' => <<Book!Item(w).addr, IF family = "btc" THEN "wallet" ELSE "normal">> \in told',
           UNCHANGED <<family, rows, watched, items>>
    PROVE  BookInv'
<1>1. PICK it : it = Book!Item(w)
  OBVIOUS
<1>2. /\ it \in Asked /\ Ready(w, it) /\ todo[w] # << >> /\ it.op = "import"
      /\ it.addr \in Addr /\ it.erc \in BOOLEAN /\ family \in {"btc", "eth"}
      /\ family = "btc" => it.erc = FALSE
      /\ family = "eth" => Book!RowsOf(it) # {}
  BY <1>1, AtItem, ItemFacts DEF BookInv, BookTyped, Ready, Telling
<1>3. \A x : Book!RowsOf(x)' = Book!RowsOf(x)
  BY DEF Book!RowsOf
<1>4. Book!OneRow'
  BY DEF BookInv, Book!OneRow
<1>5. /\ family = "btc" => failed' \/ <<it.addr, "wallet">> \in told'
      /\ family = "eth" => failed' \/ <<it.addr, "normal">> \in told'
  BY <1>1
<1>6. CASE it.erc
  <2>1. Book!GoTo(w, "tell erc")
    BY <1>1, <1>6 DEF Book!AfterTell
  <2>2. /\ BookFrame(w) /\ done' = done /\ todo' = todo
        /\ at' \in [Workers -> Book!Steps] /\ todo' \in [Workers -> Seq(Asked)]
        /\ at'[w] = "tell erc" /\ Book!Item(w)' = it
    BY <1>1, <2>1, GoToFacts DEF Book!Steps
  <2>3. BookTyped'
    BY <2>2 DEF BookInv, BookTyped, Asked
  <2>4. Ready(w, it)'
    BY <1>2, <1>3, <1>5, <1>6, <2>2 DEF Ready, Telling
  <2>5. AllReady'
    BY <1>2, <1>3, <2>2, <2>4, AllReadyNext
  <2>6. Book!BookHolds'
    BY <1>1, <1>3, <2>2, BookHoldsNext
  <2>7. Book!ImportsTold'
    BY <2>2 DEF BookInv, Book!ImportsTold
  <2>8. ContractsTold'
    BY <1>1, <2>2, ContractsToldNext
  <2> QED
    BY <1>4, <2>3, <2>5, <2>6, <2>7, <2>8 DEF BookInv
<1>7. CASE ~it.erc
  <2>1. Book!Finish(w)
    BY <1>1, <1>7 DEF Book!AfterTell
  <2>2. /\ BookFrame(w) /\ done' = done \cup {it} /\ done' \subseteq Asked
        /\ at' \in [Workers -> Book!Steps] /\ todo' \in [Workers -> Seq(Asked)]
        /\ at'[w] # "idle" => todo'[w] # << >> /\ Ready(w, Book!Item(w))'
        /\ at'[w] = "idle" => todo'[w] = << >> \/ Book!Item(w)'.chain = Unlisted
    BY <1>1, <1>2, <2>1, FinishFacts
  <2>3. BookTyped'
    BY <2>2 DEF BookInv, BookTyped, Asked
  <2>4. AllReady'
    BY <1>3, <2>2, AllReadyNext
  <2>5. Book!BookHolds'
    BY <1>1, <1>2, <1>3, <2>2, BookHoldsNext
  <2>6. Book!ImportsTold'
    BY <1>2, <1>5, <1>7, <2>2, ImportsToldNext
  <2>7. ContractsTold'
    BY <1>1, <1>7, <2>2, ContractsToldNext
  <2> QED
    BY <1>4, <2>3, <2>4, <2>5, <2>6, <2>7 DEF BookInv
<1> QED
  BY <1>6, <1>7

\* eth_collect is told of the contract, or refuses unnoticed.
LEMMA ToldErcStep ==
    ASSUME BookInv, NEW w \in Workers, at[w] = "tell erc", Book!Finish(w),
           told \subseteq told', told' \subseteq Addr \X {"wallet", "normal", "erc"},
           failed' \in BOOLEAN, failed => failed',
           ~failed' => <<Book!Item(w).addr, "erc">> \in told',
           UNCHANGED <<family, rows, watched, items>>
    PROVE  BookInv'
<1>1. PICK it : it = Book!Item(w)
  OBVIOUS
<1>2. /\ it \in Asked /\ Ready(w, it) /\ todo[w] # << >> /\ it.op = "import" /\ it.erc
      /\ family \in {"btc", "eth"} /\ (family = "btc" => ~it.erc)
      /\ failed \/ <<it.addr, "normal">> \in told
  BY <1>1, AtItem, ItemFacts DEF BookInv, BookTyped, Ready, Telling
<1>3. family = "eth" /\ Book!RowsOf(it) # {}
  <2>1. family = "eth"
    BY <1>2
  <2>2. at[w] \in Telling /\ family = "eth" => Book!RowsOf(it) # {}
    BY <1>2 DEF Ready
  <2> QED
    BY <2>1, <2>2 DEF Telling
<1>4. \A x : Book!RowsOf(x)' = Book!RowsOf(x)
  BY DEF Book!RowsOf
<1>5. Book!OneRow'
  BY DEF BookInv, Book!OneRow
<1>6. /\ BookFrame(w) /\ done' = done \cup {it} /\ done' \subseteq Asked
      /\ at' \in [Workers -> Book!Steps] /\ todo' \in [Workers -> Seq(Asked)]
      /\ at'[w] # "idle" => todo'[w] # << >> /\ Ready(w, Book!Item(w))'
      /\ at'[w] = "idle" => todo'[w] = << >> \/ Book!Item(w)'.chain = Unlisted
  BY <1>1, <1>2, FinishFacts
<1>7. BookTyped'
  BY <1>6 DEF BookInv, BookTyped, Asked
<1>8. AllReady'
  BY <1>4, <1>6, AllReadyNext
<1>9. Book!BookHolds'
  BY <1>1, <1>3, <1>4, <1>6, BookHoldsNext
<1>10. Book!ImportsTold'
  BY <1>1, <1>2, <1>3, <1>6, ImportsToldNext
<1>11. ContractsTold'
  BY <1>1, <1>6, ContractsToldNext
<1> QED
  BY <1>5, <1>7, <1>8, <1>9, <1>10, <1>11 DEF BookInv

LEMMA TellStep == ASSUME BookInv, NEW w \in Workers, Book!Tell(w) PROVE BookInv'
<1>1. /\ at[w] = "tell" /\ UNCHANGED <<family, rows, watched, items, failed>>
      /\ told' = told \cup {<<Book!Item(w).addr, IF family = "btc" THEN "wallet" ELSE "normal">>}
      /\ IF Book!AfterTell(Book!Item(w)) = "done" THEN Book!Finish(w) ELSE Book!GoTo(w, "tell erc")
  BY DEF Book!Tell, Book!table
<1>2. Book!Item(w).addr \in Addr
  BY <1>1, AtItem, ItemFacts DEF BookInv
<1>3. told' \subseteq Addr \X {"wallet", "normal", "erc"}
  <2>1. told \subseteq Addr \X {"wallet", "normal", "erc"}
    BY DEF BookInv, BookTyped
  <2>2. <<Book!Item(w).addr, IF family = "btc" THEN "wallet" ELSE "normal">> \in Addr \X {"wallet", "normal", "erc"}
    BY <1>2
  <2> QED
    BY <1>1, <2>1, <2>2
<1>4. failed' \in BOOLEAN
  BY <1>1 DEF BookInv, BookTyped
<1> QED
  BY <1>1, <1>3, <1>4, ToldStep

LEMMA TellErcStep == ASSUME BookInv, NEW w \in Workers, Book!TellErc(w) PROVE BookInv'
<1>1. /\ at[w] = "tell erc" /\ UNCHANGED <<family, rows, watched, items, failed>>
      /\ told' = told \cup {<<Book!Item(w).addr, "erc">>} /\ Book!Finish(w)
  BY DEF Book!TellErc, Book!table
<1>2. Book!Item(w).addr \in Addr
  BY <1>1, AtItem, ItemFacts DEF BookInv
<1>3. told' \subseteq Addr \X {"wallet", "normal", "erc"}
  <2>1. told \subseteq Addr \X {"wallet", "normal", "erc"}
    BY DEF BookInv, BookTyped
  <2>2. <<Book!Item(w).addr, "erc">> \in Addr \X {"wallet", "normal", "erc"}
    BY <1>2
  <2> QED
    BY <1>1, <2>1, <2>2
<1>4. failed' \in BOOLEAN
  BY <1>1 DEF BookInv, BookTyped
<1> QED
  BY <1>1, <1>3, <1>4, ToldErcStep

LEMMA UnnoticedStep == ASSUME BookInv, NEW w \in Workers, Book!Unnoticed(w) PROVE BookInv'
<1>1. failed' = TRUE /\ UNCHANGED <<family, rows, watched, told, items>>
  BY DEF Book!Unnoticed, Book!table
<1>2. told' \subseteq Addr \X {"wallet", "normal", "erc"}
  BY <1>1 DEF BookInv, BookTyped
<1>3. CASE at[w] = "node"
  <2>1. Book!GoTo(w, "look")
    BY <1>3 DEF Book!Unnoticed
  <2> QED
    BY <1>1, <1>3, <2>1, CreateAtNodeStep
<1>4. CASE at[w] = "tell erc"
  <2>1. Book!Finish(w)
    BY <1>4 DEF Book!Unnoticed
  <2> QED
    BY <1>1, <1>2, <1>4, <2>1, ToldErcStep
<1>5. CASE at[w] = "tell"
  <2>1. IF Book!AfterTell(Book!Item(w)) = "done" THEN Book!Finish(w) ELSE Book!GoTo(w, "tell erc")
    BY <1>5 DEF Book!Unnoticed
  <2> QED
    BY <1>1, <1>2, <1>5, <2>1, ToldStep
<1> QED
  BY <1>3, <1>4, <1>5 DEF Book!Unnoticed

LEMMA BreakOffStep == ASSUME BookInv, NEW w \in Workers, Book!BreakOff(w) PROVE BookInv'
<1>1. /\ failed' = TRUE /\ UNCHANGED <<family, rows, watched, told, items, done>>
      /\ at' = [at EXCEPT ![w] = "idle"] /\ todo' = [todo EXCEPT ![w] = << >>]
  BY DEF Book!BreakOff, Book!table
<1>2. /\ at' \in [Workers -> Book!Steps] /\ todo' \in [Workers -> Seq(Asked)]
      /\ at'[w] = "idle" /\ todo'[w] = << >>
      /\ \A v \in Workers : v # w => at'[v] = at[v] /\ todo'[v] = todo[v]
  BY <1>1, EmptySeq DEF BookInv, BookTyped, Book!Steps
<1>3. BookFrame(w) /\ \A x : Book!RowsOf(x)' = Book!RowsOf(x)
  BY <1>1, <1>2 DEF BookFrame, Book!RowsOf
<1>4. BookTyped'
  BY <1>1, <1>2 DEF BookInv, BookTyped, Asked
<1>5. AllReady'
  BY <1>1, <1>2, <1>3, AllReadyNext
<1> QED
  BY <1>1, <1>4, <1>5 DEF BookInv, Book!BookHolds, Book!ImportsTold, ContractsTold, Book!OneRow

\* The collector reads the table and writes nothing.
LEMMA WatchedStep ==
    ASSUME BookInv, UNCHANGED <<family, rows, told, at, todo, items, done, failed>>,
           watched' \subseteq watched \cup Book!InBook
    PROVE  BookInv'
<1>1. Book!InBook \subseteq Addr
  BY DEF Book!InBook, BookInv, BookTyped
<1>2. BookTyped'
  BY <1>1 DEF BookInv, BookTyped, Asked
<1>3. \A x : Book!RowsOf(x)' = Book!RowsOf(x) /\ \A v \in Workers : Book!Item(v)' = Book!Item(v)
  BY DEF Book!RowsOf, Book!Item
<1>4. AllReady'
  BY <1>3 DEF BookInv, AllReady, Ready, Telling
<1>5. Book!BookHolds' /\ Book!ImportsTold' /\ Book!OneRow'
  BY <1>3 DEF BookInv, Book!BookHolds, Book!ImportsTold, Book!OneRow
<1>6. ContractsTold'
  BY <1>3 DEF BookInv, ContractsTold, WillTell
<1> QED
  BY <1>2, <1>4, <1>5, <1>6 DEF BookInv

LEMMA BookStep == BookInv /\ [Book!Next]_addressVars => BookInv'
<1> SUFFICES ASSUME BookInv, [Book!Next]_addressVars PROVE BookInv'
  OBVIOUS
<1>1. CASE UNCHANGED addressVars
  BY <1>1, WatchedStep DEF addressVars
<1>2. CASE Book!AtRest
  BY <1>2, WatchedStep DEF Book!AtRest, Book!vars, Book!table
<1>3. CASE Book!Boot \/ Book!Refresh
  BY <1>3, WatchedStep DEF Book!Boot, Book!Refresh, Book!Refreshed
<1>4. ASSUME NEW w \in Workers, Book!CreateAtNode(w)
      PROVE  BookInv'
  <2>1. /\ at[w] = "node" /\ Book!GoTo(w, "look")
        /\ told' = told \cup {<<Book!Item(w).addr, "wallet">>}
        /\ UNCHANGED <<family, rows, watched, items, failed>>
    BY <1>4 DEF Book!CreateAtNode, Book!table
  <2>2. failed' \in BOOLEAN
    BY <2>1 DEF BookInv, BookTyped
  <2> QED
    BY <2>1, <2>2, CreateAtNodeStep
<1>5. ASSUME NEW w \in Workers, Book!Serve(w)
      PROVE  BookInv'
  BY <1>4, <1>5, PassOverStep, LookStep, RemoveStep, InsertStep, UpdateStep, TellStep, TellErcStep
     DEF Book!Serve
<1>6. ASSUME NEW w \in Workers, Book!Call(w) \/ Book!BreakOff(w) \/ Book!Unnoticed(w)
      PROVE  BookInv'
  BY <1>6, CallStep, BreakOffStep, UnnoticedStep
<1> QED
  BY <1>1, <1>2, <1>3, <1>5, <1>6 DEF Book!Next

LEMMA BookTrue == BookInv => Registered /\ Book!TypeOK
<1> SUFFICES ASSUME BookInv PROVE Registered /\ Book!TypeOK
  OBVIOUS
<1>1. Book!StoresAgree
  <2> SUFFICES ASSUME NEW r \in rows, r.contract, ~failed, <<r.addr, "erc">> \notin told
               PROVE  Book!Busy(r.addr)
    BY DEF Book!StoresAgree
  <2>1. PICK w \in Workers : at[w] \in {"tell", "tell erc"} /\ Book!Item(w).addr = r.addr
    BY DEF BookInv, ContractsTold, WillTell
  <2>2. todo[w] # << >>
    BY <2>1 DEF BookInv, AllReady
  <2> QED
    BY <2>1, <2>2 DEF Book!Busy
<1>2. Asked \subseteq Book!Items
  BY ItemFacts DEF BookInv
<1>3. \A w \in Workers : todo[w] \in Seq(Book!Items)
  BY <1>2 DEF BookInv, BookTyped
<1>4. done \subseteq Book!Items
  BY <1>2 DEF BookInv, BookTyped
<1>5. Book!TypeOK
  BY <1>3, <1>4 DEF BookInv, BookTyped, Book!TypeOK
<1> QED
  BY <1>1, <1>5 DEF BookInv, Registered, Book!Registered

-----------------------------------------------------------------------------
(* Balances.                                                               *)

LEMMA BalanceDigits == IsDigits(Balance!digits, MaxUnits)
<1>1. Balance!digits = CHOOSE d : IsDigits(d, MaxUnits)
  BY DEF Balance!digits, IsDigits
<1> QED
  BY <1>1, BalanceAssumption, DigitsExist

\* The operators of Amounts are those of the lemmas on texts.
LEMMA BalanceTexts ==
    ASSUME NEW w, NEW f, NEW p
    PROVE  Balance!UnitsOf([whole |-> w, frac |-> f], p) = TextValue(w, f, p)
<1>1. ASSUME NEW t PROVE Balance!UnitsOf(t, p) = TextValue(t.whole, t.frac, p)
  BY DEF Balance!UnitsOf, Balance!Zeros, Balance!FoldLeft, Balance!MapThenFoldSet, Balance!Max,
     TextValue, Value, Pad, FoldLeft, MapThenFoldSet, Max
<1> DEFINE t == [whole |-> w, frac |-> f]
<1>2. t.whole = w /\ t.frac = f
  OBVIOUS
<1> HIDE DEF t
<1>3. Balance!UnitsOf(t, p) = TextValue(w, f, p)
  BY <1>1, <1>2
<1> QED
  BY <1>3 DEF t

\* Whatever way an amount is written, the text is worth it.
LEMMA TextOfRight ==
    ASSUME NEW kind, NEW n \in 0..MaxUnits, NEW p \in Nat
    PROVE  Balance!UnitsOf(Balance!TextOf(kind, n, p), p) = n
<1> DEFINE s == Balance!digits[n]
           b == IF Bare(s) = << >> THEN s ELSE Bare(s)
<1>1. s \in Seq(0..9) /\ Value(s) = n
  BY BalanceDigits, BalanceAssumption, DigitsRight
<1>2. /\ Balance!Stripped(s) = Bare(s)
      /\ \A q : Balance!Stripped(q) = Bare(q)
      /\ \A k : Balance!Zeros(k) = Pad(k)
  BY DEF Balance!Stripped, Balance!Max, Bare, Max, Balance!Zeros, Pad
<1> HIDE DEF s
<1>3. CASE Len(s) <= p
  <2>1. /\ TextValue(<<0>>, Pad(p - Len(s)) \o s, p) = n
        /\ TextValue(<<0>>, Pad(p - Len(s)) \o b, p) = n
    BY <1>1, <1>3, TextBelowOne
  <2>2. /\ Balance!FixedText(n, p) = [whole |-> <<0>>, frac |-> Pad(p - Len(s)) \o s]
        /\ Balance!ShortText(n, p) = [whole |-> <<0>>, frac |-> Pad(p - Len(s)) \o b]
    BY <1>2, <1>3 DEF Balance!FixedText, Balance!ShortText, s
  <2> HIDE DEF b
  <2>3. Balance!UnitsOf(Balance!FixedText(n, p), p) = n
    BY <2>1, <2>2, BalanceTexts
  <2>4. Balance!UnitsOf(Balance!ShortText(n, p), p) = n
    BY <2>1, <2>2, BalanceTexts
  <2> QED
    BY <2>3, <2>4 DEF Balance!TextOf
<1>4. CASE ~(Len(s) <= p)
  <2> DEFINE w == SubSeq(s, 1, Len(s) - p)
             f == SubSeq(s, Len(s) - p + 1, Len(s))
  <2>1. TextValue(w, f, p) = n /\ TextValue(w, Bare(f), p) = n
    BY <1>1, <1>4, TextAboveOne
  <2>2. /\ Balance!FixedText(n, p) = [whole |-> w, frac |-> f]
        /\ Balance!ShortText(n, p) = [whole |-> w, frac |-> Bare(f)]
    BY <1>2, <1>4 DEF Balance!FixedText, Balance!ShortText, Balance!WholeOf, Balance!FracOf, s
  <2> HIDE DEF w, f
  <2> QED
    BY <2>1, <2>2, BalanceTexts DEF Balance!TextOf
<1> QED
  BY <1>3, <1>4

BalanceInv ==
    /\ precision \in Nat /\ (wanted # "none" => balance = 0)
    /\ Balance!BalanceTold

LEMMA NothingTold ==
    ASSUME NEW p \in Nat
    PROVE  Balance!UnitsOf(Balance!Nothing, p) = 0
BY TextOfNothing, BalanceTexts DEF Balance!Nothing

LEMMA InitBalance == ServiceInit => BalanceInv
<1> SUFFICES ASSUME Balance!BalanceInit PROVE BalanceInv
  BY DEF ServiceInit
<1>1. precision \in Nat /\ balance = 0 /\ text = Balance!Nothing
  BY BalanceAssumption DEF Balance!BalanceInit
<1>2. Balance!UnitsOf(text, precision) = balance
  BY <1>1, NothingTold
<1> QED
  BY <1>1, <1>2 DEF BalanceInv, Balance!BalanceTold

LEMMA BalanceStep == BalanceInv /\ [Balance!BalanceNext]_balanceVars => BalanceInv'
<1> SUFFICES ASSUME BalanceInv, [Balance!BalanceNext]_balanceVars PROVE BalanceInv'
  OBVIOUS
<1>1. ASSUME NEW kind \in Balance!Kinds, Balance!GetBalance(kind) PROVE BalanceInv'
  <2>1. /\ precision' \in Nat /\ balance' = 0
        /\ text' = IF kind = "unlisted" THEN Balance!NoText ELSE Balance!Nothing
    BY <1>1, BalanceAssumption DEF Balance!GetBalance
  <2>2. Balance!UnitsOf(Balance!Nothing, precision') = 0
    BY <2>1, NothingTold
  <2> QED
    BY <2>1, <2>2 DEF BalanceInv, Balance!BalanceTold
<1>2. CASE Balance!Answer
  <2>1. /\ precision' = precision /\ precision \in Nat /\ balance = 0 /\ wanted' = "none"
    BY <1>2 DEF Balance!Answer, BalanceInv
  <2>2. Balance!UnitsOf(text', precision) = balance'
    <3>1. CASE \E n \in 0..MaxUnits :
                  balance' = n /\ text' = Balance!TextOf(wanted, n, precision)
      BY <2>1, <3>1, TextOfRight
    <3>2. CASE text' = Balance!Nothing /\ UNCHANGED balance
      BY <2>1, <3>2, NothingTold
    <3> QED
      BY <1>2, <3>1, <3>2 DEF Balance!Answer
  <2> QED
    BY <2>1, <2>2 DEF BalanceInv, Balance!BalanceTold
<1>3. CASE UNCHANGED balanceVars
  BY <1>3 DEF balanceVars, BalanceInv, Balance!BalanceTold
<1> QED
  BY <1>1, <1>2, <1>3 DEF Balance!BalanceNext

-----------------------------------------------------------------------------
(* What the service promises.                                              *)

LEMMA ServiceStarts ==
    ServiceInit => served \in Kinds /\ CacheInv /\ ListInv /\ ClaimInv /\ Broadcast!TypeOK /\ BookInv /\ BalanceInv
<1>1. ServiceInit => served \in Kinds /\ Init
  BY DEF ServiceInit
<1> QED
  BY <1>1, InitCache, InitList, InitClaim, InitBroadcast, InitBook, InitBalance

LEMMA ServiceSteps ==
    /\ served \in Kinds /\ CacheInv /\ ListInv /\ ClaimInv /\ Broadcast!TypeOK /\ BookInv /\ BalanceInv
    /\ [ServiceNext]_service
    => (served \in Kinds /\ CacheInv /\ ListInv /\ ClaimInv /\ Broadcast!TypeOK /\ BookInv /\ BalanceInv)'
<1> SUFFICES ASSUME served \in Kinds, [ServiceNext]_service,
                    CacheInv, ListInv, ClaimInv, Broadcast!TypeOK, BookInv, BalanceInv
             PROVE  (served \in Kinds /\ CacheInv /\ ListInv /\ ClaimInv /\ Broadcast!TypeOK /\ BookInv /\ BalanceInv)'
  OBVIOUS
<1>1. /\ [Next]_vars /\ [Broadcast!Next]_broadcastVars /\ [Book!Next]_addressVars
      /\ [Memory!ListNext]_listVars /\ [Memory!ClaimNext]_claimVars
      /\ [Balance!BalanceNext]_balanceVars
  BY PartSteps
<1>2. served' = served
  BY DEF ServiceNext, service
<1>3. (served \in Kinds)'
  BY <1>2 DEF Kinds
<1> QED
  BY <1>1, <1>3, CacheStep, ListStep, ClaimStep, BroadcastStep, BookStep, BalanceStep

LEMMA NoSecondSubmit ==
    ASSUME Broadcast!TypeOK, NEW w \in Workers, NEW t \in Sent, Broadcast!Submit(w, t)
    PROVE  stored[t] >= KeepFor
<1> SUFFICES ASSUME ~(stored[t] >= KeepFor) PROVE FALSE
  OBVIOUS
<1>1. stored[t] \in Nat
  BY DEF Broadcast!TypeOK, Broadcast!Ages
<1>2. stored[t] < KeepFor
  BY <1>1
<1>3. PICK r \in answers : r.trx = t /\ r.age = stored[t]
  BY <1>1, <1>2 DEF Broadcast!TypeOK
<1>4. Broadcast!Usable(r)
  BY <1>2, <1>3 DEF Broadcast!Usable
<1> QED
  BY <1>3, <1>4 DEF Broadcast!Submit

ServiceInv == served \in Kinds /\ CacheInv /\ ListInv /\ ClaimInv /\ Broadcast!TypeOK /\ BookInv /\ BalanceInv

LEMMA ServiceCorrect == ServiceSpec => []ServiceInv
<1>1. ServiceInit => ServiceInv
  BY ServiceStarts DEF ServiceInv
<1>2. ServiceInv /\ [ServiceNext]_service => ServiceInv'
  BY ServiceSteps DEF ServiceInv
<1> QED
  BY <1>1, <1>2, PTL DEF ServiceSpec

\* Whatever the workers of the service do at a time, and however blocks are replaced
\* meanwhile: what queryTrans keeps of a transaction, and all that is kept of usdt and
\* btm, stays true, and what is kept of eth until its block is replaced; no worker gives
\* a list of senators that was replaced for longer than it may remember; a signature is
\* good only if the node said so; and the decimal text of a balance is worth what the
\* source has counted, whatever its digits are and however many decimals the coin has.
THEOREM AnswersAreTrue == ServiceSpec => []AnswersTrue
<1>1. ServiceInv => AnswersTrue
  <2> SUFFICES ASSUME ServiceInv PROVE AnswersTrue
    OBVIOUS
  <2>1. /\ served \in Kinds /\ CacheInv /\ ListInv /\ ClaimInv /\ Broadcast!TypeOK /\ BookInv
        /\ BalanceInv
    BY DEF ServiceInv
  <2>2. TypeOK /\ FinalByQuery /\ CachedIsFinal /\ EthAsMined
    BY <2>1, CacheTrue
  <2>3. Memory!TypeOK /\ Memory!ListFresh /\ Memory!VerdictTrue
    BY <2>1 DEF ListInv, ListTyped, ClaimInv, Memory!TypeOK
  <2>4. Book!TypeOK
    BY <2>1, BookTrue
  <2>5. Balance!BalanceTold
    BY <2>1 DEF BalanceInv
  <2> QED
    BY <2>1, <2>2, <2>3, <2>4, <2>5 DEF AnswersTrue, ServiceTypeOK
<1> QED
  BY <1>1, ServiceCorrect, PTL

SubmitsLate == \A w \in Workers, t \in Sent : Broadcast!Submit(w, t) => stored[t] >= KeepFor

\* No call takes a transaction to the node for KeepFor seconds after any worker has
\* stored an answer to it, whichever records the workers sweep meanwhile.
THEOREM AnswersGivenAgain == ServiceSpec => NoResubmission
<1>1. ServiceInv => [SubmitsLate]_broadcastVars
  BY NoSecondSubmit DEF ServiceInv, SubmitsLate
<1>2. ServiceSpec => [][SubmitsLate]_broadcastVars
  BY <1>1, ServiceCorrect, PTL
<1>3. [][SubmitsLate]_broadcastVars => NoResubmission
  BY PTL DEF NoResubmission, Broadcast!NoResubmission, SubmitsLate, Broadcast!vars, broadcastVars
<1> QED
  BY <1>2, <1>3, PTL

\* However the calls of Create, importAddr and importAddrs overlap, break off or are
\* refused, what was registered is in its table, b_eths_address has one row of it, and
\* the wallet or eth_collect knows it as what it was registered as.
THEOREM BookRegistered == ServiceSpec => []Registered
<1>1. ServiceInv => Registered
  BY BookTrue DEF ServiceInv
<1> QED
  BY <1>1, ServiceCorrect, PTL
=============================================================================
