----------------------------- MODULE DataLemmas -----------------------------
(***************************************************************************)
(* What the operators on data that the models share compute, for every     *)
(* argument: sums over finite sets (MapThenSumSet of FiniteSetsExt), the   *)
(* value of a sequence of digits (FoldLeft of SequencesExt), the digits of *)
(* a number (the recursive function of Amounts) and the decimal texts made *)
(* of them.                                                                *)
(*                                                                         *)
(* Each of them is a CHOOSE over the equation of a recursive function.     *)
(* That the equation has a solution, and that its solutions agree where    *)
(* they are defined, is proved by induction in its first-order form: a set *)
(* of naturals that has no smallest element is empty (WFMin).              *)
(***************************************************************************)
EXTENDS Integers, Sequences, FiniteSetsExt, SequencesExt, FiniteSetTheorems, SequenceTheorems,
        NaturalsInduction, WellFoundedInduction, TLAPS

\* A set of naturals that is not empty has a smallest element.
LEMMA Smallest ==
    ASSUME NEW T, T \subseteq Nat, T # {}
    PROVE  \E x \in T : \A y \in T : x <= y
<1>1. PICK x \in T : \A y \in T : <<y, x>> \notin OpToRel(<, Nat)
  BY NatLessThanWellFounded, WFMin
<1>2. \A y \in T : ~(y < x)
  BY <1>1 DEF OpToRel
<1> QED
  BY <1>2

\* Induction: a set with 0, and with n + 1 if with n, has every natural.
LEMMA Inductive ==
    ASSUME NEW T, 0 \in T, \A n \in Nat : n \in T => n + 1 \in T
    PROVE  Nat \subseteq T
<1> SUFFICES ASSUME ~(Nat \subseteq T) PROVE FALSE
  OBVIOUS
<1> DEFINE U == Nat \ T
<1>1. PICK x \in U : \A y \in U : x <= y
  <2>1. U \subseteq Nat /\ U # {}
    OBVIOUS
  <2> HIDE DEF U
  <2> QED
    BY <2>1, Smallest
<1>2. x # 0
  OBVIOUS
<1>3. x - 1 \in Nat /\ x - 1 \notin U
  BY <1>1, <1>2
<1> QED
  BY <1>1, <1>2, <1>3

\* A finite set without one of its n + 1 elements has n.
LEMMA OneLess ==
    ASSUME NEW s, IsFiniteSet(s), NEW n \in Nat, Cardinality(s) = n + 1, NEW x \in s
    PROVE  Cardinality(s \ {x}) = n
<1>1. Cardinality(s \ {x}) = Cardinality(s) - 1
  BY FS_RemoveElement
<1> QED
  BY <1>1

-----------------------------------------------------------------------------
(* Sums.                                                                   *)

\* The element that the fold takes out of a set.
Pick(s) == CHOOSE x \in s : TRUE

\* The sum of f over S.
SumOf(f, S) == MapThenSumSet(LAMBDA x : f[x], S)

\* g has the sum of f over each subset of S: the equation of the fold.
IsSum(g, f, S) ==
    g = [s \in SUBSET S |-> IF s = {} THEN 0 ELSE f[Pick(s)] + g[s \ {Pick(s)}]]

\* The equation of a sum over a finite set has a solution: one is built for the subsets
\* of each size.
LEMMA SumExists ==
    ASSUME NEW f, NEW S, IsFiniteSet(S)
    PROVE  \E g : IsSum(g, f, S)
<1> DEFINE D(n) == {s \in SUBSET S : Cardinality(s) <= n}
<1> DEFINE Good(n) == \E g : g = [s \in D(n) |-> IF s = {} THEN 0 ELSE f[Pick(s)] + g[s \ {Pick(s)}]]
<1> DEFINE T == {n \in Nat : Good(n)}
<1>1. \A s \in SUBSET S : IsFiniteSet(s) /\ Cardinality(s) \in Nat
  BY FS_Subset, FS_CardinalityType
<1>2. 0 \in T
  <2>1. \A s \in D(0) : s = {}
    BY <1>1, FS_EmptySet
  <2> DEFINE g == [s \in D(0) |-> 0]
  <2>2. g = [s \in D(0) |-> IF s = {} THEN 0 ELSE f[Pick(s)] + g[s \ {Pick(s)}]]
    BY <2>1
  <2> QED
    BY <2>2
<1>3. ASSUME NEW n \in Nat, n \in T PROVE n + 1 \in T
  <2>1. PICK g : g = [s \in D(n) |-> IF s = {} THEN 0 ELSE f[Pick(s)] + g[s \ {Pick(s)}]]
    BY <1>3
  <2> DEFINE h == [s \in D(n + 1) |-> IF s = {} THEN 0 ELSE f[Pick(s)] + g[s \ {Pick(s)}]]
  <2>2. ASSUME NEW s \in D(n + 1), s # {}
        PROVE  s \ {Pick(s)} \in D(n) /\ s \ {Pick(s)} \in D(n + 1)
    <3>1. Pick(s) \in s
      BY <2>2 DEF Pick
    <3>2. Cardinality(s \ {Pick(s)}) = Cardinality(s) - 1
      BY <1>1, <3>1, FS_RemoveElement
    <3> QED
      BY <1>1, <3>1, <3>2
  <2>3. ASSUME NEW s \in D(n) PROVE s \in D(n + 1) /\ g[s] = h[s]
    <3>1. s \in D(n + 1)
      BY <1>1
    <3> HIDE DEF D
    <3> QED
      BY <2>1, <3>1
  <2>4. h = [s \in D(n + 1) |-> IF s = {} THEN 0 ELSE f[Pick(s)] + h[s \ {Pick(s)}]]
    <3> HIDE DEF D
    <3>1. ASSUME NEW s \in D(n + 1)
          PROVE (IF s = {} THEN 0 ELSE f[Pick(s)] + g[s \ {Pick(s)}])
                 = IF s = {} THEN 0 ELSE f[Pick(s)] + h[s \ {Pick(s)}]
      <4>1. CASE s = {}
        BY <4>1
      <4>2. CASE s # {}
        <5>1. g[s \ {Pick(s)}] = h[s \ {Pick(s)}]
          BY <2>2, <2>3, <4>2
        <5> HIDE DEF h
        <5> QED
          BY <5>1
      <4> QED
        BY <4>1, <4>2
    <3> QED
      BY <3>1
  <2> HIDE DEF h, D
  <2> QED
    BY <2>4
<1>4. Nat \subseteq T
  <2> HIDE DEF T
  <2> QED
    BY <1>2, <1>3, Inductive
<1>5. Good(Cardinality(S))
  BY <1>1, <1>4
<1>6. D(Cardinality(S)) = SUBSET S
  BY <1>1, FS_Subset
<1> QED
  BY <1>5, <1>6 DEF IsSum

\* So MapThenSumSet is what a solution of the equation says.
LEMMA SumByFunction ==
    ASSUME NEW f, NEW S, IsFiniteSet(S)
    PROVE  \E g : IsSum(g, f, S) /\ SumOf(f, S) = g[S]
<1> DEFINE it == CHOOSE g : IsSum(g, f, S)
<1>1. IsSum(it, f, S)
  BY SumExists
<1>2. SumOf(f, S) = it[S]
  BY DEF SumOf, MapThenSumSet, MapThenFoldSet, IsSum, Pick
<1> QED
  BY <1>1, <1>2

\* Induction over the subsets of a finite set.
LEMMA FiniteInductive ==
    ASSUME NEW S, IsFiniteSet(S), NEW X, {} \in X,
           \A s \in SUBSET S : \A x \in S \ s : s \in X => s \cup {x} \in X
    PROVE  \A s \in SUBSET S : s \in X
<1> DEFINE T == {n \in Nat : \A s \in SUBSET S : Cardinality(s) = n => s \in X}
<1>1. \A s \in SUBSET S : IsFiniteSet(s) /\ Cardinality(s) \in Nat
  BY FS_Subset, FS_CardinalityType
<1>2. 0 \in T
  BY <1>1, FS_EmptySet
<1>3. ASSUME NEW n \in Nat, n \in T PROVE n + 1 \in T
  <2> SUFFICES ASSUME NEW s \in SUBSET S, Cardinality(s) = n + 1 PROVE s \in X
    OBVIOUS
  <2>1. PICK x \in s : TRUE
    BY <1>1, FS_EmptySet
  <2>2. Cardinality(s \ {x}) = n
    BY <1>1, <2>1, OneLess
  <2>3. s \ {x} \in SUBSET S /\ s = (s \ {x}) \cup {x} /\ x \in S \ (s \ {x})
    BY <2>1
  <2>4. s \ {x} \in X
    BY <1>3, <2>2, <2>3
  <2> QED
    BY <2>3, <2>4
<1>4. Nat \subseteq T
  <2> HIDE DEF T
  <2> QED
    BY <1>2, <1>3, Inductive
<1> QED
  BY <1>1, <1>4

\* Two functions that satisfy the equation of a sum agree on what they both are defined on.
LEMMA SumUnique ==
    ASSUME NEW f, NEW S, IsFiniteSet(S), NEW T \in SUBSET S, NEW g, NEW h,
           IsSum(g, f, S), IsSum(h, f, T)
    PROVE  \A s \in SUBSET T : g[s] = h[s]
<1> DEFINE C == {n \in Nat : \A s \in SUBSET T : Cardinality(s) = n => g[s] = h[s]}
<1>1. \A s \in SUBSET T : IsFiniteSet(s) /\ Cardinality(s) \in Nat /\ s \in SUBSET S
  BY FS_Subset, FS_CardinalityType
<1>2. \A s \in SUBSET S : g[s] = IF s = {} THEN 0 ELSE f[Pick(s)] + g[s \ {Pick(s)}]
  BY DEF IsSum
<1>3. \A s \in SUBSET T : h[s] = IF s = {} THEN 0 ELSE f[Pick(s)] + h[s \ {Pick(s)}]
  BY DEF IsSum
<1>4. 0 \in C
  BY <1>1, <1>2, <1>3, FS_EmptySet
<1>5. ASSUME NEW n \in Nat, n \in C PROVE n + 1 \in C
  <2> SUFFICES ASSUME NEW s \in SUBSET T, Cardinality(s) = n + 1 PROVE g[s] = h[s]
    OBVIOUS
  <2>1. s # {}
    BY FS_EmptySet
  <2>2. Pick(s) \in s
    BY <2>1 DEF Pick
  <2>3. Cardinality(s \ {Pick(s)}) = n
    BY <1>1, <2>2, OneLess
  <2>4. g[s \ {Pick(s)}] = h[s \ {Pick(s)}]
    BY <1>5, <2>3
  <2> QED
    BY <1>1, <1>2, <1>3, <2>1, <2>4
<1>6. Nat \subseteq C
  <2> HIDE DEF C
  <2> QED
    BY <1>4, <1>5, Inductive
<1> QED
  BY <1>1, <1>6

\* The sum of nothing.
LEMMA SumOfEmpty == ASSUME NEW f PROVE SumOf(f, {}) = 0
<1>1. IsFiniteSet({})
  BY FS_EmptySet
<1> QED
  BY <1>1, SumByFunction DEF IsSum

\* One step of the equation.
LEMMA SumOfPick ==
    ASSUME NEW f, NEW S, IsFiniteSet(S), S # {}
    PROVE  /\ Pick(S) \in S
           /\ SumOf(f, S) = f[Pick(S)] + SumOf(f, S \ {Pick(S)})
<1>1. Pick(S) \in S
  BY DEF Pick
<1> DEFINE T == S \ {Pick(S)}
<1>2. PICK g : IsSum(g, f, S) /\ SumOf(f, S) = g[S]
  BY SumByFunction
<1>3. IsFiniteSet(T) /\ T \in SUBSET S
  BY FS_Subset
<1> HIDE DEF T
<1>4. PICK h : IsSum(h, f, T) /\ SumOf(f, T) = h[T]
  BY <1>3, SumByFunction
<1>5. g[T] = h[T]
  BY <1>2, <1>3, <1>4, SumUnique
<1>6. g[S] = f[Pick(S)] + g[T]
  BY <1>2 DEF IsSum, T
<1> QED
  BY <1>1, <1>2, <1>4, <1>5, <1>6 DEF T

\* A sum of integers is one.
LEMMA SumOfType ==
    ASSUME NEW f, NEW S, IsFiniteSet(S), \A x \in S : f[x] \in Int
    PROVE  SumOf(f, S) \in Int
<1> DEFINE C == {n \in Nat : \A s \in SUBSET S : Cardinality(s) = n => SumOf(f, s) \in Int}
<1>1. \A s \in SUBSET S : IsFiniteSet(s) /\ Cardinality(s) \in Nat
  BY FS_Subset, FS_CardinalityType
<1>2. 0 \in C
  <2>1. \A s \in SUBSET S : Cardinality(s) = 0 => s = {}
    BY <1>1, FS_EmptySet
  <2> QED
    BY <2>1, SumOfEmpty
<1>3. ASSUME NEW n \in Nat, n \in C PROVE n + 1 \in C
  <2> SUFFICES ASSUME NEW s \in SUBSET S, Cardinality(s) = n + 1 PROVE SumOf(f, s) \in Int
    OBVIOUS
  <2>1. s # {}
    BY FS_EmptySet
  <2>2. Pick(s) \in s /\ SumOf(f, s) = f[Pick(s)] + SumOf(f, s \ {Pick(s)})
    BY <1>1, <2>1, SumOfPick
  <2>3. Cardinality(s \ {Pick(s)}) = n
    BY <1>1, <2>2, OneLess
  <2> QED
    BY <1>3, <2>2, <2>3
<1>4. Nat \subseteq C
  <2> HIDE DEF C
  <2> QED
    BY <1>2, <1>3, Inductive
<1> QED
  BY <1>1, <1>4

\* Any element may be taken out first.
LEMMA SumOfRemove ==
    ASSUME NEW f, NEW S, IsFiniteSet(S), \A x \in S : f[x] \in Int
    PROVE  \A x \in S : SumOf(f, S) = f[x] + SumOf(f, S \ {x})
<1> DEFINE C == {n \in Nat : \A s \in SUBSET S : Cardinality(s) = n =>
                     \A x \in s : SumOf(f, s) = f[x] + SumOf(f, s \ {x})}
<1>1. \A s \in SUBSET S : /\ IsFiniteSet(s) /\ Cardinality(s) \in Nat
                          /\ SumOf(f, s) \in Int
  <2> SUFFICES ASSUME NEW s \in SUBSET S PROVE IsFiniteSet(s) /\ SumOf(f, s) \in Int
    BY FS_CardinalityType
  <2>1. IsFiniteSet(s)
    BY FS_Subset
  <2> QED
    BY <2>1, SumOfType
<1>2. 0 \in C
  <2>1. \A s \in SUBSET S : Cardinality(s) = 0 => s = {}
    BY <1>1, FS_EmptySet
  <2> QED
    BY <2>1
<1>3. ASSUME NEW n \in Nat, n \in C PROVE n + 1 \in C
  <2> SUFFICES ASSUME NEW s \in SUBSET S, Cardinality(s) = n + 1, NEW x \in s
               PROVE  SumOf(f, s) = f[x] + SumOf(f, s \ {x})
    OBVIOUS
  <2>1. s # {}
    OBVIOUS
  <2>2. PICK p \in s : SumOf(f, s) = f[p] + SumOf(f, s \ {p})
    BY <1>1, <2>1, SumOfPick
  <2>3. Cardinality(s \ {p}) = n /\ Cardinality(s \ {x}) = n
    BY <1>1, OneLess
  <2>4. CASE p = x
    BY <2>2, <2>4
  <2>5. CASE p # x
    <3>1. SumOf(f, s \ {p}) = f[x] + SumOf(f, (s \ {p}) \ {x})
      BY <1>3, <2>3, <2>5
    <3>2. SumOf(f, s \ {x}) = f[p] + SumOf(f, (s \ {x}) \ {p})
      BY <1>3, <2>3, <2>5
    <3>3. (s \ {p}) \ {x} = (s \ {x}) \ {p}
      OBVIOUS
    <3>4. PICK r \in Int : r = SumOf(f, (s \ {x}) \ {p})
      BY <1>1
    <3>5. PICK fp \in Int, fx \in Int : fp = f[p] /\ fx = f[x]
      OBVIOUS
    <3>6. SumOf(f, s) = fp + (fx + r) /\ f[x] + SumOf(f, s \ {x}) = fx + (fp + r)
      BY <2>2, <3>1, <3>2, <3>3, <3>4, <3>5
    <3>7. fp + (fx + r) = fx + (fp + r)
      OBVIOUS
    <3> QED
      BY <3>6, <3>7
  <2> QED
    BY <2>4, <2>5
<1>4. Nat \subseteq C
  <2> HIDE DEF C
  <2> QED
    BY <1>2, <1>3, Inductive
<1> QED
  BY <1>1, <1>4

\* An element that is added adds its summand.
LEMMA SumOfAdd ==
    ASSUME NEW f, NEW S, IsFiniteSet(S), NEW x, x \notin S,
           \A y \in S \cup {x} : f[y] \in Int
    PROVE  SumOf(f, S \cup {x}) = f[x] + SumOf(f, S)
<1>1. IsFiniteSet(S \cup {x}) /\ (S \cup {x}) \ {x} = S
  BY FS_AddElement
<1> QED
  BY <1>1, SumOfRemove

\* A sum is determined by the summands.
LEMMA SumOfSame ==
    ASSUME NEW f, NEW g, NEW S, IsFiniteSet(S), \A x \in S : f[x] = g[x] /\ f[x] \in Int
    PROVE  SumOf(f, S) = SumOf(g, S)
<1> DEFINE X == {s \in SUBSET S : SumOf(f, s) = SumOf(g, s)}
<1>1. {} \in X
  BY SumOfEmpty
<1>2. ASSUME NEW s \in SUBSET S, NEW x \in S \ s, s \in X PROVE s \cup {x} \in X
  <2>1. IsFiniteSet(s)
    BY FS_Subset
  <2>2. SumOf(f, s \cup {x}) = f[x] + SumOf(f, s)
    BY <2>1, SumOfAdd
  <2>3. SumOf(g, s \cup {x}) = g[x] + SumOf(g, s)
    BY <2>1, SumOfAdd
  <2> QED
    BY <1>2, <2>2, <2>3
<1>3. \A s \in SUBSET S : s \in X
  <2> HIDE DEF X
  <2> QED
    BY <1>1, <1>2, FiniteInductive
<1> QED
  BY <1>3

\* A sum over two parts.
LEMMA SumOfUnion ==
    ASSUME NEW f, NEW S, NEW T, IsFiniteSet(S), IsFiniteSet(T), S \cap T = {},
           \A x \in S \cup T : f[x] \in Int
    PROVE  SumOf(f, S \cup T) = SumOf(f, S) + SumOf(f, T)
<1> DEFINE X == {s \in SUBSET T : SumOf(f, S \cup s) = SumOf(f, S) + SumOf(f, s)}
<1>1. SumOf(f, S) \in Int
  BY SumOfType
<1>2. {} \in X
  BY <1>1, SumOfEmpty
<1>3. ASSUME NEW s \in SUBSET T, NEW x \in T \ s, s \in X PROVE s \cup {x} \in X
  <2>1. IsFiniteSet(s) /\ IsFiniteSet(S \cup s)
    BY FS_Subset, FS_Union
  <2>2. SumOf(f, s \cup {x}) = f[x] + SumOf(f, s) /\ SumOf(f, s) \in Int
    BY <2>1, SumOfAdd, SumOfType
  <2>3. SumOf(f, (S \cup s) \cup {x}) = f[x] + SumOf(f, S \cup s)
    BY <2>1, SumOfAdd
  <2>4. (S \cup s) \cup {x} = S \cup (s \cup {x})
    OBVIOUS
  <2>5. PICK a \in Int, b \in Int, c \in Int :
            a = SumOf(f, S) /\ b = SumOf(f, s) /\ c = f[x]
    BY <1>1, <2>2
  <2>6. SumOf(f, S \cup (s \cup {x})) = c + (a + b) /\ SumOf(f, s \cup {x}) = c + b
    BY <1>3, <2>2, <2>3, <2>4, <2>5
  <2>7. c + (a + b) = a + (c + b)
    OBVIOUS
  <2> QED
    BY <2>5, <2>6, <2>7
<1>4. \A s \in SUBSET T : s \in X
  <2> HIDE DEF X
  <2> QED
    BY <1>2, <1>3, FiniteInductive
<1> QED
  BY <1>4

\* No summand is negative: a sum is not, and it grows with the set.
LEMMA SumOfGrows ==
    ASSUME NEW f, NEW S, IsFiniteSet(S), NEW T \in SUBSET S, \A x \in S : f[x] \in Nat
    PROVE  /\ SumOf(f, S) \in Nat /\ SumOf(f, T) \in Nat
           /\ SumOf(f, T) <= SumOf(f, S)
<1> DEFINE X == {s \in SUBSET S : SumOf(f, s) \in Nat}
<1>1. {} \in X
  BY SumOfEmpty
<1>2. ASSUME NEW s \in SUBSET S, NEW x \in S \ s, s \in X PROVE s \cup {x} \in X
  <2>1. IsFiniteSet(s)
    BY FS_Subset
  <2>2. SumOf(f, s \cup {x}) = f[x] + SumOf(f, s)
    BY <2>1, SumOfAdd
  <2> QED
    BY <1>2, <2>2
<1>3. \A s \in SUBSET S : s \in X
  <2> HIDE DEF X
  <2> QED
    BY <1>1, <1>2, FiniteInductive
<1>4. IsFiniteSet(T) /\ IsFiniteSet(S \ T) /\ S = T \cup (S \ T)
  BY FS_Subset
<1>5. SumOf(f, S) = SumOf(f, T) + SumOf(f, S \ T)
  BY <1>4, SumOfUnion
<1> QED
  BY <1>3, <1>5

\* The sum of terms that are reached through a second function.
SumAt(f, u, S) == MapThenSumSet(LAMBDA k : f[u[k]], S)

\* It is the sum of those terms, taken as a function.
LEMMA SumAtIsSumOf ==
    ASSUME NEW f, NEW u, NEW S, IsFiniteSet(S)
    PROVE  SumAt(f, u, S) = SumOf([k \in S |-> f[u[k]]], S)
<1> DEFINE F == [k \in S |-> f[u[k]]]
<1> DEFINE Q(g) == g = [s \in SUBSET S |-> IF s = {} THEN 0 ELSE f[u[Pick(s)]] + g[s \ {Pick(s)}]]
<1>1. ASSUME NEW g PROVE Q(g) <=> IsSum(g, F, S)
  <2>1. \A s \in SUBSET S : s # {} => F[Pick(s)] = f[u[Pick(s)]]
    BY DEF Pick
  <2> HIDE DEF F
  <2> QED
    BY <2>1 DEF IsSum
<1> DEFINE it == CHOOSE g : Q(g)
<1> HIDE DEF F
<1>2. PICK h : IsSum(h, F, S) /\ SumOf(F, S) = h[S]
  BY SumByFunction
<1>3. Q(it)
  <2>1. Q(h)
    BY <1>1, <1>2
  <2> HIDE DEF Q
  <2> QED
    BY <2>1
<1>4. IsSum(it, F, S)
  <2> HIDE DEF Q, it
  <2> QED
    BY <1>1, <1>3
<1>5. it[S] = h[S]
  <2> HIDE DEF Q, it
  <2> QED
    BY <1>2, <1>4, SumUnique
<1>6. SumAt(f, u, S) = it[S]
  BY DEF SumAt, MapThenSumSet, MapThenFoldSet, Pick
<1> QED
  BY <1>2, <1>5, <1>6 DEF F

\* Terms that are each reached once can be summed where they are.
LEMMA SumOfImage ==
    ASSUME NEW f, NEW u, NEW S, IsFiniteSet(S), \A j, k \in S : u[j] = u[k] => j = k,
           \A k \in S : f[u[k]] \in Int
    PROVE  SumAt(f, u, S) = SumOf(f, {u[k] : k \in S})
<1> DEFINE F == [k \in S |-> f[u[k]]]
           Im(s) == {u[k] : k \in s}
           X == {s \in SUBSET S : IsFiniteSet(Im(s)) /\ SumOf(F, s) = SumOf(f, Im(s))}
<1>1. {} \in X
  <2>1. Im({}) = {}
    OBVIOUS
  <2> QED
    BY <2>1, SumOfEmpty, FS_EmptySet
<1>2. ASSUME NEW s \in SUBSET S, NEW x \in S \ s, s \in X PROVE s \cup {x} \in X
  <2>1. IsFiniteSet(s) /\ IsFiniteSet(Im(s)) /\ SumOf(F, s) = SumOf(f, Im(s))
    BY <1>2, FS_Subset
  <2>2. Im(s \cup {x}) = Im(s) \cup {u[x]} /\ u[x] \notin Im(s)
    OBVIOUS
  <2>3. F[x] = f[u[x]] /\ \A y \in s \cup {x} : F[y] \in Int
    OBVIOUS
  <2>4. \A y \in Im(s) \cup {u[x]} : f[y] \in Int
    OBVIOUS
  <2> HIDE DEF F, Im
  <2>5. SumOf(F, s \cup {x}) = F[x] + SumOf(F, s)
    BY <2>1, <2>3, SumOfAdd
  <2>6. SumOf(f, Im(s) \cup {u[x]}) = f[u[x]] + SumOf(f, Im(s))
    BY <2>1, <2>2, <2>4, SumOfAdd
  <2>7. IsFiniteSet(Im(s) \cup {u[x]})
    BY <2>1, FS_AddElement
  <2> QED
    BY <2>1, <2>2, <2>3, <2>5, <2>6, <2>7
<1>3. S \in X
  <2> HIDE DEF X
  <2> QED
    BY <1>1, <1>2, FiniteInductive
<1>4. SumAt(f, u, S) = SumOf(F, S)
  BY SumAtIsSumOf
<1> QED
  BY <1>3, <1>4

\* The sum of one term.
LEMMA SumOfOne ==
    ASSUME NEW f, NEW x, f[x] \in Int
    PROVE  SumOf(f, {x}) = f[x]
<1>1. IsFiniteSet({}) /\ SumOf(f, {}) = 0 /\ {} \cup {x} = {x}
  BY SumOfEmpty, FS_EmptySet
<1>2. SumOf(f, {} \cup {x}) = f[x] + SumOf(f, {})
  BY <1>1, SumOfAdd
<1> QED
  BY <1>1, <1>2

\* One term changes.
LEMMA SumOfRaised ==
    ASSUME NEW f, NEW g, NEW S, IsFiniteSet(S), NEW x \in S, NEW e \in Int,
           \A y \in S : f[y] \in Int, \A y \in S \ {x} : g[y] = f[y], g[x] = f[x] + e
    PROVE  SumOf(g, S) = SumOf(f, S) + e
<1>1. \A y \in S : g[y] \in Int
  OBVIOUS
<1>2. SumOf(f, S) = f[x] + SumOf(f, S \ {x}) /\ SumOf(g, S) = g[x] + SumOf(g, S \ {x})
  BY <1>1, SumOfRemove
<1>3. IsFiniteSet(S \ {x})
  BY FS_RemoveElement
<1>4. SumOf(g, S \ {x}) = SumOf(f, S \ {x}) /\ SumOf(f, S \ {x}) \in Int
  BY <1>1, <1>3, SumOfSame, SumOfType
<1>5. PICK r \in Int, a \in Int : r = SumOf(f, S \ {x}) /\ a = f[x]
  BY <1>4
<1>6. SumOf(g, S) = (a + e) + r /\ SumOf(f, S) = a + r
  BY <1>2, <1>4, <1>5
<1>7. (a + e) + r = (a + r) + e
  OBVIOUS
<1> QED
  BY <1>6, <1>7

\* One term is added.
LEMMA SumOfExtended ==
    ASSUME NEW f, NEW g, NEW S, IsFiniteSet(S), NEW x, x \notin S,
           \A y \in S : f[y] \in Int /\ g[y] = f[y], g[x] \in Int
    PROVE  SumOf(g, S \cup {x}) = SumOf(f, S) + g[x]
<1>1. SumOf(g, S \cup {x}) = g[x] + SumOf(g, S)
  BY SumOfAdd
<1>2. SumOf(g, S) = SumOf(f, S) /\ SumOf(f, S) \in Int
  BY SumOfSame, SumOfType
<1> QED
  BY <1>1, <1>2

\* What is in order from each to the next is in order.
LEMMA SortedThroughout ==
    ASSUME NEW n \in Nat, NEW s \in [1..n -> Int], \A k \in 1..(n - 1) : s[k] >= s[k + 1]
    PROVE  \A j, k \in 1..n : j <= k => s[j] >= s[k]
<1> DEFINE T == {m \in Nat : \A j \in 1..n : j + m \in 1..n => s[j] >= s[j + m]}
<1>1. 0 \in T
  <2>1. \A j \in 1..n : j + 0 = j /\ s[j] \in Int
    OBVIOUS
  <2> QED
    BY <2>1
<1>2. ASSUME NEW m \in Nat, m \in T PROVE m + 1 \in T
  <2> SUFFICES ASSUME NEW j \in 1..n, j + (m + 1) \in 1..n PROVE s[j] >= s[j + (m + 1)]
    OBVIOUS
  <2>1. j + m \in 1..n /\ j + m \in 1..(n - 1) /\ (j + m) + 1 = j + (m + 1)
    OBVIOUS
  <2>2. s[j] >= s[j + m]
    BY <1>2, <2>1
  <2>3. s[j + m] >= s[j + (m + 1)]
    BY <2>1
  <2>4. s[j] \in Int /\ s[j + m] \in Int /\ s[j + (m + 1)] \in Int
    BY <2>1
  <2> QED
    BY <2>2, <2>3, <2>4
<1>3. Nat \subseteq T
  <2> HIDE DEF T
  <2> QED
    BY <1>1, <1>2, Inductive
<1>4. ASSUME NEW j \in 1..n, NEW k \in 1..n, j <= k PROVE s[j] >= s[k]
  <2>1. k - j \in Nat /\ j + (k - j) = k
    BY <1>4
  <2>2. k - j \in T
    BY <1>3, <2>1
  <2> QED
    BY <2>1, <2>2
<1> QED
  BY <1>4

-----------------------------------------------------------------------------
(* Numbers and their digits.                                               *)

\* What a sequence of digits is worth.
Value(q) == FoldLeft(LAMBDA n, d : 10 * n + d, 0, q)

\* The largest of some numbers.
LEMMA Largest ==
    ASSUME NEW n \in Nat, NEW s \in SUBSET (0..n), s # {}
    PROVE  Max(s) \in s /\ \A x \in s : x <= Max(s)
<1> DEFINE T == {n - x : x \in s}
<1>1. T \subseteq Nat /\ T # {}
  <2>1. \A x \in s : x \in Int /\ n - x \in Nat
    OBVIOUS
  <2>2. PICK x \in s : TRUE
    OBVIOUS
  <2>3. n - x \in T
    BY <2>2
  <2> QED
    BY <2>1, <2>3
<1>2. PICK y \in T : \A z \in T : y <= z
  <2> HIDE DEF T
  <2> QED
    BY <1>1, Smallest
<1>3. PICK m \in s : y = n - m
  BY <1>2
<1>4. ASSUME NEW x \in s PROVE m >= x
  <2>1. n - x \in T
    OBVIOUS
  <2> QED
    BY <1>2, <1>3, <2>1
<1>5. \E x \in s : \A z \in s : x >= z
  BY <1>4
<1>6. Max(s) \in s /\ \A z \in s : Max(s) >= z
  BY <1>5 DEF Max
<1> QED
  BY <1>6

\* The equation of the fold, over the sets of places of the digits.
IsValue(g, q) ==
    g = [s \in SUBSET DOMAIN q |-> IF s = {} THEN 0 ELSE 10 * g[s \ {Max(s)}] + q[Max(s)]]

\* It has a solution.
LEMMA ValueExists ==
    ASSUME NEW q, NEW N \in Nat, DOMAIN q = 1..N
    PROVE  \E g : IsValue(g, q)
<1> DEFINE S == DOMAIN q
           D(n) == {s \in SUBSET S : Cardinality(s) <= n}
           Good(n) == \E g : g = [s \in D(n) |-> IF s = {} THEN 0
                                                ELSE 10 * g[s \ {Max(s)}] + q[Max(s)]]
           T == {n \in Nat : Good(n)}
<1>0. IsFiniteSet(S)
  BY FS_Interval
<1>1. \A s \in SUBSET S : IsFiniteSet(s) /\ Cardinality(s) \in Nat
  BY <1>0, FS_Subset, FS_CardinalityType
<1>2. 0 \in T
  <2>1. \A s \in SUBSET S : Cardinality(s) <= 0 => s = {}
    <3> SUFFICES ASSUME NEW s \in SUBSET S, Cardinality(s) <= 0 PROVE s = {}
      OBVIOUS
    <3>1. Cardinality(s) = 0
      BY <1>1
    <3> QED
      BY <1>1, <3>1, FS_EmptySet
  <2> DEFINE g == [s \in D(0) |-> 0]
  <2>2. g = [s \in D(0) |-> IF s = {} THEN 0 ELSE 10 * g[s \ {Max(s)}] + q[Max(s)]]
    BY <2>1
  <2> QED
    BY <2>2
<1>3. ASSUME NEW n \in Nat, n \in T PROVE n + 1 \in T
  <2>1. PICK g : g = [s \in D(n) |-> IF s = {} THEN 0 ELSE 10 * g[s \ {Max(s)}] + q[Max(s)]]
    BY <1>3
  <2> DEFINE h == [s \in D(n + 1) |-> IF s = {} THEN 0 ELSE 10 * g[s \ {Max(s)}] + q[Max(s)]]
  <2>2. ASSUME NEW s \in D(n + 1), s # {}
        PROVE  s \ {Max(s)} \in D(n) /\ s \ {Max(s)} \in D(n + 1)
    <3>1. Max(s) \in s
      <4>1. s \in SUBSET (0..N)
        OBVIOUS
      <4> HIDE DEF D
      <4> QED
        BY <2>2, <4>1, Largest
    <3>2. Cardinality(s \ {Max(s)}) = Cardinality(s) - 1
      BY <1>1, <3>1, FS_RemoveElement
    <3> QED
      BY <1>1, <3>1, <3>2
  <2>3. ASSUME NEW s \in D(n) PROVE s \in D(n + 1) /\ g[s] = h[s]
    <3>1. s \in D(n + 1)
      BY <1>1
    <3> HIDE DEF D
    <3> QED
      BY <2>1, <3>1
  <2>4. h = [s \in D(n + 1) |-> IF s = {} THEN 0 ELSE 10 * h[s \ {Max(s)}] + q[Max(s)]]
    <3> HIDE DEF D
    <3>1. ASSUME NEW s \in D(n + 1)
          PROVE (IF s = {} THEN 0 ELSE 10 * g[s \ {Max(s)}] + q[Max(s)])
                 = IF s = {} THEN 0 ELSE 10 * h[s \ {Max(s)}] + q[Max(s)]
      <4>1. CASE s = {}
        BY <4>1
      <4>2. CASE s # {}
        <5>1. g[s \ {Max(s)}] = h[s \ {Max(s)}]
          BY <2>2, <2>3, <4>2
        <5> HIDE DEF h
        <5> QED
          BY <5>1
      <4> QED
        BY <4>1, <4>2
    <3> QED
      BY <3>1
  <2>5. Good(n + 1)
    <3> HIDE DEF h, D
    <3> QED
      BY <2>4
  <2> HIDE DEF Good
  <2> QED
    BY <2>5
<1>4. Nat \subseteq T
  <2> HIDE DEF T
  <2> QED
    BY <1>2, <1>3, Inductive
<1>5. Good(Cardinality(S))
  BY <1>1, <1>4
<1>6. D(Cardinality(S)) = SUBSET S
  BY <1>0, <1>1, FS_Subset
<1> QED
  BY <1>5, <1>6 DEF IsValue

\* Digit by digit from the left.
IsHorner(v, q) ==
    /\ v \in [0..Len(q) -> Nat] /\ v[0] = 0
    /\ \A k \in 1..Len(q) : v[k] = 10 * v[k - 1] + q[k]

\* And the value is what the scheme ends with.
LEMMA ValueByHorner ==
    ASSUME NEW q \in Seq(Nat)
    PROVE  \E v : IsHorner(v, q) /\ Value(q) = v[Len(q)]
<1> DEFINE N == Len(q)
           it == CHOOSE g : IsValue(g, q)
           v == [k \in 0..N |-> it[1..k]]
<1>1. N \in Nat /\ DOMAIN q = 1..N
  OBVIOUS
<1>2. IsValue(it, q)
  BY <1>1, ValueExists
<1>3. Value(q) = it[1..N]
  BY <1>1 DEF Value, FoldLeft, MapThenFoldSet, IsValue
<1> HIDE DEF it, N
<1>4. it[{}] = 0
  BY <1>2 DEF IsValue
<1>5. ASSUME NEW k \in 1..N PROVE it[1..k] = 10 * it[1..(k - 1)] + q[k]
  <2>0. k \in 1..k /\ k \in Nat
    BY <1>1
  <2>a. \A x \in 1..k : x \in 1..N
    BY <1>1, <2>0
  <2>1. 1..k \in SUBSET (1..N) /\ 1..k # {} /\ 1..k \in SUBSET (0..k)
    BY <2>0, <2>a
  <2>2. Max(1..k) \in 1..k /\ \A x \in 1..k : x <= Max(1..k)
    BY <2>0, <2>1, Largest
  <2>3. Max(1..k) = k
    BY <1>1, <2>0, <2>2
  <2>4. (1..k) \ {k} = 1..(k - 1)
    BY <1>1
  <2>5. it[1..k] = 10 * it[(1..k) \ {Max(1..k)}] + q[Max(1..k)]
    BY <1>1, <1>2, <2>1 DEF IsValue
  <2> QED
    BY <2>3, <2>4, <2>5
<1> DEFINE T == {k \in Nat : k <= N => it[1..k] \in Nat}
<1>6. 0 \in T
  <2>1. 1..0 = {}
    OBVIOUS
  <2> QED
    BY <1>4, <2>1
<1>7. ASSUME NEW k \in Nat, k \in T PROVE k + 1 \in T
  <2> SUFFICES ASSUME k + 1 <= N PROVE it[1..(k + 1)] \in Nat
    OBVIOUS
  <2>1. it[1..k] \in Nat /\ k + 1 \in 1..N /\ (k + 1) - 1 = k
    BY <1>1, <1>7
  <2>2. it[1..(k + 1)] = 10 * it[1..k] + q[k + 1]
    BY <1>5, <2>1
  <2>3. q[k + 1] \in Nat
    BY <1>1, <2>1
  <2> QED
    BY <2>1, <2>2, <2>3
<1>8. Nat \subseteq T
  <2> HIDE DEF T
  <2> QED
    BY <1>6, <1>7, Inductive
<1>9. v \in [0..N -> Nat] /\ v[0] = 0 /\ v[N] = it[1..N]
  <2>1. 1..0 = {}
    OBVIOUS
  <2> QED
    BY <1>1, <1>4, <1>8, <2>1
<1>10. ASSUME NEW k \in 1..N PROVE v[k] = 10 * v[k - 1] + q[k]
  <2>1. k \in 0..N /\ k - 1 \in 0..N
    BY <1>1
  <2> QED
    BY <1>5, <2>1
<1> QED
  BY <1>3, <1>9, <1>10 DEF IsHorner, N

\* Zeros in front are worth nothing.
LEMMA LeadingZeros ==
    ASSUME NEW q \in Seq(Nat), NEW r \in Seq(Nat), NEW m \in Nat, Len(r) = m + Len(q),
           \A j \in 1..m : r[j] = 0, \A j \in 1..Len(q) : r[m + j] = q[j]
    PROVE  Value(r) = Value(q)
<1>1. PICK v : IsHorner(v, r) /\ Value(r) = v[Len(r)]
  BY ValueByHorner
<1>2. PICK w : IsHorner(w, q) /\ Value(q) = w[Len(q)]
  BY ValueByHorner
<1> DEFINE T == {k \in Nat : k <= m => v[k] = 0}
           U == {k \in Nat : k <= Len(q) => v[m + k] = w[k]}
<1>3. 0 \in T
  BY <1>1 DEF IsHorner
<1>4. ASSUME NEW k \in Nat, k \in T PROVE k + 1 \in T
  <2> SUFFICES ASSUME k + 1 <= m PROVE v[k + 1] = 0
    OBVIOUS
  <2>1. k + 1 \in 1..Len(r) /\ k + 1 \in 1..m /\ (k + 1) - 1 = k /\ v[k] = 0
    BY <1>4
  <2>2. v[k + 1] = 10 * v[k] + r[k + 1]
    BY <1>1, <2>1 DEF IsHorner
  <2> QED
    BY <2>1, <2>2
<1>5. Nat \subseteq T
  <2> HIDE DEF T
  <2> QED
    BY <1>3, <1>4, Inductive
<1>6. 0 \in U
  <2>1. v[m] = 0 /\ m + 0 = m /\ w[0] = 0
    BY <1>2, <1>5 DEF IsHorner
  <2> QED
    BY <2>1
<1>7. ASSUME NEW k \in Nat, k \in U PROVE k + 1 \in U
  <2> SUFFICES ASSUME k + 1 <= Len(q) PROVE v[m + (k + 1)] = w[k + 1]
    OBVIOUS
  <2>1. /\ k + 1 \in 1..Len(q) /\ (k + 1) - 1 = k /\ v[m + k] = w[k]
        /\ m + (k + 1) \in 1..Len(r) /\ (m + (k + 1)) - 1 = m + k
    BY <1>7
  <2>2. v[m + (k + 1)] = 10 * v[m + k] + r[m + (k + 1)]
    BY <1>1, <2>1 DEF IsHorner
  <2>3. w[k + 1] = 10 * w[k] + q[k + 1]
    BY <1>2, <2>1 DEF IsHorner
  <2> QED
    BY <2>1, <2>2, <2>3
<1>8. Nat \subseteq U
  <2> HIDE DEF U
  <2> QED
    BY <1>6, <1>7, Inductive
<1>9. Len(q) \in U
  BY <1>8
<1> QED
  BY <1>1, <1>2, <1>9

\* A digit is worth itself.
LEMMA ValueOfDigit == ASSUME NEW d \in Nat PROVE Value(<<d>>) = d
<1>1. <<d>> \in Seq(Nat) /\ Len(<<d>>) = 1 /\ <<d>>[1] = d
  OBVIOUS
<1>2. PICK v : IsHorner(v, <<d>>) /\ Value(<<d>>) = v[1]
  BY <1>1, ValueByHorner
<1>3. v[1] = 10 * v[0] + d
  BY <1>1, <1>2 DEF IsHorner
<1> QED
  BY <1>2, <1>3 DEF IsHorner

\* A digit more: ten times the value, and the digit.
LEMMA ValueOfAppend ==
    ASSUME NEW q \in Seq(Nat), NEW d \in Nat
    PROVE  Value(q) \in Nat /\ Value(Append(q, d)) = 10 * Value(q) + d
<1> DEFINE r == Append(q, d)
           n == Len(q)
<1>1. /\ r \in Seq(Nat) /\ Len(r) = n + 1 /\ r[n + 1] = d /\ n \in Nat
      /\ \A k \in 1..n : r[k] = q[k]
  OBVIOUS
<1> HIDE DEF r
<1>2. PICK v : IsHorner(v, r) /\ Value(r) = v[n + 1]
  BY <1>1, ValueByHorner
<1>3. PICK w : IsHorner(w, q) /\ Value(q) = w[n]
  BY ValueByHorner
<1> DEFINE T == {k \in Nat : k <= n => v[k] = w[k]}
<1>4. 0 \in T
  BY <1>2, <1>3 DEF IsHorner
<1>5. ASSUME NEW k \in Nat, k \in T PROVE k + 1 \in T
  <2> SUFFICES ASSUME k + 1 <= n PROVE v[k + 1] = w[k + 1]
    OBVIOUS
  <2>1. k + 1 \in 1..n /\ k + 1 \in 1..Len(r) /\ (k + 1) - 1 = k /\ v[k] = w[k]
    <3>1. n \in Nat /\ Len(r) = n + 1
      BY <1>1
    <3>2. v[k] = w[k]
      BY <1>5, <3>1
    <3> HIDE DEF n
    <3> QED
      BY <3>1, <3>2
  <2>2. v[k + 1] = 10 * v[k] + r[k + 1]
    BY <1>2, <2>1 DEF IsHorner
  <2>3. w[k + 1] = 10 * w[k] + q[k + 1]
    BY <1>3, <2>1 DEF IsHorner
  <2> QED
    BY <1>1, <2>1, <2>2, <2>3
<1>6. Nat \subseteq T
  <2> HIDE DEF T
  <2> QED
    BY <1>4, <1>5, Inductive
<1>7. v[n] = w[n] /\ n + 1 \in 1..Len(r) /\ (n + 1) - 1 = n
  BY <1>1, <1>6
<1>8. v[n + 1] = 10 * v[n] + d
  BY <1>1, <1>2, <1>7 DEF IsHorner
<1>9. w[n] \in Nat
  BY <1>3 DEF IsHorner
<1> QED
  BY <1>2, <1>3, <1>7, <1>8, <1>9 DEF r

\* The digits of the numbers up to N.
IsDigits(d, N) ==
    d = [n \in 0..N |-> IF n < 10 THEN <<n>> ELSE Append(d[n \div 10], n % 10)]

\* The recursion of the digits, from n to n \div 10, has a solution.
LEMMA DigitsExist ==
    ASSUME NEW N \in Nat
    PROVE  \E d : IsDigits(d, N)
<1> DEFINE T == {m \in Nat : \E d : IsDigits(d, m)}
<1>1. 0 \in T
  <2> DEFINE d == [n \in 0..0 |-> <<n>>]
  <2>1. IsDigits(d, 0)
    BY DEF IsDigits
  <2> QED
    BY <2>1
<1>2. ASSUME NEW m \in Nat, m \in T PROVE m + 1 \in T
  <2>1. PICK d : IsDigits(d, m)
    BY <1>2
  <2> DEFINE e == [n \in 0..(m + 1) |-> IF n < 10 THEN <<n>> ELSE Append(d[n \div 10], n % 10)]
  <2>2. ASSUME NEW n \in 0..m PROVE n \in 0..(m + 1) /\ d[n] = e[n]
    <3>1. n \in 0..(m + 1)
      OBVIOUS
    <3>2. d[n] = IF n < 10 THEN <<n>> ELSE Append(d[n \div 10], n % 10)
      BY <2>1 DEF IsDigits
    <3> QED
      BY <3>1, <3>2
  <2>3. ASSUME NEW n \in 0..(m + 1), ~(n < 10) PROVE d[n \div 10] = e[n \div 10]
    <3>1. n \div 10 \in 0..m
      BY <2>3
    <3> HIDE DEF e
    <3> QED
      BY <2>2, <3>1
  <2>4. e = [n \in 0..(m + 1) |-> IF n < 10 THEN <<n>> ELSE Append(e[n \div 10], n % 10)]
    <3>1. \A n \in 0..(m + 1) : (IF n < 10 THEN <<n>> ELSE Append(d[n \div 10], n % 10))
                                 = IF n < 10 THEN <<n>> ELSE Append(e[n \div 10], n % 10)
      <4> HIDE DEF e
      <4> QED
        BY <2>3
    <3> QED
      BY <3>1
  <2> HIDE DEF e
  <2>5. IsDigits(e, m + 1)
    BY <2>4 DEF IsDigits
  <2> QED
    BY <2>5
<1>3. Nat \subseteq T
  <2> HIDE DEF T
  <2> QED
    BY <1>1, <1>2, Inductive
<1> QED
  BY <1>3

\* They are what the number is worth.
LEMMA DigitsRight ==
    ASSUME NEW N \in Nat, NEW d, IsDigits(d, N)
    PROVE  \A n \in 0..N : d[n] \in Seq(0..9) /\ Len(d[n]) > 0 /\ Value(d[n]) = n
<1> DEFINE Right(n) == d[n] \in Seq(0..9) /\ Len(d[n]) > 0 /\ Value(d[n]) = n
           T == {m \in Nat : \A n \in 0..N : n <= m => Right(n)}
<1>1. ASSUME NEW n \in 0..N, n < 10 PROVE Right(n)
  <2>1. d[n] = <<n>> /\ n \in 0..9 /\ n \in Nat
    BY <1>1 DEF IsDigits
  <2>2. Value(<<n>>) = n
    BY <2>1, ValueOfDigit
  <2> QED
    BY <2>1, <2>2
<1>2. 0 \in T
  BY <1>1
<1>3. ASSUME NEW m \in Nat, m \in T PROVE m + 1 \in T
  <2> SUFFICES ASSUME m + 1 \in 0..N PROVE Right(m + 1)
    BY <1>3
  <2>1. CASE m + 1 < 10
    BY <1>1, <2>1
  <2>2. CASE ~(m + 1 < 10)
    <3> DEFINE q == (m + 1) \div 10
               c == (m + 1) % 10
    <3>1. q \in 0..N /\ q <= m /\ c \in 0..9 /\ 10 * q + c = m + 1
      BY <2>2
    <3>2. d[m + 1] = Append(d[q], c)
      BY <2>2 DEF IsDigits
    <3> HIDE DEF q, c
    <3>3. d[q] \in Seq(0..9) /\ Len(d[q]) > 0 /\ Value(d[q]) = q
      BY <1>3, <3>1
    <3>4. d[q] \in Seq(Nat) /\ c \in Nat
      BY <3>1, <3>3, SeqMonotonic
    <3>5. Value(Append(d[q], c)) = 10 * q + c
      BY <3>3, <3>4, ValueOfAppend
    <3>6. Append(d[q], c) \in Seq(0..9) /\ Len(Append(d[q], c)) > 0
      BY <3>1, <3>3
    <3> QED
      BY <3>1, <3>2, <3>5, <3>6
  <2> QED
    BY <2>1, <2>2
<1>4. Nat \subseteq T
  <2> HIDE DEF T
  <2> QED
    BY <1>2, <1>3, Inductive
<1>5. N \in T
  BY <1>4
<1> QED
  BY <1>5

-----------------------------------------------------------------------------
(* Decimal texts: the digits of a number, cut and filled up with zeros.    *)

\* k zeros.
Pad(k) == [j \in 1..k |-> 0]

\* Without the zeros at the end.
Bare(s) == SubSeq(s, 1, Max({0} \cup {j \in DOMAIN s : s[j] # 0}))

\* They are digits.
LEMMA PadFacts ==
    ASSUME NEW k \in Nat
    PROVE  Pad(k) \in Seq(0..9) /\ Len(Pad(k)) = k /\ \A j \in 1..k : Pad(k)[j] = 0
<1>1. \A j \in 1..k : Pad(k)[j] = 0 /\ 0 \in 0..9
  BY DEF Pad
<1>2. Pad(k) \in Seq(0..9)
  BY <1>1, IsASeq DEF Pad
<1>3. DOMAIN Pad(k) = 1..k
  BY DEF Pad
<1> QED
  BY <1>1, <1>2, <1>3, LenProperties

\* What was cut off at the end were zeros.
LEMMA BareFacts ==
    ASSUME NEW s \in Seq(0..9)
    PROVE  /\ Bare(s) \in Seq(0..9) /\ Len(Bare(s)) <= Len(s)
           /\ Bare(s) \o Pad(Len(s) - Len(Bare(s))) = s
<1> DEFINE N == Len(s)
           T == {0} \cup {j \in DOMAIN s : s[j] # 0}
           m == Max(T)
<1>1. N \in Nat /\ DOMAIN s = 1..N
  OBVIOUS
<1>2. T \in SUBSET (0..N) /\ T # {}
  BY <1>1
<1>3. m \in T /\ \A x \in T : x <= m
  <2> HIDE DEF T
  <2> QED
    BY <1>1, <1>2, Largest
<1>4. m \in 0..N
  BY <1>2, <1>3
<1>5. \A j \in (m + 1)..N : s[j] = 0
  <2> SUFFICES ASSUME NEW j \in (m + 1)..N, s[j] # 0 PROVE FALSE
    OBVIOUS
  <2>1. j \in DOMAIN s
    BY <1>1, <1>4
  <2>2. j \in T
    BY <2>1
  <2> QED
    BY <1>1, <1>3, <1>4, <2>2
<1>6. Bare(s) = SubSeq(s, 1, m)
  BY DEF Bare
<1> HIDE DEF m, T
<1> DEFINE b == SubSeq(s, 1, m)
           z == Pad(N - m)
<1>7. b \in Seq(0..9) /\ Len(b) = m /\ \A j \in 1..m : b[j] = s[j]
  BY <1>1, <1>4, SubSeqProperties
<1>8. N - m \in Nat
  BY <1>1, <1>4
<1>9. z \in Seq(0..9) /\ Len(z) = N - m /\ \A j \in 1..(N - m) : z[j] = 0
  BY <1>8, PadFacts
<1> HIDE DEF b, z, N
<1>10. /\ b \o z \in Seq(0..9) /\ Len(b \o z) = N
       /\ \A j \in 1..N : (b \o z)[j] = IF j <= m THEN b[j] ELSE z[j - m]
  BY <1>1, <1>4, <1>7, <1>9, ConcatProperties
<1>11. \A j \in 1..N : (b \o z)[j] = s[j]
  <2> SUFFICES ASSUME NEW j \in 1..N PROVE (b \o z)[j] = s[j]
    OBVIOUS
  <2>1. CASE j <= m
    <3>1. j \in 1..m
      BY <1>4, <2>1
    <3> QED
      BY <1>7, <1>10, <2>1, <3>1
  <2>2. CASE ~(j <= m)
    <3>1. j \in (m + 1)..N /\ j - m \in 1..(N - m)
      BY <1>1, <1>4, <2>2
    <3> QED
      BY <1>5, <1>9, <1>10, <2>2, <3>1
  <2> QED
    BY <2>1, <2>2
<1>12. b \o z = s
  BY <1>1, <1>10, <1>11, SeqEqual DEF N
<1>13. Len(b) <= N
  BY <1>1, <1>4, <1>7
<1>14. Bare(s) = b
  BY <1>6 DEF b
<1>15. b \in Seq(0..9) /\ Len(b) <= N /\ b \o Pad(N - Len(b)) = s
  BY <1>7, <1>12, <1>13 DEF z
<1> QED
  BY <1>14, <1>15 DEF N

\* What a text of a whole and a fraction with p decimals is worth.
TextValue(w, f, p) == Value(w \o f \o Pad(p - Len(f)))

\* No zeros change nothing.
LEMMA NothingPadded ==
    ASSUME NEW q \in Seq(0..9)
    PROVE  q \o Pad(0) = q
<1>1. Pad(0) = << >>
  BY PadFacts
<1> QED
  BY <1>1

\* Digits are naturals.
LEMMA DigitsAreNumbers ==
    ASSUME NEW q \in Seq(0..9)
    PROVE  q \in Seq(Nat)
<1>1. 0..9 \subseteq Nat
  OBVIOUS
<1> QED
  BY <1>1, SeqMonotonic

\* "0." and the digits behind zeros.
LEMMA ZerosInFront ==
    ASSUME NEW s \in Seq(0..9), NEW k \in Nat
    PROVE  Value(<<0>> \o (Pad(k) \o s)) = Value(s)
<1> DEFINE z == Pad(k)
           t == z \o s
           r == <<0>> \o t
           N == Len(s)
<1>1. z \in Seq(0..9) /\ Len(z) = k /\ \A j \in 1..k : z[j] = 0
  BY PadFacts
<1>a. N \in Nat
  OBVIOUS
<1> HIDE DEF z
<1>2. /\ t \in Seq(0..9) /\ Len(t) = k + N
      /\ \A j \in 1..(k + N) : t[j] = IF j <= k THEN z[j] ELSE s[j - k]
  BY <1>1, ConcatProperties
<1>3. <<0>> \in Seq(0..9) /\ Len(<<0>>) = 1 /\ <<0>>[1] = 0
  OBVIOUS
<1> HIDE DEF t
<1>4. /\ r \in Seq(0..9) /\ Len(r) = 1 + Len(t)
      /\ \A j \in 1..(1 + Len(t)) : r[j] = IF j <= 1 THEN <<0>>[j] ELSE t[j - 1]
  BY <1>2, <1>3, ConcatProperties
<1> HIDE DEF r, N
<1>5. Len(r) = (1 + k) + N /\ 1 + k \in Nat
  BY <1>2, <1>4, <1>a
<1>6. \A j \in 1..(1 + k) : r[j] = 0
  <2> SUFFICES ASSUME NEW j \in 1..(1 + k) PROVE r[j] = 0
    OBVIOUS
  <2>1. CASE j = 1
    BY <1>2, <1>3, <1>4, <1>a, <2>1
  <2>2. CASE j # 1
    <3>1. j - 1 \in 1..k /\ j - 1 \in 1..(k + N) /\ j \in 1..(1 + Len(t)) /\ ~(j <= 1) /\ j - 1 <= k
      BY <1>2, <1>a, <2>2
    <3> QED
      BY <1>1, <1>2, <1>4, <3>1
  <2> QED
    BY <2>1, <2>2
<1>7. \A j \in 1..N : r[(1 + k) + j] = s[j]
  <2> SUFFICES ASSUME NEW j \in 1..N PROVE r[(1 + k) + j] = s[j]
    OBVIOUS
  <2>1. /\ (1 + k) + j \in 1..(1 + Len(t)) /\ ~((1 + k) + j <= 1)
        /\ ((1 + k) + j) - 1 = k + j
        /\ k + j \in 1..(k + N) /\ ~(k + j <= k) /\ (k + j) - k = j
    BY <1>2, <1>a
  <2> QED
    BY <1>2, <1>4, <2>1
<1>8. r \in Seq(Nat) /\ s \in Seq(Nat)
  BY <1>4, DigitsAreNumbers
<1>9. Value(r) = Value(s)
  BY <1>5, <1>6, <1>7, <1>8, LeadingZeros DEF N
<1> QED
  BY <1>9 DEF r, t, z

\* Fewer digits than decimals, or just as many: all decimals are written, or those
\* up to the last that is not zero.
LEMMA TextBelowOne ==
    ASSUME NEW s \in Seq(0..9), NEW p \in Nat, Len(s) <= p
    PROVE  /\ Pad(p - Len(s)) \o s \in Seq(0..9)
           /\ TextValue(<<0>>, Pad(p - Len(s)) \o s, p) = Value(s)
           /\ Pad(p - Len(s)) \o Bare(s) \in Seq(0..9)
           /\ TextValue(<<0>>, Pad(p - Len(s)) \o Bare(s), p) = Value(s)
<1> DEFINE k == p - Len(s)
           z == Pad(k)
           b == Bare(s)
           y == Pad(Len(s) - Len(b))
<1>1. k \in Nat /\ Len(s) \in Nat /\ k + Len(s) = p
  OBVIOUS
<1>2. z \in Seq(0..9) /\ Len(z) = k
  BY <1>1, PadFacts
<1>3. b \in Seq(0..9) /\ Len(b) <= Len(s) /\ Len(b) \in Nat /\ b \o y = s
  BY BareFacts
<1>4. y \in Seq(0..9)
  <2>1. Len(s) - Len(b) \in Nat
    BY <1>1, <1>3
  <2> QED
    BY <2>1, PadFacts
<1>5. <<0>> \in Seq(0..9)
  OBVIOUS
<1>6. Value(<<0>> \o (z \o s)) = Value(s)
  BY <1>1, ZerosInFront
<1> HIDE DEF k, z, b, y
<1>7. /\ z \o s \in Seq(0..9) /\ Len(z \o s) = p /\ p - p = 0
      /\ z \o b \in Seq(0..9) /\ Len(z \o b) = k + Len(b)
  <2>1. z \o s \in Seq(0..9) /\ Len(z \o s) = Len(z) + Len(s)
    BY <1>2, ConcatProperties
  <2>2. z \o b \in Seq(0..9) /\ Len(z \o b) = Len(z) + Len(b)
    BY <1>2, <1>3, ConcatProperties
  <2> QED
    BY <1>1, <1>2, <2>1, <2>2
<1>8. TextValue(<<0>>, z \o s, p) = Value(s)
  <2>1. <<0>> \o (z \o s) \in Seq(0..9)
    BY <1>5, <1>7, ConcatProperties
  <2> QED
    BY <1>6, <1>7, <2>1, NothingPadded DEF TextValue
<1>9. TextValue(<<0>>, z \o b, p) = Value(s)
  <2>1. p - Len(z \o b) = Len(s) - Len(b)
    BY <1>1, <1>3, <1>7
  <2>2. (<<0>> \o (z \o b)) \o y = <<0>> \o ((z \o b) \o y)
    BY <1>4, <1>5, <1>7, ConcatAssociative
  <2>3. z \in Seq(0..9) /\ b \in Seq(0..9) /\ y \in Seq(0..9)
        => (z \o b) \o y = z \o (b \o y)
    BY ConcatAssociative
  <2>4. (z \o b) \o y = z \o s
    BY <1>2, <1>3, <1>4, <2>3
  <2> QED
    BY <1>6, <2>1, <2>2, <2>4 DEF TextValue, y
<1> QED
  BY <1>7, <1>8, <1>9 DEF k, z, b

\* More digits than decimals.
LEMMA TextAboveOne ==
    ASSUME NEW s \in Seq(0..9), NEW p \in Nat, ~(Len(s) <= p)
    PROVE  LET w == SubSeq(s, 1, Len(s) - p)
               f == SubSeq(s, Len(s) - p + 1, Len(s))
           IN  /\ w \in Seq(0..9) /\ f \in Seq(0..9) /\ Bare(f) \in Seq(0..9)
               /\ TextValue(w, f, p) = Value(s)
               /\ TextValue(w, Bare(f), p) = Value(s)
<1> DEFINE N == Len(s)
           w == SubSeq(s, 1, N - p)
           f == SubSeq(s, N - p + 1, N)
           b == Bare(f)
           y == Pad(Len(f) - Len(b))
<1>1. N \in Nat /\ N - p \in 1..N /\ N - p + 1 \in 1..(N + 1) /\ p <= N
  OBVIOUS
<1>2. w \in Seq(0..9) /\ Len(w) = N - p
  BY <1>1, SubSeqProperties
<1>3. f \in Seq(0..9) /\ Len(f) = p
  <2>1. f \in Seq(0..9) /\ Len(f) = IF N - p + 1 <= N THEN N - (N - p + 1) + 1 ELSE 0
    BY <1>1, SubSeqProperties
  <2> HIDE DEF f, N
  <2> QED
    BY <1>1, <2>1
<1>4. w \o f = s
  <2>1. SubSeq(s, 1, N - p) \o SubSeq(s, (N - p) + 1, N) = SubSeq(s, 1, N)
    BY <1>1, ConcatAdjacentSubSeq
  <2> QED
    BY <2>1, SubSeqFull
<1> HIDE DEF w, f
<1>5. b \in Seq(0..9) /\ Len(b) <= p /\ Len(b) \in Nat /\ b \o y = f
  <2>1. b \in Seq(0..9) /\ Len(b) <= Len(f) /\ b \o y = f
    BY <1>3, BareFacts
  <2> HIDE DEF b, y
  <2> QED
    BY <1>3, <2>1, LenProperties
<1>6. y \in Seq(0..9)
  <2>1. Len(f) - Len(b) \in Nat
    BY <1>3, <1>5
  <2> QED
    BY <2>1, PadFacts
<1>7. TextValue(w, f, p) = Value(s)
  <2>1. p - Len(f) = 0
    BY <1>3
  <2> QED
    BY <1>4, <2>1, NothingPadded DEF TextValue
<1>8. TextValue(w, b, p) = Value(s)
  <2>1. (w \o b) \o y = w \o (b \o y)
    <3> HIDE DEF b, y
    <3>1. w \in Seq(0..9) /\ b \in Seq(0..9) /\ y \in Seq(0..9)
          => (w \o b) \o y = w \o (b \o y)
      BY ConcatAssociative
    <3> QED
      BY <1>2, <1>5, <1>6, <3>1
  <2>2. p - Len(b) = Len(f) - Len(b)
    BY <1>3
  <2> HIDE DEF b
  <2> QED
    BY <1>4, <1>5, <2>1, <2>2 DEF TextValue, y
<1> QED
  BY <1>2, <1>3, <1>5, <1>7, <1>8 DEF w, f, b

\* "0", with any decimals.
LEMMA TextOfNothing ==
    ASSUME NEW p \in Nat
    PROVE  TextValue(<<0>>, << >>, p) = 0
<1> DEFINE z == Pad(p)
           r == <<0>> \o z
<1>1. z \in Seq(0..9) /\ Len(z) = p /\ \A j \in 1..p : z[j] = 0
  BY PadFacts
<1>2. <<0>> \in Seq(0..9) /\ Len(<<0>>) = 1 /\ <<0>>[1] = 0 /\ <<0>> \o << >> = <<0>>
  OBVIOUS
<1> HIDE DEF z
<1>3. /\ r \in Seq(0..9) /\ Len(r) = 1 + p
      /\ \A j \in 1..(1 + p) : r[j] = IF j <= 1 THEN <<0>>[j] ELSE z[j - 1]
  BY <1>1, <1>2, ConcatProperties
<1> HIDE DEF r
<1>4. ASSUME NEW j \in 1..(1 + p) PROVE r[j] = 0
  <2>1. CASE j = 1
    BY <1>2, <1>3, <2>1
  <2>2. CASE j # 1
    <3>1. j - 1 \in 1..p /\ ~(j <= 1)
      BY <2>2
    <3> QED
      BY <1>1, <1>3, <3>1
  <2> QED
    BY <2>1, <2>2
<1>5. << >> \in Seq(Nat) /\ Len(<< >>) = 0 /\ r \in Seq(Nat)
  BY <1>3, DigitsAreNumbers
<1>6. Value(r) = Value(<< >>)
  <2>1. 1 + p \in Nat /\ Len(r) = (1 + p) + 0 /\ 1..0 = {}
    BY <1>3
  <2> QED
    BY <1>4, <1>5, <2>1, LeadingZeros
<1>7. Value(<< >>) = 0
  <2>1. PICK v : IsHorner(v, << >>) /\ Value(<< >>) = v[0]
    BY <1>5, ValueByHorner
  <2> QED
    BY <2>1 DEF IsHorner
<1>8. TextValue(<<0>>, << >>, p) = Value(r)
  <2>1. p - Len(<< >>) = p
    OBVIOUS
  <2> QED
    BY <1>2, <2>1 DEF TextValue, r, z
<1> QED
  BY <1>6, <1>7, <1>8
=============================================================================
