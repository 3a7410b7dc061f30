------------------------------ MODULE NumberLemmas ------------------------------
(***************************************************************************)
(* Lemmas about numbers that the proofs share: induction, the smallest and *)
(* largest of a set, the sums of the community module Functions, and       *)
(* division.  The induction theorems of the library take the proposition   *)
(* as an operator; here it is a set of numbers, which a proof can name.    *)
(***************************************************************************)
EXTENDS Integers, FiniteSets, FiniteSetsExt, Functions, TLAPS, FiniteSetTheorems, WellFoundedInduction

\* What holds of zero, and of a number's successor, holds of all.
LEMMA Induction ==
  ASSUME NEW N \in SUBSET Nat, 0 \in N, \A n \in N : n + 1 \in N
  PROVE  N = Nat
<1> DEFINE Below == {pair \in Nat \X Nat : pair[1] < pair[2]}
           Rest == Nat \ N
<1>1. IsWellFoundedOn(Below, Nat)
  BY NatLessThanWellFounded DEF OpToRel
<1>2. SUFFICES ASSUME Rest # {} PROVE FALSE
  OBVIOUS
<1>3. PICK m \in Rest : \A k \in Rest : <<k, m>> \notin Below
  <2> HIDE DEF Below
  <2> QED
    BY <1>1, <1>2, WFMin
<1>4. m # 0 /\ m - 1 \in Nat /\ m - 1 < m
  OBVIOUS
<1>5. m - 1 \in N
  BY <1>3, <1>4
<1>6. (m - 1) + 1 = m
  BY <1>4
<1> QED
  BY <1>5, <1>6

\* The smallest and the largest of numbers.
LEMMA LeastIs ==
  ASSUME NEW S, NEW x \in S, \A v \in S : v \in Int
  PROVE  /\ (\A v \in S : x <= v) => Min(S) = x
         /\ (\A v \in S : x >= v) => Max(S) = x
<1>1. ASSUME \A v \in S : x <= v PROVE Min(S) = x
  <2>1. \A y \in S : (\A v \in S : y <= v) => y = x
    BY <1>1
  <2> QED
    BY <1>1, <2>1 DEF Min
<1>2. ASSUME \A v \in S : x >= v PROVE Max(S) = x
  <2>1. \A y \in S : (\A v \in S : y >= v) => y = x
    BY <1>2
  <2> QED
    BY <1>2, <2>1 DEF Max
<1> QED
  BY <1>1, <1>2

LEMMA MinIsLeast ==
  ASSUME NEW S \in SUBSET Nat, S # {}
  PROVE  Min(S) \in S /\ \A n \in S : Min(S) <= n
<1> DEFINE Below == {pair \in Nat \X Nat : pair[1] < pair[2]}
<1>1. IsWellFoundedOn(Below, Nat)
  BY NatLessThanWellFounded DEF OpToRel
<1>2. PICK m \in S : \A n \in S : <<n, m>> \notin Below
  <2> HIDE DEF Below
  <2> QED
    BY <1>1, WFMin
<1>3. \A n \in S : ~(n < m)
  <2>1. \A n, l \in Nat : n < l => <<n, l>> \in Below
    OBVIOUS
  <2> HIDE DEF Below
  <2> QED
    BY <1>2, <2>1
<1>4. \A n \in S : m <= n
  BY <1>3
<1> QED
  BY <1>4 DEF Min

LEMMA MaxIsGreatest ==
  ASSUME NEW bound \in Nat, NEW S \in SUBSET (0 .. bound), S # {}
  PROVE  Max(S) \in S /\ \A n \in S : n <= Max(S)
<1> DEFINE Room == {bound - n : n \in S}
<1>1. Room \in SUBSET Nat /\ Room # {}
  <2>1. \A n \in S : bound - n \in Nat
    OBVIOUS
  <2> QED
    BY <2>1
<1>2. PICK m \in S : Min(Room) = bound - m
  <2>1. Min(Room) \in Room
    <3> HIDE DEF Room
    <3> QED
      BY <1>1, MinIsLeast
  <2> QED
    BY <2>1
<1>3. \A n \in S : bound - m <= bound - n
  <2>1. \A n \in Room : Min(Room) <= n
    <3> HIDE DEF Room
    <3> QED
      BY <1>1, MinIsLeast
  <2>2. \A n \in S : Min(Room) <= bound - n
    BY <2>1
  <2> QED
    BY <1>2, <2>2
<1>4. \A n \in S : n <= m
  BY <1>3
<1> QED
  BY <1>4 DEF Max

-----------------------------------------------------------------------------
\* The function that a sum over S is the last value of.
Chosen(s) == CHOOSE x \in s : TRUE
Adds(f, S, sum) == sum = [s \in SUBSET S |-> IF s = {} THEN 0 ELSE f[Chosen(s)] + sum[s \ {Chosen(s)}]]
Summing(f, S) == CHOOSE sum : Adds(f, S, sum)

LEMMA SumUnfolds ==
  ASSUME NEW f, NEW S
  PROVE  SumFunctionOnSet(f, S) = Summing(f, S)[S]
BY DEF SumFunctionOnSet, FoldFunctionOnSet, MapThenFoldSet, Summing, Adds, Chosen

LEMMA Smaller ==
  ASSUME NEW S, IsFiniteSet(S), NEW s \in SUBSET S, s # {}
  PROVE  /\ Chosen(s) \in s
         /\ IsFiniteSet(s) /\ Cardinality(s) \in Nat /\ Cardinality(s) <= Cardinality(S)
         /\ s \ {Chosen(s)} \in SUBSET S
         /\ Cardinality(s) = Cardinality(s \ {Chosen(s)}) + 1 /\ Cardinality(s \ {Chosen(s)}) \in Nat
<1>1. Chosen(s) \in s
  BY DEF Chosen
<1>2. IsFiniteSet(s) /\ Cardinality(s) \in Nat /\ Cardinality(s) <= Cardinality(S)
  BY FS_Subset, FS_CardinalityType
<1>3. Cardinality(s \ {Chosen(s)}) = Cardinality(s) - 1 /\ IsFiniteSet(s \ {Chosen(s)})
  BY <1>1, <1>2, FS_RemoveElement
<1>4. Cardinality(s \ {Chosen(s)}) \in Nat
  BY <1>3, FS_CardinalityType
<1> QED
  BY <1>1, <1>2, <1>3, <1>4

LEMMA OneLess ==
  ASSUME NEW S, IsFiniteSet(S), NEW n \in Nat, NEW s \in SUBSET S, Cardinality(s) = n + 1
  PROVE  /\ s # {} /\ Chosen(s) \in s /\ IsFiniteSet(s)
         /\ s \ {Chosen(s)} \in SUBSET S /\ Cardinality(s \ {Chosen(s)}) = n
<1>1. n + 1 # 0 /\ \A m \in Nat : n + 1 = m + 1 => m = n
  OBVIOUS
<1>2. s # {}
  BY <1>1, FS_EmptySet
<1>3. /\ Chosen(s) \in s /\ IsFiniteSet(s) /\ s \ {Chosen(s)} \in SUBSET S
      /\ n + 1 = Cardinality(s \ {Chosen(s)}) + 1 /\ Cardinality(s \ {Chosen(s)}) \in Nat
  BY <1>2, Smaller
<1>4. Cardinality(s \ {Chosen(s)}) = n
  BY <1>1, <1>3
<1> QED
  BY <1>2, <1>3, <1>4

LEMMA AddsOne ==
  ASSUME NEW f, NEW S, NEW sum, Adds(f, S, sum), NEW s \in SUBSET S, s # {}
  PROVE  sum[s] = f[Chosen(s)] + sum[s \ {Chosen(s)}]
BY DEF Adds

LEMMA SummingExists ==
  ASSUME NEW f, NEW S, IsFiniteSet(S)
  PROVE  Adds(f, S, Summing(f, S))
<1> DEFINE Body(sum, s) == IF s = {} THEN 0 ELSE f[Chosen(s)] + sum[s \ {Chosen(s)}]
           Upto(sum, n) == \A s \in SUBSET S : Cardinality(s) < n => sum[s] = Body(sum, s)
           P(n) == \E sum : Upto(sum, n)
<1>1. P(0)
  <2>1. \A s \in SUBSET S : ~(Cardinality(s) < 0)
    BY FS_Subset, FS_CardinalityType
  <2> QED
    BY <2>1
<1>2. ASSUME NEW n \in Nat, P(n) PROVE P(n + 1)
  <2>1. PICK sum : Upto(sum, n)
    BY <1>2
  <2> DEFINE next == [s \in SUBSET S |-> Body(sum, s)]
  <2>2. ASSUME NEW s \in SUBSET S, Cardinality(s) < n + 1 PROVE next[s] = Body(next, s)
    <3>1. CASE s = {}
      BY <3>1
    <3>2. CASE s # {}
      <4> DEFINE t == s \ {Chosen(s)}
      <4>1. t \in SUBSET S /\ Cardinality(t) < n
        BY <2>2, <3>2, Smaller
      <4>2. sum[t] = Body(sum, t) /\ next[t] = Body(sum, t)
        BY <2>1, <4>1
      <4> QED
        BY <3>2, <4>2
    <3> QED
      BY <3>1, <3>2
  <2> HIDE DEF next
  <2> QED
    BY <2>2
<1>3. \A n \in Nat : P(n)
  <2> DEFINE N == {n \in Nat : P(n)}
  <2> HIDE DEF P
  <2>1. N \in SUBSET Nat /\ 0 \in N /\ \A n \in N : n + 1 \in N
    BY <1>1, <1>2
  <2>2. N = Nat
    <3> HIDE DEF N
    <3> QED
      BY <2>1, Induction
  <2> QED
    BY <2>2
<1>4. Cardinality(S) + 1 \in Nat /\ \A s \in SUBSET S : Cardinality(s) < Cardinality(S) + 1
  BY FS_Subset, FS_CardinalityType
<1>5. PICK sum : Upto(sum, Cardinality(S) + 1)
  BY <1>3, <1>4
<1>6. \A s \in SUBSET S : sum[s] = Body(sum, s)
  BY <1>4, <1>5
<1> DEFINE all == [s \in SUBSET S |-> sum[s]]
<1>7. \A s \in SUBSET S : Body(all, s) = Body(sum, s)
  OBVIOUS
<1>8. all = [s \in SUBSET S |-> Body(all, s)]
  BY <1>6, <1>7
<1>9. Adds(f, S, all)
  BY <1>8 DEF Adds
<1> QED
  BY <1>9 DEF Summing

\* A sum over a part is what the sum over the whole has for it.
LEMMA SumsAgree ==
  ASSUME NEW f, NEW S, IsFiniteSet(S), NEW T \in SUBSET S
  PROVE  Summing(f, S)[T] = SumFunctionOnSet(f, T)
<1>1. IsFiniteSet(T)
  BY FS_Subset
<1>2. Adds(f, S, Summing(f, S)) /\ Adds(f, T, Summing(f, T))
  BY <1>1, SummingExists
<1> DEFINE P(n) == \A s \in SUBSET T : Cardinality(s) = n => Summing(f, S)[s] = Summing(f, T)[s]
<1>3. P(0)
  <2>1. ASSUME NEW s \in SUBSET T, Cardinality(s) = 0 PROVE s = {}
    BY <1>1, <2>1, FS_Subset, FS_EmptySet
  <2>2. Summing(f, S)[{}] = 0 /\ Summing(f, T)[{}] = 0
    BY <1>2 DEF Adds
  <2> QED
    BY <2>1, <2>2
<1>4. ASSUME NEW n \in Nat, P(n) PROVE P(n + 1)
  <2>1. SUFFICES ASSUME NEW s \in SUBSET T, Cardinality(s) = n + 1
                 PROVE  Summing(f, S)[s] = Summing(f, T)[s]
    OBVIOUS
  <2>2. s # {} /\ s \ {Chosen(s)} \in SUBSET T /\ Cardinality(s \ {Chosen(s)}) = n
    BY <1>1, <2>1, OneLess
  <2>4. Summing(f, S)[s \ {Chosen(s)}] = Summing(f, T)[s \ {Chosen(s)}]
    BY <1>4, <2>2
  <2>5. s \in SUBSET S /\ s \in SUBSET T
    OBVIOUS
  <2> QED
    BY <1>2, <2>2, <2>4, <2>5, AddsOne
<1>5. \A n \in Nat : P(n)
  <2> DEFINE N == {n \in Nat : P(n)}
  <2> HIDE DEF P
  <2>1. N \in SUBSET Nat /\ 0 \in N /\ \A n \in N : n + 1 \in N
    BY <1>3, <1>4
  <2>2. N = Nat
    <3> HIDE DEF N
    <3> QED
      BY <2>1, Induction
  <2> QED
    BY <2>2
<1>6. Cardinality(T) \in Nat
  BY <1>1, FS_CardinalityType
<1> QED
  BY <1>5, <1>6, SumUnfolds

LEMMA SumOfNone ==
  ASSUME NEW f
  PROVE  SumFunctionOnSet(f, {}) = 0
<1>1. Adds(f, {}, Summing(f, {}))
  BY FS_EmptySet, SummingExists
<1>2. Summing(f, {})[{}] = 0
  BY <1>1 DEF Adds
<1> QED
  BY <1>2, SumUnfolds

\* One of the terms, apart.
LEMMA SumOfSome ==
  ASSUME NEW f, NEW S, IsFiniteSet(S), S # {}
  PROVE  SumFunctionOnSet(f, S) = f[Chosen(S)] + SumFunctionOnSet(f, S \ {Chosen(S)})
<1>1. Summing(f, S)[S] = f[Chosen(S)] + Summing(f, S)[S \ {Chosen(S)}]
  <2>1. S \in SUBSET S /\ Adds(f, S, Summing(f, S))
    BY SummingExists
  <2> QED
    BY <2>1, AddsOne
<1>2. S \ {Chosen(S)} \in SUBSET S
  OBVIOUS
<1> QED
  BY <1>1, <1>2, SumsAgree, SumUnfolds

LEMMA SumIsInteger ==
  ASSUME NEW f, NEW S, IsFiniteSet(S), \A x \in S : f[x] \in Int
  PROVE  SumFunctionOnSet(f, S) \in Int
<1> DEFINE P(n) == \A s \in SUBSET S : Cardinality(s) = n => SumFunctionOnSet(f, s) \in Int
<1>1. P(0)
  <2>1. ASSUME NEW s \in SUBSET S, Cardinality(s) = 0 PROVE s = {}
    BY <2>1, FS_Subset, FS_EmptySet
  <2> QED
    BY <2>1, SumOfNone
<1>2. ASSUME NEW n \in Nat, P(n) PROVE P(n + 1)
  <2>1. SUFFICES ASSUME NEW s \in SUBSET S, Cardinality(s) = n + 1
                 PROVE  SumFunctionOnSet(f, s) \in Int
    OBVIOUS
  <2>2. /\ s # {} /\ s \ {Chosen(s)} \in SUBSET S /\ Cardinality(s \ {Chosen(s)}) = n
        /\ IsFiniteSet(s) /\ Chosen(s) \in s
    BY <2>1, OneLess
  <2>3. f[Chosen(s)] \in Int
    BY <2>2
  <2>4. SumFunctionOnSet(f, s \ {Chosen(s)}) \in Int
    BY <1>2, <2>2
  <2> QED
    BY <2>2, <2>3, <2>4, SumOfSome
<1>3. \A n \in Nat : P(n)
  <2> DEFINE N == {n \in Nat : P(n)}
  <2> HIDE DEF P
  <2>1. N \in SUBSET Nat /\ 0 \in N /\ \A n \in N : n + 1 \in N
    BY <1>1, <1>2
  <2>2. N = Nat
    <3> HIDE DEF N
    <3> QED
      BY <2>1, Induction
  <2> QED
    BY <2>2
<1>4. Cardinality(S) \in Nat
  BY FS_CardinalityType
<1> QED
  BY <1>3, <1>4

\* Any of the terms, apart.
LEMMA SumWithout ==
  ASSUME NEW f, NEW S, IsFiniteSet(S), \A x \in S : f[x] \in Int, NEW y \in S
  PROVE  SumFunctionOnSet(f, S) = f[y] + SumFunctionOnSet(f, S \ {y})
<1> DEFINE Apart(s) == \A z \in s : SumFunctionOnSet(f, s) = f[z] + SumFunctionOnSet(f, s \ {z})
           P(n) == \A s \in SUBSET S : Cardinality(s) = n => Apart(s)
<1>1. P(0)
  <2>1. ASSUME NEW s \in SUBSET S, Cardinality(s) = 0 PROVE s = {}
    BY <2>1, FS_Subset, FS_EmptySet
  <2> QED
    BY <2>1
<1>2. ASSUME NEW n \in Nat, P(n) PROVE P(n + 1)
  <2>1. SUFFICES ASSUME NEW s \in SUBSET S, Cardinality(s) = n + 1, NEW z \in s
                 PROVE  SumFunctionOnSet(f, s) = f[z] + SumFunctionOnSet(f, s \ {z})
    OBVIOUS
  <2> DEFINE a == Chosen(s)
  <2>2. /\ s \ {a} \in SUBSET S /\ Cardinality(s \ {a}) = n /\ a \in s /\ IsFiniteSet(s)
        /\ SumFunctionOnSet(f, s) = f[a] + SumFunctionOnSet(f, s \ {a})
    BY <2>1, OneLess, SumOfSome
  <2>3. CASE z = a
    BY <2>2, <2>3
  <2>4. CASE z # a
    <3> HIDE DEF a
    <3>1. z \in s \ {a} /\ a \in s \ {z} /\ (s \ {a}) \ {z} = (s \ {z}) \ {a}
      BY <2>2, <2>4
    <3>2. SumFunctionOnSet(f, s \ {a}) = f[z] + SumFunctionOnSet(f, (s \ {a}) \ {z})
      BY <1>2, <2>2, <3>1
    <3>3. Cardinality(s \ {z}) = n /\ IsFiniteSet(s \ {z})
      <4>1. Cardinality(s \ {z}) = Cardinality(s) - 1 /\ IsFiniteSet(s \ {z})
        BY <2>1, <2>2, FS_RemoveElement
      <4> QED
        BY <2>1, <4>1
    <3>4. SumFunctionOnSet(f, s \ {z}) = f[a] + SumFunctionOnSet(f, (s \ {z}) \ {a})
      BY <1>2, <3>1, <3>3
    <3>5. SumFunctionOnSet(f, (s \ {a}) \ {z}) \in Int
      <4>1. IsFiniteSet((s \ {a}) \ {z})
        BY <2>2, FS_RemoveElement
      <4> QED
        BY <4>1, SumIsInteger
    <3>6. f[a] \in Int /\ f[z] \in Int
      BY <2>1, <2>2
    <3> DEFINE rest == SumFunctionOnSet(f, (s \ {a}) \ {z})
    <3>7. SumFunctionOnSet(f, s) = f[a] + (f[z] + rest)
      BY <2>2, <3>2
    <3>8. f[z] + SumFunctionOnSet(f, s \ {z}) = f[z] + (f[a] + rest)
      BY <3>1, <3>4
    <3>9. rest \in Int
      BY <3>5
    <3> HIDE DEF rest
    <3>10. f[a] + (f[z] + rest) = f[z] + (f[a] + rest)
      BY <3>6, <3>9
    <3> QED
      BY <3>7, <3>8, <3>10
  <2> QED
    BY <2>3, <2>4
<1>3. \A n \in Nat : P(n)
  <2> DEFINE N == {n \in Nat : P(n)}
  <2> HIDE DEF P
  <2>1. N \in SUBSET Nat /\ 0 \in N /\ \A n \in N : n + 1 \in N
    BY <1>1, <1>2
  <2>2. N = Nat
    <3> HIDE DEF N
    <3> QED
      BY <2>1, Induction
  <2> QED
    BY <2>2
<1>4. Cardinality(S) \in Nat
  BY FS_CardinalityType
<1>5. Apart(S)
  <2> HIDE DEF Apart
  <2> QED
    BY <1>3, <1>4
<1> QED
  BY <1>5

\* Of natural numbers, a part has no larger sum than the whole.
LEMMA SumGrows ==
  ASSUME NEW f, NEW S, IsFiniteSet(S), \A x \in S : f[x] \in Nat, NEW T \in SUBSET S
  PROVE  /\ SumFunctionOnSet(f, S) \in Nat /\ SumFunctionOnSet(f, T) \in Nat
         /\ SumFunctionOnSet(f, T) <= SumFunctionOnSet(f, S)
<1> DEFINE Grows(s) == /\ SumFunctionOnSet(f, s) \in Nat
                       /\ \A t \in SUBSET s : /\ SumFunctionOnSet(f, t) \in Nat
                                             /\ SumFunctionOnSet(f, t) <= SumFunctionOnSet(f, s)
           P(n) == \A s \in SUBSET S : Cardinality(s) = n => Grows(s)
<1>1. P(0)
  <2>1. ASSUME NEW s \in SUBSET S, Cardinality(s) = 0 PROVE s = {}
    BY <2>1, FS_Subset, FS_EmptySet
  <2>2. Grows({})
    BY SumOfNone
  <2> HIDE DEF Grows
  <2> QED
    BY <2>1, <2>2
<1>2. ASSUME NEW n \in Nat, P(n) PROVE P(n + 1)
  <2>1. SUFFICES ASSUME NEW s \in SUBSET S, Cardinality(s) = n + 1 PROVE Grows(s)
    OBVIOUS
  <2>2. IsFiniteSet(s) /\ s # {}
    BY <2>1, OneLess
  <2>3. ASSUME NEW y \in s
        PROVE  /\ s \ {y} \in SUBSET S /\ Grows(s \ {y})
               /\ SumFunctionOnSet(f, s) \in Nat
               /\ SumFunctionOnSet(f, s \ {y}) <= SumFunctionOnSet(f, s)
    <3>1. Cardinality(s \ {y}) = n
      <4>1. Cardinality(s \ {y}) = Cardinality(s) - 1
        BY <2>2, FS_RemoveElement
      <4> QED
        BY <2>1, <4>1
    <3>2. s \ {y} \in SUBSET S /\ Grows(s \ {y})
      BY <1>2, <3>1
    <3>3. SumFunctionOnSet(f, s) = f[y] + SumFunctionOnSet(f, s \ {y}) /\ f[y] \in Nat
      <4>1. \A x \in s : f[x] \in Int
        OBVIOUS
      <4> QED
        BY <2>2, <4>1, SumWithout
    <3> QED
      BY <3>2, <3>3
  <2>4. SumFunctionOnSet(f, s) \in Nat
    BY <2>2, <2>3
  <2>5. ASSUME NEW t \in SUBSET s, t # s
        PROVE  SumFunctionOnSet(f, t) \in Nat /\ SumFunctionOnSet(f, t) <= SumFunctionOnSet(f, s)
    <3>1. PICK y \in s : t \in SUBSET (s \ {y})
      BY <2>5
    <3>2. /\ SumFunctionOnSet(f, s \ {y}) \in Nat /\ SumFunctionOnSet(f, t) \in Nat
          /\ SumFunctionOnSet(f, t) <= SumFunctionOnSet(f, s \ {y})
      BY <2>3, <3>1
    <3>3. SumFunctionOnSet(f, s \ {y}) <= SumFunctionOnSet(f, s)
      BY <2>3
    <3> QED
      BY <2>4, <3>2, <3>3
  <2> QED
    BY <2>4, <2>5
<1>3. \A n \in Nat : P(n)
  <2> DEFINE N == {n \in Nat : P(n)}
  <2> HIDE DEF P
  <2>1. N \in SUBSET Nat /\ 0 \in N /\ \A n \in N : n + 1 \in N
    BY <1>1, <1>2
  <2>2. N = Nat
    <3> HIDE DEF N
    <3> QED
      BY <2>1, Induction
  <2> QED
    BY <2>2
<1>4. Cardinality(S) \in Nat
  BY FS_CardinalityType
<1>5. Grows(S)
  <2> HIDE DEF Grows
  <2> QED
    BY <1>3, <1>4
<1> QED
  BY <1>5

\* Terms of one sign add up to at least as much as there are of them.
LEMMA SumIsSigned ==
  ASSUME NEW f, NEW S, IsFiniteSet(S), \A x \in S : f[x] \in Int
  PROVE  /\ (\A x \in S : f[x] >= 1) => SumFunctionOnSet(f, S) >= Cardinality(S)
         /\ (\A x \in S : f[x] <= -1) => SumFunctionOnSet(f, S) <= -Cardinality(S)
<1> DEFINE Signed(s) == /\ (\A x \in s : f[x] >= 1) => SumFunctionOnSet(f, s) >= Cardinality(s)
                        /\ (\A x \in s : f[x] <= -1) => SumFunctionOnSet(f, s) <= -Cardinality(s)
           P(n) == \A s \in SUBSET S : Cardinality(s) = n => Signed(s)
<1>1. P(0)
  <2>1. ASSUME NEW s \in SUBSET S, Cardinality(s) = 0 PROVE s = {}
    BY <2>1, FS_Subset, FS_EmptySet
  <2>2. Signed({})
    BY SumOfNone, FS_EmptySet
  <2> HIDE DEF Signed
  <2> QED
    BY <2>1, <2>2
<1>2. ASSUME NEW n \in Nat, P(n) PROVE P(n + 1)
  <2>1. SUFFICES ASSUME NEW s \in SUBSET S, Cardinality(s) = n + 1 PROVE Signed(s)
    OBVIOUS
  <2> DEFINE y == Chosen(s)
             rest == SumFunctionOnSet(f, s \ {y})
  <2>2. /\ s # {} /\ s \ {y} \in SUBSET S /\ Cardinality(s \ {y}) = n
        /\ IsFiniteSet(s) /\ y \in s
    BY <2>1, OneLess
  <2>3. SumFunctionOnSet(f, s) = f[y] + rest
    BY <2>2, SumOfSome
  <2>4. f[y] \in Int
    BY <2>2
  <2>5. rest \in Int
    <3>1. IsFiniteSet(s \ {y}) /\ \A x \in s \ {y} : f[x] \in Int
      BY <2>2, FS_RemoveElement
    <3> QED
      BY <3>1, SumIsInteger
  <2>6. Signed(s \ {y})
    BY <1>2, <2>2
  <2> HIDE DEF y, rest
  <2>7. /\ (\A x \in s : f[x] >= 1) => f[y] >= 1 /\ SumFunctionOnSet(f, s \ {y}) >= n
        /\ (\A x \in s : f[x] <= -1) => f[y] <= -1 /\ SumFunctionOnSet(f, s \ {y}) <= -n
    BY <2>2, <2>6
  <2> QED
    BY <2>1, <2>3, <2>4, <2>5, <2>7 DEF rest
<1>3. \A n \in Nat : P(n)
  <2> DEFINE N == {n \in Nat : P(n)}
  <2> HIDE DEF P
  <2>1. N \in SUBSET Nat /\ 0 \in N /\ \A n \in N : n + 1 \in N
    BY <1>1, <1>2
  <2>2. N = Nat
    <3> HIDE DEF N
    <3> QED
      BY <2>1, Induction
  <2> QED
    BY <2>2
<1>4. Cardinality(S) \in Nat
  BY FS_CardinalityType
<1>5. Signed(S)
  <2> HIDE DEF Signed
  <2> QED
    BY <1>3, <1>4
<1> QED
  BY <1>5

-----------------------------------------------------------------------------
\* There is one way to divide.
LEMMA OneDivision ==
  ASSUME NEW L \in Nat \ {0}, NEW a \in Nat, NEW q \in Int, NEW m \in 0 .. L - 1, a = L * q + m
  PROVE  a % L = m
<1> DEFINE r == a % L
           d == (a \div L) - q
<1>1. r \in 0 .. L - 1 /\ a \div L \in Int /\ a = L * (a \div L) + r
  OBVIOUS
<1>2. L * d = L * (a \div L) - L * q
  BY <1>1
<1>3. d \in Int /\ L * d = m - r
  BY <1>1, <1>2
<1> HIDE DEF d, r
<1>4. L * d < L /\ L * d > 0 - L
  BY <1>1, <1>3
<1>5. d = 0
  <2>1. d >= 1 => L * d >= L
    BY <1>3
  <2>2. d <= -1 => L * d <= 0 - L
    BY <1>3
  <2> QED
    BY <1>3, <1>4, <2>1, <2>2
<1>6. m = r
  BY <1>1, <1>3, <1>5
<1> QED
  BY <1>6 DEF r

\* A quotient has the sign of a dividend that is as large as the divisor.
LEMMA QuotientIsSigned ==
  ASSUME NEW c \in Nat \ {0}, NEW v \in Int
  PROVE  v \div c \in Int /\ (v >= c => v \div c >= 1) /\ (v <= -c => v \div c <= -1)
<1> DEFINE q == v \div c
           r == v % c
<1>1. q \in Int /\ r \in 0 .. c - 1 /\ v = c * q + r
  OBVIOUS
<1> HIDE DEF q, r
<1>2. q <= 0 => c * q <= 0
  BY <1>1
<1>3. q >= 0 => c * q >= 0
  BY <1>1
<1>4. c * q \in Int
  BY <1>1
<1>5. (v >= c => q >= 1) /\ (v <= -c => q <= -1)
  <2> DEFINE w == c * q
  <2>1. v = w + r /\ w \in Int
    BY <1>1, <1>4
  <2> HIDE DEF w
  <2>2. (q <= 0 => w <= 0) /\ (q >= 0 => w >= 0)
    BY <1>2, <1>3 DEF w
  <2> QED
    BY <1>1, <2>1, <2>2
<1> QED
  BY <1>1, <1>5 DEF q
=================================================================================
