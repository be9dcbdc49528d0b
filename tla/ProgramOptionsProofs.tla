------------------------ MODULE ProgramOptionsProofs ------------------------
(* Theorems about what parse makes of the list of channels: sorting it and   *)
(* dropping neighbours that are equal leaves every number once, in order.    *)
(*                                                                           *)
(* There is no induction over the list: how many elements are below a value, *)
(* and how many are not above it, say at which places a sorted list has it.  *)

EXTENDS ProgramOptions, FiniteSetTheorems, TLAPS

(* A set of numbers that is not empty has a least one.                       *)
LEMMA LeastNumber ==
  ASSUME NEW T \in SUBSET Nat, T # {}
  PROVE  \E n \in T : \A m \in T : n <= m
<1>1. IsWellFoundedOn(OpToRel(<, Nat), Nat)
  BY NatLessThanWellFounded
<1>2. PICK n \in T : \A m \in T : ~ (<<m, n>> \in OpToRel(<, Nat))
  BY <1>1, WFMin, Zenon
<1>3. ASSUME NEW m \in T
      PROVE  n <= m
  <2>1. n \in Nat /\ m \in Nat
    OBVIOUS
  <2>2. ~ (m < n)
    BY <1>2, <2>1 DEF OpToRel
  <2>3. QED
    BY <2>1, <2>2
<1>4. QED
  BY <1>3

-----------------------------------------------------------------------------
\* How many values of f lie below v, and how many not above.
Below(f, v) == Cardinality({ i \in DOMAIN f : f[i] < v })
UpTo(f, v)  == Cardinality({ i \in DOMAIN f : f[i] <= v })

IsFiniteFunction(f) == IsFiniteSet(DOMAIN f) /\ f \in [DOMAIN f -> Nat]

(* These are numbers, and what is not above a value lies below or is equal.  *)
LEMMA Counted ==
  ASSUME NEW f, IsFiniteFunction(f), NEW v \in Nat
  PROVE  /\ Cardinality(DOMAIN f) \in Nat
         /\ Below(f, v) \in Nat /\ UpTo(f, v) \in Nat /\ Occurrences(f, v) \in Nat
         /\ UpTo(f, v) = Below(f, v) + Occurrences(f, v)
         /\ UpTo(f, v) <= Cardinality(DOMAIN f)
<1> DEFINE B == { i \in DOMAIN f : f[i] < v }
           C == { i \in DOMAIN f : f[i] = v }
           U == { i \in DOMAIN f : f[i] <= v }
<1>1. IsFiniteSet(DOMAIN f) /\ \A i \in DOMAIN f : f[i] \in Nat
  BY DEF IsFiniteFunction
<1>2. IsFiniteSet(B) /\ IsFiniteSet(C) /\ IsFiniteSet(U)
      /\ Cardinality(U) <= Cardinality(DOMAIN f)
  BY <1>1, FS_Subset
<1>3. B \cup C = U /\ B \cap C = {}
  BY <1>1
<1>4. /\ Cardinality(DOMAIN f) \in Nat /\ Cardinality(B) \in Nat
      /\ Cardinality(C) \in Nat /\ Cardinality(U) \in Nat
  BY <1>1, <1>2, FS_CardinalityType
<1>5. Cardinality(B \cup C) = Cardinality(B) + Cardinality(C) - Cardinality(B \cap C)
  BY <1>2, FS_Union
<1> HIDE DEF B, C, U
<1>6. Cardinality(U) = Cardinality(B) + Cardinality(C)
  <2>1. Cardinality(B \cap C) = 0
    BY <1>3, FS_EmptySet
  <2>2. Cardinality(U) = Cardinality(B) + Cardinality(C) - 0
    BY <1>3, <1>5, <2>1, Zenon
  <2>3. QED
    BY <1>4, <2>2
<1>7. QED
  BY <1>2, <1>4, <1>6 DEF B, C, U, Below, UpTo, Occurrences

(* What is not above a value lies below any greater one.                     *)
LEMMA BelowGrows ==
  ASSUME NEW f, IsFiniteFunction(f), NEW v \in Nat, NEW w \in Nat, v < w
  PROVE  UpTo(f, v) <= Below(f, w)
<1> DEFINE U == { i \in DOMAIN f : f[i] <= v }
           B == { i \in DOMAIN f : f[i] < w }
<1>1. IsFiniteSet(DOMAIN f) /\ \A i \in DOMAIN f : f[i] \in Nat
  BY DEF IsFiniteFunction
<1>2. IsFiniteSet(B)
  BY <1>1, FS_Subset
<1>3. U \subseteq B
  BY <1>1
<1> HIDE DEF B, U
<1>4. Cardinality(U) <= Cardinality(B)
  BY <1>2, <1>3, FS_Subset
<1>5. QED
  BY <1>4 DEF B, U, Below, UpTo

(* A value is one of f if it is counted.                                     *)
LEMMA CountedIsValue ==
  ASSUME NEW f, IsFiniteFunction(f), NEW v
  PROVE  v \in Range(f) <=> Occurrences(f, v) > 0
<1> DEFINE C == { i \in DOMAIN f : f[i] = v }
<1>1. IsFiniteSet(C)
  BY FS_Subset DEF IsFiniteFunction
<1>2. Cardinality(C) \in Nat /\ (Cardinality(C) = 0 <=> C = {})
  BY <1>1, FS_CardinalityType, FS_EmptySet
<1>3. v \in Range(f) <=> C # {}
  BY DEF Range
<1> HIDE DEF C
<1>4. QED
  BY <1>2, <1>3 DEF C, Occurrences

(* All values are counted up to some value: one up to which the most are.    *)
LEMMA AllCounted ==
  ASSUME NEW f, IsFiniteFunction(f), DOMAIN f # {}
  PROVE  \E v \in Nat : UpTo(f, v) = Cardinality(DOMAIN f)
<1> DEFINE n == Cardinality(DOMAIN f)
           T == { n - UpTo(f, f[i]) : i \in DOMAIN f }
<1>1. n \in Nat /\ \A i \in DOMAIN f : f[i] \in Nat
  BY FS_CardinalityType DEF IsFiniteFunction
<1>2. ASSUME NEW i \in DOMAIN f
      PROVE  n - UpTo(f, f[i]) \in Nat
  <2>1. UpTo(f, f[i]) \in Nat /\ UpTo(f, f[i]) <= n
    BY <1>1, Counted
  <2>2. QED
    BY <1>1, <2>1
<1>3. T \in SUBSET Nat /\ T # {}
  BY <1>2
<1>4. PICK d \in T : \A e \in T : d <= e
  BY <1>3, LeastNumber
<1>5. PICK i \in DOMAIN f : d = n - UpTo(f, f[i])
  BY <1>4
<1>6. ASSUME NEW j \in DOMAIN f
      PROVE  f[j] <= f[i]
  <2>1. SUFFICES ASSUME f[i] < f[j]
                 PROVE  FALSE
    BY <1>1
  <2>2. f[i] \in Nat /\ f[j] \in Nat
    BY <1>1
  <2>3. UpTo(f, f[i]) <= Below(f, f[j])
    BY <2>1, <2>2, BelowGrows
  <2>4. f[j] \in Range(f)
    BY DEF Range
  <2>5. Occurrences(f, f[j]) > 0
    BY <2>4, CountedIsValue
  <2>6. /\ Below(f, f[j]) \in Nat /\ Occurrences(f, f[j]) \in Nat /\ UpTo(f, f[j]) \in Nat
        /\ UpTo(f, f[j]) = Below(f, f[j]) + Occurrences(f, f[j])
    BY <2>2, Counted
  <2>7. UpTo(f, f[i]) \in Nat
    BY <2>2, Counted
  <2>8. n - UpTo(f, f[i]) <= n - UpTo(f, f[j])
    BY <1>4, <1>5
  <2> HIDE DEF n
  <2>9. QED
    BY <1>1, <2>3, <2>5, <2>6, <2>7, <2>8
<1>7. { k \in DOMAIN f : f[k] <= f[i] } = DOMAIN f
  BY <1>6
<1>8. QED
  BY <1>1, <1>7 DEF UpTo

(* v is the k-th of the values of f in their order.                          *)
IsAt(f, k, v) == v \in Range(f) /\ Below(f, v) < k /\ k <= UpTo(f, v)

(* There is a k-th value: the least one up to which k values are counted.    *)
LEMMA SomeIsAt ==
  ASSUME NEW f, IsFiniteFunction(f), NEW k \in 1 .. Cardinality(DOMAIN f)
  PROVE  \E v \in Range(f) : IsAt(f, k, v)
<1> DEFINE T == { v \in Nat : k <= UpTo(f, v) }
<1>0. IsFiniteSet(DOMAIN f) /\ Cardinality(DOMAIN f) \in Nat
  BY FS_CardinalityType DEF IsFiniteFunction
<1>1. k \in Nat /\ k >= 1 /\ k <= Cardinality(DOMAIN f)
  BY <1>0
<1>2. DOMAIN f # {}
  BY <1>0, <1>1, FS_EmptySet
<1>3. T # {}
  BY <1>0, <1>1, <1>2, AllCounted
<1>4. PICK v \in T : \A w \in T : v <= w
  BY <1>3, LeastNumber
<1>5. v \in Nat /\ k <= UpTo(f, v)
  BY <1>4
<1>6. Below(f, v) < k
  <2>1. CASE v = 0
    <3>1. { i \in DOMAIN f : f[i] < v } = {}
      BY <2>1 DEF IsFiniteFunction
    <3>2. QED
      BY <1>1, <3>1, FS_EmptySet DEF Below
  <2>2. CASE v # 0
    <3>1. v - 1 \in Nat /\ ~(v <= v - 1)
      BY <1>5, <2>2
    <3>2. ~(k <= UpTo(f, v - 1))
      BY <1>4, <3>1
    <3>3. \A i \in DOMAIN f : f[i] < v <=> f[i] <= v - 1
      BY <1>5 DEF IsFiniteFunction
    <3>4. { i \in DOMAIN f : f[i] < v } = { i \in DOMAIN f : f[i] <= v - 1 }
      BY <3>3
    <3>5. Below(f, v) = UpTo(f, v - 1)
      BY <3>4 DEF Below, UpTo
    <3>6. UpTo(f, v - 1) \in Nat
      BY <3>1, Counted
    <3>7. QED
      BY <1>1, <3>2, <3>5, <3>6
  <2>3. QED
    BY <2>1, <2>2
<1>7. v \in Range(f)
  <2>1. /\ Below(f, v) \in Nat /\ Occurrences(f, v) \in Nat
        /\ UpTo(f, v) = Below(f, v) + Occurrences(f, v)
    BY <1>5, Counted
  <2>2. Occurrences(f, v) > 0
    BY <1>1, <1>5, <1>6, <2>1
  <2>3. QED
    BY <2>2, CountedIsValue
<1>8. QED
  BY <1>5, <1>6, <1>7 DEF IsAt

(* The k-th values are in order.                                             *)
LEMMA AtIsMonotone ==
  ASSUME NEW f, IsFiniteFunction(f), NEW j \in Nat, NEW k \in Nat, j <= k,
         NEW v, NEW w, IsAt(f, j, v), IsAt(f, k, w)
  PROVE  v <= w
<1>1. v \in Nat /\ w \in Nat
  BY DEF IsAt, Range, IsFiniteFunction
<1>2. SUFFICES ASSUME w < v
               PROVE  FALSE
  BY <1>1
<1>3. UpTo(f, w) <= Below(f, v)
  BY <1>1, <1>2, BelowGrows
<1>4. UpTo(f, w) \in Nat /\ Below(f, v) \in Nat
  BY <1>1, Counted
<1>5. Below(f, v) < j /\ k <= UpTo(f, w)
  BY DEF IsAt
<1>6. QED
  BY <1>3, <1>4, <1>5

-----------------------------------------------------------------------------
(* The values of a function can be listed in order, each as often as it      *)
(* occurs.                                                                   *)
LEMMA ListingExists ==
  ASSUME NEW f, IsFiniteFunction(f)
  PROVE  \E t \in [1 .. Cardinality(DOMAIN f) -> Range(f)] :
           /\ \A v \in Range(f) : Occurrences(t, v) = Occurrences(f, v)
           /\ \A j, k \in 1 .. Cardinality(DOMAIN f) : j < k => t[j] <= t[k]
<1> DEFINE n == Cardinality(DOMAIN f)
           t == [k \in 1 .. n |-> CHOOSE v \in Range(f) : IsAt(f, k, v)]
<1>0. n \in Nat
  BY FS_CardinalityType DEF IsFiniteFunction
<1>1. ASSUME NEW k \in 1 .. n
      PROVE  t[k] \in Range(f) /\ IsAt(f, k, t[k]) /\ k \in Nat
  <2>1. \E v \in Range(f) : IsAt(f, k, v)
    BY SomeIsAt
  <2>2. QED
    BY <1>0, <2>1
<1>2. t \in [1 .. n -> Range(f)]
  BY <1>1
<1>3. DOMAIN t = 1 .. n
  OBVIOUS
<1> HIDE DEF t, n
<1>4. \A j, k \in 1 .. n : j < k => t[j] <= t[k]
  <2>1. SUFFICES ASSUME NEW j \in 1 .. n, NEW k \in 1 .. n, j < k
                 PROVE  t[j] <= t[k]
    OBVIOUS
  <2>2. j \in Nat /\ k \in Nat /\ j <= k
    BY <1>0, <2>1
  <2>3. QED
    BY <1>1, <2>2, AtIsMonotone
<1>5. \A v \in Range(f) : Occurrences(t, v) = Occurrences(f, v)
  <2>1. SUFFICES ASSUME NEW v \in Range(f)
                 PROVE  Occurrences(t, v) = Occurrences(f, v)
    OBVIOUS
  <2>2. v \in Nat
    BY DEF Range, IsFiniteFunction
  <2>3. /\ Below(f, v) \in Nat /\ UpTo(f, v) \in Nat /\ Occurrences(f, v) \in Nat
        /\ UpTo(f, v) = Below(f, v) + Occurrences(f, v) /\ UpTo(f, v) <= n
    BY <2>2, Counted DEF n
  <2>4. ASSUME NEW k \in 1 .. n
        PROVE  t[k] = v <=> Below(f, v) < k /\ k <= UpTo(f, v)
    <3>1. ASSUME Below(f, v) < k, k <= UpTo(f, v)
          PROVE  t[k] = v
      <4>1. IsAt(f, k, v) /\ IsAt(f, k, t[k]) /\ k \in Nat
        BY <1>1, <3>1 DEF IsAt
      <4>2. k <= k
        BY <4>1
      <4>3. v <= t[k] /\ t[k] <= v
        BY <4>1, <4>2, AtIsMonotone
      <4>4. t[k] \in Nat
        BY <1>1 DEF Range, IsFiniteFunction
      <4>5. QED
        BY <2>2, <4>3, <4>4
    <3>2. QED
      BY <1>1, <3>1 DEF IsAt
  <2>5. { k \in DOMAIN t : t[k] = v } = (Below(f, v) + 1) .. UpTo(f, v)
    BY <1>0, <1>3, <2>3, <2>4
  <2>6. Cardinality((Below(f, v) + 1) .. UpTo(f, v)) = Occurrences(f, v)
    <3> DEFINE a == Below(f, v) + 1
               b == UpTo(f, v)
    <3>1. a \in Int /\ b \in Int
      BY <2>3
    <3>2. Cardinality(a .. b) = IF a > b THEN 0 ELSE b - a + 1
      BY <3>1, FS_Interval
    <3>3. QED
      BY <2>3, <3>2
  <2>7. QED
    BY <2>5, <2>6 DEF Occurrences
<1>6. QED
  BY <1>2, <1>4, <1>5 DEF n

(* A list of numbers is a finite function.                                   *)
LEMMA ListIsFinite ==
  ASSUME NEW s \in Seq(Nat)
  PROVE  /\ Len(s) \in Nat /\ DOMAIN s = 1 .. Len(s)
         /\ IsFiniteFunction(s) /\ Cardinality(DOMAIN s) = Len(s)
<1>1. Len(s) \in Nat /\ DOMAIN s = 1 .. Len(s) /\ s \in [1 .. Len(s) -> Nat]
  OBVIOUS
<1>2. ASSUME NEW n \in Nat
      PROVE  IsFiniteSet(1 .. n) /\ Cardinality(1 .. n) = n
  <2>1. Cardinality(1 .. n) = IF 1 > n THEN 0 ELSE n - 1 + 1
    BY FS_Interval
  <2>2. QED
    BY <2>1, FS_Interval
<1>3. QED
  BY <1>1, <1>2 DEF IsFiniteFunction

IsSorted(t) == \A j, k \in DOMAIN t : j < k => t[j] <= t[k]

(* std::sort: the same numbers in order.                                     *)
LEMMA SortedIs ==
  ASSUME NEW s \in Seq(Nat)
  PROVE  /\ Sorted[s] \in Seq(Nat) /\ Len(Sorted[s]) = Len(s)
         /\ Range(Sorted[s]) = Range(s)
         /\ IsSorted(Sorted[s])
<1> DEFINE IsSort(t) ==
             /\ \A v \in Range(s) : Occurrences(t, v) = Occurrences(s, v)
             /\ \A j, k \in DOMAIN s : j < k => t[j] <= t[k]
           t == Sorted[s]
<1>1. /\ Len(s) \in Nat /\ DOMAIN s = 1 .. Len(s)
      /\ IsFiniteFunction(s) /\ Cardinality(DOMAIN s) = Len(s)
  BY ListIsFinite
<1>2. \E u \in [DOMAIN s -> Range(s)] : IsSort(u)
  BY <1>1, ListingExists
<1>3. t = CHOOSE u \in [DOMAIN s -> Range(s)] : IsSort(u)
  BY DEF Sorted
<1>4. t \in [DOMAIN s -> Range(s)] /\ IsSort(t)
  BY <1>2, <1>3
<1> HIDE DEF t
<1>5. Range(s) \subseteq Nat
  BY <1>1 DEF Range, IsFiniteFunction
<1>6. t \in [1 .. Len(s) -> Nat] /\ DOMAIN t = DOMAIN s
  BY <1>1, <1>4, <1>5
<1>7. t \in Seq(Nat) /\ Len(t) = Len(s)
  BY <1>1, <1>6
<1>8. IsFiniteFunction(t)
  BY <1>7, ListIsFinite
<1>9. Range(t) = Range(s)
  <2>1. Range(t) \subseteq Range(s)
    BY <1>4 DEF Range
  <2>2. ASSUME NEW v \in Range(s)
        PROVE  v \in Range(t)
    <3>1. Occurrences(s, v) > 0 /\ Occurrences(t, v) = Occurrences(s, v)
      BY <1>1, <1>4, CountedIsValue
    <3>2. QED
      BY <1>8, <3>1, CountedIsValue
  <2>3. QED
    BY <2>1, <2>2
<1>10. IsSorted(t)
  BY <1>4, <1>6 DEF IsSorted
<1>11. QED
  BY <1>7, <1>9, <1>10 DEF t

(* The elements of a finite set of numbers can be listed in order, and there *)
(* is no element the list leaves out.                                        *)
LEMMA InOrderIs ==
  ASSUME NEW S \in SUBSET Nat, IsFiniteSet(S)
  PROVE  /\ Cardinality(S) \in Nat
         /\ InOrder[S] \in [1 .. Cardinality(S) -> S]
         /\ \A j, k \in 1 .. Cardinality(S) : j < k => InOrder[S][j] < InOrder[S][k]
         /\ \A i \in S : \E k \in 1 .. Cardinality(S) : InOrder[S][k] = i
<1> DEFINE n == Cardinality(S)
           Rising(t) == \A j, k \in 1 .. n : j < k => t[j] < t[k]
           f == [i \in S |-> i]
           at == InOrder[S]
<1>1. n \in Nat
  BY FS_CardinalityType
<1>2. DOMAIN f = S /\ IsFiniteFunction(f) /\ Range(f) = S
  BY DEF IsFiniteFunction, Range
<1>3. \E t \in [1 .. n -> S] : Rising(t)
  <2>1. PICK t \in [1 .. n -> S] :
          /\ \A v \in S : Occurrences(t, v) = Occurrences(f, v)
          /\ \A j, k \in 1 .. n : j < k => t[j] <= t[k]
    BY <1>2, ListingExists
  <2>2. ASSUME NEW j \in 1 .. n, NEW k \in 1 .. n, j < k, t[j] = t[k]
        PROVE  FALSE
    <3> DEFINE v == t[j]
               C == { i \in DOMAIN t : t[i] = v }
    <3>1. v \in S
      OBVIOUS
    <3>2. { i \in DOMAIN f : f[i] = v } = {v}
      BY <1>2, <3>1
    <3>3. Occurrences(f, v) = 1
      BY <3>2, FS_Singleton DEF Occurrences
    <3>4. Cardinality(C) = 1
      BY <2>1, <3>1, <3>3 DEF Occurrences
    <3>5. IsFiniteSet(C)
      <4>1. IsFiniteSet(1 .. n) /\ C \subseteq 1 .. n
        BY <1>1, FS_Interval
      <4>2. QED
        BY <4>1, FS_Subset
    <3>6. PICK x : C = {x}
      BY <3>4, <3>5, FS_Singleton
    <3>7. j \in C /\ k \in C
      BY <2>2
    <3>8. j = k
      BY <3>6, <3>7
    <3>9. QED
      BY <1>1, <2>2, <3>8
  <2>3. ASSUME NEW j \in 1 .. n, NEW k \in 1 .. n, j < k
        PROVE  t[j] < t[k]
    <3>1. t[j] <= t[k] /\ t[j] # t[k]
      BY <2>1, <2>2, <2>3
    <3>2. t[j] \in Nat /\ t[k] \in Nat
      BY <2>3
    <3>3. QED
      BY <3>1, <3>2
  <2>4. QED
    BY <2>3
<1>4. at = CHOOSE t \in [1 .. n -> S] : Rising(t)
  BY DEF InOrder
<1>5. at \in [1 .. n -> S] /\ Rising(at)
  BY <1>3, <1>4
<1> HIDE DEF at
<1>6. at \in Injection(1 .. n, S)
  <2>1. ASSUME NEW a \in 1 .. n, NEW b \in 1 .. n, at[a] = at[b]
        PROVE  a = b
    <3>1. ~(a < b) /\ ~(b < a)
      <4>1. at[a] \in Nat /\ at[b] \in Nat
        BY <1>5
      <4>2. QED
        BY <1>5, <2>1, <4>1
    <3>2. QED
      BY <1>1, <3>1
  <2>2. IsInjective(at)
    BY <1>5, <2>1 DEF IsInjective
  <2>3. QED
    BY <1>5, <2>2 DEF Injection
<1>7. IsFiniteSet(1 .. n) /\ Cardinality(1 .. n) = n
  BY <1>1, FS_Interval
<1>8. at \in Surjection(1 .. n, S)
  BY <1>6, <1>7, FS_Injection
<1>9. \A i \in S : \E k \in 1 .. n : at[k] = i
  BY <1>8 DEF Surjection
<1>10. QED
  BY <1>1, <1>5, <1>9 DEF at

(* std::unique after std::sort: every number once, in increasing order.      *)
LEMMA UniqueIs ==
  ASSUME NEW s \in Seq(Nat), IsSorted(s)
  PROVE  /\ Unique[s] \in Seq(Nat)
         /\ Range(Unique[s]) = Range(s)
         /\ \A j, k \in DOMAIN Unique[s] : j < k => Unique[s][j] < Unique[s][k]
<1> DEFINE S == Kept(s)
           n == Cardinality(S)
           at == InOrder[S]
           u == Unique[s]
<1>1. /\ Len(s) \in Nat /\ DOMAIN s = 1 .. Len(s) /\ IsFiniteFunction(s)
      /\ \A i \in DOMAIN s : s[i] \in Nat /\ i \in Nat /\ 1 <= i
  BY ListIsFinite
<1>2. S \in SUBSET Nat /\ S \subseteq DOMAIN s /\ IsFiniteSet(S)
  <2>1. S \subseteq DOMAIN s
    BY DEF Kept
  <2>2. QED
    BY <1>1, <2>1, FS_Subset DEF IsFiniteFunction
<1> HIDE DEF S
<1>3. /\ n \in Nat /\ at \in [1 .. n -> S]
      /\ \A j, k \in 1 .. n : j < k => at[j] < at[k]
      /\ \A i \in S : \E k \in 1 .. n : at[k] = i
  BY <1>2, InOrderIs
<1>4. u = [k \in DOMAIN at |-> s[at[k]]]
  BY DEF Unique, S
<1> HIDE DEF at, u, n
<1>5. /\ DOMAIN u = 1 .. n
      /\ \A k \in 1 .. n : at[k] \in S /\ at[k] \in DOMAIN s /\ u[k] = s[at[k]]
  BY <1>2, <1>3, <1>4
<1>6. u \in Seq(Nat)
  <2>1. u \in [1 .. n -> Nat]
    BY <1>1, <1>3, <1>4, <1>5
  <2>2. QED
    BY <1>3, <2>1
<1>7. ASSUME NEW j \in 1 .. n, NEW k \in 1 .. n, j < k
      PROVE  u[j] < u[k]
  <2> DEFINE p == at[j]
             q == at[k]
  <2>1. p < q /\ p \in DOMAIN s /\ q \in DOMAIN s /\ q \in S
    BY <1>3, <1>5, <1>7
  <2> HIDE DEF p, q
  <2>2. q # 1 /\ q - 1 \in DOMAIN s /\ p <= q - 1 /\ q - 1 < q
    BY <1>1, <2>1
  <2>3. s[q - 1] # s[q]
    BY <2>1, <2>2 DEF S, Kept
  <2>4. s[q - 1] <= s[q]
    BY <2>1, <2>2 DEF IsSorted
  <2>5. s[p] <= s[q - 1]
    <3>1. CASE p = q - 1
      BY <1>1, <2>1, <3>1
    <3>2. CASE p # q - 1
      <4>1. p < q - 1
        BY <1>1, <2>1, <2>2, <3>2
      <4>2. QED
        BY <2>1, <2>2, <4>1 DEF IsSorted
    <3>3. QED
      BY <3>1, <3>2
  <2>6. s[p] \in Nat /\ s[q] \in Nat /\ s[q - 1] \in Nat
    BY <1>1, <2>1, <2>2
  <2>7. s[p] < s[q]
    BY <2>3, <2>4, <2>5, <2>6
  <2>8. QED
    BY <1>5, <2>7 DEF p, q
<1>8. Range(u) = Range(s)
  <2>1. Range(u) \subseteq Range(s)
    BY <1>5 DEF Range
  <2>2. ASSUME NEW i \in DOMAIN s
        PROVE  s[i] \in Range(u)
    <3> DEFINE T == { j \in DOMAIN s : s[j] = s[i] }
    <3>1. T \in SUBSET Nat /\ i \in T
      BY <1>1
    <3>2. PICK j \in T : \A k \in T : j <= k
      BY <3>1, LeastNumber
    <3>3. j \in DOMAIN s /\ s[j] = s[i]
      BY <3>2
    <3>4. j = 1 \/ s[j - 1] # s[j]
      <4>1. SUFFICES ASSUME j # 1, s[j - 1] = s[j]
                     PROVE  FALSE
        OBVIOUS
      <4>2. j - 1 \in DOMAIN s /\ ~(j <= j - 1)
        BY <1>1, <3>3, <4>1
      <4>3. QED
        BY <3>2, <3>3, <4>1, <4>2
    <3>5. j \in S
      BY <3>3, <3>4 DEF S, Kept
    <3>6. PICK k \in 1 .. n : at[k] = j
      BY <1>3, <3>5
    <3>7. u[k] = s[i]
      BY <1>5, <3>3, <3>6
    <3>8. QED
      BY <1>5, <3>7 DEF Range
  <2>3. QED
    BY <2>1, <2>2 DEF Range
<1>9. QED
  BY <1>5, <1>6, <1>7, <1>8 DEF u

-----------------------------------------------------------------------------
(* Counting a number from 0 takes it out of range exactly if the device does *)
(* not have the channel: 0 becomes the largest number there is.              *)
LEMMA DecrementedIs ==
  ASSUME NEW c \in 0 .. SizeModulus - 1
  PROVE  /\ c = 0 => Decremented(c) = SizeModulus - 1
         /\ c # 0 => Decremented(c) = c - 1
         /\ Decremented(c) \in Nat
         /\ Decremented(c) >= CountChannels <=> c \notin 1 .. CountChannels
<1>1. /\ SizeModulus \in Nat \ {0} /\ CountChannels \in Nat \ {0}
      /\ CountChannels < SizeModulus /\ c \in Nat /\ c < SizeModulus
  BY ProgramOptionsAssumption
<1>2. ASSUME c = 0
      PROVE  Decremented(c) = SizeModulus - 1
  <2>1. (SizeModulus - 1) % SizeModulus = SizeModulus - 1
    BY <1>1
  <2>2. QED
    BY <1>1, <1>2, <2>1 DEF Decremented
<1>3. ASSUME c # 0
      PROVE  Decremented(c) = c - 1
  <2>1. c - 1 \in Nat /\ c - 1 < SizeModulus
    BY <1>1, <1>3
  <2>2. ((c - 1) + SizeModulus) % SizeModulus = c - 1
    BY <1>1, <2>1
  <2>3. c + SizeModulus - 1 = (c - 1) + SizeModulus
    BY <1>1
  <2>4. QED
    BY <2>2, <2>3 DEF Decremented
<1>4. QED
  BY <1>1, <1>2, <1>3

(* The channels that are given are numbers.                                  *)
LEMMA GivenAreNumbers ==
  ASSUME NEW args \in Arguments
  PROVE  /\ GivenChannels(args) \in Seq(Nat)
         /\ GivenChannels(args) # <<>>
         /\ Range(GivenChannels(args)) \subseteq 0 .. SizeModulus - 1
<1>1. args.line.channels \in Seq(0 .. SizeModulus - 1)
      /\ args.file.channels \in Seq(0 .. SizeModulus - 1)
  BY DEF Arguments, Source
<1>2. Values(args, "channels") \in Seq(0 .. SizeModulus - 1)
  BY <1>1 DEF Values
<1>3. AllChannels \in Seq(0 .. SizeModulus - 1) /\ AllChannels # <<>>
  <2>1. CountChannels \in Nat /\ CountChannels # 0 /\ SizeModulus \in Nat
        /\ CountChannels < SizeModulus
    BY ProgramOptionsAssumption
  <2>2. AllChannels \in [1 .. CountChannels -> 0 .. SizeModulus - 1]
    BY <2>1 DEF AllChannels
  <2>3. AllChannels \in Seq(0 .. SizeModulus - 1) /\ Len(AllChannels) = CountChannels
    BY <2>1, <2>2
  <2>4. QED
    BY <2>1, <2>3
<1>4. GivenChannels(args) \in Seq(0 .. SizeModulus - 1) /\ GivenChannels(args) # <<>>
  BY <1>2, <1>3 DEF GivenChannels, Missing
<1> DEFINE s == GivenChannels(args)
           Numbers == 0 .. SizeModulus - 1
<1>5. Numbers \subseteq Nat
  BY ProgramOptionsAssumption
<1> HIDE DEF s, Numbers
<1>6. Len(s) \in Nat /\ s \in [1 .. Len(s) -> Numbers] /\ DOMAIN s = 1 .. Len(s)
  <2>1. s \in Seq(Numbers)
    BY <1>4 DEF s, Numbers
  <2>2. QED
    BY <2>1
<1>7. s \in [1 .. Len(s) -> Nat]
  BY <1>5, <1>6
<1>8. s \in Seq(Nat) /\ Range(s) \subseteq Numbers
  BY <1>6, <1>7 DEF Range
<1>9. QED
  BY <1>4, <1>8 DEF s, Numbers

(* The channels parse arrives at: what is asked for on either source,        *)
(* counted from 0, once each and in increasing order; and it refuses them    *)
(* exactly if there is one among them that the device does not have.         *)
THEOREM ChannelsAre ==
  ASSUME NEW args \in Arguments
  PROVE  LET given == Range(GivenChannels(args))
             list  == Channels(args)
         IN /\ list \in Seq(Nat) /\ list # <<>>
            /\ ChannelsOutOfRange(args) <=> given \ (1 .. CountChannels) # {}
            /\ ~ChannelsOutOfRange(args) =>
                 /\ { c + 1 : c \in Range(list) } = given
                 /\ \A j, k \in DOMAIN list : j < k => list[j] < list[k]
<1> DEFINE g == GivenChannels(args)
           s == Sorted[g]
           u == Unique[s]
           list == Channels(args)
<1>1. g \in Seq(Nat) /\ g # <<>> /\ Range(g) \subseteq 0 .. SizeModulus - 1
  BY GivenAreNumbers
<1> HIDE DEF g
<1>2. s \in Seq(Nat) /\ Range(s) = Range(g) /\ IsSorted(s)
  BY <1>1, SortedIs
<1> HIDE DEF s
<1>3. u \in Seq(Nat) /\ Range(u) = Range(g)
      /\ \A j, k \in DOMAIN u : j < k => u[j] < u[k]
  BY <1>2, UniqueIs
<1>4. SortedChannels(args) = u
  BY DEF SortedChannels, g, s
<1> HIDE DEF u
<1>5. list = [i \in DOMAIN u |-> Decremented(u[i])]
  BY <1>4 DEF Channels
<1> HIDE DEF list
<1>6. Len(u) \in Nat /\ DOMAIN u = 1 .. Len(u) /\ DOMAIN list = DOMAIN u
  BY <1>3, <1>5
<1>7. ASSUME NEW i \in DOMAIN u
      PROVE  /\ u[i] \in Range(g) /\ u[i] \in 0 .. SizeModulus - 1 /\ u[i] \in Nat
             /\ list[i] = Decremented(u[i])
  <2>1. u[i] \in Range(u) /\ u[i] \in Nat
    BY <1>3 DEF Range
  <2>2. u[i] \in Range(g)
    BY <1>3, <2>1
  <2>3. u[i] \in 0 .. SizeModulus - 1
    BY <1>1, <2>2
  <2>4. QED
    BY <1>5, <2>1, <2>2, <2>3
<1>8. \A v \in Range(g) : \E i \in DOMAIN u : u[i] = v
  BY <1>3 DEF Range
<1>9. list \in Seq(Nat)
  <2>1. list \in [1 .. Len(u) -> Nat]
    BY <1>5, <1>6, <1>7, DecrementedIs
  <2>2. QED
    BY <1>6, <2>1
<1>10. list # <<>>
  <2>1. 1 \in DOMAIN g
    BY <1>1
  <2>2. g[1] \in Range(g)
    BY <2>1 DEF Range
  <2>3. DOMAIN u # {}
    BY <1>8, <2>2
  <2>4. QED
    BY <1>6, <2>3
<1>11. ChannelsOutOfRange(args) <=> Range(g) \ (1 .. CountChannels) # {}
  <2>1. ChannelsOutOfRange(args) <=> \E i \in DOMAIN u : list[i] >= CountChannels
    BY <1>6 DEF ChannelsOutOfRange, Range, list
  <2>2. \A i \in DOMAIN u : list[i] >= CountChannels <=> u[i] \notin 1 .. CountChannels
    BY <1>7, DecrementedIs
  <2>3. QED
    BY <1>7, <1>8, <2>1, <2>2
<1>12. ASSUME ~ChannelsOutOfRange(args)
       PROVE  /\ { c + 1 : c \in Range(list) } = Range(g)
              /\ \A j, k \in DOMAIN list : j < k => list[j] < list[k]
  <2>1. ASSUME NEW i \in DOMAIN u
        PROVE  u[i] \in Nat /\ list[i] \in Nat /\ list[i] + 1 = u[i]
    <3>1. u[i] \in 1 .. CountChannels
      BY <1>7, <1>11, <1>12
    <3>2. u[i] # 0 /\ u[i] \in Nat
      BY <3>1, ProgramOptionsAssumption
    <3>3. list[i] = u[i] - 1 /\ list[i] \in Nat
      BY <1>7, <3>2, DecrementedIs
    <3>4. QED
      BY <3>2, <3>3
  <2>2. { c + 1 : c \in Range(list) } = { list[i] + 1 : i \in DOMAIN u }
    BY <1>6 DEF Range
  <2>3. { list[i] + 1 : i \in DOMAIN u } = { u[i] : i \in DOMAIN u }
    BY <2>1
  <2>4. { u[i] : i \in DOMAIN u } = Range(g)
    BY <1>3 DEF Range
  <2>5. ASSUME NEW j \in DOMAIN list, NEW k \in DOMAIN list, j < k
        PROVE  list[j] < list[k]
    <3>1. u[j] < u[k] /\ list[j] + 1 = u[j] /\ list[k] + 1 = u[k]
          /\ list[j] \in Nat /\ list[k] \in Nat
      BY <1>3, <1>6, <2>1, <2>5
    <3>2. QED
      BY <3>1
  <2>6. QED
    BY <2>2, <2>3, <2>4, <2>5
<1>13. QED
  BY <1>9, <1>10, <1>11, <1>12 DEF g, list

=============================================================================
