------------------------------ MODULE DataLemmas ------------------------------
(***************************************************************************)
(* Lemmas about data that the proofs about the system rest on: induction on *)
(* the naturals for sets, finite sets listed in a total order, and           *)
(* sequences of sequences put together.                                     *)
(***************************************************************************)
EXTENDS Integers, Sequences, SequencesExt, FiniteSets,
        FiniteSetTheorems, FunctionTheorems, SequenceTheorems,
        WellFoundedInduction, TLAPS

-----------------------------------------------------------------------------
\* The provers cannot use an induction theorem about predicates; one about sets of
\* numbers they can.
LEMMA Smallest ==
  ASSUME NEW S \in SUBSET Nat, S # {}
  PROVE  \E m \in S : \A k \in S : m <= k
<1> DEFINE R == OpToRel(<, Nat)
<1>1. IsWellFoundedOn(R, Nat)
  BY NatLessThanWellFounded
<1>2. \A x, y \in Nat : <<x, y>> \in R <=> x < y
  BY DEF OpToRel
<1> HIDE DEF R
<1>3. PICK x \in S : \A y \in S : ~(<<y, x>> \in R)
  BY <1>1, WFMin
<1>4. \A y \in S : y \in Nat /\ x \in Nat
  OBVIOUS
<1>5. \A y \in S : ~(y < x)
  BY <1>2, <1>3, <1>4, Zenon
<1> QED
  BY <1>4, <1>5

LEMMA SetInduction ==
  ASSUME NEW S, 0 \in S, \A n \in Nat : n \in S => n + 1 \in S
  PROVE  \A n \in Nat : n \in S
<1> SUFFICES ASSUME Nat \ S # {} PROVE FALSE
  OBVIOUS
<1>1. PICK m \in Nat \ S : \A k \in Nat \ S : m <= k
  BY Smallest
<1>2. m - 1 \in Nat /\ ~(m <= m - 1)
  BY <1>1
<1>3. m - 1 \in S
  BY <1>1, <1>2
<1>4. m - 1 + 1 \in S
  BY <1>2, <1>3
<1> QED
  BY <1>1, <1>4

LEMMA PartOfInterval ==
  ASSUME NEW n \in Nat, NEW S \in SUBSET (1..n)
  PROVE  IsFiniteSet(S) /\ Cardinality(S) \in 0..n
<1>1. 1 \in Int /\ n \in Int
  OBVIOUS
<1>2. IsFiniteSet(1..n) /\ Cardinality(1..n) = n
  BY <1>1, FS_Interval
<1>3. IsFiniteSet(S) /\ Cardinality(S) <= Cardinality(1..n)
  BY <1>2, FS_Subset, Zenon
<1> QED
  BY <1>2, <1>3, FS_CardinalityType

LEMMA SingleInSeq == ASSUME NEW S, NEW x \in S PROVE <<x>> \in Seq(S)
OBVIOUS

LEMMA EmptyInSeq == ASSUME NEW S PROVE <<>> \in Seq(S)
OBVIOUS

-----------------------------------------------------------------------------
\* R orders S like "comes before".
TotalOrder(R, S) ==
  /\ \A x \in S : <<x, x>> \notin R
  /\ \A x, y, z \in S : <<x, y>> \in R /\ <<y, z>> \in R => <<x, z>> \in R
  /\ \A x, y \in S : x = y \/ <<x, y>> \in R \/ <<y, x>> \in R

LEMMA LastExists ==
  ASSUME NEW S, NEW R, TotalOrder(R, S), IsFiniteSet(S), S # {}
  PROVE  \E x \in S : \A y \in S \ {x} : <<y, x>> \in R
<1> DEFINE Good == {n \in Nat : \A T \in SUBSET S :
                                  Cardinality(T) = n /\ T # {} =>
                                    \E x \in T : \A y \in T \ {x} : <<y, x>> \in R}
<1>1. \A T \in SUBSET S : IsFiniteSet(T) /\ Cardinality(T) \in Nat
  BY FS_Subset, FS_CardinalityType
<1>2. 0 \in Good
  BY <1>1, FS_EmptySet
<1>3. ASSUME NEW n \in Nat, n \in Good
      PROVE  n + 1 \in Good
  <2> SUFFICES ASSUME NEW T \in SUBSET S, Cardinality(T) = n + 1, T # {}
               PROVE  \E x \in T : \A y \in T \ {x} : <<y, x>> \in R
    OBVIOUS
  <2>1. PICK z \in T : TRUE
    OBVIOUS
  <2>2. CASE T \ {z} = {}
    BY <2>2
  <2>3. CASE T \ {z} # {}
    <3>1. Cardinality(T \ {z}) = n
      BY <1>1, FS_RemoveElement
    <3>2. PICK x \in T \ {z} : \A y \in (T \ {z}) \ {x} : <<y, x>> \in R
      BY <1>3, <2>3, <3>1
    <3>3. CASE <<z, x>> \in R
      BY <3>2, <3>3
    <3>4. CASE <<x, z>> \in R
      <4>1. \A y \in T \ {z} : <<y, z>> \in R
        BY <3>2, <3>4 DEF TotalOrder
      <4> QED
        BY <4>1
    <3> QED
      BY <3>2, <3>3, <3>4 DEF TotalOrder
  <2> QED
    BY <2>2, <2>3
<1> HIDE DEF Good
<1>4. \A n \in Nat : n \in Good
  BY <1>2, <1>3, SetInduction
<1> QED
  BY <1>1, <1>4 DEF Good

\* The elements of S, each once, in the order R.
Listing(s, R, S) == /\ s \in [1..Cardinality(S) -> S]
                    /\ \A m, n \in 1..Cardinality(S) : m < n => <<s[m], s[n]>> \in R

\* A finite set can be listed in a total order.
LEMMA Listed ==
  ASSUME NEW S, NEW R, TotalOrder(R, S), IsFiniteSet(S)
  PROVE  \E s : Listing(s, R, S)
<1> DEFINE Lists(s, T) == /\ s \in [1..Cardinality(T) -> T]
                          /\ \A i, j \in 1..Cardinality(T) : i < j => <<s[i], s[j]>> \in R
           Good == {n \in Nat : \A T \in SUBSET S :
                                  Cardinality(T) = n => \E s : Lists(s, T)}
<1>1. \A T \in SUBSET S : IsFiniteSet(T) /\ Cardinality(T) \in Nat
  BY FS_Subset, FS_CardinalityType
<1>2. 0 \in Good
  <2> SUFFICES ASSUME NEW T \in SUBSET S, Cardinality(T) = 0
               PROVE  \E s : Lists(s, T)
    OBVIOUS
  <2>1. Lists([i \in 1..0 |-> 0], T)
    OBVIOUS
  <2> QED
    BY <2>1
<1>3. ASSUME NEW n \in Nat, n \in Good
      PROVE  n + 1 \in Good
  <2> SUFFICES ASSUME NEW T \in SUBSET S, Cardinality(T) = n + 1
               PROVE  \E s : Lists(s, T)
    OBVIOUS
  <2>1. T # {} /\ IsFiniteSet(T)
    BY <1>1, FS_EmptySet
  <2>2. TotalOrder(R, T)
    BY DEF TotalOrder
  <2>3. PICK x \in T : \A y \in T \ {x} : <<y, x>> \in R
    BY <2>1, <2>2, LastExists
  <2>4. Cardinality(T \ {x}) = n
    BY <2>1, FS_RemoveElement
  <2>5. PICK s : Lists(s, T \ {x})
    BY <1>3, <2>4
  <2>6. /\ s \in [1..n -> T \ {x}]
        /\ \A i, j \in 1..n : i < j => <<s[i], s[j]>> \in R
    BY <2>4, <2>5
  <2> DEFINE t == [i \in 1..(n + 1) |-> IF i = n + 1 THEN x ELSE s[i]]
  <2>7. t \in [1..(n + 1) -> T]
    BY <2>6
  <2>8. \A i, j \in 1..(n + 1) : i < j => <<t[i], t[j]>> \in R
    <3> SUFFICES ASSUME NEW i \in 1..(n + 1), NEW j \in 1..(n + 1), i < j
                 PROVE  <<t[i], t[j]>> \in R
      OBVIOUS
    <3>1. i \in 1..n /\ t[i] = s[i] /\ s[i] \in T \ {x}
      BY <2>6
    <3>2. CASE j = n + 1
      BY <2>3, <3>1, <3>2
    <3>3. CASE j # n + 1
      BY <2>6, <3>1, <3>3
    <3> QED
      BY <3>2, <3>3
  <2> QED
    BY <2>7, <2>8
<1> HIDE DEF Good
<1>4. \A n \in Nat : n \in Good
  BY <1>2, <1>3, SetInduction
<1>5. \E s : Lists(s, S)
  BY <1>1, <1>4 DEF Good
<1> QED
  BY <1>5 DEF Listing

\* Such a list has every element once.
LEMMA ListIsComplete ==
  ASSUME NEW S, NEW R, TotalOrder(R, S), IsFiniteSet(S), NEW s, Listing(s, R, S)
  PROVE  /\ \A m, n \in 1..Cardinality(S) : s[m] = s[n] => m = n
         /\ \A x \in S : \E n \in 1..Cardinality(S) : s[n] = x
<1> DEFINE N == 1..Cardinality(S)
<1>1. /\ Cardinality(S) \in Nat /\ s \in [N -> S]
      /\ \A m, n \in N : m < n => <<s[m], s[n]>> \in R
  BY FS_CardinalityType DEF Listing
<1>2. IsFiniteSet(N) /\ Cardinality(N) = Cardinality(S)
  BY <1>1, FS_Interval
<1>3. \A m, n \in N : s[m] = s[n] => m = n
  <2> SUFFICES ASSUME NEW m \in N, NEW n \in N, s[m] = s[n], m # n
               PROVE  FALSE
    OBVIOUS
  <2>1. m < n \/ n < m
    BY <1>1
  <2> QED
    BY <1>1, <2>1 DEF TotalOrder
<1> HIDE DEF N
<1>4. s \in Injection(N, S)
  BY <1>1, <1>3, Fun_IsInj
<1>5. s \in Surjection(N, S)
  BY <1>2, <1>4, FS_Injection
<1> QED
  BY <1>3, <1>5 DEF Surjection, N

-----------------------------------------------------------------------------
LEMMA MaxOfTwo ==
  ASSUME NEW a \in Int, NEW b \in Int
  PROVE  Max({a, b}) = IF a >= b THEN a ELSE b
<1>1. \E m \in {a, b} : \A x \in {a, b} : m >= x
  OBVIOUS
<1>2. Max({a, b}) \in {a, b} /\ \A x \in {a, b} : Max({a, b}) >= x
  BY <1>1 DEF Max
<1> QED
  BY <1>2

LEMMA MinOfTwo ==
  ASSUME NEW a \in Int, NEW b \in Int
  PROVE  Min({a, b}) = IF a <= b THEN a ELSE b
<1>1. \E m \in {a, b} : \A x \in {a, b} : m <= x
  OBVIOUS
<1>2. Min({a, b}) \in {a, b} /\ \A x \in {a, b} : Min({a, b}) <= x
  BY <1>1 DEF Min
<1> QED
  BY <1>2

-----------------------------------------------------------------------------
\* Keys of N numbers are compared at the first place where they differ.
Lexical(s, t, N) == \E n \in 1..N : /\ s[n] < t[n]
                                     /\ \A m \in 1..(n - 1) : s[m] = t[m]

LEMMA LexicalOrder ==
  ASSUME NEW N \in Nat,
         NEW s \in [1..N -> Int], NEW t \in [1..N -> Int], NEW u \in [1..N -> Int]
  PROVE  /\ ~Lexical(s, s, N)
         /\ Lexical(s, t, N) /\ Lexical(t, u, N) => Lexical(s, u, N)
         /\ s = t \/ Lexical(s, t, N) \/ Lexical(t, s, N)
<1>1. ~Lexical(s, s, N)
  BY DEF Lexical
<1>2. ASSUME Lexical(s, t, N), Lexical(t, u, N)
      PROVE  Lexical(s, u, N)
  <2>1. PICK a \in 1..N : s[a] < t[a] /\ \A m \in 1..(a - 1) : s[m] = t[m]
    BY <1>2 DEF Lexical
  <2>2. PICK b \in 1..N : t[b] < u[b] /\ \A m \in 1..(b - 1) : t[m] = u[m]
    BY <1>2 DEF Lexical
  <2>3. CASE a < b
    <3>1. s[a] < u[a] /\ \A m \in 1..(a - 1) : s[m] = u[m]
      BY <2>1, <2>2, <2>3
    <3> QED
      BY <3>1 DEF Lexical
  <2>4. CASE b <= a
    <3>1. s[b] < u[b] /\ \A m \in 1..(b - 1) : s[m] = u[m]
      BY <2>1, <2>2, <2>4
    <3> QED
      BY <3>1 DEF Lexical
  <2> QED
    BY <2>3, <2>4
<1>3. ASSUME s # t
      PROVE  Lexical(s, t, N) \/ Lexical(t, s, N)
  <2> DEFINE Differ == {n \in 1..N : s[n] # t[n]}
  <2>1. Differ # {} /\ Differ \in SUBSET Nat
    <3>1. s = [n \in 1..N |-> s[n]] /\ t = [n \in 1..N |-> t[n]]
      OBVIOUS
    <3>2. \E n \in 1..N : s[n] # t[n]
      BY <1>3, <3>1
    <3>3. \A n \in Differ : n \in Nat
      OBVIOUS
    <3> QED
      BY <3>2, <3>3
  <2> HIDE DEF Differ
  <2>2. PICK n \in Differ : \A k \in Differ : n <= k
    BY <2>1, Smallest
  <2>3. /\ n \in 1..N /\ s[n] # t[n]
        /\ \A m \in 1..(n - 1) : s[m] = t[m]
    BY <2>2 DEF Differ
  <2>4. s[n] < t[n] \/ t[n] < s[n]
    BY <2>3
  <2> QED
    BY <2>3, <2>4 DEF Lexical
<1> QED
  BY <1>1, <1>2, <1>3

-----------------------------------------------------------------------------
LEMMA FlattenEmpty == FlattenSeq(<<>>) = <<>>
BY DEF FlattenSeq

\* What FlattenSeq computes: the first sequence, with one after the other appended.
Grown(f, ss, n) == /\ f[1] = ss[1]
                   /\ \A i \in 2..n : f[i] = f[i - 1] \o ss[i]

LEMMA FlattenGrows ==
  ASSUME NEW X, NEW ss \in Seq(Seq(X)), Len(ss) # 0
  PROVE  \E f \in [1..Len(ss) -> Seq(X)] :
           Grown(f, ss, Len(ss)) /\ FlattenSeq(ss) = f[Len(ss)]
<1> DEFINE Def(f, i) == IF i = 1 THEN ss[i] ELSE f[i - 1] \o ss[i]
           N == Len(ss)
<1>1. N \in Nat /\ N >= 1 /\ \A i \in 1..N : ss[i] \in Seq(X)
  BY ElementOfSeq
<1>2. \E f : f = [i \in 1..N |-> Def(f, i)]
  <2> DEFINE Good == {n \in Nat : n <= N =>
                        \E f \in [1..n -> Seq(X)] : \A i \in 1..n : f[i] = Def(f, i)}
  <2>1. 0 \in Good
    <3>1. \E f \in [1..0 -> Seq(X)] : TRUE
      <4>1. [i \in 1..0 |-> <<>>] \in [1..0 -> Seq(X)]
        OBVIOUS
      <4> QED
        BY <4>1
    <3>2. \A i \in 1..0 : FALSE
      OBVIOUS
    <3> HIDE DEF Def
    <3> QED
      BY <3>1, <3>2
  <2>2. ASSUME NEW n \in Nat, n \in Good
        PROVE  n + 1 \in Good
    <3> SUFFICES ASSUME n + 1 <= N
                 PROVE  \E f \in [1..(n + 1) -> Seq(X)] :
                          \A i \in 1..(n + 1) : f[i] = Def(f, i)
      OBVIOUS
    <3>1. n <= N
      BY <1>1
    <3>2. PICK f \in [1..n -> Seq(X)] : \A i \in 1..n : f[i] = Def(f, i)
      BY <2>2, <3>1
    <3>3. Def(f, n + 1) \in Seq(X)
      <4>1. CASE n = 0
        BY <1>1, <4>1
      <4>2. CASE n # 0
        <5>1. f[n] \in Seq(X) /\ ss[n + 1] \in Seq(X) /\ n + 1 # 1 /\ n + 1 - 1 = n
          BY <1>1, <3>2, <4>2
        <5> QED
          BY <5>1, ConcatProperties
      <4> QED
        BY <4>1, <4>2
    <3> DEFINE last == Def(f, n + 1)
               g == [i \in 1..(n + 1) |-> IF i = n + 1 THEN last ELSE f[i]]
    <3> HIDE DEF last
    <3>4. g \in [1..(n + 1) -> Seq(X)]
      BY <3>2, <3>3 DEF last
    <3>5. \A i \in 1..n : g[i] = f[i]
      OBVIOUS
    <3>6. g[n + 1] = last
      OBVIOUS
    <3> HIDE DEF g
    <3>7. \A i \in 1..(n + 1) : g[i] = Def(g, i)
      <4> SUFFICES ASSUME NEW i \in 1..(n + 1) PROVE g[i] = Def(g, i)
        OBVIOUS
      <4>1. i = 1 \/ i - 1 \in 1..n
        OBVIOUS
      <4>2. Def(g, i) = Def(f, i)
        BY <3>5, <4>1
      <4>3. i = n + 1 \/ i \in 1..n
        OBVIOUS
      <4>4. g[i] = Def(f, i)
        BY <3>2, <3>5, <3>6, <4>3, Zenon DEF last
      <4> QED
        BY <4>2, <4>4, Zenon
    <3> QED
      BY <3>4, <3>7
  <2> HIDE DEF Good
  <2>3. N \in Good
    BY <1>1, <2>1, <2>2, SetInduction
  <2>4. PICK f \in [1..N -> Seq(X)] : \A i \in 1..N : f[i] = Def(f, i)
    <3> HIDE DEF Def, N
    <3>1. N <= N
      BY <1>1
    <3> QED
      BY <1>1, <2>3, <3>1, Zenon DEF Good
  <2>5. f = [i \in 1..N |-> Def(f, i)]
    BY <2>4
  <2> QED
    BY <2>5
<1> DEFINE f == CHOOSE f : f = [i \in 1..N |-> Def(f, i)]
<1>3. f = [i \in 1..N |-> Def(f, i)]
  BY <1>2
<1>4. FlattenSeq(ss) = f[N]
  BY DEF FlattenSeq
<1> HIDE DEF f
<1>5. \A i \in 1..N : f[i] = Def(f, i)
  BY <1>3
<1>6. \A i \in 1..N : f[i] \in Seq(X)
  <2> DEFINE Good == {n \in Nat : n \in 1..N => f[n] \in Seq(X)}
  <2>1. 0 \in Good
    OBVIOUS
  <2>2. ASSUME NEW n \in Nat, n \in Good
        PROVE  n + 1 \in Good
    <3> SUFFICES ASSUME n + 1 \in 1..N PROVE f[n + 1] \in Seq(X)
      OBVIOUS
    <3>1. CASE n = 0
      BY <1>1, <1>5, <3>1
    <3>2. CASE n # 0
      <4>1. f[n] \in Seq(X) /\ ss[n + 1] \in Seq(X)
        BY <1>1, <2>2, <3>2
      <4>2. f[n + 1] = f[n] \o ss[n + 1]
        <5>1. n + 1 # 1 /\ n + 1 - 1 = n
          BY <3>2
        <5>2. f[n + 1] = Def(f, n + 1)
          BY <1>5, Zenon
        <5>3. f[n + 1] = IF n + 1 = 1 THEN ss[n + 1] ELSE f[n + 1 - 1] \o ss[n + 1]
          BY <5>2
        <5> QED
          BY <5>1, <5>3
      <4> QED
        BY <4>1, <4>2, ConcatProperties
    <3> QED
      BY <3>1, <3>2
  <2> HIDE DEF Good
  <2>3. \A n \in Nat : n \in Good
    BY <2>1, <2>2, SetInduction
  <2> QED
    BY <1>1, <2>3 DEF Good
<1>7. f \in [1..N -> Seq(X)]
  <2>1. f = [i \in 1..N |-> f[i]]
    BY <1>3
  <2> QED
    BY <1>6, <2>1
<1>8. Grown(f, ss, N)
  <2>1. f[1] = ss[1]
    BY <1>1, <1>5
  <2>2. ASSUME NEW i \in 2..N
        PROVE  f[i] = f[i - 1] \o ss[i]
    <3>1. i \in 1..N /\ i # 1
      BY <1>1
    <3>2. f[i] = Def(f, i)
      BY <1>5, <3>1, Zenon
    <3> QED
      BY <3>1, <3>2, Zenon
  <2> QED
    BY <2>1, <2>2 DEF Grown
<1> QED
  BY <1>4, <1>7, <1>8

LEMMA FlattenInSeq ==
  ASSUME NEW X, NEW ss \in Seq(Seq(X))
  PROVE  FlattenSeq(ss) \in Seq(X)
<1>1. CASE ss = <<>>
  BY <1>1, FlattenEmpty, EmptyInSeq
<1>2. CASE ss # <<>>
  <2>1. Len(ss) \in Nat \ {0}
    BY <1>2, EmptySeq
  <2>2. PICK f \in [1..Len(ss) -> Seq(X)] : FlattenSeq(ss) = f[Len(ss)]
    BY <2>1, FlattenGrows
  <2>3. Len(ss) \in 1..Len(ss)
    BY <2>1
  <2>4. f[Len(ss)] \in Seq(X)
    BY <2>2, <2>3, Zenon
  <2> QED
    BY <2>2, <2>4
<1> QED
  BY <1>1, <1>2

LEMMA FlattenAppend ==
  ASSUME NEW X, NEW ss \in Seq(Seq(X)), NEW x \in Seq(X)
  PROVE  FlattenSeq(Append(ss, x)) = FlattenSeq(ss) \o x
<1> DEFINE N == Len(ss)
           tt == Append(ss, x)
<1>1. /\ N \in Nat /\ tt \in Seq(Seq(X)) /\ Len(tt) = N + 1 /\ Len(tt) # 0
      /\ tt[N + 1] = x /\ \A i \in 1..N : tt[i] = ss[i]
  OBVIOUS
<1> HIDE DEF tt
<1>2. PICK g \in [1..(N + 1) -> Seq(X)] :
        Grown(g, tt, N + 1) /\ FlattenSeq(tt) = g[N + 1]
  BY <1>1, FlattenGrows
<1>3. CASE N = 0
  <2>1. ss = <<>> /\ FlattenSeq(ss) = <<>>
    BY <1>3, EmptySeq, FlattenEmpty
  <2>2. g[1] = x
    BY <1>1, <1>2, <1>3 DEF Grown
  <2>3. <<>> \o x = x
    OBVIOUS
  <2> QED
    BY <1>2, <1>3, <2>1, <2>2, <2>3 DEF tt
<1>4. CASE N # 0
  <2>1. PICK f \in [1..N -> Seq(X)] : Grown(f, ss, N) /\ FlattenSeq(ss) = f[N]
    BY <1>4, FlattenGrows
  <2> DEFINE Good == {n \in Nat : n + 1 \in 1..N => g[n + 1] = f[n + 1]}
  <2>2. 0 \in Good
    <3>1. g[1] = tt[1] /\ f[1] = ss[1]
      BY <1>2, <2>1 DEF Grown
    <3> QED
      BY <1>1, <3>1
  <2>3. ASSUME NEW n \in Nat, n \in Good
        PROVE  n + 1 \in Good
    <3> SUFFICES ASSUME n + 1 + 1 \in 1..N PROVE g[n + 1 + 1] = f[n + 1 + 1]
      OBVIOUS
    <3>1. /\ n + 1 + 1 \in 2..N /\ n + 1 + 1 \in 2..(N + 1) /\ n + 1 + 1 - 1 = n + 1
          /\ n + 1 \in 1..N
      BY <1>1
    <3>2. g[n + 1 + 1] = g[n + 1] \o tt[n + 1 + 1] /\ f[n + 1 + 1] = f[n + 1] \o ss[n + 1 + 1]
      <4>1. PICK m \in 2..N : m \in 2..(N + 1) /\ m = n + 1 + 1 /\ m - 1 = n + 1
        BY <3>1
      <4>2. g[m] = g[m - 1] \o tt[m] /\ f[m] = f[m - 1] \o ss[m]
        BY <1>2, <2>1, <4>1 DEF Grown
      <4> QED
        BY <4>1, <4>2
    <3>3. g[n + 1] = f[n + 1]
      BY <2>3, <3>1
    <3> QED
      BY <1>1, <3>2, <3>3
  <2> HIDE DEF Good
  <2>4. \A n \in Nat : n \in Good
    BY <2>2, <2>3, SetInduction
  <2>5. g[N] = f[N]
    <3>1. N - 1 \in Nat /\ N - 1 + 1 = N /\ N \in 1..N
      BY <1>1, <1>4
    <3>2. N - 1 \in Good
      BY <2>4, <3>1
    <3> QED
      BY <3>1, <3>2 DEF Good
  <2>6. g[N + 1] = g[N] \o tt[N + 1]
    <3>1. PICK m \in 2..(N + 1) : m = N + 1 /\ m - 1 = N
      BY <1>1, <1>4
    <3>2. g[m] = g[m - 1] \o tt[m]
      BY <1>2, <3>1 DEF Grown
    <3> QED
      BY <3>1, <3>2
  <2> QED
    BY <1>1, <1>2, <2>1, <2>5, <2>6 DEF tt
<1> QED
  BY <1>3, <1>4

\* One sequence alone, and sequences of one element each.
LEMMA FlattenOne ==
  ASSUME NEW X, NEW x \in Seq(X)
  PROVE  FlattenSeq(<<x>>) = x
<1> DEFINE ss == <<x>>
<1>1. ss \in Seq(Seq(X)) /\ Len(ss) = 1 /\ Len(ss) # 0 /\ ss[1] = x
  OBVIOUS
<1> HIDE DEF ss
<1>2. FlattenSeq(ss) = x
  <2>1. PICK f \in [1..1 -> Seq(X)] : Grown(f, ss, 1) /\ FlattenSeq(ss) = f[1]
    <3>1. \E f \in [1..Len(ss) -> Seq(X)] : Grown(f, ss, Len(ss)) /\ FlattenSeq(ss) = f[Len(ss)]
      BY <1>1, FlattenGrows
    <3> QED
      BY <1>1, <3>1
  <2> QED
    BY <1>1, <2>1 DEF Grown
<1> QED
  BY <1>2 DEF ss

LEMMA FlattenSingles ==
  ASSUME NEW X, NEW xs \in Seq(X)
  PROVE  FlattenSeq([k \in 1..Len(xs) |-> <<xs[k]>>]) = xs
<1> DEFINE N == Len(xs)
           ss == [k \in 1..N |-> <<xs[k]>>]
<1>1. N \in Nat /\ \A k \in 1..N : xs[k] \in X
  BY LenProperties, ElementOfSeq
<1>2. CASE N = 0
  <2>1. xs = <<>>
    BY <1>2, EmptySeq
  <2> QED
    BY <2>1, FlattenEmpty
<1>3. CASE N # 0
  <2> HIDE DEF N
  <2>1. /\ ss \in Seq(Seq(X)) /\ Len(ss) = N
        /\ \A k \in 1..N : ss[k] = <<xs[k]>> /\ <<xs[k]>> \in Seq(X)
    <3>1. \A k \in 1..N : <<xs[k]>> \in Seq(X)
      BY <1>1
    <3>2. [k \in 1..N |-> <<xs[k]>>] \in Seq(Seq(X))
      BY <1>1, <3>1, IsASeq
    <3> QED
      BY <1>1, <3>1, <3>2
  <2> HIDE DEF ss
  <2>2. PICK f \in [1..N -> Seq(X)] : Grown(f, ss, N) /\ FlattenSeq(ss) = f[N]
    <3>1. \E f \in [1..Len(ss) -> Seq(X)] : Grown(f, ss, Len(ss)) /\ FlattenSeq(ss) = f[Len(ss)]
      BY <1>3, <2>1, FlattenGrows
    <3> QED
      BY <2>1, <3>1
  <2> DEFINE Good == {n \in Nat : n \in 1..N => /\ Len(f[n]) = n
                                                /\ \A k \in 1..n : f[n][k] = xs[k]}
  <2>3. 0 \in Good
    OBVIOUS
  <2>4. ASSUME NEW n \in Nat, n \in Good
        PROVE  n + 1 \in Good
    <3> SUFFICES ASSUME n + 1 \in 1..N
                 PROVE  Len(f[n + 1]) = n + 1 /\ \A k \in 1..(n + 1) : f[n + 1][k] = xs[k]
      OBVIOUS
    <3>1. CASE n = 0
      <4>1. f[1] = <<xs[1]>> /\ n + 1 = 1
        BY <1>1, <1>3, <2>1, <2>2, <3>1 DEF Grown
      <4>2. Len(<<xs[1]>>) = 1 /\ <<xs[1]>>[1] = xs[1] /\ \A k \in 1..1 : k = 1
        OBVIOUS
      <4>3. Len(f[1]) = 1 /\ \A k \in 1..1 : f[1][k] = xs[k]
        BY <4>1, <4>2
      <4> QED
        BY <4>1, <4>3
    <3>2. CASE n # 0
      <4> DEFINE g == f[n]
                 x == <<xs[n + 1]>>
      <4>1. n \in 1..N /\ n + 1 \in 2..N /\ n + 1 - 1 = n
        BY <1>1, <3>2
      <4>2. f[n + 1] = g \o x
        <5> HIDE DEF g, x
        <5>1. \A i \in 2..N : f[i] = f[i - 1] \o ss[i]
          BY <2>2 DEF Grown
        <5>2. PICK m : m = n + 1
          OBVIOUS
        <5>3. m \in 2..N /\ m - 1 = n
          BY <4>1, <5>2
        <5>4. f[m] = f[m - 1] \o ss[m]
          BY <5>1, <5>3
        <5>5. f[n + 1] = f[n] \o ss[n + 1]
          BY <5>2, <5>3, <5>4
        <5>6. ss[n + 1] = x
          BY <2>1, <4>1 DEF x
        <5> QED
          BY <4>1, <5>5, <5>6 DEF g
      <4>3. g \in Seq(X) /\ Len(g) = n /\ \A k \in 1..n : g[k] = xs[k]
        BY <2>4, <4>1
      <4>4. x \in Seq(X) /\ Len(x) = 1 /\ x[1] = xs[n + 1]
        BY <2>1
      <4> HIDE DEF g, x
      <4>5. /\ Len(g \o x) = n + 1
            /\ \A k \in 1..(n + 1) : (g \o x)[k] = IF k <= n THEN g[k] ELSE x[k - n]
        <5> DEFINE w == g \o x
        <5>1. /\ Len(w) = Len(g) + Len(x)
              /\ \A k \in 1..(Len(g) + Len(x)) :
                   w[k] = IF k <= Len(g) THEN g[k] ELSE x[k - Len(g)]
          BY <4>3, <4>4, ConcatProperties
        <5> HIDE DEF w
        <5>2. Len(w) = n + 1 /\ \A k \in 1..(n + 1) : w[k] = IF k <= n THEN g[k] ELSE x[k - n]
          BY <4>3, <4>4, <5>1
        <5> QED
          BY <5>2 DEF w
      <4>6. ASSUME NEW k \in 1..(n + 1) PROVE (g \o x)[k] = xs[k]
        <5>1. CASE k <= n
          <6>1. k \in 1..n
            BY <5>1
          <6> QED
            BY <4>3, <4>5, <5>1, <6>1
        <5>2. CASE ~(k <= n)
          <6>1. k = n + 1 /\ k - n = 1
            BY <5>2
          <6> QED
            BY <4>4, <4>5, <5>2, <6>1
        <5> QED
          BY <5>1, <5>2
      <4> QED
        BY <4>2, <4>5, <4>6
    <3> QED
      BY <3>1, <3>2
  <2> HIDE DEF Good
  <2>5. N \in Good
    BY <1>1, <2>3, <2>4, SetInduction
  <2>6. N \in 1..N
    BY <1>1, <1>3
  <2>7. f[N] \in Seq(X) /\ Len(f[N]) = N /\ \A k \in 1..N : f[N][k] = xs[k]
    BY <2>2, <2>5, <2>6 DEF Good
  <2> DEFINE g == f[N]
  <2>8. g \in Seq(X) /\ Len(g) = Len(xs) /\ \A k \in 1..Len(g) : g[k] = xs[k]
    BY <2>7 DEF N
  <2> HIDE DEF g
  <2>9. g = xs
    BY <2>8, SeqEqual
  <2>10. FlattenSeq(ss) = xs
    BY <2>2, <2>9 DEF g
  <2> QED
    BY <2>10 DEF ss, N
<1> QED
  BY <1>2, <1>3 DEF N

-----------------------------------------------------------------------------
\* A function on 0..N that is defined by its value at 0 and, for each other number, by
\* that before exists; a definition by CHOOSE, as recursive functions are, denotes it.
Repeats(f, base, step, n) == f[0] = base /\ \A i \in 1..n : f[i] = step[i][f[i - 1]]

LEMMA Recursion ==
  ASSUME NEW X, NEW base \in X, NEW N \in Nat, NEW step \in [1..N -> [X -> X]]
  PROVE  \E f \in [0..N -> X] : Repeats(f, base, step, N)
<1> DEFINE Fits(f, n) == f[0] = base /\ \A i \in 1..n : f[i] = step[i][f[i - 1]]
           Good == {n \in Nat : n <= N => \E f \in [0..n -> X] : Fits(f, n)}
<1>1. 0 \in Good
  <2>1. [i \in 0..0 |-> base] \in [0..0 -> X] /\ Fits([i \in 0..0 |-> base], 0)
    OBVIOUS
  <2> QED
    BY <2>1
<1>2. ASSUME NEW n \in Nat, n \in Good
      PROVE  n + 1 \in Good
  <2> SUFFICES ASSUME n + 1 <= N PROVE \E f \in [0..(n + 1) -> X] : Fits(f, n + 1)
    OBVIOUS
  <2>1. PICK f \in [0..n -> X] : Fits(f, n)
    BY <1>2
  <2> DEFINE next == step[n + 1][f[n]]
             g == [i \in 0..(n + 1) |-> IF i = n + 1 THEN next ELSE f[i]]
  <2>2. next \in X
    BY <2>1
  <2> HIDE DEF next
  <2>3. g \in [0..(n + 1) -> X]
    BY <2>1, <2>2
  <2>4. g[n + 1] = next /\ \A i \in 0..n : g[i] = f[i]
    OBVIOUS
  <2> HIDE DEF g
  <2>5. Fits(g, n + 1)
    <3>1. ASSUME NEW i \in 1..(n + 1) PROVE g[i] = step[i][g[i - 1]]
      <4>1. CASE i = n + 1
        <5>1. g[i - 1] = f[n]
          BY <2>4, <4>1
        <5> QED
          BY <2>4, <4>1, <5>1 DEF next
      <4>2. CASE i # n + 1
        <5>1. i \in 1..n /\ i - 1 \in 0..n /\ i \in 0..n
          BY <4>2
        <5> QED
          BY <2>1, <2>4, <5>1
      <4> QED
        BY <4>1, <4>2
    <3> QED
      BY <2>1, <2>4, <3>1
  <2> QED
    BY <2>3, <2>5
<1> HIDE DEF Good, Fits
<1>3. N \in Good
  BY <1>1, <1>2, SetInduction
<1>4. N <= N
  OBVIOUS
<1> QED
  BY <1>3, <1>4 DEF Good, Fits, Repeats

LEMMA Largest ==
  ASSUME NEW S \in SUBSET Nat, S # {}, NEW n \in Nat, \A x \in S : x <= n
  PROVE  \E m \in S : \A x \in S : x <= m
<1> DEFINE D == {d \in 0..n : n - d \in S}
<1>1. D \in SUBSET Nat
  OBVIOUS
<1>2. \A x \in S : n - x \in D /\ n - (n - x) = x
  OBVIOUS
<1>3. PICK d \in D : \A e \in D : d <= e
  BY <1>1, <1>2, Smallest
<1>4. n - d \in S
  OBVIOUS
<1>5. ASSUME NEW x \in S PROVE x <= n - d
  <2>1. d <= n - x /\ d \in Nat /\ x \in Nat
    BY <1>1, <1>2, <1>3
  <2> QED
    BY <2>1
<1> QED
  BY <1>4, <1>5

\* The number that is in a set and not below any other of it is its maximum.
LEMMA MaxIs ==
  ASSUME NEW S \in SUBSET Nat, NEW m \in S, \A x \in S : x <= m
  PROVE  Max(S) = m
<1>1. \A x \in S : m >= x
  OBVIOUS
<1>2. Max(S) \in S /\ \A x \in S : Max(S) >= x
  BY <1>1, Zenon DEF Max
<1> DEFINE max == Max(S)
<1>3. max \in S /\ max >= m
  BY <1>2
<1> HIDE DEF max
<1>4. max = m
  BY <1>3
<1> QED
  BY <1>4 DEF max

=============================================================================
