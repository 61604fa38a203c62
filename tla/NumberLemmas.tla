---------------------------- MODULE NumberLemmas ---------------------------
(***************************************************************************)
(* What the proofs need of the natural numbers and of what is built on     *)
(* them: their order, induction, sums over finite sets, and folds over     *)
(* sequences.                                                              *)
(***************************************************************************)
EXTENDS Naturals, FiniteSetsExt, FiniteSetTheorems, TLAPS, WellFoundedInduction

\* A set of numbers has a smallest one.
LEMMA SmallestExists ==
  ASSUME NEW R \in SUBSET Nat, R /= {}
  PROVE  \E r \in R : \A q \in R : r <= q
  <1>1. PICK r \in R : \A q \in R : ~ (<<q, r>> \in OpToRel(<, Nat))
    BY NatLessThanWellFounded, WFMin
  <1>2. \A q \in R : ~ (q < r)
    BY <1>1 DEF OpToRel
  <1> QED
    BY <1>2

\* Induction over the numbers, for a set of them: SMT cannot take a predicate as a
\* parameter, and a set does as well.
LEMMA NatInductionSet ==
  ASSUME NEW S, 0 \in S, \A n \in Nat : n \in S => n + 1 \in S
  PROVE  \A n \in Nat : n \in S
  <1> SUFFICES ASSUME Nat \ S /= {} PROVE FALSE
    OBVIOUS
  <1>1. PICK r \in Nat \ S : \A q \in Nat \ S : r <= q
    BY SmallestExists
  <1>2. r - 1 \in Nat /\ r - 1 \in S
    BY <1>1
  <1> QED
    BY <1>1, <1>2

-----------------------------------------------------------------------------
(* Sums *)

\* MapThenSumSet for a function f: what it chooses, over the subsets of S.
Some(s) == CHOOSE x \in s : TRUE
SumStep(f, g, s) == IF s = {} THEN 0 ELSE f[Some(s)] + g[s \ {Some(s)}]
SumsOver(f, S, g) == g = [s \in SUBSET S |-> SumStep(f, g, s)]
SumOf(f, S) == (CHOOSE g : SumsOver(f, S, g))[S]

LEMMA SomeIsIn == ASSUME NEW s, s /= {} PROVE Some(s) \in s
  BY DEF Some

LEMMA OneLess ==
  ASSUME NEW S, IsFiniteSet(S), NEW x \in S
  PROVE  /\ IsFiniteSet(S \ {x}) /\ Cardinality(S) \in Nat /\ Cardinality(S \ {x}) \in Nat
         /\ Cardinality(S) = Cardinality(S \ {x}) + 1
  <1>1. /\ Cardinality(S) \in Nat /\ Cardinality(S \ {x}) \in Nat
        /\ IsFiniteSet(S \ {x})
    BY FS_RemoveElement, FS_CardinalityType
  <1> QED
    BY <1>1, FS_RemoveElement

LEMMA SubsetFinite ==
  ASSUME NEW S, IsFiniteSet(S), NEW r \in SUBSET S
  PROVE  IsFiniteSet(r) /\ Cardinality(r) \in Nat
  BY FS_Subset, FS_CardinalityType

SumsUpTo(f, S, n, g) ==
  g = [s \in {r \in SUBSET S : Cardinality(r) <= n} |-> SumStep(f, g, s)]

LEMMA SumsExist ==
  ASSUME NEW S, IsFiniteSet(S), NEW f
  PROVE  \E g : SumsOver(f, S, g)
  <1> DEFINE Small(n) == {r \in SUBSET S : Cardinality(r) <= n}
             N == {n \in Nat : \E g : SumsUpTo(f, S, n, g)}
  <1>1. 0 \in N
    <2>1. \A s \in Small(0) : s = {}
      <3> TAKE s \in Small(0)
      <3>1. Cardinality(s) \in Nat /\ Cardinality(s) <= 0 /\ IsFiniteSet(s)
        BY SubsetFinite
      <3> QED
        BY <3>1, FS_EmptySet
    <2> DEFINE g == [s \in Small(0) |-> 0]
    <2> HIDE DEF g, Small
    <2>2. \A s \in Small(0) : SumStep(f, g, s) = 0
      BY <2>1 DEF SumStep
    <2>3. g = [s \in Small(0) |-> SumStep(f, g, s)]
      BY <2>2 DEF g
    <2> QED
      BY <2>3 DEF SumsUpTo, Small
  <1>2. \A n \in Nat : n \in N => n + 1 \in N
    <2> SUFFICES ASSUME NEW n \in Nat, NEW g, SumsUpTo(f, S, n, g)
                 PROVE  \E k : SumsUpTo(f, S, n + 1, k)
      OBVIOUS
    <2> DEFINE k == [s \in Small(n + 1) |-> SumStep(f, g, s)]
    <2>1. \A s \in Small(n) : s \in Small(n + 1) /\ k[s] = g[s]
      <3> TAKE s \in Small(n)
      <3>1. s \in Small(n + 1)
        BY SubsetFinite
      <3>2. g[s] = SumStep(f, g, s)
        BY DEF SumsUpTo
      <3> QED
        BY <3>1, <3>2
    <2> HIDE DEF k
    <2>2. \A s \in Small(n + 1) : SumStep(f, k, s) = SumStep(f, g, s)
      <3> TAKE s \in Small(n + 1)
      <3>1. CASE s = {}
        BY <3>1 DEF SumStep
      <3>2. CASE s /= {}
        <4>1. Some(s) \in s
          BY <3>2, SomeIsIn
        <4>2. /\ IsFiniteSet(s) /\ Cardinality(s) \in Nat /\ Cardinality(s) <= n + 1
          BY SubsetFinite
        <4>3. s \ {Some(s)} \in Small(n)
          BY <4>1, <4>2, OneLess
        <4> QED
          BY <2>1, <4>3 DEF SumStep
      <3> QED
        BY <3>1, <3>2
    <2>3. k = [s \in Small(n + 1) |-> SumStep(f, k, s)]
      BY <2>2 DEF k
    <2> QED
      BY <2>3 DEF SumsUpTo
  <1>3. Cardinality(S) \in Nat
    BY FS_CardinalityType
  <1> HIDE DEF N
  <1>4. Cardinality(S) \in N
    BY <1>1, <1>2, <1>3, NatInductionSet
  <1>5. Small(Cardinality(S)) = SUBSET S
    BY FS_Subset
  <1> QED
    BY <1>4, <1>5 DEF SumsOver, SumsUpTo, N

\* What such a function is on each subset.
LEMMA SumsUnfold ==
  ASSUME NEW S, NEW f, NEW g, SumsOver(f, S, g), NEW r \in SUBSET S
  PROVE  /\ r = {} => g[r] = 0
         /\ r /= {} => g[r] = f[Some(r)] + g[r \ {Some(r)}]
  BY DEF SumsOver, SumStep

\* The sums are numbers, and any element may be taken first.
Sums(f, S, g) ==
  /\ g[{}] = 0
  /\ \A r \in SUBSET S : g[r] \in Nat /\ \A h \in r : g[r] = f[h] + g[r \ {h}]

LEMMA SumsRemove ==
  ASSUME NEW S, IsFiniteSet(S), NEW f, \A x \in S : f[x] \in Nat,
         NEW g, SumsOver(f, S, g)
  PROVE  Sums(f, S, g)
  <1> DEFINE Fine(r) == g[r] \in Nat /\ \A h \in r : g[r] = f[h] + g[r \ {h}]
             N == {n \in Nat : \A r \in SUBSET S : Cardinality(r) <= n => Fine(r)}
  <1>01. g[{}] = 0
    <2>1. {} \in SUBSET S
      OBVIOUS
    <2> QED
      BY <2>1, SumsUnfold
  <1>0. Fine({})
    BY <1>01
  <1> HIDE DEF Fine
  <1>1. 0 \in N
    <2> SUFFICES ASSUME NEW r \in SUBSET S, Cardinality(r) <= 0 PROVE Fine(r)
      OBVIOUS
    <2>1. Cardinality(r) \in Nat /\ IsFiniteSet(r)
      BY SubsetFinite
    <2>2. r = {}
      BY <2>1, FS_EmptySet
    <2> QED
      BY <1>0, <2>2
  <1>2. \A n \in Nat : n \in N => n + 1 \in N
    <2> SUFFICES ASSUME NEW n \in Nat, n \in N, NEW r \in SUBSET S, Cardinality(r) <= n + 1
                 PROVE  Fine(r)
      OBVIOUS
    <2>0. IsFiniteSet(r) /\ Cardinality(r) \in Nat
      BY SubsetFinite
    <2>1. ASSUME NEW y \in r PROVE r \ {y} \in SUBSET S /\ Fine(r \ {y})
      <3>1. r \ {y} \in SUBSET S /\ Cardinality(r \ {y}) \in Nat /\ Cardinality(r \ {y}) <= n
        BY <2>0, OneLess
      <3> QED
        BY <3>1
    <2>2. CASE r = {}
      BY <1>0, <2>2
    <2>3. CASE r /= {}
      <3>1. PICK x : x = Some(r) /\ x \in r
        BY <2>3, SomeIsIn
      <3>2. g[r] = f[x] + g[r \ {x}]
        BY <2>3, <3>1, SumsUnfold
      <3>3. f[x] \in Nat /\ g[r \ {x}] \in Nat
        BY <2>1, <3>1 DEF Fine
      <3>4. ASSUME NEW h \in r PROVE g[r] = f[h] + g[r \ {h}]
        <4>1. CASE h = x
          BY <3>2, <4>1
        <4>2. CASE h /= x
          <5>1. PICK both : both = (r \ {x}) \ {h} /\ both = (r \ {h}) \ {x}
            OBVIOUS
          <5>2. g[r \ {x}] = f[h] + g[both]
            <6>1. Fine(r \ {x}) /\ h \in r \ {x}
              BY <2>1, <3>1, <4>2
            <6> QED
              BY <5>1, <6>1 DEF Fine
          <5>3. g[r \ {h}] = f[x] + g[both]
            <6>1. Fine(r \ {h}) /\ x \in r \ {h}
              BY <2>1, <3>1, <4>2
            <6> QED
              BY <5>1, <6>1 DEF Fine
          <5>4. f[h] \in Nat
            OBVIOUS
          <5>5. Cardinality(both) \in Nat /\ Cardinality(both) <= n /\ both \in SUBSET S
            <6>1. IsFiniteSet(r \ {x}) /\ Cardinality(r) = Cardinality(r \ {x}) + 1
              BY <2>0, <3>1, OneLess
            <6>2. h \in r \ {x} /\ both = (r \ {x}) \ {h}
              BY <4>2, <5>1
            <6>3. /\ Cardinality(r \ {x}) \in Nat /\ Cardinality(both) \in Nat
                  /\ Cardinality(r \ {x}) = Cardinality(both) + 1
              BY <6>1, <6>2, OneLess
            <6> QED
              BY <2>0, <5>1, <6>1, <6>3
          <5>6. g[both] \in Nat
            BY <5>5 DEF Fine
          <5> QED
            BY <3>2, <3>3, <5>2, <5>3, <5>4, <5>6
        <4> QED
          BY <4>1, <4>2
      <3>5. g[r] \in Nat
        BY <3>2, <3>3
      <3> QED
        BY <3>4, <3>5 DEF Fine
    <2> QED
      BY <2>2, <2>3
  <1> HIDE DEF N
  <1>3. \A n \in Nat : n \in N
    BY <1>1, <1>2, NatInductionSet
  <1>4. ASSUME NEW r \in SUBSET S PROVE Fine(r)
    <2>1. Cardinality(r) \in Nat /\ Cardinality(r) <= Cardinality(r)
      BY SubsetFinite
    <2> QED
      BY <1>3, <2>1 DEF N
  <1> QED
    BY <1>01, <1>4 DEF Fine, Sums

\* Two of them, where one function is the other but for zeros.
LEMMA SumsAgree ==
  ASSUME NEW S, IsFiniteSet(S), NEW f, \A x \in S : f[x] \in Nat, NEW g, Sums(f, S, g),
         NEW T \in SUBSET S, NEW e, NEW d, Sums(e, T, d),
         \A x \in T : e[x] = f[x], \A x \in S \ T : f[x] = 0
  PROVE  g[S] = d[T]
  <1> DEFINE Same(r) == g[r] = d[r \cap T]
             N == {n \in Nat : \A r \in SUBSET S : Cardinality(r) <= n => Same(r)}
  <1>0. Same({})
    BY DEF Sums
  <1> HIDE DEF Same
  <1>1. 0 \in N
    <2> SUFFICES ASSUME NEW r \in SUBSET S, Cardinality(r) <= 0 PROVE Same(r)
      OBVIOUS
    <2>1. Cardinality(r) \in Nat /\ IsFiniteSet(r)
      BY SubsetFinite
    <2>2. r = {}
      BY <2>1, FS_EmptySet
    <2> QED
      BY <1>0, <2>2
  <1>2. \A n \in Nat : n \in N => n + 1 \in N
    <2> SUFFICES ASSUME NEW n \in Nat, n \in N, NEW r \in SUBSET S, Cardinality(r) <= n + 1
                 PROVE  Same(r)
      OBVIOUS
    <2>0. IsFiniteSet(r) /\ Cardinality(r) \in Nat
      BY SubsetFinite
    <2>1. CASE r = {}
      BY <1>0, <2>1
    <2>2. CASE r /= {}
      <3>1. PICK x : x \in r
        BY <2>2
      <3>2. g[r] = f[x] + g[r \ {x}] /\ g[r \ {x}] \in Nat /\ f[x] \in Nat
        <4>1. r \ {x} \in SUBSET S /\ x \in S
          BY <3>1
        <4> QED
          BY <3>1, <4>1 DEF Sums
      <3>3. r \ {x} \in SUBSET S /\ Cardinality(r \ {x}) \in Nat /\ Cardinality(r \ {x}) <= n
        BY <2>0, <3>1, OneLess
      <3>4. g[r \ {x}] = d[(r \ {x}) \cap T]
        <4>1. Same(r \ {x})
          BY <3>3
        <4> QED
          BY <4>1 DEF Same
      <3>5. CASE x \in T
        <4>1. d[r \cap T] = e[x] + d[(r \cap T) \ {x}]
          <5>2. r \cap T \in SUBSET T /\ x \in r \cap T
            BY <3>1, <3>5
          <5> QED
            BY <5>2 DEF Sums
        <4>2. (r \cap T) \ {x} = (r \ {x}) \cap T
          OBVIOUS
        <4> QED
          BY <3>2, <3>4, <3>5, <4>1, <4>2 DEF Same
      <3>6. CASE x \notin T
        <4>1. (r \ {x}) \cap T = r \cap T /\ f[x] = 0
          BY <3>1, <3>6
        <4>2. g[r] = g[r \ {x}]
          BY <3>2, <4>1
        <4> QED
          BY <3>4, <4>1, <4>2 DEF Same
      <3> QED
        BY <3>5, <3>6
    <2> QED
      BY <2>1, <2>2
  <1> HIDE DEF N
  <1>3. \A n \in Nat : n \in N
    BY <1>1, <1>2, NatInductionSet
  <1>4. Same(S)
    <2>1. Cardinality(S) \in Nat /\ Cardinality(S) <= Cardinality(S) /\ S \in SUBSET S
      BY FS_CardinalityType
    <2> QED
      BY <1>3, <2>1 DEF N
  <1>5. S \cap T = T
    OBVIOUS
  <1> QED
    BY <1>4, <1>5 DEF Same

LEMMA SumOfIs ==
  ASSUME NEW S, IsFiniteSet(S), NEW f
  PROVE  \E g : SumsOver(f, S, g) /\ SumOf(f, S) = g[S]
  BY SumsExist DEF SumOf

\* What the proofs below need of the sums.
LEMMA SumOfAgree ==
  ASSUME NEW S, IsFiniteSet(S), NEW f, \A x \in S : f[x] \in Nat,
         NEW T \in SUBSET S, NEW e, \A x \in T : e[x] = f[x], \A x \in S \ T : f[x] = 0
  PROVE  SumOf(f, S) = SumOf(e, T)
  <1>1. PICK g : SumsOver(f, S, g) /\ SumOf(f, S) = g[S]
    BY SumOfIs
  <1>2. IsFiniteSet(T) /\ \A x \in T : e[x] \in Nat
    BY SubsetFinite
  <1>3. PICK d : SumsOver(e, T, d) /\ SumOf(e, T) = d[T]
    BY <1>2, SumOfIs
  <1>4. Sums(f, S, g)
    BY <1>1, SumsRemove
  <1>5. Sums(e, T, d)
    BY <1>2, <1>3, SumsRemove
  <1> QED
    BY <1>1, <1>3, <1>4, <1>5, SumsAgree

LEMMA SumOfRemove ==
  ASSUME NEW S, IsFiniteSet(S), NEW f, \A x \in S : f[x] \in Nat
  PROVE  /\ SumOf(f, S) \in Nat
         /\ \A h \in S : SumOf(f, S) = f[h] + SumOf(f, S \ {h})
  <1>1. PICK g : SumsOver(f, S, g) /\ SumOf(f, S) = g[S]
    BY SumOfIs
  <1>2. Sums(f, S, g)
    BY <1>1, SumsRemove
  <1>3. ASSUME NEW h \in S PROVE g[S \ {h}] = SumOf(f, S \ {h})
    <2>1. IsFiniteSet(S \ {h})
      BY FS_RemoveElement
    <2>2. PICK d : SumsOver(f, S \ {h}, d) /\ SumOf(f, S \ {h}) = d[S \ {h}]
      BY <2>1, SumOfIs
    <2>3. Sums(f, S \ {h}, d)
      BY <2>1, <2>2, SumsRemove
    <2>4. Sums(f, S \ {h}, g)
      BY <1>2 DEF Sums
    <2> QED
      BY <2>1, <2>2, <2>3, <2>4, SumsAgree
  <1> QED
    BY <1>1, <1>2, <1>3 DEF Sums

-----------------------------------------------------------------------------
(* Folds of a sequence of n elements *)

\* FoldLeft for a step F that is a function: what it computes from the elements
\* at the places in s.
FoldStep(F, base, seq, g, s) ==
  IF s = {} THEN base ELSE F[<<g[s \ {Max(s)}], seq[Max(s)]>>]
FoldsUpTo(F, base, seq, n, m, g) ==
  g = [s \in {r \in SUBSET (1..n) : Cardinality(r) <= m} |-> FoldStep(F, base, seq, g, s)]

LEMMA MaxIsIn ==
  ASSUME NEW n \in Nat, NEW s \in SUBSET (1..n), s /= {}
  PROVE  Max(s) \in s /\ \A x \in s : x <= Max(s)
  <1> DEFINE R == {n - x : x \in s}
  <1>1. R \in SUBSET Nat /\ R /= {}
    <2>1. \A x \in s : x \in 1..n /\ n - x \in Nat
      OBVIOUS
    <2>2. PICK x \in s : TRUE
      OBVIOUS
    <2> QED
      BY <2>1, <2>2
  <1>2. PICK r \in R : \A q \in R : r <= q
    BY <1>1, SmallestExists
  <1>3. PICK x \in s : r = n - x
    BY <1>2
  <1>4. ASSUME NEW y \in s PROVE x >= y
    <2>1. n - y \in R
      OBVIOUS
    <2> QED
      BY <1>2, <1>3, <2>1
  <1> QED
    BY <1>3, <1>4 DEF Max

LEMMA PlacesFinite ==
  ASSUME NEW n \in Nat
  PROVE  /\ IsFiniteSet(1..n) /\ Cardinality(1..n) = n
         /\ \A s \in SUBSET (1..n) :
              IsFiniteSet(s) /\ Cardinality(s) \in Nat /\ Cardinality(s) <= n
  <1>1. IsFiniteSet(1..n)
    BY FS_Interval
  <1>2. Cardinality(1..n) = n
    BY FS_Interval
  <1>3. ASSUME NEW s \in SUBSET (1..n)
        PROVE  IsFiniteSet(s) /\ Cardinality(s) \in Nat /\ Cardinality(s) <= n
    <2>1. IsFiniteSet(s) /\ Cardinality(s) <= Cardinality(1..n)
      BY <1>1, FS_Subset
    <2> QED
      BY <1>2, <2>1, FS_CardinalityType
  <1> QED
    BY <1>1, <1>2, <1>3

\* Without its last place, s is a smaller set.
LEMMA WithoutMax ==
  ASSUME NEW n \in Nat, NEW m \in Nat, NEW s \in SUBSET (1..n), s /= {}, Cardinality(s) <= m + 1
  PROVE  Max(s) \in 1..n /\ s \ {Max(s)} \in SUBSET (1..n) /\ Cardinality(s \ {Max(s)}) <= m
  <1>1. Max(s) \in s
    BY MaxIsIn
  <1>2. IsFiniteSet(s)
    BY PlacesFinite
  <1>3. /\ Cardinality(s) \in Nat /\ Cardinality(s \ {Max(s)}) \in Nat
        /\ Cardinality(s) = Cardinality(s \ {Max(s)}) + 1
    BY ONLY <1>1, <1>2, OneLess
  <1>4. Cardinality(s \ {Max(s)}) <= m
    BY ONLY <1>3, m \in Nat, Cardinality(s) <= m + 1
  <1> QED
    BY <1>1, <1>4

LEMMA FoldsExist ==
  ASSUME NEW n \in Nat, NEW F, NEW base, NEW seq
  PROVE  \E g : FoldsUpTo(F, base, seq, n, n, g)
  <1> DEFINE Small(m) == {r \in SUBSET (1..n) : Cardinality(r) <= m}
             N == {m \in Nat : \E g : FoldsUpTo(F, base, seq, n, m, g)}
  <1>1. 0 \in N
    <2>1. \A s \in Small(0) : s = {}
      <3> TAKE s \in Small(0)
      <3>1. Cardinality(s) \in Nat /\ Cardinality(s) <= 0 /\ IsFiniteSet(s)
        BY PlacesFinite
      <3> QED
        BY <3>1, FS_EmptySet
    <2> DEFINE g == [s \in Small(0) |-> base]
    <2> HIDE DEF g, Small
    <2>2. \A s \in Small(0) : FoldStep(F, base, seq, g, s) = base
      BY <2>1 DEF FoldStep
    <2>3. g = [s \in Small(0) |-> FoldStep(F, base, seq, g, s)]
      BY <2>2 DEF g
    <2> QED
      BY <2>3 DEF FoldsUpTo, Small
  <1>2. \A m \in Nat : m \in N => m + 1 \in N
    <2> SUFFICES ASSUME NEW m \in Nat, NEW g, FoldsUpTo(F, base, seq, n, m, g)
                 PROVE  \E k : FoldsUpTo(F, base, seq, n, m + 1, k)
      OBVIOUS
    <2> DEFINE k == [s \in Small(m + 1) |-> FoldStep(F, base, seq, g, s)]
    <2>1. \A s \in Small(m) : s \in Small(m + 1) /\ k[s] = g[s]
      <3> TAKE s \in Small(m)
      <3>1. s \in Small(m + 1)
        BY PlacesFinite
      <3>2. g[s] = FoldStep(F, base, seq, g, s)
        BY DEF FoldsUpTo
      <3> QED
        BY <3>1, <3>2
    <2> HIDE DEF k
    <2>2. \A s \in Small(m + 1) : FoldStep(F, base, seq, k, s) = FoldStep(F, base, seq, g, s)
      <3> TAKE s \in Small(m + 1)
      <3>1. CASE s = {}
        BY <3>1 DEF FoldStep
      <3>2. CASE s /= {}
        <4>1. s \ {Max(s)} \in Small(m)
          BY <3>2, WithoutMax
        <4> QED
          BY <2>1, <3>2, <4>1 DEF FoldStep
      <3> QED
        BY <3>1, <3>2
    <2>3. k = [s \in Small(m + 1) |-> FoldStep(F, base, seq, k, s)]
      BY <2>2 DEF k
    <2> QED
      BY <2>3 DEF FoldsUpTo
  <1> HIDE DEF N
  <1>3. n \in N
    BY <1>1, <1>2, NatInductionSet
  <1> QED
    BY <1>3 DEF N

\* Such a fold over all subsets, and that its values stay in the set D the step
\* is a function on.
FoldOver(F, base, seq, n, g) ==
  g = [s \in SUBSET (1..n) |-> FoldStep(F, base, seq, g, s)]

CanFold(n, D, E, F, base, seq) ==
  n \in Nat /\ F \in [D \X E -> D] /\ base \in D /\ \A i \in 1..n : seq[i] \in E

FoldIn(n, D, F, base, seq, g) ==
  g \in [SUBSET (1..n) -> D] /\ FoldOver(F, base, seq, n, g)

LEMMA FoldExists ==
  ASSUME NEW n, NEW D, NEW E, NEW F, NEW base, NEW seq, CanFold(n, D, E, F, base, seq)
  PROVE  \E g : FoldIn(n, D, F, base, seq, g)
  <1> n \in Nat /\ F \in [D \X E -> D] /\ base \in D /\ \A i \in 1..n : seq[i] \in E
    BY DEF CanFold
  <1> DEFINE Small(m) == {r \in SUBSET (1..n) : Cardinality(r) <= m}
  <1>1. PICK g : FoldsUpTo(F, base, seq, n, n, g)
    BY FoldsExist
  <1>2. Small(n) = SUBSET (1..n)
    <2>1. ASSUME NEW r \in SUBSET (1..n) PROVE Cardinality(r) <= n
      BY PlacesFinite
    <2> QED
      BY <2>1
  <1>3. FoldOver(F, base, seq, n, g)
    BY <1>1, <1>2 DEF FoldsUpTo, FoldOver
  <1> DEFINE N == {m \in Nat : \A s \in Small(m) : g[s] \in D}
  <1>4. 0 \in N
    <2>1. \A s \in Small(0) : s = {}
      <3> TAKE s \in Small(0)
      <3>1. Cardinality(s) \in Nat /\ Cardinality(s) <= 0 /\ IsFiniteSet(s)
        BY PlacesFinite
      <3> QED
        BY <3>1, FS_EmptySet
    <2>2. g[{}] = base
      BY <1>3 DEF FoldOver, FoldStep
    <2> QED
      BY <2>1, <2>2
  <1>5. \A m \in Nat : m \in N => m + 1 \in N
    <2> SUFFICES ASSUME NEW m \in Nat, \A s \in Small(m) : g[s] \in D,
                        NEW s \in Small(m + 1)
                 PROVE  g[s] \in D
      OBVIOUS
    <2>1. g[s] = FoldStep(F, base, seq, g, s)
      BY <1>3 DEF FoldOver
    <2>2. CASE s = {}
      BY <2>1, <2>2 DEF FoldStep
    <2>3. CASE s /= {}
      <3>1. Max(s) \in 1..n /\ s \ {Max(s)} \in Small(m)
        BY <2>3, WithoutMax
      <3>2. g[s \ {Max(s)}] \in D /\ seq[Max(s)] \in E
        BY <3>1
      <3> QED
        BY <2>1, <2>3, <3>2 DEF FoldStep
    <2> QED
      BY <2>2, <2>3
  <1> HIDE DEF N
  <1>6. n \in N
    BY <1>4, <1>5, NatInductionSet
  <1>7. g \in [SUBSET (1..n) -> D]
    BY <1>2, <1>3, <1>6 DEF N, FoldOver
  <1> QED
    BY <1>3, <1>7 DEF FoldIn

\* The places up to k, and what comes of adding the next.
LEMMA NextPlace ==
  ASSUME NEW n \in Nat, NEW k \in 0..n, k < n
  PROVE  /\ 1..(k + 1) \in SUBSET (1..n) /\ 1..k \in SUBSET (1..n)
         /\ 1..(k + 1) /= {} /\ Max(1..(k + 1)) = k + 1
         /\ (1..(k + 1)) \ {k + 1} = 1..k
  <1>1. 1..(k + 1) \in SUBSET (1..n) /\ 1..(k + 1) /= {} /\ k + 1 \in 1..(k + 1)
    OBVIOUS
  <1>2. Max(1..(k + 1)) \in 1..(k + 1) /\ \A x \in 1..(k + 1) : x <= Max(1..(k + 1))
    BY <1>1, MaxIsIn
  <1>3. Max(1..(k + 1)) = k + 1
    BY <1>1, <1>2
  <1> QED
    BY <1>1, <1>3
=============================================================================
